-------------------------------- MODULE MCWeb --------------------------------
(* Small instances of Web for TLC.                                            *)
EXTENDS Web
=============================================================================
