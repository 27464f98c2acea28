--------------------------------- MODULE Iam ---------------------------------
(***************************************************************************)
(* The authorization rules (iam/account.go, surface.go, authorization.go): *)
(* which account kinds act on which surface, which roles a kind may hold,  *)
(* and which permissions a held role carries.  They are pure, and every    *)
(* decision that reads them reads the account afresh.                      *)
(***************************************************************************)
EXTENDS Integers

Kind == {"viewer", "creator", "operator"}
Status == {"pending", "active", "suspended", "closed"}
Surface == {"public", "operator"}
Desk == {"operator_support", "operator_moderation",
         "operator_compliance", "operator_finance"}
Role == {"viewer", "creator"} \cup Desk
Permission == {"own_session:renew", "stream:watch", "stream:broadcast",
               "support_ticket:read", "moderation_case:read",
               "compliance_case:read", "payout:read"}

CanAuthenticate(status) == status = "active"

SurfaceKinds == [s \in Surface |->
    IF s = "public" THEN {"viewer", "creator"} ELSE {"operator"}]

ValidSurface(kind, surface) == kind \in SurfaceKinds[surface]

\* The surface of a role, the kinds that may hold it, what it carries.
RoleSurface(role) == IF role \in Desk THEN "operator" ELSE "public"

RoleKinds == [r \in Role |->
    CASE r = "viewer"  -> {"viewer", "creator"}
      [] r = "creator" -> {"creator"}
      [] r \in Desk    -> {"operator"}]

RolePermissions == [r \in Role |->
    {"own_session:renew"} \cup
    CASE r = "viewer"              -> {}
      [] r = "creator"             -> {"stream:broadcast"}
      [] r = "operator_support"    -> {"support_ticket:read"}
      [] r = "operator_moderation" -> {"moderation_case:read"}
      [] r = "operator_compliance" -> {"compliance_case:read"}
      [] r = "operator_finance"    -> {"payout:read"}]

ValidGrant(kind, role) == kind \in RoleKinds[role]

\* An action is granted by a role that belongs to the surface and that the kind
\* may hold, to an account that may authenticate there; otherwise it is denied.
Authorized(kind, status, surface, roles, permission) ==
    /\ CanAuthenticate(status)
    /\ ValidSurface(kind, surface)
    /\ \E r \in roles :
         /\ RoleSurface(r) = surface
         /\ ValidGrant(kind, r)
         /\ permission \in RolePermissions[r]
=============================================================================
