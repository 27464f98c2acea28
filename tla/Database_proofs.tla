--------------------------- MODULE Database_proofs ---------------------------
(***************************************************************************)
(* What PostgreSQL is relied on for: the row locks of the store, and the   *)
(* advisory lock and transactions of the migration runner.                 *)
(*                                                                         *)
(* For any number of accounts, sessions and transactions, only two         *)
(* transactions that end all sessions of one account can wait in a circle. *)
(* Every table has a rank, and a transaction waits only for rows of a      *)
(* higher rank than all it holds, with two exceptions: the key share an    *)
(* event takes on its account, which nobody has to wait for because nobody *)
(* locks an account more strongly than FOR NO KEY UPDATE, and the sessions *)
(* one account-wide statement locks in an order of the database.  In a     *)
(* circle somebody waits for a row of the highest rank its members wait    *)
(* for; its holder waits too, so it is one of those statements, and so is  *)
(* the one it waits for.                                                   *)
(*                                                                         *)
(* For any number of runs and of connections, any versions of the program  *)
(* and any ledger the database starts with, migrations exclude each other  *)
(* and only move the database forward.                                     *)
(***************************************************************************)
EXTENDS RowLocks, Migration, TLAPS

-----------------------------------------------------------------------------
(* Row locks: ranks, and what a transaction holds and waits for.              *)

Table == {"accounts", "grants", "identities", "challenges", "deliveries",
          "credentials", "sessions", "addresses"}

Rank == [accounts |-> 1, grants |-> 2, identities |-> 3, challenges |-> 4,
         deliveries |-> 5, credentials |-> 6, sessions |-> 7, addresses |-> 8]

RowLock == [table : Table, key : Account \cup SessionId, mode : Mode]

LocksTypeOK ==
    /\ todo \in [Transaction -> SUBSET (Nat \X RowLock)]
    /\ held \in [Transaction -> SUBSET RowLock]
    /\ ending \in [Transaction -> Account \cup {NoAccount}]

\* No account is locked so that a key share would have to wait.
Gentle(l) == l.table = "accounts" => l.mode \in {"KeyShare", "NoKeyUpdate"}

AccountsAreShared ==
    \A t \in Transaction :
      /\ \A l \in held[t] : Gentle(l)
      /\ \A x \in todo[t] : Gentle(x[2])

\* After l, a lock that never waits or one of a higher rank.
Precedes(l, m) ==
    \/ m.table = "accounts" /\ m.mode = "KeyShare"
    \/ Rank[l.table] < Rank[m.table]

\* A session the account-wide statement of t is about.
Scanned(t, l) ==
    /\ ending[t] # NoAccount
    /\ l.table = "sessions"
    /\ l.key \in SessionId
    /\ Owner[l.key] = ending[t]

InOrder(t, l, m) == Precedes(l, m) \/ (Scanned(t, l) /\ Scanned(t, m))

PlansAscend ==
    \A t \in Transaction : \A x, y \in todo[t] :
      x # y /\ x[1] <= y[1] => InOrder(t, x[2], y[2])

LocksAscend ==
    \A t \in Transaction : \A l \in held[t] : \A x \in todo[t] : InOrder(t, l, x[2])

LocksIInv == LocksTypeOK /\ AccountsAreShared /\ PlansAscend /\ LocksAscend

\* A transaction written as a sequence of statements ascends.
Sound(P) ==
    /\ DOMAIN P \subseteq Nat
    /\ \A i \in DOMAIN P : \A l \in P[i] : l \in RowLock /\ Gentle(l)
    /\ \A i \in DOMAIN P : \A l, m \in P[i] : l = m
    /\ \A i, j \in DOMAIN P : i < j =>
         \A l \in P[i] : \A m \in P[j] : Precedes(l, m)
-----------------------------------------------------------------------------
(* Every transaction ascends as it begins.                                   *)

\* Beginning a transaction that ascends keeps the invariant.
LEMMA BeginKeeps ==
    ASSUME NEW t \in Transaction, NEW P, Sound(P), LocksIInv, Begin(t, P)
    PROVE  LocksIInv'
<1> DEFINE Q == UNION {{i} \X P[i] : i \in DOMAIN P}
<1>1. /\ todo' = [todo EXCEPT ![t] = Q]
      /\ ending' = [ending EXCEPT ![t] = NoAccount]
      /\ held' = held /\ held[t] = {}
  BY DEF Begin, Idle
<1>2. \A x \in Q : /\ x = <<x[1], x[2]>> /\ x[1] \in DOMAIN P /\ x[2] \in P[x[1]]
                   /\ x \in Nat \X RowLock /\ Gentle(x[2])
  BY DEF Sound
<1>3. \A x, y \in Q : x # y /\ x[1] <= y[1] => Precedes(x[2], y[2])
  <2> SUFFICES ASSUME NEW x \in Q, NEW y \in Q, x # y, x[1] <= y[1]
               PROVE  Precedes(x[2], y[2])
    OBVIOUS
  <2>1. x[1] # y[1]
    BY <1>2 DEF Sound
  <2>2. x[1] < y[1]
    BY <1>2, <2>1 DEF Sound
  <2> QED
    BY <1>2, <2>2 DEF Sound
<1> HIDE DEF Q
<1>4. \A u \in Transaction : u # t => todo'[u] = todo[u] /\ ending'[u] = ending[u]
  BY <1>1 DEF LocksIInv, LocksTypeOK
<1>5. todo'[t] = Q /\ ending'[t] = NoAccount
  BY <1>1 DEF LocksIInv, LocksTypeOK
<1>6. LocksTypeOK'
  BY <1>1, <1>2 DEF LocksIInv, LocksTypeOK
<1>7. AccountsAreShared'
  BY <1>1, <1>2, <1>4, <1>5 DEF LocksIInv, AccountsAreShared, Gentle
<1>8. PlansAscend'
  BY <1>3, <1>4, <1>5 DEF LocksIInv, PlansAscend, InOrder, Scanned, Precedes
<1>9. LocksAscend'
  BY <1>1, <1>4, <1>5 DEF LocksIInv, LocksAscend, InOrder, Scanned, Precedes
<1> QED
  BY <1>6, <1>7, <1>8, <1>9 DEF LocksIInv

\* The statements of a transaction that begins with the locks of an authority or of
\* an identity.
LEMMA AfterTwo ==
    ASSUME NEW p, NEW q, NEW r, NEW s, NEW u, NEW v, NEW P,
           P = <<p, q>> \o <<r, s, u, v>>
    PROVE  /\ DOMAIN P = 1..6
           /\ P[1] = p /\ P[2] = q /\ P[3] = r /\ P[4] = s /\ P[5] = u /\ P[6] = v
OBVIOUS

LEMMA AfterFour ==
    ASSUME NEW p, NEW q, NEW r, NEW s, NEW u, NEW P, P = <<p, q, r, s>> \o <<u>>
    PROVE  /\ DOMAIN P = 1..5
           /\ P[1] = p /\ P[2] = q /\ P[3] = r /\ P[4] = s /\ P[5] = u
OBVIOUS

LEMMA AfterFourMore ==
    ASSUME NEW p, NEW q, NEW r, NEW s, NEW u, NEW v, NEW P,
           P = <<p, q, r, s>> \o <<u, v>>
    PROVE  /\ DOMAIN P = 1..6
           /\ P[1] = p /\ P[2] = q /\ P[3] = r /\ P[4] = s /\ P[5] = u /\ P[6] = v
OBVIOUS

\* The transactions of the sessions ascend.
LEMMA SessionPlans ==
    ASSUME NEW a \in Account, NEW b \in Account, NEW s \in SessionId
    PROVE  /\ Sound(lockedAuthority(a) \o <<Owned("sessions", s)>>)
           /\ Sound(lockedAuthority(a) \o <<Owned("sessions", s), Referenced(a)>>)
           /\ Sound(lockedAuthority(a) \o
                    <<{Lock("credentials", a, "Share")}, Changed("sessions", s),
                      Referenced(b), Referenced(a)>>)
           /\ Sound(<<Changed("sessions", s), Referenced(b)>>)
<1> USE DEF Sound, Gentle, Precedes, Rank, RowLock, Table, Mode, Lock, Changed, Owned,
            Referenced, lockedAuthority
<1>1. Sound(lockedAuthority(a) \o <<Owned("sessions", s)>>)
  OBVIOUS
<1>2. Sound(lockedAuthority(a) \o <<Owned("sessions", s), Referenced(a)>>)
  OBVIOUS
<1>3. Sound(lockedAuthority(a) \o
            <<{Lock("credentials", a, "Share")}, Changed("sessions", s),
              Referenced(b), Referenced(a)>>)
  <2>1. PICK P : P = lockedAuthority(a) \o
                   <<{Lock("credentials", a, "Share")}, Changed("sessions", s),
                     Referenced(b), Referenced(a)>>
    OBVIOUS
  <2>2. /\ DOMAIN P = 1..6
        /\ P[1] = Changed("accounts", a)
        /\ P[2] = Owned("grants", a)
        /\ P[3] = {Lock("credentials", a, "Share")}
        /\ P[4] = Changed("sessions", s)
        /\ P[5] = Referenced(b)
        /\ P[6] = Referenced(a)
    BY ONLY <2>1, AfterTwo DEF lockedAuthority
  <2>3. /\ DOMAIN P \subseteq Nat
        /\ \A i \in DOMAIN P : \A l \in P[i] : l \in RowLock /\ Gentle(l)
        /\ \A i \in DOMAIN P : \A l, m \in P[i] : l = m
    BY <2>2
  <2>4. \A i, j \in DOMAIN P : i < j => \A l \in P[i] : \A m \in P[j] : Precedes(l, m)
    BY <2>2
  <2> QED
    BY <2>1, <2>3, <2>4
<1>4. Sound(<<Changed("sessions", s), Referenced(b)>>)
  OBVIOUS
<1> QED
  BY <1>1, <1>2, <1>3, <1>4

\* The transactions of accounts and addresses ascend.
LEMMA AccountPlans ==
    ASSUME NEW a \in Account
    PROVE  /\ Sound(lockedAuthority(a) \o
                    <<{Lock("credentials", a, "Share")}, Referenced(a)>>)
           /\ Sound(<<Changed("accounts", a), Referenced(a)>>)
           /\ Sound(<<Changed("credentials", a), Referenced(a)>>)
           /\ Sound(<<Owned("addresses", a)>>)
           /\ Sound(<<Owned("deliveries", a)>>)
           /\ Sound(lockedIdentity(a) \o <<Changed("credentials", a), Referenced(a)>>)
           /\ Sound(lockedIdentity(a) \o <<Referenced(a)>>)
<1> USE DEF Sound, Gentle, Precedes, Rank, RowLock, Table, Mode, Lock, Changed, Owned,
            Referenced, lockedAuthority, lockedIdentity
<1>0. Sound(lockedAuthority(a) \o
            <<{Lock("credentials", a, "Share")}, Referenced(a)>>)
  OBVIOUS
<1>1. Sound(<<Changed("accounts", a), Referenced(a)>>)
  OBVIOUS
<1>2. Sound(<<Changed("credentials", a), Referenced(a)>>)
  OBVIOUS
<1>3. Sound(<<Owned("addresses", a)>>)
  OBVIOUS
<1>4. Sound(<<Owned("deliveries", a)>>)
  OBVIOUS
<1>5. Sound(lockedIdentity(a) \o <<Changed("credentials", a), Referenced(a)>>)
  <2>1. PICK P : P = lockedIdentity(a) \o <<Changed("credentials", a), Referenced(a)>>
    OBVIOUS
  <2>2. /\ DOMAIN P = 1..6
        /\ P[1] = Changed("accounts", a)
        /\ P[2] = Owned("identities", a)
        /\ P[3] = Owned("challenges", a)
        /\ P[4] = Owned("deliveries", a)
        /\ P[5] = Changed("credentials", a)
        /\ P[6] = Referenced(a)
    BY ONLY <2>1, AfterFourMore DEF lockedIdentity
  <2>3. /\ DOMAIN P \subseteq Nat
        /\ \A i \in DOMAIN P : \A l \in P[i] : l \in RowLock /\ Gentle(l)
        /\ \A i \in DOMAIN P : \A l, m \in P[i] : l = m
    BY <2>2
  <2>4. \A i, j \in DOMAIN P : i < j => \A l \in P[i] : \A m \in P[j] : Precedes(l, m)
    BY <2>2
  <2> QED
    BY <2>1, <2>3, <2>4
<1>6. Sound(lockedIdentity(a) \o <<Referenced(a)>>)
  <2>1. PICK P : P = lockedIdentity(a) \o <<Referenced(a)>>
    OBVIOUS
  <2>2. /\ DOMAIN P = 1..5
        /\ P[1] = Changed("accounts", a)
        /\ P[2] = Owned("identities", a)
        /\ P[3] = Owned("challenges", a)
        /\ P[4] = Owned("deliveries", a)
        /\ P[5] = Referenced(a)
    BY ONLY <2>1, AfterFour DEF lockedIdentity
  <2>3. /\ DOMAIN P \subseteq Nat
        /\ \A i \in DOMAIN P : \A l \in P[i] : l \in RowLock /\ Gentle(l)
        /\ \A i \in DOMAIN P : \A l, m \in P[i] : l = m
    BY <2>2
  <2>4. \A i, j \in DOMAIN P : i < j => \A l \in P[i] : \A m \in P[j] : Precedes(l, m)
    BY <2>2
  <2> QED
    BY <2>1, <2>3, <2>4
<1> QED
  BY <1>0, <1>1, <1>2, <1>3, <1>4, <1>5, <1>6
-----------------------------------------------------------------------------
(* Every step keeps the order.                                               *)

\* The account-wide statement ascends as it begins.
LEMMA AccountWideKeeps ==
    ASSUME NEW t \in Transaction, NEW a \in Account, LocksIInv, RevokeAccountSessions(t, a)
    PROVE  LocksIInv'
<1>1. PICK live \in SUBSET {s \in SessionId : Owner[s] = a} :
        /\ Idle(t)
        /\ todo' = [todo EXCEPT ![t] =
                      ({1} \X UNION {Changed("sessions", s) : s \in live})
                        \cup ({2} \X Referenced(a))]
        /\ ending' = [ending EXCEPT ![t] = a]
        /\ UNCHANGED held
  BY DEF RevokeAccountSessions
<1> DEFINE Q == ({1} \X UNION {Changed("sessions", s) : s \in live})
                  \cup ({2} \X Referenced(a))
<1>2. /\ todo' = [todo EXCEPT ![t] = Q] /\ ending' = [ending EXCEPT ![t] = a]
      /\ held' = held /\ held[t] = {}
  BY <1>1 DEF Idle
<1>3. \A x \in Q :
        /\ x \in Nat \X RowLock /\ Gentle(x[2])
        /\ \/ /\ x[1] = 1 /\ x[2].table = "sessions"
              /\ x[2].key \in SessionId /\ Owner[x[2].key] = a
           \/ /\ x[1] = 2 /\ x[2].table = "accounts" /\ x[2].mode = "KeyShare"
              /\ x[2].key = a
  BY DEF Changed, Referenced, Lock, RowLock, Table, Mode, Gentle
<1>4. \A x, y \in Q : x[1] = 2 /\ y[1] = 2 => x = y
  BY DEF Referenced, Lock, Changed
<1> HIDE DEF Q
<1>5. \A u \in Transaction : u # t => todo'[u] = todo[u] /\ ending'[u] = ending[u]
  BY <1>2 DEF LocksIInv, LocksTypeOK
<1>6. todo'[t] = Q /\ ending'[t] = a /\ a # NoAccount
  BY <1>2, NoAccountAssumption DEF LocksIInv, LocksTypeOK
<1>7. LocksTypeOK'
  BY <1>2, <1>3 DEF LocksIInv, LocksTypeOK
<1>8. AccountsAreShared'
  BY <1>2, <1>3, <1>5, <1>6 DEF LocksIInv, AccountsAreShared, Gentle
<1>9. PlansAscend'
  <2> SUFFICES ASSUME NEW u \in Transaction, NEW x \in todo'[u], NEW y \in todo'[u],
                      x # y, x[1] <= y[1]
               PROVE  InOrder(u, x[2], y[2])'
    BY DEF PlansAscend
  <2>1. CASE u # t
    BY <1>5, <2>1 DEF LocksIInv, PlansAscend, InOrder, Scanned, Precedes
  <2>2. CASE u = t
    BY <1>3, <1>4, <1>6, <2>2 DEF InOrder, Scanned, Precedes
  <2> QED
    BY <2>1, <2>2
<1>10. LocksAscend'
  BY <1>2, <1>5, <1>6 DEF LocksIInv, LocksAscend, InOrder, Scanned, Precedes
<1> QED
  BY <1>7, <1>8, <1>9, <1>10 DEF LocksIInv

\* What is taken, found absent or ended of a transaction leaves the rest in order.
LEMMA ProgressKeeps ==
    ASSUME NEW t \in Transaction, LocksIInv,
           TakeLock(t) \/ FindsNoRow(t) \/ FindsItEnded(t) \/ End(t) \/ SkipLocked(t)
    PROVE  LocksIInv'
<1>1. CASE TakeLock(t)
  <2>1. PICK x \in todo[t] :
          /\ x[2] \in Due(t)
          /\ todo' = [todo EXCEPT ![t] = @ \ {x}]
          /\ held' = [held EXCEPT ![t] = @ \cup {x[2]}]
          /\ ending' = ending
    BY <1>1 DEF TakeLock
  <2>2. x \in Nat \X RowLock /\ \A y \in todo[t] : y \in Nat \X RowLock
    BY DEF LocksIInv, LocksTypeOK
  <2>3. PICK z \in todo[t] : z[2] = x[2] /\ \A y \in todo[t] : z[1] <= y[1]
    BY <2>1 DEF Due
  <2>4. \A y \in todo[t] : y # x => InOrder(t, x[2], y[2])
    <3> SUFFICES ASSUME NEW y \in todo[t], y # x
                 PROVE  InOrder(t, x[2], y[2])
      OBVIOUS
    <3>1. CASE y # z
      BY <2>3, <3>1 DEF LocksIInv, PlansAscend
    <3>2. CASE y = z
      <4>1. z # x /\ z[1] <= x[1] /\ z[2] = x[2]
        BY <2>3, <3>2
      <4>2. InOrder(t, z[2], x[2])
        BY <4>1 DEF LocksIInv, PlansAscend
      <4> QED
        BY <3>2, <4>1, <4>2
    <3> QED
      BY <3>1, <3>2
  <2>5. /\ todo'[t] = todo[t] \ {x} /\ held'[t] = held[t] \cup {x[2]}
        /\ \A u \in Transaction : u # t => todo'[u] = todo[u] /\ held'[u] = held[u]
    BY <2>1 DEF LocksIInv, LocksTypeOK
  <2>6. LocksTypeOK'
    BY <2>1, <2>2 DEF LocksIInv, LocksTypeOK
  <2>7. AccountsAreShared'
    BY <2>5 DEF LocksIInv, AccountsAreShared, Gentle
  <2>8. PlansAscend'
    BY <2>1, <2>5 DEF LocksIInv, PlansAscend, InOrder, Scanned, Precedes
  <2>9. LocksAscend'
    <3> SUFFICES ASSUME NEW u \in Transaction, NEW l \in held'[u], NEW y \in todo'[u]
                 PROVE  InOrder(u, l, y[2])
      BY <2>1 DEF LocksAscend, InOrder, Scanned, Precedes
    <3>1. CASE u = t
      BY <2>4, <2>5, <3>1 DEF LocksIInv, LocksAscend
    <3>2. CASE u # t
      BY <2>5, <3>2 DEF LocksIInv, LocksAscend
    <3> QED
      BY <3>1, <3>2
  <2> QED
    BY <2>6, <2>7, <2>8, <2>9 DEF LocksIInv
<1>2. CASE FindsNoRow(t) \/ FindsItEnded(t)
  <2>1. PICK Q \in SUBSET todo[t] : todo' = [todo EXCEPT ![t] = Q]
    BY <1>2 DEF FindsNoRow, FindsItEnded
  <2>2. UNCHANGED <<held, ending>>
    BY <1>2 DEF FindsNoRow, FindsItEnded
  <2>3. \A u \in Transaction : todo'[u] \subseteq todo[u]
    BY <2>1 DEF LocksIInv, LocksTypeOK
  <2>4. LocksTypeOK'
    BY <2>1, <2>2 DEF LocksIInv, LocksTypeOK
  <2>5. AccountsAreShared'
    BY <2>2, <2>3 DEF LocksIInv, AccountsAreShared, Gentle
  <2>6. PlansAscend'
    BY <2>2, <2>3 DEF LocksIInv, PlansAscend, InOrder, Scanned, Precedes
  <2>7. LocksAscend'
    BY <2>2, <2>3 DEF LocksIInv, LocksAscend, InOrder, Scanned, Precedes
  <2> QED
    BY <2>4, <2>5, <2>6, <2>7 DEF LocksIInv
<1>3. CASE End(t)
  <2>1. /\ todo'[t] = {} /\ held'[t] = {}
        /\ \A u \in Transaction : u # t =>
             todo'[u] = todo[u] /\ held'[u] = held[u] /\ ending'[u] = ending[u]
    BY <1>3 DEF End, LocksIInv, LocksTypeOK
  <2>2. LocksTypeOK'
    BY <1>3 DEF End, LocksIInv, LocksTypeOK
  <2>3. AccountsAreShared'
    BY <2>1 DEF LocksIInv, AccountsAreShared, Gentle
  <2>4. PlansAscend'
    BY <2>1 DEF LocksIInv, PlansAscend, InOrder, Scanned, Precedes
  <2>5. LocksAscend'
    BY <2>1 DEF LocksIInv, LocksAscend, InOrder, Scanned, Precedes
  <2> QED
    BY <2>2, <2>3, <2>4, <2>5 DEF LocksIInv
<1>4. CASE SkipLocked(t)
  <2>1. PICK rows \in SUBSET Account :
          held' = [held EXCEPT ![t] = UNION {Owned("deliveries", a) : a \in rows}]
    BY <1>4 DEF SkipLocked
  <2>2. todo' = todo /\ todo[t] = {} /\ ending' = [ending EXCEPT ![t] = NoAccount]
    BY <1>4 DEF SkipLocked, Idle
  <2>3. \A l \in UNION {Owned("deliveries", a) : a \in rows} : l \in RowLock /\ Gentle(l)
    BY DEF Owned, Lock, RowLock, Table, Mode, Gentle
  <2>4. /\ \A l \in held'[t] : l \in RowLock /\ Gentle(l)
        /\ \A u \in Transaction : u # t => held'[u] = held[u] /\ ending'[u] = ending[u]
    BY <2>1, <2>2, <2>3 DEF LocksIInv, LocksTypeOK
  <2>5. LocksTypeOK'
    BY <2>1, <2>2, <2>3 DEF LocksIInv, LocksTypeOK
  <2>6. AccountsAreShared'
    BY <2>2, <2>4 DEF LocksIInv, AccountsAreShared, Gentle
  <2>7. PlansAscend'
    BY <2>2, <2>4 DEF LocksIInv, PlansAscend, InOrder, Scanned, Precedes
  <2>8. LocksAscend'
    BY <2>2, <2>4 DEF LocksIInv, LocksAscend, InOrder, Scanned, Precedes
  <2> QED
    BY <2>5, <2>6, <2>7, <2>8 DEF LocksIInv
<1> QED
  BY <1>1, <1>2, <1>3, <1>4

\* The invariant is inductive.
LEMMA LocksInvariance == LocksSpec => []LocksIInv
<1>1. LocksInit => LocksIInv
  BY DEF LocksInit, LocksIInv, LocksTypeOK, AccountsAreShared, PlansAscend, LocksAscend
<1>2. LocksIInv /\ [LocksNext]_lockVars => LocksIInv'
  <2> SUFFICES ASSUME LocksIInv, [LocksNext]_lockVars
               PROVE  LocksIInv'
    OBVIOUS
  <2>1. CASE UNCHANGED lockVars
    BY <2>1 DEF lockVars, LocksIInv, LocksTypeOK, AccountsAreShared, PlansAscend, LocksAscend,
                InOrder, Scanned, Precedes, Gentle
  <2>2. ASSUME NEW t \in Transaction, NEW s \in SessionId, OfSession(t, s)
        PROVE  LocksIInv'
    <3>1. Owner[s] \in Account
      BY OwnerAssumption
    <3> QED
      BY <2>2, <3>1, SessionPlans, BeginKeeps
      DEF OfSession, RecordActivity, Rotate, RevokeSession
  <2>3. ASSUME NEW t \in Transaction, NEW a \in Account, OfAccount(t, a)
        PROVE  LocksIInv'
    <3>1. CASE RevokeAccountSessions(t, a)
      BY <3>1, AccountWideKeeps
    <3>2. CASE ReplaceSession(t, a) \/ \E s \in SessionId : ReplaceSessionOf(t, a, s)
      <4>1. \A s \in SessionId : Owner[s] \in Account
        BY OwnerAssumption
      <4> QED
        BY <3>2, <4>1, SessionPlans, AccountPlans, BeginKeeps
        DEF ReplaceSession, ReplaceSessionOf
    <3>3. CASE \/ Suspend(t, a) \/ SetPassword(t, a)
               \/ createRegistration(t, a) \/ refreshRegistration(t, a)
               \/ Reissue(t, a) \/ ConsumeVerification(t, a) \/ SettleDelivery(t, a)
      BY <3>3, AccountPlans, BeginKeeps
      DEF Suspend, SetPassword, createRegistration, refreshRegistration, Reissue,
          ConsumeVerification, SettleDelivery
    <3> QED
      BY <2>3, <3>1, <3>2, <3>3 DEF OfAccount
  <2>4. ASSUME NEW t \in Transaction,
               SkipLocked(t) \/ TakeLock(t) \/ FindsNoRow(t) \/ FindsItEnded(t) \/ End(t)
        PROVE  LocksIInv'
    BY <2>4, ProgressKeeps
  <2> QED
    BY <2>1, <2>2, <2>3, <2>4 DEF LocksNext
<1> QED
  BY <1>1, <1>2, PTL DEF LocksSpec
-----------------------------------------------------------------------------
(* No circle but of account-wide statements.                                 *)

\* Who waits, waits for a row of its rank or above, and the holder of that row, if it
\* waits too, waits for one of a higher rank, unless its statement is account-wide.
LEMMA HolderWaitsAbove ==
    ASSUME LocksIInv, NEW t \in Transaction, NEW u \in Transaction,
           NEW l \in RowLock, NEW x \in todo[t], x[2] = l,
           NEW m \in held[u], Conflict(l, m),
           NEW y \in todo[u], NEW w \in Transaction, NEW n \in held[w], Conflict(y[2], n)
    PROVE  \/ Rank[l.table] < Rank[y[2].table]
           \/ l.table = "sessions" /\ Scanned(u, m) /\ Scanned(u, y[2])
<1>1. y[2] \in RowLock /\ m \in RowLock /\ n \in RowLock
  BY DEF LocksIInv, LocksTypeOK
<1>2. Gentle(n) /\ n.table = y[2].table /\ n.mode \in ConflictsWith[y[2].mode]
  BY DEF LocksIInv, AccountsAreShared, Conflict
<1>3. ~(y[2].table = "accounts" /\ y[2].mode = "KeyShare")
  BY <1>2 DEF Gentle, ConflictsWith
<1>4. m.table = l.table
  BY DEF Conflict
<1>5. InOrder(u, m, y[2])
  BY DEF LocksIInv, LocksAscend
<1> QED
  BY <1>3, <1>4, <1>5 DEF InOrder, Precedes, Scanned

\* Some member of S waits for a row of rank r another member holds.
Waits(S, r) ==
    \E t, u \in S :
      /\ t # u
      /\ \E l \in Due(t) : \E m \in held[u] : Conflict(l, m) /\ Rank[l.table] = r

\* What the invariant says of a circle.
LEMMA CirclesAreAccountWide == LocksIInv => NoLockCycle
<1> SUFFICES ASSUME LocksIInv, NEW S \in SUBSET Transaction, Circular(S)
             PROVE  \E t, u \in S : t # u /\ ending[t] # NoAccount /\ ending[u] = ending[t]
  BY DEF NoLockCycle
<1>1. \A t \in S : \E u \in S : t # u /\ \E l \in Due(t) : \E m \in held[u] : Conflict(l, m)
  BY DEF Circular, WaitsFor
<1>2. \A t \in S : \A l \in Due(t) : l \in RowLock /\ \E x \in todo[t] : x[2] = l
  BY DEF Due, LocksIInv, LocksTypeOK
<1>3. \A l \in RowLock : Rank[l.table] \in 1..8 /\ (Rank[l.table] = 7 => l.table = "sessions")
  BY DEF RowLock, Table, Rank
<1>4. ASSUME NEW t \in S, NEW u \in S, t # u, NEW l \in Due(t), NEW m \in held[u],
             Conflict(l, m)
      PROVE  \E w \in S : \E k \in Due(u) : \E n \in held[w] :
               /\ u # w /\ Conflict(k, n)
               /\ \/ Rank[l.table] < Rank[k.table]
                  \/ l.table = "sessions" /\ Scanned(u, m) /\ Scanned(u, k)
  <2>0. PICK w \in S : u # w /\ \E k \in Due(u) : \E n \in held[w] : Conflict(k, n)
    BY <1>1
  <2>1. PICK k \in Due(u), n \in held[w] : Conflict(k, n)
    BY <2>0
  <2>2. PICK x \in todo[t] : x[2] = l
    BY <1>2
  <2>3. PICK y \in todo[u] : y[2] = k
    BY <1>2
  <2> QED
    BY <1>2, <1>4, <2>0, <2>1, <2>2, <2>3, HolderWaitsAbove
<1>5. ASSUME NEW r \in 1..8, Waits(S, r), r # 7
      PROVE  \E q \in 1..8 : r < q /\ Waits(S, q)
  <2>1. PICK t \in S, u \in S : t # u /\ \E l \in Due(t) : \E m \in held[u] :
                                  Conflict(l, m) /\ Rank[l.table] = r
    BY <1>5 DEF Waits
  <2>2. PICK l \in Due(t), m \in held[u] : Conflict(l, m) /\ Rank[l.table] = r
    BY <2>1
  <2>3. l.table # "sessions"
    BY <1>5, <2>2 DEF Rank
  <2>4. PICK w \in S : \E k \in Due(u) : \E n \in held[w] :
          u # w /\ Conflict(k, n) /\ Rank[l.table] < Rank[k.table]
    BY <1>4, <2>1, <2>2, <2>3
  <2>5. PICK k \in Due(u) : /\ Rank[l.table] < Rank[k.table]
                            /\ u # w /\ \E n \in held[w] : Conflict(k, n)
    BY <2>4
  <2>6. Rank[k.table] \in 1..8 /\ r < Rank[k.table]
    BY <1>2, <1>3, <2>2, <2>5
  <2>7. Waits(S, Rank[k.table])
    BY <2>5 DEF Waits
  <2> QED
    BY <2>6, <2>7
<1>6. ~Waits(S, 8)
  <2>1. ~\E q \in 1..8 : 8 < q
    OBVIOUS
  <2> QED
    BY <1>5, <2>1
<1>7. \E r \in 1..8 : Waits(S, r)
  <2>1. PICK t \in S : TRUE
    BY DEF Circular
  <2>2. PICK u \in S : t # u /\ \E l \in Due(t) : \E m \in held[u] : Conflict(l, m)
    BY <1>1
  <2>3. PICK l \in Due(t) : \E m \in held[u] : Conflict(l, m)
    BY <2>2
  <2>4. Waits(S, Rank[l.table]) /\ Rank[l.table] \in 1..8
    BY <1>2, <1>3, <2>2, <2>3 DEF Waits
  <2> QED
    BY <2>4
<1>8. Waits(S, 7)
  <2>1. \A r \in 1..8 : Waits(S, r) => r = 7 \/ \E q \in 1..8 : r < q /\ Waits(S, q)
    BY <1>5
  <2>2. Waits(S, 6) => Waits(S, 7)
    BY <1>6, <2>1
  <2>3. Waits(S, 5) => Waits(S, 7)
    BY <1>6, <2>1, <2>2
  <2>4. Waits(S, 4) => Waits(S, 7)
    BY <1>6, <2>1, <2>2, <2>3
  <2>5. Waits(S, 3) => Waits(S, 7)
    BY <1>6, <2>1, <2>2, <2>3, <2>4
  <2>6. Waits(S, 2) => Waits(S, 7)
    BY <1>6, <2>1, <2>2, <2>3, <2>4, <2>5
  <2>7. Waits(S, 1) => Waits(S, 7)
    BY <1>6, <2>1, <2>2, <2>3, <2>4, <2>5, <2>6
  <2> QED
    BY <1>6, <1>7, <2>2, <2>3, <2>4, <2>5, <2>6, <2>7
<1>9. PICK t \in S, u \in S : t # u /\ \E l \in Due(t) : \E m \in held[u] :
                                Conflict(l, m) /\ Rank[l.table] = 7
  BY <1>8 DEF Waits
<1>10. PICK l \in Due(t), m \in held[u] : Conflict(l, m) /\ Rank[l.table] = 7
  BY <1>9
<1>11. PICK w \in S : \E k \in Due(u) : \E n \in held[w] :
         /\ u # w /\ Conflict(k, n)
         /\ Rank[l.table] < Rank[k.table] \/ Scanned(u, k)
  BY <1>4, <1>9, <1>10
<1>12. PICK k \in Due(u), n \in held[w] :
         /\ u # w /\ Conflict(k, n)
         /\ Rank[l.table] < Rank[k.table] \/ Scanned(u, k)
  BY <1>11
<1>13. Scanned(u, k) /\ Rank[k.table] = 7
  <2>1. Rank[k.table] # 8
    BY <1>6, <1>12 DEF Waits
  <2>2. Scanned(u, k)
    BY <1>2, <1>3, <1>10, <1>12, <2>1
  <2> QED
    BY <2>2 DEF Scanned, Rank
<1>14. Scanned(w, n)
  <2>1. PICK v \in S : \E j \in Due(w) : \E i \in held[v] :
          /\ w # v /\ Conflict(j, i)
          /\ Rank[k.table] < Rank[j.table] \/ Scanned(w, n)
    BY <1>4, <1>12
  <2>2. PICK j \in Due(w) : /\ w # v /\ \E i \in held[v] : Conflict(j, i)
                            /\ Rank[k.table] < Rank[j.table] \/ Scanned(w, n)
    BY <2>1
  <2>3. Rank[j.table] # 8
    BY <1>6, <2>2 DEF Waits
  <2> QED
    BY <1>2, <1>3, <1>13, <2>2, <2>3
<1>15. n.key = k.key
  BY <1>12 DEF Conflict
<1> QED
  BY <1>12, <1>13, <1>14, <1>15 DEF Scanned
-----------------------------------------------------------------------------
(* What the lock modes and the order of the statements are chosen for.       *)

\* Plans and locks keep their types, for any number of transactions.
THEOREM LocksTypeCorrect == LocksSpec => []LocksTypeOK
<1>1. LocksIInv => LocksTypeOK
  BY DEF LocksIInv
<1> QED
  BY <1>1, LocksInvariance, PTL

\* Transactions of authstore never wait in a circle, for any number of accounts,
\* sessions and transactions, unless two of them end all sessions of one account.
THEOREM NoLockCycles == LocksSpec => []NoLockCycle
  BY CirclesAreAccountWide, LocksInvariance, PTL

-----------------------------------------------------------------------------
(* The advisory lock: the inductive invariant.                               *)

\* A transaction about to commit extends the ledger by the next migration of some set,
\* whatever became of the run that began it.
Extends(tx) ==
    \E set \in Sets :
      /\ tx.version \in DOMAIN set /\ tx.migration = set[tx.version]
      /\ \A w \in Version : ledger[w] = IF w < tx.version THEN set[w] ELSE None

\* No session waits for what it holds, none without a run does either, and a
\* transaction is under the lock.
SessionSound(s) ==
    /\ session[s].lock \in {0, 1}
    /\ session[s].waiting => session[s].lock = 0
    /\ session[s].state \in {"absent", "idle"} => session[s].lock = 0 /\ ~session[s].waiting
    /\ session[s].tx # NoTx => session[s].lock = 1 /\ Extends(session[s].tx)

\* What a run holds of its connection while it runs.
Connected(r) ==
    Active(r) =>
      /\ run[r].session \in Session /\ run[r].set \in Sets
      /\ session[run[r].session].state = "used"
      /\ run[r].pc = "lock" /\ ~session[run[r].session].waiting =>
           session[run[r].session].lock = 1
      /\ run[r].pc # "lock" => session[run[r].session].lock = 1
      /\ run[r].pc # "commit" => session[run[r].session].tx = NoTx

\* What a run read is still what the ledger holds, but for its own last commit.
Informed(r) ==
    /\ run[r].pc = "apply" => Reconciles(run[r].set) /\ run[r].done = Applied
    /\ run[r].pc = "commit" =>
         LET tx == session[run[r].session].tx
         IN  /\ Reconciles(run[r].set)
             /\ tx # NoTx =>
                  /\ run[r].done = Applied
                  /\ IsNext(r, tx.version) /\ tx.migration = run[r].set[tx.version]
             /\ tx = NoTx =>
                  \E v \in Version : IsNext(r, v) /\ Applied = run[r].done \cup {v}

Complete(r) ==
    run[r].result = "applied" => \A v \in DOMAIN run[r].set : ledger[v] = run[r].set[v]

OneHolder == \A s, t \in Session : session[s].lock > 0 /\ session[t].lock > 0 => s = t

OwnSession ==
    \A q, r \in Runner : Active(q) /\ Active(r) /\ run[q].session = run[r].session => q = r

MigrationIInv ==
    /\ MigrationTypeOK
    /\ OneHolder /\ OwnSession
    /\ \A s \in Session : SessionSound(s)
    /\ \A r \in Runner : Connected(r) /\ Informed(r) /\ Complete(r)

-----------------------------------------------------------------------------
(* Sets, transactions and sessions.                                          *)

LEMMA SetsAreSequences ==
  ASSUME NEW set \in Sets
  PROVE  /\ DOMAIN set = 1..Len(set) /\ DOMAIN set \subseteq Version
         /\ \A v \in DOMAIN set : set[v] \in Migrations /\ set[v] # None
<1>1. set \in Seq(Migrations) /\ Len(set) \in Nat /\ MaxVersion \in Nat /\ Len(set) <= MaxVersion
  BY MigrationAssumption
<1>2. QED
  BY <1>1, MigrationAssumption DEF Version

LEMMA TxIsOne ==
  ASSUME NEW v \in Version, NEW m \in Migrations
  PROVE  /\ [version |-> v, migration |-> m] \in Tx
         /\ [version |-> v, migration |-> m] # NoTx
<1>1. MaxVersion \in Nat
  BY MigrationAssumption
<1>2. v # 0
  BY <1>1 DEF Version
<1>3. QED
  BY <1>2 DEF Tx, NoTx

\* A session that nothing touched, under a ledger nobody wrote.
LEMMA SessionStays ==
  ASSUME NEW s \in Session, SessionSound(s), session'[s] = session[s], ledger' = ledger
  PROVE  SessionSound(s)'
BY DEF SessionSound, Extends

\* A run that took no step and whose connection nothing touched.
LEMMA RunStays ==
  ASSUME NEW r \in Runner, Connected(r), Informed(r), Complete(r),
         run'[r] = run[r], ledger' = ledger,
         Active(r) => session'[run[r].session] = session[run[r].session]
  PROVE  Connected(r)' /\ Informed(r)' /\ Complete(r)'
<1>1. Connected(r)'
  BY DEF Connected, Active
<1>2. Informed(r)'
  BY DEF Informed, Active, Reconciles, Applied, IsNext, Pending
<1>3. Complete(r)'
  BY DEF Complete
<1>4. QED
  BY <1>1, <1>2, <1>3

\* A step on a connection nobody uses leaves every run what it has.
LEMMA UnusedConnection ==
  ASSUME MigrationIInv, NEW s \in Session, session[s].state # "used",
         \A t \in Session \ {s} : session'[t] = session[t], UNCHANGED <<ledger, run>>
  PROVE  \A r \in Runner : Connected(r)' /\ Informed(r)' /\ Complete(r)'
<1> SUFFICES ASSUME NEW r \in Runner
             PROVE  Connected(r)' /\ Informed(r)' /\ Complete(r)'
  OBVIOUS
<1>1. Connected(r) /\ Informed(r) /\ Complete(r)
  BY DEF MigrationIInv
<1>2. Active(r) => run[r].session \in Session \ {s}
  BY <1>1 DEF Connected
<1>3. QED
  BY <1>1, <1>2, RunStays

\* The other runs, when one takes a step with its own connection.
LEMMA OthersStay ==
  ASSUME MigrationIInv, NEW r \in Runner, Active(r), ledger' = ledger,
         \A t \in Session \ {run[r].session} : session'[t] = session[t],
         \A q \in Runner \ {r} : run'[q] = run[q]
  PROVE  /\ \A s \in Session \ {run[r].session} : SessionSound(s)'
         /\ \A q \in Runner \ {r} : Connected(q)' /\ Informed(q)' /\ Complete(q)'
<1>1. ASSUME NEW s \in Session \ {run[r].session} PROVE SessionSound(s)'
  BY SessionStays DEF MigrationIInv
<1>2. ASSUME NEW q \in Runner \ {r} PROVE Connected(q)' /\ Informed(q)' /\ Complete(q)'
  <2>1. Connected(q) /\ Informed(q) /\ Complete(q)
    BY DEF MigrationIInv
  <2>2. Active(q) => run[q].session \in Session \ {run[r].session}
    BY <2>1 DEF Connected, MigrationIInv, OwnSession
  <2>3. QED
    BY <2>1, <2>2, RunStays
<1>3. QED
  BY <1>1, <1>2

\* A run whose record has these types keeps the type of all runs.
LEMMA RunTyped ==
  ASSUME MigrationTypeOK, NEW r \in Runner, NEW record \in RunState,
         record.done \subseteq DOMAIN record.set, run' = [run EXCEPT ![r] = record]
  PROVE  /\ run' \in [Runner -> RunState] /\ run'[r] = record
         /\ \A q \in Runner \ {r} : run'[q] = run[q]
         /\ \A q \in Runner : run'[q].done \subseteq DOMAIN run'[q].set
BY DEF MigrationTypeOK

LEMMA SessionTyped ==
  ASSUME MigrationTypeOK, NEW s \in Session, NEW record \in SessionState,
         session' = [session EXCEPT ![s] = record]
  PROVE  /\ session' \in [Session -> SessionState] /\ session'[s] = record
         /\ \A t \in Session \ {s} : session'[t] = session[t]
BY DEF MigrationTypeOK

-----------------------------------------------------------------------------
(* Steps of the server.                                                      *)

LEMMA GrantKeeps ==
  ASSUME MigrationIInv, NEW s \in Session, Grant(s) PROVE MigrationIInv'
<1> DEFINE granted == [session[s] EXCEPT !.waiting = FALSE, !.lock = @ + 1]
<1>1. session[s] \in SessionState /\ SessionSound(s) /\ session[s].lock = 0 /\ session[s].waiting
  BY DEF MigrationIInv, MigrationTypeOK, Grant, SessionSound
<1>2. granted \in SessionState
  <2> DEFINE served == [session[s] EXCEPT !.waiting = FALSE]
  <2>1. served \in SessionState /\ served.lock = 0
    BY <1>1 DEF SessionState
  <2>2. [served EXCEPT !.lock = 1] \in SessionState
    BY <2>1 DEF SessionState
  <2>3. granted = [served EXCEPT !.lock = 1]
    BY <1>1, <2>1
  <2>4. QED
    BY <2>2, <2>3
<1>3. session' = [session EXCEPT ![s] = granted]
  BY DEF Grant
<1>4. MigrationTypeOK
  BY DEF MigrationIInv
<1>5. /\ session' \in [Session -> SessionState] /\ session'[s] = granted
      /\ \A t \in Session \ {s} : session'[t] = session[t]
  BY <1>2, <1>3, <1>4, SessionTyped
<1>6. /\ session'[s].state = session[s].state /\ session'[s].tx = session[s].tx
      /\ session'[s].lock = 1 /\ session'[s].waiting = FALSE
  BY <1>1, <1>5 DEF SessionState
<1>7. MigrationTypeOK'
  BY <1>5 DEF MigrationIInv, MigrationTypeOK, Grant
<1>8. OneHolder'
  BY <1>5, <1>6 DEF OneHolder, Grant
<1>9. OwnSession'
  BY DEF MigrationIInv, OwnSession, Active, Grant
<1>10. ASSUME NEW t \in Session PROVE SessionSound(t)'
  <2>1. CASE t = s
    BY <2>1, <1>1, <1>6 DEF SessionSound
  <2>2. CASE t # s
    BY <2>2, <1>5, SessionStays DEF MigrationIInv, Grant
  <2>3. QED
    BY <2>1, <2>2
<1>11. ASSUME NEW r \in Runner PROVE Connected(r)' /\ Informed(r)' /\ Complete(r)'
  <2>1. Connected(r) /\ Informed(r) /\ Complete(r)
    BY DEF MigrationIInv
  <2>2. CASE Active(r) /\ run[r].session = s
    <3>1. run[r].pc = "lock"
      BY <2>1, <2>2, <1>1 DEF Connected
    <3>2. Connected(r)'
      BY <2>1, <2>2, <3>1, <1>6 DEF Connected, Active, Grant
    <3>3. Informed(r)' /\ Complete(r)'
      BY <2>1, <3>1 DEF Informed, Complete, Grant
    <3>4. QED
      BY <3>2, <3>3
  <2>3. CASE ~(Active(r) /\ run[r].session = s)
    <3>1. Active(r) => session'[run[r].session] = session[run[r].session]
      BY <2>1, <2>3, <1>5 DEF Connected
    <3>2. QED
      BY <2>1, <3>1, RunStays DEF Grant
  <2>4. QED
    BY <2>2, <2>3
<1>12. QED
  BY <1>7, <1>8, <1>9, <1>10, <1>11 DEF MigrationIInv

LEMMA EndSessionKeeps ==
  ASSUME MigrationIInv, NEW s \in Session, EndSession(s) PROVE MigrationIInv'
<1>1. NoConnection \in SessionState
  BY DEF NoConnection, SessionState
<1>2. session' = [session EXCEPT ![s] = NoConnection] /\ MigrationTypeOK
  BY DEF EndSession, MigrationIInv
<1>3. /\ session' \in [Session -> SessionState] /\ session'[s] = NoConnection
      /\ \A t \in Session \ {s} : session'[t] = session[t]
  BY <1>1, <1>2, SessionTyped
<1>4. MigrationTypeOK'
  BY <1>3 DEF MigrationIInv, MigrationTypeOK, EndSession
<1>5. OneHolder'
  BY <1>3 DEF MigrationIInv, OneHolder, NoConnection
<1>6. OwnSession'
  BY DEF MigrationIInv, OwnSession, Active, EndSession
<1>7. ASSUME NEW t \in Session PROVE SessionSound(t)'
  <2>1. CASE t = s
    BY <2>1, <1>3 DEF SessionSound, NoConnection
  <2>2. CASE t # s
    BY <2>2, <1>3, SessionStays DEF MigrationIInv, EndSession
  <2>3. QED
    BY <2>1, <2>2
<1>8. \A r \in Runner : Connected(r)' /\ Informed(r)' /\ Complete(r)'
  BY <1>3, UnusedConnection DEF EndSession
<1>9. QED
  BY <1>4, <1>5, <1>6, <1>7, <1>8 DEF MigrationIInv

-----------------------------------------------------------------------------
(* Steps of a run that has no connection.                                    *)

LEMMA AcquireKeeps ==
  ASSUME MigrationIInv, NEW r \in Runner, Acquire(r) PROVE MigrationIInv'
<1>1. PICK s \in Session, set \in Sets :
        /\ session[s].state \in {"absent", "idle"}
        /\ run' = [run EXCEPT ![r] = [NoRun EXCEPT !.pc = "lock", !.set = set, !.session = s]]
        /\ session' = [session EXCEPT ![s].state = "used", ![s].waiting = TRUE]
  BY DEF Acquire
<1> DEFINE begun == [NoRun EXCEPT !.pc = "lock", !.set = set, !.session = s]
           taken == [session[s] EXCEPT !.state = "used", !.waiting = TRUE]
<1>2. /\ begun.pc = "lock" /\ begun.set = set /\ begun.done = {}
      /\ begun.session = s /\ begun.result = "none"
  BY DEF NoRun
<1>3. begun \in RunState /\ begun.done \subseteq DOMAIN begun.set
  BY <1>2 DEF NoRun, RunState
<1>4. /\ session[s] \in SessionState /\ SessionSound(s) /\ MigrationTypeOK
      /\ session[s].lock = 0 /\ session[s].tx = NoTx
  BY <1>1 DEF MigrationIInv, MigrationTypeOK, SessionSound
<1>5. taken.state = "used" /\ taken.waiting = TRUE /\ taken.lock = 0 /\ taken.tx = NoTx
  BY <1>4 DEF SessionState
<1>6. taken \in SessionState
  BY <1>4 DEF SessionState
<1>7. /\ run' \in [Runner -> RunState] /\ run'[r] = begun
      /\ \A q \in Runner \ {r} : run'[q] = run[q]
      /\ \A q \in Runner : run'[q].done \subseteq DOMAIN run'[q].set
  <2>1. run' = [run EXCEPT ![r] = begun]
    BY <1>1
  <2>2. QED
    BY <1>3, <1>4, <2>1, RunTyped
<1>8. /\ session' \in [Session -> SessionState] /\ session'[s] = taken
      /\ \A t \in Session \ {s} : session'[t] = session[t]
  <2>1. session' = [session EXCEPT ![s] = taken]
    BY <1>1
  <2>2. QED
    BY <1>4, <1>6, <2>1, SessionTyped
<1>9. ledger' = ledger
  BY DEF Acquire
<1> HIDE DEF begun, taken
<1>10. \A q \in Runner \ {r} : Active(q) => run[q].session \in Session \ {s}
  BY <1>1 DEF MigrationIInv, Connected
<1>11. MigrationTypeOK'
  BY <1>4, <1>7, <1>8, <1>9 DEF MigrationTypeOK
<1>12. OneHolder'
  BY <1>5, <1>8 DEF MigrationIInv, OneHolder
<1>13. OwnSession'
  BY <1>2, <1>7, <1>10 DEF MigrationIInv, OwnSession, Active
<1>14. ASSUME NEW t \in Session PROVE SessionSound(t)'
  <2>1. CASE t = s
    BY <2>1, <1>5, <1>8 DEF SessionSound
  <2>2. CASE t # s
    BY <2>2, <1>8, <1>9, SessionStays DEF MigrationIInv
  <2>3. QED
    BY <2>1, <2>2
<1>15. ASSUME NEW q \in Runner PROVE Connected(q)' /\ Informed(q)' /\ Complete(q)'
  <2>1. CASE q = r
    <3>1. Connected(r)'
      BY <1>2, <1>5, <1>7, <1>8 DEF Connected
    <3>2. Informed(r)' /\ Complete(r)'
      BY <1>2, <1>7 DEF Informed, Complete
    <3>3. QED
      BY <2>1, <3>1, <3>2
  <2>2. CASE q # r
    BY <2>2, <1>7, <1>8, <1>9, <1>10, RunStays DEF MigrationIInv
  <2>3. QED
    BY <2>1, <2>2
<1>16. QED
  BY <1>11, <1>12, <1>13, <1>14, <1>15 DEF MigrationIInv

LEMMA AcquireFailsKeeps ==
  ASSUME MigrationIInv, NEW r \in Runner, AcquireFails(r) PROVE MigrationIInv'
<1> DEFINE failed == [run[r] EXCEPT !.pc = "ended", !.result = "failed"]
<1>1. /\ run[r] \in RunState /\ run[r].done \subseteq DOMAIN run[r].set
      /\ MigrationTypeOK /\ ledger' = ledger /\ session' = session
  BY DEF MigrationIInv, MigrationTypeOK, AcquireFails
<1>2. /\ failed.pc = "ended" /\ failed.set = run[r].set /\ failed.done = run[r].done
      /\ failed.session = run[r].session /\ failed.result = "failed"
  BY <1>1 DEF RunState
<1>3. failed \in RunState /\ failed.done \subseteq DOMAIN failed.set
  BY <1>1, <1>2 DEF RunState
<1>4. run' = [run EXCEPT ![r] = failed]
  BY DEF AcquireFails
<1>5. /\ run' \in [Runner -> RunState] /\ run'[r] = failed
      /\ \A q \in Runner \ {r} : run'[q] = run[q]
      /\ \A q \in Runner : run'[q].done \subseteq DOMAIN run'[q].set
  BY <1>1, <1>3, <1>4, RunTyped
<1>6. MigrationTypeOK' /\ OneHolder' /\ OwnSession'
  BY <1>1, <1>2, <1>5 DEF MigrationIInv, MigrationTypeOK, OneHolder, OwnSession, Active
<1>7. \A t \in Session : SessionSound(t)'
  BY <1>1, SessionStays DEF MigrationIInv
<1>8. ASSUME NEW q \in Runner PROVE Connected(q)' /\ Informed(q)' /\ Complete(q)'
  <2>1. CASE q = r
    BY <2>1, <1>2, <1>5 DEF Connected, Active, Informed, Complete
  <2>2. CASE q # r
    BY <2>2, <1>1, <1>5, RunStays DEF MigrationIInv
  <2>3. QED
    BY <2>1, <2>2
<1>9. QED
  BY <1>6, <1>7, <1>8 DEF MigrationIInv

-----------------------------------------------------------------------------
(* Steps of a run with its own connection.                                   *)

\* What is left to show of such a step: its own connection and its own record.
LEMMA OwnStep ==
  ASSUME MigrationIInv, NEW r \in Runner, Active(r), ledger' = ledger,
         session' \in [Session -> SessionState],
         \A t \in Session \ {run[r].session} : session'[t] = session[t],
         session'[run[r].session].lock > 0 => session[run[r].session].lock > 0,
         SessionSound(run[r].session)',
         NEW record \in RunState, run' = [run EXCEPT ![r] = record],
         record.done \subseteq DOMAIN record.set, record.session = run[r].session,
         Connected(r)', Informed(r)', Complete(r)'
  PROVE  MigrationIInv'
<1>1. MigrationTypeOK /\ OneHolder /\ OwnSession /\ run[r].session \in Session
  BY DEF MigrationIInv, Connected
<1>2. /\ run' \in [Runner -> RunState] /\ run'[r] = record
      /\ \A q \in Runner \ {r} : run'[q] = run[q]
      /\ \A q \in Runner : run'[q].done \subseteq DOMAIN run'[q].set
  BY <1>1, RunTyped
<1>3. MigrationTypeOK'
  BY <1>1, <1>2 DEF MigrationTypeOK
<1>4. OneHolder'
  BY <1>1 DEF OneHolder
<1>5. OwnSession'
  BY <1>1, <1>2 DEF OwnSession, Active
<1>6. /\ \A s \in Session \ {run[r].session} : SessionSound(s)'
      /\ \A q \in Runner \ {r} : Connected(q)' /\ Informed(q)' /\ Complete(q)'
  BY <1>2, OthersStay
<1>7. \A s \in Session : SessionSound(s)'
  <2> SUFFICES ASSUME NEW s \in Session PROVE SessionSound(s)'
    OBVIOUS
  <2>1. CASE s = run[r].session
    BY <2>1
  <2>2. CASE s # run[r].session
    BY <2>2, <1>6
  <2>3. QED
    BY <2>1, <2>2
<1>8. \A q \in Runner : Connected(q)' /\ Informed(q)' /\ Complete(q)'
  BY <1>6
<1>9. QED
  BY <1>3, <1>4, <1>5, <1>7, <1>8 DEF MigrationIInv

\* What the invariant says of a run that takes a step.
LEMMA ActiveRun ==
  ASSUME MigrationIInv, NEW r \in Runner, Active(r)
  PROVE  /\ run[r] \in RunState /\ run[r].done \subseteq DOMAIN run[r].set
         /\ run[r].session \in Session /\ run[r].set \in Sets
         /\ session[run[r].session] \in SessionState /\ SessionSound(run[r].session)
         /\ Connected(r) /\ Informed(r) /\ Complete(r)
         /\ session \in [Session -> SessionState] /\ run \in [Runner -> RunState]
         /\ ledger \in [Version -> Migrations \cup {None}]
BY DEF MigrationIInv, MigrationTypeOK, Connected

LEMMA LockTakenKeeps ==
  ASSUME MigrationIInv, NEW r \in Runner, LockTaken(r) PROVE MigrationIInv'
<1> DEFINE next == [run[r] EXCEPT !.pc = "history"]
<1>1. /\ Active(r) /\ run[r].pc = "lock" /\ ~session[run[r].session].waiting
      /\ ledger' = ledger /\ session' = session /\ run' = [run EXCEPT ![r] = next]
  BY DEF LockTaken, Active
<1>2. /\ next.pc = "history" /\ next.set = run[r].set /\ next.done = run[r].done
      /\ next.session = run[r].session /\ next.result = run[r].result
      /\ next \in RunState /\ next.done \subseteq DOMAIN next.set
  BY <1>1, ActiveRun DEF RunState
<1> HIDE DEF next
<1>3. run'[r] = next
  BY <1>1, <1>2, ActiveRun
<1>4. Connected(r)'
  BY <1>1, <1>2, <1>3, ActiveRun DEF Connected
<1>5. Informed(r)' /\ Complete(r)'
  BY <1>1, <1>2, <1>3, ActiveRun DEF Informed, Complete
<1>6. SessionSound(run[r].session)'
  BY <1>1, <1>2, <1>3, ActiveRun, SessionStays DEF SessionSound, Extends
<1>7. QED
  BY <1>1, <1>2, <1>4, <1>5, <1>6, ActiveRun, OwnStep

LEMMA ReadHistoryKeeps ==
  ASSUME MigrationIInv, NEW r \in Runner, ReadHistory(r) PROVE MigrationIInv'
<1>1. /\ Active(r) /\ run[r].pc = "history" /\ ledger' = ledger /\ session' = session
  BY DEF ReadHistory, Active
<1>2. CASE Reconciles(run[r].set)
  <2> DEFINE next == [run[r] EXCEPT !.pc = "apply", !.done = Applied]
  <2>1. Applied \subseteq DOMAIN run[r].set /\ Applied \in SUBSET Version
    BY <1>2 DEF Reconciles, Applied
  <2>2. run' = [run EXCEPT ![r] = next]
    BY <1>2 DEF ReadHistory
  <2>3. /\ next.pc = "apply" /\ next.set = run[r].set /\ next.done = Applied
        /\ next.session = run[r].session /\ next.result = run[r].result
        /\ next \in RunState /\ next.done \subseteq DOMAIN next.set
    BY <1>1, <2>1, ActiveRun DEF RunState
  <2> HIDE DEF next
  <2>4. run'[r] = next
    BY <1>1, <2>2, ActiveRun
  <2>5. Connected(r)'
    BY <1>1, <2>3, <2>4, ActiveRun DEF Connected
  <2>6. Informed(r)'
    BY <1>1, <1>2, <2>3, <2>4 DEF Informed, Reconciles, Applied
  <2>7. Complete(r)'
    BY <1>1, <2>3, <2>4, ActiveRun DEF Complete
  <2>8. SessionSound(run[r].session)'
    BY <1>1, <2>3, <2>4, ActiveRun DEF SessionSound, Extends
  <2>9. QED
    BY <1>1, <2>2, <2>3, <2>5, <2>6, <2>7, <2>8, ActiveRun, OwnStep
<1>3. CASE ~Reconciles(run[r].set)
  <2> DEFINE next == [run[r] EXCEPT !.pc = "release", !.result = "conflict"]
  <2>1. run' = [run EXCEPT ![r] = next]
    BY <1>3 DEF ReadHistory, Conclude
  <2>2. /\ next.pc = "release" /\ next.set = run[r].set /\ next.done = run[r].done
        /\ next.session = run[r].session /\ next.result = "conflict"
        /\ next \in RunState /\ next.done \subseteq DOMAIN next.set
    BY <1>1, ActiveRun DEF RunState
  <2> HIDE DEF next
  <2>3. run'[r] = next
    BY <1>1, <2>1, ActiveRun
  <2>4. Connected(r)'
    BY <1>1, <2>2, <2>3, ActiveRun DEF Connected
  <2>5. Informed(r)' /\ Complete(r)'
    BY <2>2, <2>3 DEF Informed, Complete
  <2>6. SessionSound(run[r].session)'
    BY <1>1, <2>2, <2>3, ActiveRun DEF SessionSound, Extends
  <2>7. QED
    BY <1>1, <2>1, <2>2, <2>4, <2>5, <2>6, ActiveRun, OwnStep
<1>4. QED
  BY <1>2, <1>3

\* Up to the next migration a reconciled ledger holds the set, and from it nothing.
LEMMA NextIsTheEnd ==
  ASSUME NEW r \in Runner, run[r].set \in Sets, Reconciles(run[r].set),
         run[r].done = Applied, NEW v \in Version, IsNext(r, v)
  PROVE  /\ v \in DOMAIN run[r].set /\ ledger[v] = None
         /\ \A w \in Version : ledger[w] = IF w < v THEN run[r].set[w] ELSE None
<1>1. /\ v \in DOMAIN run[r].set /\ v \notin Applied
      /\ \A w \in DOMAIN run[r].set \ Applied : v <= w
  BY DEF IsNext, Pending
<1>2. ledger[v] = None
  BY <1>1 DEF Applied
<1>3. ASSUME NEW w \in Version PROVE ledger[w] = IF w < v THEN run[r].set[w] ELSE None
  <2>1. w \in Nat /\ v \in Nat
    BY MigrationAssumption DEF Version
  <2>2. CASE w < v
    <3>1. w \in DOMAIN run[r].set
      <4>1. DOMAIN run[r].set = 1..Len(run[r].set) /\ Len(run[r].set) \in Nat
        BY SetsAreSequences, MigrationAssumption
      <4>2. w \in 1..Len(run[r].set)
        BY <1>1, <2>1, <2>2, <4>1, MigrationAssumption DEF Version
      <4>3. QED
        BY <4>1, <4>2
    <3>2. w \in Applied
      BY <1>1, <2>1, <2>2, <3>1
    <3>3. QED
      BY <2>2, <3>2 DEF Reconciles, Applied
  <2>3. CASE ~(w < v)
    <3>1. ledger[w] = None
      BY <1>2, <2>1, <2>3 DEF Reconciles
    <3>2. QED
      BY <2>3, <3>1
  <2>4. QED
    BY <2>2, <2>3
<1>4. QED
  BY <1>1, <1>2, <1>3

LEMMA ExecuteKeeps ==
  ASSUME MigrationIInv, NEW r \in Runner, Execute(r) PROVE MigrationIInv'
<1>1. PICK v \in Version :
        /\ IsNext(r, v) /\ ledger[v] = None
        /\ session' = [session EXCEPT ![run[r].session].tx =
                         [version |-> v, migration |-> run[r].set[v]]]
  BY DEF Execute
<1> DEFINE tx == [version |-> v, migration |-> run[r].set[v]]
           begun == [session[run[r].session] EXCEPT !.tx = tx]
           next == [run[r] EXCEPT !.pc = "commit"]
<1>2. /\ Active(r) /\ run[r].pc = "apply" /\ ledger' = ledger
      /\ run' = [run EXCEPT ![r] = next]
      /\ session' = [session EXCEPT ![run[r].session] = begun]
  BY <1>1 DEF Execute, Active
<1>3. run[r].set \in Sets /\ Reconciles(run[r].set) /\ run[r].done = Applied
  BY <1>2, ActiveRun DEF Informed
<1>4. v \in DOMAIN run[r].set
      /\ \A w \in Version : ledger[w] = IF w < v THEN run[r].set[w] ELSE None
  BY <1>1, <1>3, NextIsTheEnd
<1>5. tx \in Tx /\ tx # NoTx /\ tx.version = v /\ tx.migration = run[r].set[v]
  BY <1>3, <1>4, SetsAreSequences, TxIsOne
<1> HIDE DEF tx
<1>6. /\ begun \in SessionState /\ begun.tx = tx
      /\ begun.state = session[run[r].session].state
      /\ begun.waiting = session[run[r].session].waiting
      /\ begun.lock = session[run[r].session].lock
  BY <1>2, <1>5, ActiveRun DEF SessionState
<1>7. /\ next.pc = "commit" /\ next.set = run[r].set /\ next.done = run[r].done
      /\ next.session = run[r].session /\ next.result = run[r].result
      /\ next \in RunState /\ next.done \subseteq DOMAIN next.set
  BY <1>2, ActiveRun DEF RunState
<1> HIDE DEF begun, next
<1>8. /\ run'[r] = next /\ session' \in [Session -> SessionState]
      /\ session'[run[r].session] = begun
      /\ \A t \in Session \ {run[r].session} : session'[t] = session[t]
  BY <1>2, <1>6, ActiveRun
<1>9. Connected(r)'
  BY <1>2, <1>6, <1>7, <1>8, ActiveRun DEF Connected
<1>10. Informed(r)'
  <2>1. Reconciles(run[r].set)' /\ Applied' = Applied
    BY <1>2, <1>3, <1>7, <1>8 DEF Reconciles, Applied
  <2>2. IsNext(r, v)'
    BY <1>1, <1>7, <1>8 DEF IsNext, Pending
  <2>3. QED
    BY <1>3, <1>5, <1>6, <1>7, <1>8, <2>1, <2>2 DEF Informed
<1>11. Complete(r)'
  <2>1. run'[r].set = run[r].set /\ run'[r].result = run[r].result /\ Complete(r)
    BY <1>2, <1>7, <1>8, ActiveRun
  <2>2. QED
    BY <1>2, <2>1 DEF Complete
<1>12. SessionSound(run[r].session)'
  <2>1. \E set \in Sets :
           /\ tx.version \in DOMAIN set /\ tx.migration = set[tx.version]
           /\ \A w \in Version : ledger'[w] = IF w < tx.version THEN set[w] ELSE None
    BY <1>2, <1>3, <1>4, <1>5
  <2>2. session'[run'[r].session] = begun /\ run'[r].session = run[r].session
    BY <1>7, <1>8
  <2>3. session[run[r].session].lock = 1
    BY <1>2, ActiveRun DEF Connected
  <2>4. QED
    BY <1>2, <1>5, <1>6, <2>1, <2>2, <2>3, ActiveRun DEF SessionSound, Extends
<1>13. QED
  BY <1>2, <1>6, <1>7, <1>8, <1>9, <1>10, <1>11, <1>12, ActiveRun, OwnStep

LEMMA CommittedKeeps ==
  ASSUME MigrationIInv, NEW r \in Runner, Committed(r) PROVE MigrationIInv'
<1>1. PICK v \in Version :
        /\ IsNext(r, v)
        /\ run' = [run EXCEPT ![r].pc = "apply", ![r].done = @ \cup {v}]
  BY DEF Committed
<1> DEFINE next == [run[r] EXCEPT !.pc = "apply", !.done = run[r].done \cup {v}]
<1>2. /\ Active(r) /\ run[r].pc = "commit" /\ session[run[r].session].tx = NoTx
      /\ ledger' = ledger /\ session' = session /\ run' = [run EXCEPT ![r] = next]
  BY <1>1 DEF Committed, Active
<1>3. run[r].done \in SUBSET Version /\ run[r].done \cup {v} \in SUBSET Version
  BY <1>2, ActiveRun DEF RunState
<1>4. v \in DOMAIN run[r].set
  BY <1>1 DEF IsNext, Pending
<1>5. /\ next.pc = "apply" /\ next.set = run[r].set /\ next.done = run[r].done \cup {v}
      /\ next.session = run[r].session /\ next.result = run[r].result
      /\ next \in RunState /\ next.done \subseteq DOMAIN next.set
  BY <1>2, <1>3, <1>4, ActiveRun DEF RunState
<1> HIDE DEF next
<1>6. run'[r] = next
  BY <1>2, ActiveRun
<1>7. Connected(r)'
  BY <1>2, <1>5, <1>6, ActiveRun DEF Connected
<1>8. Informed(r)'
  <2>1. PICK u \in Version : IsNext(r, u) /\ Applied = run[r].done \cup {u}
    BY <1>2, ActiveRun DEF Informed
  <2>2. u = v
    <3>1. u \in Nat /\ v \in Nat /\ u <= v /\ v <= u
      BY <1>1, <2>1, MigrationAssumption DEF IsNext, Version
    <3>2. QED
      BY <3>1
  <2>3. Reconciles(run[r].set)
    BY <1>2, ActiveRun DEF Informed
  <2>4. QED
    BY <1>2, <1>5, <1>6, <2>1, <2>2, <2>3 DEF Informed, Reconciles, Applied
<1>9. Complete(r)'
  BY <1>2, <1>5, <1>6, ActiveRun DEF Complete
<1>10. SessionSound(run[r].session)'
  BY <1>2, <1>5, <1>6, ActiveRun DEF SessionSound, Extends
<1>11. QED
  BY <1>2, <1>5, <1>7, <1>8, <1>9, <1>10, ActiveRun, OwnStep

LEMMA StatementFailsKeeps ==
  ASSUME MigrationIInv, NEW r \in Runner, StatementFails(r) PROVE MigrationIInv'
<1> DEFINE rolledBack == [session[run[r].session] EXCEPT !.tx = NoTx]
           next == [run[r] EXCEPT !.pc = "release", !.result = "failed"]
<1>1. /\ Active(r) /\ run[r].pc # "lock" /\ ledger' = ledger
      /\ run' = [run EXCEPT ![r] = next]
      /\ session' = [session EXCEPT ![run[r].session] = rolledBack]
  BY DEF StatementFails, Conclude, Active
<1>2. /\ rolledBack \in SessionState /\ rolledBack.tx = NoTx
      /\ rolledBack.state = session[run[r].session].state
      /\ rolledBack.waiting = session[run[r].session].waiting
      /\ rolledBack.lock = session[run[r].session].lock
  BY <1>1, ActiveRun DEF SessionState
<1>3. /\ next.pc = "release" /\ next.set = run[r].set /\ next.done = run[r].done
      /\ next.session = run[r].session /\ next.result = "failed"
      /\ next \in RunState /\ next.done \subseteq DOMAIN next.set
  BY <1>1, ActiveRun DEF RunState
<1> HIDE DEF rolledBack, next
<1>4. /\ run'[r] = next /\ session' \in [Session -> SessionState]
      /\ session'[run[r].session] = rolledBack
      /\ \A t \in Session \ {run[r].session} : session'[t] = session[t]
  BY <1>1, <1>2, ActiveRun
<1>5. Connected(r)'
  BY <1>1, <1>2, <1>3, <1>4, ActiveRun DEF Connected
<1>6. Informed(r)' /\ Complete(r)'
  BY <1>3, <1>4 DEF Informed, Complete
<1>7. SessionSound(run[r].session)'
  BY <1>2, <1>3, <1>4, <1>1, ActiveRun DEF SessionSound
<1>8. QED
  BY <1>1, <1>2, <1>3, <1>4, <1>5, <1>6, <1>7, ActiveRun, OwnStep

LEMMA AllAppliedKeeps ==
  ASSUME MigrationIInv, NEW r \in Runner, AllApplied(r) PROVE MigrationIInv'
<1> DEFINE next == [run[r] EXCEPT !.pc = "release", !.result = "applied"]
<1>1. /\ Active(r) /\ run[r].pc = "apply" /\ Pending(r) = {}
      /\ ledger' = ledger /\ session' = session /\ run' = [run EXCEPT ![r] = next]
  BY DEF AllApplied, Conclude, Active
<1>2. /\ next.pc = "release" /\ next.set = run[r].set /\ next.done = run[r].done
      /\ next.session = run[r].session /\ next.result = "applied"
      /\ next \in RunState /\ next.done \subseteq DOMAIN next.set
  BY <1>1, ActiveRun DEF RunState
<1> HIDE DEF next
<1>3. run'[r] = next
  BY <1>1, ActiveRun
<1>4. Connected(r)'
  BY <1>1, <1>2, <1>3, ActiveRun DEF Connected
<1>5. Informed(r)'
  BY <1>2, <1>3 DEF Informed
<1>6. Complete(r)'
  <2>1. Reconciles(run[r].set) /\ run[r].done = Applied
    BY <1>1, ActiveRun DEF Informed
  <2>2. ASSUME NEW v \in DOMAIN run[r].set PROVE ledger[v] = run[r].set[v]
    BY <1>1, <2>1 DEF Pending, Applied, Reconciles
  <2>3. QED
    BY <1>1, <1>2, <1>3, <2>2 DEF Complete
<1>7. SessionSound(run[r].session)'
  BY <1>1, <1>2, <1>3, ActiveRun DEF SessionSound, Extends
<1>8. QED
  BY <1>1, <1>2, <1>4, <1>5, <1>6, <1>7, ActiveRun, OwnStep

LEMMA ReleaseKeeps ==
  ASSUME MigrationIInv, NEW r \in Runner, Release(r) PROVE MigrationIInv'
<1> DEFINE pooled == [session[run[r].session] EXCEPT !.state = "idle"]
           released == [session[run[r].session] EXCEPT !.state = "idle", !.lock = @ - 1]
           next == [run[r] EXCEPT !.pc = "ended"]
<1>1. Active(r) /\ run[r].pc = "release" /\ ledger' = ledger
  BY DEF Release, Active
<1>2. /\ session[run[r].session].lock = 1 /\ ~session[run[r].session].waiting
      /\ session[run[r].session].tx = NoTx
  BY <1>1, ActiveRun DEF Connected, SessionSound
<1>3. /\ pooled \in SessionState /\ pooled.state = "idle" /\ pooled.lock = 1
      /\ ~pooled.waiting /\ pooled.tx = NoTx
  BY <1>1, <1>2, ActiveRun DEF SessionState
<1>4. /\ released \in SessionState /\ released.state = "idle" /\ released.lock = 0
      /\ ~released.waiting /\ released.tx = NoTx
  <2>1. session[run[r].session].lock - 1 = 0
    BY <1>2
  <2>2. released = [pooled EXCEPT !.lock = 0]
    BY <2>1
  <2> HIDE DEF pooled, released
  <2>3. QED
    BY <1>3, <2>2 DEF SessionState
<1>5. session' = [session EXCEPT ![run[r].session] = released]
  BY DEF Release
<1>6. run' = [run EXCEPT ![r] = next]
  BY DEF Release
<1>7. /\ next.pc = "ended" /\ next.set = run[r].set /\ next.done = run[r].done
      /\ next.session = run[r].session /\ next.result = run[r].result
      /\ next \in RunState /\ next.done \subseteq DOMAIN next.set
  BY <1>1, ActiveRun DEF RunState
<1> HIDE DEF pooled, released, next
<1>8. /\ run'[r] = next /\ session' \in [Session -> SessionState]
      /\ session'[run[r].session] = released
      /\ \A t \in Session \ {run[r].session} : session'[t] = session[t]
  BY <1>1, <1>4, <1>5, <1>6, ActiveRun
<1>9. Connected(r)' /\ Informed(r)'
  BY <1>7, <1>8 DEF Connected, Active, Informed
<1>10. Complete(r)'
  BY <1>1, <1>7, <1>8, ActiveRun DEF Complete
<1>11. SessionSound(run[r].session)'
  <2>1. session'[run'[r].session] = released
    BY <1>7, <1>8
  <2>2. QED
    BY <1>4, <2>1 DEF SessionSound
<1>12. session'[run[r].session].lock > 0 => session[run[r].session].lock > 0
  BY <1>2
<1>13. QED
  BY <1>1, <1>6, <1>7, <1>8, <1>9, <1>10, <1>11, <1>12, ActiveRun, OwnStep

LEMMA LoseKeeps ==
  ASSUME MigrationIInv, NEW r \in Runner, Lose(r) PROVE MigrationIInv'
<1> DEFINE lost == Discarded(session[run[r].session])
           result == IF run[r].result = "none" THEN "failed" ELSE run[r].result
           next == [run[r] EXCEPT !.pc = "ended", !.result = result]
<1>1. Active(r) /\ ledger' = ledger
  BY DEF Lose
<1>2. /\ lost \in SessionState /\ lost.state = "orphan"
      /\ lost.waiting = session[run[r].session].waiting
      /\ lost.lock = session[run[r].session].lock
      /\ lost.tx = session[run[r].session].tx
  BY <1>1, ActiveRun DEF SessionState, Discarded
<1>3. session' = [session EXCEPT ![run[r].session] = lost]
  BY DEF Lose
<1>4. run' = [run EXCEPT ![r] = next]
  BY DEF Lose
<1>5. result \in {"none", "applied", "conflict", "failed"}
  BY <1>1, ActiveRun DEF RunState
<1>6. result = "applied" => run[r].result = "applied"
  OBVIOUS
<1> HIDE DEF lost, result
<1>7. /\ next.pc = "ended" /\ next.set = run[r].set /\ next.done = run[r].done
      /\ next.session = run[r].session /\ next.result = result
      /\ next \in RunState /\ next.done \subseteq DOMAIN next.set
  BY <1>1, <1>5, ActiveRun DEF RunState
<1> HIDE DEF next
<1>8. /\ run'[r] = next /\ session' \in [Session -> SessionState]
      /\ session'[run[r].session] = lost
      /\ \A t \in Session \ {run[r].session} : session'[t] = session[t]
  BY <1>1, <1>2, <1>3, <1>4, ActiveRun
<1>9. Connected(r)' /\ Informed(r)'
  BY <1>7, <1>8 DEF Connected, Active, Informed
<1>10. Complete(r)'
  BY <1>1, <1>6, <1>7, <1>8, ActiveRun DEF Complete
<1>11. SessionSound(run[r].session)'
  BY <1>1, <1>2, <1>7, <1>8, ActiveRun DEF SessionSound, Extends
<1>12. QED
  BY <1>1, <1>2, <1>4, <1>7, <1>8, <1>9, <1>10, <1>11, ActiveRun, OwnStep

-----------------------------------------------------------------------------
(* The commit, which may come after its run has ended.                       *)

LEMMA CommitKeeps ==
  ASSUME MigrationIInv, NEW s \in Session, Commit(s) PROVE MigrationIInv'
<1> DEFINE tx == session[s].tx
           committed == [session[s] EXCEPT !.tx = NoTx]
<1>1. PICK v, m : v = tx.version /\ m = tx.migration
  OBVIOUS
<1>2. /\ session[s] \in SessionState /\ SessionSound(s) /\ MigrationTypeOK
      /\ OneHolder /\ OwnSession /\ tx # NoTx
  BY DEF MigrationIInv, MigrationTypeOK, Commit
<1>3. session[s].lock = 1 /\ Extends(tx) /\ v \in Version /\ m \in Migrations
  <2>1. session[s].lock = 1 /\ Extends(tx)
    BY <1>2 DEF SessionSound
  <2>2. tx \in Tx
    BY <1>2 DEF SessionState
  <2>3. QED
    BY <1>1, <2>1, <2>2 DEF Tx
<1>4. /\ ledger[v] = None /\ ledger' = [ledger EXCEPT ![v] = m]
      /\ session' = [session EXCEPT ![s] = committed] /\ run' = run
  BY <1>1 DEF Commit
<1>5. /\ committed \in SessionState /\ committed.tx = NoTx
      /\ committed.state = session[s].state
      /\ committed.waiting = session[s].waiting /\ committed.lock = session[s].lock
  BY <1>2 DEF SessionState
<1> HIDE DEF committed
<1>6. /\ session' \in [Session -> SessionState] /\ session'[s] = committed
      /\ \A t \in Session \ {s} : session'[t] = session[t]
  BY <1>2, <1>4, <1>5, SessionTyped
<1>7. /\ ledger' \in [Version -> Migrations \cup {None}] /\ ledger'[v] = m
      /\ \A w \in Version \ {v} : ledger'[w] = ledger[w]
  BY <1>2, <1>3, <1>4 DEF MigrationTypeOK
<1>8. MigrationTypeOK'
  BY <1>2, <1>4, <1>6, <1>7 DEF MigrationTypeOK
<1>9. OneHolder'
  BY <1>2, <1>5, <1>6 DEF OneHolder
<1>10. OwnSession'
  BY <1>2, <1>4 DEF OwnSession, Active
<1>11. ASSUME NEW t \in Session \ {s} PROVE session[t].lock = 0 /\ session[t].tx = NoTx
  <2>1. SessionSound(t)
    BY DEF MigrationIInv
  <2>2. ~(session[t].lock > 0 /\ session[s].lock > 0)
    BY <1>2 DEF OneHolder
  <2>3. QED
    BY <1>3, <2>1, <2>2 DEF SessionSound
<1>12. ASSUME NEW t \in Session PROVE SessionSound(t)'
  <2>1. CASE t = s
    BY <2>1, <1>2, <1>5, <1>6 DEF SessionSound
  <2>2. CASE t # s
    BY <2>2, <1>6, <1>11 DEF SessionSound, MigrationIInv
  <2>3. QED
    BY <2>1, <2>2
<1>13. ASSUME NEW q \in Runner PROVE Connected(q)' /\ Informed(q)' /\ Complete(q)'
  <2>1. /\ Connected(q) /\ Informed(q) /\ Complete(q)
        /\ run[q] \in RunState
    BY <1>2 DEF MigrationIInv, MigrationTypeOK
  <2>2. Connected(q)'
    <3>1. ASSUME Active(q)
          PROVE  /\ session'[run[q].session].state = session[run[q].session].state
                 /\ session'[run[q].session].waiting = session[run[q].session].waiting
                 /\ session'[run[q].session].lock = session[run[q].session].lock
                 /\ run[q].pc # "commit" => session'[run[q].session].tx = NoTx
      BY <1>5, <1>6, <2>1, <3>1 DEF Connected
    <3>2. QED
      BY <1>4, <2>1, <3>1 DEF Connected, Active
  <2>3. Informed(q)'
    <3>1. CASE run[q].pc \in {"apply", "commit"} /\ run[q].session = s
      <4>1. run[q].pc = "commit" /\ run[q].set \in Sets
        BY <1>2, <2>1, <3>1 DEF Connected, Active
      <4>2. /\ Reconciles(run[q].set) /\ run[q].done = Applied
            /\ IsNext(q, v) /\ m = run[q].set[v]
        BY <1>1, <1>2, <2>1, <3>1, <4>1 DEF Informed
      <4>3. v \in DOMAIN run[q].set
            /\ \A w \in Version : ledger[w] = IF w < v THEN run[q].set[w] ELSE None
        BY <1>3, <4>1, <4>2, NextIsTheEnd
      <4>4. m # None
        BY <1>3, MigrationAssumption
      <4>5. \A w \in Version : ledger'[w] # None => w \in DOMAIN run[q].set
                                                    /\ run[q].set[w] = ledger'[w]
        BY <1>7, <4>2, <4>3 DEF Reconciles
      <4>6. ASSUME NEW w \in Version, NEW u \in Version, w < u, ledger'[u] # None
            PROVE  ledger'[w] # None
        <5>1. w \in Nat /\ u \in Nat /\ v \in Nat
          BY <1>3, MigrationAssumption DEF Version
        <5>2. u <= v
          BY <1>7, <4>3, <4>6, <5>1
        <5>3. w < v /\ w # v
          BY <4>6, <5>1, <5>2
        <5>4. w \in DOMAIN run[q].set /\ ledger[w] = run[q].set[w]
          <6>1. DOMAIN run[q].set = 1..Len(run[q].set) /\ Len(run[q].set) \in Nat
            BY <4>1, SetsAreSequences, MigrationAssumption
          <6>2. w \in 1..Len(run[q].set)
            BY <4>3, <5>1, <5>3, <6>1, MigrationAssumption DEF Version
          <6>3. QED
            BY <4>3, <5>3, <6>1, <6>2
        <5>5. QED
          BY <1>7, <4>1, <5>3, <5>4, SetsAreSequences
      <4>7. Applied' = run[q].done \cup {v}
        BY <1>3, <1>7, <4>2, <4>4 DEF Applied
      <4>8. Reconciles(run[q].set)'
        BY <1>4, <4>5, <4>6 DEF Reconciles
      <4>9. IsNext(q, v)' /\ session'[run'[q].session].tx = NoTx
        <5>1. \A w : IsNext(q, w) <=> IsNext(q, w)'
          BY <1>4 DEF IsNext, Pending
        <5>2. v' = v
          OBVIOUS
        <5>3. QED
          BY <1>4, <1>5, <1>6, <3>1, <4>2, <5>1, <5>2
      <4>10. QED
        BY <1>3, <1>4, <4>1, <4>7, <4>8, <4>9 DEF Informed
    <3>2. CASE run[q].pc \in {"apply", "commit"} /\ run[q].session # s
      <4>1. run[q].session \in Session \ {s} /\ session[run[q].session].lock = 1
        BY <2>1, <3>2 DEF Connected, Active
      <4>2. QED
        BY <1>11, <4>1
    <3>3. CASE run[q].pc \notin {"apply", "commit"}
      BY <1>4, <3>3 DEF Informed
    <3>4. QED
      BY <3>1, <3>2, <3>3
  <2>4. Complete(q)'
    <3>1. ASSUME NEW w \in DOMAIN run[q].set, run[q].result = "applied"
          PROVE  ledger'[w] = run[q].set[w]
      <4>1. run[q].set \in Sets
        BY <2>1, <3>1 DEF RunState
      <4>2. w \in Version /\ ledger[w] = run[q].set[w] /\ run[q].set[w] # None
        BY <2>1, <3>1, <4>1, SetsAreSequences DEF Complete
      <4>3. QED
        BY <1>4, <1>7, <4>2
    <3>2. QED
      BY <1>4, <3>1 DEF Complete
  <2>5. QED
    BY <2>2, <2>3, <2>4
<1>14. QED
  BY <1>8, <1>9, <1>10, <1>12, <1>13 DEF MigrationIInv

-----------------------------------------------------------------------------
(* The theorems.                                                             *)

LEMMA InitEstablishes ==
  ASSUME MigrationInit PROVE MigrationIInv
<1>1. \A s \in Session : session[s] = NoConnection
  BY DEF MigrationInit
<1>2. \A r \in Runner : run[r] = NoRun
  BY DEF MigrationInit
<1>3. MigrationTypeOK
  <2>1. NoConnection \in SessionState
    BY DEF NoConnection, SessionState
  <2>2. NoRun \in RunState /\ NoRun.done \subseteq DOMAIN NoRun.set
    BY DEF NoRun, RunState
  <2>3. ledger \in [Version -> Migrations \cup {None}]
    BY MigrationAssumption DEF MigrationInit
  <2>4. QED
    BY <1>2, <2>1, <2>2, <2>3 DEF MigrationInit, MigrationTypeOK
<1>4. OneHolder /\ \A s \in Session : SessionSound(s)
  BY <1>1 DEF OneHolder, SessionSound, NoConnection
<1>5. OwnSession /\ \A r \in Runner : Connected(r) /\ Informed(r) /\ Complete(r)
  BY <1>2 DEF OwnSession, Connected, Informed, Complete, Active, NoRun
<1>6. QED
  BY <1>3, <1>4, <1>5 DEF MigrationIInv

LEMMA StutteringKeeps ==
  ASSUME MigrationIInv, UNCHANGED migrationVars PROVE MigrationIInv'
<1>1. ledger' = ledger /\ session' = session /\ run' = run
  BY DEF migrationVars
<1>2. MigrationTypeOK' /\ OneHolder' /\ OwnSession'
  BY <1>1 DEF MigrationIInv, MigrationTypeOK, OneHolder, OwnSession, Active
<1>3. \A s \in Session : SessionSound(s)'
  BY <1>1, SessionStays DEF MigrationIInv
<1>4. \A r \in Runner : Connected(r)' /\ Informed(r)' /\ Complete(r)'
  BY <1>1, RunStays DEF MigrationIInv
<1>5. QED
  BY <1>2, <1>3, <1>4 DEF MigrationIInv

LEMMA NextKeeps ==
  ASSUME MigrationIInv, [MigrationNext]_migrationVars PROVE MigrationIInv'
<1>1. ASSUME NEW r \in Runner, Acquire(r) \/ AcquireFails(r) PROVE MigrationIInv'
  BY <1>1, AcquireKeeps, AcquireFailsKeeps
<1>2. ASSUME NEW r \in Runner, Advance(r) PROVE MigrationIInv'
  BY <1>2, LockTakenKeeps, ReadHistoryKeeps, ExecuteKeeps, CommittedKeeps,
     AllAppliedKeeps, ReleaseKeeps DEF Advance
<1>3. ASSUME NEW r \in Runner, StatementFails(r) \/ Lose(r) PROVE MigrationIInv'
  BY <1>3, StatementFailsKeeps, LoseKeeps
<1>4. ASSUME NEW s \in Session, Grant(s) \/ Commit(s) \/ EndSession(s) PROVE MigrationIInv'
  BY <1>4, GrantKeeps, CommitKeeps, EndSessionKeeps
<1>5. CASE UNCHANGED migrationVars
  BY <1>5, StutteringKeeps
<1>6. QED
  BY <1>1, <1>2, <1>3, <1>4, <1>5 DEF MigrationNext

LEMMA MigrationInvariance == MigrationSpec => []MigrationIInv
BY InitEstablishes, NextKeeps, PTL DEF MigrationSpec

\* Ledger, sessions and runs keep their types, and a run never takes for applied what
\* its set does not hold (runner.go:85-94).
THEOREM MigrationTypeCorrect == MigrationSpec => []MigrationTypeOK
<1>1. MigrationIInv => MigrationTypeOK
  BY DEF MigrationIInv
<1>2. QED
  BY <1>1, MigrationInvariance, PTL

\* One session at most holds the lock, every transaction is under it, and no connection
\* goes back to the pool with it (runner.go:64-69, 98-120).
THEOREM RunsExclude == MigrationSpec => []OneRunAtATime
<1>1. MigrationIInv => OneRunAtATime
  <2> SUFFICES ASSUME MigrationIInv PROVE OneRunAtATime
    OBVIOUS
  <2>1. ASSUME NEW s \in Session
        PROVE  /\ session[s].tx # NoTx => session[s].lock > 0
               /\ session[s].state = "idle" => session[s].lock = 0
    <3>1. SessionSound(s)
      BY DEF MigrationIInv
    <3>2. QED
      BY <3>1 DEF SessionSound
  <2>2. OneHolder
    BY DEF MigrationIInv
  <2>3. QED
    BY <2>1, <2>2 DEF OneRunAtATime, OneHolder
<1>2. QED
  BY <1>1, MigrationInvariance, PTL

\* Every change of the ledger is the next migration of a set that agrees with all it
\* holds, though the run that checked it may be gone (runner.go:144-181, 204).
THEOREM DatabaseMovesForward == MigrationSpec => ForwardOnly
<1> DEFINE Moves ==
      \E set \in Sets, v \in Version :
        /\ v \in DOMAIN set
        /\ ledger' = [ledger EXCEPT ![v] = set[v]]
        /\ \A w \in Version : ledger[w] = IF w < v THEN set[w] ELSE None
<1>1. ASSUME MigrationIInv, [MigrationNext]_migrationVars, ledger' # ledger PROVE Moves
  <2>1. PICK s \in Session : Commit(s)
    BY <1>1 DEF MigrationNext, migrationVars, Acquire, AcquireFails, Advance, LockTaken,
       ReadHistory, Execute, Committed, AllApplied, Release, StatementFails, Lose, Grant,
       EndSession
  <2>2. session[s].tx # NoTx /\ SessionSound(s) /\ session[s] \in SessionState
    BY <1>1, <2>1 DEF Commit, MigrationIInv, MigrationTypeOK
  <2>3. Extends(session[s].tx)
    BY <2>2 DEF SessionSound
  <2>4. session[s].tx.version \in Version
    BY <2>2 DEF SessionState, Tx
  <2>5. QED
    BY <2>1, <2>3, <2>4 DEF Commit, Extends
<1>2. MigrationIInv /\ [MigrationNext]_migrationVars => [ledger' # ledger => Moves]_ledger
  BY <1>1
<1>3. QED
  BY <1>2, MigrationInvariance, PTL DEF MigrationSpec, ForwardOnly

\* Who was told that all is applied finds all of its set applied, as written, from then
\* on (runner.go:84-96).
THEOREM SuccessIsComplete == MigrationSpec => []AppliedIsComplete
<1>1. MigrationIInv => AppliedIsComplete
  BY DEF MigrationIInv, Complete, AppliedIsComplete
<1>2. QED
  BY <1>1, MigrationInvariance, PTL
=============================================================================
