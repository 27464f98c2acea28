--------------------------- MODULE RateLimit_proofs ---------------------------
(***************************************************************************)
(* What the limiters promise, proved for any number of keys and callers,   *)
(* any limit, window and capacity, and instants in any order.              *)
(***************************************************************************)
EXTENDS RateLimit, TLAPS, FiniteSetTheorems, WellFoundedInduction

-----------------------------------------------------------------------------
(* The earliest deadline.                                                    *)

Less == {p \in Nat \X Nat : p[1] < p[2]}

LEMMA LessIsWellFounded == IsWellFoundedOn(Less, Nat)
BY NatLessThanWellFounded, Zenon DEF OpToRel, Less

LEMMA NatHasLeast ==
  ASSUME NEW S \in SUBSET Nat, S # {}
  PROVE  \E x \in S : \A y \in S : x <= y
<1>1. PICK x \in S : \A y \in S : ~ (<<y, x>> \in Less)
  BY LessIsWellFounded, WFMin
<1>2. ASSUME NEW y \in S PROVE x <= y
  <2>1. y \in Nat /\ x \in Nat /\ <<y, x>> \in Nat \X Nat
    OBVIOUS
  <2>2. ~ (y < x)
    BY <1>1, <2>1 DEF Less
  <2>3. QED
    BY <2>1, <2>2
<1>3. QED
  BY <1>2

\* The recomputed deadline is one of those held, and the earliest.
LEMMA MinIsLeast ==
  ASSUME NEW S \in SUBSET Nat, S # {}
  PROVE  Min(S) \in S /\ \A y \in S : Min(S) <= y
BY NatHasLeast DEF Min

-----------------------------------------------------------------------------
(* One table.                                                                *)

\* What one table keeps: its bounds, and a deadline no counter precedes.
Sound(table, limit) ==
    /\ table \in Table
    /\ Cardinality(Held(table)) <= Capacity
    /\ \A k \in Keys : table.buckets[k].count <= limit
    /\ \A k \in Held(table) : /\ table.nextExpiry # Unset
                              /\ table.nextExpiry <= table.buckets[k].resetAt

LEMMA HeldIsFinite ==
  ASSUME NEW table PROVE IsFiniteSet(Held(table)) /\ Cardinality(Held(table)) \in Nat
<1>1. Held(table) \in SUBSET Keys
  BY DEF Held
<1>2. QED
  BY <1>1, KeysAssumption, FS_Subset, FS_CardinalityType

\* A sweep keeps what is inside its window, whole, and nothing else.
LEMMA SweepKeeps ==
  ASSUME NEW table \in Table, NEW now \in Nat, NEW k \in Keys
  PROVE  Sweep(table, now).buckets[k] =
           IF Expired(table.buckets[k], now) THEN NoBucket ELSE table.buckets[k]
BY DEF Sweep

LEMMA SweepHeld ==
  ASSUME NEW table \in Table, NEW now \in Nat
  PROVE  /\ Held(Sweep(table, now)) \subseteq Held(table)
         /\ \A k \in Held(Sweep(table, now)) :
              /\ ~Expired(table.buckets[k], now)
              /\ Sweep(table, now).buckets[k] = table.buckets[k]
BY SweepKeeps DEF Held, NoBucket

LEMMA SweepSound ==
  ASSUME NEW limit \in Nat, NEW table, Sound(table, limit), NEW now \in Nat
  PROVE  Sound(Sweep(table, now), limit)
<1> DEFINE swept == Sweep(table, now)
           kept == [k \in Keys |-> IF Expired(table.buckets[k], now)
                                   THEN NoBucket ELSE table.buckets[k]]
<1>1. table \in Table
  BY DEF Sound
<1>2. kept \in [Keys -> Bucket]
  BY <1>1 DEF Table, Bucket, NoBucket, Unset
<1>3. Deadlines(kept) \in SUBSET Nat
  BY <1>2 DEF Deadlines, Bucket
<1>4. swept = [buckets |-> kept,
               nextExpiry |-> IF Deadlines(kept) = {} THEN Unset ELSE Min(Deadlines(kept))]
  BY DEF Sweep
<1>5. swept \in Table
  <2>1. (IF Deadlines(kept) = {} THEN Unset ELSE Min(Deadlines(kept))) \in Nat
    BY <1>3, MinIsLeast DEF Unset
  <2>2. QED
    BY <1>2, <1>4, <2>1 DEF Table
<1>6. Cardinality(Held(swept)) <= Capacity
  <2>1. Held(swept) \in SUBSET Held(table)
    BY <1>1, SweepHeld
  <2>2. Cardinality(Held(swept)) <= Cardinality(Held(table))
    BY <2>1, HeldIsFinite, FS_Subset
  <2>3. QED
    BY <2>2, HeldIsFinite, PolicyAssumption DEF Sound
<1>7. ASSUME NEW k \in Keys PROVE swept.buckets[k].count <= limit
  BY <1>1, SweepKeeps DEF Sound, NoBucket
<1>8. ASSUME NEW k \in Held(swept)
      PROVE  swept.nextExpiry # Unset /\ swept.nextExpiry <= swept.buckets[k].resetAt
  <2>1. k \in Keys /\ kept[k].count # 0 /\ swept.buckets[k] = kept[k]
    BY <1>4 DEF Held
  <2>2. kept[k].resetAt \in Deadlines(kept)
    BY <2>1 DEF Deadlines
  <2>3. swept.nextExpiry \in Deadlines(kept) /\ swept.nextExpiry <= kept[k].resetAt
    BY <1>3, <1>4, <2>2, MinIsLeast
  <2>4. PICK h \in Keys : kept[h].count # 0 /\ swept.nextExpiry = kept[h].resetAt
    BY <2>3 DEF Deadlines
  <2>5. kept[h].resetAt > now
    <3>1. ~Expired(table.buckets[h], now) /\ kept[h] = table.buckets[h]
      BY <2>4 DEF NoBucket
    <3>2. table.buckets[h].resetAt \in Nat
      BY <1>1 DEF Table, Bucket
    <3>3. QED
      BY <3>1, <3>2 DEF Expired
  <2>6. QED
    BY <1>2, <2>1, <2>3, <2>4, <2>5 DEF Unset, Bucket
<1>9. QED
  BY <1>5, <1>6, <1>7, <1>8 DEF Sound

LEMMA ExaminedSound ==
  ASSUME NEW limit \in Nat, NEW table, Sound(table, limit), NEW now \in Nat, NEW key
  PROVE  Sound(Examined(table, key, now), limit)
BY SweepSound DEF Examined

\* What an admission leaves for the charge: room under the limit, or a free slot.
LEMMA AdmittedHasRoom ==
  ASSUME NEW table \in Table, NEW key \in Keys, NEW limit, NEW now \in Nat,
         Admits(table, key, limit, now)
  PROVE  LET after == Examined(table, key, now) IN
         \/ /\ key \in Held(after)
            /\ Expired(after.buckets[key], now) \/ after.buckets[key].count < limit
         \/ key \notin Held(after) /\ Cardinality(Held(after)) < Capacity
<1>1. CASE key \in Held(table)
  BY <1>1 DEF Admits, Examined, Scans
<1>2. CASE key \notin Held(table)
  <2>1. key \notin Held(Examined(table, key, now))
    BY <1>2, SweepHeld DEF Examined
  <2>2. QED
    BY <1>2, <2>1 DEF Admits
<1>3. QED
  BY <1>1, <1>2

LEMMA ChargeSound ==
  ASSUME NEW limit \in Nat \ {0}, NEW table, Sound(table, limit), NEW now \in Nat,
         NEW key \in Keys,
         \/ /\ key \in Held(table)
            /\ Expired(table.buckets[key], now) \/ table.buckets[key].count < limit
         \/ key \notin Held(table) /\ Cardinality(Held(table)) < Capacity
  PROVE  Sound(Charge(table, key, now), limit)
<1> DEFINE charged == Charge(table, key, now)
<1>1. table \in Table
  BY DEF Sound
<1>2. CASE key \in Held(table) /\ ~Expired(table.buckets[key], now)
  <2>1. charged = [table EXCEPT !.buckets = [table.buckets EXCEPT ![key] =
                     [table.buckets[key] EXCEPT !.count = table.buckets[key].count + 1]]]
    BY <1>2 DEF Charge
  <2>2. table.buckets[key] \in Bucket
    BY <1>1 DEF Table
  <2>3. table.buckets[key].count + 1 <= limit /\ table.buckets[key].count + 1 # 0
    BY <1>2, <2>2 DEF Bucket
  <2>4. [table.buckets[key] EXCEPT !.count = table.buckets[key].count + 1] \in Bucket
    BY <2>2 DEF Bucket
  <2>5. charged \in Table
    BY <1>1, <2>1, <2>4 DEF Table
  <2>6. \A k \in Keys : /\ charged.buckets[k].resetAt = table.buckets[k].resetAt
                        /\ k # key => charged.buckets[k] = table.buckets[k]
    BY <1>1, <2>1, <2>2 DEF Table, Bucket
  <2>7. charged.buckets[key].count = table.buckets[key].count + 1
    BY <1>1, <2>1, <2>2 DEF Table, Bucket
  <2>8. charged.nextExpiry = table.nextExpiry
    BY <1>1, <2>1 DEF Table
  <2>9. Held(charged) = Held(table)
    BY <1>2, <2>3, <2>6, <2>7 DEF Held
  <2>10. \A k \in Keys : charged.buckets[k].count <= limit
    BY <2>3, <2>6, <2>7 DEF Sound
  <2>11. \A k \in Held(charged) : /\ charged.nextExpiry # Unset
                                 /\ charged.nextExpiry <= charged.buckets[k].resetAt
    BY <2>6, <2>8, <2>9 DEF Sound, Held
  <2>12. QED
    BY <2>5, <2>9, <2>10, <2>11 DEF Sound
<1>3. CASE ~(key \in Held(table) /\ ~Expired(table.buckets[key], now))
  <2> DEFINE reset == now + Window
             fresh == [count |-> 1, resetAt |-> reset]
  <2>1. charged = [buckets |-> [table.buckets EXCEPT ![key] = fresh],
                   nextExpiry |-> Earliest(table.nextExpiry, reset)]
    BY <1>3 DEF Charge
  <2>2. fresh \in Bucket /\ reset \in Nat /\ reset # Unset
    BY PolicyAssumption DEF Bucket, Unset
  <2>3. table.nextExpiry \in Nat /\ table.buckets \in [Keys -> Bucket]
    BY <1>1 DEF Table
  <2>4. charged \in Table
    BY <2>1, <2>2, <2>3 DEF Table, Earliest
  <2>5. \A k \in Keys : charged.buckets[k] = IF k = key THEN fresh ELSE table.buckets[k]
    BY <2>1, <2>3
  <2>6. Held(charged) = Held(table) \cup {key}
    BY <2>5 DEF Held
  <2>7. Cardinality(Held(charged)) <= Capacity
    <3>1. Cardinality(Held(charged)) =
            IF key \in Held(table) THEN Cardinality(Held(table)) ELSE Cardinality(Held(table)) + 1
      BY <2>6, HeldIsFinite, FS_AddElement
    <3>2. key \in Held(table) \/ Cardinality(Held(table)) < Capacity
      OBVIOUS
    <3>3. QED
      BY <3>1, <3>2, HeldIsFinite, PolicyAssumption DEF Sound
  <2>8. \A k \in Keys : charged.buckets[k].count <= limit
    BY <2>5 DEF Sound
  <2>9. ASSUME NEW k \in Held(charged)
        PROVE  charged.nextExpiry # Unset /\ charged.nextExpiry <= charged.buckets[k].resetAt
    <3>1. charged.nextExpiry = Earliest(table.nextExpiry, reset)
      BY <2>1
    <3>2. charged.nextExpiry # Unset /\ charged.nextExpiry <= reset
      BY <2>2, <2>3, <3>1 DEF Earliest
    <3>3. CASE k = key
      BY <2>5, <3>2, <3>3 DEF Held
    <3>4. CASE k # key
      <4>1. k \in Held(table) /\ k \in Keys /\ charged.buckets[k] = table.buckets[k]
        BY <2>5, <2>6, <3>4 DEF Held
      <4>2. table.nextExpiry # Unset /\ table.nextExpiry <= table.buckets[k].resetAt
        BY <4>1 DEF Sound
      <4>3. charged.nextExpiry <= table.nextExpiry
        BY <2>2, <2>3, <3>1, <4>2 DEF Earliest
      <4>4. table.buckets[k].resetAt \in Nat
        BY <2>3, <4>1 DEF Bucket
      <4>5. QED
        BY <2>2, <2>3, <2>4, <3>2, <4>1, <4>2, <4>3, <4>4 DEF Table
    <3>5. QED
      BY <3>3, <3>4
  <2>10. QED
    BY <2>4, <2>7, <2>8, <2>9 DEF Sound
<1>4. QED
  BY <1>2, <1>3

-----------------------------------------------------------------------------
(* The inductive invariant.                                                  *)

\* A caller captured its instant before it got to the mutex.
CapturedInThePast == \A c \in Calls : Waiting(c) => calls[c] \in Call /\ calls[c].at <= clock

IInv == TypeOK /\ DeadlineIsHonest /\ CapturedInThePast

LEMMA DimensionsFacts ==
  /\ "clients" \in Dimensions
  /\ \A d \in Dimensions : Attempts[d] \in Nat \ {0} /\ Attempts[d] \in Nat
BY DimensionsAssumption, PolicyAssumption

LEMMA TablesSound ==
  TypeOK /\ DeadlineIsHonest <=>
    /\ clock \in Instant
    /\ calls \in [Calls -> Call \cup {Idle}]
    /\ granted \in [Dimensions -> [Keys -> History]]
    /\ tables = [d \in Dimensions |-> tables[d]]
    /\ \A d \in Dimensions : Sound(tables[d], Attempts[d])
<1>1. tables \in [Dimensions -> Table] <=>
        /\ tables = [d \in Dimensions |-> tables[d]]
        /\ \A d \in Dimensions : tables[d] \in Table
  OBVIOUS
<1>2. QED
  BY <1>1 DEF TypeOK, DeadlineIsHonest, Sound

\* The instant and keys of a caller that waits.
LEMMA WaitingCall ==
  ASSUME TypeOK, NEW c \in Calls, Waiting(c)
  PROVE  /\ calls[c] \in Call
         /\ calls[c].at \in Instant /\ calls[c].at \in Nat
         /\ \A d \in Dimensions : calls[c].key[d] \in Keys
<1>1. calls[c] \in Call \cup {Idle}
  BY DEF TypeOK
<1>2. Idle.at = -1
  BY DEF Idle
<1>3. calls[c] # Idle
  BY <1>2 DEF Waiting
<1>4. calls[c] \in Call
  BY <1>1, <1>3
<1>5. QED
  BY <1>4, KeysAssumption, BoundsAssumption DEF Call, Instant

LEMMA InvariantInit == Init => IInv
<1> SUFFICES ASSUME Init PROVE IInv
  OBVIOUS
<1>1. tables = [d \in Dimensions |-> tables[d]]
  BY DEF Init
<1>2. ASSUME NEW d \in Dimensions PROVE Sound(tables[d], Attempts[d])
  <2>1. tables[d] = [buckets |-> [k \in Keys |-> NoBucket], nextExpiry |-> Unset]
    BY DEF Init
  <2>2. tables[d] \in Table
    BY <2>1 DEF Table, Bucket, NoBucket, Unset
  <2>3. Held(tables[d]) = {}
    BY <2>1 DEF Held, NoBucket
  <2>4. Cardinality(Held(tables[d])) = 0
    BY <2>3, FS_EmptySet
  <2>5. \A k \in Keys : tables[d].buckets[k].count = 0
    BY <2>1 DEF NoBucket
  <2>6. QED
    BY <2>2, <2>3, <2>4, <2>5, PolicyAssumption, DimensionsFacts DEF Sound
<1>3. clock \in Instant
  BY BoundsAssumption DEF Init, Instant
<1>4. calls \in [Calls -> Call \cup {Idle}]
  BY DEF Init
<1>5. granted \in [Dimensions -> [Keys -> History]]
  BY DEF Init, History, NoHistory
<1>6. CapturedInThePast
  BY DEF CapturedInThePast, Waiting, Init, Idle
<1>7. QED
  BY <1>1, <1>2, <1>3, <1>4, <1>5, <1>6, TablesSound DEF IInv

\* What a decision leaves in the tables before it charges anything.
LEMMA ExaminedTablesSound ==
  ASSUME TypeOK, DeadlineIsHonest, NEW c \in Calls, Waiting(c)
  PROVE  \A d \in Dimensions : Sound(TablesExamined(calls[c])[d], Attempts[d])
<1> TAKE d \in Dimensions
<1>1. Sound(tables[d], Attempts[d])
  BY TablesSound
<1>2. Sound(Examined(tables[d], calls[c].key[d], calls[c].at), Attempts[d])
  BY <1>1, ExaminedSound, WaitingCall, DimensionsFacts
<1>3. QED
  BY <1>1, <1>2 DEF TablesExamined

\* An admitted caller was looked at in every dimension.
LEMMA AdmittedExamines ==
  ASSUME TypeOK, NEW c \in Calls, Waiting(c), Admitted(calls[c]), NEW d \in Dimensions
  PROVE  /\ TablesExamined(calls[c])[d] = Examined(tables[d], calls[c].key[d], calls[c].at)
         /\ TablesCharged(calls[c])[d] =
              Charge(Examined(tables[d], calls[c].key[d], calls[c].at), calls[c].key[d], calls[c].at)
<1>1. LooksAt(d, calls[c])
  BY DimensionsFacts DEF Admitted, LooksAt
<1>2. QED
  BY <1>1 DEF TablesExamined, TablesCharged

LEMMA ChargedTablesSound ==
  ASSUME TypeOK, DeadlineIsHonest, NEW c \in Calls, Waiting(c), Admitted(calls[c])
  PROVE  \A d \in Dimensions : Sound(TablesCharged(calls[c])[d], Attempts[d])
<1> TAKE d \in Dimensions
<1> DEFINE key == calls[c].key[d]
           now == calls[c].at
           after == Examined(tables[d], key, now)
<1>1. Sound(after, Attempts[d])
  BY ExaminedTablesSound, AdmittedExamines
<1>2. key \in Keys /\ now \in Nat /\ tables[d] \in Table
  BY WaitingCall DEF TypeOK
<1>3. Admits(tables[d], key, Attempts[d], now)
  BY DEF Admitted, AdmitsIn
<1>4. \/ /\ key \in Held(after)
         /\ Expired(after.buckets[key], now) \/ after.buckets[key].count < Attempts[d]
      \/ key \notin Held(after) /\ Cardinality(Held(after)) < Capacity
  BY <1>2, <1>3, AdmittedHasRoom
<1>5. Sound(Charge(after, key, now), Attempts[d])
  BY <1>1, <1>2, <1>4, ChargeSound, DimensionsFacts
<1>6. QED
  BY <1>5, AdmittedExamines

LEMMA RecordedTyped ==
  ASSUME NEW history \in History, NEW at \in Instant, NEW bucket \in Bucket
  PROVE  Recorded(history, at, bucket) \in History
BY DEF Recorded, History, Admission, Bucket

LEMMA InvariantStep == IInv /\ [Next]_vars => IInv'
<1> SUFFICES ASSUME IInv, [Next]_vars PROVE IInv'
  OBVIOUS
<1> USE DEF IInv
<1>1. CASE UNCHANGED vars
  BY <1>1 DEF vars, TypeOK, DeadlineIsHonest, CapturedInThePast, Held, Waiting
<1>2. CASE PassTime
  <2>1. clock \in Nat /\ clock' = clock + 1 /\ clock' \in Instant
    BY <1>2, BoundsAssumption DEF PassTime, TypeOK, Instant
  <2>2. TypeOK' /\ DeadlineIsHonest'
    BY <1>2, <2>1 DEF PassTime, TypeOK, DeadlineIsHonest, Held
  <2>3. CapturedInThePast'
    <3> SUFFICES ASSUME NEW c \in Calls, Waiting(c)'
                 PROVE  calls'[c] \in Call' /\ calls'[c].at <= clock'
      BY DEF CapturedInThePast
    <3>1. Waiting(c) /\ calls' = calls
      BY <1>2 DEF PassTime, Waiting
    <3>2. calls[c] \in Call /\ calls[c].at <= clock /\ calls[c].at \in Nat
      BY <3>1, WaitingCall DEF CapturedInThePast
    <3>3. QED
      BY <2>1, <3>1, <3>2 DEF Call, Instant
  <2>4. QED
    BY <2>2, <2>3
<1>3. ASSUME NEW c \in Calls, Capture(c) PROVE IInv'
  <2>1. PICK key \in Presented :
          calls' = [calls EXCEPT ![c] = [at |-> clock, key |-> key]]
    BY <1>3 DEF Capture
  <2>2. [at |-> clock, key |-> key] \in Call
    BY DEF Call, TypeOK
  <2>3. TypeOK' /\ DeadlineIsHonest'
    BY <1>3, <2>1, <2>2 DEF Capture, TypeOK, DeadlineIsHonest, Held
  <2>4. clock' = clock /\ clock \in Nat
    BY <1>3, BoundsAssumption DEF Capture, TypeOK, Instant
  <2>5. CapturedInThePast'
    BY <2>1, <2>2, <2>4 DEF CapturedInThePast, Waiting, TypeOK, Call
  <2>6. QED
    BY <2>3, <2>5
<1>4. ASSUME NEW c \in Calls, Allow(c) PROVE IInv'
  <2>1. tables' = [d \in Dimensions |-> tables'[d]]
    BY <1>4 DEF Allow, TablesCharged
  <2>2. \A d \in Dimensions : Sound(tables'[d], Attempts[d])
    BY <1>4, ChargedTablesSound DEF Allow
  <2>3. granted' \in [Dimensions -> [Keys -> History]]
    <3>1. ASSUME NEW d \in Dimensions
          PROVE  [granted[d] EXCEPT ![calls[c].key[d]] =
                    Recorded(@, calls[c].at, tables'[d].buckets[calls[c].key[d]])] \in [Keys -> History]
      <4>1. calls[c].at \in Instant /\ calls[c].key[d] \in Keys /\ granted[d] \in [Keys -> History]
        BY <1>4, WaitingCall DEF Allow, TypeOK
      <4>2. tables'[d].buckets[calls[c].key[d]] \in Bucket
        BY <2>2, <4>1 DEF Sound, Table
      <4>3. QED
        BY <4>1, <4>2, RecordedTyped
    <3>2. QED
      BY <1>4, <3>1 DEF Allow
  <2>4. calls' \in [Calls -> Call \cup {Idle}] /\ clock' = clock
    BY <1>4 DEF Allow, TypeOK
  <2>5. (TypeOK /\ DeadlineIsHonest)'
    <3>1. clock' \in Instant
      BY <2>4 DEF TypeOK
    <3>2. \A d \in Dimensions : Sound(tables[d], Attempts[d])'
      BY <2>2 DEF Sound, Held
    <3>3. QED
      BY <2>1, <2>3, <2>4, <3>1, <3>2 DEF TypeOK, DeadlineIsHonest, Sound, Held
  <2>6. CapturedInThePast'
    BY <1>4, <2>4 DEF Allow, CapturedInThePast, Waiting, Idle, TypeOK
  <2>7. QED
    BY <2>5, <2>6
<1>5. ASSUME NEW c \in Calls, Refuse(c) PROVE IInv'
  <2>1. tables' = [d \in Dimensions |-> tables'[d]]
    BY <1>5 DEF Refuse, TablesExamined
  <2>2. \A d \in Dimensions : Sound(tables'[d], Attempts[d])
    BY <1>5, ExaminedTablesSound DEF Refuse
  <2>3. calls' \in [Calls -> Call \cup {Idle}] /\ clock' = clock /\ granted' = granted
    BY <1>5 DEF Refuse, TypeOK
  <2>4. (TypeOK /\ DeadlineIsHonest)'
    BY <2>1, <2>2, <2>3 DEF TypeOK, DeadlineIsHonest, Sound, Held
  <2>5. CapturedInThePast'
    BY <1>5, <2>3 DEF Refuse, CapturedInThePast, Waiting, Idle, TypeOK
  <2>6. QED
    BY <2>4, <2>5
<1>6. QED
  BY <1>1, <1>2, <1>3, <1>4, <1>5 DEF Next

LEMMA Invariant == Spec => []IInv
BY InvariantInit, InvariantStep, PTL DEF Spec

\* The tables stay within their bounds: no counter above the limit of its dimension, no
\* table above its capacity (AuthPolicy).
THEOREM TypeCorrect == Spec => []TypeOK
<1>1. IInv => TypeOK
  BY DEF IInv
<1>2. QED
  BY <1>1, Invariant, PTL

\* The comparison that refuses without a scan is right, in whatever order captured
\* instants reach the mutex (dimension.admits, dimension.sweep, dimension.charge).
THEOREM HonestDeadline == Spec => []DeadlineIsHonest
<1>1. IInv => DeadlineIsHonest
  BY DEF IInv
<1>2. QED
  BY <1>1, Invariant, PTL

-----------------------------------------------------------------------------
(* What a step may do.                                                       *)

\* An examination forgets no counter that is inside its window.
LEMMA ExaminedKeeps ==
  ASSUME NEW table \in Table, NEW key, NEW now \in Nat, NEW k \in Keys,
         ~Expired(table.buckets[k], now)
  PROVE  Examined(table, key, now).buckets[k] = table.buckets[k]
BY SweepKeeps DEF Examined

\* A charge raises the counter of its key, or starts it over, and touches no other.
LEMMA ChargeEffect ==
  ASSUME NEW table \in Table, NEW key \in Keys, NEW now \in Nat
  PROVE  /\ \A k \in Keys : k # key => Charge(table, key, now).buckets[k] = table.buckets[k]
         /\ key \in Held(table) /\ ~Expired(table.buckets[key], now) =>
              /\ Charge(table, key, now).buckets[key].count = table.buckets[key].count + 1
              /\ Charge(table, key, now).buckets[key].resetAt = table.buckets[key].resetAt
         /\ ~(key \in Held(table) /\ ~Expired(table.buckets[key], now)) =>
              Charge(table, key, now).buckets[key] = [count |-> 1, resetAt |-> now + Window]
<1>1. table.buckets \in [Keys -> Bucket] /\ table.buckets[key] \in Bucket
  BY DEF Table
<1>2. CASE key \in Held(table) /\ ~Expired(table.buckets[key], now)
  <2>1. Charge(table, key, now) = [table EXCEPT !.buckets = [table.buckets EXCEPT ![key] =
          [table.buckets[key] EXCEPT !.count = table.buckets[key].count + 1]]]
    BY <1>2 DEF Charge
  <2>2. Charge(table, key, now).buckets = [table.buckets EXCEPT ![key] =
          [table.buckets[key] EXCEPT !.count = table.buckets[key].count + 1]]
    BY <2>1 DEF Table
  <2>3. QED
    BY <1>1, <1>2, <2>2 DEF Bucket
<1>3. CASE ~(key \in Held(table) /\ ~Expired(table.buckets[key], now))
  <2>1. Charge(table, key, now).buckets =
          [table.buckets EXCEPT ![key] = [count |-> 1, resetAt |-> now + Window]]
    BY <1>3 DEF Charge
  <2>2. QED
    BY <1>1, <1>3, <2>1
<1>4. QED
  BY <1>2, <1>3

-----------------------------------------------------------------------------
(* What the history of a key tells.                                          *)

\* No caller waits longer than the bound says.
Prompt == \A c \in Calls : Waiting(c) => clock <= calls[c].at + MaxWait

\* One counter of a key follows the other: a turn is taken once, a counter that is no
\* longer there or no longer the last has expired, and what a later one admitted was
\* captured at most MaxWait before that.
Told(history, bucket, limit, time) ==
    LET told == history.admissions
        current == history.windows
    IN  /\ \A x \in told : /\ x.window \in 1 .. current /\ x.turn \in 1 .. limit
                           /\ x.at < x.resetAt
        /\ \A x, y \in told : x.window = y.window /\ x.turn = y.turn => x = y
        /\ \A x, y \in told : x.window < y.window =>
             x.resetAt <= y.at + MaxWait /\ x.resetAt + Window <= y.resetAt + MaxWait
        /\ \A x \in told : bucket.count = 0 \/ x.window < current => x.resetAt <= time
        /\ bucket.count # 0 =>
             /\ current # 0
             /\ \A x \in told : IF x.window = current
                  THEN x.turn <= bucket.count /\ x.resetAt = bucket.resetAt
                  ELSE x.resetAt + Window <= bucket.resetAt + MaxWait

Chronicle == \A d \in Dimensions : \A k \in Keys :
    Told(granted[d][k], tables[d].buckets[k], Attempts[d], clock)

\* The tale of a key whose counter is swept or stays, while time passes.
LEMMA ToldWhenSwept ==
  ASSUME NEW history \in History, NEW bucket \in Bucket, NEW limit \in Nat, NEW time \in Nat,
         Told(history, bucket, limit, time), bucket.resetAt <= time
  PROVE  Told(history, NoBucket, limit, time)
BY DEF Told, History, Admission, Bucket, NoBucket, Unset, Instant

LEMMA ToldLater ==
  ASSUME NEW history \in History, NEW bucket \in Bucket, NEW limit \in Nat, NEW time \in Nat,
         Told(history, bucket, limit, time)
  PROVE  Told(history, bucket, limit, time + 1)
BY DEF Told, History, Admission, Bucket, Instant

\* The tale of a key that is admitted by the counter it has.
LEMMA ToldWhenRaised ==
  ASSUME NEW history \in History, NEW bucket \in Bucket, NEW limit \in Nat, NEW time \in Nat,
         NEW at \in Instant,
         Told(history, bucket, limit, time), time <= at + MaxWait,
         bucket.count # 0, at < bucket.resetAt, bucket.count + 1 <= limit,
         NEW raised, raised = [count |-> bucket.count + 1, resetAt |-> bucket.resetAt]
  PROVE  /\ Told(Recorded(history, at, raised), raised, limit, time)
         /\ Recorded(history, at, raised) # history
<1> DEFINE new == [at |-> at, window |-> history.windows, turn |-> bucket.count + 1,
                   resetAt |-> bucket.resetAt]
           after == Recorded(history, at, raised)
<1>1. history.windows \in Nat /\ bucket.count \in Nat /\ bucket.resetAt \in Nat
      /\ at \in Nat /\ MaxWait \in Nat /\ Window \in Nat
  BY BoundsAssumption, PolicyAssumption DEF History, Bucket, Instant
<1>2. after.windows = history.windows /\ after.admissions = history.admissions \cup {new}
  BY <1>1 DEF Recorded
<1>3. \A x \in history.admissions :
        x.at \in Nat /\ x.window \in Nat /\ x.turn \in Nat /\ x.resetAt \in Nat
  BY BoundsAssumption DEF History, Admission, Instant
<1>4. /\ new.at = at /\ new.window = history.windows /\ new.turn = bucket.count + 1
      /\ new.resetAt = bucket.resetAt
  OBVIOUS
<1>5. /\ history.windows # 0
      /\ \A x \in history.admissions :
           /\ x.window <= history.windows /\ 1 <= x.window /\ x.turn \in 1 .. limit
           /\ x.at < x.resetAt
           /\ x.window = history.windows => x.turn <= bucket.count /\ x.resetAt = bucket.resetAt
           /\ x.window # history.windows => /\ x.resetAt <= time
                                            /\ x.resetAt + Window <= bucket.resetAt + MaxWait
  BY <1>1, <1>3 DEF Told
<1>6. \A x \in after.admissions :
        x.window \in 1 .. after.windows /\ x.turn \in 1 .. limit /\ x.at < x.resetAt
  BY <1>1, <1>2, <1>3, <1>4, <1>5
<1>7. \A x, y \in after.admissions : x.window = y.window /\ x.turn = y.turn => x = y
  BY <1>1, <1>2, <1>3, <1>4, <1>5 DEF Told
<1>8. ASSUME NEW x \in after.admissions, NEW y \in after.admissions, x.window < y.window
      PROVE  x.resetAt <= y.at + MaxWait /\ x.resetAt + Window <= y.resetAt + MaxWait
  <2>1. x \in history.admissions
    BY <1>1, <1>2, <1>3, <1>4, <1>5, <1>8
  <2>2. CASE y \in history.admissions
    BY <1>8, <2>1, <2>2 DEF Told
  <2>3. CASE y = new
    BY <1>1, <1>3, <1>4, <1>5, <1>8, <2>1, <2>3
  <2>4. QED
    BY <1>2, <2>2, <2>3
<1>9. \A x \in after.admissions : raised.count = 0 \/ x.window < after.windows => x.resetAt <= time
  BY <1>1, <1>2, <1>3, <1>4, <1>5
<1>10. \A x \in after.admissions : IF x.window = after.windows
         THEN x.turn <= raised.count /\ x.resetAt = raised.resetAt
         ELSE x.resetAt + Window <= raised.resetAt + MaxWait
  BY <1>1, <1>2, <1>3, <1>4, <1>5
<1>11. Told(after, raised, limit, time)
  BY <1>2, <1>5, <1>6, <1>7, <1>8, <1>9, <1>10 DEF Told
<1>12. new \notin history.admissions
  BY <1>1, <1>4, <1>5
<1>13. QED
  BY <1>2, <1>11, <1>12

\* The tale of a key that is admitted by a new counter.
LEMMA ToldWhenOpened ==
  ASSUME NEW history \in History, NEW bucket \in Bucket, NEW limit \in Nat \ {0}, NEW time \in Nat,
         NEW at \in Instant,
         Told(history, bucket, limit, time), at <= time, time <= at + MaxWait,
         bucket.count = 0 \/ bucket.resetAt <= at,
         NEW opened, opened = [count |-> 1, resetAt |-> at + Window]
  PROVE  /\ Told(Recorded(history, at, opened), opened, limit, time)
         /\ Recorded(history, at, opened) # history
<1> DEFINE new == [at |-> at, window |-> history.windows + 1, turn |-> 1, resetAt |-> at + Window]
           after == Recorded(history, at, opened)
<1>1. history.windows \in Nat /\ bucket.count \in Nat /\ bucket.resetAt \in Nat
      /\ at \in Nat /\ MaxWait \in Nat /\ Window \in Nat \ {0}
  BY BoundsAssumption, PolicyAssumption DEF History, Bucket, Instant
<1>2. after.windows = history.windows + 1 /\ after.admissions = history.admissions \cup {new}
  BY <1>1 DEF Recorded
<1>3. \A x \in history.admissions :
        x.at \in Nat /\ x.window \in Nat /\ x.turn \in Nat /\ x.resetAt \in Nat
  BY BoundsAssumption DEF History, Admission, Instant
<1>4. /\ new.at = at /\ new.window = history.windows + 1 /\ new.turn = 1
      /\ new.resetAt = at + Window
  OBVIOUS
<1>5. \A x \in history.admissions :
        /\ x.window <= history.windows /\ 1 <= x.window /\ x.turn \in 1 .. limit
        /\ x.at < x.resetAt
        /\ x.resetAt <= time
  BY <1>1, <1>3 DEF Told
<1>6. \A x \in after.admissions :
        x.window \in 1 .. after.windows /\ x.turn \in 1 .. limit /\ x.at < x.resetAt
  BY <1>1, <1>2, <1>3, <1>4, <1>5
<1>7. \A x, y \in after.admissions : x.window = y.window /\ x.turn = y.turn => x = y
  BY <1>1, <1>2, <1>3, <1>4, <1>5 DEF Told
<1>8. ASSUME NEW x \in after.admissions, NEW y \in after.admissions, x.window < y.window
      PROVE  x.resetAt <= y.at + MaxWait /\ x.resetAt + Window <= y.resetAt + MaxWait
  <2>1. x \in history.admissions
    BY <1>1, <1>2, <1>3, <1>4, <1>5, <1>8
  <2>2. CASE y \in history.admissions
    BY <1>8, <2>1, <2>2 DEF Told
  <2>3. CASE y = new
    BY <1>1, <1>3, <1>4, <1>5, <2>1, <2>3
  <2>4. QED
    BY <1>2, <2>2, <2>3
<1>9. \A x \in after.admissions : opened.count = 0 \/ x.window < after.windows => x.resetAt <= time
  BY <1>1, <1>2, <1>3, <1>4, <1>5
<1>10. \A x \in after.admissions : IF x.window = after.windows
         THEN x.turn <= opened.count /\ x.resetAt = opened.resetAt
         ELSE x.resetAt + Window <= opened.resetAt + MaxWait
  BY <1>1, <1>2, <1>3, <1>4, <1>5
<1>11. Told(after, opened, limit, time)
  BY <1>1, <1>2, <1>6, <1>7, <1>8, <1>9, <1>10 DEF Told
<1>12. new \notin history.admissions
  BY <1>1, <1>4, <1>5
<1>13. QED
  BY <1>2, <1>11, <1>12

HInv == Prompt /\ Chronicle

\* What an admission leaves in the counter of its key: one more turn, or a new counter.
LEMMA AdmittedBucket ==
  ASSUME IInv, NEW c \in Calls, Allow(c), NEW d \in Dimensions
  PROVE  LET key == calls[c].key[d]
             old == tables[d].buckets[key]
             new == tables'[d].buckets[key]
         IN  \/ /\ old.count # 0 /\ calls[c].at < old.resetAt /\ old.count + 1 <= Attempts[d]
                /\ new = [count |-> old.count + 1, resetAt |-> old.resetAt]
             \/ /\ old.count = 0 \/ old.resetAt <= calls[c].at
                /\ new = [count |-> 1, resetAt |-> calls[c].at + Window]
<1> DEFINE key == calls[c].key[d]
           now == calls[c].at
           after == Examined(tables[d], key, now)
           old == tables[d].buckets[key]
           new == tables'[d].buckets[key]
<1>1. Waiting(c) /\ Admitted(calls[c]) /\ now \in Nat /\ key \in Keys
  BY WaitingCall DEF Allow, IInv
<1>2. tables'[d] = Charge(after, key, now) /\ TablesExamined(calls[c])[d] = after
  BY <1>1, AdmittedExamines DEF Allow, IInv
<1>3. after \in Table /\ tables[d] \in Table
  BY <1>1, <1>2, ExaminedTablesSound DEF IInv, Sound, TypeOK
<1>4. old \in Bucket /\ Attempts[d] \in Nat
  BY <1>1, <1>3, DimensionsFacts DEF Table
<1>5. CASE key \in Held(tables[d])
  <2>1. after = tables[d] /\ old.count # 0
    BY <1>5 DEF Examined, Scans, Held
  <2>2. CASE ~Expired(old, now)
    <3>1. old.count < Attempts[d]
      BY <1>1, <1>5, <2>2 DEF Admitted, AdmitsIn, Admits
    <3>2. new \in Bucket
      BY <1>1, ChargedTablesSound DEF Allow, IInv, Sound, Table
    <3>3. new.count = old.count + 1 /\ new.resetAt = old.resetAt
      <4>1. /\ Charge(after, key, now).buckets[key].count = after.buckets[key].count + 1
            /\ Charge(after, key, now).buckets[key].resetAt = after.buckets[key].resetAt
        BY <1>1, <1>3, <1>5, <2>1, <2>2, ChargeEffect
      <4>2. QED
        BY <1>2, <2>1, <4>1
    <3>4. new = [count |-> old.count + 1, resetAt |-> old.resetAt]
      BY <3>2, <3>3 DEF Bucket
    <3>5. now < old.resetAt /\ old.count + 1 <= Attempts[d]
      BY <1>1, <1>4, <2>2, <3>1 DEF Expired, Bucket
    <3>6. QED
      BY <2>1, <3>4, <3>5
  <2>3. CASE Expired(old, now)
    <3>1. new = [count |-> 1, resetAt |-> now + Window]
      BY <1>1, <1>2, <1>3, <2>1, <2>3, ChargeEffect
    <3>2. old.resetAt <= now
      BY <1>1, <1>4, <2>3 DEF Expired, Bucket
    <3>3. QED
      BY <3>1, <3>2
  <2>4. QED
    BY <2>2, <2>3
<1>6. CASE key \notin Held(tables[d])
  <2>1. key \notin Held(after)
    BY <1>1, <1>3, <1>6, SweepHeld DEF Examined
  <2>2. new = [count |-> 1, resetAt |-> now + Window]
    BY <1>1, <1>2, <1>3, <2>1, ChargeEffect
  <2>3. old.count = 0
    BY <1>1, <1>6 DEF Held
  <2>4. QED
    BY <2>2, <2>3
<1>7. QED
  BY <1>5, <1>6

\* What a decision leaves in the other counters: they stay, or they are swept as expired.
LEMMA OtherBucket ==
  ASSUME IInv, NEW c \in Calls, Allow(c) \/ Refuse(c), NEW d \in Dimensions, NEW k \in Keys,
         Allow(c) => k # calls[c].key[d]
  PROVE  \/ tables'[d].buckets[k] = tables[d].buckets[k]
         \/ /\ tables'[d].buckets[k] = NoBucket
            /\ tables[d].buckets[k].resetAt <= clock
<1> DEFINE key == calls[c].key[d]
           now == calls[c].at
           after == Examined(tables[d], key, now)
<1>1. Waiting(c) /\ now \in Nat /\ key \in Keys /\ now <= clock /\ clock \in Nat
  BY WaitingCall, BoundsAssumption DEF Allow, Refuse, IInv, CapturedInThePast, TypeOK, Instant
<1>2. tables[d] \in Table /\ tables[d].buckets[k] \in Bucket
  BY DEF IInv, TypeOK, Table
<1>3. \/ after.buckets[k] = tables[d].buckets[k]
      \/ after.buckets[k] = NoBucket /\ Expired(tables[d].buckets[k], now)
  BY <1>1, <1>2, SweepKeeps DEF Examined
<1>4. Expired(tables[d].buckets[k], now) => tables[d].buckets[k].resetAt <= clock
  BY <1>1, <1>2 DEF Expired, Bucket
<1>5. CASE Allow(c)
  <2>1. tables'[d] = Charge(after, key, now) /\ after \in Table
    BY <1>1, <1>5, AdmittedExamines, ExaminedTablesSound DEF Allow, IInv, Sound
  <2>2. Charge(after, key, now).buckets[k] = after.buckets[k]
    BY <1>1, <1>5, <2>1, ChargeEffect
  <2>3. QED
    BY <1>3, <1>4, <2>1, <2>2
<1>6. CASE Refuse(c)
  <2>1. tables'[d] = after \/ tables'[d] = tables[d]
    BY <1>6 DEF Refuse, TablesExamined
  <2>2. QED
    BY <1>3, <1>4, <2>1
<1>7. QED
  BY <1>5, <1>6

\* An admission is told after all the others of its key.
LEMMA AdmissionIsTold ==
  ASSUME IInv, HInv, NEW c \in Calls, Allow(c), NEW d \in Dimensions
  PROVE  LET key == calls[c].key[d] IN
         /\ granted'[d][key] # granted[d][key]
         /\ Told(granted'[d][key], tables'[d].buckets[key], Attempts[d], clock)
<1> DEFINE key == calls[c].key[d]
           now == calls[c].at
           old == tables[d].buckets[key]
           new == tables'[d].buckets[key]
<1>1. /\ now \in Instant /\ key \in Keys /\ now <= clock /\ clock \in Nat
      /\ clock <= now + MaxWait /\ now \in Nat
  BY WaitingCall, BoundsAssumption
  DEF Allow, IInv, HInv, Prompt, CapturedInThePast, TypeOK, Instant
<1>2. old \in Bucket /\ granted[d][key] \in History /\ granted[d] \in [Keys -> History]
  BY <1>1 DEF IInv, TypeOK, Table
<1>3. Told(granted[d][key], old, Attempts[d], clock)
  BY <1>1 DEF HInv, Chronicle
<1>4. granted'[d][key] = Recorded(granted[d][key], now, new)
  BY <1>1, <1>2 DEF Allow
<1>5. Attempts[d] \in Nat \ {0} /\ Attempts[d] \in Nat
  BY DimensionsFacts
<1>6. \/ /\ old.count # 0 /\ now < old.resetAt /\ old.count + 1 <= Attempts[d]
         /\ new = [count |-> old.count + 1, resetAt |-> old.resetAt]
      \/ /\ old.count = 0 \/ old.resetAt <= now
         /\ new = [count |-> 1, resetAt |-> now + Window]
  BY AdmittedBucket
<1>7. CASE /\ old.count # 0 /\ now < old.resetAt /\ old.count + 1 <= Attempts[d]
           /\ new = [count |-> old.count + 1, resetAt |-> old.resetAt]
  BY <1>1, <1>2, <1>3, <1>4, <1>5, <1>7, ToldWhenRaised
<1>8. CASE /\ old.count = 0 \/ old.resetAt <= now
           /\ new = [count |-> 1, resetAt |-> now + Window]
  BY <1>1, <1>2, <1>3, <1>4, <1>5, <1>8, ToldWhenOpened
<1>9. QED
  BY <1>6, <1>7, <1>8

LEMMA HistoryInit == Init => HInv
<1> SUFFICES ASSUME Init PROVE HInv
  OBVIOUS
<1>1. Prompt
  BY DEF Prompt, Waiting, Init, Idle
<1>2. Chronicle
  BY DEF Chronicle, Told, Init, NoHistory, NoBucket
<1>3. QED
  BY <1>1, <1>2 DEF HInv

LEMMA HistoryStep == IInv /\ HInv /\ [Next]_vars => HInv'
<1> SUFFICES ASSUME IInv, HInv, [Next]_vars PROVE HInv'
  OBVIOUS
<1>1. clock \in Nat /\ MaxWait \in Nat
  BY BoundsAssumption DEF IInv, TypeOK, Instant
<1>2. \A d \in Dimensions : \A k \in Keys :
        /\ tables[d].buckets[k] \in Bucket /\ granted[d][k] \in History
        /\ Attempts[d] \in Nat
        /\ Told(granted[d][k], tables[d].buckets[k], Attempts[d], clock)
  BY DimensionsFacts DEF IInv, TypeOK, Table, HInv, Chronicle
<1>3. CASE UNCHANGED vars
  BY <1>3 DEF vars, HInv, Prompt, Chronicle, Waiting
<1>4. CASE PassTime
  <2>1. Prompt'
    <3> SUFFICES ASSUME NEW c \in Calls, Waiting(c)'
                 PROVE  clock' <= calls'[c].at + MaxWait
      BY DEF Prompt
    <3>1. Waiting(c) /\ calls' = calls /\ clock' = clock + 1 /\ clock - calls[c].at < MaxWait
      BY <1>4 DEF PassTime, Waiting
    <3>2. calls[c].at \in Nat
      BY <3>1, WaitingCall DEF IInv
    <3>3. QED
      BY <1>1, <3>1, <3>2
  <2>2. Chronicle'
    <3> SUFFICES ASSUME NEW d \in Dimensions, NEW k \in Keys
                 PROVE  Told(granted[d][k], tables[d].buckets[k], Attempts[d], clock + 1)
      BY <1>4 DEF PassTime, Chronicle
    <3>1. QED
      BY <1>1, <1>2, ToldLater
  <2>3. QED
    BY <2>1, <2>2 DEF HInv
<1>5. ASSUME NEW c \in Calls, Capture(c) PROVE HInv'
  <2>1. PICK key \in Presented : calls' = [calls EXCEPT ![c] = [at |-> clock, key |-> key]]
    BY <1>5 DEF Capture
  <2>2. Prompt'
    BY <1>1, <1>5, <2>1 DEF Capture, HInv, Prompt, Waiting, IInv, TypeOK
  <2>3. Chronicle'
    BY <1>5 DEF Capture, HInv, Chronicle
  <2>4. QED
    BY <2>2, <2>3 DEF HInv
<1>6. ASSUME NEW c \in Calls, Allow(c) \/ Refuse(c) PROVE HInv'
  <2>1. calls' = [calls EXCEPT ![c] = Idle] /\ clock' = clock
    BY <1>6 DEF Allow, Refuse
  <2>2. Prompt'
    BY <2>1 DEF HInv, Prompt, Waiting, Idle, IInv, TypeOK
  <2>3. ASSUME NEW d \in Dimensions, NEW k \in Keys
        PROVE  Told(granted'[d][k], tables'[d].buckets[k], Attempts[d], clock)
    <3>1. CASE Allow(c) /\ k = calls[c].key[d]
      BY <3>1, AdmissionIsTold
    <3>2. CASE Allow(c) => k # calls[c].key[d]
      <4>1. granted'[d][k] = granted[d][k]
        <5>1. CASE Allow(c)
          BY <3>2, <5>1 DEF Allow, IInv, TypeOK
        <5>2. CASE Refuse(c)
          BY <5>2 DEF Refuse
        <5>3. QED
          BY <1>6, <5>1, <5>2
      <4>2. \/ tables'[d].buckets[k] = tables[d].buckets[k]
            \/ /\ tables'[d].buckets[k] = NoBucket
               /\ tables[d].buckets[k].resetAt <= clock
        BY <1>6, <3>2, OtherBucket
      <4>3. QED
        BY <1>1, <1>2, <4>1, <4>2, ToldWhenSwept
    <3>3. QED
      BY <3>1, <3>2
  <2>4. Chronicle'
    BY <2>1, <2>3 DEF Chronicle
  <2>5. QED
    BY <2>2, <2>4 DEF HInv
<1>7. QED
  BY <1>3, <1>4, <1>5, <1>6 DEF Next

LEMMA HistoryInvariant == Spec => []HInv
BY Invariant, HistoryInit, HistoryStep, PTL DEF Spec

\* Of three counters of a key, the last admits nothing within a window, less what two
\* instants may be late, of what the first admitted.
LEMMA NoThirdWindow ==
  ASSUME NEW history \in History, NEW bucket, NEW limit, NEW time,
         Told(history, bucket, limit, time), NEW from \in Nat,
         NEW x \in history.admissions, NEW y \in history.admissions,
         NEW z \in history.admissions,
         x.window < y.window, y.window < z.window,
         from <= x.at
  PROVE  ~ (z.at <= from + Window - 2 * MaxWait)
<1>1. /\ x.at \in Nat /\ x.resetAt \in Nat /\ y.resetAt \in Nat /\ z.at \in Nat
      /\ MaxWait \in Nat /\ Window \in Nat
  BY BoundsAssumption, PolicyAssumption DEF History, Admission, Instant
<1>2. /\ x.at < x.resetAt
      /\ x.resetAt + Window <= y.resetAt + MaxWait
      /\ y.resetAt <= z.at + MaxWait
  BY DEF Told
<1>3. QED
  BY <1>1, <1>2

\* Windows are fixed, so a key may spend two of them at once, but never a third one: what
\* the tables admit over a stretch shorter than a window is at most twice the limit,
\* whatever is swept in between and in whatever order the callers reach the mutex
\* (dimension.charge, dimension.sweep).
THEOREM TwoWindowsAtMost == Spec => []AtMostTwoWindows
<1>1. ASSUME IInv, HInv, NEW d \in Dimensions, NEW k \in Keys, NEW from \in Instant
      PROVE  Cardinality(Within(d, k, from, from + Window - 2 * MaxWait)) <= 2 * Attempts[d]
  <2> DEFINE until == from + Window - 2 * MaxWait
             S == Within(d, k, from, until)
             limit == Attempts[d]
  <2>1. granted[d][k] \in History /\ Told(granted[d][k], tables[d].buckets[k], limit, clock)
    BY <1>1 DEF IInv, TypeOK, HInv, Chronicle
  <2>2. /\ from \in Nat /\ until \in Int /\ limit \in Nat
    BY BoundsAssumption, PolicyAssumption, DimensionsFacts DEF Instant
  <2>3. \A a \in S : /\ a \in granted[d][k].admissions /\ from <= a.at /\ a.at <= until
                     /\ a.window \in Nat /\ a.turn \in 1 .. limit
    BY <2>1, <2>2 DEF Within, History, Admission, Told, Instant
  <2>4. \A x, y, z \in S : ~ (x.window < y.window /\ y.window < z.window)
    <3> SUFFICES ASSUME NEW x \in S, NEW y \in S, NEW z \in S,
                        x.window < y.window, y.window < z.window
                 PROVE  FALSE
      OBVIOUS
    <3>1. /\ x \in granted[d][k].admissions /\ y \in granted[d][k].admissions
          /\ z \in granted[d][k].admissions /\ from <= x.at /\ z.at <= until
      BY <2>3
    <3>2. QED
      BY <2>1, <2>2, <3>1, NoThirdWindow
  <2>5. PICK w \in Nat, v \in Nat : \A a \in S : a.window = w \/ a.window = v
    <3>1. CASE \E x, y \in S : x.window # y.window
      <4>1. PICK x \in S, y \in S : x.window # y.window
        BY <3>1
      <4>2. \A z \in S : z.window = x.window \/ z.window = y.window
        BY <2>3, <2>4, <4>1
      <4>3. QED
        BY <2>3, <4>2
    <3>2. CASE ~ \E x, y \in S : x.window # y.window
      <4>1. CASE S = {}
        BY <4>1
      <4>2. CASE S # {}
        BY <2>3, <3>2, <4>2
      <4>3. QED
        BY <4>1, <4>2
    <3>3. QED
      BY <3>1, <3>2
  <2> DEFINE place == [a \in S |-> IF a.window = w THEN a.turn ELSE limit + a.turn]
  <2>6. place \in [S -> 1 .. 2 * limit]
    BY <2>2, <2>3
  <2>7. ASSUME NEW a \in S, NEW b \in S, place[a] = place[b] PROVE a = b
    <3>1. a.window = b.window /\ a.turn = b.turn
      BY <2>2, <2>3, <2>5, <2>7
    <3>2. QED
      BY <2>1, <2>3, <3>1 DEF Told
  <2>8. place \in Injection(S, 1 .. 2 * limit)
    <3>1. IsInjective(place)
      BY <2>7 DEF IsInjective
    <3>2. QED
      BY <2>6, <3>1 DEF Injection
  <2>9. IsFiniteSet(1 .. 2 * limit) /\ Cardinality(1 .. 2 * limit) = 2 * limit
    <3>1. 2 * limit \in Int /\ 1 \in Int
      BY <2>2
    <3>2. /\ IsFiniteSet(1 .. 2 * limit)
          /\ Cardinality(1 .. 2 * limit) = IF 1 > 2 * limit THEN 0 ELSE 2 * limit - 1 + 1
      BY <3>1, FS_Interval
    <3>3. QED
      BY <2>2, <3>2
  <2>10. Cardinality(S) <= Cardinality(1 .. 2 * limit)
    BY <2>8, <2>9, FS_Injection
  <2>11. QED
    BY <2>9, <2>10
<1>2. IInv /\ HInv => AtMostTwoWindows
  BY <1>1 DEF AtMostTwoWindows
<1>3. QED
  BY <1>2, Invariant, HistoryInvariant, PTL

\* A dimension that does not admit has a reason that holds at the captured instant.
LEMMA RefusalHasReason ==
  ASSUME NEW table, NEW limit \in Nat, Sound(table, limit), NEW key \in Keys, NEW now \in Nat,
         ~Admits(table, key, limit, now)
  PROVE  \/ /\ key \in Held(table) /\ ~Expired(table.buckets[key], now)
            /\ table.buckets[key].count = limit
         \/ /\ Cardinality(Held(table)) = Capacity
            /\ \A k \in Held(table) : ~Expired(table.buckets[k], now)
<1>1. table \in Table
  BY DEF Sound
<1>2. CASE key \in Held(table)
  <2>1. ~Expired(table.buckets[key], now) /\ ~(table.buckets[key].count < limit)
    BY <1>2 DEF Admits
  <2>2. table.buckets[key].count \in Nat /\ table.buckets[key].count <= limit
    BY <1>1 DEF Sound, Table, Bucket
  <2>3. QED
    BY <1>2, <2>1, <2>2
<1>3. CASE key \notin Held(table)
  <2> DEFINE after == Examined(table, key, now)
  <2>1. Cardinality(Held(after)) >= Capacity
    BY <1>3, HeldIsFinite, PolicyAssumption DEF Admits
  <2>2. Held(after) \in SUBSET Held(table)
    BY <1>1, SweepHeld DEF Examined
  <2>3. Cardinality(Held(after)) <= Cardinality(Held(table)) /\ Cardinality(Held(table)) <= Capacity
    BY <2>2, HeldIsFinite, FS_Subset DEF Sound
  <2>4. Cardinality(Held(table)) = Capacity /\ Cardinality(Held(after)) = Capacity
    BY <2>1, <2>3, HeldIsFinite, PolicyAssumption
  <2>5. Held(after) = Held(table)
    BY <2>2, <2>4, HeldIsFinite, FS_Subset
  <2>6. CASE Scans(table, key, now)
    BY <1>1, <2>4, <2>5, <2>6, SweepHeld DEF Examined
  <2>7. CASE ~Scans(table, key, now)
    <3>1. table.nextExpiry # Unset /\ ~(now >= table.nextExpiry)
      BY <1>3, <2>4, <2>7, PolicyAssumption DEF Scans
    <3>2. ASSUME NEW k \in Held(table) PROVE ~Expired(table.buckets[k], now)
      <4>1. table.nextExpiry <= table.buckets[k].resetAt
        BY DEF Sound
      <4>2. table.nextExpiry \in Nat /\ table.buckets[k].resetAt \in Nat
        BY <1>1 DEF Table, Bucket, Held
      <4>3. QED
        BY <3>1, <4>1, <4>2 DEF Expired
    <3>3. QED
      BY <2>4, <3>2
  <2>8. QED
    BY <2>6, <2>7
<1>4. QED
  BY <1>2, <1>3

\* Whoever is refused is refused by a bound somebody is under at the captured instant
\* (AuthLimiter.Allow).
THEOREM RefusalsDeserved == Spec => RefusalsAreDeserved
<1>1. ASSUME IInv, HInv, [Next]_vars, NEW c \in Calls,
             Waiting(c), ~Waiting(c)', granted' = granted
      PROVE  \E d \in Dimensions : Deserved(d, calls[c])
  <2>1. ~Allow(c)
    <3> SUFFICES ASSUME Allow(c) PROVE FALSE
      OBVIOUS
    <3>1. "clients" \in Dimensions
      BY DimensionsFacts
    <3>2. QED
      BY <1>1, <3>1, AdmissionIsTold
  <2>2. Refuse(c)
    <3>1. calls' # calls /\ calls'[c] # calls[c]
      BY <1>1 DEF Waiting
    <3>2. ASSUME NEW o \in Calls, Capture(o) PROVE FALSE
      <4>1. o = c
        BY <1>1, <3>1, <3>2 DEF Capture, IInv, TypeOK
      <4>2. QED
        BY <1>1, <3>2, <4>1 DEF Capture
    <3>3. ASSUME NEW o \in Calls, Allow(o) \/ Refuse(o) PROVE o = c
      BY <1>1, <3>1, <3>3 DEF Allow, Refuse, IInv, TypeOK
    <3>4. QED
      BY <1>1, <2>1, <3>1, <3>2, <3>3 DEF Next, PassTime, vars
  <2>3. PICK d \in Dimensions : ~AdmitsIn(d, calls[c])
    BY <2>2 DEF Refuse, Admitted
  <2>4. Sound(tables[d], Attempts[d]) /\ Attempts[d] \in Nat
    BY <1>1, TablesSound, DimensionsFacts DEF IInv
  <2>5. calls[c].key[d] \in Keys /\ calls[c].at \in Nat
    BY <1>1, WaitingCall DEF IInv
  <2>6. ~Admits(tables[d], calls[c].key[d], Attempts[d], calls[c].at)
    BY <2>3 DEF AdmitsIn
  <2>7. Deserved(d, calls[c])
    BY <2>4, <2>5, <2>6, RefusalHasReason DEF Deserved, InWindow
  <2>8. QED
    BY <2>7
<1>2. IInv /\ HInv /\ [Next]_vars =>
        [\A c \in Calls : Waiting(c) /\ ~Waiting(c)' /\ granted' = granted =>
           \E d \in Dimensions : Deserved(d, calls[c])]_vars
  BY <1>1
<1>3. QED
  BY <1>2, Invariant, HistoryInvariant, PTL DEF Spec, RefusalsAreDeserved

\* A flood of unseen keys discards no bound somebody is under (dimension.admits).
THEOREM NoBoundForgotten == Spec => NoBoundIsForgotten
<1> DEFINE Kept(d, k) == /\ tables'[d].buckets[k].count >= tables[d].buckets[k].count
                         /\ tables'[d].buckets[k].resetAt = tables[d].buckets[k].resetAt
<1>1. ASSUME IInv, [Next]_vars, NEW d \in Dimensions, NEW k \in Keys, InWindow(d, k, clock)
      PROVE  Kept(d, k)
  <2>1. tables[d] \in Table /\ tables[d].buckets[k] \in Bucket
    BY <1>1 DEF IInv, TypeOK, Table
  <2>2. CASE tables' = tables
    BY <2>1, <2>2 DEF Bucket
  <2>3. ASSUME NEW c \in Calls, Allow(c) \/ Refuse(c)
        PROVE  Kept(d, k)
    <3> DEFINE key == calls[c].key[d]
               now == calls[c].at
               after == Examined(tables[d], key, now)
    <3>1. Waiting(c) /\ now <= clock /\ now \in Nat /\ key \in Keys /\ clock \in Nat
      BY <1>1, <2>3, WaitingCall, BoundsAssumption
      DEF Allow, Refuse, IInv, CapturedInThePast, TypeOK, Instant
    <3>2. ~Expired(tables[d].buckets[k], now) /\ k \in Held(tables[d])
      BY <1>1, <2>1, <3>1 DEF InWindow, Expired, Bucket
    <3>3. after.buckets[k] = tables[d].buckets[k]
      BY <2>1, <3>1, <3>2, ExaminedKeeps
    <3>4. CASE Refuse(c)
      <4>1. tables'[d].buckets[k] = tables[d].buckets[k]
        BY <3>3, <3>4 DEF Refuse, TablesExamined
      <4>2. QED
        BY <2>1, <4>1 DEF Bucket
    <3>5. CASE Allow(c)
      <4>1. tables'[d] = Charge(after, key, now)
        BY <1>1, <3>1, <3>5, AdmittedExamines DEF Allow, IInv
      <4>2. after \in Table
        BY <1>1, <3>1, <3>5, ExaminedTablesSound, AdmittedExamines DEF Allow, IInv, Sound
      <4>3. CASE k # key
        <5>1. Charge(after, key, now).buckets[k] = after.buckets[k]
          BY <3>1, <4>2, <4>3, ChargeEffect
        <5>2. tables'[d].buckets[k] = tables[d].buckets[k]
          BY <3>3, <4>1, <5>1
        <5>3. QED
          BY <2>1, <5>2 DEF Bucket
      <4>4. CASE k = key
        <5>1. key \in Held(after) /\ ~Expired(after.buckets[key], now)
          BY <3>2, <3>3, <4>4 DEF Held
        <5>2. /\ Charge(after, key, now).buckets[key].count = after.buckets[key].count + 1
              /\ Charge(after, key, now).buckets[key].resetAt = after.buckets[key].resetAt
          BY <3>1, <4>2, <5>1, ChargeEffect
        <5>3. /\ tables'[d].buckets[k].count = after.buckets[k].count + 1
              /\ tables'[d].buckets[k].resetAt = after.buckets[k].resetAt
          BY <4>1, <4>4, <5>2
        <5>4. QED
          BY <2>1, <3>3, <5>3 DEF Bucket
      <4>5. QED
        BY <4>3, <4>4
    <3>6. QED
      BY <2>3, <3>4, <3>5
  <2>4. QED
    BY <1>1, <2>2, <2>3 DEF Next, PassTime, Capture, vars
<1>2. IInv /\ [Next]_vars =>
        [\A d \in Dimensions : \A k \in Keys : InWindow(d, k, clock) =>
           /\ tables'[d].buckets[k].count >= tables[d].buckets[k].count
           /\ tables'[d].buckets[k].resetAt = tables[d].buckets[k].resetAt]_vars
  BY <1>1
<1>3. QED
  BY <1>2, Invariant, PTL DEF Spec, NoBoundIsForgotten

\* A refusal by one dimension leaves the other uncharged (AuthLimiter.Allow).
THEOREM ChargesTogether == Spec => ChargedTogether
<1>1. ASSUME IInv, [Next]_vars, NEW e \in Dimensions, Charged(e), NEW d \in Dimensions
      PROVE  Charged(d)
  <2>1. tables' # tables
    BY <1>1 DEF Charged, IInv, TypeOK, Table, Bucket
  <2>2. ASSUME NEW c \in Calls, Refuse(c) PROVE FALSE
    <3>1. PICK k \in Keys :
            /\ tables'[e].buckets[k].count # 0
            /\ \/ tables'[e].buckets[k].count > tables[e].buckets[k].count
               \/ tables'[e].buckets[k].resetAt # tables[e].buckets[k].resetAt
      BY <1>1 DEF Charged
    <3>2. Waiting(c) /\ calls[c].at \in Nat
      BY <1>1, <2>2, WaitingCall DEF Refuse, IInv
    <3>3. tables[e] \in Table /\ tables[e].buckets[k] \in Bucket
      BY <1>1 DEF IInv, TypeOK, Table
    <3>4. \/ tables'[e].buckets[k] = tables[e].buckets[k]
          \/ tables'[e].buckets[k] = NoBucket
      BY <2>2, <3>2, <3>3, SweepKeeps DEF Refuse, TablesExamined, Examined
    <3>5. QED
      BY <3>1, <3>3, <3>4 DEF NoBucket, Bucket
  <2>3. ASSUME NEW c \in Calls, Allow(c) PROVE Charged(d)
    <3> DEFINE key == calls[c].key[d]
               now == calls[c].at
               after == Examined(tables[d], key, now)
    <3>1. Waiting(c) /\ now \in Nat /\ key \in Keys
      BY <1>1, <2>3, WaitingCall DEF Allow, IInv
    <3>2. tables'[d] = Charge(after, key, now)
      BY <1>1, <2>3, <3>1, AdmittedExamines DEF Allow, IInv
    <3>3. after \in Table /\ tables[d] \in Table /\ tables[d].buckets[key] \in Bucket
      BY <1>1, <2>3, <3>1, ExaminedTablesSound, AdmittedExamines
      DEF Allow, IInv, Sound, TypeOK, Table
    <3>4. CASE key \in Held(tables[d])
      <4>1. after = tables[d]
        BY <3>4 DEF Examined, Scans
      <4>2. CASE ~Expired(tables[d].buckets[key], now)
        <5>1. Charge(after, key, now).buckets[key].count = after.buckets[key].count + 1
          BY <3>1, <3>3, <3>4, <4>1, <4>2, ChargeEffect
        <5>2. tables'[d].buckets[key].count = tables[d].buckets[key].count + 1
          BY <3>2, <4>1, <5>1
        <5>3. QED
          BY <3>1, <3>3, <5>2 DEF Charged, Bucket
      <4>3. CASE Expired(tables[d].buckets[key], now)
        <5>1. tables'[d].buckets[key] = [count |-> 1, resetAt |-> now + Window]
          BY <3>1, <3>2, <3>3, <4>1, <4>3, ChargeEffect
        <5>2. now + Window # tables[d].buckets[key].resetAt
          BY <3>1, <3>3, <4>3, PolicyAssumption DEF Expired, Bucket
        <5>3. QED
          BY <3>1, <5>1, <5>2 DEF Charged
      <4>4. QED
        BY <4>2, <4>3
    <3>5. CASE key \notin Held(tables[d])
      <4>1. key \notin Held(after)
        BY <3>1, <3>3, <3>5, SweepHeld DEF Examined
      <4>2. tables'[d].buckets[key] = [count |-> 1, resetAt |-> now + Window]
        BY <3>1, <3>2, <3>3, <4>1, ChargeEffect
      <4>3. tables[d].buckets[key].count = 0
        BY <3>1, <3>5 DEF Held
      <4>4. QED
        BY <3>1, <4>2, <4>3 DEF Charged
    <3>6. QED
      BY <3>4, <3>5
  <2>4. QED
    BY <1>1, <2>1, <2>2, <2>3 DEF Next, PassTime, Capture, vars
<1>2. IInv /\ [Next]_vars =>
        [(\E d \in Dimensions : Charged(d)) => \A d \in Dimensions : Charged(d)]_vars
  BY <1>1
<1>3. QED
  BY <1>2, Invariant, PTL DEF Spec, ChargedTogether
=============================================================================
