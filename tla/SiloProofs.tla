----------------------------- MODULE SiloProofs -----------------------------
(***************************************************************************)
(* Proofs about module SiloTxn, for any number of cores and records and    *)
(* any programs: its write locks, the type of its state, that the          *)
(* transactions which pass validation are serializable, and that the       *)
(* epochs and the read-only snapshots fit into their order.                *)
(*                                                                         *)
(* In this order: the locks; the arithmetic of the ids; the invariant      *)
(* behind serializability; what the steps change, and that they keep the   *)
(* first part of it, CommitInv; the ranks that make the rest of it; the    *)
(* numbers of the ids, the ticker and the chains of older versions; the    *)
(* invariant behind the epochs, EpochInv, part by part, and the ranks      *)
(* along which they rise; the theorems.                                    *)
(***************************************************************************)
EXTENDS SiloTxn, FiniteSetTheorems, NaturalsInduction, WellFoundedInduction,
        TLAPS

AllPrograms == [snapshot : BOOLEAN, reads : Seq(Tuples), writes : Seq(Tuples)]

\* Where a core holds no lock; where it holds all it needs, whether it will
\* write them or (a transaction that writes nothing) there are none.
Free == {"idle", "snapshot", "read", "readtid", "readvalue", "readnext",
         "readcheck", "end"}
Modifying == {"write", "writevalue", "writetid"}
Full == {"tid", "validate", "check"} \cup Modifying
Places == Free \cup Full \cup {"lock", "unlock"}

\* The locks a core holds, seen from its place.
HoldsAt(place, locks, writes) ==
  /\ place \in Free => locks = {}
  /\ place = "lock" => /\ locks \subseteq writes /\ locks # writes
                       /\ \A t \in locks, u \in writes \ locks : t < u
  /\ place \in Full => locks = writes
  /\ place \in Modifying => writes # {}
  /\ place = "unlock" => locks # {}

StateOK ==
  /\ hdr \in [Tuples -> Headers] /\ held \in [Cores -> SUBSET Tuples]
  /\ pc \in [Cores -> Places] /\ prog \in [Cores -> AllPrograms]

\* The header word and the owners agree, and there is one owner.
LockedIffHeld == \A t \in Tuples : hdr[t].locked <=> \E c \in Cores : t \in held[c]
Exclusive == \A c, d \in Cores : \A t \in held[c] \cap held[d] : c = d

HoldsItsLocks == \A c \in Cores : HoldsAt(pc[c], held[c], Writes(c))

LockInv == StateOK /\ LockedIffHeld /\ Exclusive /\ HoldsItsLocks

-----------------------------------------------------------------------------
(* Extrema of sets of records. *)

LEMMA LeastExists ==
  ASSUME NEW S \in SUBSET Nat, S # {}
  PROVE  \E m \in S : \A n \in S : m <= n
<1> DEFINE R == {ss \in Nat \X Nat : ss[1] < ss[2]}
<1>1. IsWellFoundedOn(R, Nat)
  BY NatLessThanWellFounded DEF OpToRel
<1> HIDE DEF R
<1>2. PICK m \in S : \A n \in S : ~ (<<n, m>> \in R)
  BY <1>1, WFMin
<1>3. \A n \in S : ~ (n < m)
  BY <1>2 DEF R
<1> QED BY <1>3

LEMMA Greatest ==
  ASSUME NEW S \in SUBSET Tuples, S # {}
  PROVE  \E m \in S : \A n \in S : n <= m
<1> DEFINE Above(m) == {n \in S : m < n}
           Aboves == {Above(m) : m \in S}
<1>1. S \in SUBSET Nat /\ IsFiniteSet(S)
  BY SiloAssumption, FS_Subset
<1>2. Aboves \subseteq FiniteSubsetsOf(S) /\ Aboves # {}
  <2>1. FiniteSubsetsOf(S) = SUBSET S
    BY <1>1, FS_FiniteSubsetsOfFinite
  <2>2. Aboves \subseteq SUBSET S /\ Aboves # {}
    OBVIOUS
  <2> HIDE DEF Aboves
  <2> QED BY <2>1, <2>2
<1>3. PICK A \in Aboves : \A B \in Aboves : ~ (<<B, A>> \in StrictSubsetOrdering(S))
  <2> HIDE DEF Aboves
  <2> QED BY <1>2, WFMin, FS_StrictSubsetOrderingWellFounded
<1>4. PICK m \in S : A = Above(m)
  BY <1>3
<1>5. ASSUME NEW n \in S, m < n
      PROVE  FALSE
  <2>1. Above(n) \subseteq Above(m) /\ n \in Above(m) /\ n \notin Above(n)
    <3>1. m \in Nat /\ n \in Nat /\ \A k \in S : k \in Nat
      BY <1>1
    <3>2. ~ (n < n) /\ \A k \in S : n < k => m < k
      BY <3>1, <1>5
    <3> QED BY <3>2, <1>5
  <2>2. <<Above(n), A>> \in StrictSubsetOrdering(S)
    <3>1. Above(n) \in SUBSET S /\ A \in SUBSET S
      BY <1>4
    <3> HIDE DEF Above
    <3> QED BY <2>1, <3>1, <1>4 DEF StrictSubsetOrdering
  <2> QED BY <2>2, <1>3
<1> QED BY <1>1, <1>5

\* What Lock takes is the least record that is written and not locked yet.
LEMMA NextLockIsLeast ==
  ASSUME NEW c \in Cores, held[c] \subseteq Tuples, Writes(c) \subseteq Tuples,
         Writes(c) \ held[c] # {}
  PROVE  /\ NextLock(c) \in Writes(c) \ held[c]
         /\ \A t \in Writes(c) \ held[c] : NextLock(c) <= t
<1>1. Writes(c) \ held[c] \in SUBSET Nat
  BY SiloAssumption
<1>2. \E m \in Writes(c) \ held[c] : \A t \in Writes(c) \ held[c] : m <= t
  BY <1>1, LeastExists
<1> QED BY <1>2 DEF NextLock

LEMMA WritesAreTuples ==
  ASSUME prog \in [Cores -> AllPrograms], NEW c \in Cores
  PROVE  Writes(c) \subseteq Tuples
  BY DEF AllPrograms, Writes, ToSet

\* Where a transaction goes that holds nothing.
LEMMA AfterReadsHolds ==
  ASSUME NEW p \in AllPrograms
  PROVE  /\ AfterReads(p) \in Places /\ StartReads(p) \in Places
         /\ HoldsAt(AfterReads(p), {}, ToSet(p.writes))
         /\ HoldsAt(StartReads(p), {}, ToSet(p.writes))
<1>1. p.writes = <<>> => ToSet(p.writes) = {}
  BY DEF ToSet
<1>2. p.writes # <<>> => ToSet(p.writes) # {}
  BY DEF ToSet, AllPrograms
<1> QED BY <1>1, <1>2 DEF AfterReads, StartReads, HoldsAt, Places, Free, Full,
                          Modifying

-----------------------------------------------------------------------------
(* The locks through the steps of a transaction. *)

LEMMA Initially == Init => LockInv
<1> SUFFICES ASSUME Init PROVE LockInv
  OBVIOUS
<1>1. NoProgram \in AllPrograms
  BY DEF NoProgram, AllPrograms
<1>2. StateOK
  BY <1>1 DEF Init, StateOK, Headers, Idle, Places, Free
<1>3. LockedIffHeld /\ Exclusive
  BY DEF Init, LockedIffHeld, Exclusive, Idle
<1>4. HoldsItsLocks
  BY DEF Init, HoldsItsLocks, HoldsAt, Free, Full, Modifying
<1> QED BY <1>2, <1>3, <1>4 DEF LockInv

\* A step of core c that moves it to place q and keeps the locks.
LEMMA MoveKeepsLocks ==
  ASSUME LockInv, NEW c \in Cores, NEW q \in Places, NEW p \in AllPrograms,
         pc' = [pc EXCEPT ![c] = q], prog' = [prog EXCEPT ![c] = p],
         hdr' \in [Tuples -> Headers],
         \A t \in Tuples : hdr'[t].locked = hdr[t].locked,
         UNCHANGED held,
         HoldsAt(q, held[c], ToSet(p.writes))
  PROVE  LockInv'
<1>1. StateOK'
  BY DEF LockInv, StateOK
<1>2. LockedIffHeld' /\ Exclusive'
  BY DEF LockInv, LockedIffHeld, Exclusive
<1>3. HoldsItsLocks'
  <2> SUFFICES ASSUME NEW d \in Cores
               PROVE  HoldsAt(pc'[d], held[d], Writes(d)')
    BY DEF HoldsItsLocks
  <2>1. CASE d = c
    <3>1. pc'[d] = q /\ Writes(d)' = ToSet(p.writes)
      BY <2>1 DEF LockInv, StateOK, Writes
    <3> QED BY <2>1, <3>1
  <2>2. CASE d # c
    <3>1. pc'[d] = pc[d] /\ Writes(d)' = Writes(d)
      BY <2>2 DEF LockInv, StateOK, Writes
    <3> QED BY <3>1 DEF LockInv, HoldsItsLocks
  <2> QED BY <2>1, <2>2
<1> QED BY <1>1, <1>2, <1>3 DEF LockInv

\* The same, within a program and without touching a header.
LEMMA StepKeepsLocks ==
  ASSUME LockInv, NEW c \in Cores, NEW q \in Places,
         Goto(c, q), UNCHANGED <<prog, hdr, held>>,
         HoldsAt(q, held[c], Writes(c))
  PROVE  LockInv'
<1>1. prog[c] \in AllPrograms /\ prog' = [prog EXCEPT ![c] = prog[c]]
  BY DEF LockInv, StateOK
<1>2. hdr' \in [Tuples -> Headers] /\ \A t \in Tuples : hdr'[t].locked = hdr[t].locked
  BY DEF LockInv, StateOK
<1> QED BY <1>1, <1>2, MoveKeepsLocks DEF Goto, Writes

LEMMA IdleKeepsLocks ==
  ASSUME LockInv, UNCHANGED <<pc, prog, hdr, held>>
  PROVE  LockInv'
  BY DEF LockInv, StateOK, LockedIffHeld, Exclusive, HoldsItsLocks, Writes

LEMMA BeginKeepsLocks ==
  ASSUME LockInv, NEW c \in Cores, Begin(c)
  PROVE  LockInv'
<1>1. PICK p \in Programs[c] :
        /\ prog' = [prog EXCEPT ![c] = p]
        /\ Goto(c, IF p.snapshot THEN "snapshot" ELSE StartReads(p))
  BY DEF Begin
<1>2. p \in AllPrograms
  BY SiloAssumption DEF AllPrograms
<1>3. held[c] = {}
  BY DEF LockInv, HoldsItsLocks, HoldsAt, Begin, Free
<1>4. UNCHANGED <<hdr, held>>
  BY DEF Begin, records
<1>5. hdr' \in [Tuples -> Headers] /\ \A t \in Tuples : hdr'[t].locked = hdr[t].locked
  BY <1>4 DEF LockInv, StateOK
<1>6. CASE p.snapshot
  <2>1. "snapshot" \in Places /\ HoldsAt("snapshot", held[c], ToSet(p.writes))
    BY <1>3 DEF Places, Free, HoldsAt, Full, Modifying
  <2> QED BY <1>1, <1>2, <1>4, <1>5, <1>6, <2>1, MoveKeepsLocks DEF Goto
<1>7. CASE ~p.snapshot
  BY <1>1, <1>2, <1>3, <1>4, <1>5, <1>7, AfterReadsHolds, MoveKeepsLocks DEF Goto
<1> QED BY <1>6, <1>7

\* The reads: from one place without locks to another, or to the commit.
LEMMA ReadsKeepLocks ==
  ASSUME LockInv, NEW c \in Cores,
         \/ TakeSnapshot(c) \/ ReadHeader(c) \/ ReadVersion(c)
         \/ ReadValue(c) \/ ReadNext(c) \/ ReadCheck(c)
  PROVE  LockInv'
<1>1. UNCHANGED <<prog, hdr, held>>
  BY DEF TakeSnapshot, ReadHeader, ReadVersion, ReadValue, ReadNext, ReadCheck,
         Loading, records, local
<1>2. held[c] = {}
  BY DEF LockInv, HoldsItsLocks, HoldsAt, Free, TakeSnapshot, ReadHeader,
         ReadVersion, ReadValue, ReadNext, ReadCheck
<1>3. \E q \in {"read", "readtid", "readvalue", "readnext", "readcheck",
                AfterReads(prog[c]), StartReads(prog[c])} : Goto(c, q)
  BY DEF TakeSnapshot, ReadHeader, ReadVersion, ReadValue, ReadNext, ReadCheck
<1>4. prog[c] \in AllPrograms
  BY DEF LockInv, StateOK
<1>5. \A q \in {"read", "readtid", "readvalue", "readnext", "readcheck"} :
        q \in Places /\ HoldsAt(q, held[c], Writes(c))
  BY <1>2 DEF Places, Free, HoldsAt, Full, Modifying
<1>6. \A q \in {AfterReads(prog[c]), StartReads(prog[c])} :
        q \in Places /\ HoldsAt(q, held[c], Writes(c))
  BY <1>2, <1>4, AfterReadsHolds DEF Writes
<1> QED BY <1>1, <1>3, <1>5, <1>6, StepKeepsLocks

LEMMA LockKeepsLocks ==
  ASSUME LockInv, NEW c \in Cores, Lock(c)
  PROVE  LockInv'
<1> DEFINE t == NextLock(c)
           q == IF held'[c] = Writes(c) THEN "tid" ELSE "lock"
<1>1. /\ Writes(c) \subseteq Tuples /\ held[c] \subseteq Writes(c)
      /\ held[c] # Writes(c)
      /\ \A x \in held[c], y \in Writes(c) \ held[c] : x < y
  BY WritesAreTuples DEF LockInv, StateOK, HoldsItsLocks, HoldsAt, Lock
<1>2. t \in Writes(c) \ held[c] /\ \A y \in Writes(c) \ held[c] : t <= y
  BY <1>1, NextLockIsLeast
<1> HIDE DEF t
<1>3. /\ ~hdr[t].locked /\ hdr' = [hdr EXCEPT ![t] = Locked(@)]
      /\ held' = [held EXCEPT ![c] = @ \cup {t}]
      /\ pc' = [pc EXCEPT ![c] = q] /\ UNCHANGED prog
  BY DEF Lock, t, Goto, Committing, local
<1>4. /\ held'[c] = held[c] \cup {t}
      /\ \A d \in Cores : d # c => held'[d] = held[d]
      /\ hdr'[t].locked /\ \A u \in Tuples : u # t => hdr'[u] = hdr[u]
  BY <1>1, <1>2, <1>3 DEF LockInv, StateOK, Locked, Headers
<1>5. \A d \in Cores : t \notin held[d]
  BY <1>1, <1>2, <1>3 DEF LockInv, LockedIffHeld
<1>6. StateOK'
  BY <1>1, <1>2, <1>3 DEF LockInv, StateOK, Locked, Headers, Places, Full
<1>7. LockedIffHeld' /\ Exclusive'
  <2>1. LockedIffHeld'
    <3> SUFFICES ASSUME NEW u \in Tuples
                 PROVE  hdr'[u].locked <=> \E d \in Cores : u \in held'[d]
      BY DEF LockedIffHeld
    <3>1. CASE u = t
      BY <1>4, <3>1
    <3>2. CASE u # t
      BY <1>4, <3>2 DEF LockInv, LockedIffHeld
    <3> QED BY <3>1, <3>2
  <2>2. Exclusive'
    BY <1>4, <1>5 DEF LockInv, Exclusive
  <2> QED BY <2>1, <2>2
<1>8. HoldsItsLocks'
  <2> SUFFICES ASSUME NEW d \in Cores
               PROVE  HoldsAt(pc'[d], held'[d], Writes(d)')
    BY DEF HoldsItsLocks
  <2>1. Writes(d)' = Writes(d)
    BY <1>3 DEF Writes
  <2>2. CASE d # c
    BY <1>3, <1>4, <2>1, <2>2 DEF LockInv, HoldsItsLocks, StateOK
  <2>3. CASE d = c
    <3>1. held'[c] \subseteq Writes(c) /\ pc'[c] = q
      BY <1>1, <1>2, <1>3, <1>4 DEF LockInv, StateOK
    <3>2. \A x \in held'[c], y \in Writes(c) \ held'[c] : x < y
      <4>1. \A y \in Writes(c) : y \in Nat
        BY <1>1, SiloAssumption
      <4>2. \A y \in Writes(c) \ held'[c] : t < y
        BY <1>2, <1>4, <4>1
      <4> QED BY <1>1, <1>4, <4>2
    <3> QED BY <2>1, <2>3, <3>1, <3>2 DEF HoldsAt, Free, Full, Modifying
  <2> QED BY <2>2, <2>3
<1> QED BY <1>6, <1>7, <1>8 DEF LockInv

\* Between the locks and the unlocks.
LEMMA ChecksKeepLocks ==
  ASSUME LockInv, NEW c \in Cores,
         \/ gen_commit_tid(c) \/ CheckOwn(c) \/ LoadHeader(c) \/ CheckLatest(c)
         \/ Validated(c) \/ StoreValue(c) \/ StoreVersion(c)
  PROVE  LockInv'
<1>1. UNCHANGED <<prog, hdr, held>>
  BY DEF gen_commit_tid, CheckOwn, LoadHeader, CheckLatest, Validated,
         StoreValue, StoreVersion, Committing, records, local
<1>2. pc[c] \in Full /\ held[c] = Writes(c) /\ (pc[c] \in Modifying => Writes(c) # {})
  BY DEF LockInv, HoldsItsLocks, HoldsAt, Full, Modifying, gen_commit_tid,
         CheckOwn, LoadHeader, CheckLatest, Validated, StoreValue, StoreVersion
<1>3. /\ \A q \in {"tid", "validate", "check"} : HoldsAt(q, held[c], Writes(c))
      /\ Writes(c) # {} =>
           \A q \in Modifying \cup {"unlock"} : HoldsAt(q, held[c], Writes(c))
      /\ held[c] = {} => HoldsAt("end", held[c], Writes(c))
  BY <1>2 DEF HoldsAt, Free, Full, Modifying
<1>4. \E q \in Places : Goto(c, q) /\ HoldsAt(q, held[c], Writes(c))
  <2>0. pc' = pc => Goto(c, pc[c])
    BY DEF Goto, LockInv, StateOK
  <2>1. CASE gen_commit_tid(c)
    BY <2>1, <1>3 DEF gen_commit_tid, Places, Full
  <2>2. CASE Fail(c)
    BY <2>2, <1>2, <1>3 DEF Fail, Places, Free
  <2>3. CASE CheckOwn(c) /\ ~Fail(c)
    BY <2>3, <2>0, <1>3 DEF CheckOwn, Places, Full
  <2>4. CASE LoadHeader(c) /\ ~Fail(c)
    BY <2>4, <1>3 DEF LoadHeader, Places, Full
  <2>5. CASE CheckLatest(c) /\ ~Fail(c)
    BY <2>5, <1>3 DEF CheckLatest, Places, Full
  <2>6. CASE Validated(c)
    BY <2>6, <1>2, <1>3 DEF Validated, Places, Full, Free, Modifying
  <2>7. CASE StoreValue(c)
    BY <2>7, <1>2, <1>3 DEF StoreValue, Places, Full, Modifying
  <2>8. CASE StoreVersion(c)
    BY <2>8, <1>2, <1>3 DEF StoreVersion, Places, Full, Modifying
  <2> QED BY <2>1, <2>2, <2>3, <2>4, <2>5, <2>6, <2>7, <2>8
<1> QED BY <1>1, <1>4, StepKeepsLocks

LEMMA MarkKeepsLocks ==
  ASSUME LockInv, NEW c \in Cores, MarkModifying(c)
  PROVE  LockInv'
<1>1. /\ hdr' = [hdr EXCEPT ![Writing(c)].modifying = TRUE]
      /\ Goto(c, "writevalue") /\ UNCHANGED <<prog, held>>
  BY DEF MarkModifying, Committing, local
<1>2. hdr' \in [Tuples -> Headers] /\ \A t \in Tuples : hdr'[t].locked = hdr[t].locked
  BY <1>1 DEF LockInv, StateOK, Headers
<1>3. HoldsAt("writevalue", held[c], Writes(c))
  BY DEF LockInv, HoldsItsLocks, HoldsAt, MarkModifying, Free, Full, Modifying
<1>4. prog[c] \in AllPrograms /\ prog' = [prog EXCEPT ![c] = prog[c]]
  BY <1>1 DEF LockInv, StateOK
<1>5. "writevalue" \in Places
  BY DEF Places, Full, Modifying
<1> QED BY <1>1, <1>2, <1>3, <1>4, <1>5, MoveKeepsLocks DEF Goto, Writes

LEMMA UnlockKeepsLocks ==
  ASSUME LockInv, NEW c \in Cores, Unlock(c)
  PROVE  LockInv'
<1> DEFINE least == CHOOSE u \in held[c] : \A o \in held[c] : u <= o
           q == IF held[c] = {least} THEN "end" ELSE "unlock"
<1>1. held[c] \subseteq Tuples /\ held[c] # {}
  BY DEF LockInv, StateOK, HoldsItsLocks, HoldsAt, Unlock
<1>2. least \in held[c]
  <2>1. \E u \in held[c] : \A o \in held[c] : u <= o
    BY <1>1, SiloAssumption, LeastExists
  <2> QED BY <2>1
<1>3. /\ hdr' = [hdr EXCEPT ![least] = Unlocked(@)]
      /\ held' = [held EXCEPT ![c] = @ \ {least}]
      /\ pc' = [pc EXCEPT ![c] = q] /\ UNCHANGED prog
  BY DEF Unlock, Goto, Committing, local
<1> HIDE DEF least
<1>4. \A h \in Headers : Unlocked(h) \in Headers /\ ~Unlocked(h).locked
  <2> SUFFICES ASSUME NEW h \in Headers
               PROVE  Unlocked(h) \in Headers /\ ~Unlocked(h).locked
    OBVIOUS
  <2> DEFINE n == IF h.modifying \/ h.intent THEN h.count + 1 ELSE h.count
  <2>1. n \in Nat
    BY DEF Headers
  <2> HIDE DEF n
  <2>2. Idle \in Headers /\ ~Idle.locked /\ Unlocked(h) = [Idle EXCEPT !.count = n]
    BY DEF Idle, Headers, Unlocked, n
  <2>3. \A i \in Headers : ~i.locked =>
          [i EXCEPT !.count = n] \in Headers /\ ~[i EXCEPT !.count = n].locked
    BY <2>1 DEF Headers
  <2> QED BY <2>2, <2>3
<1>5. /\ held'[c] = held[c] \ {least}
      /\ \A d \in Cores : d # c => held'[d] = held[d]
      /\ ~hdr'[least].locked /\ \A u \in Tuples : u # least => hdr'[u] = hdr[u]
  BY <1>1, <1>2, <1>3, <1>4 DEF LockInv, StateOK
<1>6. StateOK'
  BY <1>1, <1>2, <1>3, <1>4 DEF LockInv, StateOK, Places, Free
<1>7. LockedIffHeld'
  <2> SUFFICES ASSUME NEW u \in Tuples
               PROVE  hdr'[u].locked <=> \E d \in Cores : u \in held'[d]
    BY DEF LockedIffHeld
  <2>1. CASE u = least
    <3>1. \A d \in Cores : least \in held[d] => d = c
      BY <1>2 DEF LockInv, Exclusive
    <3> QED BY <1>5, <2>1, <3>1
  <2>2. CASE u # least
    BY <1>5, <2>2 DEF LockInv, LockedIffHeld
  <2> QED BY <2>1, <2>2
<1>8. Exclusive'
  <2>1. \A d \in Cores : held'[d] \subseteq held[d]
    BY <1>5
  <2> QED BY <2>1 DEF LockInv, Exclusive
<1>9. HoldsItsLocks'
  <2> SUFFICES ASSUME NEW d \in Cores
               PROVE  HoldsAt(pc'[d], held'[d], Writes(d)')
    BY DEF HoldsItsLocks
  <2>1. Writes(d)' = Writes(d)
    BY <1>3 DEF Writes
  <2>2. CASE d # c
    BY <1>3, <1>5, <2>1, <2>2 DEF LockInv, HoldsItsLocks, StateOK
  <2>3. CASE d = c
    <3>1. pc'[c] = q /\ (q = "end" => held'[c] = {}) /\ (q = "unlock" => held'[c] # {})
      BY <1>2, <1>3, <1>5 DEF LockInv, StateOK
    <3> QED BY <2>3, <3>1 DEF HoldsAt, Free, Full, Modifying
  <2> QED BY <2>2, <2>3
<1> QED BY <1>6, <1>7, <1>8, <1>9 DEF LockInv

LEMMA EndKeepsLocks ==
  ASSUME LockInv, NEW c \in Cores, End(c)
  PROVE  LockInv'
<1>1. Goto(c, "idle") /\ prog' = [prog EXCEPT ![c] = NoProgram] /\ UNCHANGED <<hdr, held>>
  BY DEF End, records
<1>2. NoProgram \in AllPrograms /\ "idle" \in Places
  BY DEF NoProgram, AllPrograms, Places, Free
<1>3. HoldsAt("idle", held[c], ToSet(NoProgram.writes))
  BY DEF LockInv, HoldsItsLocks, HoldsAt, End, Free, Full, Modifying
<1>4. hdr' \in [Tuples -> Headers] /\ \A t \in Tuples : hdr'[t].locked = hdr[t].locked
  BY <1>1 DEF LockInv, StateOK
<1> QED BY <1>1, <1>2, <1>3, <1>4, MoveKeepsLocks DEF Goto

LEMMA LockInvInductive == LockInv /\ [Next]_vars => LockInv'
<1> SUFFICES ASSUME LockInv, [Next]_vars PROVE LockInv'
  OBVIOUS
<1>1. CASE UNCHANGED vars
  BY <1>1, IdleKeepsLocks DEF vars, records, local
<1>2. CASE Bump \/ Pass \/ Publish \/ Finished
  <2>1. UNCHANGED <<pc, prog, hdr, held>>
    BY <1>2 DEF Bump, Pass, Publish, Finished, vars, records, local
  <2> QED BY <2>1, IdleKeepsLocks
<1>3. ASSUME NEW c \in Cores,
             \/ Begin(c) \/ TakeSnapshot(c)
             \/ ReadHeader(c) \/ ReadVersion(c) \/ ReadValue(c) \/ ReadNext(c)
             \/ ReadCheck(c)
             \/ Lock(c) \/ gen_commit_tid(c)
             \/ CheckOwn(c) \/ LoadHeader(c) \/ CheckLatest(c) \/ Validated(c)
             \/ MarkModifying(c) \/ StoreValue(c) \/ StoreVersion(c)
             \/ Unlock(c) \/ End(c)
      PROVE  LockInv'
  BY <1>3, BeginKeepsLocks, ReadsKeepLocks, LockKeepsLocks, ChecksKeepLocks,
     MarkKeepsLocks, UnlockKeepsLocks, EndKeepsLocks
<1> QED BY <1>1, <1>2, <1>3 DEF Next

-----------------------------------------------------------------------------
(* Transaction ids as numbers.                                             *)

\* The first epoch of the run is no earlier than the second, nor than a snapshot's.
LEMMA FirstTickIs ==
  /\ FirstTick \in Nat /\ 2 <= FirstTick /\ FirstTick <= MaxTick
  /\ ReadOnlyEpochMultiplier <= FirstTick /\ ReadOnlyEpochMultiplier \in Nat \ {0}
BY SiloAssumption DEF FirstTick

LEMMA Division ==
  ASSUME NEW a \in Nat, NEW b \in Nat \ {0}
  PROVE  /\ a \div b \in Nat /\ a % b \in 0 .. b - 1
         /\ a = b * (a \div b) + (a % b)
  BY Z3

LEMMA Scaled ==
  ASSUME NEW b \in Nat, NEW x \in Int, NEW y \in Int, x <= y
  PROVE  b * x <= b * y
  BY Z3

LEMMA Unscaled ==
  ASSUME NEW b \in Nat \ {0}, NEW x \in Int, NEW y \in Int, b * x < b * y
  PROVE  x < y
  BY Z3

\* Distributivity, once: the provers are slow to find it.
LEMMA Distributes ==
  ASSUME NEW a \in Int, NEW b \in Int, NEW c \in Int
  PROVE  /\ a * b \in Int /\ a * b = b * a
         /\ a * (b + c) = a * b + a * c
         /\ (a * b) * c = a * (b * c)
  BY Z3

\* A tid below the end of epoch e is of an epoch up to e, and conversely.
LEMMA EpochBound ==
  ASSUME NEW x \in Nat, NEW e \in Nat
  PROVE  /\ EpochId(x) \in Nat
         /\ EpochId(x) <= e <=> x < (CoreIds * NumIds) * (e + 1)
<1> DEFINE m == CoreIds * NumIds
           q == x \div m
<1>1. m \in Nat \ {0}
  BY SiloAssumption, Z3
<1> HIDE DEF m
<1>2. q \in Nat /\ x % m \in 0 .. m - 1 /\ x = m * q + (x % m)
  BY <1>1, Division
<1> HIDE DEF q
<1>3. m * q \in Int /\ m * (q + 1) = m * q + m /\ m * (e + 1) \in Int
  BY <1>1, <1>2, Distributes, Z3
<1>4. ASSUME q <= e
      PROVE  x < m * (e + 1)
  <2>1. m * (q + 1) <= m * (e + 1)
    BY <1>1, <1>2, <1>4, Scaled
  <2> QED BY <1>1, <1>2, <1>3, <2>1
<1>5. ASSUME x < m * (e + 1)
      PROVE  q <= e
  <2>1. m * q < m * (e + 1)
    BY <1>1, <1>2, <1>3, <1>5
  <2>2. q < e + 1
    BY <1>1, <1>2, <2>1, Unscaled
  <2> QED BY <1>2, <2>2
<1>6. EpochId(x) = q
  BY DEF EpochId, q, m
<1> QED BY <1>2, <1>4, <1>5, <1>6 DEF m

\* The three fields of a tid.
LEMMA Fields ==
  ASSUME NEW x \in Nat
  PROVE  /\ NumId(x) \in 0 .. NumIds - 1
         /\ \E y \in Nat, r \in 0 .. CoreIds - 1 :
              /\ x = CoreIds * (NumIds * y + NumId(x)) + r
              /\ (CoreIds * NumIds) * y <= x
<1> DEFINE z == x \div CoreIds
           y == z \div NumIds
<1>0. CoreIds \in Nat \ {0} /\ NumIds \in Nat \ {0}
  BY SiloAssumption
<1>1. z \in Nat /\ x % CoreIds \in 0 .. CoreIds - 1 /\ x = CoreIds * z + (x % CoreIds)
  BY <1>0, Division
<1> HIDE DEF z
<1>2. y \in Nat /\ z % NumIds \in 0 .. NumIds - 1 /\ z = NumIds * y + (z % NumIds)
  BY <1>0, <1>1, Division
<1>3. NumId(x) = z % NumIds
  BY DEF NumId, z
<1> HIDE DEF y
<1>4. (CoreIds * NumIds) * y = CoreIds * (NumIds * y) /\ NumIds * y \in Int
  BY <1>0, <1>2, Distributes
<1>5. CoreIds * (NumIds * y) <= CoreIds * z
  BY <1>0, <1>1, <1>2, <1>4, Scaled
<1>6. CoreIds * z \in Int
  BY <1>0, <1>1, Distributes
<1>7. CoreIds * (NumIds * y) <= x
  BY <1>0, <1>1, <1>4, <1>5, <1>6, Distributes
<1> QED BY <1>1, <1>2, <1>3, <1>4, <1>7

\* A new tid is newer than every tid of no later epoch with its number less one.
LEMMA TidGrows ==
  ASSUME NEW c \in Cores, NEW x \in Nat, NEW e \in Nat, EpochId(x) <= e
  PROVE  x < MakeTid(c, NumId(x) + 1, e)
<1>0. CoreIds \in Nat \ {0} /\ NumIds \in Nat \ {0} /\ c \in Nat
  BY SiloAssumption
<1>1. NumId(x) \in 0 .. NumIds - 1
  BY Fields
<1>2. PICK y \in Nat, r \in 0 .. CoreIds - 1 :
        /\ x = CoreIds * (NumIds * y + NumId(x)) + r
        /\ (CoreIds * NumIds) * y <= x
  BY Fields
<1> DEFINE k == NumId(x)
           a == NumIds * y + k
           b == NumIds * e + k + 1
<1>3. y <= e
  <2> DEFINE m == CoreIds * NumIds
  <2>1. m \in Nat \ {0}
    BY <1>0, Z3
  <2>2. x < m * (e + 1)
    BY EpochBound
  <2> HIDE DEF m
  <2>3. m * y \in Int /\ m * (e + 1) \in Int
    BY <2>1, Distributes
  <2>4. m * y < m * (e + 1)
    BY <1>2, <2>2, <2>3 DEF m
  <2>5. y < e + 1
    BY <2>1, <2>4, Unscaled
  <2> QED BY <2>5
<1>4. NumIds * y <= NumIds * e /\ NumIds * y \in Int /\ NumIds * e \in Int
  BY <1>0, <1>3, Scaled, Distributes
<1>5. a \in Int /\ b \in Int /\ a + 1 <= b
  BY <1>1, <1>4
<1>6. MakeTid(c, k + 1, e) = CoreIds * b + c
  <2>1. e * NumIds = NumIds * e
    BY <1>0, Distributes
  <2>2. e * NumIds + (k + 1) = b
    BY <1>1, <1>4, <2>1
  <2> HIDE DEF b, k
  <2>3. b * CoreIds = CoreIds * b
    BY <1>0, <1>5, Distributes
  <2> QED BY <2>2, <2>3 DEF MakeTid
<1>7. x = CoreIds * a + r
  BY <1>2
<1> HIDE DEF a, b, k
<1>8. CoreIds * (a + 1) <= CoreIds * b
  BY <1>0, <1>5, Scaled
<1>9. /\ CoreIds * (a + 1) = CoreIds * a + CoreIds
      /\ CoreIds * a \in Int /\ CoreIds * b \in Int
  <2>1. CoreIds * (a + 1) = CoreIds * a + CoreIds * 1
    BY <1>0, <1>5, Distributes
  <2> QED BY <1>0, <1>5, <2>1, Distributes
<1>10. x < CoreIds * b + c
  BY <1>0, <1>2, <1>7, <1>8, <1>9
<1> QED BY <1>6, <1>10 DEF k

\* A tid is of the epoch it was made in, unless its number overflows the field.
LEMMA TidOfEpoch ==
  ASSUME NEW c \in 0 .. CoreIds - 1, NEW k \in Nat, NEW e \in Nat, k < NumIds
  PROVE  MakeTid(c, k, e) \in Nat /\ EpochId(MakeTid(c, k, e)) <= e
<1>0. CoreIds \in Nat \ {0} /\ NumIds \in Nat \ {0} /\ c \in Nat /\ c < CoreIds
  BY SiloAssumption
<1> DEFINE b == e * NumIds + k
<1>1. e * NumIds \in Nat
  BY <1>0, Z3
<1>2. b \in Nat
  BY <1>1
<1>3. b + 1 <= NumIds * (e + 1)
  <2>1. NumIds * (e + 1) = NumIds * e + NumIds * 1 /\ NumIds * e = e * NumIds
    BY <1>0, Distributes
  <2> QED BY <1>0, <1>1, <2>1
<1>4. MakeTid(c, k, e) = b * CoreIds + c
  BY DEF MakeTid
<1> HIDE DEF b
<1>5. /\ CoreIds * (b + 1) <= CoreIds * (NumIds * (e + 1))
      /\ CoreIds * (b + 1) = CoreIds * b + CoreIds
      /\ b * CoreIds = CoreIds * b /\ b * CoreIds \in Nat
      /\ CoreIds * (NumIds * (e + 1)) = (CoreIds * NumIds) * (e + 1)
  <2>1. NumIds * (e + 1) \in Int
    BY <1>0, Distributes
  <2>2. CoreIds * (b + 1) <= CoreIds * (NumIds * (e + 1))
    BY <1>0, <1>2, <1>3, <2>1, Scaled
  <2>3. CoreIds * (b + 1) = CoreIds * b + CoreIds * 1 /\ b * CoreIds = CoreIds * b
    BY <1>0, <1>2, Distributes
  <2>4. b * CoreIds \in Nat
    BY <1>0, <1>2, Z3
  <2>5. CoreIds * (NumIds * (e + 1)) = (CoreIds * NumIds) * (e + 1)
    BY <1>0, Distributes
  <2> QED BY <1>0, <2>2, <2>3, <2>4, <2>5
<1>6. MakeTid(c, k, e) \in Nat
  BY <1>0, <1>4, <1>5
<1>7. MakeTid(c, k, e) < (CoreIds * NumIds) * (e + 1)
  <2>1. CoreIds * (b + 1) \in Int /\ (CoreIds * NumIds) * (e + 1) \in Int
    BY <1>0, <1>2, Distributes
  <2> QED BY <1>0, <1>4, <1>5, <2>1
<1> QED BY <1>6, <1>7, EpochBound

\* A transaction that is no snapshot may read every version.
LEMMA EverythingIsRead ==
  ASSUME NEW x \in Nat, EpochId(x) <= MaxTick
  PROVE  x <= MaxTid
<1>0. CoreIds \in Nat \ {0} /\ NumIds \in Nat \ {0} /\ MaxTick \in Nat
  BY SiloAssumption
<1>1. x < (CoreIds * NumIds) * (MaxTick + 1)
  BY <1>0, EpochBound
<1>2. (CoreIds * NumIds) * (MaxTick + 1) = MaxTid + 1
  <2>1. (CoreIds * NumIds) * (MaxTick + 1) = CoreIds * (NumIds * (MaxTick + 1))
    BY <1>0, Distributes
  <2>2. NumIds * (MaxTick + 1) = MaxTick * NumIds + NumIds /\ MaxTick * NumIds \in Int
    <3>1. NumIds * (MaxTick + 1) = NumIds * MaxTick + NumIds * 1
      BY <1>0, Distributes
    <3> QED BY <1>0, <3>1, Distributes
  <2> DEFINE b == MaxTick * NumIds + (NumIds - 1)
  <2>3. b \in Int /\ NumIds * (MaxTick + 1) = b + 1
    BY <1>0, <2>2
  <2>4. MaxTid = b * CoreIds + (CoreIds - 1)
    BY DEF MaxTid, MakeTid
  <2> HIDE DEF b
  <2>5. CoreIds * (b + 1) = b * CoreIds + CoreIds /\ b * CoreIds \in Int
    <3>1. CoreIds * (b + 1) = CoreIds * b + CoreIds * 1
      BY <1>0, <2>3, Distributes
    <3> QED BY <1>0, <2>3, <3>1, Distributes
  <2> QED BY <1>0, <2>1, <2>3, <2>4, <2>5
<1>3. MaxTid \in Int
  <2>1. MaxTick * NumIds \in Int
    BY <1>0, Distributes
  <2>2. (MaxTick * NumIds + (NumIds - 1)) * CoreIds \in Int
    <3> DEFINE b == MaxTick * NumIds + (NumIds - 1)
    <3>1. b \in Int
      BY <1>0, <2>1
    <3> HIDE DEF b
    <3>2. b * CoreIds \in Int
      BY <1>0, <3>1, Distributes
    <3> QED BY <3>2 DEF b
  <2> QED BY <1>0, <2>2 DEF MaxTid, MakeTid
<1> QED BY <1>1, <1>2, <1>3

-----------------------------------------------------------------------------
(* The invariant behind serializability.                                   *)

Txns == Cores \X Nat
ReadRecords == [tuple : Tuples, tid : Nat, value : Txns \cup {Loader}]
SeenRecords == [hdr : Headers, tid : Nat, value : Txns \cup {Loader}]
Decisions == [txn : Txns, tid : Nat, writes : SUBSET Tuples, snapshot : {FALSE},
              reads : SUBSET (Tuples \X (Txns \cup {Loader}))]

\* Nothing in the source checks that the number of a new id fits its field.
TidsFit == \A c \in Cores : pc[c] = "tid" => NumId(Newest(c)) + 1 < NumIds

\* The transactions that are no snapshots and will not abort, and their names.
Serial == {d \in decided : ~d.snapshot}
Committed == {d.txn : d \in Serial}

\* Who wrote record t last.
LastWriter(t) == IF installed[t] = <<>> THEN Loader ELSE Last(installed[t])

Loads == {"readtid", "readvalue", "readcheck"}
Checks == {"validate", "check"}
\* Core c is past the point from which its transaction counts.
Past(c) == pc[c] \in Checks \cup Modifying

TypesOK ==
  /\ current_tick_ \in 2 .. MaxTick
  /\ version \in [Tuples -> Nat] /\ value \in [Tuples -> Txns \cup {Loader}]
  /\ txns \in [Cores -> Nat] /\ done \in [Cores -> Nat]
  /\ last_commit_tid_ \in [Cores -> Nat]
  /\ DOMAIN bound = Cores /\ DOMAIN read_set = Cores /\ DOMAIN seen = Cores
  /\ installed \in [Tuples -> Seq(Txns)]
  /\ Serial \subseteq Decisions

\* Where core c is in its program.
PlaceOK(c) ==
  /\ pc[c] = "idle" => prog[c] = NoProgram /\ read_set[c] = <<>>
  /\ pc[c] = "snapshot" => prog[c].snapshot
  /\ prog[c].snapshot => prog[c].writes = <<>> /\ pc[c] \in Free
  /\ ~prog[c].snapshot =>
       /\ read_set[c] \in Seq(ReadRecords) /\ pc[c] # "readnext"
       /\ pc[c] # "idle" => bound[c] = MaxTid
       /\ pc[c] \in {"read"} \cup Loads => Len(read_set[c]) < Len(prog[c].reads)
       /\ pc[c] \in Loads => seen[c] \in SeenRecords
  /\ pc[c] \notin Checks \cup Modifying \cup {"unlock", "end"} => done[c] = 0
  /\ pc[c] = "validate" => done[c] <= Len(read_set[c])
  /\ pc[c] = "check" => done[c] < Len(read_set[c]) /\ ~seen[c].hdr.intent
  /\ pc[c] \in Modifying => done[c] < Len(prog[c].writes)

\* The header tells what a core does to the record.
HeaderOK(t) == hdr[t].intent = hdr[t].locked
WriteOK(c) ==
  /\ pc[c] \in {"writevalue", "writetid"} => hdr[Writing(c)].modifying
  /\ pc[c] = "writetid" => value[Writing(c)] = Txn(c)
ValueOK(t) ==
  \/ value[t] = LastWriter(t)
  \/ \E c \in Cores : pc[c] = "writetid" /\ Writing(c) = t

\* Nothing is newer than the epoch.
EpochsOK ==
  /\ \A t \in Tuples : EpochId(version[t]) <= current_tick_
  /\ \A c \in Cores : EpochId(Tid(c)) <= current_tick_

\* What a core has loaded belongs together if the header is still the same.
SeenOK(c) ==
  ~prog[c].snapshot /\ pc[c] \in Loads =>
    LET t == Reading(c)
    IN  /\ ~seen[c].hdr.modifying /\ seen[c].hdr.count <= hdr[t].count
        /\ ~hdr[t].modifying /\ hdr[t].count = seen[c].hdr.count =>
             /\ pc[c] # "readtid" => seen[c].tid = version[t]
             /\ pc[c] = "readcheck" => seen[c].value = value[t]

\* A read is of a version that was the newest, and still is if its tid is.
ReadOK(c) ==
  ~prog[c].snapshot =>
    \A k \in DOMAIN read_set[c] :
      LET r == read_set[c][k]
      IN  /\ r.tid <= version[r.tuple]
          /\ r.tid = version[r.tuple] => r.value = LastWriter(r.tuple)
          /\ r.value = Loader \/ r.value \in ToSet(installed[r.tuple])

\* What a core is about to write gets a newer version.
NewerOK(c) ==
  Past(c) => \A t \in Writes(c) :
    \/ version[t] < Tid(c)
    \/ version[t] = Tid(c) /\ LastWriter(t) = Txn(c)

\* The history: who wrote will commit, and a transaction commits once.
HistoryOK ==
  /\ \A t \in Tuples : ToSet(installed[t]) \subseteq Committed
  /\ \A d, e \in Serial : d.txn = e.txn => d = e
  /\ \A c \in Cores, k \in Nat : <<c, k>> \in Committed =>
       /\ k <= txns[c]
       /\ k = txns[c] => pc[c] \in Modifying \cup {"unlock", "end", "idle"}
  /\ \A c \in Cores : pc[c] \in Modifying => Txn(c) \in Committed

\* The reads that transaction x has validated, and what it read there.
Valid(x, t, v) ==
  \/ \E d \in Serial : d.txn = x /\ <<t, v>> \in d.reads
  \/ \E c \in Cores :
       /\ pc[c] \in Checks /\ Txn(c) = x
       /\ \E k \in 1 .. done[c] :
            read_set[c][k].tuple = t /\ read_set[c][k].value = v

\* The serial order: the transactions that count have ranks below n.
Ranked == Committed \cup {Txn(c) : c \in {d \in Cores : Past(d)}}

\* Writers of a record wrote in the order of their ranks, those that hold its lock last.
WritersInOrder(rank) ==
  /\ \A t \in Tuples : \A i, j \in DOMAIN installed[t] :
       i < j => \/ installed[t][i] = installed[t][j]
                \/ rank[installed[t][i]] < rank[installed[t][j]]
  /\ \A c \in Cores : Past(c) => \A t \in held[c] : \A i \in DOMAIN installed[t] :
       installed[t][i] = Txn(c) \/ rank[installed[t][i]] < rank[Txn(c)]

\* What a transaction read was written by one of lesser rank.
ReadsFollow(rank) ==
  /\ \A d \in Serial : \A r \in d.reads :
       \/ r[2] = Loader
       \/ r[2] \in ToSet(installed[r[1]]) /\ rank[r[2]] < rank[d.txn]
  /\ \A c \in Cores : pc[c] \in Checks =>
       \A k \in DOMAIN read_set[c] :
         \/ read_set[c][k].value = Loader
         \/ rank[read_set[c][k].value] < rank[Txn(c)]

\* Who overwrote, or will overwrite, what a transaction has validated is of greater rank.
OverwritesFollow(rank) ==
  \A x \in Ranked, t \in Tuples, v \in Txns \cup {Loader} : Valid(x, t, v) =>
    /\ \A j \in DOMAIN installed[t] :
         installed[t][j] # x /\ installed[t][j] # v
         /\ (v = Loader \/ \E i \in 1 .. j : installed[t][i] = v)
         => rank[x] < rank[installed[t][j]]
    /\ \A c \in Cores : Past(c) /\ t \in held[c] /\ Txn(c) # x
         => rank[x] < rank[Txn(c)]

RankOK(n, rank) ==
  /\ \A x \in Ranked : rank[x] < n
  /\ WritersInOrder(rank) /\ ReadsFollow(rank) /\ OverwritesFollow(rank)

CoreOK(c) == PlaceOK(c) /\ WriteOK(c) /\ SeenOK(c) /\ ReadOK(c) /\ NewerOK(c)
TupleOK(t) == HeaderOK(t) /\ ValueOK(t)

CommitInv ==
  /\ LockInv /\ TypesOK /\ EpochsOK /\ HistoryOK
  /\ \A c \in Cores : CoreOK(c)
  /\ \A t \in Tuples : TupleOK(t)

SerialInv == CommitInv /\ \E n \in Nat : \E rank \in [Txns -> Nat] : RankOK(n, rank)

-----------------------------------------------------------------------------
(* What the steps of one core change.                                      *)

\* The steps of core c.
CoreStep(c) ==
  \/ Begin(c) \/ TakeSnapshot(c)
  \/ ReadHeader(c) \/ ReadVersion(c) \/ ReadValue(c) \/ ReadNext(c)
  \/ ReadCheck(c)
  \/ Lock(c) \/ gen_commit_tid(c)
  \/ CheckOwn(c) \/ LoadHeader(c) \/ CheckLatest(c) \/ Validated(c)
  \/ MarkModifying(c) \/ StoreValue(c) \/ StoreVersion(c)
  \/ Unlock(c) \/ End(c)

\* Nothing of core d.
Still(d) ==
  /\ pc'[d] = pc[d] /\ prog'[d] = prog[d] /\ txns'[d] = txns[d]
  /\ bound'[d] = bound[d] /\ read_set'[d] = read_set[d] /\ seen'[d] = seen[d]
  /\ done'[d] = done[d] /\ held'[d] = held[d]
  /\ last_commit_tid_'[d] = last_commit_tid_[d]

LEMMA StepsAreLocal ==
  ASSUME LockInv, TypesOK, NEW c \in Cores, CoreStep(c), NEW d \in Cores, d # c
  PROVE  Still(d)
<1> USE DEF LockInv, StateOK, TypesOK, Still, Goto, Did, Saw, local
<1>1. CASE Begin(c) \/ TakeSnapshot(c)
  BY <1>1 DEF Begin, TakeSnapshot
<1>2. CASE ReadHeader(c) \/ ReadVersion(c) \/ ReadValue(c) \/ ReadNext(c)
  <2>1. UNCHANGED <<prog, txns, bound, read_set, done, held, last_commit_tid_>>
    BY <1>2 DEF ReadHeader, ReadVersion, ReadValue, ReadNext, Loading
  <2>2. pc'[d] = pc[d] /\ seen'[d] = seen[d]
    BY <1>2 DEF ReadHeader, ReadVersion, ReadValue, ReadNext
  <2> QED BY <2>1, <2>2
<1>3. CASE ReadCheck(c)
  <2>1. UNCHANGED <<prog, txns, bound, done, held, last_commit_tid_>>
    BY <1>3 DEF ReadCheck, Loading
  <2>2. pc'[d] = pc[d] /\ seen'[d] = seen[d] /\ read_set'[d] = read_set[d]
    BY <1>3 DEF ReadCheck
  <2> QED BY <2>1, <2>2
<1>4. CASE Lock(c) \/ gen_commit_tid(c)
  BY <1>4 DEF Lock, gen_commit_tid, Committing
<1>5. CASE CheckOwn(c) \/ LoadHeader(c) \/ CheckLatest(c) \/ Validated(c)
  <2>1. UNCHANGED <<prog, txns, bound, read_set, held, last_commit_tid_>>
    BY <1>5 DEF CheckOwn, LoadHeader, CheckLatest, Validated, Committing
  <2>2. pc'[d] = pc[d] /\ seen'[d] = seen[d] /\ done'[d] = done[d]
    BY <1>5 DEF CheckOwn, LoadHeader, CheckLatest, Validated, Fail
  <2> QED BY <2>1, <2>2
<1>6. CASE MarkModifying(c) \/ StoreValue(c)
  BY <1>6 DEF MarkModifying, StoreValue, Committing
<1>7. CASE StoreVersion(c)
  <2>1. UNCHANGED <<prog, txns, bound, read_set, seen, held, last_commit_tid_>>
    BY <1>7 DEF StoreVersion, Committing
  <2>2. pc'[d] = pc[d] /\ done'[d] = done[d]
    BY <1>7 DEF StoreVersion
  <2> QED BY <2>1, <2>2
<1>8. CASE Unlock(c)
  BY <1>8 DEF Unlock, Committing
<1>9. CASE End(c)
  BY <1>9 DEF End
<1> QED BY <1>1, <1>2, <1>3, <1>4, <1>5, <1>6, <1>7, <1>8, <1>9 DEF CoreStep

\* The steps that touch no record.
Inert(c) ==
  \/ Begin(c) \/ TakeSnapshot(c)
  \/ ReadHeader(c) \/ ReadVersion(c) \/ ReadValue(c) \/ ReadNext(c)
  \/ ReadCheck(c) \/ gen_commit_tid(c)
  \/ CheckOwn(c) \/ LoadHeader(c) \/ CheckLatest(c) \/ Validated(c) \/ End(c)

LEMMA InertSteps ==
  ASSUME NEW c \in Cores, Inert(c)
  PROVE  UNCHANGED <<hdr, version, value, next, installed, ticker>>
<1>1. CASE \/ Begin(c) \/ TakeSnapshot(c)
           \/ ReadHeader(c) \/ ReadVersion(c) \/ ReadValue(c) \/ ReadNext(c)
           \/ ReadCheck(c)
  BY <1>1 DEF Begin, TakeSnapshot, ReadHeader, ReadVersion, ReadValue, ReadNext,
              ReadCheck, Loading, records, history
<1>2. CASE gen_commit_tid(c) \/ CheckOwn(c) \/ LoadHeader(c) \/ CheckLatest(c)
           \/ Validated(c) \/ End(c)
  BY <1>2 DEF gen_commit_tid, CheckOwn, LoadHeader, CheckLatest, Validated, End,
              Committing, records, history
<1> QED BY <1>1, <1>2 DEF Inert

\* A core that writes holds the lock of what it writes, and nobody else does.
LEMMA WritesWhatItHolds ==
  ASSUME CommitInv, NEW c \in Cores, pc[c] \in Modifying
  PROVE  /\ Writing(c) \in Writes(c) /\ Writing(c) \in held[c]
         /\ Writing(c) \in Tuples /\ hdr[Writing(c)].locked
         /\ \A d \in Cores : d # c => Writing(c) \notin held[d]
<1>1. done[c] \in Nat /\ done[c] < Len(prog[c].writes) /\ prog[c].writes \in Seq(Tuples)
  BY DEF CommitInv, CoreOK, PlaceOK, TypesOK, LockInv, StateOK, AllPrograms
<1>2. Writing(c) \in Writes(c) /\ Writing(c) \in Tuples
  BY <1>1 DEF Writing, Writes, ToSet
<1>3. Writing(c) \in held[c]
  BY <1>2 DEF CommitInv, LockInv, HoldsItsLocks, HoldsAt, Full, Modifying
<1>4. hdr[Writing(c)].locked
  BY <1>2, <1>3 DEF CommitInv, LockInv, LockedIffHeld
<1>5. \A d \in Cores : d # c => Writing(c) \notin held[d]
  BY <1>3 DEF CommitInv, LockInv, Exclusive
<1> QED BY <1>2, <1>3, <1>4, <1>5

\* What happens to a record when core c makes a step: its versions grow, a reader
\* can tell from the header, and who holds the lock is not disturbed.
RecordStep(c, t) ==
  /\ hdr[t].count <= hdr'[t].count
  /\ ~hdr'[t].modifying /\ hdr'[t].count = hdr[t].count =>
       ~hdr[t].modifying /\ version'[t] = version[t] /\ value'[t] = value[t]
  /\ version[t] <= version'[t]
  /\ version'[t] = version[t] => LastWriter(t)' = LastWriter(t)
  /\ ToSet(installed[t]) \subseteq ToSet(installed'[t])
  /\ \A d \in Cores : d # c /\ t \in held[d] =>
       /\ hdr'[t] = hdr[t] /\ version'[t] = version[t]
       /\ value'[t] = value[t] /\ installed'[t] = installed[t]

LEMMA SameRecord ==
  ASSUME TypesOK, LockInv, NEW c \in Cores, NEW t \in Tuples,
         hdr'[t] = hdr[t],
         version'[t] = version[t], value'[t] = value[t], installed'[t] = installed[t]
  PROVE  RecordStep(c, t)
<1>1. hdr[t].count \in Nat /\ version[t] \in Nat
  BY DEF TypesOK, Headers, LockInv, StateOK
<1>2. LastWriter(t)' = LastWriter(t)
  BY DEF LastWriter
<1> QED BY <1>1, <1>2 DEF RecordStep

\* A step of core c on the header of record t, whose lock no other core holds.
LEMMA HeaderStep ==
  ASSUME LockInv, TypesOK, NEW c \in Cores, NEW t \in Tuples, NEW h \in Headers,
         hdr' = [hdr EXCEPT ![t] = h], UNCHANGED <<version, value, installed>>,
         \A d \in Cores : d # c => t \notin held[d],
         hdr[t].count <= h.count,
         ~h.modifying /\ h.count = hdr[t].count => ~hdr[t].modifying
  PROVE  \A u \in Tuples : RecordStep(c, u)
<1>1. hdr \in [Tuples -> Headers]
  BY DEF LockInv, StateOK
<1>2. ASSUME NEW u \in Tuples, u # t
      PROVE  RecordStep(c, u)
  <2>1. hdr'[u] = hdr[u]
    BY <1>1, <1>2
  <2> QED BY <2>1, SameRecord
<1>3. RecordStep(c, t)
  <2>1. hdr'[t] = h
    BY <1>1
  <2>2. version[t] \in Nat
    BY DEF TypesOK
  <2>3. LastWriter(t)' = LastWriter(t)
    BY DEF LastWriter
  <2> QED BY <2>1, <2>2, <2>3 DEF RecordStep
<1> QED BY <1>2, <1>3

LEMMA UnlockedHeader ==
  ASSUME NEW h \in Headers
  PROVE  /\ Unlocked(h) \in Headers /\ ~Unlocked(h).locked /\ ~Unlocked(h).intent
         /\ ~Unlocked(h).modifying /\ h.count <= Unlocked(h).count
         /\ (h.modifying \/ h.intent => h.count < Unlocked(h).count)
<1> DEFINE n == IF h.modifying \/ h.intent THEN h.count + 1 ELSE h.count
<1>1. n \in Nat /\ h.count <= n /\ (h.modifying \/ h.intent => h.count < n)
  BY DEF Headers
<1> HIDE DEF n
<1>2. Unlocked(h) = [Idle EXCEPT !.count = n]
  BY DEF Unlocked, n
<1>3. Idle \in Headers /\ ~Idle.locked /\ ~Idle.intent /\ ~Idle.modifying
  BY DEF Idle, Headers
<1>4. \A i \in Headers : LET j == [i EXCEPT !.count = n]
                         IN  /\ j \in Headers /\ j.count = n /\ j.locked = i.locked
                             /\ j.intent = i.intent /\ j.modifying = i.modifying
  BY <1>1 DEF Headers
<1> QED BY <1>1, <1>2, <1>3, <1>4

\* What a commit locks is a record that no core holds.
LEMMA LocksTheLeast ==
  ASSUME LockInv, NEW c \in Cores, Lock(c)
  PROVE  /\ NextLock(c) \in Writes(c) /\ NextLock(c) \in Tuples
         /\ \A d \in Cores : NextLock(c) \notin held[d]
<1>1. /\ Writes(c) \subseteq Tuples /\ held[c] \subseteq Writes(c)
      /\ held[c] # Writes(c)
  BY WritesAreTuples DEF LockInv, StateOK, HoldsItsLocks, HoldsAt, Lock
<1>2. NextLock(c) \in Writes(c) \ held[c]
  BY <1>1, NextLockIsLeast
<1>3. ~hdr[NextLock(c)].locked
  BY DEF Lock
<1> QED BY <1>1, <1>2, <1>3 DEF LockInv, LockedIffHeld

\* What is unlocked next.
Least(S) == CHOOSE u \in S : \A o \in S : u <= o

LEMMA UnlocksTheLeast ==
  ASSUME LockInv, NEW c \in Cores, Unlock(c)
  PROVE  /\ Least(held[c]) \in held[c] /\ Least(held[c]) \in Tuples
         /\ hdr' = [hdr EXCEPT ![Least(held[c])] = Unlocked(@)]
         /\ held' = [held EXCEPT ![c] = @ \ {Least(held[c])}]
         /\ \A d \in Cores : d # c => Least(held[c]) \notin held[d]
<1>1. held[c] \subseteq Tuples /\ held[c] # {}
  BY DEF LockInv, StateOK, HoldsItsLocks, HoldsAt, Unlock
<1>2. \E u \in held[c] : \A o \in held[c] : u <= o
  BY <1>1, SiloAssumption, LeastExists
<1>3. Least(held[c]) \in held[c]
  BY <1>2 DEF Least
<1>4. \A d \in Cores : d # c => Least(held[c]) \notin held[d]
  BY <1>3 DEF LockInv, Exclusive
<1> QED BY <1>1, <1>3, <1>4 DEF Unlock, Least

Marked(h) == [h EXCEPT !.modifying = TRUE]

LEMMA LockedHeader ==
  ASSUME NEW h \in Headers
  PROVE  /\ Locked(h) \in Headers /\ Locked(h).locked /\ Locked(h).intent
         /\ Locked(h).modifying = h.modifying /\ Locked(h).count = h.count
         /\ h.count <= Locked(h).count
<1>1. /\ Locked(h) \in Headers /\ Locked(h).locked /\ Locked(h).intent
      /\ Locked(h).modifying = h.modifying /\ Locked(h).count = h.count
  BY DEF Locked, Headers
<1>2. h.count \in Nat
  BY DEF Headers
<1> QED BY <1>1, <1>2

LEMMA MarkedHeader ==
  ASSUME NEW h \in Headers
  PROVE  /\ Marked(h) \in Headers /\ Marked(h).modifying
         /\ Marked(h).locked = h.locked /\ Marked(h).intent = h.intent
         /\ Marked(h).count = h.count /\ h.count <= Marked(h).count
<1>1. /\ Marked(h) \in Headers /\ Marked(h).modifying
      /\ Marked(h).locked = h.locked /\ Marked(h).intent = h.intent
      /\ Marked(h).count = h.count
  BY DEF Marked, Headers
<1>2. h.count \in Nat
  BY DEF Headers
<1> QED BY <1>1, <1>2

LEMMA HeaderTypes ==
  ASSUME CommitInv, NEW t \in Tuples
  PROVE  /\ hdr \in [Tuples -> Headers] /\ hdr[t] \in Headers /\ hdr[t].count \in Nat
         /\ version \in [Tuples -> Nat] /\ version[t] \in Nat
         /\ value \in [Tuples -> Txns \cup {Loader}]
         /\ installed \in [Tuples -> Seq(Txns)]
         /\ hdr[t].intent = hdr[t].locked
  BY DEF CommitInv, TupleOK, HeaderOK, TypesOK, LockInv, StateOK, Headers

LEMMA LockStep ==
  ASSUME CommitInv, NEW c \in Cores, Lock(c)
  PROVE  \A u \in Tuples : RecordStep(c, u)
<1>1. PICK t \in Tuples : t = NextLock(c) /\ \A d \in Cores : t \notin held[d]
  BY LocksTheLeast DEF CommitInv
<1>3. hdr[t] \in Headers /\ hdr[t].count \in Nat
  BY <1>1, HeaderTypes
<1>4. PICK h \in Headers : h = Locked(hdr[t]) /\ hdr[t].count <= h.count
                            /\ h.modifying = hdr[t].modifying
  BY <1>3, LockedHeader
<1>2. hdr' = [hdr EXCEPT ![t] = h] /\ UNCHANGED <<version, value, installed>>
  BY <1>1, <1>4 DEF Lock, history
<1> QED BY <1>1, <1>2, <1>4, HeaderStep DEF CommitInv

LEMMA MarkStep ==
  ASSUME CommitInv, NEW c \in Cores, MarkModifying(c)
  PROVE  \A u \in Tuples : RecordStep(c, u)
<1>1. PICK t \in Tuples : t = Writing(c) /\ \A d \in Cores : d # c => t \notin held[d]
  BY WritesWhatItHolds DEF MarkModifying, Modifying
<1>3. hdr[t] \in Headers /\ hdr[t].count \in Nat
  BY <1>1, HeaderTypes
<1>4. PICK h \in Headers : h = Marked(hdr[t])
                            /\ hdr[t].count <= h.count /\ h.modifying
  BY <1>3, MarkedHeader
<1>2. hdr' = [hdr EXCEPT ![t] = h] /\ UNCHANGED <<version, value, installed>>
  BY <1>1, <1>4 DEF MarkModifying, Marked, history
<1> QED BY <1>1, <1>2, <1>4, HeaderStep DEF CommitInv

LEMMA UnlockStep ==
  ASSUME CommitInv, NEW c \in Cores, Unlock(c)
  PROVE  \A u \in Tuples : RecordStep(c, u)
<1>1. PICK t \in Tuples : /\ t \in held[c] /\ hdr' = [hdr EXCEPT ![t] = Unlocked(@)]
                           /\ \A d \in Cores : d # c => t \notin held[d]
  BY UnlocksTheLeast DEF CommitInv
<1>2. UNCHANGED <<version, value, installed>>
  BY DEF Unlock, history
<1>3. hdr[t] \in Headers /\ hdr[t].count \in Nat /\ hdr[t].intent
  BY <1>1, HeaderTypes DEF CommitInv, LockInv, LockedIffHeld
<1>4. PICK h \in Headers : h = Unlocked(hdr[t]) /\ hdr[t].count < h.count /\ h.count \in Nat
  BY <1>3, UnlockedHeader DEF Headers
<1>5. hdr[t].count <= h.count /\ h.count # hdr[t].count
  BY <1>3, <1>4
<1> QED BY <1>1, <1>2, <1>4, <1>5, HeaderStep DEF CommitInv

LEMMA ValueStep ==
  ASSUME CommitInv, NEW c \in Cores, StoreValue(c)
  PROVE  \A u \in Tuples : RecordStep(c, u)
<1>1. PICK t \in Tuples : t = Writing(c) /\ \A d \in Cores : d # c => t \notin held[d]
  BY WritesWhatItHolds DEF StoreValue, Modifying
<1>2. value' = [value EXCEPT ![t] = Txn(c)] /\ UNCHANGED <<hdr, version, installed>>
  BY <1>1 DEF StoreValue, history
<1>3. hdr[t].modifying
  BY <1>1 DEF CommitInv, CoreOK, WriteOK, StoreValue
<1>4. ASSUME NEW u \in Tuples, u # t
      PROVE  RecordStep(c, u)
  <2>1. value'[u] = value[u]
    BY <1>2, <1>4, HeaderTypes
  <2> QED BY <1>2, <2>1, SameRecord DEF CommitInv
<1>5. RecordStep(c, t)
  <2>1. hdr[t].count \in Nat /\ version[t] \in Nat
    BY <1>1, HeaderTypes
  <2>2. LastWriter(t)' = LastWriter(t)
    BY <1>2 DEF LastWriter
  <2> QED BY <1>1, <1>2, <1>3, <2>1, <2>2 DEF RecordStep
<1> QED BY <1>4, <1>5

\* The record that a transaction writes gets its tid, and it as the last writer.
LEMMA VersionEffect ==
  ASSUME CommitInv, NEW c \in Cores, StoreVersion(c)
  PROVE  \E t \in Tuples :
             /\ t = Writing(c) /\ t \in Writes(c) /\ t \in held[c]
             /\ \A d \in Cores : d # c => t \notin held[d]
             /\ version'[t] = Tid(c) /\ LastWriter(t)' = Txn(c)
             /\ installed'[t] = Append(installed[t], Txn(c))
             /\ Txn(c) \in Txns /\ installed[t] \in Seq(Txns)
             /\ \A u \in Tuples : u # t => /\ version'[u] = version[u]
                                           /\ installed'[u] = installed[u]
             /\ \/ version[t] < Tid(c)
                \/ version[t] = Tid(c) /\ LastWriter(t) = Txn(c)
             /\ UNCHANGED <<hdr, value>> /\ hdr[t].modifying /\ value[t] = Txn(c)
<1>0. pc[c] = "writetid"
  BY DEF StoreVersion
<1>1. PICK t \in Tuples :
        /\ t = Writing(c) /\ t \in Writes(c) /\ t \in held[c]
        /\ \A d \in Cores : d # c => t \notin held[d]
  BY <1>0, WritesWhatItHolds DEF Modifying
<1>2. /\ version' = [version EXCEPT ![t] = Tid(c)]
      /\ installed' = [installed EXCEPT ![t] = Append(@, Txn(c))]
      /\ UNCHANGED <<hdr, value>>
  BY <1>1 DEF StoreVersion
<1>3. hdr[t].modifying /\ value[t] = Txn(c)
  BY <1>0, <1>1 DEF CommitInv, CoreOK, WriteOK
<1>4. \/ version[t] < Tid(c)
      \/ version[t] = Tid(c) /\ LastWriter(t) = Txn(c)
  BY <1>0, <1>1 DEF CommitInv, CoreOK, NewerOK, Past, Modifying
<1>5. Txn(c) \in Txns /\ installed[t] \in Seq(Txns)
  BY <1>1 DEF CommitInv, TypesOK, Txn, Txns
<1>6. /\ version'[t] = Tid(c) /\ installed'[t] = Append(installed[t], Txn(c))
      /\ \A u \in Tuples : u # t => /\ version'[u] = version[u]
                                    /\ installed'[u] = installed[u]
  BY <1>1, <1>2, HeaderTypes
<1>7. LastWriter(t)' = Txn(c)
  BY <1>5, <1>6 DEF LastWriter, Last
<1> QED BY <1>1, <1>2, <1>3, <1>4, <1>5, <1>6, <1>7

LEMMA VersionStep ==
  ASSUME CommitInv, NEW c \in Cores, StoreVersion(c)
  PROVE  \A u \in Tuples : RecordStep(c, u)
<1>1. PICK t \in Tuples :
      /\ \A d \in Cores : d # c => t \notin held[d]
      /\ version'[t] = Tid(c) /\ LastWriter(t)' = Txn(c)
      /\ installed'[t] = Append(installed[t], Txn(c))
      /\ Txn(c) \in Txns /\ installed[t] \in Seq(Txns)
      /\ \A u \in Tuples : u # t => /\ version'[u] = version[u]
                                    /\ installed'[u] = installed[u]
      /\ \/ version[t] < Tid(c)
         \/ version[t] = Tid(c) /\ LastWriter(t) = Txn(c)
      /\ UNCHANGED <<hdr, value>> /\ hdr[t].modifying
  BY VersionEffect
<1>2. ASSUME NEW u \in Tuples, u # t
      PROVE  RecordStep(c, u)
  BY <1>1, <1>2, SameRecord DEF CommitInv
<1>3. RecordStep(c, t)
  <2>1. hdr[t].count \in Nat /\ version[t] \in Nat /\ Tid(c) \in Nat
    BY <1>1, HeaderTypes DEF CommitInv, TypesOK, Tid
  <2>2. ToSet(installed[t]) \subseteq ToSet(installed'[t])
    BY <1>1 DEF ToSet
  <2>3. version[t] <= version'[t] /\ (version'[t] = version[t] => LastWriter(t)' = LastWriter(t))
    BY <1>1, <2>1
  <2> QED BY <1>1, <2>1, <2>2, <2>3 DEF RecordStep
<1> QED BY <1>2, <1>3

LEMMA RecordSteps ==
  ASSUME CommitInv, NEW c \in Cores, CoreStep(c)
  PROVE  \A t \in Tuples : RecordStep(c, t)
<1>1. CASE Inert(c)
  BY <1>1, InertSteps, SameRecord DEF CommitInv
<1> QED BY <1>1, LockStep, MarkStep, UnlockStep, ValueStep, VersionStep
        DEF CoreStep, Inert

-----------------------------------------------------------------------------
(* The cores that do not move.                                             *)

\* The reads of a transaction stay what they were through the steps of others,
\* and its own.
LEMMA ReadsKept ==
  ASSUME CommitInv, NEW c \in Cores, \A t \in Tuples : RecordStep(c, t),
         NEW d \in Cores, prog'[d].snapshot = prog[d].snapshot,
         read_set'[d] = read_set[d], TypesOK'
  PROVE  ReadOK(d)'
<1> SUFFICES ASSUME ~prog[d].snapshot, NEW k \in DOMAIN read_set[d]
             PROVE  LET r == read_set[d][k]
                    IN  /\ r.tid <= version'[r.tuple]
                        /\ r.tid = version'[r.tuple] => r.value = LastWriter(r.tuple)'
                        /\ r.value = Loader \/ r.value \in ToSet(installed'[r.tuple])
  BY DEF ReadOK
<1>1. read_set[d][k] \in ReadRecords
  BY DEF CommitInv, CoreOK, PlaceOK
<1>2. PICK r \in ReadRecords : r = read_set[d][k]
  BY <1>1
<1>3. PICK t \in Tuples : t = r.tuple
  BY DEF ReadRecords
<1>4. /\ r.tid <= version[t] /\ (r.tid = version[t] => r.value = LastWriter(t))
      /\ r.value = Loader \/ r.value \in ToSet(installed[t])
  BY <1>2, <1>3 DEF CommitInv, CoreOK, ReadOK
<1>5. /\ version[t] <= version'[t]
      /\ version'[t] = version[t] => LastWriter(t)' = LastWriter(t)
      /\ ToSet(installed[t]) \subseteq ToSet(installed'[t])
  BY DEF RecordStep
<1>6. r.tid \in Nat /\ version[t] \in Nat /\ version'[t] \in Nat
  BY DEF ReadRecords, CommitInv, TypesOK
<1>7. r.tid <= version'[t] /\ (r.tid = version'[t] => version'[t] = version[t] /\ r.tid = version[t])
  BY <1>4, <1>5, <1>6
<1>8. r.tid = version'[t] => r.value = LastWriter(t)'
  BY <1>4, <1>5, <1>7
<1>9. r.value = Loader \/ r.value \in ToSet(installed'[t])
  BY <1>4, <1>5
<1> QED BY <1>2, <1>3, <1>7, <1>8, <1>9

\* What a reader reads next.
LEMMA ReadsATuple ==
  ASSUME CommitInv, NEW d \in Cores, ~prog[d].snapshot, pc[d] \in {"read"} \cup Loads
  PROVE  Reading(d) \in Tuples /\ read_set[d] \in Seq(ReadRecords)
<1>1. /\ read_set[d] \in Seq(ReadRecords)
      /\ Len(read_set[d]) < Len(prog[d].reads) /\ prog[d].reads \in Seq(Tuples)
  BY DEF CommitInv, CoreOK, PlaceOK, LockInv, StateOK, AllPrograms
<1>2. Len(read_set[d]) \in Nat
  BY <1>1
<1> QED BY <1>1, <1>2 DEF Reading

LEMMA SeenKept ==
  ASSUME CommitInv, NEW c \in Cores, \A t \in Tuples : RecordStep(c, t),
         NEW d \in Cores, pc'[d] = pc[d], prog'[d] = prog[d],
         read_set'[d] = read_set[d], seen'[d] = seen[d], hdr' \in [Tuples -> Headers]
  PROVE  SeenOK(d)'
<1> SUFFICES ASSUME ~prog[d].snapshot, pc[d] \in Loads
             PROVE  SeenOK(d)'
  BY DEF SeenOK
<1>1. PICK t \in Tuples : t = Reading(d)
  BY ReadsATuple
<1>2. Reading(d)' = t
  BY <1>1 DEF Reading
<1>3. seen[d] \in SeenRecords /\ hdr[t].count \in Nat /\ hdr'[t].count \in Nat
  BY HeaderTypes DEF CommitInv, CoreOK, PlaceOK, Headers
<1>4. PICK n \in Nat : n = seen[d].hdr.count
  BY <1>3 DEF SeenRecords, Headers
<1>5. /\ ~seen[d].hdr.modifying /\ n <= hdr[t].count
      /\ ~hdr[t].modifying /\ hdr[t].count = n =>
           /\ pc[d] # "readtid" => seen[d].tid = version[t]
           /\ pc[d] = "readcheck" => seen[d].value = value[t]
  BY <1>1, <1>4 DEF CommitInv, CoreOK, SeenOK
<1>6. /\ hdr[t].count <= hdr'[t].count
      /\ ~hdr'[t].modifying /\ hdr'[t].count = hdr[t].count =>
           ~hdr[t].modifying /\ version'[t] = version[t] /\ value'[t] = value[t]
  BY DEF RecordStep
<1>7. n <= hdr'[t].count
  BY <1>3, <1>5, <1>6
<1>8. ASSUME ~hdr'[t].modifying, hdr'[t].count = n
      PROVE  /\ pc[d] # "readtid" => seen[d].tid = version'[t]
             /\ pc[d] = "readcheck" => seen[d].value = value'[t]
  <2>1. hdr[t].count = n /\ hdr'[t].count = hdr[t].count
    BY <1>3, <1>5, <1>6, <1>8
  <2> QED BY <1>5, <1>6, <1>8, <2>1
<1> QED BY <1>2, <1>4, <1>5, <1>7, <1>8 DEF SeenOK

LEMMA PastHolds ==
  ASSUME CommitInv, NEW d \in Cores, Past(d)
  PROVE  held[d] = Writes(d) /\ Writes(d) \subseteq Tuples
         /\ ~prog[d].snapshot /\ pc[d] \notin Free
<1>1. held[d] = Writes(d) /\ pc[d] \notin Free
  BY DEF CommitInv, LockInv, HoldsItsLocks, HoldsAt, Past, Full, Checks, Modifying, Free
<1>2. Writes(d) \subseteq Tuples
  BY WritesAreTuples DEF CommitInv, LockInv, StateOK
<1>3. ~prog[d].snapshot
  BY <1>1 DEF CommitInv, CoreOK, PlaceOK
<1> QED BY <1>1, <1>2, <1>3

LEMMA OthersKept ==
  ASSUME CommitInv, TypesOK', hdr' \in [Tuples -> Headers],
         NEW c \in Cores, CoreStep(c), NEW d \in Cores, d # c
  PROVE  CoreOK(d)'
<1>1. Still(d)
  BY StepsAreLocal DEF CommitInv
<1>2. \A t \in Tuples : RecordStep(c, t)
  BY RecordSteps
<1>3. PlaceOK(d)'
  <2>1. PlaceOK(d)
    BY DEF CommitInv, CoreOK
  <2> QED BY <1>1, <2>1 DEF PlaceOK, Still
<1>4. WriteOK(d)'
  <2> SUFFICES ASSUME pc[d] \in {"writevalue", "writetid"}
               PROVE  WriteOK(d)'
    BY <1>1 DEF WriteOK, Still
  <2>1. PICK t \in Tuples : t = Writing(d) /\ t \in held[d]
    BY WritesWhatItHolds DEF Modifying
  <2>2. Writing(d)' = t /\ Txn(d)' = Txn(d)
    BY <1>1, <2>1 DEF Writing, Txn, Still
  <2>3. hdr'[t] = hdr[t] /\ value'[t] = value[t]
    BY <1>2, <2>1 DEF RecordStep
  <2>4. hdr[t].modifying /\ (pc[d] = "writetid" => value[t] = Txn(d))
    BY <2>1 DEF CommitInv, CoreOK, WriteOK
  <2> QED BY <1>1, <2>2, <2>3, <2>4 DEF WriteOK, Still
<1>5. SeenOK(d)'
  BY <1>1, <1>2, SeenKept DEF Still
<1>6. ReadOK(d)'
  BY <1>1, <1>2, ReadsKept DEF Still
<1>7. NewerOK(d)'
  <2> SUFFICES ASSUME Past(d), NEW t \in Writes(d)
               PROVE  \/ version'[t] < last_commit_tid_'[d]
                      \/ version'[t] = last_commit_tid_'[d] /\ LastWriter(t)' = Txn(d)'
    BY <1>1 DEF NewerOK, Past, Writes, Still, Tid
  <2>1. t \in held[d] /\ t \in Tuples
    BY PastHolds
  <2>2. version'[t] = version[t] /\ installed'[t] = installed[t]
    BY <1>2, <2>1 DEF RecordStep
  <2>3. LastWriter(t)' = LastWriter(t) /\ Txn(d)' = Txn(d) /\ last_commit_tid_'[d] = Tid(d)
    BY <1>1, <2>2 DEF LastWriter, Txn, Still, Tid
  <2>4. \/ version[t] < Tid(d)
        \/ version[t] = Tid(d) /\ LastWriter(t) = Txn(d)
    BY DEF CommitInv, CoreOK, NewerOK
  <2> QED BY <2>2, <2>3, <2>4
<1> QED BY <1>3, <1>4, <1>5, <1>6, <1>7 DEF CoreOK

-----------------------------------------------------------------------------
(* New tids.                                                               *)

LEMMA MaxOf ==
  ASSUME NEW S \in SUBSET Nat, S # {}, NEW B \in Nat, \A x \in S : x <= B
  PROVE  Max(S) \in S /\ \A y \in S : y <= Max(S)
<1> DEFINE U == {m \in Nat : \A s \in S : s <= m}
<1>1. U \in SUBSET Nat /\ U # {}
  <2>1. B \in U
    OBVIOUS
  <2> QED BY <2>1
<1>2. PICK m \in U : \A n \in U : m <= n
  <2> HIDE DEF U
  <2> QED BY <1>1, LeastExists
<1>3. m \in S
  <2> SUFFICES ASSUME m \notin S
               PROVE  FALSE
    OBVIOUS
  <2>1. m \in Nat /\ \A s \in S : s \in Nat /\ s < m
    BY <1>2
  <2>4. PICK y \in S : TRUE
    OBVIOUS
  <2>5. y \in Nat /\ y < m
    BY <2>1
  <2>6. m - 1 \in Nat
    BY <2>1, <2>5
  <2>7. \A s \in S : s <= m - 1
    BY <2>1
  <2>2. m - 1 \in Nat /\ \A s \in S : s <= m - 1
    BY <2>6, <2>7
  <2>3. m - 1 \in U
    BY <2>2
  <2> QED BY <1>2, <2>1, <2>3
<1>4. \A y \in S : m >= y
  BY <1>2
<1>5. Max(S) \in S /\ \A y \in S : Max(S) >= y
  BY <1>3, <1>4 DEF Max
<1> QED BY <1>5

\* What a new tid must exceed is of no later epoch than the current one, and no
\* older than the versions that will be overwritten.
LEMMA NewestBounds ==
  ASSUME CommitInv, NEW c \in Cores, pc[c] = "tid"
  PROVE  /\ Newest(c) \in Nat /\ EpochId(Newest(c)) <= current_tick_
         /\ \A t \in Writes(c) : version[t] <= Newest(c)
         /\ \/ Newest(c) = Tid(c) \/ Newest(c) = MakeTid(0, 0, current_tick_)
            \/ \E k \in DOMAIN read_set[c] : Newest(c) = read_set[c][k].tid
            \/ \E t \in Writes(c) : Newest(c) = version[t]
<1> DEFINE own == IF EpochId(Tid(c)) = current_tick_ THEN Tid(c)
                  ELSE MakeTid(0, 0, current_tick_)
           S == {own} \cup {r.tid : r \in ToSet(read_set[c])}
                  \cup {version[t] : t \in Writes(c)}
           B == (CoreIds * NumIds) * (current_tick_ + 1)
<1>0. /\ TypesOK /\ EpochsOK /\ PlaceOK(c) /\ ReadOK(c) /\ current_tick_ \in Nat
      /\ CoreIds \in Nat \ {0} /\ NumIds \in Nat \ {0}
  BY SiloAssumption DEF CommitInv, CoreOK, TypesOK
<1>1. B \in Nat
  <2>1. CoreIds * NumIds \in Nat
    BY <1>0, Z3
  <2> DEFINE m == CoreIds * NumIds
  <2> HIDE DEF m
  <2>2. m \in Nat => m * (current_tick_ + 1) \in Nat
    BY <1>0, Z3
  <2> QED BY <2>1, <2>2 DEF m
<1>2. ~prog[c].snapshot
  BY <1>0 DEF PlaceOK, Free
<1>3. \A t \in Tuples : version[t] \in Nat /\ version[t] < B
  BY <1>0, EpochBound DEF EpochsOK, TypesOK
<1>4. own \in Nat /\ own < B
  <2>1. CASE EpochId(Tid(c)) = current_tick_
    <3>1. Tid(c) \in Nat
      BY <1>0 DEF TypesOK, Tid
    <3> QED BY <1>0, <2>1, <3>1, EpochBound
  <2>2. CASE EpochId(Tid(c)) # current_tick_
    <3>1. MakeTid(0, 0, current_tick_) \in Nat /\ EpochId(MakeTid(0, 0, current_tick_)) <= current_tick_
      <4>1. 0 \in 0 .. CoreIds - 1 /\ 0 < NumIds
        BY <1>0
      <4> QED BY <1>0, <4>1, TidOfEpoch
    <3> QED BY <1>0, <2>2, <3>1, EpochBound
  <2> QED BY <2>1, <2>2
<1>5. \A r \in ToSet(read_set[c]) : r.tid \in Nat /\ r.tid < B
  <2> SUFFICES ASSUME NEW k \in DOMAIN read_set[c]
               PROVE  read_set[c][k].tid \in Nat /\ read_set[c][k].tid < B
    BY DEF ToSet
  <2>1. PICK r \in ReadRecords : r = read_set[c][k]
    BY <1>0, <1>2 DEF PlaceOK
  <2>2. r.tuple \in Tuples /\ r.tid \in Nat
    BY DEF ReadRecords
  <2>3. r.tid <= version[r.tuple]
    BY <1>0, <1>2, <2>1 DEF ReadOK
  <2>4. version[r.tuple] \in Nat /\ version[r.tuple] < B
    BY <1>3, <2>2
  <2> HIDE DEF B
  <2> QED BY <1>1, <2>1, <2>2, <2>3, <2>4
<1>6. Writes(c) \subseteq Tuples
  BY WritesAreTuples DEF CommitInv, LockInv, StateOK
<1> HIDE DEF own, B
<1>7. S \in SUBSET Nat /\ S # {} /\ \A x \in S : x <= B
  <2>1. \A x \in S : x \in Nat /\ x < B
    BY <1>3, <1>4, <1>5, <1>6
  <2>2. own \in S
    OBVIOUS
  <2> HIDE DEF S
  <2>3. S \in SUBSET Nat
    BY <2>1
  <2>4. \A x \in S : x <= B
    BY <1>1, <2>1
  <2> QED BY <2>2, <2>3, <2>4
<1>8. Newest(c) = Max(S)
  BY DEF Newest, own
<1>9. \A t \in Writes(c) : version[t] \in S
  OBVIOUS
<1> HIDE DEF S
<1>10. Max(S) \in S /\ \A y \in S : y <= Max(S)
  BY <1>1, <1>7, MaxOf
<1>11. Max(S) \in Nat /\ Max(S) < B
  <2>1. \A x \in S : x \in Nat /\ x < B
    BY <1>3, <1>4, <1>5, <1>6 DEF S
  <2> QED BY <1>10, <2>1
<1>12. EpochId(Max(S)) <= current_tick_
  BY <1>0, <1>11, EpochBound DEF B
<1>13. \A x \in S : \/ x = Tid(c) \/ x = MakeTid(0, 0, current_tick_)
                    \/ \E k \in DOMAIN read_set[c] : x = read_set[c][k].tid
                    \/ \E t \in Writes(c) : x = version[t]
  BY DEF S, own, ToSet
<1> QED BY <1>8, <1>9, <1>10, <1>11, <1>12, <1>13

\* The tid that a commit generates.
LEMMA NewTid ==
  ASSUME CommitInv, TidsFit, NEW c \in Cores, gen_commit_tid(c)
  PROVE  \E x \in Nat :
           /\ last_commit_tid_' = [last_commit_tid_ EXCEPT ![c] = x]
           /\ EpochId(x) <= current_tick_
           /\ \A t \in Writes(c) : version[t] < x
<1>1. pc[c] = "tid" /\ last_commit_tid_' = [last_commit_tid_ EXCEPT ![c] =
                          MakeTid(c, NumId(Newest(c)) + 1, current_tick_)]
  BY DEF gen_commit_tid
<1>2. PICK n \in Nat : n = Newest(c) /\ EpochId(n) <= current_tick_
                       /\ \A t \in Writes(c) : version[t] <= n
  BY <1>1, NewestBounds
<1>3. NumId(n) + 1 < NumIds /\ NumId(n) + 1 \in Nat
  <2>1. NumId(n) \in 0 .. NumIds - 1
    BY Fields
  <2>2. NumIds \in Nat
    BY SiloAssumption
  <2>3. NumId(n) + 1 < NumIds
    BY <1>1, <1>2 DEF TidsFit
  <2>4. NumId(n) \in Nat
    BY <2>1, <2>2
  <2> QED BY <2>3, <2>4
<1>4. current_tick_ \in Nat /\ c \in 0 .. CoreIds - 1
  BY SiloAssumption DEF CommitInv, TypesOK
<1> DEFINE x == MakeTid(c, NumId(n) + 1, current_tick_)
<1>5. x \in Nat /\ EpochId(x) <= current_tick_
  BY <1>3, <1>4, TidOfEpoch
<1>6. n < x
  BY <1>2, <1>4, TidGrows
<1> HIDE DEF x
<1>7. \A t \in Writes(c) : version[t] < x
  <2>1. Writes(c) \subseteq Tuples
    BY WritesAreTuples DEF CommitInv, LockInv, StateOK
  <2>2. \A t \in Writes(c) : version[t] \in Nat
    BY <2>1 DEF CommitInv, TypesOK
  <2> QED BY <1>2, <1>5, <1>6, <2>2
<1> QED BY <1>1, <1>2, <1>5, <1>7 DEF x

-----------------------------------------------------------------------------
(* The state as a whole. *)

\* The steps that change each part of the state.
LEMMA Frame ==
  ASSUME NEW c \in Cores, CoreStep(c)
  PROVE  /\ UNCHANGED ticker
         /\ StoreVersion(c) \/ UNCHANGED <<version, installed>>
         /\ StoreValue(c) \/ UNCHANGED value
         /\ Lock(c) \/ MarkModifying(c) \/ Unlock(c) \/ UNCHANGED hdr
         /\ Begin(c) \/ UNCHANGED txns
         /\ gen_commit_tid(c) \/ UNCHANGED last_commit_tid_
         /\ Validated(c) \/ End(c) \/ UNCHANGED decided
         /\ Begin(c) \/ End(c) \/ UNCHANGED prog
         /\ ReadCheck(c) \/ End(c) \/ UNCHANGED read_set
         /\ Begin(c) \/ TakeSnapshot(c) \/ End(c) \/ UNCHANGED bound
         /\ Lock(c) \/ Unlock(c) \/ UNCHANGED held
         /\ \/ CheckOwn(c) \/ CheckLatest(c) \/ Validated(c) \/ StoreVersion(c) \/ End(c)
            \/ UNCHANGED done
<1>1. CASE Begin(c) \/ TakeSnapshot(c)
  BY <1>1 DEF Begin, TakeSnapshot, records, history
<1>2. CASE ReadHeader(c) \/ ReadVersion(c) \/ ReadValue(c) \/ ReadNext(c) \/ ReadCheck(c)
  <2>1. Loading(c) /\ (ReadCheck(c) \/ UNCHANGED read_set)
    BY <1>2 DEF ReadHeader, ReadVersion, ReadValue, ReadNext, ReadCheck
  <2> QED BY <2>1 DEF Loading, records, local, history
<1>3. CASE Lock(c) \/ gen_commit_tid(c)
  BY <1>3 DEF Lock, gen_commit_tid, Committing, records, local, history
<1>4. CASE CheckOwn(c) \/ LoadHeader(c) \/ CheckLatest(c) \/ Validated(c)
  <2>1. /\ Committing(c) /\ UNCHANGED <<records, held, last_commit_tid_, installed>>
        /\ Validated(c) \/ UNCHANGED decided
        /\ CheckOwn(c) \/ CheckLatest(c) \/ Validated(c) \/ UNCHANGED done
    BY <1>4 DEF CheckOwn, LoadHeader, CheckLatest, Validated, history
  <2> QED BY <2>1 DEF Committing, records, local
<1>5. CASE MarkModifying(c) \/ StoreValue(c)
  BY <1>5 DEF MarkModifying, StoreValue, Committing, local, history
<1>6. CASE StoreVersion(c)
  BY <1>6 DEF StoreVersion, Committing, local
<1>7. CASE Unlock(c)
  BY <1>7 DEF Unlock, Committing, local, history
<1>8. CASE End(c)
  BY <1>8 DEF End, records
<1> QED BY <1>1, <1>2, <1>3, <1>4, <1>5, <1>6, <1>7, <1>8 DEF CoreStep

\* The transaction of core c as a decision.
Decision(c) ==
  [txn |-> Txn(c), tid |-> Tid(c), writes |-> Writes(c), snapshot |-> FALSE,
   reads |-> {<<r.tuple, r.value>> : r \in ToSet(read_set[c])}]

LEMMA ReadsAreTyped ==
  ASSUME CommitInv, NEW c \in Cores, ~prog[c].snapshot, NEW k \in DOMAIN read_set[c]
  PROVE  /\ read_set[c][k] \in ReadRecords /\ read_set[c][k].tuple \in Tuples
         /\ read_set[c][k].tid \in Nat /\ read_set[c][k].value \in Txns \cup {Loader}
<1>1. PICK r \in ReadRecords : r = read_set[c][k]
  BY DEF CommitInv, CoreOK, PlaceOK
<1>2. r.tuple \in Tuples /\ r.tid \in Nat /\ r.value \in Txns \cup {Loader}
  BY DEF ReadRecords
<1> QED BY <1>1, <1>2

LEMMA DecisionIsTyped ==
  ASSUME CommitInv, NEW c \in Cores, Past(c)
  PROVE  Decision(c) \in Decisions /\ Txn(c) \in Txns
<1>1. Txn(c) \in Txns /\ Tid(c) \in Nat
  BY DEF CommitInv, TypesOK, Txn, Txns, Tid
<1>2. Writes(c) \in SUBSET Tuples /\ ~prog[c].snapshot
  BY PastHolds
<1>3. \A k \in DOMAIN read_set[c] :
        <<read_set[c][k].tuple, read_set[c][k].value>> \in Tuples \X (Txns \cup {Loader})
  BY <1>2, ReadsAreTyped
<1> DEFINE R == {<<r.tuple, r.value>> : r \in ToSet(read_set[c])}
<1>4. R \in SUBSET (Tuples \X (Txns \cup {Loader}))
  BY <1>3 DEF ToSet
<1> HIDE DEF R
<1>5. [txn |-> Txn(c), tid |-> Tid(c), writes |-> Writes(c), snapshot |-> FALSE,
       reads |-> R] \in Decisions
  BY <1>1, <1>2, <1>4 DEF Decisions
<1> QED BY <1>1, <1>5 DEF Decision, R

LEMMA SerialStep ==
  ASSUME NEW c \in Cores, CoreStep(c)
  PROVE  \/ Serial' = Serial
         \/ Validated(c) /\ Serial' = Serial \cup {Decision(c)}
<1>1. CASE Validated(c)
  <2>1. decided' = decided \cup {Decision(c)}
    BY <1>1 DEF Validated, Decision
  <2>2. ~Decision(c).snapshot
    BY DEF Decision
  <2> HIDE DEF Decision
  <2> QED BY <1>1, <2>1, <2>2 DEF Serial
<1>2. CASE End(c)
  <2>1. decided' = decided \/ \E s : s.snapshot /\ decided' = decided \cup {s}
    BY <1>2 DEF End
  <2> QED BY <2>1 DEF Serial
<1> QED BY <1>1, <1>2, Frame DEF Serial

LEMMA TypesStep ==
  ASSUME CommitInv, TidsFit, NEW c \in Cores, CoreStep(c)
  PROVE  TypesOK'
<1> USE DEF CommitInv
<1>1. current_tick_' \in 2 .. MaxTick
  BY Frame DEF TypesOK, ticker
<1>2. version' \in [Tuples -> Nat] /\ installed' \in [Tuples -> Seq(Txns)]
  <2>1. CASE UNCHANGED <<version, installed>>
    BY <2>1 DEF TypesOK
  <2>2. CASE StoreVersion(c)
    <3>1. PICK t \in Tuples : t = Writing(c)
      BY <2>2, WritesWhatItHolds DEF StoreVersion, Modifying
    <3>2. Tid(c) \in Nat /\ Txn(c) \in Txns /\ installed[t] \in Seq(Txns)
      BY <3>1 DEF TypesOK, Tid, Txn, Txns
    <3>3. PICK s \in Seq(Txns) : s = Append(installed[t], Txn(c))
      <4>1. \A s \in Seq(Txns), x \in Txns : Append(s, x) \in Seq(Txns)
        OBVIOUS
      <4> QED BY <3>2, <4>1, Zenon
    <3>4. /\ version' = [version EXCEPT ![t] = Tid(c)]
          /\ installed' = [installed EXCEPT ![t] = s]
      BY <2>2, <3>1, <3>3 DEF StoreVersion
    <3> QED BY <3>2, <3>4 DEF TypesOK
  <2> QED BY <2>1, <2>2, Frame
<1>3. value' \in [Tuples -> Txns \cup {Loader}]
  <2>1. CASE StoreValue(c)
    <3>1. value' = [value EXCEPT ![Writing(c)] = Txn(c)] /\ Txn(c) \in Txns
      BY <2>1 DEF StoreValue, TypesOK, Txn, Txns
    <3> QED BY <3>1 DEF TypesOK
  <2> QED BY <2>1, Frame DEF TypesOK
<1>4. txns' \in [Cores -> Nat]
  <2>1. CASE Begin(c)
    <3>1. txns' = [txns EXCEPT ![c] = txns[c] + 1]
      BY <2>1 DEF Begin
    <3> QED BY <3>1 DEF TypesOK
  <2> QED BY <2>1, Frame DEF TypesOK
<1>5. done' \in [Cores -> Nat]
  <2>1. CheckOwn(c) \/ CheckLatest(c) =>
          done' = done \/ done' = [done EXCEPT ![c] = done[c] + 1]
    BY DEF CheckOwn, CheckLatest, Did
  <2>2. Validated(c) \/ StoreVersion(c) \/ End(c) =>
          \/ done' = [done EXCEPT ![c] = 0]
          \/ done' = [done EXCEPT ![c] = done[c] + 1]
    BY DEF Validated, StoreVersion, End, Did
  <2> QED BY <2>1, <2>2, Frame DEF TypesOK
<1>6. last_commit_tid_' \in [Cores -> Nat]
  <2>1. CASE gen_commit_tid(c)
    BY <2>1, NewTid DEF TypesOK
  <2> QED BY <2>1, Frame DEF TypesOK
<1>7. DOMAIN bound' = Cores
  <2>1. Begin(c) \/ TakeSnapshot(c) \/ End(c) => \E b : bound' = [bound EXCEPT ![c] = b]
    BY DEF Begin, TakeSnapshot, End
  <2> QED BY <2>1, Frame DEF TypesOK
<1>8. DOMAIN read_set' = Cores
  <2>1. ReadCheck(c) \/ End(c) =>
          UNCHANGED read_set \/ \E r : read_set' = [read_set EXCEPT ![c] = r]
    BY DEF ReadCheck, End
  <2> QED BY <2>1, Frame DEF TypesOK
<1>9. DOMAIN seen' = Cores
  <2>1. CASE UNCHANGED seen
    BY <2>1 DEF TypesOK
  <2>2. CASE \E s : seen' = [seen EXCEPT ![c] = s]
    BY <2>2 DEF TypesOK
  <2>3. ReadHeader(c) \/ ReadVersion(c) \/ ReadValue(c) \/ ReadNext(c) \/ ReadCheck(c) =>
          UNCHANGED seen \/ \E s : seen' = [seen EXCEPT ![c] = s]
    BY DEF ReadHeader, ReadVersion, ReadValue, ReadNext, ReadCheck, Saw
  <2>4. Begin(c) \/ TakeSnapshot(c) \/ Lock(c) \/ gen_commit_tid(c) \/ End(c) => UNCHANGED seen
    BY DEF Begin, TakeSnapshot, Lock, gen_commit_tid, End
  <2>5. CheckOwn(c) \/ LoadHeader(c) \/ CheckLatest(c) \/ Validated(c) =>
          UNCHANGED seen \/ \E s : seen' = [seen EXCEPT ![c] = s]
    BY DEF CheckOwn, LoadHeader, CheckLatest, Validated, Saw
  <2>6. MarkModifying(c) \/ StoreValue(c) \/ StoreVersion(c) \/ Unlock(c) => UNCHANGED seen
    BY DEF MarkModifying, StoreValue, StoreVersion, Unlock
  <2> QED BY <2>1, <2>2, <2>3, <2>4, <2>5, <2>6 DEF CoreStep
<1>10. Serial' \subseteq Decisions
  <2>1. Validated(c) => Decision(c) \in Decisions
    BY DecisionIsTyped DEF Past, Checks, Validated
  <2> QED BY <2>1, SerialStep DEF TypesOK
<1> QED BY <1>1, <1>2, <1>3, <1>4, <1>5, <1>6, <1>7, <1>8, <1>9, <1>10 DEF TypesOK

LEMMA EpochsStep ==
  ASSUME CommitInv, TidsFit, NEW c \in Cores, CoreStep(c)
  PROVE  EpochsOK'
<1>1. current_tick_' = current_tick_
  BY Frame DEF ticker
<1>2. ASSUME NEW t \in Tuples
      PROVE  EpochId(version'[t]) <= current_tick_
  <2>1. CASE version'[t] = version[t]
    BY <2>1 DEF CommitInv, EpochsOK
  <2>2. CASE StoreVersion(c)
    <3>1. version'[t] = version[t] \/ version'[t] = Tid(c)
      BY <2>2, VersionEffect
    <3> QED BY <2>1, <3>1 DEF CommitInv, EpochsOK
  <2> QED BY <2>1, <2>2, Frame
<1>3. ASSUME NEW d \in Cores
      PROVE  EpochId(last_commit_tid_'[d]) <= current_tick_
  <2>1. CASE last_commit_tid_'[d] = last_commit_tid_[d]
    BY <2>1 DEF CommitInv, EpochsOK, Tid
  <2>2. CASE gen_commit_tid(c)
    <3>1. PICK x \in Nat : /\ last_commit_tid_' = [last_commit_tid_ EXCEPT ![c] = x]
                           /\ EpochId(x) <= current_tick_
      BY <2>2, NewTid
    <3>2. CASE d = c
      BY <3>1, <3>2 DEF CommitInv, TypesOK
    <3>3. CASE d # c
      BY <2>1, <3>1, <3>3 DEF CommitInv, TypesOK
    <3> QED BY <3>2, <3>3
  <2> QED BY <2>1, <2>2, Frame
<1> QED BY <1>1, <1>2, <1>3 DEF EpochsOK, Tid

\* Where a core can be whose transaction has been decided.
After == Modifying \cup {"unlock", "end", "idle"}

\* Once decided a transaction goes on to its end.
LEMMA AfterStep ==
  ASSUME CommitInv, NEW c \in Cores, CoreStep(c), pc[c] \in After, ~Begin(c)
  PROVE  pc'[c] \in After /\ (pc'[c] \in Modifying => pc[c] \in Modifying)
<1> USE DEF After, Modifying, Goto
<1>1. pc \in [Cores -> Places]
  BY DEF CommitInv, LockInv, StateOK
<1>2. CASE MarkModifying(c) \/ StoreValue(c)
  BY <1>1, <1>2 DEF MarkModifying, StoreValue
<1>3. CASE StoreVersion(c)
  BY <1>1, <1>3 DEF StoreVersion
<1>4. CASE Unlock(c)
  BY <1>1, <1>4 DEF Unlock
<1>5. CASE End(c)
  BY <1>1, <1>5 DEF End
<1>6. ~ (\/ TakeSnapshot(c) \/ ReadHeader(c) \/ ReadVersion(c) \/ ReadValue(c)
         \/ ReadNext(c) \/ ReadCheck(c) \/ Lock(c) \/ gen_commit_tid(c))
  BY DEF TakeSnapshot, ReadHeader, ReadVersion, ReadValue, ReadNext, ReadCheck,
         Lock, gen_commit_tid
<1>7. ~ (CheckOwn(c) \/ LoadHeader(c) \/ CheckLatest(c) \/ Validated(c))
  BY DEF CheckOwn, LoadHeader, CheckLatest, Validated
<1> QED BY <1>2, <1>3, <1>4, <1>5, <1>6, <1>7 DEF CoreStep

\* A core starts to write when its transaction is decided.
LEMMA StartsWriting ==
  ASSUME CommitInv, NEW c \in Cores, CoreStep(c), pc'[c] \in Modifying,
         pc[c] \notin Modifying
  PROVE  Validated(c)
<1> USE DEF Modifying, Goto, Fail
<1>1. pc \in [Cores -> Places] /\ prog[c] \in AllPrograms
  BY DEF CommitInv, LockInv, StateOK
<1>2. ~Begin(c) /\ ~TakeSnapshot(c)
  BY <1>1 DEF Begin, TakeSnapshot, StartReads, AfterReads
<1>3. ~ (ReadHeader(c) \/ ReadVersion(c) \/ ReadValue(c) \/ ReadNext(c))
  BY <1>1 DEF ReadHeader, ReadVersion, ReadValue, ReadNext
<1>4. ~ReadCheck(c)
  <2>1. ReadCheck(c) => \E q \in {"read", AfterReads(prog[c])} : pc' = [pc EXCEPT ![c] = q]
    BY DEF ReadCheck
  <2> QED BY <1>1, <2>1 DEF AfterReads
<1>5. ~ (Lock(c) \/ gen_commit_tid(c))
  BY <1>1 DEF Lock, gen_commit_tid
<1>6. ~CheckOwn(c) /\ ~LoadHeader(c) /\ ~CheckLatest(c)
  BY <1>1 DEF CheckOwn, LoadHeader, CheckLatest
<1>7. ~ (MarkModifying(c) \/ StoreValue(c) \/ StoreVersion(c) \/ Unlock(c) \/ End(c))
  BY <1>1 DEF MarkModifying, StoreValue, StoreVersion, Unlock, End
<1> QED BY <1>2, <1>3, <1>4, <1>5, <1>6, <1>7 DEF CoreStep

\* What validation finds: the transaction has not been decided yet.
LEMMA NotYetCommitted ==
  ASSUME CommitInv, NEW c \in Cores, pc[c] \notin After
  PROVE  Txn(c) \notin Committed
<1>1. txns[c] \in Nat
  BY DEF CommitInv, TypesOK
<1> QED BY <1>1 DEF CommitInv, HistoryOK, Txn, After

LEMMA CommittedStep ==
  ASSUME CommitInv, NEW c \in Cores, CoreStep(c)
  PROVE  /\ Committed \subseteq Committed'
         /\ Committed' \subseteq Committed \cup {Txn(c)}
         /\ Validated(c) => Txn(c) \in Committed'
         /\ ~Validated(c) => Committed' = Committed /\ Serial' = Serial
<1>1. CASE Serial' = Serial /\ ~Validated(c)
  BY <1>1 DEF Committed
<1>2. CASE Validated(c)
  <2>1. Serial' = Serial \cup {Decision(c)}
    <3>1. decided' = decided \cup {Decision(c)} /\ ~Decision(c).snapshot
      BY <1>2 DEF Validated, Decision
    <3> HIDE DEF Decision
    <3> QED BY <3>1 DEF Serial
  <2>2. Decision(c).txn = Txn(c)
    BY DEF Decision
  <2> HIDE DEF Decision
  <2> QED BY <1>2, <2>1, <2>2 DEF Committed
<1> QED BY <1>1, <1>2, SerialStep

LEMMA HistoryStep ==
  ASSUME CommitInv, NEW c \in Cores, CoreStep(c)
  PROVE  HistoryOK'
<1>0. HistoryOK /\ txns \in [Cores -> Nat] /\ pc \in [Cores -> Places]
  BY DEF CommitInv, TypesOK, LockInv, StateOK
<1>1. ASSUME NEW t \in Tuples
      PROVE  ToSet(installed'[t]) \subseteq Committed'
  <2>1. CASE installed'[t] = installed[t]
    BY <1>0, <2>1, CommittedStep DEF HistoryOK
  <2>2. CASE StoreVersion(c)
    <3>1. \/ installed'[t] = installed[t]
          \/ installed'[t] = Append(installed[t], Txn(c)) /\ installed[t] \in Seq(Txns)
      BY <2>2, VersionEffect
    <3>2. installed[t] \in Seq(Txns) => ToSet(Append(installed[t], Txn(c))) \subseteq ToSet(installed[t]) \cup {Txn(c)}
      BY DEF ToSet
    <3>3. Txn(c) \in Committed
      BY <1>0, <2>2 DEF HistoryOK, StoreVersion, Modifying
    <3>4. ToSet(installed[t]) \subseteq Committed
      BY <1>0 DEF HistoryOK
    <3> QED BY <2>1, <3>1, <3>2, <3>3, <3>4, CommittedStep
  <2> QED BY <2>1, <2>2, Frame
<1>2. ASSUME NEW d \in Serial', NEW e \in Serial', d.txn = e.txn
      PROVE  d = e
  <2>1. CASE Serial' = Serial
    BY <1>0, <1>2, <2>1 DEF HistoryOK
  <2>2. CASE Validated(c) /\ Serial' = Serial \cup {Decision(c)}
    <3>1. Txn(c) \notin Committed
      BY <2>2, NotYetCommitted DEF Validated, After, Modifying
    <3>2. Decision(c).txn = Txn(c)
      BY DEF Decision
    <3>3. \A f \in Serial : f.txn # Txn(c)
      BY <3>1 DEF Committed
    <3> HIDE DEF Decision
    <3> QED BY <1>0, <1>2, <2>2, <3>2, <3>3 DEF HistoryOK
  <2> QED BY <2>1, <2>2, SerialStep
<1>3. ASSUME NEW d \in Cores, NEW k \in Nat, <<d, k>> \in Committed'
      PROVE  k <= txns'[d] /\ (k = txns'[d] => pc'[d] \in After)
  <2>1. CASE d # c
    <3>1. Still(d)
      BY <2>1, StepsAreLocal DEF CommitInv
    <3>2. <<d, k>> \in Committed
      BY <1>3, <2>1, CommittedStep DEF Txn
    <3> QED BY <1>0, <3>1, <3>2 DEF HistoryOK, Still, After
  <2>2. CASE d = c /\ Begin(c)
    <3>1. txns'[c] = txns[c] + 1 /\ ~Validated(c)
      BY <1>0, <2>2 DEF Begin, Validated
    <3>2. <<d, k>> \in Committed
      BY <1>3, <3>1, CommittedStep
    <3>3. k <= txns[c] /\ txns[c] \in Nat
      BY <1>0, <2>2, <3>2 DEF HistoryOK
    <3> QED BY <2>2, <3>1, <3>3
  <2>3. CASE d = c /\ Validated(c)
    <3>1. txns' = txns /\ pc'[c] \in After
      BY <1>0, <2>3 DEF Validated, Committing, local, Goto, After, Modifying
    <3>2. \/ <<d, k>> \in Committed
          \/ <<d, k>> = <<c, txns[c]>>
      BY <1>3, CommittedStep DEF Txn
    <3>3. k <= txns[c]
      BY <1>0, <2>3, <3>2 DEF HistoryOK
    <3> QED BY <2>3, <3>1, <3>3
  <2>4. CASE d = c /\ ~Begin(c) /\ ~Validated(c)
    <3>1. txns' = txns /\ <<d, k>> \in Committed
      BY <1>3, <2>4, CommittedStep, Frame
    <3>2. k <= txns[c] /\ (k = txns[c] => pc[c] \in After)
      BY <1>0, <2>4, <3>1 DEF HistoryOK, After
    <3>3. pc[c] \in After => pc'[c] \in After
      BY <2>4, AfterStep
    <3> QED BY <2>4, <3>1, <3>2, <3>3
  <2> QED BY <2>1, <2>2, <2>3, <2>4
<1>4. ASSUME NEW d \in Cores, pc'[d] \in Modifying
      PROVE  Txn(d)' \in Committed'
  <2>1. CASE d # c
    <3>1. Still(d)
      BY <2>1, StepsAreLocal DEF CommitInv
    <3>2. Txn(d)' = Txn(d) /\ Txn(d) \in Committed
      BY <1>0, <1>4, <3>1 DEF HistoryOK, Still, Txn
    <3> QED BY <3>2, CommittedStep
  <2>2. CASE d = c
    <3>1. ~Begin(c)
      BY <1>0, <1>4, <2>2 DEF Begin, Goto, StartReads, AfterReads, Modifying
    <3>2. Txn(c)' = Txn(c)
      BY <3>1, Frame DEF Txn
    <3>3. CASE pc[c] \in Modifying
      <4>1. Txn(c) \in Committed
        BY <1>0, <3>3 DEF HistoryOK
      <4> QED BY <2>2, <3>2, <4>1, CommittedStep
    <3>4. CASE pc[c] \notin Modifying
      <4>1. Validated(c)
        BY <1>4, <2>2, <3>4, StartsWriting
      <4> QED BY <2>2, <3>2, <4>1, CommittedStep
    <3> QED BY <3>3, <3>4
  <2> QED BY <2>1, <2>2
<1> QED BY <1>1, <1>2, <1>3, <1>4 DEF HistoryOK, After

\* The intent goes with the lock.
LEMMA HeaderKept ==
  ASSUME CommitInv, NEW c \in Cores, CoreStep(c), NEW t \in Tuples
  PROVE  HeaderOK(t)'
<1>0. hdr \in [Tuples -> Headers] /\ hdr[t].intent = hdr[t].locked
  BY HeaderTypes
<1>1. CASE hdr'[t] = hdr[t]
  BY <1>0, <1>1 DEF HeaderOK
<1>2. CASE Lock(c)
  <2>1. PICK u \in Tuples : u = NextLock(c)
    BY <1>2, LocksTheLeast DEF CommitInv
  <2>2. hdr' = [hdr EXCEPT ![u] = Locked(hdr[u])]
    BY <1>2, <2>1 DEF Lock
  <2>3. t # u => hdr'[t] = hdr[t]
    BY <1>0, <2>2
  <2>4. t = u => hdr'[t] = Locked(hdr[t]) /\ hdr[t] \in Headers
    BY <1>0, <2>2
  <2>5. t = u => hdr'[t] \in Headers /\ hdr'[t].locked /\ hdr'[t].intent
    BY <2>4, LockedHeader
  <2>6. t = u => hdr'[t].locked = TRUE /\ hdr'[t].intent = TRUE
    BY <2>5 DEF Headers
  <2> QED BY <1>1, <2>3, <2>6 DEF HeaderOK
<1>3. CASE MarkModifying(c)
  <2>1. PICK u \in Tuples : u = Writing(c)
    BY <1>3, WritesWhatItHolds DEF MarkModifying, Modifying
  <2>2. hdr' = [hdr EXCEPT ![u] = Marked(hdr[u])]
    BY <1>3, <2>1 DEF MarkModifying, Marked
  <2>3. t # u => hdr'[t] = hdr[t]
    BY <1>0, <2>2
  <2>4. t = u => hdr'[t] = Marked(hdr[t]) /\ hdr[t] \in Headers
    BY <1>0, <2>2
  <2> QED BY <1>0, <1>1, <2>3, <2>4, MarkedHeader DEF HeaderOK
<1>4. CASE Unlock(c)
  <2>1. PICK u \in Tuples : hdr' = [hdr EXCEPT ![u] = Unlocked(hdr[u])]
    BY <1>4, UnlocksTheLeast DEF CommitInv
  <2>3. t # u => hdr'[t] = hdr[t]
    BY <1>0, <2>1
  <2>4. t = u => hdr'[t] = Unlocked(hdr[t]) /\ hdr[t] \in Headers
    BY <1>0, <2>1
  <2>5. t = u => hdr'[t] \in Headers /\ ~hdr'[t].locked /\ ~hdr'[t].intent
    BY <2>4, UnlockedHeader
  <2>6. t = u => hdr'[t].locked = FALSE /\ hdr'[t].intent = FALSE
    BY <2>5 DEF Headers
  <2> QED BY <1>1, <2>3, <2>6 DEF HeaderOK
<1> QED BY <1>1, <1>2, <1>3, <1>4, Frame

\* A value is the last writer's, or its writer is about to be the last.
LEMMA ValueKept ==
  ASSUME CommitInv, NEW c \in Cores, CoreStep(c), NEW t \in Tuples
  PROVE  ValueOK(t)'
<1>0. ValueOK(t) /\ pc \in [Cores -> Places]
  BY DEF CommitInv, TupleOK, LockInv, StateOK
<1>1. ASSUME NEW d \in Cores, d # c, pc[d] = "writetid", Writing(d) = t
      PROVE  ValueOK(t)'
  <2>1. Still(d)
    BY <1>1, StepsAreLocal DEF CommitInv
  <2>2. pc'[d] = "writetid" /\ Writing(d)' = t
    BY <1>1, <2>1 DEF Still, Writing
  <2> QED BY <2>2 DEF ValueOK
<1>2. ASSUME value'[t] = value[t], installed'[t] = installed[t],
             pc[c] = "writetid" => Writing(c) # t
      PROVE  ValueOK(t)'
  <2>1. LastWriter(t)' = LastWriter(t)
    BY <1>2 DEF LastWriter
  <2> QED BY <1>0, <1>1, <1>2, <2>1 DEF ValueOK
<1>3. CASE StoreVersion(c)
  <2>1. PICK u \in Tuples :
          /\ u = Writing(c) /\ LastWriter(u)' = Txn(c) /\ value[u] = Txn(c)
          /\ \A x \in Tuples : x # u => installed'[x] = installed[x]
          /\ UNCHANGED value
    BY <1>3, VersionEffect
  <2>2. CASE t = u
    BY <2>1, <2>2 DEF ValueOK
  <2>3. CASE t # u
    BY <1>2, <2>1, <2>3
  <2> QED BY <2>2, <2>3
<1>4. CASE StoreValue(c)
  <2>1. PICK u \in Tuples : u = Writing(c)
    BY <1>4, WritesWhatItHolds DEF StoreValue, Modifying
  <2>2. /\ value' = [value EXCEPT ![u] = Txn(c)] /\ UNCHANGED <<installed, prog, done>>
        /\ pc' = [pc EXCEPT ![c] = "writetid"] /\ pc[c] # "writetid"
    BY <1>4, <2>1 DEF StoreValue, history, Committing, local, Goto
  <2>3. CASE t = u
    <3>1. pc'[c] = "writetid" /\ Writing(c)' = t
      BY <1>0, <2>1, <2>2, <2>3 DEF Writing
    <3> QED BY <3>1 DEF ValueOK
  <2>4. CASE t # u
    <3>1. value'[t] = value[t]
      BY <2>2, <2>4, HeaderTypes
    <3> QED BY <1>2, <2>2, <3>1
  <2> QED BY <2>3, <2>4
<1>5. CASE ~StoreVersion(c) /\ ~StoreValue(c)
  <2>1. UNCHANGED <<installed, value>>
    BY <1>5, Frame
  <2>2. pc[c] # "writetid"
    BY <1>5 DEF CoreStep, Begin, TakeSnapshot, ReadHeader, ReadVersion, ReadValue,
         ReadNext, ReadCheck, Lock, gen_commit_tid, CheckOwn, LoadHeader,
         CheckLatest, Validated, MarkModifying, Unlock, End
  <2> QED BY <1>2, <2>1, <2>2
<1> QED BY <1>3, <1>4, <1>5

-----------------------------------------------------------------------------
(* The core that moves.                                                    *)

\* What does not depend on what a step does but on where it goes.
LEMMA ElsewhereOK ==
  ASSUME NEW c \in Cores
  PROVE  /\ pc'[c] \notin {"writevalue", "writetid"} => WriteOK(c)'
         /\ pc'[c] \notin Loads => SeenOK(c)'
         /\ pc'[c] \notin Checks \cup Modifying => NewerOK(c)'
  BY DEF WriteOK, SeenOK, NewerOK, Past

LEMMA BeginOK ==
  ASSUME CommitInv, TypesOK', NEW c \in Cores, Begin(c)
  PROVE  CoreOK(c)'
<1>1. PICK p \in Programs[c] :
        /\ prog' = [prog EXCEPT ![c] = p]
        /\ Goto(c, IF p.snapshot THEN "snapshot" ELSE StartReads(p))
  BY DEF Begin
<1>2. p \in AllPrograms /\ (p.snapshot => p.writes = <<>>)
  BY SiloAssumption DEF AllPrograms
<1>3. /\ pc \in [Cores -> Places] /\ prog \in [Cores -> AllPrograms]
      /\ PlaceOK(c) /\ DOMAIN bound = Cores /\ DOMAIN read_set = Cores
  BY DEF CommitInv, LockInv, StateOK, CoreOK, TypesOK
<1>4. /\ prog'[c] = p /\ bound'[c] = MaxTid /\ read_set'[c] = <<>> /\ done'[c] = 0
      /\ pc'[c] = IF p.snapshot THEN "snapshot" ELSE StartReads(p)
  BY <1>1, <1>3 DEF Begin, Goto, PlaceOK, Checks, Modifying
<1>5. /\ p.snapshot => pc'[c] = "snapshot"
      /\ ~p.snapshot => \/ pc'[c] = "read" /\ p.reads # <<>>
                        \/ pc'[c] = "validate" /\ p.writes = <<>>
                        \/ pc'[c] = "lock"
  BY <1>4 DEF StartReads, AfterReads
<1>6. PlaceOK(c)'
  <2>1. p.reads # <<>> => 0 < Len(p.reads)
    BY <1>2 DEF AllPrograms
  <2>2. <<>> \in Seq(ReadRecords) /\ Len(<<>>) = 0
    OBVIOUS
  <2> QED BY <1>2, <1>4, <1>5, <2>1, <2>2 DEF PlaceOK, Free, Loads, Checks, Modifying
<1>7. ReadOK(c)'
  BY <1>4 DEF ReadOK
<1>8. NewerOK(c)'
  <2>1. pc'[c] \in Checks \cup Modifying => Writes(c)' = {}
    BY <1>4, <1>5 DEF Checks, Modifying, Writes, ToSet
  <2> QED BY <2>1 DEF NewerOK, Past
<1>9. WriteOK(c)' /\ SeenOK(c)'
  BY <1>5, ElsewhereOK DEF Loads
<1> QED BY <1>6, <1>7, <1>8, <1>9 DEF CoreOK

LEMMA EndOK ==
  ASSUME CommitInv, NEW c \in Cores, End(c)
  PROVE  CoreOK(c)'
<1>1. /\ pc'[c] = "idle" /\ prog'[c] = NoProgram /\ read_set'[c] = <<>> /\ done'[c] = 0
  BY DEF End, Goto, Did, CommitInv, LockInv, StateOK, TypesOK
<1>2. PlaceOK(c)'
  <2>1. <<>> \in Seq(ReadRecords) /\ ~NoProgram.snapshot
    BY DEF NoProgram
  <2> QED BY <1>1, <2>1 DEF PlaceOK, Loads, Checks, Modifying
<1>3. ReadOK(c)'
  BY <1>1 DEF ReadOK
<1>4. WriteOK(c)' /\ SeenOK(c)' /\ NewerOK(c)'
  BY <1>1, ElsewhereOK DEF Loads, Checks, Modifying
<1> QED BY <1>2, <1>3, <1>4 DEF CoreOK

\* A step within a program that reads nothing keeps what it has read.
LEMMA ReadsKeptByOwn ==
  ASSUME CommitInv, TypesOK', NEW c \in Cores, CoreStep(c), UNCHANGED <<prog, read_set>>
  PROVE  ReadOK(c)'
  BY RecordSteps, ReadsKept

LEMMA TakeSnapshotOK ==
  ASSUME CommitInv, TypesOK', NEW c \in Cores, TakeSnapshot(c)
  PROVE  CoreOK(c)'
<1>1. /\ UNCHANGED <<prog, read_set, done>> /\ pc[c] = "snapshot"
      /\ pc'[c] = StartReads(prog[c])
  BY DEF TakeSnapshot, Goto, CommitInv, LockInv, StateOK
<1>2. PlaceOK(c) /\ prog[c].snapshot
  BY <1>1 DEF CommitInv, CoreOK, PlaceOK
<1>3. pc'[c] \in {"read", "end"}
  BY <1>1, <1>2 DEF StartReads, AfterReads
<1>4. PlaceOK(c)'
  BY <1>1, <1>2, <1>3 DEF PlaceOK, Free, Checks, Modifying, Loads
<1>5. ReadOK(c)'
  BY <1>1, ReadsKeptByOwn DEF CoreStep
<1>6. WriteOK(c)' /\ SeenOK(c)' /\ NewerOK(c)'
  BY <1>3, ElsewhereOK DEF Loads, Checks, Modifying
<1> QED BY <1>4, <1>5, <1>6 DEF CoreOK

\* The reads: where they lead, and what they leave alone.
LEMMA ReadsMove ==
  ASSUME CommitInv, NEW c \in Cores,
         ReadHeader(c) \/ ReadVersion(c) \/ ReadValue(c) \/ ReadNext(c)
  PROVE  /\ UNCHANGED <<prog, read_set, done, bound, txns, hdr, version, value>>
         /\ pc'[c] \in {"readtid", "readvalue", "readnext", "readcheck"}
         /\ pc[c] \in {"read", "readtid", "readvalue", "readnext"}
         /\ ReadHeader(c) => pc[c] = "read" /\ pc'[c] = "readtid"
         /\ ReadVersion(c) => pc[c] = "readtid"
         /\ ReadValue(c) => pc[c] = "readvalue" /\ pc'[c] = "readcheck"
         /\ ReadNext(c) => pc[c] = "readnext"
<1>1. pc \in [Cores -> Places]
  BY DEF CommitInv, LockInv, StateOK
<1>2. Loading(c) /\ UNCHANGED read_set
  BY DEF ReadHeader, ReadVersion, ReadValue, ReadNext
<1>3. UNCHANGED <<prog, read_set, done, bound, txns, hdr, version, value>>
  BY <1>2 DEF Loading, records, local
<1>4. /\ ReadHeader(c) => pc[c] = "read" /\ pc'[c] = "readtid"
      /\ ReadVersion(c) => pc[c] = "readtid" /\ pc'[c] \in {"readvalue", "readnext"}
      /\ ReadValue(c) => pc[c] = "readvalue" /\ pc'[c] = "readcheck"
      /\ ReadNext(c) => pc[c] = "readnext" /\ pc'[c] = "readcheck"
  BY <1>1 DEF ReadHeader, ReadVersion, ReadValue, ReadNext, Goto
<1> QED BY <1>3, <1>4

LEMMA SnapshotReadsOK ==
  ASSUME CommitInv, TypesOK', NEW c \in Cores, prog[c].snapshot,
         ReadHeader(c) \/ ReadVersion(c) \/ ReadValue(c) \/ ReadNext(c)
  PROVE  CoreOK(c)'
<1>1. /\ UNCHANGED <<prog, read_set, done>>
      /\ pc'[c] \in {"readtid", "readvalue", "readnext", "readcheck"}
      /\ pc[c] \in {"read", "readtid", "readvalue", "readnext"}
  BY ReadsMove
<1>2. PlaceOK(c)
  BY DEF CommitInv, CoreOK
<1>3. PlaceOK(c)'
  BY <1>1, <1>2 DEF PlaceOK, Free, Checks, Modifying, Loads
<1>4. ReadOK(c)'
  BY <1>1, ReadsKeptByOwn DEF CoreStep
<1>5. SeenOK(c)'
  BY <1>1 DEF SeenOK
<1>6. WriteOK(c)' /\ NewerOK(c)'
  BY <1>1, ElsewhereOK DEF Checks, Modifying
<1> QED BY <1>3, <1>4, <1>5, <1>6 DEF CoreOK

LEMMA FreshReadsOK ==
  ASSUME CommitInv, TypesOK', NEW c \in Cores, ~prog[c].snapshot,
         ReadHeader(c) \/ ReadVersion(c) \/ ReadValue(c),
         pc'[c] \in Loads, seen'[c] \in SeenRecords, SeenOK(c)'
  PROVE  CoreOK(c)'
<1>1. /\ UNCHANGED <<prog, read_set, done, bound>>
      /\ pc[c] \in {"read"} \cup Loads
  BY ReadsMove DEF Loads
<1>2. PlaceOK(c)
  BY DEF CommitInv, CoreOK
<1>3. PlaceOK(c)'
  BY <1>1, <1>2 DEF PlaceOK, Free, Checks, Modifying, Loads
<1>4. ReadOK(c)'
  BY <1>1, ReadsKeptByOwn DEF CoreStep
<1>5. WriteOK(c)' /\ NewerOK(c)'
  BY <1>1, ElsewhereOK DEF Checks, Modifying, Loads
<1> QED BY <1>3, <1>4, <1>5 DEF CoreOK

LEMMA SeenRecordsWith ==
  ASSUME NEW s \in SeenRecords
  PROVE  /\ \A h \in Headers : LET r == [s EXCEPT !.hdr = h]
                               IN  /\ r \in SeenRecords /\ r.hdr = h
                                   /\ r.tid = s.tid /\ r.value = s.value
         /\ \A n \in Nat : LET r == [s EXCEPT !.tid = n]
                           IN  /\ r \in SeenRecords /\ r.hdr = s.hdr
                               /\ r.tid = n /\ r.value = s.value
         /\ \A v \in Txns \cup {Loader} :
              LET r == [s EXCEPT !.value = v]
              IN  /\ r \in SeenRecords /\ r.hdr = s.hdr
                  /\ r.tid = s.tid /\ r.value = v
  BY DEF SeenRecords

LEMMA ReadHeaderOK ==
  ASSUME CommitInv, TypesOK', NEW c \in Cores, ~prog[c].snapshot, ReadHeader(c)
  PROVE  CoreOK(c)'
<1>1. /\ UNCHANGED <<prog, read_set, done, bound, hdr>> /\ pc[c] = "read"
      /\ pc'[c] = "readtid"
  BY ReadsMove
<1>2. PICK t \in Tuples : t = Reading(c)
  BY <1>1, ReadsATuple
<1>3. hdr[t] \in Headers /\ hdr[t].count \in Nat
  BY HeaderTypes
<1>4. seen'[c] = [NotSeen EXCEPT !.hdr = hdr[t]] /\ ~hdr[t].modifying
  BY <1>2 DEF ReadHeader, Saw, Stable, CommitInv, TypesOK
<1>5. NotSeen \in SeenRecords
  BY DEF NotSeen, SeenRecords, Idle, Headers, Loader
<1>6. seen'[c] \in SeenRecords /\ seen'[c].hdr = hdr[t]
  BY <1>3, <1>4, <1>5, SeenRecordsWith
<1>7. Reading(c)' = t /\ hdr'[t] = hdr[t]
  BY <1>1, <1>2 DEF Reading
<1>8. SeenOK(c)'
  BY <1>1, <1>3, <1>4, <1>6, <1>7 DEF SeenOK
<1> QED BY <1>1, <1>6, <1>8, FreshReadsOK DEF Loads

LEMMA ReadVersionOK ==
  ASSUME CommitInv, TypesOK', NEW c \in Cores, ~prog[c].snapshot, ReadVersion(c)
  PROVE  CoreOK(c)'
<1>1. UNCHANGED <<prog, read_set, done, bound, hdr, version>> /\ pc[c] = "readtid"
  BY ReadsMove
<1>2. PICK t \in Tuples : t = Reading(c)
  BY <1>1, ReadsATuple DEF Loads
<1>3. version[t] <= bound[c] /\ version[t] \in Nat
  <2>1. version[t] \in Nat /\ EpochId(version[t]) \in Nat
    BY HeaderTypes, EpochBound, SiloAssumption
  <2>2. EpochId(version[t]) <= MaxTick
    BY <2>1, SiloAssumption DEF CommitInv, EpochsOK, TypesOK
  <2>3. bound[c] = MaxTid
    BY <1>1 DEF CommitInv, CoreOK, PlaceOK
  <2> QED BY <2>1, <2>2, <2>3, EverythingIsRead
<1>4. MaxTid \in Int
  <2>1. bound[c] = MaxTid
    BY <1>1 DEF CommitInv, CoreOK, PlaceOK
  <2>2. CoreIds \in Int /\ NumIds \in Int /\ MaxTick \in Int
    BY SiloAssumption
  <2>3. MaxTick * NumIds \in Int
    BY <2>2, Distributes
  <2>4. PICK b \in Int : b = MaxTick * NumIds + (NumIds - 1)
    BY <2>2, <2>3
  <2>5. b * CoreIds \in Int
    BY <2>2, Distributes
  <2> QED BY <2>2, <2>4, <2>5 DEF MaxTid, MakeTid
<1>5. ~ (version[t] > bound[c])
  BY <1>1, <1>3, <1>4 DEF CommitInv, CoreOK, PlaceOK
<1>6. seen'[c] = [seen[c] EXCEPT !.tid = version[t]] /\ pc'[c] = "readvalue"
  BY <1>2, <1>5 DEF ReadVersion, Saw, Goto, CommitInv, TypesOK, LockInv, StateOK
<1>7. seen[c] \in SeenRecords
  BY <1>1 DEF CommitInv, CoreOK, PlaceOK, Loads
<1>8. seen'[c] \in SeenRecords /\ seen'[c].hdr = seen[c].hdr /\ seen'[c].tid = version[t]
  BY <1>3, <1>6, <1>7, SeenRecordsWith
<1>9. Reading(c)' = t
  BY <1>1, <1>2 DEF Reading
<1>10. ~seen[c].hdr.modifying /\ seen[c].hdr.count <= hdr[t].count
  BY <1>1, <1>2 DEF CommitInv, CoreOK, SeenOK, Loads
<1>11. SeenOK(c)'
  BY <1>1, <1>6, <1>8, <1>9, <1>10 DEF SeenOK
<1> QED BY <1>6, <1>8, <1>11, FreshReadsOK DEF Loads

LEMMA ReadValueOK ==
  ASSUME CommitInv, TypesOK', NEW c \in Cores, ~prog[c].snapshot, ReadValue(c)
  PROVE  CoreOK(c)'
<1>1. /\ UNCHANGED <<prog, read_set, done, bound, hdr, version, value>>
      /\ pc[c] = "readvalue" /\ pc'[c] = "readcheck"
  BY ReadsMove
<1>2. PICK t \in Tuples : t = Reading(c)
  BY <1>1, ReadsATuple DEF Loads
<1>3. value[t] \in Txns \cup {Loader}
  BY HeaderTypes
<1>4. seen'[c] = [seen[c] EXCEPT !.value = value[t]]
  BY <1>2 DEF ReadValue, Saw, CommitInv, TypesOK
<1>5. seen[c] \in SeenRecords
  BY <1>1 DEF CommitInv, CoreOK, PlaceOK, Loads
<1>6. /\ seen'[c] \in SeenRecords /\ seen'[c].hdr = seen[c].hdr
      /\ seen'[c].tid = seen[c].tid /\ seen'[c].value = value[t]
  BY <1>3, <1>4, <1>5, SeenRecordsWith
<1>7. Reading(c)' = t
  BY <1>1, <1>2 DEF Reading
<1>8. /\ ~seen[c].hdr.modifying /\ seen[c].hdr.count <= hdr[t].count
      /\ ~hdr[t].modifying /\ hdr[t].count = seen[c].hdr.count => seen[c].tid = version[t]
  BY <1>1, <1>2 DEF CommitInv, CoreOK, SeenOK, Loads
<1>9. SeenOK(c)'
  BY <1>1, <1>6, <1>7, <1>8 DEF SeenOK
<1> QED BY <1>1, <1>6, <1>9, FreshReadsOK DEF Loads

LEMMA NoOlderVersions ==
  ASSUME CommitInv, NEW c \in Cores, ~prog[c].snapshot
  PROVE  ~ReadNext(c)
  BY DEF CommitInv, CoreOK, PlaceOK, ReadNext

\* What ReadCheck does, with the record it appends.
LEMMA CheckedRead ==
  ASSUME CommitInv, NEW c \in Cores, ReadCheck(c), ~prog[c].snapshot
  PROVE  \/ /\ pc'[c] = "read" /\ UNCHANGED read_set
         \/ \E t \in Tuples, r \in ReadRecords :
              /\ t = Reading(c) /\ r.tuple = t
              /\ r.tid = version[t] /\ r.value = value[t] /\ r.value = LastWriter(t)
              /\ read_set'[c] = Append(read_set[c], r)
              /\ pc'[c] = IF Len(read_set[c]) + 1 = Len(prog[c].reads)
                          THEN AfterReads(prog[c]) ELSE "read"
<1>0. /\ pc[c] = "readcheck" /\ pc \in [Cores -> Places] /\ DOMAIN read_set = Cores
      /\ seen[c] \in SeenRecords
  BY DEF ReadCheck, CommitInv, CoreOK, PlaceOK, LockInv, StateOK, TypesOK, Loads
<1>1. PICK t \in Tuples : t = Reading(c) /\ read_set[c] \in Seq(ReadRecords)
  BY <1>0, ReadsATuple DEF Loads
<1>2. CASE ~reader_check_version(hdr[t], seen[c].hdr)
  BY <1>0, <1>1, <1>2 DEF ReadCheck, Goto
<1>3. CASE reader_check_version(hdr[t], seen[c].hdr)
  <2>1. hdr[t] \in Headers /\ seen[c].hdr \in Headers /\ seen[c].tid \in Nat
        /\ seen[c].value \in Txns \cup {Loader}
    BY <1>0, HeaderTypes DEF SeenRecords
  <2>2. ~seen[c].hdr.modifying
    BY <1>0, <1>1 DEF CommitInv, CoreOK, SeenOK, Loads
  <2>3. ~hdr[t].modifying /\ hdr[t].count = seen[c].hdr.count
    BY <1>3, <2>1, <2>2 DEF reader_check_version, Headers
  <2>4. seen[c].tid = version[t] /\ seen[c].value = value[t]
    BY <1>0, <1>1, <2>3 DEF CommitInv, CoreOK, SeenOK, Loads
  <2>5. value[t] = LastWriter(t)
    <3>1. \A d \in Cores : ~ (pc[d] = "writetid" /\ Writing(d) = t)
      BY <2>3 DEF CommitInv, CoreOK, WriteOK
    <3> QED BY <3>1 DEF CommitInv, TupleOK, ValueOK
  <2>6. PICK r \in ReadRecords :
          r = [tuple |-> t, tid |-> seen[c].tid, value |-> seen[c].value]
    BY <2>1 DEF ReadRecords
  <2>7. read_set' = [read_set EXCEPT ![c] = Append(@, r)]
    BY <1>1, <1>3, <2>6 DEF ReadCheck
  <2>8. read_set'[c] = Append(read_set[c], r)
    BY <1>0, <2>7
  <2>9. pc'[c] = IF Len(read_set'[c]) = Len(prog[c].reads)
                 THEN AfterReads(prog[c]) ELSE "read"
    BY <1>0, <1>1, <1>3 DEF ReadCheck, Goto
  <2>10. Len(read_set'[c]) = Len(read_set[c]) + 1
    BY <1>1, <2>8
  <2>11. r.tuple = t /\ r.tid = version[t] /\ r.value = value[t]
    BY <2>4, <2>6
  <2> QED BY <1>1, <2>5, <2>8, <2>9, <2>10, <2>11
<1> QED BY <1>2, <1>3

LEMMA CheckMove ==
  ASSUME CommitInv, NEW c \in Cores, ReadCheck(c)
  PROVE  /\ UNCHANGED <<prog, done, bound, txns, version, installed, value, held>>
         /\ pc[c] = "readcheck"
         /\ pc'[c] \in {"read", AfterReads(prog[c])}
<1>1. pc \in [Cores -> Places]
  BY DEF CommitInv, LockInv, StateOK
<1>2. \E q \in {"read", AfterReads(prog[c])} : pc' = [pc EXCEPT ![c] = q]
  BY DEF ReadCheck, Goto
<1> QED BY <1>1, <1>2 DEF ReadCheck, Loading, records, local, history

LEMMA ReadCheckOK ==
  ASSUME CommitInv, TypesOK', NEW c \in Cores, ReadCheck(c)
  PROVE  CoreOK(c)'
<1>1. /\ UNCHANGED <<prog, done, bound, txns, version, installed, value, held>>
      /\ pc[c] = "readcheck"
      /\ pc'[c] \in {"read", AfterReads(prog[c])}
  BY CheckMove
<1>2. PlaceOK(c) /\ ReadOK(c) /\ prog[c] \in AllPrograms
  BY DEF CommitInv, CoreOK, LockInv, StateOK
<1>3. done[c] = 0
  BY <1>1, <1>2 DEF PlaceOK, Checks, Modifying
<1>4. CASE prog[c].snapshot
  <2>1. pc'[c] \in {"read", "end"}
    BY <1>1, <1>4 DEF AfterReads
  <2>2. PlaceOK(c)' /\ ReadOK(c)'
    BY <1>1, <1>2, <1>4, <2>1 DEF PlaceOK, Free, Checks, Modifying, Loads, ReadOK
  <2>3. WriteOK(c)' /\ SeenOK(c)' /\ NewerOK(c)'
    BY <2>1, ElsewhereOK DEF Checks, Modifying, Loads
  <2> QED BY <2>2, <2>3 DEF CoreOK
<1>5. CASE ~prog[c].snapshot
  <2>1. \/ pc'[c] = "read"
        \/ pc'[c] = "lock"
        \/ pc'[c] = "validate" /\ prog[c].writes = <<>>
    BY <1>1, <1>5 DEF AfterReads
  <2>2. /\ read_set[c] \in Seq(ReadRecords) /\ Len(read_set[c]) < Len(prog[c].reads)
        /\ bound[c] = MaxTid
    BY <1>1, <1>2, <1>5 DEF PlaceOK, Loads
  <2>3. PlaceOK(c)' /\ ReadOK(c)'
    <3>1. CASE pc'[c] = "read" /\ UNCHANGED read_set
      <4>1. PlaceOK(c)'
        BY <1>1, <1>3, <1>5, <2>2, <3>1 DEF PlaceOK, Checks, Modifying, Loads
      <4>2. ReadOK(c)'
        BY <1>1, <3>1, ReadsKeptByOwn DEF CoreStep
      <4> QED BY <4>1, <4>2
    <3>2. ASSUME NEW t \in Tuples, NEW r \in ReadRecords,
                 /\ r.tuple = t /\ r.tid = version[t] /\ r.value = LastWriter(t)
                 /\ read_set'[c] = Append(read_set[c], r)
                 /\ pc'[c] = IF Len(read_set[c]) + 1 = Len(prog[c].reads)
                             THEN AfterReads(prog[c]) ELSE "read"
          PROVE  PlaceOK(c)' /\ ReadOK(c)'
      <4>1. /\ read_set'[c] \in Seq(ReadRecords)
            /\ Len(read_set'[c]) = Len(read_set[c]) + 1
            /\ DOMAIN read_set'[c] = 1 .. Len(read_set[c]) + 1
            /\ Len(read_set[c]) \in Nat /\ DOMAIN read_set[c] = 1 .. Len(read_set[c])
            /\ read_set'[c][Len(read_set[c]) + 1] = r
            /\ \A k \in DOMAIN read_set[c] : read_set'[c][k] = read_set[c][k]
        BY <2>2, <3>2
      <4>2. pc'[c] = "read" => Len(read_set'[c]) < Len(prog[c].reads)
        <5>1. "read" # AfterReads(prog[c])
          BY DEF AfterReads
        <5>2. prog[c].reads \in Seq(Tuples)
          BY <1>2 DEF AllPrograms
        <5>3. Len(prog[c].reads) \in Nat
          BY <5>2
        <5> QED BY <2>2, <3>2, <4>1, <5>1, <5>3
      <4>3. PlaceOK(c)'
        BY <1>1, <1>3, <1>5, <2>1, <2>2, <4>1, <4>2 DEF PlaceOK, Checks, Modifying, Loads
      <4>4. ReadOK(c)'
        <5> SUFFICES ASSUME NEW k \in DOMAIN read_set'[c]
                     PROVE  LET x == read_set'[c][k]
                            IN  /\ x.tid <= version[x.tuple]
                                /\ x.tid = version[x.tuple] => x.value = LastWriter(x.tuple)
                                /\ x.value = Loader \/ x.value \in ToSet(installed[x.tuple])
          BY <1>1 DEF ReadOK, LastWriter
        <5>1. CASE k \in DOMAIN read_set[c]
          BY <1>2, <1>5, <4>1, <5>1 DEF ReadOK
        <5>2. CASE k = Len(read_set[c]) + 1
          <6>1. read_set'[c][k] = r /\ version[t] \in Nat
            BY <4>1, <5>2, HeaderTypes
          <6>2. LastWriter(t) = Loader \/ LastWriter(t) \in ToSet(installed[t])
            <7>1. installed[t] \in Seq(Txns)
              BY HeaderTypes
            <7>2. installed[t] # <<>> => Len(installed[t]) \in DOMAIN installed[t]
              BY <7>1
            <7> QED BY <7>2 DEF LastWriter, Last, ToSet
          <6> QED BY <3>2, <6>1, <6>2
        <5> QED BY <4>1, <5>1, <5>2
      <4> QED BY <4>3, <4>4
    <3> QED BY <1>5, <3>1, <3>2, CheckedRead
  <2>4. NewerOK(c)'
    <3>1. pc'[c] \in Checks \cup Modifying => Writes(c)' = {}
      BY <1>1, <2>1 DEF Checks, Modifying, Writes, ToSet
    <3> QED BY <3>1 DEF NewerOK, Past
  <2>5. WriteOK(c)' /\ SeenOK(c)'
    BY <2>1, ElsewhereOK DEF Loads
  <2> QED BY <2>3, <2>4, <2>5 DEF CoreOK
<1> QED BY <1>4, <1>5

\* The commit: what its steps leave alone.
LEMMA CommitMove ==
  ASSUME CommitInv, NEW c \in Cores,
         \/ Lock(c) \/ gen_commit_tid(c) \/ CheckOwn(c) \/ LoadHeader(c)
         \/ CheckLatest(c) \/ Validated(c) \/ MarkModifying(c) \/ StoreValue(c)
         \/ StoreVersion(c) \/ Unlock(c)
  PROVE  /\ UNCHANGED <<prog, read_set, bound, txns>>
         /\ ~prog[c].snapshot /\ pc[c] # "idle"
         /\ read_set[c] \in Seq(ReadRecords) /\ bound[c] = MaxTid
<1>1. Committing(c)
  BY DEF Lock, gen_commit_tid, CheckOwn, LoadHeader, CheckLatest, Validated,
         MarkModifying, StoreValue, StoreVersion, Unlock
<1>2. pc[c] \in {"lock", "tid", "unlock"} \cup Checks \cup Modifying
  BY DEF Lock, gen_commit_tid, CheckOwn, LoadHeader, CheckLatest, Validated,
         MarkModifying, StoreValue, StoreVersion, Unlock, Checks, Modifying
<1>3. ~prog[c].snapshot
  BY <1>2 DEF CommitInv, CoreOK, PlaceOK, Free, Checks, Modifying
<1>4. read_set[c] \in Seq(ReadRecords) /\ bound[c] = MaxTid
  BY <1>2, <1>3 DEF CommitInv, CoreOK, PlaceOK, Checks, Modifying
<1> QED BY <1>1, <1>2, <1>3, <1>4 DEF Committing, local, Checks, Modifying

\* Where a core that commits can be, as far as PlaceOK tells.
LEMMA CommitPlace ==
  ASSUME CommitInv, TypesOK', NEW c \in Cores, CoreStep(c),
         UNCHANGED <<prog, read_set, bound>>, ~prog[c].snapshot,
         read_set[c] \in Seq(ReadRecords), bound[c] = MaxTid,
         pc'[c] \in {"lock", "tid", "unlock", "end"} \cup Checks \cup Modifying,
         pc'[c] \in {"lock", "tid"} => done'[c] = 0,
         pc'[c] = "validate" => done'[c] <= Len(read_set[c]),
         pc'[c] = "check" => done'[c] < Len(read_set[c]) /\ ~seen'[c].hdr.intent,
         pc'[c] \in Modifying => done'[c] < Len(prog[c].writes),
         WriteOK(c)', NewerOK(c)'
  PROVE  CoreOK(c)'
<1>1. PlaceOK(c)'
  BY DEF PlaceOK, Loads, Checks, Modifying
<1>2. ReadOK(c)'
  BY ReadsKeptByOwn
<1>3. SeenOK(c)'
  BY ElsewhereOK DEF Loads, Checks, Modifying
<1> QED BY <1>1, <1>2, <1>3 DEF CoreOK

\* What is newer stays newer while no version and no tid changes.
LEMMA NewerKept ==
  ASSUME CommitInv, NEW c \in Cores, Past(c),
         UNCHANGED <<prog, txns, version, installed, last_commit_tid_>>
  PROVE  NewerOK(c)'
<1>1. \A t \in Writes(c) : \/ version[t] < Tid(c)
                           \/ version[t] = Tid(c) /\ LastWriter(t) = Txn(c)
  BY DEF CommitInv, CoreOK, NewerOK
<1>2. Writes(c)' = Writes(c) /\ Tid(c)' = Tid(c) /\ Txn(c)' = Txn(c)
  BY DEF Writes, Tid, Txn
<1>3. \A t \in Writes(c) : LastWriter(t)' = LastWriter(t)
  BY DEF LastWriter
<1> QED BY <1>1, <1>2, <1>3 DEF NewerOK

LEMMA LockOK ==
  ASSUME CommitInv, TypesOK', NEW c \in Cores, Lock(c)
  PROVE  CoreOK(c)'
<1>1. /\ UNCHANGED <<prog, read_set, bound, txns>> /\ ~prog[c].snapshot
      /\ read_set[c] \in Seq(ReadRecords) /\ bound[c] = MaxTid
  BY CommitMove
<1>2. pc[c] = "lock" /\ pc'[c] \in {"tid", "lock"} /\ UNCHANGED done
  BY DEF Lock, Goto, CommitInv, LockInv, StateOK
<1>3. done'[c] = 0
  BY <1>2 DEF CommitInv, CoreOK, PlaceOK, Checks, Modifying
<1>4. WriteOK(c)' /\ NewerOK(c)'
  BY <1>2, ElsewhereOK DEF Checks, Modifying
<1> QED BY <1>1, <1>2, <1>3, <1>4, CommitPlace DEF CoreStep, Checks, Modifying

LEMMA TidOK ==
  ASSUME CommitInv, TidsFit, TypesOK', NEW c \in Cores, gen_commit_tid(c)
  PROVE  CoreOK(c)'
<1>1. /\ UNCHANGED <<prog, read_set, bound, txns>> /\ ~prog[c].snapshot
      /\ read_set[c] \in Seq(ReadRecords) /\ bound[c] = MaxTid
  BY CommitMove
<1>2. pc[c] = "tid" /\ pc'[c] = "validate" /\ UNCHANGED <<done, version>>
  BY DEF gen_commit_tid, Goto, CommitInv, LockInv, StateOK, records
<1>3. done'[c] = 0 /\ 0 <= Len(read_set[c])
  BY <1>1, <1>2 DEF CommitInv, CoreOK, PlaceOK, Checks, Modifying
<1>4. PICK x \in Nat : /\ last_commit_tid_' = [last_commit_tid_ EXCEPT ![c] = x]
                       /\ \A t \in Writes(c) : version[t] < x
  BY NewTid
<1>5. last_commit_tid_'[c] = x /\ Writes(c)' = Writes(c)
  BY <1>1, <1>4 DEF CommitInv, TypesOK, Writes
<1>6. NewerOK(c)'
  BY <1>2, <1>4, <1>5 DEF NewerOK, Tid
<1>7. WriteOK(c)'
  BY <1>2, ElsewhereOK
<1> QED BY <1>1, <1>2, <1>3, <1>6, <1>7, CommitPlace DEF CoreStep, Checks, Modifying

LEMMA ValidationMove ==
  ASSUME CommitInv, NEW c \in Cores, CheckOwn(c) \/ LoadHeader(c) \/ CheckLatest(c)
  PROVE  /\ Past(c) /\ pc[c] \in Checks /\ Len(read_set[c]) \in Nat
         /\ UNCHANGED <<hdr, version, value, installed, decided, held, last_commit_tid_>>
         /\ \/ pc'[c] \in {"end", "unlock"} /\ done' = done
            \/ /\ pc'[c] = "validate" /\ done'[c] = done[c] + 1 /\ ~LoadHeader(c)
               /\ done[c] < Len(read_set[c])
               /\ version[Checking(c).tuple] <= Checking(c).tid
            \/ pc'[c] = "check" /\ done' = done /\ LoadHeader(c)
<1>1. pc \in [Cores -> Places] /\ DOMAIN done = Cores /\ read_set[c] \in Seq(ReadRecords)
  BY CommitMove DEF CommitInv, LockInv, StateOK, TypesOK
<1>2. Fail(c) => pc'[c] \in {"end", "unlock"}
  BY <1>1 DEF Fail, Goto
<1>3. CASE CheckOwn(c)
  <2>1. pc[c] = "validate" /\ done[c] < Len(read_set[c])
        /\ UNCHANGED <<hdr, version, value, installed, decided, held, last_commit_tid_>>
    BY <1>3 DEF CheckOwn, records, history
  <2>2. \/ Fail(c) /\ done' = done
        \/ /\ pc' = pc /\ done'[c] = done[c] + 1
           /\ version[Checking(c).tuple] <= Checking(c).tid
    BY <1>1, <1>3 DEF CheckOwn, Did
  <2>3. ~LoadHeader(c)
    BY <1>3 DEF LoadHeader, CheckOwn
  <2> QED BY <1>1, <1>2, <2>1, <2>2, <2>3 DEF Past, Checks
<1>4. CASE LoadHeader(c)
  <2>1. pc[c] = "validate" /\ UNCHANGED done
        /\ UNCHANGED <<hdr, version, value, installed, decided, held, last_commit_tid_>>
    BY <1>4 DEF LoadHeader, records, history
  <2>2. Fail(c) \/ pc'[c] = "check"
    BY <1>1, <1>4 DEF LoadHeader, Goto
  <2> QED BY <1>1, <1>2, <1>4, <2>1, <2>2 DEF Past, Checks
<1>5. CASE CheckLatest(c)
  <2>1. pc[c] = "check" /\ ~LoadHeader(c)
        /\ UNCHANGED <<hdr, version, value, installed, decided, held, last_commit_tid_>>
    BY <1>5 DEF CheckLatest, records, history, LoadHeader
  <2>2. \/ Fail(c) /\ done' = done
        \/ /\ pc'[c] = "validate" /\ done'[c] = done[c] + 1
           /\ version[Checking(c).tuple] <= Checking(c).tid
    BY <1>1, <1>5 DEF CheckLatest, Did, Goto
  <2>3. done[c] < Len(read_set[c])
    BY <2>1 DEF CommitInv, CoreOK, PlaceOK
  <2> QED BY <1>1, <1>2, <2>1, <2>2, <2>3 DEF Past, Checks
<1> QED BY <1>3, <1>4, <1>5

LEMMA ValidationOK ==
  ASSUME CommitInv, TypesOK', NEW c \in Cores, CheckOwn(c) \/ LoadHeader(c) \/ CheckLatest(c)
  PROVE  CoreOK(c)'
<1>1. /\ UNCHANGED <<prog, read_set, bound, txns>> /\ ~prog[c].snapshot
      /\ read_set[c] \in Seq(ReadRecords) /\ bound[c] = MaxTid
  BY CommitMove
<1>2. /\ Past(c) /\ Len(read_set[c]) \in Nat /\ done[c] \in Nat
      /\ UNCHANGED <<version, installed, last_commit_tid_>>
      /\ \/ pc'[c] \in {"end", "unlock"}
         \/ /\ pc'[c] = "validate" /\ done'[c] = done[c] + 1
            /\ done[c] < Len(read_set[c])
         \/ pc'[c] = "check" /\ done' = done /\ LoadHeader(c)
  BY ValidationMove DEF CommitInv, TypesOK
<1>3. NewerOK(c)'
  BY <1>1, <1>2, NewerKept
<1>4. WriteOK(c)'
  BY <1>2, ElsewhereOK
<1>5. pc'[c] = "validate" => done'[c] <= Len(read_set[c])
  BY <1>2
<1>6. ASSUME pc'[c] = "check"
      PROVE  done'[c] < Len(read_set[c]) /\ ~seen'[c].hdr.intent
  <2>1. LoadHeader(c) /\ done' = done
    BY <1>2, <1>6
  <2>2. done[c] < Len(read_set[c]) /\ Checking(c).tuple \in Tuples
    <3>1. pc[c] = "validate" /\ done[c] < Len(read_set[c])
      BY <2>1 DEF LoadHeader
    <3>2. done[c] + 1 \in DOMAIN read_set[c]
      BY <1>1, <1>2, <3>1
    <3> QED BY <1>1, <3>1, <3>2, ReadsAreTyped DEF Checking
  <2>3. PICK t \in Tuples : t = Checking(c).tuple
    BY <2>2
  <2>4. hdr[t] \in Headers
    BY HeaderTypes
  <2>5. ~Fail(c)
    BY <1>6 DEF Fail, Goto, CommitInv, LockInv, StateOK
  <2>6. /\ ~hdr[t].intent /\ seen' = [seen EXCEPT ![c] = [NotSeen EXCEPT !.hdr = hdr[t]]]
    BY <2>1, <2>3, <2>5 DEF LoadHeader, MayLoad, Saw
  <2>7. NotSeen \in SeenRecords
    BY DEF NotSeen, SeenRecords, Idle, Headers, Loader
  <2>8. seen'[c].hdr = hdr[t]
    BY <2>4, <2>6, <2>7, SeenRecordsWith DEF CommitInv, TypesOK
  <2> QED BY <2>1, <2>2, <2>6, <2>8
<1>7. pc'[c] \in {"lock", "tid", "unlock", "end"} \cup Checks \cup Modifying
      /\ pc'[c] \notin {"lock", "tid"} \cup Modifying
  BY <1>2 DEF Checks, Modifying
<1> QED BY <1>1, <1>3, <1>4, <1>5, <1>6, <1>7, CommitPlace DEF CoreStep

LEMMA WritesNotEmpty ==
  ASSUME CommitInv, NEW c \in Cores
  PROVE  /\ prog[c].writes \in Seq(Tuples) /\ Len(prog[c].writes) \in Nat
         /\ Writes(c) # {} => 0 < Len(prog[c].writes)
<1>1. prog[c].writes \in Seq(Tuples)
  BY DEF CommitInv, LockInv, StateOK, AllPrograms
<1>2. Len(prog[c].writes) = 0 => Writes(c) = {}
  BY <1>1 DEF Writes, ToSet
<1> QED BY <1>1, <1>2

LEMMA ValidatedOK ==
  ASSUME CommitInv, TypesOK', NEW c \in Cores, Validated(c)
  PROVE  CoreOK(c)'
<1>1. /\ UNCHANGED <<prog, read_set, bound, txns>> /\ ~prog[c].snapshot
      /\ read_set[c] \in Seq(ReadRecords) /\ bound[c] = MaxTid
  BY CommitMove
<1>2. /\ pc[c] = "validate" /\ done'[c] = 0
      /\ pc'[c] = IF Writes(c) = {} THEN "end" ELSE "write"
      /\ UNCHANGED <<version, installed, last_commit_tid_>>
  BY DEF Validated, Goto, Did, CommitInv, LockInv, StateOK, TypesOK, records
<1>3. NewerOK(c)'
  BY <1>1, <1>2, NewerKept DEF Past, Checks
<1>4. WriteOK(c)'
  BY <1>2, ElsewhereOK
<1>5. pc'[c] \in Modifying => done'[c] < Len(prog[c].writes)
  BY <1>2, WritesNotEmpty DEF Modifying
<1>6. pc'[c] \in {"end", "write"}
  BY <1>2
<1> QED BY <1>1, <1>3, <1>4, <1>5, <1>6, CommitPlace DEF CoreStep, Checks, Modifying

LEMMA MarkOK ==
  ASSUME CommitInv, TypesOK', NEW c \in Cores, MarkModifying(c)
  PROVE  CoreOK(c)'
<1>1. /\ UNCHANGED <<prog, read_set, bound, txns>> /\ ~prog[c].snapshot
      /\ read_set[c] \in Seq(ReadRecords) /\ bound[c] = MaxTid
  BY CommitMove
<1>2. /\ pc[c] = "write" /\ pc'[c] = "writevalue"
      /\ UNCHANGED <<version, installed, last_commit_tid_, done>>
  BY DEF MarkModifying, Goto, CommitInv, LockInv, StateOK, history
<1>3. NewerOK(c)'
  BY <1>1, <1>2, NewerKept DEF Past, Modifying
<1>4. WriteOK(c)'
  <2>1. PICK t \in Tuples : t = Writing(c)
    BY <1>2, WritesWhatItHolds DEF Modifying
  <2>2. hdr' = [hdr EXCEPT ![t] = Marked(hdr[t])] /\ hdr[t] \in Headers
    BY <2>1, HeaderTypes DEF MarkModifying, Marked
  <2>3. hdr'[t].modifying
    BY <2>2, MarkedHeader, HeaderTypes
  <2>4. Writing(c)' = t
    BY <1>1, <1>2, <2>1 DEF Writing
  <2> QED BY <1>2, <2>3, <2>4 DEF WriteOK
<1>5. done'[c] < Len(prog[c].writes)
  BY <1>2 DEF CommitInv, CoreOK, PlaceOK, Modifying
<1> QED BY <1>1, <1>2, <1>3, <1>4, <1>5, CommitPlace DEF CoreStep, Checks, Modifying

LEMMA StoreValueOK ==
  ASSUME CommitInv, TypesOK', NEW c \in Cores, StoreValue(c)
  PROVE  CoreOK(c)'
<1>1. /\ UNCHANGED <<prog, read_set, bound, txns>> /\ ~prog[c].snapshot
      /\ read_set[c] \in Seq(ReadRecords) /\ bound[c] = MaxTid
  BY CommitMove
<1>2. /\ pc[c] = "writevalue" /\ pc'[c] = "writetid"
      /\ UNCHANGED <<hdr, version, installed, last_commit_tid_, done>>
  BY DEF StoreValue, Goto, CommitInv, LockInv, StateOK, history
<1>3. NewerOK(c)'
  BY <1>1, <1>2, NewerKept DEF Past, Modifying
<1>4. WriteOK(c)'
  <2>1. PICK t \in Tuples : t = Writing(c)
    BY <1>2, WritesWhatItHolds DEF Modifying
  <2>2. value' = [value EXCEPT ![t] = Txn(c)]
    BY <2>1 DEF StoreValue
  <2>3. value'[t] = Txn(c)
    BY <2>2, HeaderTypes
  <2>4. hdr[t].modifying
    BY <1>2, <2>1 DEF CommitInv, CoreOK, WriteOK
  <2>5. Writing(c)' = t /\ Txn(c)' = Txn(c)
    BY <1>1, <1>2, <2>1 DEF Writing, Txn
  <2> QED BY <1>2, <2>3, <2>4, <2>5 DEF WriteOK
<1>5. done'[c] < Len(prog[c].writes)
  BY <1>2 DEF CommitInv, CoreOK, PlaceOK, Modifying
<1> QED BY <1>1, <1>2, <1>3, <1>4, <1>5, CommitPlace DEF CoreStep, Checks, Modifying

LEMMA StoreVersionOK ==
  ASSUME CommitInv, TypesOK', NEW c \in Cores, StoreVersion(c)
  PROVE  CoreOK(c)'
<1>1. /\ UNCHANGED <<prog, read_set, bound, txns>> /\ ~prog[c].snapshot
      /\ read_set[c] \in Seq(ReadRecords) /\ bound[c] = MaxTid
  BY CommitMove
<1>2. /\ pc[c] = "writetid" /\ pc'[c] \in {"unlock", "write"}
      /\ pc'[c] = "write" => done[c] + 1 # Len(prog[c].writes) /\ done'[c] = done[c] + 1
      /\ UNCHANGED last_commit_tid_
  BY DEF StoreVersion, Goto, Did, CommitInv, LockInv, StateOK, TypesOK
<1>3. NewerOK(c)'
  <2>1. PICK t \in Tuples :
          /\ version'[t] = Tid(c) /\ LastWriter(t)' = Txn(c)
          /\ \A u \in Tuples : u # t => /\ version'[u] = version[u]
                                        /\ installed'[u] = installed[u]
    BY VersionEffect
  <2>2. Writes(c)' = Writes(c) /\ Tid(c)' = Tid(c) /\ Txn(c)' = Txn(c) /\ Writes(c) \subseteq Tuples
    BY <1>1, <1>2, WritesAreTuples DEF Writes, Tid, Txn, CommitInv, LockInv, StateOK
  <2>3. \A u \in Writes(c) : \/ version[u] < Tid(c)
                             \/ version[u] = Tid(c) /\ LastWriter(u) = Txn(c)
    BY <1>2 DEF CommitInv, CoreOK, NewerOK, Past, Modifying
  <2>4. \A u \in Tuples : u # t => LastWriter(u)' = LastWriter(u)
    BY <2>1 DEF LastWriter
  <2>5. ASSUME NEW u \in Writes(c)
        PROVE  \/ version'[u] < Tid(c)
               \/ version'[u] = Tid(c) /\ LastWriter(u)' = Txn(c)
    BY <2>1, <2>2, <2>3, <2>4
  <2> QED BY <2>2, <2>5 DEF NewerOK
<1>4. WriteOK(c)'
  BY <1>2, ElsewhereOK
<1>5. pc'[c] \in Modifying => done'[c] < Len(prog[c].writes)
  <2>1. done[c] < Len(prog[c].writes) /\ done[c] \in Nat
    BY <1>2 DEF CommitInv, CoreOK, PlaceOK, Modifying, TypesOK
  <2> QED BY <1>2, <2>1, WritesNotEmpty DEF Modifying
<1> QED BY <1>1, <1>2, <1>3, <1>4, <1>5, CommitPlace DEF CoreStep, Checks, Modifying

LEMMA UnlockOK ==
  ASSUME CommitInv, TypesOK', NEW c \in Cores, Unlock(c)
  PROVE  CoreOK(c)'
<1>1. /\ UNCHANGED <<prog, read_set, bound, txns>> /\ ~prog[c].snapshot
      /\ read_set[c] \in Seq(ReadRecords) /\ bound[c] = MaxTid
  BY CommitMove
<1>2. pc'[c] \in {"end", "unlock"}
  BY DEF Unlock, Goto, CommitInv, LockInv, StateOK
<1>3. WriteOK(c)' /\ NewerOK(c)'
  BY <1>2, ElsewhereOK DEF Checks, Modifying
<1> QED BY <1>1, <1>2, <1>3, CommitPlace DEF CoreStep, Checks, Modifying

LEMMA MoverOK ==
  ASSUME CommitInv, TidsFit, TypesOK', NEW c \in Cores, CoreStep(c)
  PROVE  CoreOK(c)'
<1>1. CASE ReadHeader(c) \/ ReadVersion(c) \/ ReadValue(c) \/ ReadNext(c)
  BY <1>1, SnapshotReadsOK, ReadHeaderOK, ReadVersionOK, ReadValueOK, NoOlderVersions
<1>2. CASE Begin(c) \/ TakeSnapshot(c) \/ ReadCheck(c) \/ End(c)
  BY <1>2, BeginOK, TakeSnapshotOK, ReadCheckOK, EndOK
<1>3. CASE \/ Lock(c) \/ gen_commit_tid(c) \/ CheckOwn(c) \/ LoadHeader(c)
           \/ CheckLatest(c) \/ Validated(c) \/ MarkModifying(c) \/ StoreValue(c)
           \/ StoreVersion(c) \/ Unlock(c)
  BY <1>3, LockOK, TidOK, ValidationOK, ValidatedOK, MarkOK, StoreValueOK,
     StoreVersionOK, UnlockOK
<1> QED BY <1>1, <1>2, <1>3 DEF CoreStep

\* The steps of the ticker, and stuttering.
LEMMA Undisturbed ==
  ASSUME CommitInv, current_tick_' \in current_tick_ .. MaxTick,
         UNCHANGED <<hdr, version, value, pc, prog, txns, bound, read_set, seen, done,
                     held, last_commit_tid_, installed, decided>>
  PROVE  CommitInv'
<1>1. LockInv'
  BY IdleKeepsLocks DEF CommitInv
<1>2. TypesOK'
  BY DEF CommitInv, TypesOK, Serial
<1>3. EpochsOK'
  <2>1. MaxTick \in Int /\ current_tick_ \in Int
    BY SiloAssumption DEF CommitInv, TypesOK
  <2>2. ASSUME NEW t \in Tuples
        PROVE  EpochId(version[t]) <= current_tick_'
    <3>1. EpochId(version[t]) <= current_tick_ /\ EpochId(version[t]) \in Nat
      BY HeaderTypes, EpochBound, SiloAssumption DEF CommitInv, EpochsOK
    <3> QED BY <2>1, <3>1
  <2>3. ASSUME NEW c \in Cores
        PROVE  EpochId(Tid(c)) <= current_tick_'
    <3>1. Tid(c) \in Nat
      BY DEF CommitInv, TypesOK, Tid
    <3>2. EpochId(Tid(c)) <= current_tick_ /\ EpochId(Tid(c)) \in Nat
      BY <3>1, EpochBound, SiloAssumption DEF CommitInv, EpochsOK
    <3> QED BY <2>1, <3>2
  <2>4. \A c \in Cores : Tid(c)' = Tid(c)
    BY DEF Tid
  <2> QED BY <2>2, <2>3, <2>4 DEF EpochsOK
<1>4. HistoryOK'
  BY DEF CommitInv, HistoryOK, Committed, Serial, Txn
<1>5. ASSUME NEW c \in Cores
      PROVE  CoreOK(c)'
  <2>1. CoreOK(c)
    BY DEF CommitInv
  <2>2. PlaceOK(c)' /\ WriteOK(c)'
    BY <2>1 DEF CoreOK, PlaceOK, WriteOK, Writing, Txn
  <2>3. SeenOK(c)' /\ ReadOK(c)'
    BY <2>1 DEF CoreOK, SeenOK, ReadOK, Reading, LastWriter
  <2>4. NewerOK(c)'
    BY <2>1 DEF CoreOK, NewerOK, Past, Writes, Tid, LastWriter, Txn
  <2> QED BY <2>2, <2>3, <2>4 DEF CoreOK
<1>6. \A t \in Tuples : TupleOK(t)'
  BY DEF CommitInv, TupleOK, HeaderOK, ValueOK, LastWriter, Writing
<1> QED BY <1>1, <1>2, <1>3, <1>4, <1>5, <1>6 DEF CommitInv

LEMMA CommitInvInit == Init => CommitInv
<1> SUFFICES ASSUME Init PROVE CommitInv
  OBVIOUS
<1>1. LockInv
  BY Initially
<1>2. CoreIds \in Nat \ {0} /\ NumIds \in Nat \ {0} /\ MaxTick \in Nat /\ FirstTick \in 2 .. MaxTick
  BY SiloAssumption, FirstTickIs
<1>3. Serial = {} /\ Committed = {}
  BY DEF Init, Serial, Committed
<1>4. MakeTid(0, 1, 1) \in Nat /\ EpochId(MakeTid(0, 1, 1)) <= FirstTick
  <2>1. CASE 1 < NumIds
    <3>1. MakeTid(0, 1, 1) \in Nat /\ EpochId(MakeTid(0, 1, 1)) <= 1
      BY <1>2, <2>1, TidOfEpoch
    <3>2. EpochId(MakeTid(0, 1, 1)) \in Nat
      BY <3>1, EpochBound
    <3> QED BY <1>2, <3>1, <3>2
  <2>2. CASE NumIds = 1
    <3>1. MakeTid(0, 1, 1) = MakeTid(0, 0, 2)
      BY <2>2 DEF MakeTid
    <3>2. MakeTid(0, 0, 2) \in Nat /\ EpochId(MakeTid(0, 0, 2)) <= 2
      BY <1>2, <2>2, TidOfEpoch
    <3>3. EpochId(MakeTid(0, 0, 2)) \in Nat
      BY <3>2, EpochBound
    <3> QED BY <1>2, <3>1, <3>2, <3>3
  <2> QED BY <1>2, <2>1, <2>2
<1>5. TypesOK
  <2>1. current_tick_ \in 2 .. MaxTick
    BY <1>2 DEF Init
  <2>2. version \in [Tuples -> Nat] /\ value \in [Tuples -> Txns \cup {Loader}]
    BY <1>4 DEF Init
  <2>3. /\ txns \in [Cores -> Nat] /\ done \in [Cores -> Nat]
        /\ last_commit_tid_ \in [Cores -> Nat]
        /\ DOMAIN bound = Cores /\ DOMAIN read_set = Cores /\ DOMAIN seen = Cores
    BY DEF Init
  <2>4. installed \in [Tuples -> Seq(Txns)]
    BY DEF Init
  <2> QED BY <1>3, <2>1, <2>2, <2>3, <2>4 DEF TypesOK
<1>6. EpochsOK
  <2>1. EpochId(0) <= FirstTick
    <3>1. MakeTid(0, 0, 0) = 0
      BY <1>2 DEF MakeTid
    <3>2. EpochId(0) <= 0 /\ EpochId(0) \in Nat
      BY <1>2, <3>1, TidOfEpoch, EpochBound
    <3> QED BY <1>2, <3>2
  <2> QED BY <1>4, <2>1 DEF Init, EpochsOK, Tid
<1>7. HistoryOK
  BY <1>3 DEF Init, HistoryOK, ToSet, Modifying
<1>8. ASSUME NEW c \in Cores
      PROVE  CoreOK(c)
  <2>1. pc[c] = "idle" /\ prog[c] = NoProgram /\ read_set[c] = <<>> /\ done[c] = 0
    BY DEF Init
  <2>2. PlaceOK(c)
    <3>1. <<>> \in Seq(ReadRecords) /\ ~NoProgram.snapshot
      BY DEF NoProgram
    <3> QED BY <2>1, <3>1 DEF PlaceOK, Loads, Checks, Modifying
  <2>3. WriteOK(c) /\ SeenOK(c) /\ ReadOK(c) /\ NewerOK(c)
    BY <2>1 DEF WriteOK, SeenOK, ReadOK, NewerOK, Past, Loads, Checks, Modifying
  <2> QED BY <2>2, <2>3 DEF CoreOK
<1>9. ASSUME NEW t \in Tuples
      PROVE  TupleOK(t)
  BY DEF Init, TupleOK, HeaderOK, ValueOK, LastWriter, Idle
<1> QED BY <1>1, <1>5, <1>6, <1>7, <1>8, <1>9 DEF CommitInv

\* The steps of the ticker leave the records and the transactions alone.
TickerStep == Bump \/ Pass \/ Publish

LEMMA TickerMoves ==
  ASSUME CommitInv, TickerStep \/ UNCHANGED vars
  PROVE  /\ current_tick_' \in current_tick_ .. MaxTick
         /\ UNCHANGED <<hdr, version, value, pc, prog, txns, bound, read_set, seen, done,
                        held, last_commit_tid_, installed, decided>>
<1>0. current_tick_ \in 2 .. MaxTick /\ MaxTick \in Nat
  BY SiloAssumption DEF CommitInv, TypesOK
<1>1. CASE Bump
  BY <1>0, <1>1 DEF Bump, records, local, history
<1>2. CASE Pass
  BY <1>0, <1>2 DEF Pass, records, local, history
<1>3. CASE Publish
  BY <1>0, <1>3 DEF Publish, records, local, history
<1>4. CASE UNCHANGED vars
  BY <1>0, <1>4 DEF vars, ticker, records, local, history
<1> QED BY <1>1, <1>2, <1>3, <1>4 DEF TickerStep

LEMMA StepKinds ==
  ASSUME [Next]_vars
  PROVE  TickerStep \/ UNCHANGED vars \/ \E c \in Cores : CoreStep(c)
  BY DEF Next, Finished, TickerStep, CoreStep

LEMMA CommitInvStep ==
  ASSUME CommitInv, TidsFit, NEW c \in Cores, CoreStep(c)
  PROVE  CommitInv'
<1>1. LockInv'
  <2>1. Next
    BY DEF Next, CoreStep
  <2> QED BY <2>1, LockInvInductive DEF CommitInv
<1>2. TypesOK' /\ EpochsOK' /\ HistoryOK'
  BY TypesStep, EpochsStep, HistoryStep
<1>3. hdr' \in [Tuples -> Headers]
  BY <1>1 DEF LockInv, StateOK
<1>4. ASSUME NEW d \in Cores
      PROVE  CoreOK(d)'
  BY <1>2, <1>3, MoverOK, OthersKept
<1>5. \A t \in Tuples : TupleOK(t)'
  BY HeaderKept, ValueKept DEF TupleOK
<1> QED BY <1>1, <1>2, <1>4, <1>5 DEF CommitInv

LEMMA CommitInvInductive == CommitInv /\ TidsFit /\ [Next]_vars => CommitInv'
<1> SUFFICES ASSUME CommitInv, TidsFit, [Next]_vars PROVE CommitInv'
  OBVIOUS
<1>1. CASE TickerStep \/ UNCHANGED vars
  BY <1>1, TickerMoves, Undisturbed
<1>2. ASSUME NEW c \in Cores, CoreStep(c)
      PROVE  CommitInv'
  BY <1>2, CommitInvStep
<1> QED BY <1>1, <1>2, StepKinds

-----------------------------------------------------------------------------
(* The serial order.                                                       *)

LEMMA WritersAreTyped ==
  ASSUME CommitInv, NEW t \in Tuples
  PROVE  /\ Loader \notin Txns /\ installed[t] \in Seq(Txns)
         /\ DOMAIN installed[t] = 1 .. Len(installed[t]) /\ Len(installed[t]) \in Nat
         /\ \A i \in DOMAIN installed[t] :
              /\ installed[t][i] \in Txns /\ installed[t][i] # Loader
              /\ installed[t][i] \in Committed
<1>1. installed[t] \in Seq(Txns)
  BY DEF CommitInv, TypesOK
<1>2. Loader \notin Txns
  BY SiloAssumption DEF Loader, Txns
<1>3. ToSet(installed[t]) \subseteq Committed
  BY DEF CommitInv, HistoryOK
<1>4. \A i \in DOMAIN installed[t] : installed[t][i] \in Txns
  BY <1>1
<1>5. \A i \in DOMAIN installed[t] : installed[t][i] \in Committed
  BY <1>3 DEF ToSet
<1>6. DOMAIN installed[t] = 1 .. Len(installed[t]) /\ Len(installed[t]) \in Nat
  BY <1>1
<1> QED BY <1>1, <1>2, <1>4, <1>5, <1>6

\* A core keeps its part in the order: it does not come to count, and it has not
\* validated more than before.
Keeps(d) ==
  /\ Past(d)' => Past(d) /\ Txn(d)' = Txn(d) /\ held'[d] = held[d]
  /\ pc'[d] \in Checks =>
       pc[d] \in Checks /\ read_set'[d] = read_set[d] /\ done'[d] = done[d]

LEMMA StillKeeps ==
  ASSUME NEW d \in Cores, Still(d)
  PROVE  Keeps(d)
  BY DEF Keeps, Still, Past, Txn

\* What is validated, where no core validates more.
LEMMA ValidKept ==
  ASSUME Serial' = Serial, \A d \in Cores : Keeps(d),
         NEW x, NEW t, NEW v, Valid(x, t, v)'
  PROVE  Valid(x, t, v)
<1>1. CASE \E d \in Serial : d.txn = x /\ <<t, v>> \in d.reads
  BY <1>1 DEF Valid
<1>2. ASSUME NEW d \in Cores, pc'[d] \in Checks, Txn(d)' = x,
             NEW k \in 1 .. done'[d],
             read_set'[d][k].tuple = t, read_set'[d][k].value = v
      PROVE  Valid(x, t, v)
  <2>1. pc[d] \in Checks /\ read_set'[d] = read_set[d] /\ done'[d] = done[d] /\ Txn(d)' = Txn(d)
    BY <1>2 DEF Keeps, Past
  <2> QED BY <1>2, <2>1 DEF Valid
<1> QED BY <1>1, <1>2 DEF Valid

\* The ranks serve on where no transaction comes to count.
LEMMA RankKept ==
  ASSUME NEW n \in Nat, NEW rank \in [Txns -> Nat], RankOK(n, rank),
         Serial' = Serial, UNCHANGED installed, \A d \in Cores : Keeps(d)
  PROVE  RankOK(n, rank)'
<1>1. Ranked' \subseteq Ranked
  BY DEF Ranked, Committed, Keeps
<1>2. \A x \in Ranked' : rank[x] < n
  BY <1>1 DEF RankOK
<1>3. WritersInOrder(rank)'
  BY DEF RankOK, WritersInOrder, Keeps
<1>4. ReadsFollow(rank)'
  BY DEF RankOK, ReadsFollow, Keeps, Past
<1>5. OverwritesFollow(rank)'
  <2> SUFFICES ASSUME NEW x \in Ranked', NEW t \in Tuples, NEW v \in Txns \cup {Loader},
                      Valid(x, t, v)'
               PROVE  /\ \A j \in DOMAIN installed[t] :
                           installed[t][j] # x /\ installed[t][j] # v
                           /\ (v = Loader \/ \E i \in 1 .. j : installed[t][i] = v)
                           => rank[x] < rank[installed[t][j]]
                      /\ \A c \in Cores : Past(c)' /\ t \in held'[c] /\ Txn(c)' # x
                           => rank[x] < rank[Txn(c)']
    BY DEF OverwritesFollow
  <2>1. Valid(x, t, v) /\ x \in Ranked
    BY <1>1, ValidKept
  <2>2. OverwritesFollow(rank)
    BY DEF RankOK
  <2>3. \A c \in Cores : Past(c) /\ t \in held[c] /\ Txn(c) # x => rank[x] < rank[Txn(c)]
    BY <2>1, <2>2 DEF OverwritesFollow
  <2>4. \A c \in Cores : Past(c)' /\ t \in held'[c] /\ Txn(c)' # x => rank[x] < rank[Txn(c)']
    BY <2>3 DEF Keeps
  <2> QED BY <2>1, <2>2, <2>4 DEF OverwritesFollow
<1> QED BY <1>2, <1>3, <1>4, <1>5 DEF RankOK

\* A step that does not bring its transaction to count, nor validates a read, nor
\* decides, nor stores a version.
LEMMA QuietSteps ==
  ASSUME CommitInv, NEW c \in Cores, CoreStep(c), ~Validated(c), ~StoreVersion(c),
         Past(c) \/ ~Past(c)',
         CheckOwn(c) \/ CheckLatest(c) => done'[c] = done[c]
  PROVE  /\ Serial' = Serial /\ UNCHANGED installed
         /\ \A d \in Cores : Keeps(d)
<1>1. Serial' = Serial /\ UNCHANGED installed
  BY SerialStep, Frame
<1>2. ASSUME NEW d \in Cores, d # c
      PROVE  Keeps(d)
  BY <1>2, StepsAreLocal, StillKeeps DEF CommitInv
<1>3. ASSUME Past(c)'
      PROVE  /\ Past(c) /\ Txn(c)' = Txn(c) /\ held'[c] = held[c]
             /\ read_set'[c] = read_set[c] /\ done'[c] = done[c]
  <2>1. Past(c)
    BY <1>3
  <2>2. ~ (\/ Begin(c) \/ TakeSnapshot(c) \/ ReadHeader(c) \/ ReadVersion(c) \/ ReadValue(c)
           \/ ReadNext(c) \/ ReadCheck(c) \/ Lock(c) \/ gen_commit_tid(c) \/ Unlock(c) \/ End(c))
    BY <2>1 DEF Past, Checks, Modifying, Begin, TakeSnapshot, ReadHeader, ReadVersion,
         ReadValue, ReadNext, ReadCheck, Lock, gen_commit_tid, Unlock, End
  <2>3. UNCHANGED <<held, read_set, txns>>
    BY <2>2, Frame
  <2>4. done'[c] = done[c]
    BY <2>2, Frame
  <2> QED BY <2>1, <2>3, <2>4 DEF Txn
<1>4. pc'[c] \in Checks => pc[c] \in Checks
  <2> SUFFICES ASSUME pc'[c] \in Checks, pc[c] \in Modifying
               PROVE  FALSE
    BY DEF Past
  <2>1. ~Begin(c)
    BY DEF Begin, Modifying
  <2>2. pc'[c] \in After
    BY <2>1, AfterStep DEF After
  <2> QED BY <2>2 DEF After, Modifying, Checks
<1>5. Keeps(c)
  BY <1>3, <1>4 DEF Keeps, Past
<1> QED BY <1>1, <1>2, <1>5

LEMMA SerialAreTyped ==
  ASSUME CommitInv, NEW d \in Serial
  PROVE  /\ d.txn \in Txns /\ d.txn \in Committed /\ d.writes \subseteq Tuples
         /\ \A r \in d.reads : /\ r[1] \in Tuples /\ r[2] \in Txns \cup {Loader}
                               /\ r = <<r[1], r[2]>>
<1>1. d \in Decisions
  BY DEF CommitInv, TypesOK
<1>2. d.txn \in Txns /\ d.writes \subseteq Tuples
      /\ d.reads \subseteq Tuples \X (Txns \cup {Loader})
  BY <1>1 DEF Decisions
<1>3. d.txn \in Committed
  BY DEF Committed
<1> QED BY <1>2, <1>3

\* What a transaction has read was written by one that is committed.
LEMMA ReadersFollowCommitted ==
  ASSUME CommitInv, NEW c \in Cores, ~prog[c].snapshot, NEW k \in DOMAIN read_set[c]
  PROVE  \/ read_set[c][k].value = Loader
         \/ read_set[c][k].value \in Committed /\ read_set[c][k].value \in Txns
<1>1. read_set[c][k].tuple \in Tuples /\ read_set[c][k].value \in Txns \cup {Loader}
  BY ReadsAreTyped
<1>2. \/ read_set[c][k].value = Loader
      \/ read_set[c][k].value \in ToSet(installed[read_set[c][k].tuple])
  BY DEF CommitInv, CoreOK, ReadOK
<1> QED BY <1>1, <1>2 DEF CommitInv, HistoryOK

LEMMA RankedAreTyped ==
  ASSUME CommitInv
  PROVE  Committed \subseteq Txns /\ Ranked \subseteq Txns
<1>1. Committed \subseteq Txns
  BY DEF CommitInv, TypesOK, Committed, Decisions
<1>2. \A c \in Cores : Txn(c) \in Txns
  BY DEF CommitInv, TypesOK, Txn, Txns
<1> QED BY <1>1, <1>2 DEF Ranked

\* When a transaction comes to count.
LEMMA Enters ==
  ASSUME CommitInv, NEW c \in Cores, CoreStep(c), ~Past(c), Past(c)'
  PROVE  /\ pc'[c] = "validate" /\ done'[c] = 0 /\ UNCHANGED installed /\ Serial' = Serial
         /\ Txn(c)' \notin Committed /\ Txn(c)' \in Txns
<1>0. /\ pc \in [Cores -> Places] /\ prog \in [Cores -> AllPrograms] /\ PlaceOK(c)
      /\ txns \in [Cores -> Nat] /\ DOMAIN read_set = Cores
  BY DEF CommitInv, LockInv, StateOK, CoreOK, TypesOK
<1>1. ~StoreVersion(c) /\ ~Validated(c)
  BY DEF StoreVersion, Validated, Past, Modifying, Checks
<1>2. UNCHANGED installed /\ Serial' = Serial
  BY <1>1, Frame, SerialStep
<1>3. CASE Begin(c)
  <2>1. pc[c] = "idle" /\ txns'[c] = txns[c] + 1 /\ done' = done
    BY <1>0, <1>3 DEF Begin
  <2>2. pc'[c] = "validate"
    <3>1. \E q \in {"snapshot", "read", "end", "validate", "lock"} : pc'[c] = q
      BY <1>0, <1>3 DEF Begin, Goto, StartReads, AfterReads
    <3> QED BY <3>1 DEF Past, Checks, Modifying
  <2>3. done'[c] = 0
    BY <1>0, <2>1 DEF PlaceOK, Checks, Modifying
  <2>4. <<c, txns[c] + 1>> \notin Committed
    <3>1. txns[c] + 1 \in Nat /\ ~ (txns[c] + 1 <= txns[c])
      BY <1>0
    <3> QED BY <3>1 DEF CommitInv, HistoryOK
  <2> QED BY <1>0, <1>2, <2>1, <2>2, <2>3, <2>4 DEF Txn, Txns
<1>4. CASE ~Begin(c)
  <2>1. gen_commit_tid(c) \/ ReadCheck(c)
    <3>1. ~ (\/ TakeSnapshot(c) \/ ReadHeader(c) \/ ReadVersion(c) \/ ReadValue(c) \/ ReadNext(c))
      <4>1. ~TakeSnapshot(c)
        <5>1. TakeSnapshot(c) => pc'[c] \in {"read", "end"}
          BY <1>0 DEF TakeSnapshot, Goto, StartReads, AfterReads, PlaceOK
        <5> QED BY <5>1 DEF Past, Checks, Modifying
      <4>2. ~ (ReadHeader(c) \/ ReadVersion(c) \/ ReadValue(c) \/ ReadNext(c))
        BY ReadsMove DEF Past, Checks, Modifying
      <4> QED BY <4>1, <4>2
    <3>2. ~ (Lock(c) \/ Unlock(c) \/ End(c))
      BY <1>0 DEF Lock, Unlock, End, Goto, Past, Checks, Modifying
    <3>3. ~ (CheckOwn(c) \/ LoadHeader(c) \/ CheckLatest(c) \/ MarkModifying(c) \/ StoreValue(c))
      BY DEF CheckOwn, LoadHeader, CheckLatest, MarkModifying, StoreValue, Past, Checks, Modifying
    <3> QED BY <1>1, <1>4, <3>1, <3>2, <3>3 DEF CoreStep
  <2>2. pc[c] \in {"tid", "readcheck"} /\ pc'[c] = "validate" /\ done' = done
    <3>1. gen_commit_tid(c) => pc[c] = "tid" /\ pc'[c] = "validate" /\ done' = done
      BY <1>0 DEF gen_commit_tid, Goto
    <3>2. ReadCheck(c) => /\ pc[c] = "readcheck" /\ done' = done
                          /\ pc'[c] \in {"read", "end", "validate", "lock"}
      BY CheckMove DEF AfterReads
    <3> QED BY <2>1, <3>1, <3>2 DEF Past, Checks, Modifying
  <2>3. done'[c] = 0
    BY <1>0, <2>2 DEF PlaceOK, Checks, Modifying
  <2>4. Txn(c)' = Txn(c)
    BY <1>4, Frame DEF Txn
  <2>5. Txn(c) \notin Committed /\ Txn(c) \in Txns
    BY <1>0, <2>2, NotYetCommitted DEF After, Modifying, Txn, Txns
  <2> QED BY <1>2, <2>2, <2>3, <2>4, <2>5
<1> QED BY <1>3, <1>4

\* A transaction that comes to count gets the greatest rank so far.
LEMMA RankEnters ==
  ASSUME CommitInv, CommitInv', NEW c \in Cores, CoreStep(c), ~Past(c), Past(c)',
         NEW n \in Nat, NEW rank \in [Txns -> Nat], RankOK(n, rank)
  PROVE  \E rank2 \in [Txns -> Nat] :
           RankOK(n + 1, rank2)' /\ rank2 = [rank EXCEPT ![Txn(c)'] = n]
<1>1. PICK y \in Txns : y = Txn(c)'
  BY Enters
<1>2. /\ pc'[c] = "validate" /\ done'[c] = 0 /\ UNCHANGED installed /\ Serial' = Serial
      /\ y \notin Committed /\ Committed' = Committed
  BY <1>1, Enters DEF Committed
<1>3. PICK rank2 \in [Txns -> Nat] : rank2 = [rank EXCEPT ![Txn(c)'] = n]
  BY <1>1
<1>4. rank2[y] = n /\ \A x \in Txns : x # y => rank2[x] = rank[x]
  BY <1>1, <1>3
<1>5. ASSUME NEW d \in Cores, d # c
      PROVE  Still(d) /\ Txn(d)' = Txn(d) /\ Txn(d) # y /\ Txn(d) \in Txns
  <2>1. Still(d)
    BY <1>5, StepsAreLocal DEF CommitInv
  <2>2. Txn(d)' = Txn(d)
    BY <2>1 DEF Still, Txn
  <2>3. Txn(d) # y /\ Txn(d) \in Txns
    BY <1>1, <1>5 DEF Txn, Txns, CommitInv, TypesOK
  <2> QED BY <2>1, <2>2, <2>3
<1>6. /\ Ranked \subseteq Txns /\ Committed \subseteq Ranked /\ y \notin Ranked
      /\ Ranked' \subseteq Ranked \cup {y}
  <2>1. Ranked \subseteq Txns /\ Committed \subseteq Ranked
    BY RankedAreTyped DEF Ranked
  <2>2. y \notin Ranked
    BY <1>2, <1>5 DEF Ranked
  <2>3. \A d \in Cores : Past(d)' => Txn(d)' = y \/ (Past(d) /\ Txn(d)' = Txn(d))
    BY <1>1, <1>5 DEF Still, Past
  <2>4. Ranked' \subseteq Ranked \cup {y}
    BY <1>2, <2>3 DEF Ranked
  <2> QED BY <2>1, <2>2, <2>4
<1>7. \A x \in Ranked : rank2[x] = rank[x] /\ rank[x] < n /\ rank2[x] \in Nat
  BY <1>4, <1>6 DEF RankOK
<1>8. \A t \in Tuples : \A i \in DOMAIN installed[t] :
        installed[t][i] \in Ranked /\ installed[t][i] # y
  BY <1>2, <1>6, WritersAreTyped
<1>9. \A x \in Ranked' : rank2[x] < n + 1
  BY <1>4, <1>6, <1>7
<1>10. WritersInOrder(rank2)'
  <2>1. ASSUME NEW t \in Tuples, NEW i \in DOMAIN installed[t], NEW j \in DOMAIN installed[t],
               i < j
        PROVE  \/ installed[t][i] = installed[t][j]
               \/ rank2[installed[t][i]] < rank2[installed[t][j]]
    <3>1. \/ installed[t][i] = installed[t][j]
          \/ rank[installed[t][i]] < rank[installed[t][j]]
      BY <2>1 DEF RankOK, WritersInOrder
    <3> QED BY <3>1, <1>7, <1>8
  <2>2. ASSUME NEW d \in Cores, Past(d)', NEW t \in held'[d], NEW i \in DOMAIN installed[t]
        PROVE  \/ installed[t][i] = Txn(d)'
               \/ rank2[installed[t][i]] < rank2[Txn(d)']
    <3>0. t \in Tuples
      <4>1. held' \in [Cores -> SUBSET Tuples]
        BY DEF CommitInv, LockInv, StateOK
      <4> QED BY <4>1
    <3>1. CASE d = c
      BY <1>1, <1>4, <1>7, <1>8, <3>0, <3>1
    <3>2. CASE d # c
      <4>1. Past(d) /\ held'[d] = held[d] /\ Txn(d)' = Txn(d)
        BY <1>5, <2>2, <3>2 DEF Still, Past
      <4>2. \/ installed[t][i] = Txn(d)
            \/ rank[installed[t][i]] < rank[Txn(d)]
        BY <4>1 DEF RankOK, WritersInOrder
      <4>3. Txn(d) \in Ranked
        BY <4>1 DEF Ranked
      <4> QED BY <1>7, <1>8, <3>0, <4>1, <4>2, <4>3
    <3> QED BY <3>1, <3>2
  <2> QED BY <1>2, <2>1, <2>2 DEF WritersInOrder
<1>11. ReadsFollow(rank2)'
  <2>1. ASSUME NEW d \in Serial, NEW r \in d.reads
        PROVE  \/ r[2] = Loader
               \/ r[2] \in ToSet(installed[r[1]]) /\ rank2[r[2]] < rank2[d.txn]
    <3>1. \/ r[2] = Loader
          \/ r[2] \in ToSet(installed[r[1]]) /\ rank[r[2]] < rank[d.txn]
      BY DEF RankOK, ReadsFollow
    <3>2. d.txn \in Ranked
      BY <1>6 DEF Committed
    <3>3. r[1] \in Tuples
      BY SerialAreTyped
    <3>4. r[2] \in ToSet(installed[r[1]]) => r[2] \in Ranked
      BY <1>8, <3>3 DEF ToSet
    <3> QED BY <1>7, <3>1, <3>2, <3>4
  <2>2. ASSUME NEW d \in Cores, pc'[d] \in Checks, NEW k \in DOMAIN read_set'[d]
        PROVE  \/ read_set'[d][k].value = Loader
               \/ rank2[read_set'[d][k].value] < rank2[Txn(d)']
    <3>1. CASE d = c
      <4>1. ~prog'[c].snapshot
        <5>1. CoreOK(c)'
          BY DEF CommitInv
        <5> QED BY <1>2, <5>1 DEF CoreOK, PlaceOK, Free
      <4>2. PICK v : v = read_set'[c][k].value
        OBVIOUS
      <4>3. v = Loader \/ (v \in Committed' /\ v \in Txns)
        <5>1. PlaceOK(c)' /\ ReadOK(c)' /\ HistoryOK'
          BY DEF CommitInv, CoreOK
        <5>2. PICK r \in ReadRecords : r = read_set'[c][k]
          BY <2>2, <3>1, <4>1, <5>1 DEF PlaceOK
        <5>3. r.value = Loader \/ r.value \in ToSet(installed'[r.tuple])
          BY <2>2, <3>1, <4>1, <5>1, <5>2 DEF ReadOK
        <5>4. r.tuple \in Tuples /\ r.value \in Txns \cup {Loader}
          BY <5>2 DEF ReadRecords
        <5> QED BY <4>2, <5>1, <5>2, <5>3, <5>4 DEF HistoryOK
      <4> QED BY <1>1, <1>2, <1>4, <1>6, <1>7, <3>1, <4>2, <4>3
    <3>2. CASE d # c
      <4>1. pc[d] \in Checks /\ read_set'[d] = read_set[d] /\ Txn(d)' = Txn(d)
        BY <1>5, <2>2, <3>2 DEF Still
      <4>2. \/ read_set[d][k].value = Loader
            \/ rank[read_set[d][k].value] < rank[Txn(d)]
        BY <2>2, <4>1 DEF RankOK, ReadsFollow
      <4>3. ~prog[d].snapshot /\ Txn(d) \in Ranked
        BY <4>1, PastHolds DEF Past, Ranked
      <4>4. read_set[d][k].value = Loader \/ read_set[d][k].value \in Committed
        BY <2>2, <4>1, <4>3, ReadersFollowCommitted
      <4> QED BY <1>6, <1>7, <4>1, <4>2, <4>3, <4>4
    <3> QED BY <3>1, <3>2
  <2> QED BY <1>2, <2>1, <2>2 DEF ReadsFollow
<1>12. OverwritesFollow(rank2)'
  <2> SUFFICES ASSUME NEW x \in Ranked', NEW t \in Tuples, NEW v \in Txns \cup {Loader},
                      Valid(x, t, v)'
               PROVE  /\ \A j \in DOMAIN installed[t] :
                           installed[t][j] # x /\ installed[t][j] # v
                           /\ (v = Loader \/ \E i \in 1 .. j : installed[t][i] = v)
                           => rank2[x] < rank2[installed[t][j]]
                      /\ \A d \in Cores : Past(d)' /\ t \in held'[d] /\ Txn(d)' # x
                           => rank2[x] < rank2[Txn(d)']
    BY <1>2 DEF OverwritesFollow
  <2>1. Valid(x, t, v) /\ x # y
    <3>1. CASE \E d \in Serial : d.txn = x /\ <<t, v>> \in d.reads
      <4>1. x \in Committed
        BY <3>1 DEF Committed
      <4> QED BY <1>2, <3>1, <4>1 DEF Valid
    <3>2. ASSUME NEW d \in Cores, pc'[d] \in Checks, Txn(d)' = x,
                 NEW k \in 1 .. done'[d],
                 read_set'[d][k].tuple = t, read_set'[d][k].value = v
          PROVE  Valid(x, t, v) /\ x # y
      <4>1. d # c
        BY <1>2, <3>2
      <4>2. Still(d) /\ Txn(d)' = Txn(d) /\ Txn(d) # y
        BY <1>5, <4>1
      <4> QED BY <3>2, <4>2 DEF Valid, Still
    <3> QED BY <1>2, <3>1, <3>2 DEF Valid
  <2>2. x \in Ranked
    BY <1>6, <2>1
  <2>3. /\ \A j \in DOMAIN installed[t] :
             installed[t][j] # x /\ installed[t][j] # v
             /\ (v = Loader \/ \E i \in 1 .. j : installed[t][i] = v)
             => rank[x] < rank[installed[t][j]]
        /\ \A d \in Cores : Past(d) /\ t \in held[d] /\ Txn(d) # x => rank[x] < rank[Txn(d)]
    BY <2>1, <2>2 DEF RankOK, OverwritesFollow
  <2>4. ASSUME NEW d \in Cores, Past(d)', t \in held'[d], Txn(d)' # x
        PROVE  rank2[x] < rank2[Txn(d)']
    <3>1. CASE d = c
      BY <1>1, <1>4, <1>7, <2>2, <3>1
    <3>2. CASE d # c
      <4>1. Past(d) /\ held'[d] = held[d] /\ Txn(d)' = Txn(d)
        BY <1>5, <2>4, <3>2 DEF Still, Past
      <4>2. Txn(d) \in Ranked
        BY <4>1 DEF Ranked
      <4> QED BY <1>7, <2>2, <2>3, <2>4, <4>1, <4>2
    <3> QED BY <3>1, <3>2
  <2>5. ASSUME NEW j \in DOMAIN installed[t],
               installed[t][j] # x /\ installed[t][j] # v
               /\ (v = Loader \/ \E i \in 1 .. j : installed[t][i] = v)
        PROVE  rank2[x] < rank2[installed[t][j]]
    <3>1. rank[x] < rank[installed[t][j]]
      BY <2>3, <2>5
    <3> QED BY <1>7, <1>8, <2>2, <3>1
  <2> QED BY <2>4, <2>5
<1> QED BY <1>3, <1>9, <1>10, <1>11, <1>12 DEF RankOK

\* A read that passes its check is of the version that is the newest now, and no
\* other core is about to overwrite it.
LEMMA ChecksTheNewest ==
  ASSUME CommitInv, NEW c \in Cores, CheckOwn(c) \/ CheckLatest(c),
         done'[c] # done[c]
  PROVE  \E k \in DOMAIN read_set[c], t \in Tuples, v \in Txns \cup {Loader} :
           /\ k = done[c] + 1 /\ done'[c] = k /\ pc'[c] = "validate"
           /\ t = read_set[c][k].tuple /\ v = read_set[c][k].value
           /\ v = LastWriter(t) /\ \A d \in Cores : d # c => t \notin held[d]
<1>1. /\ Past(c) /\ pc[c] \in Checks /\ pc'[c] = "validate" /\ done'[c] = done[c] + 1
      /\ done[c] < Len(read_set[c]) /\ version[Checking(c).tuple] <= Checking(c).tid
  BY ValidationMove DEF LoadHeader
<1>2. ~prog[c].snapshot /\ read_set[c] \in Seq(ReadRecords) /\ done[c] \in Nat
  BY CommitMove DEF CommitInv, TypesOK
<1>3. PICK k \in DOMAIN read_set[c] : k = done[c] + 1
  BY <1>1, <1>2
<1>4. PICK t \in Tuples : t = read_set[c][k].tuple
  BY <1>2, ReadsAreTyped
<1>5. PICK v \in Txns \cup {Loader} : v = read_set[c][k].value
  BY <1>2, ReadsAreTyped
<1>6. v = LastWriter(t)
  <2>1. /\ read_set[c][k].tid <= version[t]
        /\ read_set[c][k].tid = version[t] => v = LastWriter(t)
    BY <1>2, <1>4, <1>5 DEF CommitInv, CoreOK, ReadOK
  <2>2. version[t] <= read_set[c][k].tid
    BY <1>1, <1>3, <1>4 DEF Checking
  <2>3. version[t] \in Nat /\ read_set[c][k].tid \in Nat
    BY <1>2, HeaderTypes, ReadsAreTyped
  <2> QED BY <2>1, <2>2, <2>3
<1>7. \A d \in Cores : d # c => t \notin held[d]
  <2>1. CASE CheckOwn(c)
    <3>1. t \in held[c]
      BY <1>1, <1>3, <1>4, <2>1, PastHolds DEF CheckOwn, Checking
    <3> QED BY <3>1 DEF CommitInv, LockInv, Exclusive
  <2>2. CASE CheckLatest(c)
    <3>1. hdr[t] = seen[c].hdr /\ pc[c] = "check"
      BY <1>1, <1>2, <1>3, <1>4, <2>2 DEF CheckLatest, Checking, writer_check_version
    <3>2. ~hdr[t].intent
      BY <3>1 DEF CommitInv, CoreOK, PlaceOK
    <3>3. ~hdr[t].locked
      BY <3>2, HeaderTypes
    <3> QED BY <3>3 DEF CommitInv, LockInv, LockedIffHeld
  <2> QED BY <2>1, <2>2
<1> QED BY <1>1, <1>3, <1>4, <1>5, <1>6, <1>7

\* Nobody has overwritten what the last writer wrote.
LEMMA NotOverwritten ==
  ASSUME CommitInv, NEW t \in Tuples, NEW rank \in [Txns -> Nat], WritersInOrder(rank),
         NEW j \in DOMAIN installed[t], installed[t][j] # LastWriter(t),
         \/ LastWriter(t) = Loader
         \/ \E i \in 1 .. j : installed[t][i] = LastWriter(t)
  PROVE  FALSE
<1>1. /\ Loader \notin Txns /\ DOMAIN installed[t] = 1 .. Len(installed[t])
      /\ Len(installed[t]) \in Nat
      /\ \A i \in DOMAIN installed[t] : installed[t][i] \in Txns /\ installed[t][i] # Loader
  BY WritersAreTyped
<1>2. PICK l \in DOMAIN installed[t] : l = Len(installed[t])
  BY <1>1
<1>3. LastWriter(t) = installed[t][l]
  BY <1>1, <1>2 DEF LastWriter, Last
<1>4. PICK i \in 1 .. j : installed[t][i] = installed[t][l]
  BY <1>1, <1>3
<1>5. i \in DOMAIN installed[t] /\ i < j /\ j < l
  <2>1. i # j /\ j # l
    BY <1>3, <1>4
  <2> QED BY <1>1, <1>2, <2>1
<1>6. /\ rank[installed[t][i]] < rank[installed[t][j]]
      /\ rank[installed[t][j]] < rank[installed[t][l]]
  BY <1>3, <1>4, <1>5 DEF WritersInOrder
<1>7. rank[installed[t][j]] \in Nat /\ rank[installed[t][l]] \in Nat
  BY <1>1
<1> QED BY <1>4, <1>6, <1>7

LEMMA RankChecks ==
  ASSUME CommitInv, NEW c \in Cores, CheckOwn(c) \/ CheckLatest(c),
         done'[c] # done[c],
         NEW n \in Nat, NEW rank \in [Txns -> Nat], RankOK(n, rank)
  PROVE  RankOK(n, rank)'
<1>1. PICK k \in DOMAIN read_set[c], t0 \in Tuples, v0 \in Txns \cup {Loader} :
        /\ k = done[c] + 1 /\ done'[c] = k /\ pc'[c] = "validate"
        /\ t0 = read_set[c][k].tuple /\ v0 = read_set[c][k].value
        /\ v0 = LastWriter(t0) /\ \A d \in Cores : d # c => t0 \notin held[d]
  BY ChecksTheNewest
<1>2. /\ Past(c) /\ pc[c] \in Checks /\ UNCHANGED <<held, installed, read_set, txns>>
      /\ Serial' = Serial /\ Committed' = Committed /\ done[c] \in Nat
  BY ValidationMove, CommitMove DEF Serial, Committed, CommitInv, TypesOK
<1>3. ASSUME NEW d \in Cores, d # c
      PROVE  Still(d)
  BY <1>3, StepsAreLocal DEF CommitInv, CoreStep
<1>4. \A d \in Cores : /\ Past(d)' = Past(d) /\ Txn(d)' = Txn(d)
                       /\ held'[d] = held[d] /\ read_set'[d] = read_set[d]
                       /\ pc'[d] \in Checks <=> pc[d] \in Checks
  <2>1. Past(c)' = Past(c) /\ (pc'[c] \in Checks <=> pc[c] \in Checks)
    BY <1>1, <1>2 DEF Past, Checks, Modifying
  <2>2. \A d \in Cores : Txn(d)' = Txn(d)
    BY <1>2 DEF Txn
  <2>3. \A d \in Cores : d # c => pc'[d] = pc[d]
    BY <1>3 DEF Still
  <2> QED BY <1>2, <2>1, <2>2, <2>3 DEF Past
<1>5. Ranked' = Ranked
  BY <1>2, <1>4 DEF Ranked
<1>6. WritersInOrder(rank)' /\ ReadsFollow(rank)'
  <2>1. WritersInOrder(rank)'
    BY <1>2, <1>4 DEF RankOK, WritersInOrder
  <2>2. ReadsFollow(rank)'
    BY <1>2, <1>4 DEF RankOK, ReadsFollow
  <2> QED BY <2>1, <2>2
<1>7. OverwritesFollow(rank)'
  <2> SUFFICES ASSUME NEW x \in Ranked, NEW t \in Tuples, NEW v \in Txns \cup {Loader},
                      Valid(x, t, v)'
               PROVE  /\ \A j \in DOMAIN installed[t] :
                           installed[t][j] # x /\ installed[t][j] # v
                           /\ (v = Loader \/ \E i \in 1 .. j : installed[t][i] = v)
                           => rank[x] < rank[installed[t][j]]
                      /\ \A d \in Cores : Past(d) /\ t \in held[d] /\ Txn(d) # x
                           => rank[x] < rank[Txn(d)]
    BY <1>2, <1>4, <1>5 DEF OverwritesFollow
  <2>1. CASE Valid(x, t, v)
    BY <2>1 DEF RankOK, OverwritesFollow
  <2>2. CASE x = Txn(c) /\ t = t0 /\ v = v0
    <3>0. WritersInOrder(rank) /\ v = LastWriter(t)
      BY <1>1, <2>2 DEF RankOK
    <3>1. ASSUME NEW j \in DOMAIN installed[t], installed[t][j] # v,
                 v = Loader \/ \E i \in 1 .. j : installed[t][i] = v
          PROVE  FALSE
      BY <3>0, <3>1, NotOverwritten
    <3>2. \A d \in Cores : t \in held[d] => Txn(d) = x
      BY <1>1, <2>2
    <3> QED BY <3>1, <3>2
  <2>3. Valid(x, t, v) \/ (x = Txn(c) /\ t = t0 /\ v = v0)
    <3>1. CASE \E d \in Serial : d.txn = x /\ <<t, v>> \in d.reads
      BY <3>1 DEF Valid
    <3>2. ASSUME NEW d \in Cores, pc'[d] \in Checks, Txn(d)' = x,
                 NEW m \in 1 .. done'[d],
                 read_set'[d][m].tuple = t, read_set'[d][m].value = v
          PROVE  Valid(x, t, v) \/ (x = Txn(c) /\ t = t0 /\ v = v0)
      <4>1. CASE d # c
        BY <1>3, <1>4, <3>2, <4>1 DEF Valid, Still
      <4>2. CASE d = c /\ m = k
        BY <1>1, <1>4, <3>2, <4>2
      <4>3. CASE d = c /\ m # k
        <5>1. m \in 1 .. done[c]
          BY <1>1, <1>2, <3>2, <4>3
        <5> QED BY <1>2, <1>4, <3>2, <4>3, <5>1 DEF Valid
      <4> QED BY <4>1, <4>2, <4>3
    <3> QED BY <1>2, <3>1, <3>2 DEF Valid
  <2> QED BY <2>1, <2>2, <2>3
<1> QED BY <1>5, <1>6, <1>7 DEF RankOK

LEMMA RankValidated ==
  ASSUME CommitInv, NEW c \in Cores, Validated(c),
         NEW n \in Nat, NEW rank \in [Txns -> Nat], RankOK(n, rank)
  PROVE  RankOK(n, rank)'
<1>1. /\ pc[c] = "validate" /\ Past(c) /\ done[c] = Len(read_set[c])
      /\ pc'[c] \in {"write", "end"} /\ UNCHANGED <<held, installed, read_set, txns>>
  BY DEF Validated, Past, Checks, Goto, Committing, local, CommitInv, LockInv, StateOK
<1>2. /\ Serial' = Serial \cup {Decision(c)} /\ Committed' = Committed \cup {Txn(c)}
      /\ Decision(c).txn = Txn(c)
      /\ Decision(c).reads = {<<r.tuple, r.value>> : r \in ToSet(read_set[c])}
  <2>1. decided' = decided \cup {Decision(c)} /\ ~Decision(c).snapshot
    BY DEF Validated, Decision
  <2>2. /\ Decision(c).txn = Txn(c)
        /\ Decision(c).reads = {<<r.tuple, r.value>> : r \in ToSet(read_set[c])}
    BY DEF Decision
  <2> HIDE DEF Decision
  <2>3. Serial' = Serial \cup {Decision(c)}
    BY <2>1 DEF Serial
  <2> QED BY <2>2, <2>3 DEF Committed
<1> HIDE DEF Decision
<1>3. \A r \in Decision(c).reads : \E k \in DOMAIN read_set[c] :
        r = <<read_set[c][k].tuple, read_set[c][k].value>>
  BY <1>2 DEF ToSet
<1>4. /\ ~prog[c].snapshot /\ read_set[c] \in Seq(ReadRecords)
      /\ DOMAIN read_set[c] = 1 .. done[c]
  BY <1>1, CommitMove
<1>5. \A d \in Cores : /\ Past(d)' => Past(d)
                       /\ Txn(d)' = Txn(d) /\ held'[d] = held[d]
                       /\ pc'[d] \in Checks => d # c /\ pc[d] \in Checks /\ Still(d)
  <2>1. \A d \in Cores : d # c => Still(d)
    BY StepsAreLocal DEF CommitInv, CoreStep
  <2> QED BY <1>1, <2>1 DEF Past, Checks, Modifying, Still, Txn
<1>6. Ranked' \subseteq Ranked /\ Txn(c) \in Ranked
  BY <1>1, <1>2, <1>5 DEF Ranked
<1>7. WritersInOrder(rank)'
  BY <1>1, <1>5 DEF RankOK, WritersInOrder
<1>8. ReadsFollow(rank)'
  <2>1. ASSUME NEW r \in Decision(c).reads
        PROVE  \/ r[2] = Loader
               \/ r[2] \in ToSet(installed[r[1]]) /\ rank[r[2]] < rank[Txn(c)]
    <3>1. PICK k \in DOMAIN read_set[c] : r = <<read_set[c][k].tuple, read_set[c][k].value>>
      BY <1>3
    <3>2. \/ read_set[c][k].value = Loader
          \/ rank[read_set[c][k].value] < rank[Txn(c)]
      BY <1>1 DEF RankOK, ReadsFollow, Checks
    <3>3. \/ read_set[c][k].value = Loader
          \/ read_set[c][k].value \in ToSet(installed[read_set[c][k].tuple])
      BY <1>4 DEF CommitInv, CoreOK, ReadOK
    <3>4. r[1] = read_set[c][k].tuple /\ r[2] = read_set[c][k].value
      BY <3>1
    <3> QED BY <3>2, <3>3, <3>4
  <2>2. \A d \in Serial : \A r \in d.reads :
          \/ r[2] = Loader
          \/ r[2] \in ToSet(installed[r[1]]) /\ rank[r[2]] < rank[d.txn]
    BY DEF RankOK, ReadsFollow
  <2>3. ASSUME NEW d \in Cores, pc'[d] \in Checks, NEW k \in DOMAIN read_set'[d]
        PROVE  \/ read_set'[d][k].value = Loader
               \/ rank[read_set'[d][k].value] < rank[Txn(d)']
    <3>1. read_set'[d] = read_set[d] /\ pc[d] \in Checks /\ Txn(d)' = Txn(d)
      BY <1>5, <2>3 DEF Still
    <3> QED BY <2>3, <3>1 DEF RankOK, ReadsFollow
  <2> QED BY <1>1, <1>2, <2>1, <2>2, <2>3 DEF ReadsFollow
<1>9. OverwritesFollow(rank)'
  <2> SUFFICES ASSUME NEW x \in Ranked, NEW t \in Tuples, NEW v \in Txns \cup {Loader},
                      Valid(x, t, v)'
               PROVE  Valid(x, t, v)
    <3>1. \A x \in Ranked', t \in Tuples, v \in Txns \cup {Loader} :
            Valid(x, t, v)' => Valid(x, t, v) /\ x \in Ranked
      BY <1>6
    <3>2. OverwritesFollow(rank)
      BY DEF RankOK
    <3> QED BY <1>1, <1>5, <3>1, <3>2 DEF OverwritesFollow
  <2>1. CASE \E d \in Serial : d.txn = x /\ <<t, v>> \in d.reads
    BY <2>1 DEF Valid
  <2>2. CASE x = Txn(c) /\ <<t, v>> \in Decision(c).reads
    <3>1. PICK k \in DOMAIN read_set[c] : <<t, v>> = <<read_set[c][k].tuple, read_set[c][k].value>>
      BY <1>3, <2>2
    <3>2. k \in 1 .. done[c] /\ t = read_set[c][k].tuple /\ v = read_set[c][k].value
      BY <1>4, <3>1
    <3> QED BY <1>1, <2>2, <3>2 DEF Valid, Checks
  <2>3. ASSUME NEW d \in Cores, pc'[d] \in Checks, Txn(d)' = x,
               NEW m \in 1 .. done'[d],
               read_set'[d][m].tuple = t, read_set'[d][m].value = v
        PROVE  Valid(x, t, v)
    BY <1>5, <2>3 DEF Valid, Still
  <2> QED BY <1>2, <2>1, <2>2, <2>3 DEF Valid
<1>10. \A x \in Ranked' : rank[x] < n
  BY <1>6 DEF RankOK
<1> QED BY <1>7, <1>8, <1>9, <1>10 DEF RankOK

LEMMA RankStores ==
  ASSUME CommitInv, NEW c \in Cores, StoreVersion(c),
         NEW n \in Nat, NEW rank \in [Txns -> Nat], RankOK(n, rank)
  PROVE  RankOK(n, rank)'
<1>1. PICK t0 \in Tuples :
        /\ t0 \in held[c] /\ \A d \in Cores : d # c => t0 \notin held[d]
        /\ installed'[t0] = Append(installed[t0], Txn(c))
        /\ \A u \in Tuples : u # t0 => installed'[u] = installed[u]
  BY VersionEffect
<1>2. /\ pc[c] = "writetid" /\ pc'[c] \in {"write", "unlock"}
      /\ UNCHANGED <<held, read_set, txns>> /\ Serial' = Serial /\ Committed' = Committed
  BY DEF StoreVersion, Goto, Committing, local, CommitInv, LockInv, StateOK, Serial, Committed
<1>3. \A d \in Cores : /\ Past(d)' => Past(d)
                       /\ Txn(d)' = Txn(d) /\ held'[d] = held[d]
                       /\ pc'[d] \in Checks => d # c /\ pc[d] \in Checks /\ Still(d)
  <2>1. \A d \in Cores : d # c => Still(d)
    BY StepsAreLocal DEF CommitInv, CoreStep
  <2> QED BY <1>2, <2>1 DEF Past, Checks, Modifying, Still, Txn
<1>4. Past(c) /\ Ranked' \subseteq Ranked
  BY <1>2, <1>3 DEF Ranked, Past, Modifying
<1>5. PICK l \in Nat : l = Len(installed[t0])
  BY WritersAreTyped
<1>6. /\ DOMAIN installed[t0] = 1 .. l /\ DOMAIN installed'[t0] = 1 .. l + 1
      /\ installed'[t0][l + 1] = Txn(c)
      /\ \A i \in 1 .. l : installed'[t0][i] = installed[t0][i]
  <2>1. installed[t0] \in Seq(Txns) /\ Txn(c) \in Txns
    BY WritersAreTyped DEF CommitInv, TypesOK, Txn, Txns
  <2> QED BY <1>1, <1>5, <2>1
\* A writer is an old one, or it is this transaction.
<1>7. ASSUME NEW t \in Tuples, NEW i \in DOMAIN installed'[t]
      PROVE  \/ i \in DOMAIN installed[t] /\ installed'[t][i] = installed[t][i]
             \/ t = t0 /\ i = l + 1 /\ installed'[t][i] = Txn(c)
  <2>1. CASE t = t0
    <3>1. i \in 1 .. l \/ i = l + 1
      BY <1>6, <2>1
    <3> QED BY <1>6, <2>1, <3>1
  <2>2. CASE t # t0
    BY <1>1, <2>2
  <2> QED BY <2>1, <2>2
<1>8. WritersInOrder(rank)'
  <2>0. WritersInOrder(rank)
    BY DEF RankOK
  <2>1. ASSUME NEW t \in Tuples, NEW i \in DOMAIN installed'[t], NEW j \in DOMAIN installed'[t],
               i < j
        PROVE  \/ installed'[t][i] = installed'[t][j]
               \/ rank[installed'[t][i]] < rank[installed'[t][j]]
    <3>1. CASE j \in DOMAIN installed[t] /\ installed'[t][j] = installed[t][j]
      <4>1. i \in DOMAIN installed[t] /\ installed'[t][i] = installed[t][i]
        <5>1. ~ (t = t0 /\ i = l + 1)
          BY <1>6, <2>1, <3>1
        <5> QED BY <1>7, <5>1
      <4> QED BY <2>0, <2>1, <3>1, <4>1 DEF WritersInOrder
    <3>2. CASE t = t0 /\ j = l + 1 /\ installed'[t][j] = Txn(c)
      <4>1. i \in DOMAIN installed[t] /\ installed'[t][i] = installed[t][i]
        <5>1. i # l + 1
          BY <1>6, <2>1, <3>2
        <5> QED BY <1>7, <5>1
      <4> QED BY <1>1, <1>4, <2>0, <3>2, <4>1 DEF WritersInOrder
    <3> QED BY <1>7, <3>1, <3>2
  <2>2. ASSUME NEW d \in Cores, Past(d)', NEW t \in held'[d], NEW i \in DOMAIN installed'[t]
        PROVE  installed'[t][i] = Txn(d)' \/ rank[installed'[t][i]] < rank[Txn(d)']
    <3>1. Past(d) /\ Txn(d)' = Txn(d) /\ t \in held[d] /\ t \in Tuples
      BY <1>3, <2>2 DEF CommitInv, LockInv, StateOK
    <3>2. CASE i \in DOMAIN installed[t] /\ installed'[t][i] = installed[t][i]
      BY <2>0, <3>1, <3>2 DEF WritersInOrder
    <3>3. CASE t = t0 /\ installed'[t][i] = Txn(c)
      BY <1>1, <3>1, <3>3
    <3> QED BY <1>7, <3>1, <3>2, <3>3
  <2> QED BY <2>1, <2>2 DEF WritersInOrder
<1>9. ReadsFollow(rank)'
  <2>0. ReadsFollow(rank)
    BY DEF RankOK
  <2>1. ASSUME NEW d \in Serial, NEW r \in d.reads
        PROVE  \/ r[2] = Loader
               \/ r[2] \in ToSet(installed'[r[1]]) /\ rank[r[2]] < rank[d.txn]
    <3>1. r[1] \in Tuples
      BY SerialAreTyped
    <3>2. ToSet(installed[r[1]]) \subseteq ToSet(installed'[r[1]])
      BY <3>1, RecordSteps DEF CoreStep, RecordStep
    <3> QED BY <2>0, <3>2 DEF ReadsFollow
  <2>2. ASSUME NEW d \in Cores, pc'[d] \in Checks, NEW k \in DOMAIN read_set'[d]
        PROVE  \/ read_set'[d][k].value = Loader
               \/ rank[read_set'[d][k].value] < rank[Txn(d)']
    <3>1. read_set'[d] = read_set[d] /\ pc[d] \in Checks /\ Txn(d)' = Txn(d)
      BY <1>3, <2>2 DEF Still
    <3> QED BY <2>0, <2>2, <3>1 DEF ReadsFollow
  <2> QED BY <1>2, <2>1, <2>2 DEF ReadsFollow
<1>10. OverwritesFollow(rank)'
  <2> SUFFICES ASSUME NEW x \in Ranked, NEW t \in Tuples, NEW v \in Txns \cup {Loader},
                      Valid(x, t, v)'
               PROVE  /\ \A j \in DOMAIN installed'[t] :
                           installed'[t][j] # x /\ installed'[t][j] # v
                           /\ (v = Loader \/ \E i \in 1 .. j : installed'[t][i] = v)
                           => rank[x] < rank[installed'[t][j]]
                      /\ \A d \in Cores : Past(d)' /\ t \in held'[d] /\ Txn(d)' # x
                           => rank[x] < rank[Txn(d)']
    BY <1>4 DEF OverwritesFollow
  <2>1. Valid(x, t, v)
    <3>1. CASE \E d \in Serial : d.txn = x /\ <<t, v>> \in d.reads
      BY <3>1 DEF Valid
    <3>2. ASSUME NEW d \in Cores, pc'[d] \in Checks, Txn(d)' = x,
                 NEW m \in 1 .. done'[d],
                 read_set'[d][m].tuple = t, read_set'[d][m].value = v
          PROVE  Valid(x, t, v)
      BY <1>3, <3>2 DEF Valid, Still
    <3> QED BY <1>2, <3>1, <3>2 DEF Valid
  <2>2. /\ \A j \in DOMAIN installed[t] :
             installed[t][j] # x /\ installed[t][j] # v
             /\ (v = Loader \/ \E i \in 1 .. j : installed[t][i] = v)
             => rank[x] < rank[installed[t][j]]
        /\ \A d \in Cores : Past(d) /\ t \in held[d] /\ Txn(d) # x
             => rank[x] < rank[Txn(d)]
    BY <2>1 DEF RankOK, OverwritesFollow
  <2>3. ASSUME NEW j \in DOMAIN installed'[t],
               installed'[t][j] # x, installed'[t][j] # v,
               v = Loader \/ \E i \in 1 .. j : installed'[t][i] = v
        PROVE  rank[x] < rank[installed'[t][j]]
    <3>1. CASE t = t0 /\ installed'[t][j] = Txn(c)
      BY <1>1, <1>4, <2>2, <2>3, <3>1
    <3>2. CASE j \in DOMAIN installed[t] /\ installed'[t][j] = installed[t][j] /\ ~ (t = t0 /\ j = l + 1)
      <4>1. \A i \in 1 .. j : installed'[t][i] = installed[t][i]
        <5>1. CASE t = t0
          <6>1. j \in 1 .. l
            BY <1>6, <3>2, <5>1
          <6>2. \A i \in 1 .. j : i \in 1 .. l
            BY <6>1
          <6> QED BY <1>6, <5>1, <6>2
        <5>2. CASE t # t0
          BY <1>1, <5>2
        <5> QED BY <5>1, <5>2
      <4> QED BY <2>2, <2>3, <3>2, <4>1
    <3> QED BY <1>6, <1>7, <3>1, <3>2
  <2>4. ASSUME NEW d \in Cores, Past(d)', t \in held'[d], Txn(d)' # x
        PROVE  rank[x] < rank[Txn(d)']
    BY <1>3, <2>2, <2>4
  <2> QED BY <2>3, <2>4
<1>11. \A x \in Ranked' : rank[x] < n
  BY <1>4 DEF RankOK
<1> QED BY <1>8, <1>9, <1>10, <1>11 DEF RankOK

\* The order goes on: who comes to count comes last, and nobody else moves.
LEMMA RankStep ==
  ASSUME CommitInv, CommitInv', NEW c \in Cores, CoreStep(c),
         NEW n \in Nat, NEW rank \in [Txns -> Nat], RankOK(n, rank)
  PROVE  \E m \in Nat : \E rank2 \in [Txns -> Nat] :
           /\ RankOK(m, rank2)'
           /\ IF ~Past(c) /\ Past(c)' THEN rank2 = [rank EXCEPT ![Txn(c)'] = n]
              ELSE rank2 = rank
<1>1. CASE ~Past(c) /\ Past(c)'
  <2>1. n + 1 \in Nat
    OBVIOUS
  <2> QED BY <1>1, <2>1, RankEnters
<1>2. ASSUME Past(c) \/ ~Past(c)'
      PROVE  RankOK(n, rank)'
  <2>1. CASE Validated(c)
    BY <2>1, RankValidated
  <2>2. CASE StoreVersion(c)
    BY <2>2, RankStores
  <2>3. CASE (CheckOwn(c) \/ CheckLatest(c)) /\ done'[c] # done[c]
    BY <2>3, RankChecks
  <2>4. CASE /\ ~Validated(c) /\ ~StoreVersion(c)
             /\ CheckOwn(c) \/ CheckLatest(c) => done'[c] = done[c]
    <3>1. /\ Serial' = Serial /\ UNCHANGED installed
          /\ \A d \in Cores : Keeps(d)
      BY <1>2, <2>4, QuietSteps
    <3> QED BY <3>1, RankKept
  <2> QED BY <2>1, <2>2, <2>3, <2>4
<1> QED BY <1>1, <1>2

LEMMA SerialInvInductive == SerialInv /\ TidsFit /\ [Next]_vars => SerialInv'
<1> SUFFICES ASSUME SerialInv, TidsFit, [Next]_vars PROVE SerialInv'
  OBVIOUS
<1>1. CommitInv /\ CommitInv'
  BY CommitInvInductive DEF SerialInv
<1>2. PICK n \in Nat, rank \in [Txns -> Nat] : RankOK(n, rank)
  BY DEF SerialInv
<1>3. CASE TickerStep \/ UNCHANGED vars
  <2>1. UNCHANGED <<hdr, version, value, pc, prog, txns, bound, read_set, seen, done,
                    held, last_commit_tid_, installed, decided>>
    BY <1>1, <1>3, TickerMoves
  <2>2. Serial' = Serial /\ UNCHANGED installed /\ \A d \in Cores : Keeps(d)
    BY <2>1 DEF Serial, Keeps, Past, Txn
  <2>3. RankOK(n, rank)'
    BY <1>2, <2>2, RankKept
  <2> QED BY <1>1, <2>3 DEF SerialInv
<1>4. ASSUME NEW c \in Cores, CoreStep(c)
      PROVE  SerialInv'
  BY <1>1, <1>2, <1>4, RankStep DEF SerialInv
<1> QED BY <1>3, <1>4, StepKinds

LEMMA SerialInvInit == Init => SerialInv
<1> SUFFICES ASSUME Init PROVE SerialInv
  OBVIOUS
<1>1. CommitInv
  BY CommitInvInit
<1>2. PICK rank \in [Txns -> Nat] : rank = [x \in Txns |-> 0]
  OBVIOUS
<1>3. Serial = {} /\ Committed = {} /\ \A c \in Cores : ~Past(c)
  BY DEF Init, Serial, Committed, Past, Checks, Modifying
<1>4. Ranked = {}
  BY <1>3 DEF Ranked
<1>5. RankOK(0, rank)
  <2>1. WritersInOrder(rank)
    BY <1>3 DEF WritersInOrder, Init
  <2>2. ReadsFollow(rank)
    BY <1>3 DEF ReadsFollow, Past
  <2>3. OverwritesFollow(rank)
    BY <1>4 DEF OverwritesFollow
  <2> QED BY <1>4, <2>1, <2>2, <2>3 DEF RankOK
<1> QED BY <1>1, <1>5 DEF SerialInv

\* Who comes before another in the serial order is of lesser rank.
LEMMA BeforeHasLesserRank ==
  ASSUME CommitInv, NEW n \in Nat, NEW rank \in [Txns -> Nat], RankOK(n, rank),
         NEW a \in Serial, NEW b \in Serial, a # b, Before(a, b)
  PROVE  rank[a.txn] < rank[b.txn]
<1>1. /\ a.txn \in Txns /\ b.txn \in Txns /\ a.txn # b.txn
      /\ a.txn \in Ranked /\ b.txn \in Ranked /\ a.txn # Loader /\ b.txn # Loader
  <2>1. a.txn \in Txns /\ b.txn \in Txns /\ a.txn \in Committed /\ b.txn \in Committed
    BY SerialAreTyped
  <2>2. a.txn # b.txn
    BY DEF CommitInv, HistoryOK
  <2>3. Loader \notin Txns
    BY SiloAssumption DEF Loader, Txns
  <2> QED BY <2>1, <2>2, <2>3 DEF Ranked
<1>2. CASE \E t \in a.writes : <<t, a.txn>> \in b.reads
  <2>1. PICK r \in b.reads : r[2] = a.txn
    BY <1>2
  <2> QED BY <1>1, <2>1 DEF RankOK, ReadsFollow
<1>3. ASSUME NEW t \in a.writes \cap b.writes,
             Wrote(a, t), Wrote(b, t), Place(t, a.txn) < Place(t, b.txn)
      PROVE  rank[a.txn] < rank[b.txn]
  <2>1. t \in Tuples
    BY SerialAreTyped
  <2>2. PICK i \in DOMAIN installed[t] : i = Place(t, a.txn) /\ installed[t][i] = a.txn
    BY <1>1, <1>3 DEF Wrote, ToSet, Place
  <2>3. PICK j \in DOMAIN installed[t] : j = Place(t, b.txn) /\ installed[t][j] = b.txn
    BY <1>1, <1>3 DEF Wrote, ToSet, Place
  <2> QED BY <1>1, <1>3, <2>1, <2>2, <2>3 DEF RankOK, WritersInOrder
<1>4. ASSUME NEW r \in a.reads, r[1] \in b.writes, Wrote(b, r[1]),
             Place(r[1], r[2]) < Place(r[1], b.txn)
      PROVE  rank[a.txn] < rank[b.txn]
  <2>1. PICK t \in Tuples, v \in Txns \cup {Loader} : t = r[1] /\ v = r[2] /\ r = <<t, v>>
    BY SerialAreTyped
  <2>2. Valid(a.txn, t, v)
    BY <2>1 DEF Valid
  <2>3. PICK j \in DOMAIN installed[t] : j = Place(t, b.txn) /\ installed[t][j] = b.txn
    BY <1>1, <1>4, <2>1 DEF Wrote, ToSet, Place
  <2>4. v = Loader \/ \E i \in DOMAIN installed[t] : i = Place(t, v) /\ installed[t][i] = v
    <3>1. v = Loader \/ v \in ToSet(installed[t])
      BY <2>1 DEF RankOK, ReadsFollow
    <3> QED BY <3>1 DEF ToSet, Place
  <2>5. v = Loader \/ \E i \in 1 .. j : installed[t][i] = v
    <3>1. DOMAIN installed[t] = 1 .. Len(installed[t]) /\ Len(installed[t]) \in Nat
      BY WritersAreTyped
    <3> QED BY <1>4, <2>1, <2>3, <2>4, <3>1
  <2>6. b.txn # v
    <3>1. Place(t, v) # Place(t, b.txn)
      <4>1. DOMAIN installed[t] = 1 .. Len(installed[t]) /\ Len(installed[t]) \in Nat
        BY WritersAreTyped
      <4>2. j \in Nat
        BY <4>1
      <4> QED BY <1>4, <2>1, <2>3, <4>2
    <3> QED BY <3>1
  <2> QED BY <1>1, <2>2, <2>3, <2>5, <2>6 DEF RankOK, OverwritesFollow
<1> QED BY <1>2, <1>3, <1>4 DEF Before

LEMMA RankedIsSerializable == SerialInv => Serializable
<1> SUFFICES ASSUME SerialInv, NEW S \in SUBSET Serial, S # {}
             PROVE  \E b \in S : \A a \in S \ {b} : ~Before(a, b)
  BY DEF Serializable, Orderly, Serial
<1>1. CommitInv
  BY DEF SerialInv
<1>2. PICK n \in Nat, rank \in [Txns -> Nat] : RankOK(n, rank)
  BY DEF SerialInv
<1> DEFINE Ranks == {rank[a.txn] : a \in S}
<1>3. \A a \in S : rank[a.txn] \in Nat
  BY <1>1, SerialAreTyped
<1>4. Ranks \in SUBSET Nat /\ Ranks # {}
  BY <1>3
<1>5. PICK m \in Ranks : \A k \in Ranks : m <= k
  <2> HIDE DEF Ranks
  <2> QED BY <1>4, LeastExists
<1>6. PICK b \in S : m = rank[b.txn]
  BY <1>5
<1>7. ASSUME NEW a \in S \ {b}, Before(a, b)
      PROVE  FALSE
  <2>1. rank[a.txn] < rank[b.txn]
    BY <1>1, <1>2, <1>7, BeforeHasLesserRank
  <2>2. rank[b.txn] <= rank[a.txn]
    BY <1>5, <1>6
  <2> QED BY <1>3, <2>1, <2>2
<1> QED BY <1>7

-----------------------------------------------------------------------------
(* The numbers of the tids.                                                *)

LEMMA DivisionIsUnique ==
  ASSUME NEW d \in Nat \ {0}, NEW q \in Nat, NEW r \in 0 .. d - 1, NEW x \in Nat,
         x = d * q + r
  PROVE  x \div d = q /\ x % d = r
<1> DEFINE p == x \div d
           s == x % d
<1>1. p \in Nat /\ s \in 0 .. d - 1 /\ x = d * p + s
  BY Division
<1> HIDE DEF p, s
<1>2. /\ d * p \in Int /\ d * q \in Int /\ d * (p + 1) = d * p + d /\ d * (q + 1) = d * q + d
  BY <1>1, Distributes, Z3
<1>3. ~ (p < q)
  <2> SUFFICES ASSUME p < q PROVE FALSE
    OBVIOUS
  <2>1. d * (p + 1) <= d * q
    BY <1>1, Scaled
  <2> QED BY <1>1, <1>2, <2>1
<1>4. ~ (q < p)
  <2> SUFFICES ASSUME q < p PROVE FALSE
    OBVIOUS
  <2>1. d * (q + 1) <= d * p
    BY <1>1, Scaled
  <2> QED BY <1>1, <1>2, <2>1
<1>5. p = q
  BY <1>1, <1>3, <1>4
<1>6. s = r
  BY <1>1, <1>2, <1>5
<1> QED BY <1>5, <1>6 DEF p, s

\* A tid has the number and the epoch it was made with.
LEMMA FieldsOfTid ==
  ASSUME NEW c \in 0 .. CoreIds - 1, NEW k \in 0 .. NumIds - 1, NEW e \in Nat
  PROVE  /\ MakeTid(c, k, e) \in Nat
         /\ NumId(MakeTid(c, k, e)) = k /\ EpochId(MakeTid(c, k, e)) = e
<1>0. CoreIds \in Nat \ {0} /\ NumIds \in Nat \ {0}
  BY SiloAssumption
<1>1. PICK z \in Nat : z = e * NumIds + k
  <2>1. e * NumIds \in Nat
    BY <1>0, Z3
  <2> QED BY <1>0, <2>1
<1>2. z = NumIds * e + k
  BY <1>0, <1>1, Distributes
<1>3. PICK x \in Nat : x = z * CoreIds + c
  <2>1. z * CoreIds \in Nat
    BY <1>0, Z3
  <2> QED BY <1>0, <2>1
<1>4. x = CoreIds * z + c
  BY <1>0, <1>3, Distributes
<1>5. MakeTid(c, k, e) = x
  BY <1>1, <1>3 DEF MakeTid
<1>6. x \div CoreIds = z
  BY <1>0, <1>4, DivisionIsUnique
<1>7. z % NumIds = k
  BY <1>0, <1>2, DivisionIsUnique
<1>8. NumId(x) = k
  BY <1>6, <1>7 DEF NumId
<1>9. EpochId(x) = e
  <2>1. CoreIds * NumIds \in Nat \ {0} /\ (CoreIds * NumIds) * e \in Nat
    BY <1>0, Z3
  <2>2. CoreIds * z = (CoreIds * NumIds) * e + CoreIds * k
    <3>1. CoreIds * (NumIds * e + k) = CoreIds * (NumIds * e) + CoreIds * k
      <4>1. NumIds * e \in Int
        BY <1>0, Distributes
      <4> QED BY <1>0, <4>1, Distributes
    <3> QED BY <1>0, <1>2, <3>1, Distributes
  <2>3. PICK r \in Nat : r = CoreIds * k + c
    <3>1. CoreIds * k \in Nat
      BY <1>0, Z3
    <3> QED BY <1>0, <3>1
  <2>4. r < CoreIds * NumIds
    <3>1. CoreIds * (k + 1) <= CoreIds * NumIds
      BY <1>0, Scaled
    <3>2. CoreIds * (k + 1) = CoreIds * k + CoreIds /\ CoreIds * k \in Int
      <4>1. CoreIds * (k + 1) = CoreIds * k + CoreIds * 1
        BY <1>0, Distributes
      <4> QED BY <1>0, <4>1, Distributes
    <3> QED BY <1>0, <2>1, <2>3, <3>1, <3>2
  <2> DEFINE m == CoreIds * NumIds
  <2> HIDE DEF m
  <2>5. x = m * e + r /\ r \in 0 .. m - 1 /\ m \in Nat \ {0}
    <3>1. CoreIds * k \in Int
      BY <1>0, Distributes
    <3> QED BY <1>0, <1>4, <2>1, <2>2, <2>3, <2>4, <3>1 DEF m
  <2>6. x \div m = e
    BY <2>5, DivisionIsUnique
  <2> QED BY <2>6 DEF EpochId, m
<1> QED BY <1>5, <1>8, <1>9

-----------------------------------------------------------------------------
(* The numbers last for the run.                                           *)

\* The transactions of the run, and those among them that have their number.
AllTxns == UNION {{c} \X (1 .. MaxTxns[c]) : c \in Cores}
Unnumbered == {"snapshot", "read", "readtid", "readvalue", "readnext", "readcheck",
               "lock", "tid"}
Numbered ==
  {x \in AllTxns : \/ x[2] < txns[x[1]]
                   \/ x[2] = txns[x[1]] /\ pc[x[1]] \notin Unnumbered}

\* No number exceeds how many have been given.
NumbersOK ==
  /\ \A c \in Cores : txns[c] <= MaxTxns[c] /\ (pc[c] # "idle" => 1 <= txns[c])
  /\ \A t \in Tuples : NumId(version[t]) <= Cardinality(Numbered) + 1
  /\ \A c \in Cores : NumId(Tid(c)) <= Cardinality(Numbered) + 1
  /\ \A c \in Cores : ~prog[c].snapshot => \A k \in DOMAIN read_set[c] :
       NumId(read_set[c][k].tid) <= Cardinality(Numbered) + 1

LEMMA RunIsFinite ==
  /\ IsFiniteSet(AllTxns) /\ Cardinality(AllTxns) \in Nat
  /\ Cardinality(AllTxns) + 2 < NumIds
<1> DEFINE F == [c \in Cores |-> {c} \X (1 .. MaxTxns[c])]
           T == {{c} \X (1 .. MaxTxns[c]) : c \in Cores}
<1>1. IsFiniteSet(T)
  <2>1. F \in Surjection(Cores, T)
    BY DEF Surjection
  <2>2. IsFiniteSet(Cores)
    BY SiloAssumption
  <2> HIDE DEF F, T
  <2> QED BY <2>1, <2>2, FS_Surjection
<1>2. \A c \in Cores : IsFiniteSet({c} \X (1 .. MaxTxns[c]))
  <2> TAKE c \in Cores
  <2>1. IsFiniteSet({c})
    BY FS_Singleton
  <2>2. IsFiniteSet(1 .. MaxTxns[c])
    BY FS_Interval, SiloAssumption
  <2> QED BY <2>1, <2>2, FS_Product
<1>3. IsFiniteSet(UNION T)
  <2>1. \A t \in T : IsFiniteSet(t)
    BY <1>2
  <2> HIDE DEF T
  <2> QED BY <1>1, <2>1, FS_UNION
<1>4. IsFiniteSet(AllTxns)
  BY <1>3 DEF AllTxns
<1>5. Cardinality(AllTxns) \in Nat
  BY <1>4, FS_CardinalityType
<1>6. Cardinality(AllTxns) + 2 < NumIds
  BY TidAssumption DEF AllTxns
<1> QED BY <1>4, <1>5, <1>6

LEMMA AllTxnsAre ==
  /\ \A c \in Cores, k \in Nat : 1 <= k /\ k <= MaxTxns[c] => <<c, k>> \in AllTxns
  /\ \A x \in AllTxns : x[1] \in Cores /\ x[2] \in Nat /\ x = <<x[1], x[2]>>
<1>1. \A c \in Cores : MaxTxns[c] \in Nat
  BY SiloAssumption
<1> QED BY <1>1 DEF AllTxns

LEMMA NumberedFits ==
  /\ IsFiniteSet(Numbered) /\ Cardinality(Numbered) \in Nat
  /\ Cardinality(Numbered) <= Cardinality(AllTxns)
  /\ \A x \in AllTxns \ Numbered : Cardinality(Numbered) + 1 <= Cardinality(AllTxns)
<1>1. Numbered \in SUBSET AllTxns
  BY DEF Numbered
<1>2. /\ IsFiniteSet(Numbered) /\ Cardinality(Numbered) <= Cardinality(AllTxns)
      /\ Cardinality(AllTxns) = Cardinality(Numbered) => AllTxns = Numbered
  BY <1>1, RunIsFinite, FS_Subset
<1>3. Cardinality(Numbered) \in Nat
  BY <1>2, FS_CardinalityType
<1>4. \A x \in AllTxns \ Numbered : Cardinality(AllTxns) # Cardinality(Numbered)
  BY <1>2
<1> QED BY <1>2, <1>3, <1>4, RunIsFinite

LEMMA NumberedGrow ==
  ASSUME CommitInv, NEW c \in Cores, CoreStep(c)
  PROVE  Numbered \subseteq Numbered'
<1> SUFFICES ASSUME NEW x \in Numbered PROVE x \in Numbered'
  OBVIOUS
<1>0. /\ x \in AllTxns /\ x[1] \in Cores /\ x[2] \in Nat
      /\ \/ x[2] < txns[x[1]]
         \/ x[2] = txns[x[1]] /\ pc[x[1]] \notin Unnumbered
  BY AllTxnsAre DEF Numbered
<1>1. CASE x[1] # c
  <2>1. Still(x[1])
    BY <1>0, <1>1, StepsAreLocal DEF CommitInv
  <2> QED BY <1>0, <2>1 DEF Still, Numbered
<1>2. CASE x[1] = c /\ Begin(c)
  <2>1. txns[c] \in Nat /\ txns'[c] = txns[c] + 1
    BY <1>2 DEF Begin, CommitInv, TypesOK
  <2>2. x[2] < txns'[c]
    BY <1>0, <1>2, <2>1
  <2> QED BY <1>0, <1>2, <2>2 DEF Numbered
<1>3. CASE x[1] = c /\ ~Begin(c)
  <2>1. txns' = txns
    BY <1>3, Frame
  <2>2. pc[c] \notin Unnumbered => pc'[c] \notin Unnumbered
    <3>0. pc \in [Cores -> Places]
      BY DEF CommitInv, LockInv, StateOK
    <3> SUFFICES ASSUME pc[c] \notin Unnumbered PROVE pc'[c] \notin Unnumbered
      OBVIOUS
    <3>1. CASE pc[c] \in After
      BY <1>3, <3>1, AfterStep DEF After, Modifying, Unnumbered
    <3>2. CASE pc[c] \in Checks
      <4>1. CheckOwn(c) \/ LoadHeader(c) \/ CheckLatest(c) \/ Validated(c)
        BY <1>3, <3>2 DEF CoreStep, Checks, TakeSnapshot, ReadHeader, ReadVersion, ReadValue,
             ReadNext, ReadCheck, Lock, gen_commit_tid, MarkModifying, StoreValue,
             StoreVersion, Unlock, End
      <4>2. Validated(c) => pc'[c] \in {"write", "end"}
        BY <3>0 DEF Validated, Goto
      <4> QED BY <4>1, <4>2, ValidationMove DEF Unnumbered
    <3> QED BY <3>0, <3>1, <3>2 DEF Places, Free, Full, After, Checks, Modifying, Unnumbered
  <2> QED BY <1>0, <1>3, <2>1, <2>2 DEF Numbered
<1> QED BY <1>1, <1>2, <1>3

LEMMA NumberedNext ==
  ASSUME CommitInv, NEW c \in Cores, CoreStep(c)
  PROVE  /\ Cardinality(Numbered)' \in Nat
         /\ Cardinality(Numbered) <= Cardinality(Numbered)'
<1>1. Numbered \subseteq Numbered'
  BY NumberedGrow
<1>2. Numbered' \in SUBSET AllTxns
  BY DEF Numbered
<1>3. IsFiniteSet(Numbered')
  BY <1>2, RunIsFinite, FS_Subset
<1>4. Cardinality(Numbered') \in Nat /\ Cardinality(Numbered) <= Cardinality(Numbered')
  BY <1>1, <1>3, FS_Subset, FS_CardinalityType
<1> QED BY <1>4

\* A new tid takes a number that is not counted yet.
LEMMA NumberIsNew ==
  ASSUME CommitInv, NumbersOK, NEW c \in Cores, gen_commit_tid(c)
  PROVE  Cardinality(Numbered) + 1 <= Cardinality(Numbered)'
<1>1. pc[c] = "tid" /\ pc'[c] = "validate" /\ txns' = txns /\ txns[c] \in Nat
  BY DEF gen_commit_tid, Goto, Committing, local, CommitInv, LockInv, StateOK, TypesOK
<1>2. <<c, txns[c]>> \in AllTxns
  BY <1>1, AllTxnsAre DEF NumbersOK
<1>3. <<c, txns[c]>> \notin Numbered /\ <<c, txns[c]>> \in Numbered'
  BY <1>1, <1>2 DEF Numbered, Unnumbered
<1>4. Numbered \cup {<<c, txns[c]>>} \subseteq Numbered'
  BY <1>3, NumberedGrow DEF CoreStep
<1>5. Cardinality(Numbered \cup {<<c, txns[c]>>}) = Cardinality(Numbered) + 1
  BY <1>3, NumberedFits, FS_AddElement
<1>6. Numbered' \in SUBSET AllTxns
  BY DEF Numbered
<1>7. IsFiniteSet(Numbered')
  BY <1>6, RunIsFinite, FS_Subset
<1>8. Cardinality(Numbered \cup {<<c, txns[c]>>}) <= Cardinality(Numbered')
  BY <1>4, <1>7, FS_Subset
<1> QED BY <1>5, <1>8

LEMMA NewestNumber ==
  ASSUME CommitInv, NumbersOK, NEW c \in Cores, pc[c] = "tid"
  PROVE  /\ Newest(c) \in Nat /\ NumId(Newest(c)) \in Nat
         /\ NumId(Newest(c)) <= Cardinality(Numbered) + 1
         /\ NumId(Newest(c)) + 2 < NumIds
<1>1. /\ Newest(c) \in Nat
      /\ \/ Newest(c) = Tid(c) \/ Newest(c) = MakeTid(0, 0, current_tick_)
         \/ \E k \in DOMAIN read_set[c] : Newest(c) = read_set[c][k].tid
         \/ \E t \in Writes(c) : Newest(c) = version[t]
  BY NewestBounds
<1>2. Writes(c) \subseteq Tuples /\ ~prog[c].snapshot
  BY WritesAreTuples DEF CommitInv, LockInv, StateOK, CoreOK, PlaceOK, Free
<1>3. NumId(MakeTid(0, 0, current_tick_)) = 0
  <2>1. 0 \in 0 .. CoreIds - 1 /\ 0 \in 0 .. NumIds - 1 /\ current_tick_ \in Nat
    BY SiloAssumption DEF CommitInv, TypesOK
  <2> QED BY <2>1, FieldsOfTid
<1>4. NumId(Newest(c)) <= Cardinality(Numbered) + 1
  BY <1>1, <1>2, <1>3, NumberedFits DEF NumbersOK
<1>5. NumId(Newest(c)) \in Nat /\ NumIds \in Nat
  <2>1. NumId(Newest(c)) \in 0 .. NumIds - 1 /\ NumIds \in Nat
    BY <1>1, Fields, SiloAssumption
  <2> QED BY <2>1
<1>6. Cardinality(Numbered) + 1 <= Cardinality(AllTxns)
  <2>1. txns[c] \in Nat /\ <<c, txns[c]>> \in AllTxns
    BY AllTxnsAre DEF NumbersOK, CommitInv, TypesOK
  <2>2. <<c, txns[c]>> \notin Numbered
    BY <2>1 DEF Numbered, Unnumbered
  <2> QED BY <2>1, <2>2, NumberedFits
<1> QED BY <1>1, <1>4, <1>5, <1>6, NumberedFits, RunIsFinite

LEMMA NumbersFit == CommitInv /\ NumbersOK => TidsFit
<1> SUFFICES ASSUME CommitInv, NumbersOK, NEW c \in Cores, pc[c] = "tid"
             PROVE  NumId(Newest(c)) + 1 < NumIds
  BY DEF TidsFit
<1>1. NumId(Newest(c)) \in Nat /\ NumId(Newest(c)) + 2 < NumIds /\ NumIds \in Nat
  BY NewestNumber, SiloAssumption
<1> QED BY <1>1

LEMMA TurnsFit ==
  ASSUME CommitInv, NumbersOK, NEW c \in Cores, CoreStep(c)
  PROVE  \A d \in Cores : txns'[d] <= MaxTxns[d] /\ (pc'[d] # "idle" => 1 <= txns'[d])
<1> TAKE d \in Cores
<1>0. /\ txns[d] <= MaxTxns[d] /\ (pc[d] # "idle" => 1 <= txns[d])
      /\ txns[d] \in Nat /\ MaxTxns[d] \in Nat /\ txns \in [Cores -> Nat]
  BY SiloAssumption DEF NumbersOK, CommitInv, TypesOK
<1>1. CASE d # c
  <2>1. Still(d)
    BY <1>1, StepsAreLocal DEF CommitInv
  <2> QED BY <1>0, <2>1 DEF Still
<1>2. CASE d = c /\ Begin(c)
  <2>1. txns'[c] = txns[c] + 1 /\ txns[c] < MaxTxns[c]
    BY <1>0, <1>2 DEF Begin
  <2> QED BY <1>0, <1>2, <2>1
<1>3. CASE d = c /\ ~Begin(c)
  <2>1. txns' = txns
    BY <1>3, Frame
  <2>2. pc[c] # "idle"
    BY <1>3 DEF CoreStep, TakeSnapshot, ReadHeader, ReadVersion, ReadValue, ReadNext,
       ReadCheck, Lock, gen_commit_tid, CheckOwn, LoadHeader, CheckLatest, Validated,
       MarkModifying, StoreValue, StoreVersion, Unlock, End
  <2> QED BY <1>0, <1>3, <2>1, <2>2
<1> QED BY <1>1, <1>2, <1>3

\* The number of the tid that a commit generates.
LEMMA NewTidNumber ==
  ASSUME CommitInv, NumbersOK, NEW c \in Cores, gen_commit_tid(c)
  PROVE  /\ NumId(last_commit_tid_'[c]) <= Cardinality(Numbered)' + 1
         /\ \A d \in Cores : d # c => last_commit_tid_'[d] = last_commit_tid_[d]
<1>1. /\ pc[c] = "tid" /\ last_commit_tid_ \in [Cores -> Nat]
      /\ last_commit_tid_' = [last_commit_tid_ EXCEPT ![c] =
                                MakeTid(c, NumId(Newest(c)) + 1, current_tick_)]
  BY DEF gen_commit_tid, CommitInv, TypesOK
<1>2. PICK k \in Nat : k = NumId(Newest(c))
  BY <1>1, NewestNumber
<1>3. k <= Cardinality(Numbered) + 1 /\ k + 2 < NumIds
  BY <1>1, <1>2, NewestNumber
<1>4. NumId(MakeTid(c, k + 1, current_tick_)) = k + 1
  <2>1. c \in 0 .. CoreIds - 1 /\ current_tick_ \in Nat /\ NumIds \in Nat
    BY SiloAssumption DEF CommitInv, TypesOK
  <2>2. k + 1 \in 0 .. NumIds - 1
    BY <1>3, <2>1
  <2> QED BY <2>1, <2>2, FieldsOfTid
<1>5. last_commit_tid_'[c] = MakeTid(c, k + 1, current_tick_)
  BY <1>1, <1>2
<1>6. Cardinality(Numbered) + 1 <= Cardinality(Numbered)'
  BY NumberIsNew
<1>7. Cardinality(Numbered) \in Nat /\ Cardinality(Numbered)' \in Nat
  BY NumberedFits, NumberedNext DEF CoreStep
<1>8. k + 1 <= Cardinality(Numbered)' + 1
  BY <1>2, <1>3, <1>6, <1>7
<1> QED BY <1>1, <1>4, <1>5, <1>8

LEMMA NumbersStep ==
  ASSUME CommitInv, NumbersOK, NEW c \in Cores, CoreStep(c)
  PROVE  NumbersOK'
<1>1. PICK n \in Nat, m \in Nat : n = Cardinality(Numbered) /\ m = Cardinality(Numbered)' /\ n <= m
  BY NumberedFits, NumberedNext
<1>2. \A x \in Nat : NumId(x) <= n + 1 => NumId(x) <= m + 1
  <2>1. ASSUME NEW x \in Nat PROVE NumId(x) \in Nat
    <3>1. NumId(x) \in 0 .. NumIds - 1 /\ NumIds \in Nat
      BY Fields, SiloAssumption
    <3> QED BY <3>1
  <2> QED BY <1>1, <2>1
<1>3. \A d \in Cores : txns'[d] <= MaxTxns[d] /\ (pc'[d] # "idle" => 1 <= txns'[d])
  BY TurnsFit
<1>4. ASSUME NEW t \in Tuples
      PROVE  NumId(version'[t]) <= m + 1
  <2>0. version[t] \in Nat /\ NumId(version[t]) <= n + 1
    BY <1>1, HeaderTypes DEF NumbersOK
  <2>1. CASE UNCHANGED version
    BY <1>2, <2>0, <2>1
  <2>2. CASE StoreVersion(c)
    <3>1. version'[t] = Tid(c) \/ version'[t] = version[t]
      BY <2>2, VersionEffect
    <3>2. Tid(c) \in Nat /\ NumId(Tid(c)) <= n + 1
      BY <1>1 DEF NumbersOK, CommitInv, TypesOK, Tid
    <3> QED BY <1>2, <2>0, <3>1, <3>2
  <2> QED BY <2>1, <2>2, Frame
<1>5. ASSUME NEW d \in Cores
      PROVE  NumId(last_commit_tid_'[d]) <= m + 1
  <2>0. last_commit_tid_[d] \in Nat /\ NumId(last_commit_tid_[d]) <= n + 1
    BY <1>1 DEF NumbersOK, CommitInv, TypesOK, Tid
  <2>1. CASE UNCHANGED last_commit_tid_
    BY <1>2, <2>0, <2>1
  <2>2. CASE gen_commit_tid(c) /\ d = c
    BY <1>1, <2>2, NewTidNumber
  <2>3. CASE gen_commit_tid(c) /\ d # c
    BY <1>2, <2>0, <2>3, NewTidNumber
  <2> QED BY <2>1, <2>2, <2>3, Frame
<1>6. ASSUME NEW d \in Cores, ~prog'[d].snapshot, NEW k \in DOMAIN read_set'[d]
      PROVE  NumId(read_set'[d][k].tid) <= m + 1
  <2>1. ASSUME prog'[d] = prog[d], read_set'[d] = read_set[d]
        PROVE  NumId(read_set'[d][k].tid) <= m + 1
    <3>1. /\ read_set[d][k].tid \in Nat /\ NumId(read_set[d][k].tid) <= n + 1
      BY <1>1, <1>6, <2>1, ReadsAreTyped DEF NumbersOK
    <3> QED BY <1>2, <2>1, <3>1
  <2>2. CASE d # c
    <3>1. Still(d)
      BY <2>2, StepsAreLocal DEF CommitInv
    <3> QED BY <2>1, <3>1 DEF Still
  <2>3. CASE d = c /\ (Begin(c) \/ End(c))
    <3>1. read_set'[c] = <<>>
      BY <2>3 DEF Begin, End, CommitInv, CoreOK, PlaceOK, TypesOK
    <3> QED BY <1>6, <2>3, <3>1
  <2>4. CASE d = c /\ ReadCheck(c)
    <3>1. prog' = prog
      BY <2>4, CheckMove
    <3>2. ASSUME NEW t \in Tuples, NEW r \in ReadRecords, r.tid = version[t],
                 read_set'[c] = Append(read_set[c], r)
          PROVE  NumId(read_set'[d][k].tid) <= m + 1
      <4>1. read_set[c] \in Seq(ReadRecords)
        BY <1>6, <2>4, <3>1 DEF CommitInv, CoreOK, PlaceOK
      <4>2. k \in DOMAIN read_set[c] \/ read_set'[c][k] = r
        BY <1>6, <2>4, <3>2, <4>1
      <4>3. CASE read_set'[c][k] = r
        <5>1. version[t] \in Nat /\ NumId(version[t]) <= n + 1
          BY <1>1, HeaderTypes DEF NumbersOK
        <5> QED BY <1>2, <2>4, <3>2, <4>3, <5>1
      <4>4. CASE k \in DOMAIN read_set[c]
        <5>1. read_set'[c][k] = read_set[c][k]
          BY <3>2, <4>1, <4>4
        <5>2. /\ read_set[c][k].tid \in Nat /\ NumId(read_set[c][k].tid) <= n + 1
          BY <1>1, <1>6, <2>4, <3>1, <4>4, ReadsAreTyped DEF NumbersOK
        <5> QED BY <1>2, <2>4, <5>1, <5>2
      <4> QED BY <4>2, <4>3, <4>4
    <3>3. ~prog[c].snapshot
      BY <1>6, <2>4, <3>1
    <3> QED BY <2>1, <2>4, <3>1, <3>2, <3>3, CheckedRead
  <2>5. CASE d = c /\ ~Begin(c) /\ ~End(c) /\ ~ReadCheck(c)
    BY <2>1, <2>5, Frame
  <2> QED BY <2>2, <2>3, <2>4, <2>5
<1> QED BY <1>1, <1>3, <1>4, <1>5, <1>6 DEF NumbersOK, Tid

LEMMA NumbersInductive == CommitInv /\ NumbersOK /\ [Next]_vars => NumbersOK'
<1> SUFFICES ASSUME CommitInv, NumbersOK, [Next]_vars PROVE NumbersOK'
  OBVIOUS
<1>1. CASE TickerStep \/ UNCHANGED vars
  <2>1. UNCHANGED <<version, pc, prog, txns, read_set, last_commit_tid_>>
    BY <1>1, TickerMoves
  <2>2. Numbered' = Numbered
    BY <2>1 DEF Numbered
  <2> QED BY <2>1, <2>2 DEF NumbersOK, Tid
<1>2. CASE \E c \in Cores : CoreStep(c)
  BY <1>2, NumbersStep
<1> QED BY <1>1, <1>2, StepKinds

LEMMA NumbersInit == Init => NumbersOK
<1> SUFFICES ASSUME Init PROVE NumbersOK
  OBVIOUS
<1>1. /\ CoreIds \in Nat \ {0} /\ NumIds \in Nat /\ 2 < NumIds
      /\ \A c \in Cores : MaxTxns[c] \in Nat
  BY RunIsFinite, SiloAssumption
<1>2. Cardinality(Numbered) \in Nat
  BY NumberedFits
<1>3. 0 \in 0 .. CoreIds - 1 /\ 0 \in 0 .. NumIds - 1 /\ 1 \in 0 .. NumIds - 1
  BY <1>1
<1>4. NumId(MakeTid(0, 1, 1)) = 1
  BY <1>3, FieldsOfTid
<1>5. NumId(0) = 0
  <2>1. MakeTid(0, 0, 0) = 0
    BY <1>1 DEF MakeTid
  <2>2. NumId(MakeTid(0, 0, 0)) = 0
    BY <1>3, FieldsOfTid
  <2> QED BY <2>1, <2>2
<1>6. \A t \in Tuples : NumId(version[t]) <= Cardinality(Numbered) + 1
  <2>1. \A t \in Tuples : version[t] = MakeTid(0, 1, 1)
    BY DEF Init
  <2>2. 1 <= Cardinality(Numbered) + 1
    BY <1>2
  <2> QED BY <1>4, <2>1, <2>2
<1>7. \A c \in Cores : NumId(Tid(c)) <= Cardinality(Numbered) + 1
  <2>1. \A c \in Cores : Tid(c) = 0
    BY DEF Init, Tid
  <2>2. 0 <= Cardinality(Numbered) + 1
    BY <1>2
  <2> QED BY <1>5, <2>1, <2>2
<1>8. \A c \in Cores : txns[c] <= MaxTxns[c] /\ pc[c] = "idle" /\ read_set[c] = <<>>
  BY <1>1 DEF Init
<1> QED BY <1>6, <1>7, <1>8 DEF NumbersOK

-----------------------------------------------------------------------------
(* The ticker, and the chains of older versions.                           *)

\* The ticker opens an epoch when every core is in the one before it.
TickerOK ==
  /\ passing \subseteq Cores /\ DOMAIN ticks_ = Cores
  /\ last_tick_inclusive_ \in {current_tick_ - 2, current_tick_ - 1}
  /\ FirstTick <= last_tick_inclusive_ + 1
  /\ passing # {} => last_tick_inclusive_ = current_tick_ - 2
  /\ \A c \in Cores : ticks_[c] \in {current_tick_ - 1, current_tick_}
  /\ \A c \in Cores \ passing : ticks_[c] = current_tick_

LEMMA TickerStarts == Init => TickerOK
BY FirstTickIs DEF Init, TickerOK

LEMMA CoresLeaveTicker ==
  ASSUME CommitInv, TickerOK, NEW c \in Cores, CoreStep(c)
  PROVE  TickerOK'
<1>1. UNCHANGED ticker
  BY Frame
<1>2. ticks_' = [ticks_ EXCEPT ![c] = current_tick_] \/ UNCHANGED ticks_
  <2>1. CASE Begin(c) \/ TakeSnapshot(c) \/ End(c)
    BY <2>1 DEF Begin, TakeSnapshot, End
  <2>2. CASE ReadHeader(c) \/ ReadVersion(c) \/ ReadValue(c) \/ ReadNext(c) \/ ReadCheck(c)
    BY <2>2 DEF ReadHeader, ReadVersion, ReadValue, ReadNext, ReadCheck, Loading
  <2>3. CASE Lock(c) \/ gen_commit_tid(c) \/ CheckOwn(c) \/ LoadHeader(c) \/ CheckLatest(c)
             \/ Validated(c) \/ MarkModifying(c) \/ StoreValue(c) \/ StoreVersion(c) \/ Unlock(c)
    BY <2>3 DEF Lock, gen_commit_tid, CheckOwn, LoadHeader, CheckLatest, Validated,
       MarkModifying, StoreValue, StoreVersion, Unlock, Committing
  <2> QED BY <2>1, <2>2, <2>3 DEF CoreStep
<1>3. \A d \in Cores : ticks_'[d] = ticks_[d] \/ ticks_'[d] = current_tick_
  BY <1>2 DEF TickerOK
<1>4. DOMAIN ticks_' = Cores
  BY <1>2 DEF TickerOK
<1> QED BY <1>1, <1>3, <1>4 DEF TickerOK, ticker

LEMMA TickerKeepsTime ==
  ASSUME CommitInv, TickerOK, TickerStep
  PROVE  TickerOK'
<1>0. /\ current_tick_ \in Nat /\ last_tick_inclusive_ \in Int
      /\ FirstTick \in Nat /\ FirstTick <= last_tick_inclusive_ + 1
  BY SiloAssumption, FirstTickIs DEF CommitInv, TypesOK, TickerOK
<1>1. CASE Bump
  <2>1. passing = {}
    BY <1>0, <1>1 DEF Bump, TickerOK
  <2>2. \A c \in Cores : ticks_[c] = current_tick_
    BY <2>1 DEF TickerOK
  <2>3. /\ current_tick_' = current_tick_ + 1 /\ passing' = Cores
        /\ UNCHANGED <<last_tick_inclusive_, ticks_>>
        /\ last_tick_inclusive_ = current_tick_ - 1
    BY <1>1 DEF Bump
  <2>4. current_tick_' - 1 = current_tick_ /\ current_tick_' - 2 = last_tick_inclusive_
    BY <1>0, <2>3
  <2> QED BY <2>2, <2>3, <2>4 DEF TickerOK
<1>2. CASE Pass
  <2>1. passing # {} /\ passing \in SUBSET Nat
    BY <1>2, SiloAssumption DEF Pass, TickerOK
  <2>2. PICK v \in passing : v = Visited
    <3>1. \E d \in passing : \A e \in passing : d <= e
      BY <2>1, LeastExists
    <3> QED BY <3>1 DEF Visited
  <2>3. /\ ticks_' = [ticks_ EXCEPT ![v] = current_tick_] /\ passing' = passing \ {v}
        /\ UNCHANGED <<current_tick_, last_tick_inclusive_>>
    BY <1>2, <2>2 DEF Pass
  <2>4. \A c \in Cores : ticks_'[c] = IF c = v THEN current_tick_ ELSE ticks_[c]
    BY <2>2, <2>3 DEF TickerOK
  <2> QED BY <2>3, <2>4 DEF TickerOK
<1>3. CASE Publish
  <2>1. /\ passing = {} /\ last_tick_inclusive_' = current_tick_ - 1
        /\ UNCHANGED <<current_tick_, passing, ticks_>>
        /\ last_tick_inclusive_ < current_tick_ - 1
    BY <1>3 DEF Publish
  <2>2. FirstTick <= last_tick_inclusive_' + 1
    BY <1>0, <2>1
  <2> QED BY <2>1, <2>2 DEF TickerOK
<1> QED BY <1>1, <1>2, <1>3 DEF TickerStep

LEMMA TickerInductive == CommitInv /\ TickerOK /\ [Next]_vars => TickerOK'
<1> SUFFICES ASSUME CommitInv, TickerOK, [Next]_vars PROVE TickerOK'
  OBVIOUS
<1>1. CASE UNCHANGED vars
  BY <1>1 DEF TickerOK, vars, ticker
<1> QED BY <1>1, CoresLeaveTicker, TickerKeepsTime, StepKinds

\* Core c is writing record t, and will give it a newer version.
Overwrites(c, t) ==
  pc[c] \in {"writevalue", "writetid"} /\ Writing(c) = t /\ version[t] < Tid(c)

\* The older versions of a record, newest first, are older than the record, but
\* for the copy of its version that a core has put there to overwrite it.
OldVersions == [tid : Nat, value : Txns \cup {Loader}]
ChainOK(t) ==
  /\ next[t] \in Seq(OldVersions)
  /\ \A i, j \in DOMAIN next[t] : i < j => next[t][j].tid < next[t][i].tid
  /\ \A i \in DOMAIN next[t] :
       \/ next[t][i].tid < version[t]
       \/ next[t][i].tid = version[t] /\ \E c \in Cores : Overwrites(c, t)

ChainsOK == DOMAIN next = Tuples /\ \A t \in Tuples : ChainOK(t)

LEMMA ChainsStart == Init => ChainsOK
<1> SUFFICES ASSUME Init PROVE ChainsOK
  OBVIOUS
<1>1. \A t \in Tuples : next[t] = <<>>
  BY DEF Init
<1>2. <<>> \in Seq(OldVersions) /\ DOMAIN <<>> = {}
  OBVIOUS
<1> QED BY <1>1, <1>2 DEF ChainsOK, ChainOK, Init

\* One core writes a record.
LEMMA OverwritesAlone ==
  ASSUME CommitInv, NEW c \in Cores, pc[c] \in Modifying, NEW d \in Cores,
         NEW t \in Tuples, t = Writing(c), Overwrites(d, t)
  PROVE  d = c
<1>1. t \in held[c] /\ t \in held[d]
  BY WritesWhatItHolds DEF Overwrites, Modifying
<1> QED BY <1>1 DEF CommitInv, LockInv, Exclusive

\* A core that overwrites a record goes on until the record has its version.
LEMMA OverwritesUntilDone ==
  ASSUME CommitInv, NEW c \in Cores, CoreStep(c), ~StoreVersion(c),
         NEW t \in Tuples, NEW d \in Cores, Overwrites(d, t)
  PROVE  Overwrites(d, t)'
<1>0. UNCHANGED version
  BY Frame
<1>1. CASE d # c
  <2>1. Still(d)
    BY <1>1, StepsAreLocal DEF CommitInv
  <2> QED BY <1>0, <2>1 DEF Overwrites, Still, Writing, Tid
<1>2. CASE d = c
  <2>1. StoreValue(c)
    BY <1>2 DEF Overwrites, CoreStep, Begin, TakeSnapshot, ReadHeader, ReadVersion,
       ReadValue, ReadNext, ReadCheck, Lock, gen_commit_tid, CheckOwn, LoadHeader,
       CheckLatest, Validated, MarkModifying, StoreVersion, Unlock, End
  <2>2. /\ pc'[c] = "writetid" /\ UNCHANGED <<prog, done, last_commit_tid_>>
    BY <2>1 DEF StoreValue, Goto, Committing, local, CommitInv, LockInv, StateOK
  <2> QED BY <1>0, <1>2, <2>2 DEF Overwrites, Writing, Tid
<1> QED BY <1>1, <1>2

\* What marking a record adds to its chain.
LEMMA MarkedChain ==
  ASSUME CommitInv, ChainsOK, NEW c \in Cores, MarkModifying(c), NEW t \in Tuples,
         next'[t] # next[t]
  PROVE  /\ t = Writing(c) /\ UNCHANGED version /\ version[t] < Tid(c) /\ Overwrites(c, t)'
         /\ \E o \in OldVersions : o.tid = version[t] /\ next'[t] = <<o>> \o next[t]
<1>0. /\ pc[c] = "write" /\ pc'[c] = "writevalue"
      /\ UNCHANGED <<version, prog, done, last_commit_tid_>>
  BY DEF MarkModifying, Goto, Committing, local, CommitInv, LockInv, StateOK
<1>1. PICK w \in Tuples : w = Writing(c) /\ w \in Writes(c)
  BY <1>0, WritesWhatItHolds DEF Modifying
<1> DEFINE o == [tid |-> version[w], value |-> value[w]]
<1>2. next' = IF can_overwrite_record_tid(version[w], Tid(c)) THEN next
              ELSE [next EXCEPT ![w] = <<o>> \o @]
  BY <1>1 DEF MarkModifying
<1>3. ~can_overwrite_record_tid(version[w], Tid(c)) /\ t = w
  BY <1>2 DEF ChainsOK
<1>4. next'[t] = <<o>> \o next[t]
  BY <1>2, <1>3 DEF ChainsOK
<1>5. version[w] # Tid(c)
  BY <1>3 DEF can_overwrite_record_tid
<1>6. version[w] < Tid(c)
  BY <1>0, <1>1, <1>5 DEF CommitInv, CoreOK, NewerOK, Past, Modifying
<1>7. o \in OldVersions
  BY HeaderTypes DEF OldVersions
<1>8. Overwrites(c, t)'
  BY <1>0, <1>1, <1>3, <1>6 DEF Overwrites, Writing, Tid
<1>9. o.tid = version[t]
  BY <1>3
<1> HIDE DEF o
<1> QED BY <1>0, <1>1, <1>3, <1>4, <1>6, <1>7, <1>8, <1>9

LEMMA ChainGrows ==
  ASSUME CommitInv, ChainsOK, NEW c \in Cores, MarkModifying(c), NEW t \in Tuples,
         next'[t] # next[t]
  PROVE  ChainOK(t)'
<1>1. /\ t = Writing(c) /\ UNCHANGED version /\ version[t] < Tid(c) /\ Overwrites(c, t)'
  BY MarkedChain
<1>2. PICK o \in OldVersions : o.tid = version[t] /\ next'[t] = <<o>> \o next[t]
  BY MarkedChain
<1>3. next[t] \in Seq(OldVersions) /\ Len(next[t]) \in Nat
      /\ DOMAIN next[t] = 1 .. Len(next[t])
  BY DEF ChainsOK, ChainOK
<1>4. /\ next'[t] \in Seq(OldVersions) /\ DOMAIN next'[t] = 1 .. Len(next[t]) + 1
      /\ next'[t][1] = o
      /\ \A i \in 2 .. Len(next[t]) + 1 : next'[t][i] = next[t][i - 1]
  BY <1>2, <1>3
<1>5. \A i \in DOMAIN next[t] : next[t][i].tid < version[t]
  <2> SUFFICES ASSUME NEW d \in Cores, Overwrites(d, t) PROVE FALSE
    BY DEF ChainsOK, ChainOK
  <2>1. pc[c] = "write"
    BY DEF MarkModifying
  <2>2. d = c
    BY <1>1, <2>1, OverwritesAlone DEF Modifying
  <2> QED BY <2>1, <2>2 DEF Overwrites
<1>6. \A i, j \in DOMAIN next[t] : i < j => next[t][j].tid < next[t][i].tid
  BY DEF ChainsOK, ChainOK
<1>7. ASSUME NEW i \in DOMAIN next'[t], NEW j \in DOMAIN next'[t], i < j
      PROVE  next'[t][j].tid < next'[t][i].tid
  <2>1. j \in 2 .. Len(next[t]) + 1 /\ j - 1 \in DOMAIN next[t]
    BY <1>3, <1>4, <1>7
  <2>2. CASE i = 1
    BY <1>2, <1>4, <1>5, <2>1, <2>2
  <2>3. CASE i # 1
    <3>1. i \in 2 .. Len(next[t]) + 1 /\ i - 1 \in DOMAIN next[t] /\ i - 1 < j - 1
      BY <1>3, <1>4, <1>7, <2>3
    <3>2. next'[t][i] = next[t][i - 1] /\ next'[t][j] = next[t][j - 1]
      BY <1>4, <2>1, <3>1
    <3>3. next[t][j - 1].tid < next[t][i - 1].tid
      BY <1>6, <2>1, <3>1
    <3> QED BY <3>2, <3>3
  <2> QED BY <2>2, <2>3
<1>8. ASSUME NEW i \in DOMAIN next'[t]
      PROVE  \/ next'[t][i].tid < version'[t]
             \/ next'[t][i].tid = version'[t] /\ \E d \in Cores : Overwrites(d, t)'
  <2>1. CASE i = 1
    BY <1>1, <1>2, <1>4, <2>1
  <2>2. CASE i # 1
    <3>1. i \in 2 .. Len(next[t]) + 1 /\ i - 1 \in DOMAIN next[t]
      BY <1>3, <1>4, <2>2
    <3> QED BY <1>1, <1>4, <1>5, <3>1
  <2> QED BY <2>1, <2>2
<1> QED BY <1>4, <1>7, <1>8 DEF ChainOK

LEMMA ChainsStep ==
  ASSUME CommitInv, ChainsOK, NEW c \in Cores, CoreStep(c)
  PROVE  ChainsOK'
<1>1. MarkModifying(c) \/ UNCHANGED next
  <2>1. CASE Inert(c)
    BY <2>1, InertSteps
  <2> QED BY <2>1 DEF CoreStep, Inert, Lock, StoreValue, StoreVersion, Unlock
<1>2. DOMAIN next' = Tuples
  <2>1. CASE MarkModifying(c)
    BY <2>1 DEF MarkModifying, ChainsOK
  <2> QED BY <1>1, <2>1 DEF ChainsOK
<1>3. ASSUME NEW t \in Tuples
      PROVE  ChainOK(t)'
  <2>0. ChainOK(t) /\ version[t] \in Nat
    BY HeaderTypes DEF ChainsOK
  <2>1. CASE next'[t] # next[t]
    BY <1>1, <2>1, ChainGrows
  <2>2. CASE next'[t] = next[t] /\ ~StoreVersion(c)
    <3>1. UNCHANGED version
      BY <2>2, Frame
    <3>2. \A d \in Cores : Overwrites(d, t) => Overwrites(d, t)'
      BY <2>2, OverwritesUntilDone
    <3> QED BY <2>0, <2>2, <3>1, <3>2 DEF ChainOK
  <2>3. CASE next'[t] = next[t] /\ StoreVersion(c)
    <3>1. PICK w \in Tuples :
            /\ w = Writing(c) /\ version'[w] = Tid(c)
            /\ \A u \in Tuples : u # w => version'[u] = version[u]
            /\ version[w] < Tid(c) \/ version[w] = Tid(c)
      BY <2>3, VersionEffect
    <3>2. pc[c] = "writetid" /\ Tid(c) \in Nat
      BY <2>3 DEF StoreVersion, CommitInv, TypesOK, Tid
    <3>3. \A i \in DOMAIN next[t] : next[t][i].tid \in Nat
      <4>1. \A i \in DOMAIN next[t] : next[t][i] \in OldVersions
        BY <2>0 DEF ChainOK
      <4>2. \A o \in OldVersions : o.tid \in Nat
        BY DEF OldVersions
      <4> QED BY <4>1, <4>2
    <3>4. CASE t = w
      <4>1. ASSUME NEW i \in DOMAIN next[t]
            PROVE  next[t][i].tid < version'[t]
        <5>1. CASE next[t][i].tid < version[t]
          BY <2>0, <3>1, <3>2, <3>3, <3>4, <5>1
        <5>2. CASE next[t][i].tid = version[t] /\ \E d \in Cores : Overwrites(d, t)
          <6>1. Overwrites(c, t)
            BY <3>1, <3>2, <3>4, <5>2, OverwritesAlone DEF Modifying
          <6> QED BY <3>1, <3>4, <5>2, <6>1 DEF Overwrites
        <5> QED BY <2>0, <5>1, <5>2 DEF ChainOK
      <4> QED BY <2>0, <2>3, <4>1 DEF ChainOK
    <3>5. CASE t # w
      <4>1. ASSUME NEW d \in Cores, Overwrites(d, t)
            PROVE  Overwrites(d, t)'
        <5>1. d # c
          BY <3>1, <3>5, <4>1 DEF Overwrites
        <5>2. Still(d)
          BY <5>1, StepsAreLocal DEF CommitInv
        <5> QED BY <3>1, <3>5, <4>1, <5>2 DEF Overwrites, Still, Writing, Tid
      <4> QED BY <2>0, <2>3, <3>1, <3>5, <4>1 DEF ChainOK
    <3> QED BY <3>4, <3>5
  <2> QED BY <2>1, <2>2, <2>3
<1> QED BY <1>2, <1>3 DEF ChainsOK

LEMMA ChainsInductive == CommitInv /\ ChainsOK /\ [Next]_vars => ChainsOK'
<1> SUFFICES ASSUME CommitInv, ChainsOK, [Next]_vars PROVE ChainsOK'
  OBVIOUS
<1>1. CASE TickerStep \/ UNCHANGED vars
  <2>1. UNCHANGED <<version, pc, prog, done, last_commit_tid_>>
    BY <1>1, TickerMoves
  <2>2. UNCHANGED next
    BY <1>1 DEF TickerStep, Bump, Pass, Publish, records, vars
  <2>3. \A c \in Cores, t \in Tuples : Overwrites(c, t)' <=> Overwrites(c, t)
    BY <2>1 DEF Overwrites, Writing, Tid
  <2> QED BY <2>1, <2>2, <2>3 DEF ChainsOK, ChainOK
<1>2. CASE \E c \in Cores : CoreStep(c)
  BY <1>2, ChainsStep
<1> QED BY <1>1, <1>2, StepKinds

-----------------------------------------------------------------------------
(* The type invariant.                                                     *)

\* Every value was written by a transaction that has begun.
ValuesOK == value \in [Tuples -> Transaction]

LEMMA ValuesInductive == CommitInv /\ NumbersOK /\ ValuesOK /\ [Next]_vars => ValuesOK'
<1> SUFFICES ASSUME CommitInv, NumbersOK, ValuesOK, [Next]_vars PROVE ValuesOK'
  OBVIOUS
<1>1. CASE TickerStep \/ UNCHANGED vars
  BY <1>1, TickerMoves DEF ValuesOK
<1>2. ASSUME NEW c \in Cores, CoreStep(c)
      PROVE  ValuesOK'
  <2>1. CASE StoreValue(c)
    <3>1. Writing(c) \in Tuples /\ value' = [value EXCEPT ![Writing(c)] = Txn(c)]
      BY <2>1, WritesWhatItHolds DEF StoreValue, Modifying
    <3>2. txns[c] \in Nat \ {0}
      <4>1. txns[c] \in Nat
        BY DEF CommitInv, TypesOK
      <4>2. pc[c] # "idle" => 1 <= txns[c]
        BY DEF NumbersOK
      <4>3. pc[c] # "idle"
        BY <2>1 DEF StoreValue
      <4> QED BY <4>1, <4>2, <4>3
    <3>3. Txn(c) \in Transaction
      BY <3>2 DEF Txn, Transaction
    <3> QED BY <3>1, <3>3 DEF ValuesOK
  <2> QED BY <1>2, <2>1, Frame DEF ValuesOK
<1> QED BY <1>1, <1>2, StepKinds

TypeInv == CommitInv /\ NumbersOK /\ TickerOK /\ ChainsOK /\ ValuesOK

LEMMA TypeInvInit == Init => TypeInv
<1>1. Init => ValuesOK
  BY DEF Init, ValuesOK, Transaction
<1> QED BY <1>1, CommitInvInit, NumbersInit, TickerStarts, ChainsStart DEF TypeInv

LEMMA TypeInvInductive == TypeInv /\ [Next]_vars => TypeInv'
BY NumbersFit, CommitInvInductive, NumbersInductive, TickerInductive, ChainsInductive,
   ValuesInductive DEF TypeInv

LEMMA TypeInvIsType == TypeInv => SiloTypeOK
<1> SUFFICES ASSUME TypeInv PROVE SiloTypeOK
  OBVIOUS
<1>0. CommitInv /\ NumbersOK /\ TickerOK /\ ChainsOK /\ ValuesOK
  BY DEF TypeInv
<1>1. /\ current_tick_ \in FirstTick .. MaxTick
      /\ last_tick_inclusive_ \in {current_tick_ - 2, current_tick_ - 1}
      /\ \A c \in Cores : ticks_[c] \in {current_tick_ - 1, current_tick_}
  BY <1>0, FirstTickIs, SiloAssumption DEF CommitInv, TypesOK, TickerOK
<1>2. /\ hdr \in [Tuples -> Headers] /\ value \in [Tuples -> Transaction]
      /\ held \in [Cores -> SUBSET Tuples]
  BY <1>0 DEF CommitInv, LockInv, StateOK, ValuesOK
<1>3. \A c \in Cores : txns[c] \in 0 .. MaxTxns[c]
  BY <1>0, SiloAssumption DEF CommitInv, TypesOK, NumbersOK
<1>4. ASSUME NEW c \in Cores
      PROVE  NumId(Tid(c)) < NumIds - 1
  <2>1. NumId(Tid(c)) <= Cardinality(Numbered) + 1
    BY <1>0 DEF NumbersOK
  <2>2. NumId(Tid(c)) \in 0 .. NumIds - 1 /\ NumIds \in Nat
    BY <1>0, Fields, SiloAssumption DEF CommitInv, TypesOK, Tid
  <2>3. NumId(Tid(c)) \in Int
    BY <2>2
  <2> QED BY <2>1, <2>2, <2>3, NumberedFits, RunIsFinite
<1>5. ASSUME NEW t \in Tuples
      PROVE  /\ hdr[t].locked = (\E c \in Cores : t \in held[c])
             /\ \A c, d \in Cores : t \in held[c] \cap held[d] => c = d
             /\ EpochId(version[t]) <= current_tick_
             /\ \A i, j \in DOMAIN next[t] : i < j => next[t][i].tid > next[t][j].tid
             /\ \A i \in DOMAIN next[t] :
                   \/ next[t][i].tid < version[t]
                   \/ next[t][i].tid = version[t] /\ hdr[t].modifying
  <2>1. hdr[t].locked = (\E c \in Cores : t \in held[c])
    <3>1. hdr[t].locked \in BOOLEAN
      BY <1>2 DEF Headers
    <3>2. hdr[t].locked <=> \E c \in Cores : t \in held[c]
      BY <1>0 DEF CommitInv, LockInv, LockedIffHeld
    <3> QED BY <3>1, <3>2, Zenon
  <2>2. \A c, d \in Cores : t \in held[c] \cap held[d] => c = d
    BY <1>0 DEF CommitInv, LockInv, Exclusive
  <2>3. EpochId(version[t]) <= current_tick_
    BY <1>0 DEF CommitInv, EpochsOK
  <2>4. ChainOK(t)
    BY <1>0 DEF ChainsOK
  <2>5. \A i, j \in DOMAIN next[t] : i < j => next[t][i].tid > next[t][j].tid
    <3>1. \A i, j \in DOMAIN next[t] : i < j => next[t][j].tid < next[t][i].tid
      BY <2>4 DEF ChainOK
    <3>2. \A i \in DOMAIN next[t] : next[t][i].tid \in Nat
      <4>1. \A i \in DOMAIN next[t] : next[t][i] \in OldVersions
        BY <2>4 DEF ChainOK
      <4>2. \A o \in OldVersions : o.tid \in Nat
        BY DEF OldVersions
      <4> QED BY <4>1, <4>2
    <3> TAKE i, j \in DOMAIN next[t]
    <3>3. PICK x \in Nat, y \in Nat : x = next[t][i].tid /\ y = next[t][j].tid
      BY <3>2
    <3>4. i < j => y < x
      BY <3>1, <3>3
    <3>5. y < x => x > y
      BY <3>3
    <3> QED BY <3>3, <3>4, <3>5
  <2>6. ASSUME NEW c \in Cores, Overwrites(c, t)
        PROVE  hdr[t].modifying
    BY <1>0, <2>6 DEF Overwrites, CommitInv, CoreOK, WriteOK
  <2>7. \A i \in DOMAIN next[t] : \/ next[t][i].tid < version[t]
                                  \/ next[t][i].tid = version[t] /\ hdr[t].modifying
    BY <2>4, <2>6 DEF ChainOK
  <2> QED BY <2>1, <2>2, <2>3, <2>5, <2>7
<1>6. ASSUME NEW c \in Cores, NEW t \in Writes(c), pc[c] \in {"write", "writevalue", "writetid"}
      PROVE  version[t] <= Tid(c)
  <2>1. Past(c) /\ NewerOK(c)
    BY <1>0, <1>6 DEF Past, Modifying, CommitInv, CoreOK
  <2>2. t \in Tuples
    BY <1>0, <2>1, PastHolds
  <2>3. version[t] \in Nat /\ Tid(c) \in Nat
    BY <1>0, <2>2 DEF CommitInv, TypesOK, Tid
  <2> QED BY <2>1, <2>3 DEF NewerOK
<1> QED BY <1>1, <1>2, <1>3, <1>4, <1>5, <1>6 DEF SiloTypeOK

-----------------------------------------------------------------------------
(* The invariant behind the order of the epochs.                           *)

\* The bounds that a snapshot may have taken so far, and may ever take.
Bounds == {ComputeReadOnlyTid(ex) : ex \in FirstTick .. (last_tick_inclusive_ + 1)}
AllBounds == {ComputeReadOnlyTid(ex) : ex \in {e \in Nat : FirstTick <= e}}

\* The j-th writer of record t is v or one before it.
UpTo(t, v, j) == \E i \in DOMAIN installed[t] : j <= i /\ installed[t][i] = v

\* Of the writers of t those up to v, and no other, are within bound b.
ReadsAt(t, v, b) ==
  /\ v = Loader \/ v \in ToSet(installed[t])
  /\ \A d \in Serial : \A j \in DOMAIN installed[t] :
       installed[t][j] = d.txn => (d.tid <= b <=> UpTo(t, v, j))

\* A writer's tid is of an epoch that its core has entered.
GuardOK(c) == Past(c) /\ Writes(c) # {} => ticks_[c] <= EpochId(Tid(c))

\* The tid that is decided is the core's, and a record has its last writer's.
WriterTidsOK ==
  /\ \A t \in Tuples : MakeTid(0, 1, 1) <= version[t]
  /\ \A d \in Serial : EpochId(d.tid) <= current_tick_
  /\ \A d \in Serial : \A t \in Tuples : \A j \in DOMAIN installed[t] :
       installed[t][j] = d.txn => d.tid <= version[t]
  /\ \A c \in Cores : pc[c] \in Modifying =>
       \A d \in Serial : d.txn = Txn(c) => d.tid = Tid(c)

\* A version that a snapshot may need has been copied before it is overwritten.
CopyOK(c) ==
  LET t == Writing(c)
  IN  /\ pc[c] \in {"writevalue", "writetid"}
      /\ ~can_overwrite_record_tid(version[t], Tid(c))
      => next[t] # <<>> /\ next[t][1].tid = version[t] /\ next[t][1].value = LastWriter(t)

\* A snapshot finds its version of a record that is newer in the chain.
OldOK(t) ==
  \A b \in AllBounds : b < version[t] =>
    \E i \in DOMAIN next[t] :
      /\ next[t][i].tid <= b /\ \A j \in DOMAIN next[t] : j < i => b < next[t][j].tid
      /\ ReadsAt(t, next[t][i].value, b)

\* What a snapshot has read is what its bound shows, for good.
SnapshotOK(c) ==
  prog[c].snapshot =>
    /\ read_set[c] \in Seq(ReadRecords)
    /\ pc[c] = "snapshot" => read_set[c] = <<>>
    /\ pc[c] # "snapshot" => bound[c] \in Bounds
    /\ pc[c] \in {"read", "readnext"} \cup Loads => Len(read_set[c]) < Len(prog[c].reads)
    /\ \A k \in DOMAIN read_set[c] :
         ReadsAt(read_set[c][k].tuple, read_set[c][k].value, bound[c])

\* What a snapshot has loaded, if the header is still the same.
LoadedOK(c) ==
  prog[c].snapshot /\ pc[c] \in {"readnext"} \cup Loads =>
    LET t == Reading(c)
        same == ~hdr[t].modifying /\ hdr[t].count = seen[c].hdr.count
    IN  /\ seen[c] \in SeenRecords
        /\ ~seen[c].hdr.modifying /\ seen[c].hdr.count <= hdr[t].count
        /\ pc[c] = "readvalue" /\ same => version[t] <= bound[c]
        /\ pc[c] = "readnext" => bound[c] < version[t]
        /\ pc[c] = "readcheck" =>
             \/ ReadsAt(t, seen[c].value, bound[c])
             \/ same => version[t] <= bound[c] /\ seen[c].value = value[t]

SnapshotsOK ==
  \A s \in decided : s.snapshot =>
    /\ s.tid \in Bounds /\ s.writes = {}
    /\ \A r \in s.reads : r[1] \in Tuples /\ ReadsAt(r[1], r[2], s.tid)

\* Transaction x has a tid of epoch e.
HasEpoch(x, e) ==
  \/ \E d \in Serial : d.txn = x /\ d.writes # {} /\ e = EpochId(d.tid)
  \/ \E c \in Cores : Past(c) /\ Writes(c) # {} /\ Txn(c) = x /\ e = EpochId(Tid(c))

\* Epochs do not fall along the serial order.
EpochsRise(rank) ==
  \A x, y \in Ranked : \A e, f \in Nat :
    HasEpoch(x, e) /\ HasEpoch(y, f) /\ rank[x] <= rank[y] => e <= f

EpochInv ==
  /\ WriterTidsOK /\ SnapshotsOK
  /\ \A c \in Cores : GuardOK(c) /\ CopyOK(c) /\ SnapshotOK(c) /\ LoadedOK(c)
  /\ \A t \in Tuples : OldOK(t)

-----------------------------------------------------------------------------
(* The bounds of the snapshots.                                            *)

LEMMA DivisionBound ==
  ASSUME NEW m \in Nat \ {0}, NEW e \in Nat, NEW q \in Nat
  PROVE  m * q <= e <=> q <= e \div m
<1>1. e \div m \in Nat /\ e % m \in 0 .. m - 1 /\ e = m * (e \div m) + (e % m)
  BY Division
<1> DEFINE p == e \div m
<1>2. p \in Nat
  BY <1>1
<1> HIDE DEF p
<1>3. m * p \in Int /\ m * q \in Int /\ m * (p + 1) = m * p + m
  <2>1. m * (p + 1) = m * p + m * 1
    BY <1>2, Distributes
  <2> QED BY <1>2, <2>1, Distributes
<1>4. ASSUME q <= p
      PROVE  m * q <= e
  <2>1. m * q <= m * p
    BY <1>2, <1>4, Scaled
  <2> QED BY <1>1, <1>3, <2>1 DEF p
<1>5. ASSUME m * q <= e
      PROVE  q <= p
  <2>1. m * q < m * (p + 1)
    BY <1>1, <1>3, <1>5 DEF p
  <2>2. q < p + 1
    BY <1>2, <2>1, Unscaled
  <2> QED BY <1>2, <2>2
<1> QED BY <1>4, <1>5 DEF p

\* A bound is the last tid before an epoch that snapshots tell from the one before.
LEMMA BoundIs ==
  ASSUME NEW ex \in Nat, FirstTick <= ex
  PROVE  \E q \in Nat : LET b == ReadOnlyEpochMultiplier * q
                        IN  /\ b \in Nat /\ 2 <= b /\ b <= ex
                            /\ ComputeReadOnlyTid(ex) \in Nat
                            /\ \A x \in Nat : x <= ComputeReadOnlyTid(ex) <=> EpochId(x) < b
<1> DEFINE m == ReadOnlyEpochMultiplier
<1>0. /\ CoreIds \in Nat \ {0} /\ NumIds \in Nat \ {0} /\ m \in Nat \ {0}
      /\ FirstTick \in Nat /\ 2 <= FirstTick /\ m <= FirstTick
  BY SiloAssumption, FirstTickIs
<1> HIDE DEF m
<1>1. PICK q \in Nat : q = ex \div m
  BY <1>0, Division
<1>2. PICK b \in Nat : b = m * q
  BY <1>0, Z3
<1>3. b <= ex
  BY <1>0, <1>1, <1>2, DivisionBound
<1>4. 2 <= b
  <2>1. CASE m = 1
    <3>1. ex \div 1 = ex
      <4>1. ex = 1 * ex + 0
        OBVIOUS
      <4> QED BY <4>1, DivisionIsUnique
    <3> QED BY <1>0, <1>1, <1>2, <2>1, <3>1
  <2>2. CASE m # 1
    <3>1. m * 1 <= ex
      BY <1>0
    <3>2. 1 <= q
      BY <1>0, <1>1, <3>1, DivisionBound
    <3>3. m * 1 <= m * q
      BY <1>0, <3>2, Scaled
    <3> QED BY <1>0, <1>2, <2>2, <3>3
  <2> QED BY <2>1, <2>2
<1>5. ComputeReadOnlyTid(ex) = MakeTid(CoreIds - 1, NumIds - 1, b - 1)
  <2>1. to_read_only_tick(ex) * ReadOnlyEpochMultiplier = b
    BY <1>0, <1>1, <1>2, Distributes DEF to_read_only_tick, m
  <2> QED BY <1>4, <2>1 DEF ComputeReadOnlyTid
<1>6. PICK e \in Nat : e = b - 1
  BY <1>4
<1>7. PICK B \in Nat : B = MakeTid(CoreIds - 1, NumIds - 1, e)
  BY <1>0, FieldsOfTid
<1>8. (CoreIds * NumIds) * (e + 1) = B + 1
  <2>1. PICK z \in Nat : z = e * NumIds + (NumIds - 1)
    <3>1. e * NumIds \in Nat
      BY <1>0, Z3
    <3> QED BY <1>0, <3>1
  <2>2. NumIds * (e + 1) = z + 1
    <3>1. NumIds * (e + 1) = NumIds * e + NumIds * 1 /\ NumIds * e = e * NumIds
      BY <1>0, Distributes
    <3>2. e * NumIds \in Int
      BY <1>0, Distributes
    <3> QED BY <1>0, <2>1, <3>1, <3>2
  <2>3. (CoreIds * NumIds) * (e + 1) = CoreIds * (z + 1)
    BY <1>0, <2>2, Distributes
  <2>4. CoreIds * (z + 1) = CoreIds * z + CoreIds * 1 /\ CoreIds * z = z * CoreIds
        /\ CoreIds * z \in Int
    BY <1>0, Distributes
  <2>5. B = z * CoreIds + (CoreIds - 1)
    BY <1>7, <2>1 DEF MakeTid
  <2> QED BY <1>0, <2>3, <2>4, <2>5
<1>9. ASSUME NEW x \in Nat
      PROVE  x <= B <=> EpochId(x) < b
  <2>1. EpochId(x) \in Nat /\ (EpochId(x) <= e <=> x < B + 1)
    BY <1>8, EpochBound
  <2> QED BY <1>6, <2>1
<1> QED BY <1>2, <1>3, <1>4, <1>5, <1>6, <1>7, <1>9 DEF m

\* What every bound of a snapshot is like: the loader's tid is within it, it does
\* not cut an epoch, and no version within it is overwritten by one past it.
LEMMA BoundFacts ==
  ASSUME NEW B \in AllBounds
  PROVE  /\ B \in Nat /\ MakeTid(0, 1, 1) <= B
         /\ \A x, y \in Nat : EpochId(x) <= EpochId(y) /\ y <= B => x <= B
         /\ \A x, y \in Nat : x <= B /\ B < y /\ x # 0 => ~can_overwrite_record_tid(x, y)
<1>1. PICK ex \in Nat : FirstTick <= ex /\ B = ComputeReadOnlyTid(ex)
  BY DEF AllBounds
<1>2. PICK q \in Nat : LET b == ReadOnlyEpochMultiplier * q
                       IN  /\ b \in Nat /\ 2 <= b
                           /\ B \in Nat /\ \A x \in Nat : x <= B <=> EpochId(x) < b
  BY <1>1, BoundIs
<1>3. PICK b \in Nat : b = ReadOnlyEpochMultiplier * q
  BY <1>2
<1>4. 2 <= b /\ B \in Nat /\ \A x \in Nat : x <= B <=> EpochId(x) < b
  BY <1>2, <1>3
<1>5. MakeTid(0, 1, 1) <= B
  <2>1. 1 \in 0 .. NumIds - 1 /\ 0 \in 0 .. CoreIds - 1
    BY RunIsFinite, SiloAssumption
  <2>2. MakeTid(0, 1, 1) \in Nat /\ EpochId(MakeTid(0, 1, 1)) = 1
    BY <2>1, FieldsOfTid
  <2> QED BY <1>4, <2>2
<1>6. \A x \in Nat : EpochId(x) \in Nat
  BY EpochBound
<1>7. \A x, y \in Nat : EpochId(x) <= EpochId(y) /\ y <= B => x <= B
  <2> TAKE x, y \in Nat
  <2>1. (x <= B <=> EpochId(x) < b) /\ (y <= B <=> EpochId(y) < b)
        /\ EpochId(x) \in Nat /\ EpochId(y) \in Nat
    BY <1>4, <1>6
  <2> QED BY <2>1
<1>8. ASSUME NEW x \in Nat, NEW y \in Nat, x <= B, B < y, x # 0
      PROVE  ~can_overwrite_record_tid(x, y)
  <2>1. PICK d \in Nat, e \in Nat : d = EpochId(x) /\ e = EpochId(y)
    BY <1>6
  <2>2. d < b /\ b <= e
    <3>1. d < b /\ ~ (e < b)
      BY <1>4, <1>8, <2>1
    <3> QED BY <3>1
  <2>3. ReadOnlyEpochMultiplier \in Nat \ {0}
    BY SiloAssumption
  <2>4. to_read_only_tick(d) \in Nat /\ to_read_only_tick(e) \in Nat
    BY <2>3, Division DEF to_read_only_tick
  <2>5. q <= to_read_only_tick(e) /\ ~ (q <= to_read_only_tick(d))
    BY <1>3, <2>2, <2>3, DivisionBound DEF to_read_only_tick
  <2>6. to_read_only_tick(d) # to_read_only_tick(e)
    BY <2>4, <2>5
  <2> QED BY <1>8, <2>1, <2>6 DEF can_overwrite_record_tid
<1> QED BY <1>4, <1>5, <1>7, <1>8

\* A tid of an epoch that is not over is past every bound so far.
LEMMA BoundsArePast ==
  ASSUME last_tick_inclusive_ \in Int, NEW B \in Bounds, NEW x \in Nat,
         last_tick_inclusive_ < EpochId(x)
  PROVE  B < x
<1>1. PICK ex \in FirstTick .. (last_tick_inclusive_ + 1) : B = ComputeReadOnlyTid(ex)
  BY DEF Bounds
<1>2. ex \in Nat /\ FirstTick <= ex /\ ex <= last_tick_inclusive_ + 1
  BY FirstTickIs
<1>3. PICK q \in Nat : LET b == ReadOnlyEpochMultiplier * q
                       IN  /\ b \in Nat /\ b <= ex
                           /\ B \in Nat /\ (x <= B <=> EpochId(x) < b)
  BY <1>1, <1>2, BoundIs
<1>4. PICK b \in Nat : b = ReadOnlyEpochMultiplier * q
  BY <1>3
<1>5. EpochId(x) \in Nat
  BY EpochBound
<1>6. ~ (x <= B) /\ B \in Nat
  BY <1>2, <1>3, <1>4, <1>5
<1> QED BY <1>6

LEMMA BoundsAreAll == Bounds \subseteq AllBounds
<1> SUFFICES ASSUME NEW ex \in FirstTick .. (last_tick_inclusive_ + 1)
             PROVE  ComputeReadOnlyTid(ex) \in AllBounds
  BY DEF Bounds
<1>1. ex \in Nat /\ FirstTick <= ex
  BY FirstTickIs
<1> QED BY <1>1 DEF AllBounds

-----------------------------------------------------------------------------
(* The epochs of the writers' tids.                                        *)

LEMMA TypesOfCore ==
  ASSUME TypeInv, NEW c \in Cores
  PROVE  /\ CommitInv /\ TidsFit /\ TickerOK /\ ChainsOK /\ NumbersOK
         /\ pc \in [Cores -> Places] /\ prog \in [Cores -> AllPrograms]
         /\ txns \in [Cores -> Nat] /\ Txn(c) \in Txns /\ Tid(c) \in Nat
         /\ DOMAIN bound = Cores /\ DOMAIN read_set = Cores /\ DOMAIN seen = Cores
         /\ DOMAIN ticks_ = Cores /\ DOMAIN last_commit_tid_ = Cores
         /\ current_tick_ \in Nat /\ last_tick_inclusive_ \in Int
         /\ last_tick_inclusive_ < ticks_[c] /\ ticks_[c] <= current_tick_
<1>1. CommitInv /\ TidsFit /\ TickerOK /\ ChainsOK /\ NumbersOK
  BY NumbersFit DEF TypeInv
<1>2. /\ pc \in [Cores -> Places] /\ prog \in [Cores -> AllPrograms]
      /\ txns \in [Cores -> Nat]
      /\ DOMAIN bound = Cores /\ DOMAIN read_set = Cores /\ DOMAIN seen = Cores
  BY <1>1 DEF CommitInv, LockInv, StateOK, TypesOK
<1>3. Txn(c) \in Txns /\ Tid(c) \in Nat /\ DOMAIN last_commit_tid_ = Cores
  BY <1>1 DEF CommitInv, TypesOK, Txn, Txns, Tid
<1>4. current_tick_ \in Nat
  BY <1>1, SiloAssumption DEF CommitInv, TypesOK
<1>5. /\ DOMAIN ticks_ = Cores /\ last_tick_inclusive_ \in Int
      /\ last_tick_inclusive_ < ticks_[c] /\ ticks_[c] <= current_tick_
  BY <1>1, <1>4 DEF TickerOK
<1> QED BY <1>1, <1>2, <1>3, <1>4, <1>5

\* A new tid is of the epoch in which it is made.
LEMMA NewTidEpoch ==
  ASSUME TypeInv, NEW c \in Cores, gen_commit_tid(c)
  PROVE  /\ EpochId(last_commit_tid_'[c]) = current_tick_ /\ last_commit_tid_'[c] \in Nat
         /\ UNCHANGED <<prog, txns, ticks_>>
<1>1. CommitInv /\ NumbersOK /\ pc[c] = "tid" /\ DOMAIN last_commit_tid_ = Cores
      /\ current_tick_ \in Nat
  BY TypesOfCore DEF gen_commit_tid
<1>2. PICK k \in 0 .. NumIds - 1 : k = NumId(Newest(c)) + 1
  BY <1>1, NewestNumber, SiloAssumption
<1>3. last_commit_tid_'[c] = MakeTid(c, k, current_tick_)
  BY <1>1, <1>2 DEF gen_commit_tid
<1>4. c \in 0 .. CoreIds - 1
  BY SiloAssumption
<1>5. UNCHANGED <<prog, txns, ticks_>>
  BY DEF gen_commit_tid, Committing, local
<1> QED BY <1>1, <1>3, <1>4, <1>5, FieldsOfTid

\* A transaction that comes to count writes nothing or has just got its tid.
LEMMA EntersNow ==
  ASSUME TypeInv, NEW c \in Cores, CoreStep(c), ~Past(c), Past(c)'
  PROVE  Writes(c)' = {} \/ gen_commit_tid(c)
<1>1. /\ CommitInv /\ pc'[c] = "validate"
      /\ pc \in [Cores -> Places] /\ prog \in [Cores -> AllPrograms]
  BY TypesOfCore, Enters
<1>2. \A p : AfterReads(p) = "validate" \/ StartReads(p) = "validate" => ToSet(p.writes) = {}
  BY DEF AfterReads, StartReads, ToSet
<1>3. CASE Begin(c)
  <2>1. PICK p \in Programs[c] :
          /\ prog' = [prog EXCEPT ![c] = p]
          /\ pc' = [pc EXCEPT ![c] = IF p.snapshot THEN "snapshot" ELSE StartReads(p)]
    BY <1>3 DEF Begin, Goto
  <2>2. prog'[c] = p /\ (p.snapshot => pc'[c] = "snapshot") /\ (~p.snapshot => pc'[c] = StartReads(p))
    BY <1>1, <2>1
  <2>3. StartReads(p) = "validate"
    BY <1>1, <2>2
  <2> QED BY <1>2, <2>2, <2>3 DEF Writes
<1>4. CASE ReadCheck(c)
  <2>1. UNCHANGED prog /\ pc'[c] \in {"read", AfterReads(prog[c])}
    BY <1>1, <1>4, CheckMove
  <2>2. AfterReads(prog[c]) = "validate"
    BY <1>1, <2>1
  <2> QED BY <1>2, <2>1, <2>2 DEF Writes
<1>5. CASE TakeSnapshot(c)
  <2>1. prog[c].snapshot
    BY <1>1, <1>5 DEF TakeSnapshot, CommitInv, CoreOK, PlaceOK
  <2>2. pc'[c] = StartReads(prog[c])
    BY <1>1, <1>5 DEF TakeSnapshot, Goto
  <2> QED BY <1>1, <2>1, <2>2 DEF StartReads, AfterReads
<1>6. ~ (ReadHeader(c) \/ ReadVersion(c) \/ ReadValue(c) \/ ReadNext(c))
  BY <1>1, ReadsMove
<1>7. ~ (Lock(c) \/ Unlock(c) \/ End(c))
  BY <1>1 DEF Lock, Unlock, End, Goto
<1>8. ~ (CheckOwn(c) \/ LoadHeader(c) \/ CheckLatest(c) \/ Validated(c) \/ MarkModifying(c)
         \/ StoreValue(c) \/ StoreVersion(c))
  BY DEF CheckOwn, LoadHeader, CheckLatest, Validated, MarkModifying, StoreValue, StoreVersion,
     Past, Checks, Modifying
<1> QED BY <1>3, <1>4, <1>5, <1>6, <1>7, <1>8 DEF CoreStep

\* What stays of a transaction that counts, and of a core that does not move.
LEMMA PastKept ==
  ASSUME TypeInv, NEW c \in Cores, CoreStep(c), NEW d \in Cores, d # c \/ Past(c)
  PROVE  /\ Past(d)' => Past(d)
         /\ Txn(d)' = Txn(d) /\ Writes(d)' = Writes(d)
         /\ Tid(d)' = Tid(d) /\ ticks_'[d] = ticks_[d]
<1>1. CommitInv /\ DOMAIN ticks_ = Cores
  BY TypesOfCore
<1>2. CASE d # c
  <2>1. Still(d)
    BY <1>1, <1>2, StepsAreLocal DEF CommitInv
  <2>2. ticks_'[d] = ticks_[d]
    <3>1. Begin(c) => ticks_' = [ticks_ EXCEPT ![c] = current_tick_]
      BY DEF Begin
    <3>2. ~Begin(c) => UNCHANGED ticks_
      BY DEF CoreStep, TakeSnapshot, ReadHeader, ReadVersion, ReadValue, ReadNext, ReadCheck,
         Loading, Lock, gen_commit_tid, CheckOwn, LoadHeader, CheckLatest, Validated,
         MarkModifying, StoreValue, StoreVersion, Unlock, End, Committing
    <3> QED BY <1>1, <1>2, <3>1, <3>2
  <2> QED BY <2>1, <2>2 DEF Still, Past, Txn, Writes, Tid
<1>3. CASE d = c /\ Past(c)
  <2>1. CheckOwn(c) \/ LoadHeader(c) \/ CheckLatest(c) \/ Validated(c) \/ MarkModifying(c)
        \/ StoreValue(c) \/ StoreVersion(c)
    BY <1>3 DEF Past, Checks, Modifying, CoreStep, Begin, TakeSnapshot, ReadHeader, ReadVersion,
       ReadValue, ReadNext, ReadCheck, Lock, gen_commit_tid, Unlock, End
  <2>2. UNCHANGED <<prog, txns, last_commit_tid_, ticks_>>
    BY <2>1 DEF CheckOwn, LoadHeader, CheckLatest, Validated, MarkModifying,
       StoreValue, StoreVersion, Committing, local
  <2> QED BY <1>3, <2>2 DEF Txn, Writes, Tid
<1> QED BY <1>2, <1>3

LEMMA GuardStep ==
  ASSUME TypeInv, EpochInv, NEW c \in Cores, CoreStep(c), NEW d \in Cores
  PROVE  GuardOK(d)'
<1>1. GuardOK(d)
  BY DEF EpochInv
<1>2. SUFFICES ASSUME Past(d)', Writes(d)' # {}
               PROVE  ticks_'[d] <= EpochId(last_commit_tid_'[d])
  BY DEF GuardOK, Tid
<1>3. CASE d # c \/ Past(c)
  BY <1>1, <1>2, <1>3, PastKept DEF GuardOK, Tid
<1>4. CASE d = c /\ ~Past(c)
  <2>1. gen_commit_tid(c)
    BY <1>2, <1>4, EntersNow
  <2>2. EpochId(last_commit_tid_'[c]) = current_tick_ /\ UNCHANGED ticks_
    BY <2>1, NewTidEpoch
  <2> QED BY <1>4, <2>2, TypesOfCore
<1> QED BY <1>3, <1>4

LEMMA SerialTids ==
  ASSUME CommitInv, NEW d \in Serial
  PROVE  d.tid \in Nat /\ d.txn \in Committed /\ d.txn \in Txns /\ d.txn # Loader
<1>1. d \in Decisions
  BY DEF CommitInv, TypesOK
<1>2. d.tid \in Nat
  BY <1>1 DEF Decisions
<1>3. Loader \notin Txns
  BY SiloAssumption DEF Loader, Txns
<1> QED BY <1>2, <1>3, SerialAreTyped

\* Who decides has written nothing yet.
LEMMA NewDecision ==
  ASSUME CommitInv, NEW c \in Cores, Validated(c)
  PROVE  \E d \in Decisions :
           /\ d = Decision(c) /\ Serial' = Serial \cup {d}
           /\ d.txn = Txn(c) /\ d.tid = Tid(c) /\ d.writes = Writes(c)
           /\ Txn(c) \notin Committed /\ Past(c)
           /\ \A t \in Tuples : \A j \in DOMAIN installed[t] : installed[t][j] # Txn(c)
           /\ UNCHANGED <<installed, version, txns, prog, last_commit_tid_, ticker>>
<1>1. pc[c] = "validate" /\ Past(c)
  BY DEF Validated, Past, Checks
<1>2. PICK d \in Decisions : d = Decision(c)
  BY <1>1, DecisionIsTyped
<1>3. d.txn = Txn(c) /\ d.tid = Tid(c) /\ d.writes = Writes(c) /\ ~d.snapshot
  BY <1>2 DEF Decision
<1>4. Serial' = Serial \cup {d}
  <2>1. decided' = decided \cup {d}
    BY <1>2 DEF Validated, Decision
  <2> QED BY <1>3, <2>1 DEF Serial
<1>5. Txn(c) \notin Committed
  BY <1>1, NotYetCommitted DEF After, Modifying
<1>6. \A t \in Tuples : \A j \in DOMAIN installed[t] : installed[t][j] # Txn(c)
  BY <1>5, WritersAreTyped
<1>7. UNCHANGED <<installed, version, txns, prog, last_commit_tid_, ticker>>
  BY DEF Validated, Committing, records, local
<1> QED BY <1>1, <1>2, <1>3, <1>4, <1>5, <1>6, <1>7

\* What a writer adds to the history.
LEMMA Appended ==
  ASSUME CommitInv, NEW c \in Cores, StoreVersion(c)
  PROVE  \E w \in Tuples, l \in Nat :
           /\ w = Writing(c) /\ l = Len(installed[w])
           /\ DOMAIN installed[w] = 1 .. l /\ DOMAIN installed'[w] = 1 .. l + 1
           /\ installed'[w][l + 1] = Txn(c)
           /\ \A i \in 1 .. l : installed'[w][i] = installed[w][i]
           /\ version'[w] = Tid(c) /\ version[w] \in Nat /\ version[w] <= Tid(c)
           /\ \A u \in Tuples : u # w => installed'[u] = installed[u] /\ version'[u] = version[u]
           /\ Serial' = Serial /\ pc[c] = "writetid"
           /\ UNCHANGED <<next, prog, txns, last_commit_tid_, ticker, hdr, value>>
<1>1. PICK w \in Tuples :
        /\ w = Writing(c) /\ version'[w] = Tid(c)
        /\ installed'[w] = Append(installed[w], Txn(c))
        /\ \A u \in Tuples : u # w => version'[u] = version[u] /\ installed'[u] = installed[u]
        /\ version[w] < Tid(c) \/ version[w] = Tid(c)
  BY VersionEffect
<1>2. PICK l \in Nat : l = Len(installed[w])
  BY WritersAreTyped
<1>3. installed[w] \in Seq(Txns) /\ Txn(c) \in Txns
  BY WritersAreTyped DEF CommitInv, TypesOK, Txn, Txns
<1>4. /\ DOMAIN installed[w] = 1 .. l /\ DOMAIN installed'[w] = 1 .. l + 1
      /\ installed'[w][l + 1] = Txn(c)
      /\ \A i \in 1 .. l : installed'[w][i] = installed[w][i]
  BY <1>1, <1>2, <1>3
<1>5. version[w] \in Nat /\ Tid(c) \in Nat
  BY HeaderTypes DEF CommitInv, TypesOK, Tid
<1>6. /\ Serial' = Serial /\ pc[c] = "writetid"
      /\ UNCHANGED <<next, prog, txns, last_commit_tid_, ticker, hdr, value>>
  BY DEF StoreVersion, Serial, Committing, local
<1>7. version[w] <= Tid(c)
  BY <1>1, <1>5
<1>8. /\ w = Writing(c) /\ version'[w] = Tid(c)
      /\ \A u \in Tuples : u # w => installed'[u] = installed[u] /\ version'[u] = version[u]
  BY <1>1
<1> QED BY <1>2, <1>4, <1>5, <1>6, <1>7, <1>8, Zenon

LEMMA WriterTidsStep ==
  ASSUME TypeInv, WriterTidsOK, NEW c \in Cores, CoreStep(c)
  PROVE  WriterTidsOK'
<1>0. CommitInv /\ current_tick_' = current_tick_ /\ Tid(c) \in Nat
  BY TypesOfCore, Frame DEF ticker
<1>1. ASSUME NEW t \in Tuples
      PROVE  MakeTid(0, 1, 1) <= version'[t]
  <2>1. MakeTid(0, 1, 1) <= version[t] /\ version[t] \in Nat
    BY <1>0, HeaderTypes DEF WriterTidsOK
  <2>2. version'[t] = version[t] \/ (version'[t] = Tid(c) /\ version[t] <= Tid(c))
    BY <1>0, Frame, Appended
  <2>3. MakeTid(0, 1, 1) \in Int
    <3>1. NumIds \in Int /\ CoreIds \in Int
      BY SiloAssumption
    <3>2. (1 * NumIds + 1) * CoreIds \in Int
      BY <3>1, Distributes
    <3> QED BY <3>2 DEF MakeTid
  <2> QED BY <1>0, <2>1, <2>2, <2>3
<1>2. CASE Serial' = Serial /\ ~StoreVersion(c) /\ ~Validated(c)
  <2>1. UNCHANGED <<version, installed>>
    BY <1>2, Frame
  <2>2. ASSUME NEW e \in Cores, pc'[e] \in Modifying, NEW d \in Serial, d.txn = Txn(e)'
        PROVE  d.tid = Tid(e)'
    <3>1. pc[e] \in Modifying
      <4>1. CASE e # c
        BY <1>0, <2>2, <4>1, StepsAreLocal DEF CommitInv, Still
      <4>2. CASE e = c
        BY <1>0, <1>2, <2>2, <4>2, StartsWriting
      <4> QED BY <4>1, <4>2
    <3>2. Txn(e)' = Txn(e) /\ Tid(e)' = Tid(e)
      BY <3>1, PastKept DEF Past
    <3> QED BY <2>2, <3>1, <3>2 DEF WriterTidsOK
  <2>3. /\ \A d \in Serial : EpochId(d.tid) <= current_tick_
        /\ \A d \in Serial : \A t \in Tuples : \A j \in DOMAIN installed[t] :
             installed[t][j] = d.txn => d.tid <= version[t]
    BY DEF WriterTidsOK
  <2> QED BY <1>0, <1>1, <1>2, <2>1, <2>2, <2>3 DEF WriterTidsOK
<1>3. CASE Validated(c)
  <2>1. PICK n \in Decisions :
           /\ n = Decision(c) /\ Serial' = Serial \cup {n}
           /\ n.txn = Txn(c) /\ n.tid = Tid(c) /\ n.writes = Writes(c)
           /\ Txn(c) \notin Committed /\ Past(c)
           /\ \A t \in Tuples : \A j \in DOMAIN installed[t] : installed[t][j] # Txn(c)
           /\ UNCHANGED <<installed, version, txns, prog, last_commit_tid_, ticker>>
    BY <1>0, <1>3, NewDecision
  <2>2. \A d \in Serial' : EpochId(d.tid) <= current_tick_
    BY <1>0, <2>1 DEF WriterTidsOK, CommitInv, EpochsOK
  <2>3. \A d \in Serial' : \A t \in Tuples : \A j \in DOMAIN installed[t] :
          installed[t][j] = d.txn => d.tid <= version[t]
    BY <2>1 DEF WriterTidsOK
  <2>4. ASSUME NEW e \in Cores, pc'[e] \in Modifying, NEW d \in Serial', d.txn = Txn(e)
        PROVE  d.tid = Tid(e)
    <3>1. CASE e = c
      <4>1. \A x \in Serial : x.txn # Txn(c)
        BY <1>0, <2>1, SerialTids
      <4> QED BY <2>1, <2>4, <3>1, <4>1
    <3>2. CASE e # c
      <4>1. pc[e] \in Modifying
        BY <1>0, <2>4, <3>2, StepsAreLocal DEF CommitInv, Still
      <4>2. n.txn # Txn(e)
        BY <2>1, <3>2 DEF Txn
      <4> QED BY <2>1, <2>4, <4>1, <4>2 DEF WriterTidsOK
    <3> QED BY <3>1, <3>2
  <2>5. \A e \in Cores : Txn(e)' = Txn(e) /\ Tid(e)' = Tid(e)
    BY <2>1 DEF Txn, Tid
  <2> QED BY <1>0, <1>1, <2>1, <2>2, <2>3, <2>4, <2>5 DEF WriterTidsOK
<1>4. CASE StoreVersion(c)
  <2>1. PICK w \in Tuples, l \in Nat :
           /\ DOMAIN installed[w] = 1 .. l /\ DOMAIN installed'[w] = 1 .. l + 1
           /\ installed'[w][l + 1] = Txn(c)
           /\ \A i \in 1 .. l : installed'[w][i] = installed[w][i]
           /\ version'[w] = Tid(c) /\ version[w] \in Nat /\ version[w] <= Tid(c)
           /\ \A u \in Tuples : u # w => installed'[u] = installed[u] /\ version'[u] = version[u]
           /\ Serial' = Serial /\ pc[c] = "writetid"
           /\ UNCHANGED <<prog, txns, last_commit_tid_>>
    BY <1>0, <1>4, Appended
  <2>2. ASSUME NEW d \in Serial, NEW t \in Tuples, NEW j \in DOMAIN installed'[t],
               installed'[t][j] = d.txn
        PROVE  d.tid <= version'[t]
    <3>0. d.tid \in Nat
      BY <1>0, SerialTids
    <3>1. CASE t # w
      BY <2>1, <2>2, <3>1 DEF WriterTidsOK
    <3>2. CASE t = w /\ j = l + 1
      <4>1. d.tid = Tid(c)
        BY <2>1, <2>2, <3>2 DEF WriterTidsOK, Modifying
      <4> QED BY <1>0, <2>1, <3>2, <4>1
    <3>3. CASE t = w /\ j # l + 1
      <4>1. j \in 1 .. l
        BY <2>1, <3>3
      <4>2. d.tid <= version[w]
        BY <2>1, <2>2, <3>3, <4>1 DEF WriterTidsOK
      <4> QED BY <1>0, <2>1, <3>0, <3>3, <4>2
    <3> QED BY <3>1, <3>2, <3>3
  <2>3. ASSUME NEW e \in Cores, pc'[e] \in Modifying, NEW d \in Serial, d.txn = Txn(e)
        PROVE  d.tid = Tid(e)
    <3>1. pc[e] \in Modifying
      <4>1. CASE e # c
        BY <1>0, <2>3, <4>1, StepsAreLocal DEF CommitInv, Still
      <4>2. CASE e = c
        BY <2>1, <4>2 DEF Modifying
      <4> QED BY <4>1, <4>2
    <3> QED BY <2>3, <3>1 DEF WriterTidsOK
  <2>4. \A e \in Cores : Txn(e)' = Txn(e) /\ Tid(e)' = Tid(e)
    BY <2>1 DEF Txn, Tid
  <2>5. \A d \in Serial : EpochId(d.tid) <= current_tick_
    BY DEF WriterTidsOK
  <2> QED BY <1>0, <1>1, <2>1, <2>2, <2>3, <2>4, <2>5 DEF WriterTidsOK
<1> QED BY <1>0, <1>2, <1>3, <1>4, SerialStep

-----------------------------------------------------------------------------
(* What a bound shows of a record.                                         *)

\* The newest version, if it is within the bound.
LEMMA LastReadsAt ==
  ASSUME CommitInv, WriterTidsOK, NEW t \in Tuples, NEW b \in Nat, version[t] <= b
  PROVE  ReadsAt(t, LastWriter(t), b)
<1>1. /\ DOMAIN installed[t] = 1 .. Len(installed[t]) /\ Len(installed[t]) \in Nat
      /\ version[t] \in Nat /\ (installed[t] = <<>> => Len(installed[t]) = 0)
  BY WritersAreTyped, HeaderTypes
<1>2. \A j \in DOMAIN installed[t] : UpTo(t, LastWriter(t), j)
  <2> TAKE j \in DOMAIN installed[t]
  <2>1. /\ Len(installed[t]) \in DOMAIN installed[t] /\ j <= Len(installed[t])
        /\ installed[t] # <<>>
    BY <1>1
  <2> QED BY <2>1 DEF UpTo, LastWriter, Last
<1>3. LastWriter(t) = Loader \/ LastWriter(t) \in ToSet(installed[t])
  <2>1. CASE installed[t] = <<>>
    BY <2>1 DEF LastWriter
  <2>2. CASE installed[t] # <<>>
    <3>1. installed[t] \in Seq(Txns)
      BY WritersAreTyped
    <3>2. Len(installed[t]) \in DOMAIN installed[t]
      BY <2>2, <3>1
    <3> QED BY <2>2, <3>2 DEF LastWriter, Last, ToSet
  <2> QED BY <2>1, <2>2
<1>4. ASSUME NEW d \in Serial, NEW j \in DOMAIN installed[t], installed[t][j] = d.txn
      PROVE  d.tid <= b
  <2>1. d.tid <= version[t]
    BY <1>4 DEF WriterTidsOK
  <2> QED BY <1>1, <2>1, SerialTids
<1> QED BY <1>2, <1>3, <1>4 DEF ReadsAt

\* A writer with a tid past a bound does not change what the bound shows.
LEMMA ReadsStay ==
  ASSUME TypeInv, WriterTidsOK, NEW c \in Cores, CoreStep(c),
         NEW t \in Tuples, NEW v, NEW b \in Nat, ReadsAt(t, v, b),
         StoreVersion(c) /\ t = Writing(c) => b < Tid(c)
  PROVE  ReadsAt(t, v, b)'
<1>0. CommitInv /\ Tid(c) \in Nat
  BY TypesOfCore
<1>1. CASE Serial' = Serial /\ installed'[t] = installed[t]
  BY <1>1 DEF ReadsAt, UpTo
<1>2. CASE Validated(c)
  <2>1. PICK n \in Decisions :
           /\ Serial' = Serial \cup {n} /\ n.txn = Txn(c)
           /\ \A j \in DOMAIN installed[t] : installed[t][j] # Txn(c)
           /\ UNCHANGED installed
    BY <1>0, <1>2, NewDecision
  <2> QED BY <2>1 DEF ReadsAt, UpTo
<1>3. CASE StoreVersion(c) /\ t = Writing(c)
  <2>0. PICK w \in Tuples, l \in Nat :
           /\ w = Writing(c)
           /\ DOMAIN installed[w] = 1 .. l /\ DOMAIN installed'[w] = 1 .. l + 1
           /\ installed'[w][l + 1] = Txn(c)
           /\ \A i \in 1 .. l : installed'[w][i] = installed[w][i]
           /\ Serial' = Serial /\ pc[c] = "writetid"
    BY <1>0, <1>3, Appended
  <2>1. /\ DOMAIN installed[t] = 1 .. l /\ DOMAIN installed'[t] = 1 .. l + 1
        /\ installed'[t][l + 1] = Txn(c)
        /\ \A i \in 1 .. l : installed'[t][i] = installed[t][i]
        /\ Serial' = Serial /\ pc[c] = "writetid"
    BY <1>3, <2>0
  <2>2. Txn(c) \in Committed /\ Txn(c) \in Txns /\ Loader \notin Txns
    BY <1>0, <2>1, WritersAreTyped, TypesOfCore DEF CommitInv, HistoryOK, Modifying
  <2>3. PICK own \in Serial : own.txn = Txn(c)
    BY <2>2 DEF Committed
  <2>4. \A d \in Serial : d.txn = Txn(c) => d.tid = Tid(c)
    BY <2>1 DEF WriterTidsOK, Modifying
  <2>5. ~ (Tid(c) <= b)
    BY <1>0, <1>3
  <2>6. v # Txn(c)
    <3> SUFFICES ASSUME v = Txn(c) PROVE FALSE
      OBVIOUS
    <3>1. PICK i \in DOMAIN installed[t] : installed[t][i] = Txn(c)
      BY <2>2 DEF ReadsAt, ToSet
    <3>2. UpTo(t, v, i)
      BY <2>1, <3>1 DEF UpTo
    <3> QED BY <2>3, <2>4, <2>5, <3>1, <3>2 DEF ReadsAt
  <2>7. ASSUME NEW d \in Serial, NEW j \in DOMAIN installed'[t], installed'[t][j] = d.txn
        PROVE  d.tid <= b <=> UpTo(t, v, j)'
    <3>1. CASE j = l + 1
      <4>1. ~UpTo(t, v, j)'
        BY <2>1, <2>6, <3>1 DEF UpTo
      <4> QED BY <2>1, <2>4, <2>5, <2>7, <3>1, <4>1
    <3>2. CASE j # l + 1
      <4>1. j \in 1 .. l
        BY <2>1, <3>2
      <4>2. UpTo(t, v, j)' <=> UpTo(t, v, j)
        <5>1. \A i \in 1 .. l + 1 : i \in 1 .. l \/ i = l + 1
          OBVIOUS
        <5>2. \A i \in 1 .. l : i \in 1 .. l + 1
          OBVIOUS
        <5> QED BY <2>1, <2>6, <5>1, <5>2 DEF UpTo
      <4> QED BY <2>1, <2>7, <4>1, <4>2 DEF ReadsAt
    <3> QED BY <3>1, <3>2
  <2>8. v = Loader \/ v \in ToSet(installed'[t])
    <3>1. \A i \in DOMAIN installed[t] : i \in DOMAIN installed'[t] /\ installed'[t][i] = installed[t][i]
      BY <2>1
    <3> QED BY <3>1 DEF ReadsAt, ToSet
  <2> QED BY <2>1, <2>7, <2>8 DEF ReadsAt
<1>4. \/ Validated(c) \/ (StoreVersion(c) /\ t = Writing(c))
      \/ Serial' = Serial /\ installed'[t] = installed[t]
  BY <1>0, SerialStep, Frame, Appended
<1> QED BY <1>1, <1>2, <1>3, <1>4

-----------------------------------------------------------------------------
(* The copies of the versions that snapshots may need.                     *)

LEMMA MarkedCopy ==
  ASSUME TypeInv, NEW c \in Cores, MarkModifying(c)
  PROVE  \E w \in Tuples, l \in Nat :
           /\ w = Writing(c) /\ pc[c] = "write" /\ pc'[c] = "writevalue"
           /\ DOMAIN next[w] = 1 .. l
           /\ \A u \in Tuples : u # w => next'[u] = next[u]
           /\ UNCHANGED <<version, value, prog, done, txns, last_commit_tid_, installed>>
           /\ \/ can_overwrite_record_tid(version[w], Tid(c)) /\ next'[w] = next[w]
              \/ /\ DOMAIN next'[w] = 1 .. l + 1
                 /\ next'[w][1].tid = version[w] /\ next'[w][1].value = LastWriter(w)
                 /\ \A i \in 1 .. l : next'[w][i + 1] = next[w][i]
<1>1. CommitInv /\ ChainsOK /\ pc \in [Cores -> Places]
  BY TypesOfCore
<1>2. /\ pc[c] = "write" /\ pc'[c] = "writevalue"
      /\ UNCHANGED <<version, value, prog, done, txns, last_commit_tid_, installed>>
  BY <1>1 DEF MarkModifying, Goto, Committing, local, history
<1>3. PICK w \in Tuples : w = Writing(c) /\ w \in held[c]
  BY <1>1, <1>2, WritesWhatItHolds DEF Modifying
<1>4. value[w] = LastWriter(w)
  <2>1. ASSUME NEW d \in Cores, pc[d] = "writetid", Writing(d) = w
        PROVE  FALSE
    <3>1. w \in held[d]
      BY <1>1, <2>1, WritesWhatItHolds DEF Modifying
    <3>2. d = c
      BY <1>1, <1>3, <3>1 DEF CommitInv, LockInv, Exclusive
    <3> QED BY <1>2, <2>1, <3>2
  <2> QED BY <1>1, <2>1 DEF CommitInv, TupleOK, ValueOK
<1>5. PICK o \in OldVersions : o = [tid |-> version[w], value |-> value[w]]
  BY <1>1, HeaderTypes DEF OldVersions
<1>6. next' = IF can_overwrite_record_tid(version[w], Tid(c)) THEN next
              ELSE [next EXCEPT ![w] = <<o>> \o @]
  BY <1>3, <1>5 DEF MarkModifying
<1>7. next[w] \in Seq(OldVersions) /\ DOMAIN next = Tuples
  BY <1>1 DEF ChainsOK, ChainOK
<1>8. PICK l \in Nat : l = Len(next[w]) /\ DOMAIN next[w] = 1 .. l
  BY <1>7
<1>9. \A u \in Tuples : u # w => next'[u] = next[u]
  BY <1>6, <1>7
<1>10. CASE can_overwrite_record_tid(version[w], Tid(c))
  <2>1. next'[w] = next[w]
    BY <1>6, <1>10
  <2> QED BY <1>2, <1>3, <1>8, <1>9, <1>10, <2>1, Zenon
<1>11. CASE ~can_overwrite_record_tid(version[w], Tid(c))
  <2>1. next'[w] = <<o>> \o next[w]
    BY <1>6, <1>7, <1>11
  <2>2. /\ DOMAIN next'[w] = 1 .. l + 1 /\ next'[w][1] = o
        /\ \A i \in 1 .. l : next'[w][i + 1] = next[w][i]
    BY <1>7, <1>8, <2>1
  <2>3. next'[w][1].tid = version[w] /\ next'[w][1].value = LastWriter(w)
    BY <1>4, <1>5, <2>2
  <2> QED BY <1>2, <1>3, <1>8, <1>9, <2>2, <2>3, Zenon
<1> QED BY <1>10, <1>11

\* Only marking a record changes a chain.
LEMMA ChainsStay ==
  ASSUME NEW c \in Cores, CoreStep(c), ~MarkModifying(c)
  PROVE  UNCHANGED next
<1>1. CASE Inert(c)
  BY <1>1, InertSteps
<1> QED BY <1>1 DEF CoreStep, Inert, Lock, StoreValue, StoreVersion, Unlock

LEMMA CopyStep ==
  ASSUME TypeInv, EpochInv, NEW c \in Cores, CoreStep(c), NEW d \in Cores
  PROVE  CopyOK(d)'
<1>0. CommitInv /\ ChainsOK /\ pc \in [Cores -> Places] /\ CopyOK(d)
  BY TypesOfCore DEF EpochInv
<1> SUFFICES ASSUME pc'[d] \in {"writevalue", "writetid"}
             PROVE  CopyOK(d)'
  BY DEF CopyOK
<1>1. CASE d # c
  <2>1. Still(d)
    BY <1>0, <1>1, StepsAreLocal DEF CommitInv
  <2>2. PICK t \in Tuples : t = Writing(d) /\ t \in held[d]
    BY <1>0, <2>1, WritesWhatItHolds DEF Still, Modifying
  <2>3. Writing(d)' = t /\ Tid(d)' = Tid(d)
    BY <2>1, <2>2 DEF Still, Writing, Tid
  <2>4. version'[t] = version[t] /\ LastWriter(t)' = LastWriter(t)
    <3>1. version'[t] = version[t] /\ installed'[t] = installed[t]
      BY <1>0, <1>1, <2>2, RecordSteps DEF RecordStep
    <3> QED BY <3>1 DEF LastWriter
  <2>5. next'[t] = next[t]
    <3>1. CASE MarkModifying(c)
      <4>1. PICK w \in Tuples : w = Writing(c) /\ pc[c] = "write"
                                /\ \A u \in Tuples : u # w => next'[u] = next[u]
        BY <3>1, MarkedCopy
      <4>2. w \notin held[d]
        BY <1>0, <1>1, <4>1, WritesWhatItHolds DEF Modifying
      <4> QED BY <2>2, <4>1, <4>2
    <3> QED BY <3>1, ChainsStay
  <2> QED BY <1>0, <2>1, <2>2, <2>3, <2>4, <2>5 DEF CopyOK, Still
<1>2. CASE d = c /\ MarkModifying(c)
  <2>1. PICK w \in Tuples :
           /\ w = Writing(c)
           /\ UNCHANGED <<version, prog, done, last_commit_tid_, installed>>
           /\ \/ can_overwrite_record_tid(version[w], Tid(c))
              \/ /\ DOMAIN next'[w] # {}
                 /\ next'[w][1].tid = version[w] /\ next'[w][1].value = LastWriter(w)
    <3>1. \A k \in Nat : 1 .. k + 1 # {}
      <4>1. \A k \in Nat : 1 \in 1 .. k + 1
        OBVIOUS
      <4> QED BY <4>1
    <3> QED BY <1>2, <3>1, MarkedCopy
  <2>2. Writing(c)' = w /\ Tid(c)' = Tid(c) /\ LastWriter(w)' = LastWriter(w)
    BY <2>1 DEF Writing, Tid, LastWriter
  <2>3. DOMAIN next'[w] # {} => next'[w] # <<>>
    OBVIOUS
  <2> QED BY <1>2, <2>1, <2>2, <2>3 DEF CopyOK
<1>3. CASE d = c /\ ~MarkModifying(c)
  <2>1. StoreValue(c)
    <3>1. ~ (Begin(c) \/ TakeSnapshot(c) \/ ReadCheck(c))
      <4>1. \A p : StartReads(p) \notin {"writevalue", "writetid"}
                   /\ AfterReads(p) \notin {"writevalue", "writetid"}
        BY DEF StartReads, AfterReads
      <4> QED BY <1>0, <1>3, <4>1, CheckMove DEF Begin, TakeSnapshot, Goto
    <3>2. ~ (ReadHeader(c) \/ ReadVersion(c) \/ ReadValue(c) \/ ReadNext(c))
      BY <1>0, <1>3, ReadsMove
    <3>3. ~ (CheckOwn(c) \/ LoadHeader(c) \/ CheckLatest(c))
      BY <1>0, <1>3, ValidationMove
    <3>4. ~ (Lock(c) \/ gen_commit_tid(c) \/ Validated(c) \/ StoreVersion(c) \/ Unlock(c) \/ End(c))
      BY <1>0, <1>3 DEF Lock, gen_commit_tid, Validated, StoreVersion, Unlock, End, Goto
    <3> QED BY <1>3, <3>1, <3>2, <3>3, <3>4 DEF CoreStep
  <2>2. /\ pc[c] = "writevalue"
        /\ UNCHANGED <<next, version, prog, done, last_commit_tid_, installed>>
    BY <2>1 DEF StoreValue, Committing, local, history
  <2>3. PICK t \in Tuples : t = Writing(c)
    BY <1>0, <2>2, WritesWhatItHolds DEF Modifying
  <2>4. Writing(c)' = t /\ Tid(c)' = Tid(c) /\ LastWriter(t)' = LastWriter(t)
    BY <2>2, <2>3 DEF Writing, Tid, LastWriter
  <2> QED BY <1>0, <1>3, <2>2, <2>3, <2>4 DEF CopyOK
<1> QED BY <1>1, <1>2, <1>3

LEMMA VersionsArePositive ==
  ASSUME CommitInv, WriterTidsOK, NEW t \in Tuples
  PROVE  version[t] \in Nat /\ version[t] # 0
<1>1. NumIds \in Nat /\ CoreIds \in Nat \ {0}
  BY SiloAssumption
<1>2. PICK k \in Nat : k = 1 * NumIds + 1
  BY <1>1
<1>3. k * 1 <= k * CoreIds
  BY <1>1, <1>2, Scaled
<1>4. k * CoreIds \in Int /\ MakeTid(0, 1, 1) = k * CoreIds + 0
  BY <1>1, <1>2, Distributes DEF MakeTid
<1>5. MakeTid(0, 1, 1) <= version[t] /\ version[t] \in Nat
  BY HeaderTypes DEF WriterTidsOK
<1> QED BY <1>1, <1>2, <1>3, <1>4, <1>5

LEMMA ChainTypes ==
  ASSUME ChainsOK, NEW t \in Tuples
  PROVE  /\ next[t] \in Seq(OldVersions)
         /\ \E l \in Nat : DOMAIN next[t] = 1 .. l
         /\ \A i \in DOMAIN next[t] :
              next[t][i].tid \in Nat /\ next[t][i].value \in Txns \cup {Loader}
<1>1. next[t] \in Seq(OldVersions)
  BY DEF ChainsOK, ChainOK
<1>2. \A i \in DOMAIN next[t] : next[t][i] \in OldVersions
  BY <1>1
<1>3. \A o \in OldVersions : o.tid \in Nat /\ o.value \in Txns \cup {Loader}
  BY DEF OldVersions
<1>4. DOMAIN next[t] = 1 .. Len(next[t]) /\ Len(next[t]) \in Nat
  BY <1>1
<1> QED BY <1>1, <1>2, <1>3, <1>4

LEMMA OldStep ==
  ASSUME TypeInv, EpochInv, NEW c \in Cores, CoreStep(c), NEW t \in Tuples
  PROVE  OldOK(t)'
<1>0. CommitInv /\ ChainsOK /\ WriterTidsOK /\ Tid(c) \in Nat /\ OldOK(t) /\ CopyOK(c)
  BY TypesOfCore DEF EpochInv
<1> SUFFICES ASSUME NEW b \in AllBounds, b < version'[t]
             PROVE  \E i \in DOMAIN next'[t], v \in Txns \cup {Loader} :
                      /\ next'[t][i].tid <= b /\ v = next'[t][i].value
                      /\ \A j \in DOMAIN next'[t] : j < i => b < next'[t][j].tid
                      /\ ReadsAt(t, v, b)'
  BY DEF OldOK, AllBounds
<1>1. b \in Nat /\ version[t] \in Nat
  BY <1>0, BoundFacts, HeaderTypes
<1>2. ASSUME b < version[t], StoreVersion(c) /\ t = Writing(c) => b < Tid(c)
      PROVE  \E i \in DOMAIN next[t], v \in Txns \cup {Loader} :
               /\ next[t][i].tid <= b /\ v = next[t][i].value
               /\ \A j \in DOMAIN next[t] : j < i => b < next[t][j].tid
               /\ ReadsAt(t, v, b)'
  <2>1. PICK i \in DOMAIN next[t] :
           /\ next[t][i].tid <= b /\ \A j \in DOMAIN next[t] : j < i => b < next[t][j].tid
           /\ ReadsAt(t, next[t][i].value, b)
    BY <1>0, <1>2 DEF OldOK
  <2>2. PICK v \in Txns \cup {Loader} : v = next[t][i].value
    BY <1>0, ChainTypes
  <2>3. ReadsAt(t, v, b)'
    BY <1>0, <1>1, <1>2, <2>1, <2>2, ReadsStay
  <2> QED BY <2>1, <2>2, <2>3
<1>3. CASE StoreVersion(c) /\ t = Writing(c)
  <2>0. version'[t] = Tid(c) /\ next'[t] = next[t] /\ pc[c] = "writetid"
    <3>1. PICK w \in Tuples, l \in Nat :
             w = Writing(c) /\ version'[w] = Tid(c) /\ UNCHANGED next /\ pc[c] = "writetid"
      BY <1>0, <1>3, Appended
    <3> QED BY <1>3, <3>1
  <2>1. CASE b < version[t]
    <3>1. b < Tid(c)
      BY <2>0
    <3> QED BY <1>2, <2>0, <2>1, <3>1
  <2>2. CASE version[t] <= b
    <3>1. ~can_overwrite_record_tid(version[t], Tid(c))
      BY <1>0, <2>0, <2>2, VersionsArePositive, BoundFacts
    <3>2. next[t] # <<>> /\ next[t][1].tid = version[t] /\ next[t][1].value = LastWriter(t)
      BY <1>0, <1>3, <2>0, <3>1 DEF CopyOK
    <3>3. 1 \in DOMAIN next[t] /\ \A j \in DOMAIN next[t] : ~ (j < 1)
      BY <1>0, <3>2, ChainTypes
    <3>4. PICK v \in Txns \cup {Loader} : v = next[t][1].value
      BY <1>0, <3>3, ChainTypes
    <3>5. ReadsAt(t, v, b)
      BY <1>0, <1>1, <2>2, <3>2, <3>4, LastReadsAt
    <3>6. ReadsAt(t, v, b)'
      BY <1>0, <1>1, <2>0, <3>5, ReadsStay
    <3> QED BY <2>0, <2>2, <3>2, <3>3, <3>4, <3>6
  <2> QED BY <1>1, <2>1, <2>2
<1>4. CASE MarkModifying(c) /\ t = Writing(c)
  <2>0. PICK w \in Tuples, l \in Nat :
           /\ w = Writing(c) /\ DOMAIN next[w] = 1 .. l /\ UNCHANGED version
           /\ \/ next'[w] = next[w]
              \/ /\ DOMAIN next'[w] = 1 .. l + 1
                 /\ next'[w][1].tid = version[w]
                 /\ \A i \in 1 .. l : next'[w][i + 1] = next[w][i]
    BY <1>4, MarkedCopy
  <2>1. ~StoreVersion(c)
    BY <1>4 DEF MarkModifying, StoreVersion
  <2>2. PICK i \in DOMAIN next[t], v \in Txns \cup {Loader} :
               /\ next[t][i].tid <= b /\ v = next[t][i].value
               /\ \A j \in DOMAIN next[t] : j < i => b < next[t][j].tid
               /\ ReadsAt(t, v, b)'
    BY <1>2, <2>0, <2>1
  <2>3. CASE next'[t] = next[t]
    BY <2>2, <2>3
  <2>4. CASE next'[t] # next[t]
    <3>1. /\ DOMAIN next'[t] = 1 .. l + 1 /\ DOMAIN next[t] = 1 .. l
          /\ next'[t][1].tid = version[t]
          /\ \A k \in 1 .. l : next'[t][k + 1] = next[t][k]
      BY <1>4, <2>0, <2>4
    <3>2. i + 1 \in DOMAIN next'[t] /\ next'[t][i + 1] = next[t][i] /\ i \in Nat
      BY <3>1
    <3>3. ASSUME NEW j \in DOMAIN next'[t], j < i + 1
          PROVE  b < next'[t][j].tid
      <4>1. CASE j = 1
        BY <2>0, <3>1, <4>1
      <4>2. CASE j # 1
        <5>1. PICK k \in 1 .. l : j = k + 1
          <6>1. j - 1 \in 1 .. l /\ j = (j - 1) + 1
            BY <3>1, <4>2
          <6> QED BY <6>1
        <5>2. k < i /\ next'[t][j] = next[t][k] /\ k \in DOMAIN next[t]
          BY <3>1, <3>2, <3>3, <5>1
        <5> QED BY <2>2, <5>2
      <4> QED BY <4>1, <4>2
    <3> QED BY <2>2, <3>2, <3>3
  <2> QED BY <2>3, <2>4
<1>5. CASE ~ (StoreVersion(c) /\ t = Writing(c)) /\ ~ (MarkModifying(c) /\ t = Writing(c))
  <2>1. version'[t] = version[t]
    <3>1. CASE StoreVersion(c)
      BY <1>0, <1>5, <3>1, Appended
    <3> QED BY <3>1, Frame
  <2>2. next'[t] = next[t]
    <3>1. CASE MarkModifying(c)
      BY <1>5, <3>1, MarkedCopy
    <3> QED BY <3>1, ChainsStay
  <2> QED BY <1>2, <1>5, <2>1, <2>2
<1> QED BY <1>3, <1>4, <1>5

-----------------------------------------------------------------------------
(* The reads of the snapshots.                                             *)

\* No writer of a record has a tid within a bound that a snapshot has taken.
LEMMA BoundReadsStay ==
  ASSUME TypeInv, EpochInv, NEW c \in Cores, CoreStep(c),
         NEW b \in Bounds, NEW t \in Tuples, NEW v, ReadsAt(t, v, b)
  PROVE  ReadsAt(t, v, b)'
<1>0. CommitInv /\ WriterTidsOK /\ Tid(c) \in Nat
  BY TypesOfCore DEF EpochInv
<1>1. b \in Nat
  BY BoundsAreAll, BoundFacts
<1>2. ASSUME StoreVersion(c)
      PROVE  b < Tid(c)
  <2>1. pc[c] \in Modifying
    BY <1>2 DEF StoreVersion, Modifying
  <2>2. Past(c) /\ Writes(c) # {}
    BY <1>0, <2>1, WritesWhatItHolds DEF Past
  <2>3. ticks_[c] <= EpochId(Tid(c))
    BY <2>2 DEF EpochInv, GuardOK
  <2>4. /\ last_tick_inclusive_ \in Int /\ last_tick_inclusive_ < ticks_[c]
        /\ ticks_[c] \in Int /\ EpochId(Tid(c)) \in Nat
    <3>1. /\ last_tick_inclusive_ \in Int /\ last_tick_inclusive_ < ticks_[c]
          /\ TickerOK /\ current_tick_ \in Nat
      BY TypesOfCore
    <3>2. ticks_[c] \in Int
      BY <3>1 DEF TickerOK
    <3> QED BY <1>0, <3>1, <3>2, EpochBound
  <2>5. last_tick_inclusive_ < EpochId(Tid(c))
    BY <2>3, <2>4
  <2> QED BY <1>0, <2>4, <2>5, BoundsArePast
<1> QED BY <1>0, <1>1, <1>2, ReadsStay

LEMMA SnapshotReading ==
  ASSUME CommitInv, NEW d \in Cores, prog[d].snapshot, SnapshotOK(d),
         pc[d] \in {"read", "readnext"} \cup Loads
  PROVE  /\ Reading(d) \in Tuples /\ read_set[d] \in Seq(ReadRecords)
         /\ Len(read_set[d]) \in Nat /\ Len(prog[d].reads) \in Nat
         /\ Len(read_set[d]) < Len(prog[d].reads)
         /\ bound[d] \in Bounds /\ bound[d] \in Nat
<1>1. /\ read_set[d] \in Seq(ReadRecords) /\ bound[d] \in Bounds
      /\ Len(read_set[d]) < Len(prog[d].reads) /\ prog[d].reads \in Seq(Tuples)
  BY DEF SnapshotOK, Loads, CommitInv, LockInv, StateOK, AllPrograms
<1>2. Len(read_set[d]) \in Nat /\ Len(prog[d].reads) \in Nat
  BY <1>1
<1>3. bound[d] \in Nat
  BY <1>1, BoundsAreAll, BoundFacts
<1> QED BY <1>1, <1>2, <1>3 DEF Reading

\* What a snapshot has read stays what its bound shows.
LEMMA SnapshotReadsKept ==
  ASSUME TypeInv, EpochInv, NEW c \in Cores, CoreStep(c), NEW d \in Cores,
         prog[d].snapshot, NEW b \in Bounds, b = bound[d], NEW k \in DOMAIN read_set[d],
         pc[d] # "snapshot"
  PROVE  \E t \in Tuples, v \in Txns \cup {Loader} :
           /\ t = read_set[d][k].tuple /\ v = read_set[d][k].value
           /\ ReadsAt(t, v, b)'
<1>1. SnapshotOK(d)
  BY DEF EpochInv
<1>2. read_set[d] \in Seq(ReadRecords)
  BY <1>1 DEF SnapshotOK
<1>3. read_set[d][k] \in ReadRecords
  BY <1>2
<1>4. PICK t \in Tuples, v \in Txns \cup {Loader} :
        t = read_set[d][k].tuple /\ v = read_set[d][k].value
  BY <1>3 DEF ReadRecords
<1>5. ReadsAt(t, v, b)
  BY <1>1, <1>4 DEF SnapshotOK
<1> QED BY <1>4, <1>5, BoundReadsStay

\* The bounds only grow in number.
LEMMA BoundsGrow ==
  ASSUME last_tick_inclusive_ \in Int, last_tick_inclusive_' \in Int,
         last_tick_inclusive_ <= last_tick_inclusive_'
  PROVE  Bounds \subseteq Bounds'
<1>1. PICK x \in Int : x = last_tick_inclusive_
  OBVIOUS
<1>2. PICK y \in Int : y = last_tick_inclusive_'
  OBVIOUS
<1>3. x <= y /\ FirstTick \in Int
  BY <1>1, <1>2, FirstTickIs
<1>4. \A ex \in FirstTick .. (x + 1) : ex \in FirstTick .. (y + 1)
  BY <1>3
<1> QED BY <1>1, <1>2, <1>4 DEF Bounds

\* A step that adds nothing to what a snapshot has read.
LEMMA SnapshotGoesOn ==
  ASSUME TypeInv, EpochInv, NEW c \in Cores, CoreStep(c), NEW d \in Cores,
         prog'[d] = prog[d], read_set'[d] = read_set[d],
         pc[d] = "snapshot" \/ bound'[d] = bound[d],
         pc[d] # "snapshot" => pc'[d] # "snapshot",
         pc[d] = "snapshot" /\ pc'[d] # "snapshot" => bound'[d] \in Bounds,
         pc'[d] \in {"read", "readnext"} \cup Loads =>
           \/ pc[d] \in {"read", "readnext"} \cup Loads
           \/ pc[d] = "snapshot" /\ prog[d].reads # <<>>
  PROVE  SnapshotOK(d)'
<1> SUFFICES ASSUME prog[d].snapshot
             PROVE  SnapshotOK(d)'
  BY DEF SnapshotOK
<1>1. SnapshotOK(d) /\ prog[d] \in AllPrograms
  BY TypesOfCore DEF EpochInv
<1>2. Bounds' = Bounds
  BY Frame DEF Bounds, ticker
<1>3. read_set'[d] \in Seq(ReadRecords)
  BY <1>1 DEF SnapshotOK
<1>4. CASE pc[d] = "snapshot"
  <2>1. read_set'[d] = <<>>
    BY <1>1, <1>4 DEF SnapshotOK
  <2>2. pc'[d] \in {"read", "readnext"} \cup Loads => Len(<<>>) < Len(prog[d].reads)
    <3>1. prog[d].reads \in Seq(Tuples)
      BY <1>1 DEF AllPrograms
    <3>2. prog[d].reads # <<>> => Len(<<>>) < Len(prog[d].reads)
      BY <3>1
    <3> QED BY <1>4, <3>2 DEF Loads
  <2>3. DOMAIN read_set'[d] = {}
    BY <2>1
  <2> QED BY <1>2, <1>3, <1>4, <2>1, <2>2, <2>3 DEF SnapshotOK
<1>5. CASE pc[d] # "snapshot"
  <2>1. PICK b \in Bounds : b = bound[d]
    BY <1>1, <1>5 DEF SnapshotOK
  <2>2. bound'[d] = b /\ b \in Bounds' /\ pc'[d] # "snapshot"
    BY <1>2, <1>5, <2>1
  <2>3. ASSUME NEW k \in DOMAIN read_set[d]
        PROVE  \E t \in Tuples, v \in Txns \cup {Loader} :
                 /\ t = read_set'[d][k].tuple /\ v = read_set'[d][k].value
                 /\ ReadsAt(t, v, b)'
    BY <1>5, <2>1, SnapshotReadsKept
  <2>4. pc'[d] \in {"read", "readnext"} \cup Loads => Len(read_set'[d]) < Len(prog'[d].reads)
    BY <1>1, <1>5 DEF SnapshotOK
  <2> QED BY <1>3, <2>2, <2>3, <2>4 DEF SnapshotOK
<1> QED BY <1>4, <1>5

\* The read that a snapshot makes is of the version that its bound shows.
LEMMA CheckedSnapshot ==
  ASSUME TypeInv, EpochInv, NEW c \in Cores, ReadCheck(c), prog[c].snapshot
  PROVE  \/ pc'[c] = "read" /\ UNCHANGED read_set
         \/ \E t \in Tuples, r \in ReadRecords :
              /\ r.tuple = t /\ ReadsAt(t, r.value, bound[c])
              /\ read_set'[c] = Append(read_set[c], r)
              /\ pc'[c] = IF Len(read_set[c]) + 1 = Len(prog[c].reads)
                          THEN AfterReads(prog[c]) ELSE "read"
<1>0. /\ CommitInv /\ WriterTidsOK /\ SnapshotOK(c) /\ LoadedOK(c)
      /\ pc[c] = "readcheck" /\ pc \in [Cores -> Places] /\ DOMAIN read_set = Cores
  BY TypesOfCore DEF ReadCheck, EpochInv
<1>1. PICK t \in Tuples : t = Reading(c)
  BY <1>0, SnapshotReading DEF Loads
<1>2. read_set[c] \in Seq(ReadRecords) /\ bound[c] \in Nat
  BY <1>0, SnapshotReading DEF Loads
<1>3. CASE ~reader_check_version(hdr[t], seen[c].hdr)
  BY <1>0, <1>1, <1>3 DEF ReadCheck, Goto
<1>4. CASE reader_check_version(hdr[t], seen[c].hdr)
  <2>0. /\ seen[c] \in SeenRecords /\ ~seen[c].hdr.modifying
        /\ \/ ReadsAt(t, seen[c].value, bound[c])
           \/ ~hdr[t].modifying /\ hdr[t].count = seen[c].hdr.count =>
                version[t] <= bound[c] /\ seen[c].value = value[t]
    BY <1>0, <1>1 DEF LoadedOK, Loads
  <2>1. hdr[t] \in Headers /\ seen[c].hdr \in Headers /\ seen[c].tid \in Nat
        /\ seen[c].value \in Txns \cup {Loader}
    BY <1>0, <2>0, HeaderTypes DEF SeenRecords
  <2>2. ~hdr[t].modifying /\ hdr[t].count = seen[c].hdr.count
    BY <1>4, <2>0, <2>1 DEF reader_check_version, Headers
  <2>3. ReadsAt(t, seen[c].value, bound[c])
    <3>1. value[t] = LastWriter(t)
      <4>1. \A d \in Cores : ~ (pc[d] = "writetid" /\ Writing(d) = t)
        BY <1>0, <2>2 DEF CommitInv, CoreOK, WriteOK
      <4> QED BY <1>0, <4>1 DEF CommitInv, TupleOK, ValueOK
    <3>2. version[t] <= bound[c] => ReadsAt(t, LastWriter(t), bound[c])
      BY <1>0, <1>2, LastReadsAt
    <3> QED BY <2>0, <2>2, <3>1, <3>2
  <2>4. PICK r \in ReadRecords :
          r = [tuple |-> t, tid |-> seen[c].tid, value |-> seen[c].value]
    BY <2>1 DEF ReadRecords
  <2>5. read_set' = [read_set EXCEPT ![c] = Append(@, r)]
    BY <1>1, <1>4, <2>4 DEF ReadCheck
  <2>6. read_set'[c] = Append(read_set[c], r)
    BY <1>0, <2>5
  <2>7. pc'[c] = IF Len(read_set'[c]) = Len(prog[c].reads)
                 THEN AfterReads(prog[c]) ELSE "read"
    BY <1>0, <1>1, <1>4 DEF ReadCheck, Goto
  <2>8. Len(read_set'[c]) = Len(read_set[c]) + 1
    BY <1>2, <2>6
  <2>9. r.tuple = t /\ r.value = seen[c].value
    BY <2>4
  <2>10. ReadsAt(t, r.value, bound[c])
    BY <2>3, <2>9
  <2> QED BY <1>1, <2>6, <2>7, <2>8, <2>9, <2>10
<1> QED BY <1>3, <1>4

LEMMA SnapshotReads ==
  ASSUME TypeInv, EpochInv, NEW c \in Cores, ReadCheck(c), prog[c].snapshot
  PROVE  SnapshotOK(c)'
<1>0. /\ CommitInv /\ SnapshotOK(c) /\ prog[c] \in AllPrograms
      /\ UNCHANGED <<prog, bound>> /\ pc[c] = "readcheck" /\ CoreStep(c)
      /\ pc'[c] \in {"read", AfterReads(prog[c])}
  BY TypesOfCore, CheckMove DEF EpochInv, CoreStep
<1>1. CASE pc'[c] = "read" /\ UNCHANGED read_set
  BY <1>0, <1>1, SnapshotGoesOn DEF Loads
<1>2. ASSUME NEW t \in Tuples, NEW r \in ReadRecords,
             r.tuple = t, ReadsAt(t, r.value, bound[c]),
             read_set'[c] = Append(read_set[c], r),
             pc'[c] = IF Len(read_set[c]) + 1 = Len(prog[c].reads)
                      THEN AfterReads(prog[c]) ELSE "read"
      PROVE  SnapshotOK(c)'
  <2>1. PICK b \in Bounds : b = bound[c]
    BY <1>0, SnapshotReading DEF Loads
  <2>2. PICK l \in Nat : /\ l = Len(read_set[c]) /\ l < Len(prog[c].reads)
                         /\ Len(prog[c].reads) \in Nat /\ read_set[c] \in Seq(ReadRecords)
    BY <1>0, SnapshotReading DEF Loads
  <2>3. /\ read_set'[c] \in Seq(ReadRecords) /\ Len(read_set'[c]) = l + 1
        /\ DOMAIN read_set'[c] = 1 .. l + 1 /\ DOMAIN read_set[c] = 1 .. l
        /\ read_set'[c][l + 1] = r
        /\ \A k \in 1 .. l : read_set'[c][k] = read_set[c][k]
    BY <1>2, <2>2
  <2>4. pc'[c] = "read" => Len(read_set'[c]) < Len(prog[c].reads)
    <3>1. "read" # AfterReads(prog[c])
      BY DEF AfterReads
    <3>2. PICK m \in Nat : m = Len(prog[c].reads) /\ l < m
      BY <2>2
    <3>3. pc'[c] = "read" => l + 1 # m
      BY <1>2, <2>2, <3>1, <3>2
    <3>4. l + 1 # m => l + 1 < m
      BY <3>2
    <3> QED BY <2>3, <3>2, <3>3, <3>4
  <2>5. pc'[c] \in {"read", "end"}
    BY <1>0 DEF AfterReads
  <2>6. ASSUME NEW k \in DOMAIN read_set'[c]
        PROVE  \E u \in Tuples, v \in Txns \cup {Loader} :
                 /\ u = read_set'[c][k].tuple /\ v = read_set'[c][k].value
                 /\ ReadsAt(u, v, b)'
    <3>1. CASE k \in 1 .. l
      BY <1>0, <2>1, <2>3, <3>1, SnapshotReadsKept
    <3>2. CASE k = l + 1
      <4>1. PICK v \in Txns \cup {Loader} : v = r.value
        BY DEF ReadRecords
      <4>2. ReadsAt(t, v, b)
        BY <1>2, <2>1, <4>1
      <4>3. ReadsAt(t, v, b)'
        BY <1>0, <4>2, BoundReadsStay
      <4> QED BY <1>2, <2>3, <3>2, <4>1, <4>3
    <3> QED BY <2>3, <3>1, <3>2
  <2>7. Bounds' = Bounds
    BY <1>0, Frame DEF Bounds, ticker
  <2> QED BY <1>0, <2>1, <2>3, <2>4, <2>5, <2>6, <2>7 DEF SnapshotOK, Loads
<1> QED BY <1>1, <1>2, CheckedSnapshot

LEMMA SnapshotStep ==
  ASSUME TypeInv, EpochInv, NEW c \in Cores, CoreStep(c), NEW d \in Cores
  PROVE  SnapshotOK(d)'
<1>0. /\ CommitInv /\ TickerOK /\ SnapshotOK(d)
      /\ pc \in [Cores -> Places] /\ prog \in [Cores -> AllPrograms]
      /\ DOMAIN bound = Cores /\ DOMAIN read_set = Cores
  BY TypesOfCore DEF EpochInv
<1>1. CASE d # c
  <2>1. Still(d)
    BY <1>0, <1>1, StepsAreLocal DEF CommitInv
  <2>2. pc[d] = "snapshot" /\ pc'[d] # "snapshot" => bound'[d] \in Bounds
    BY <2>1 DEF Still
  <2> QED BY <2>1, <2>2, SnapshotGoesOn DEF Still
<1>2. CASE d = c /\ Begin(c)
  <2>1. PICK p \in Programs[c] : prog' = [prog EXCEPT ![c] = p]
           /\ Goto(c, IF p.snapshot THEN "snapshot" ELSE StartReads(p))
    BY <1>2 DEF Begin
  <2>2. prog'[c] = p /\ (p.snapshot => pc'[c] = "snapshot")
    BY <1>0, <2>1 DEF Goto
  <2>3. read_set'[c] = <<>>
    BY <1>0, <1>2 DEF Begin, CommitInv, CoreOK, PlaceOK
  <2>4. <<>> \in Seq(ReadRecords) /\ DOMAIN <<>> = {}
    OBVIOUS
  <2> QED BY <1>2, <2>2, <2>3, <2>4 DEF SnapshotOK, Loads
<1>3. CASE d = c /\ TakeSnapshot(c)
  <2>1. /\ pc[c] = "snapshot" /\ UNCHANGED <<prog, read_set>>
        /\ pc'[c] = StartReads(prog[c]) /\ prog[c].snapshot
    BY <1>0, <1>3 DEF TakeSnapshot, Goto, CommitInv, CoreOK, PlaceOK
  <2>2. bound'[c] = ComputeReadOnlyTid(last_tick_inclusive_ + 1)
    BY <1>0, <1>3 DEF TakeSnapshot
  <2>3. bound'[c] \in Bounds
    <3>1. last_tick_inclusive_ + 1 \in FirstTick .. (last_tick_inclusive_ + 1)
      <4>1. PICK x \in Int : x = last_tick_inclusive_
        BY <1>0, TypesOfCore
      <4>2. FirstTick \in Int /\ FirstTick <= x + 1
        BY <1>0, <4>1, FirstTickIs DEF TickerOK
      <4>3. x + 1 \in FirstTick .. (x + 1)
        BY <4>2
      <4> QED BY <4>1, <4>3
    <3> QED BY <2>2, <3>1 DEF Bounds
  <2>4. (pc'[c] = "read" /\ prog[c].reads # <<>>) \/ pc'[c] = "end"
    BY <2>1 DEF StartReads, AfterReads
  <2> QED BY <1>3, <2>1, <2>3, <2>4, SnapshotGoesOn DEF Loads
<1>4. CASE d = c /\ (ReadHeader(c) \/ ReadVersion(c) \/ ReadValue(c) \/ ReadNext(c))
  <2>1. /\ UNCHANGED <<prog, read_set, bound>>
        /\ pc'[c] \in {"readtid", "readvalue", "readnext", "readcheck"}
        /\ pc[c] \in {"read", "readtid", "readvalue", "readnext"}
    BY <1>0, <1>4, ReadsMove
  <2> QED BY <1>4, <2>1, SnapshotGoesOn DEF Loads
<1>5. CASE d = c /\ ReadCheck(c)
  <2>1. CASE prog[c].snapshot
    BY <1>5, <2>1, SnapshotReads
  <2>2. CASE ~prog[c].snapshot
    BY <1>0, <1>5, <2>2, CheckMove DEF SnapshotOK
  <2> QED BY <2>1, <2>2
<1>6. CASE d = c /\ End(c)
  <2>1. ~prog'[c].snapshot
    BY <1>0, <1>6 DEF End, NoProgram
  <2> QED BY <1>6, <2>1 DEF SnapshotOK
<1>7. CASE d = c /\ (\/ Lock(c) \/ gen_commit_tid(c) \/ CheckOwn(c) \/ LoadHeader(c)
                     \/ CheckLatest(c) \/ Validated(c) \/ MarkModifying(c) \/ StoreValue(c)
                     \/ StoreVersion(c) \/ Unlock(c))
  <2>1. ~prog'[c].snapshot
    BY <1>0, <1>7, CommitMove
  <2> QED BY <1>7, <2>1 DEF SnapshotOK
<1> QED BY <1>1, <1>2, <1>3, <1>4, <1>5, <1>6, <1>7 DEF CoreStep

\* What a snapshot finds in the chain of a record.
LEMMA ShownIs ==
  ASSUME ChainsOK, NEW t \in Tuples, NEW b \in Nat, NEW i \in DOMAIN next[t],
         next[t][i].tid <= b, \A j \in DOMAIN next[t] : j < i => b < next[t][j].tid
  PROVE  Shown(t, b) = next[t][i]
<1> DEFINE old == {k \in DOMAIN next[t] : next[t][k].tid <= b}
<1>1. i \in old /\ i \in Int /\ \A j \in old : j \in Int
  BY ChainTypes
<1>2. \A j \in old : i <= j
  <2> SUFFICES ASSUME NEW j \in old, j < i PROVE FALSE
    BY <1>1
  <2>1. j \in DOMAIN next[t] /\ next[t][j].tid <= b /\ next[t][j].tid \in Nat
    BY ChainTypes
  <2>2. b < next[t][j].tid
    BY <2>1
  <2> QED BY <2>1, <2>2
<1>3. Shown(t, b) = next[t][CHOOSE k \in old : \A j \in old : k <= j]
  BY <1>1 DEF Shown
<1> HIDE DEF old
<1>4. \A k \in old : (\A j \in old : k <= j) => k = i
  BY <1>1, <1>2
<1>5. (CHOOSE k \in old : \A j \in old : k <= j) = i
  BY <1>1, <1>2, <1>4
<1> QED BY <1>3, <1>5

\* What a core that does not move has loaded.
LEMMA LoadedStays ==
  ASSUME TypeInv, EpochInv, NEW c \in Cores, CoreStep(c), NEW d \in Cores, d # c
  PROVE  LoadedOK(d)'
<1> SUFFICES ASSUME prog[d].snapshot, pc[d] \in {"readnext"} \cup Loads
             PROVE  LoadedOK(d)'
  <2>1. Still(d)
    BY TypesOfCore, StepsAreLocal DEF CommitInv
  <2> QED BY <2>1 DEF LoadedOK, Still
<1>0. CommitInv /\ SnapshotOK(d) /\ LoadedOK(d) /\ Still(d)
  BY TypesOfCore, StepsAreLocal DEF CommitInv, EpochInv
<1>1. PICK t \in Tuples : t = Reading(d)
  BY <1>0, SnapshotReading DEF Loads
<1>2. Reading(d)' = t
  BY <1>0, <1>1 DEF Still, Reading
<1>3. PICK b \in Bounds : b = bound[d]
  BY <1>0, SnapshotReading DEF Loads
<1>4. bound'[d] = b /\ b \in Nat
  BY <1>0, <1>3, SnapshotReading DEF Still, Loads
<1>5. PICK s \in SeenRecords : s = seen[d]
  BY <1>0 DEF LoadedOK, Loads
<1>6. PICK n \in Nat, v \in Txns \cup {Loader} : n = s.hdr.count /\ v = s.value
  BY DEF SeenRecords, Headers
<1>7. /\ ~s.hdr.modifying /\ n <= hdr[t].count
      /\ (pc[d] = "readvalue" /\ ~hdr[t].modifying /\ hdr[t].count = n => version[t] <= b)
      /\ pc[d] = "readnext" => b < version[t]
      /\ pc[d] = "readcheck" =>
           \/ ReadsAt(t, v, b)
           \/ ~hdr[t].modifying /\ hdr[t].count = n => version[t] <= b /\ v = value[t]
  BY <1>0, <1>1, <1>3, <1>5, <1>6 DEF LoadedOK, Loads
<1>8. /\ hdr[t].count <= hdr'[t].count
      /\ ~hdr'[t].modifying /\ hdr'[t].count = hdr[t].count =>
           ~hdr[t].modifying /\ version'[t] = version[t] /\ value'[t] = value[t]
      /\ version[t] <= version'[t]
  BY <1>0, RecordSteps DEF RecordStep
<1>9. /\ hdr[t].count \in Nat /\ hdr'[t].count \in Nat
      /\ version[t] \in Nat /\ version'[t] \in Nat
  <2>1. TypeInv'
    <3>1. Next
      BY DEF Next, CoreStep
    <3> QED BY <3>1, TypeInvInductive
  <2>2. hdr' \in [Tuples -> Headers] /\ version' \in [Tuples -> Nat]
    BY <2>1 DEF TypeInv, CommitInv, LockInv, StateOK, TypesOK
  <2> QED BY <1>0, <2>2, HeaderTypes DEF Headers
<1>10. n <= hdr'[t].count
  BY <1>7, <1>8, <1>9
<1>11. ASSUME ~hdr'[t].modifying, hdr'[t].count = n
       PROVE  /\ ~hdr[t].modifying /\ hdr[t].count = n
              /\ version'[t] = version[t] /\ value'[t] = value[t]
  <2>1. hdr[t].count = n /\ hdr'[t].count = hdr[t].count
    BY <1>7, <1>8, <1>9, <1>11
  <2> QED BY <1>8, <1>11, <2>1
<1>12. pc[d] = "readnext" => b < version'[t]
  BY <1>4, <1>7, <1>8, <1>9
<1>13. pc[d] = "readcheck" =>
         \/ ReadsAt(t, v, b)'
         \/ ~hdr'[t].modifying /\ hdr'[t].count = n => version'[t] <= b /\ v = value'[t]
  <2>1. ReadsAt(t, v, b) => ReadsAt(t, v, b)'
    BY BoundReadsStay
  <2> QED BY <1>7, <1>11, <2>1
<1>14. pc[d] = "readvalue" /\ ~hdr'[t].modifying /\ hdr'[t].count = n => version'[t] <= b
  BY <1>7, <1>11
<1>15. seen'[d] = s /\ pc'[d] = pc[d]
  BY <1>0, <1>5 DEF Still
<1> QED BY <1>2, <1>4, <1>6, <1>7, <1>10, <1>12, <1>13, <1>14, <1>15 DEF LoadedOK

LEMMA LoadedHeader ==
  ASSUME TypeInv, EpochInv, NEW c \in Cores, prog[c].snapshot, ReadHeader(c)
  PROVE  LoadedOK(c)'
<1>0. /\ CommitInv /\ SnapshotOK(c) /\ DOMAIN seen = Cores
      /\ UNCHANGED <<prog, read_set, bound, hdr, version>>
      /\ pc[c] = "read" /\ pc'[c] = "readtid"
  BY TypesOfCore, ReadsMove DEF EpochInv
<1>1. PICK t \in Tuples : t = Reading(c) /\ Reading(c)' = t
  BY <1>0, SnapshotReading DEF Reading
<1>2. PICK h \in Headers : h = hdr[t] /\ ~h.modifying
  BY <1>0, <1>1, HeaderTypes DEF ReadHeader, Stable
<1>3. seen'[c] = [NotSeen EXCEPT !.hdr = h]
  BY <1>0, <1>1, <1>2 DEF ReadHeader, Saw
<1>4. NotSeen \in SeenRecords
  BY DEF NotSeen, SeenRecords, Idle, Headers, Loader
<1>5. seen'[c] \in SeenRecords /\ seen'[c].hdr = h
  BY <1>3, <1>4, SeenRecordsWith
<1>6. h.count <= h.count
  BY DEF Headers
<1> QED BY <1>0, <1>1, <1>2, <1>5, <1>6 DEF LoadedOK

LEMMA LoadedVersion ==
  ASSUME TypeInv, EpochInv, NEW c \in Cores, prog[c].snapshot, ReadVersion(c)
  PROVE  LoadedOK(c)'
<1>0. /\ CommitInv /\ SnapshotOK(c) /\ LoadedOK(c) /\ DOMAIN seen = Cores
      /\ UNCHANGED <<prog, read_set, bound, hdr, version>>
      /\ pc[c] = "readtid" /\ pc \in [Cores -> Places]
  BY TypesOfCore, ReadsMove DEF EpochInv
<1>1. PICK t \in Tuples : t = Reading(c) /\ Reading(c)' = t
  BY <1>0, SnapshotReading DEF Reading, Loads
<1>2. PICK b \in Nat : b = bound[c] /\ bound'[c] = b
  BY <1>0, SnapshotReading DEF Loads
<1>3. PICK s \in SeenRecords : s = seen[c] /\ ~s.hdr.modifying /\ s.hdr.count <= hdr[t].count
  BY <1>0, <1>1 DEF LoadedOK, Loads
<1>4. version[t] \in Nat
  BY <1>0, HeaderTypes
<1>5. CASE version[t] <= b
  <2>1. seen'[c] = [s EXCEPT !.tid = version[t]] /\ pc'[c] = "readvalue"
    BY <1>0, <1>1, <1>2, <1>3, <1>4, <1>5 DEF ReadVersion, Saw, Goto
  <2>2. seen'[c] \in SeenRecords /\ seen'[c].hdr = s.hdr
    BY <1>4, <2>1, SeenRecordsWith
  <2> QED BY <1>0, <1>1, <1>2, <1>3, <1>5, <2>1, <2>2 DEF LoadedOK
<1>6. CASE b < version[t]
  <2>1. seen'[c] = s /\ pc'[c] = "readnext"
    BY <1>0, <1>1, <1>2, <1>3, <1>4, <1>6 DEF ReadVersion, Saw, Goto
  <2> QED BY <1>0, <1>1, <1>2, <1>3, <1>6, <2>1 DEF LoadedOK
<1> QED BY <1>2, <1>4, <1>5, <1>6

LEMMA LoadedValue ==
  ASSUME TypeInv, EpochInv, NEW c \in Cores, prog[c].snapshot, ReadValue(c)
  PROVE  LoadedOK(c)'
<1>0. /\ CommitInv /\ SnapshotOK(c) /\ LoadedOK(c) /\ DOMAIN seen = Cores
      /\ UNCHANGED <<prog, read_set, bound, hdr, version, value>>
      /\ pc[c] = "readvalue" /\ pc'[c] = "readcheck"
  BY TypesOfCore, ReadsMove DEF EpochInv
<1>1. PICK t \in Tuples : t = Reading(c) /\ Reading(c)' = t
  BY <1>0, SnapshotReading DEF Reading, Loads
<1>2. PICK s \in SeenRecords :
        /\ s = seen[c] /\ ~s.hdr.modifying /\ s.hdr.count <= hdr[t].count
        /\ ~hdr[t].modifying /\ hdr[t].count = s.hdr.count => version[t] <= bound[c]
  BY <1>0, <1>1 DEF LoadedOK, Loads
<1>3. PICK v \in Txns \cup {Loader} : v = value[t]
  BY <1>0, HeaderTypes
<1>4. seen'[c] = [s EXCEPT !.value = v]
  BY <1>0, <1>1, <1>2, <1>3 DEF ReadValue, Saw
<1>5. seen'[c] \in SeenRecords /\ seen'[c].hdr = s.hdr /\ seen'[c].value = v
  BY <1>4, SeenRecordsWith
<1> QED BY <1>0, <1>1, <1>2, <1>3, <1>5 DEF LoadedOK

LEMMA LoadedNext ==
  ASSUME TypeInv, EpochInv, NEW c \in Cores, prog[c].snapshot, ReadNext(c)
  PROVE  LoadedOK(c)'
<1>0. /\ CommitInv /\ ChainsOK /\ SnapshotOK(c) /\ LoadedOK(c) /\ DOMAIN seen = Cores
      /\ UNCHANGED <<prog, read_set, bound, hdr, version, value>>
      /\ pc[c] = "readnext" /\ pc'[c] = "readcheck" /\ CoreStep(c)
  <2>1. /\ CommitInv /\ ChainsOK /\ DOMAIN seen = Cores /\ pc \in [Cores -> Places]
        /\ SnapshotOK(c) /\ LoadedOK(c)
    BY TypesOfCore DEF EpochInv
  <2>2. UNCHANGED <<prog, read_set, bound, hdr, version, value>> /\ pc[c] = "readnext"
    BY <2>1, ReadsMove
  <2>3. pc'[c] = "readcheck"
    BY <2>1 DEF ReadNext, Goto
  <2>4. CoreStep(c)
    BY DEF CoreStep
  <2> QED BY <2>1, <2>2, <2>3, <2>4
<1>1. PICK t \in Tuples : t = Reading(c) /\ Reading(c)' = t
  BY <1>0, SnapshotReading DEF Reading
<1>2. PICK b \in Bounds : b = bound[c] /\ bound'[c] = b
  BY <1>0, SnapshotReading
<1>3. PICK s \in SeenRecords :
        /\ s = seen[c] /\ ~s.hdr.modifying /\ s.hdr.count <= hdr[t].count
        /\ b < version[t]
  BY <1>0, <1>1, <1>2 DEF LoadedOK, Loads
<1>4. b \in AllBounds /\ b \in Nat
  BY BoundsAreAll, BoundFacts
<1>5. PICK i \in DOMAIN next[t] :
        /\ next[t][i].tid <= b
        /\ \A j \in DOMAIN next[t] : j < i => b < next[t][j].tid
        /\ ReadsAt(t, next[t][i].value, b)
  BY <1>3, <1>4 DEF EpochInv, OldOK
<1>6. PICK v \in Txns \cup {Loader}, n \in Nat : v = next[t][i].value /\ n = next[t][i].tid
  BY <1>0, ChainTypes
<1>7. Shown(t, b).value = v /\ Shown(t, b).tid = n
  BY <1>0, <1>4, <1>5, <1>6, ShownIs
<1>8. seen'[c] = [s EXCEPT !.tid = n, !.value = v]
  BY <1>0, <1>1, <1>2, <1>3, <1>7 DEF ReadNext, Saw
<1>9. seen'[c] \in SeenRecords /\ seen'[c].hdr = s.hdr /\ seen'[c].value = v
  BY <1>8 DEF SeenRecords
<1>10. ReadsAt(t, v, b)'
  BY <1>0, <1>5, <1>6, BoundReadsStay
<1> QED BY <1>0, <1>1, <1>2, <1>3, <1>9, <1>10 DEF LoadedOK

LEMMA LoadedStep ==
  ASSUME TypeInv, EpochInv, NEW c \in Cores, CoreStep(c), NEW d \in Cores
  PROVE  LoadedOK(d)'
<1>0. /\ CommitInv /\ pc \in [Cores -> Places] /\ prog \in [Cores -> AllPrograms]
  BY TypesOfCore
<1>1. CASE d # c
  BY <1>1, LoadedStays
<1>2. CASE d = c /\ (ReadHeader(c) \/ ReadVersion(c) \/ ReadValue(c) \/ ReadNext(c))
  <2>1. CASE prog[c].snapshot
    BY <1>2, <2>1, LoadedHeader, LoadedVersion, LoadedValue, LoadedNext
  <2>2. CASE ~prog[c].snapshot
    BY <1>0, <1>2, <2>2, ReadsMove DEF LoadedOK
  <2> QED BY <2>1, <2>2
<1>3. CASE d = c /\ (Begin(c) \/ TakeSnapshot(c) \/ ReadCheck(c) \/ End(c))
  <2>1. \A p : /\ StartReads(p) \notin {"readnext"} \cup Loads
               /\ AfterReads(p) \notin {"readnext"} \cup Loads
    BY DEF StartReads, AfterReads, Loads
  <2>2. pc'[c] \notin {"readnext"} \cup Loads
    <3>1. CASE Begin(c)
      BY <1>0, <2>1, <3>1 DEF Begin, Goto, Loads
    <3>2. CASE TakeSnapshot(c) \/ End(c)
      BY <1>0, <2>1, <3>2 DEF TakeSnapshot, End, Goto, Loads
    <3>3. CASE ReadCheck(c)
      BY <1>0, <2>1, <3>3, CheckMove DEF Loads
    <3> QED BY <1>3, <3>1, <3>2, <3>3
  <2> QED BY <1>3, <2>2 DEF LoadedOK
<1>4. CASE d = c /\ (\/ Lock(c) \/ gen_commit_tid(c) \/ CheckOwn(c) \/ LoadHeader(c)
                     \/ CheckLatest(c) \/ Validated(c) \/ MarkModifying(c) \/ StoreValue(c)
                     \/ StoreVersion(c) \/ Unlock(c))
  <2>1. ~prog'[c].snapshot
    BY <1>0, <1>4, CommitMove
  <2> QED BY <1>4, <2>1 DEF LoadedOK
<1> QED BY <1>1, <1>2, <1>3, <1>4 DEF CoreStep

LEMMA SnapshotsStep ==
  ASSUME TypeInv, EpochInv, NEW c \in Cores, CoreStep(c)
  PROVE  SnapshotsOK'
<1>0. Bounds' = Bounds /\ SnapshotsOK /\ SnapshotOK(c) /\ CommitInv
  BY Frame, TypesOfCore DEF Bounds, ticker, EpochInv
<1>1. ASSUME NEW s \in decided, s.snapshot
      PROVE  /\ s.tid \in Bounds /\ s.writes = {}
             /\ \A r \in s.reads : r[1] \in Tuples /\ ReadsAt(r[1], r[2], s.tid)'
  <2>1. /\ s.tid \in Bounds /\ s.writes = {}
        /\ \A r \in s.reads : r[1] \in Tuples /\ ReadsAt(r[1], r[2], s.tid)
    BY <1>0, <1>1 DEF SnapshotsOK
  <2> QED BY <2>1, BoundReadsStay
<1>2. CASE decided' = decided
  BY <1>0, <1>1, <1>2 DEF SnapshotsOK
<1>3. CASE Validated(c)
  <2>1. decided' = decided \cup {Decision(c)} /\ ~Decision(c).snapshot
    BY <1>3 DEF Validated, Decision
  <2> QED BY <1>0, <1>1, <2>1 DEF SnapshotsOK
<1>4. CASE End(c) /\ prog[c].snapshot
  <2>1. PICK n : n = [txn |-> Txn(c), tid |-> bound[c], writes |-> {}, snapshot |-> TRUE,
                      reads |-> {<<r.tuple, r.value>> : r \in ToSet(read_set[c])}]
    OBVIOUS
  <2>2. decided' = decided \cup {n}
    BY <1>4, <2>1 DEF End
  <2>3. n.tid = bound[c] /\ n.writes = {} /\ pc[c] = "end"
    BY <1>4, <2>1 DEF End
  <2>4. PICK b \in Bounds : b = bound[c]
    BY <1>0, <1>4, <2>3 DEF SnapshotOK
  <2>5. ASSUME NEW r \in n.reads
        PROVE  r[1] \in Tuples /\ ReadsAt(r[1], r[2], b)'
    <3>1. PICK k \in DOMAIN read_set[c] : r = <<read_set[c][k].tuple, read_set[c][k].value>>
      BY <2>1 DEF ToSet
    <3>2. PICK t \in Tuples, v \in Txns \cup {Loader} :
             /\ t = read_set[c][k].tuple /\ v = read_set[c][k].value
             /\ ReadsAt(t, v, b)'
      BY <1>4, <2>3, <2>4, SnapshotReadsKept
    <3>3. r[1] = t /\ r[2] = v
      BY <3>1, <3>2
    <3> QED BY <3>2, <3>3
  <2>6. n.tid = b
    BY <2>3, <2>4
  <2>7. ASSUME NEW s \in decided', s.snapshot
        PROVE  /\ s.tid \in Bounds /\ s.writes = {}
               /\ \A r \in s.reads : r[1] \in Tuples /\ ReadsAt(r[1], r[2], s.tid)'
    <3>1. CASE s \in decided
      BY <1>1, <2>7, <3>1
    <3>2. CASE s = n
      BY <2>3, <2>5, <2>6, <3>2
    <3> QED BY <2>2, <3>1, <3>2
  <2> QED BY <1>0, <2>7 DEF SnapshotsOK
<1>5. CASE End(c) /\ ~prog[c].snapshot
  BY <1>2, <1>5 DEF End
<1> QED BY <1>2, <1>3, <1>4, <1>5, Frame

LEMMA EpochInvStep ==
  ASSUME TypeInv, EpochInv, NEW c \in Cores, CoreStep(c)
  PROVE  EpochInv'
<1>1. WriterTidsOK' /\ SnapshotsOK'
  BY WriterTidsStep, SnapshotsStep DEF EpochInv
<1>2. \A d \in Cores : GuardOK(d)' /\ CopyOK(d)' /\ SnapshotOK(d)' /\ LoadedOK(d)'
  BY GuardStep, CopyStep, SnapshotStep, LoadedStep
<1>3. \A t \in Tuples : OldOK(t)'
  BY OldStep
<1> QED BY <1>1, <1>2, <1>3 DEF EpochInv

\* The ticker opens epochs and gives snapshots new bounds, and it does not take a
\* core in a transaction to another epoch.
LEMMA TickerKeepsEpochs ==
  ASSUME TypeInv, EpochInv, TickerStep \/ UNCHANGED vars
  PROVE  EpochInv'
<1>0. CommitInv /\ TickerOK
  BY DEF TypeInv
<1>1. /\ current_tick_' \in current_tick_ .. MaxTick
      /\ UNCHANGED <<hdr, version, value, pc, prog, txns, bound, read_set, seen, done,
                     held, last_commit_tid_, installed, decided>>
  BY <1>0, TickerMoves
<1>2. UNCHANGED next
  BY DEF TickerStep, Bump, Pass, Publish, records, vars
<1>3. current_tick_ \in Int /\ last_tick_inclusive_ \in Int /\ current_tick_' \in Int
  BY <1>0, <1>1, SiloAssumption DEF CommitInv, TypesOK, TickerOK
<1>4. last_tick_inclusive_' = last_tick_inclusive_ \/ last_tick_inclusive_' = current_tick_ - 1
  BY DEF TickerStep, Bump, Pass, Publish, vars, ticker
<1>5. Bounds \subseteq Bounds'
  <2>1. PICK x \in Int : x = last_tick_inclusive_
    BY <1>3
  <2>2. PICK k \in Int : k = current_tick_ /\ x \in {k - 2, k - 1}
    BY <1>0, <1>3, <2>1 DEF TickerOK
  <2>3. PICK y \in Int : y = last_tick_inclusive_' /\ (y = x \/ y = k - 1)
    BY <1>4, <2>1, <2>2
  <2>4. x <= y
    BY <2>2, <2>3
  <2> QED BY <2>1, <2>3, <2>4, BoundsGrow
<1>6. \A t, v, b : ReadsAt(t, v, b)' <=> ReadsAt(t, v, b)
  BY <1>1 DEF ReadsAt, UpTo, Serial
<1>7. WriterTidsOK'
  <2>1. \A d \in Serial : EpochId(d.tid) <= current_tick_'
    <3> TAKE d \in Serial
    <3>1. EpochId(d.tid) \in Nat
      BY <1>0, SerialTids, EpochBound, SiloAssumption
    <3>2. EpochId(d.tid) <= current_tick_
      BY DEF EpochInv, WriterTidsOK
    <3> QED BY <1>1, <1>3, <3>1, <3>2
  <2>2. Serial' = Serial /\ \A c \in Cores : Txn(c)' = Txn(c) /\ Tid(c)' = Tid(c)
    BY <1>1 DEF Serial, Txn, Tid
  <2> QED BY <1>1, <2>1, <2>2 DEF EpochInv, WriterTidsOK
<1>8. SnapshotsOK'
  <2>1. ASSUME NEW s \in decided, s.snapshot
        PROVE  /\ s.tid \in Bounds /\ s.writes = {}
               /\ \A r \in s.reads : r[1] \in Tuples /\ ReadsAt(r[1], r[2], s.tid)'
    BY <1>6, <2>1 DEF EpochInv, SnapshotsOK
  <2> QED BY <1>1, <1>5, <2>1 DEF SnapshotsOK
<1>9. ASSUME NEW c \in Cores
      PROVE  GuardOK(c)' /\ CopyOK(c)' /\ SnapshotOK(c)' /\ LoadedOK(c)'
  <2>0. /\ GuardOK(c) /\ CopyOK(c) /\ SnapshotOK(c) /\ LoadedOK(c)
        /\ Reading(c)' = Reading(c) /\ Writing(c)' = Writing(c) /\ Tid(c)' = Tid(c)
        /\ Past(c)' = Past(c) /\ Writes(c)' = Writes(c)
    BY <1>1 DEF EpochInv, Reading, Writing, Tid, Past, Writes
  <2>1. GuardOK(c)'
    <3>1. Past(c) => ticks_'[c] = ticks_[c]
      <4>1. CASE Pass
        <5>1. ticks_' = [ticks_ EXCEPT ![Visited] = current_tick_] /\ MayPass(Visited)
          BY <4>1 DEF Pass
        <5>2. Past(c) => Guarded(c)
          BY DEF Past, Guarded, Checks, Modifying
        <5> QED BY <1>0, <5>1, <5>2 DEF MayPass, TickerOK
      <4>2. CASE ~Pass
        BY <4>2 DEF TickerStep, Bump, Publish, vars
      <4> QED BY <4>1, <4>2
    <3> QED BY <2>0, <3>1 DEF GuardOK
  <2>2. CopyOK(c)'
    <3>1. \A t : LastWriter(t)' = LastWriter(t)
      BY <1>1 DEF LastWriter
    <3> QED BY <1>1, <1>2, <2>0, <3>1 DEF CopyOK
  <2>3. SnapshotOK(c)'
    <3> SUFFICES ASSUME prog[c].snapshot
                 PROVE  SnapshotOK(c)'
      BY <1>1 DEF SnapshotOK
    <3>1. \A k \in DOMAIN read_set[c] :
            ReadsAt(read_set[c][k].tuple, read_set[c][k].value, bound[c])
      BY <2>0 DEF SnapshotOK
    <3>2. PICK rs, b : rs = read_set[c] /\ b = bound[c] /\ rs = read_set'[c] /\ b = bound'[c]
      BY <1>1
    <3>3. \A k \in DOMAIN rs : ReadsAt(rs[k].tuple, rs[k].value, b)'
      BY <1>6, <3>1, <3>2
    <3> QED BY <1>1, <1>5, <2>0, <3>2, <3>3 DEF SnapshotOK
  <2>4. LoadedOK(c)'
    <3> SUFFICES ASSUME prog[c].snapshot, pc[c] \in {"readnext"} \cup Loads
                 PROVE  LoadedOK(c)'
      BY <1>1 DEF LoadedOK
    <3>1. PICK t \in Tuples : t = Reading(c)
      BY <1>0, <2>0, SnapshotReading DEF Loads
    <3>2. PICK v, b : v = seen[c].value /\ b = bound[c] /\ v = seen'[c].value /\ b = bound'[c]
      BY <1>1
    <3>3. ReadsAt(t, v, b)' <=> ReadsAt(t, v, b)
      BY <1>6
    <3> QED BY <1>1, <2>0, <3>1, <3>2, <3>3 DEF LoadedOK
  <2> QED BY <2>1, <2>2, <2>3, <2>4
<1>10. ASSUME NEW t \in Tuples
       PROVE  OldOK(t)'
  <2> SUFFICES ASSUME NEW b \in AllBounds, b < version'[t]
               PROVE  \E i \in DOMAIN next'[t], v \in Txns \cup {Loader} :
                        /\ next'[t][i].tid <= b /\ v = next'[t][i].value
                        /\ \A j \in DOMAIN next'[t] : j < i => b < next'[t][j].tid
                        /\ ReadsAt(t, v, b)'
    BY DEF OldOK, AllBounds
  <2>1. b < version[t] /\ ChainsOK
    BY <1>1 DEF TypeInv
  <2>2. PICK i \in DOMAIN next[t] :
           /\ next[t][i].tid <= b /\ \A j \in DOMAIN next[t] : j < i => b < next[t][j].tid
           /\ ReadsAt(t, next[t][i].value, b)
    BY <2>1 DEF EpochInv, OldOK
  <2>3. PICK v \in Txns \cup {Loader} : v = next[t][i].value
    BY <2>1, ChainTypes
  <2>4. ReadsAt(t, v, b)'
    BY <1>6, <2>2, <2>3
  <2> QED BY <1>2, <2>2, <2>3, <2>4
<1> QED BY <1>7, <1>8, <1>9, <1>10 DEF EpochInv

LEMMA EpochInvInit == Init => EpochInv
<1> SUFFICES ASSUME Init PROVE EpochInv
  OBVIOUS
<1>1. /\ Serial = {} /\ decided = {}
      /\ \A c \in Cores : pc[c] = "idle" /\ prog[c] = NoProgram
      /\ \A t \in Tuples : version[t] = MakeTid(0, 1, 1)
  BY DEF Init, Serial
<1>2. ~NoProgram.snapshot
  BY DEF NoProgram
<1>3. MakeTid(0, 1, 1) \in Nat
  <2>1. 1 \in 0 .. NumIds - 1 /\ 0 \in 0 .. CoreIds - 1
    BY RunIsFinite, SiloAssumption
  <2> QED BY <2>1, FieldsOfTid
<1>4. WriterTidsOK /\ SnapshotsOK
  <2>1. \A t \in Tuples : MakeTid(0, 1, 1) <= version[t]
    BY <1>1, <1>3
  <2> QED BY <1>1, <2>1 DEF WriterTidsOK, SnapshotsOK, Modifying
<1>5. \A c \in Cores : GuardOK(c) /\ CopyOK(c) /\ SnapshotOK(c) /\ LoadedOK(c)
  BY <1>1, <1>2 DEF GuardOK, CopyOK, SnapshotOK, LoadedOK, Past, Checks, Modifying
<1>6. ASSUME NEW t \in Tuples, NEW b \in AllBounds, b < version[t]
      PROVE  FALSE
  <2>1. b \in Nat /\ MakeTid(0, 1, 1) <= b
    BY BoundFacts
  <2> QED BY <1>1, <1>3, <1>6, <2>1
<1>7. \A t \in Tuples : OldOK(t)
  BY <1>6 DEF OldOK
<1> QED BY <1>4, <1>5, <1>7 DEF EpochInv

LEMMA EpochInvInductive == TypeInv /\ EpochInv /\ [Next]_vars => EpochInv'
BY EpochInvStep, TickerKeepsEpochs, StepKinds

-----------------------------------------------------------------------------
(* The epochs along the serial order.                                      *)

LEMMA HasEpochIsRanked ==
  ASSUME NEW x, NEW e, HasEpoch(x, e)
  PROVE  x \in Ranked
  BY DEF HasEpoch, Ranked, Committed

LEMMA EpochsAreOpen ==
  ASSUME CommitInv, WriterTidsOK, NEW x, NEW e, HasEpoch(x, e)
  PROVE  e <= current_tick_
  BY DEF HasEpoch, WriterTidsOK, CommitInv, EpochsOK

\* A transaction has the epoch it had, or it has just got one.
LEMMA HasEpochStep ==
  ASSUME TypeInv, NEW c \in Cores, CoreStep(c), NEW x, NEW e, HasEpoch(x, e)'
  PROVE  \/ HasEpoch(x, e)
         \/ ~Past(c) /\ Past(c)' /\ x = Txn(c)' /\ e = current_tick_
<1>0. CommitInv
  BY TypesOfCore
<1>1. CASE \E d \in Serial' : d.txn = x /\ d.writes # {} /\ e = EpochId(d.tid)
  <2>1. CASE Validated(c)
    <3>1. PICK n \in Decisions :
             /\ Serial' = Serial \cup {n}
             /\ n.txn = Txn(c) /\ n.tid = Tid(c) /\ n.writes = Writes(c) /\ Past(c)
      BY <1>0, <2>1, NewDecision
    <3> QED BY <1>1, <3>1 DEF HasEpoch
  <2>2. CASE Serial' = Serial
    BY <1>1, <2>2 DEF HasEpoch
  <2> QED BY <2>1, <2>2, SerialStep
<1>2. ASSUME NEW d \in Cores, Past(d)', Writes(d)' # {}, Txn(d)' = x,
             e = EpochId(last_commit_tid_'[d])
      PROVE  \/ HasEpoch(x, e)
             \/ ~Past(c) /\ Past(c)' /\ x = Txn(c)' /\ e = current_tick_
  <2>1. CASE d # c \/ Past(c)
    <3>1. Past(d) /\ Txn(d) = x /\ Writes(d) # {} /\ e = EpochId(Tid(d))
      BY <1>2, <2>1, PastKept DEF Tid
    <3> QED BY <3>1 DEF HasEpoch
  <2>2. CASE d = c /\ ~Past(c)
    <3>1. gen_commit_tid(c)
      BY <1>2, <2>2, EntersNow
    <3>2. EpochId(last_commit_tid_'[c]) = current_tick_
      BY <3>1, NewTidEpoch
    <3> QED BY <1>2, <2>2, <3>2
  <2> QED BY <2>1, <2>2
<1> QED BY <1>1, <1>2 DEF HasEpoch, Tid

LEMMA RiseStep ==
  ASSUME TypeInv, EpochInv, NEW c \in Cores, CoreStep(c),
         NEW n \in Nat, NEW rank \in [Txns -> Nat], RankOK(n, rank), EpochsRise(rank),
         NEW rank2 \in [Txns -> Nat],
         IF ~Past(c) /\ Past(c)' THEN rank2 = [rank EXCEPT ![Txn(c)'] = n]
         ELSE rank2 = rank
  PROVE  EpochsRise(rank2)'
<1> SUFFICES ASSUME NEW x \in Ranked', NEW y \in Ranked', NEW e \in Nat, NEW f \in Nat,
                    HasEpoch(x, e)', HasEpoch(y, f)', rank2[x] <= rank2[y]
             PROVE  e <= f
  BY DEF EpochsRise
<1>0. CommitInv /\ WriterTidsOK /\ current_tick_ \in Nat /\ Ranked \subseteq Txns
  BY TypesOfCore, RankedAreTyped DEF EpochInv
<1>1. CASE Past(c) \/ ~Past(c)'
  <2>1. HasEpoch(x, e) /\ HasEpoch(y, f) /\ rank2 = rank
    BY <1>1, HasEpochStep
  <2>2. x \in Ranked /\ y \in Ranked
    BY <2>1, HasEpochIsRanked
  <2> QED BY <2>1, <2>2 DEF EpochsRise
<1>2. CASE ~Past(c) /\ Past(c)'
  <2>1. PICK z \in Txns : z = Txn(c)' /\ z \notin Committed
    BY <1>0, <1>2, Enters
  <2>2. z \notin Ranked
    <3>1. ASSUME NEW d \in Cores, Past(d), Txn(d) = z
          PROVE  FALSE
      <4>1. d = c
        BY <2>1, <3>1 DEF Txn
      <4> QED BY <1>2, <3>1, <4>1
    <3> QED BY <2>1, <3>1 DEF Ranked
  <2>3. rank2 = [rank EXCEPT ![z] = n]
    BY <1>2, <2>1
  <2>4. \A w \in Ranked : rank2[w] = rank[w] /\ w # z /\ rank[w] < n /\ rank[w] \in Nat
    BY <1>0, <2>2, <2>3 DEF RankOK
  <2>5. HasEpoch(x, e) \/ (x = z /\ e = current_tick_)
    BY <2>1, HasEpochStep
  <2>6. HasEpoch(y, f) \/ (y = z /\ f = current_tick_)
    BY <2>1, HasEpochStep
  <2>7. CASE HasEpoch(x, e) /\ HasEpoch(y, f)
    <3>1. x \in Ranked /\ y \in Ranked
      BY <2>7, HasEpochIsRanked
    <3> QED BY <2>4, <2>7, <3>1 DEF EpochsRise
  <2>8. CASE HasEpoch(x, e) /\ f = current_tick_
    BY <1>0, <2>8, EpochsAreOpen
  <2>9. CASE x = z /\ HasEpoch(y, f)
    <3>1. y \in Ranked
      BY <2>9, HasEpochIsRanked
    <3>2. rank2[x] = n
      BY <2>1, <2>3, <2>9
    <3> QED BY <2>4, <3>1, <3>2
  <2>10. CASE e = current_tick_ /\ f = current_tick_
    BY <1>0, <2>10
  <2> QED BY <2>5, <2>6, <2>7, <2>8, <2>9, <2>10
<1> QED BY <1>1, <1>2

EpochSerialInv ==
  /\ TypeInv /\ EpochInv
  /\ \E n \in Nat : \E rank \in [Txns -> Nat] : RankOK(n, rank) /\ EpochsRise(rank)

LEMMA EpochSerialInductive == EpochSerialInv /\ [Next]_vars => EpochSerialInv'
<1> SUFFICES ASSUME EpochSerialInv, [Next]_vars PROVE EpochSerialInv'
  OBVIOUS
<1>1. TypeInv /\ TypeInv' /\ EpochInv /\ EpochInv' /\ CommitInv /\ CommitInv'
  <2>1. TypeInv /\ TypeInv' /\ EpochInv /\ EpochInv'
    BY TypeInvInductive, EpochInvInductive DEF EpochSerialInv
  <2> QED BY <2>1 DEF TypeInv
<1>2. PICK n \in Nat, rank \in [Txns -> Nat] : RankOK(n, rank) /\ EpochsRise(rank)
  BY DEF EpochSerialInv
<1>3. CASE TickerStep \/ UNCHANGED vars
  <2>1. UNCHANGED <<hdr, version, value, pc, prog, txns, bound, read_set, seen, done,
                    held, last_commit_tid_, installed, decided>>
    BY <1>1, <1>3, TickerMoves
  <2>2. Serial' = Serial /\ UNCHANGED installed /\ \A d \in Cores : Keeps(d)
    BY <2>1 DEF Serial, Keeps, Past, Txn
  <2>3. RankOK(n, rank)'
    BY <1>2, <2>2, RankKept
  <2>4. Ranked' = Ranked /\ \A x, e : HasEpoch(x, e)' <=> HasEpoch(x, e)
    BY <2>1, <2>2 DEF Ranked, Committed, HasEpoch, Past, Txn, Writes, Tid
  <2>5. EpochsRise(rank)'
    BY <1>2, <2>4 DEF EpochsRise
  <2> QED BY <1>1, <2>3, <2>5 DEF EpochSerialInv
<1>4. ASSUME NEW c \in Cores, CoreStep(c)
      PROVE  EpochSerialInv'
  <2>1. PICK m \in Nat, rank2 \in [Txns -> Nat] :
          /\ RankOK(m, rank2)'
          /\ IF ~Past(c) /\ Past(c)' THEN rank2 = [rank EXCEPT ![Txn(c)'] = n]
             ELSE rank2 = rank
    BY <1>1, <1>2, <1>4, RankStep
  <2>2. EpochsRise(rank2)'
    BY <1>1, <1>2, <1>4, <2>1, RiseStep
  <2> QED BY <1>1, <2>1, <2>2 DEF EpochSerialInv
<1> QED BY <1>3, <1>4, StepKinds

LEMMA EpochSerialInit == Init => EpochSerialInv
<1> SUFFICES ASSUME Init PROVE EpochSerialInv
  OBVIOUS
<1>1. SerialInv /\ TypeInv /\ EpochInv
  BY SerialInvInit, TypeInvInit, EpochInvInit
<1>2. PICK n \in Nat, rank \in [Txns -> Nat] : RankOK(n, rank)
  BY <1>1 DEF SerialInv
<1>3. Ranked = {}
  BY DEF Init, Serial, Committed, Ranked, Past, Checks, Modifying
<1>4. EpochsRise(rank)
  BY <1>3 DEF EpochsRise
<1> QED BY <1>1, <1>2, <1>4 DEF EpochSerialInv

-----------------------------------------------------------------------------
(* One order of the serial transactions, the snapshots and the epochs.     *)

\* What must come first: what was read or overwritten, and the epoch before.
Precedes(a, b) == Before(a, b) \/ EpochBefore(a, b)

Snapshots == {d \in decided : d.snapshot}

LEMMA SnapshotTyped ==
  ASSUME EpochInv, NEW s \in Snapshots
  PROVE  /\ s.tid \in AllBounds /\ s.tid \in Nat /\ s.writes = {} /\ s.snapshot
         /\ \A r \in s.reads : r[1] \in Tuples /\ ReadsAt(r[1], r[2], s.tid)
<1>1. s \in decided /\ s.snapshot
  BY DEF Snapshots
<1>2. /\ s.tid \in Bounds /\ s.writes = {}
      /\ \A r \in s.reads : r[1] \in Tuples /\ ReadsAt(r[1], r[2], s.tid)
  BY <1>1 DEF EpochInv, SnapshotsOK
<1>3. s.tid \in AllBounds
  BY <1>2, BoundsAreAll
<1> QED BY <1>1, <1>2, <1>3, BoundFacts

LEMMA SerialPrecedesSerial ==
  ASSUME CommitInv, NEW n \in Nat, NEW rank \in [Txns -> Nat], RankOK(n, rank),
         EpochsRise(rank), NEW a \in Serial, NEW b \in Serial, a # b, Precedes(a, b)
  PROVE  rank[a.txn] < rank[b.txn]
<1>1. CASE Before(a, b)
  BY <1>1, BeforeHasLesserRank
<1>2. CASE EpochBefore(a, b)
  <2>1. a.writes # {} /\ b.writes # {} /\ EpochId(a.tid) < EpochId(b.tid)
    BY <1>2 DEF EpochBefore, Serial
  <2>2. a.txn \in Ranked /\ b.txn \in Ranked
    BY SerialAreTyped DEF Ranked
  <2>3. PICK e \in Nat, f \in Nat : e = EpochId(a.tid) /\ f = EpochId(b.tid)
    BY SerialTids, EpochBound
  <2>4. HasEpoch(a.txn, e) /\ HasEpoch(b.txn, f)
    BY <2>1, <2>3 DEF HasEpoch
  <2>5. rank[b.txn] <= rank[a.txn] => f <= e
    BY <2>2, <2>4 DEF EpochsRise
  <2>6. rank[a.txn] \in Nat /\ rank[b.txn] \in Nat
    BY SerialAreTyped
  <2> QED BY <2>1, <2>3, <2>5, <2>6
<1> QED BY <1>1, <1>2 DEF Precedes

\* A snapshot reads what is within its bound, and nothing else of a serial one.
LEMMA SerialPrecedesSnapshot ==
  ASSUME CommitInv, EpochInv, NEW a \in Serial, NEW s \in Snapshots, Precedes(a, s)
  PROVE  a.writes # {} /\ a.tid <= s.tid
<1>0. s.writes = {} /\ ~a.snapshot /\ s.snapshot
  BY SnapshotTyped DEF Serial
<1>1. CASE EpochBefore(a, s)
  BY <1>0, <1>1 DEF EpochBefore
<1>2. CASE Before(a, s)
  <2>1. PICK t \in a.writes : <<t, a.txn>> \in s.reads
    BY <1>0, <1>2 DEF Before
  <2>2. t \in Tuples /\ ReadsAt(t, a.txn, s.tid)
    BY <2>1, SnapshotTyped
  <2>3. PICK j \in DOMAIN installed[t] : installed[t][j] = a.txn
    <3>1. a.txn \in ToSet(installed[t])
      BY <2>2, SerialTids DEF ReadsAt
    <3> QED BY <3>1 DEF ToSet
  <2>4. j <= j
    BY <2>2, WritersAreTyped
  <2>5. UpTo(t, a.txn, j)
    BY <2>3, <2>4 DEF UpTo
  <2> QED BY <2>1, <2>2, <2>3, <2>5 DEF ReadsAt
<1> QED BY <1>1, <1>2 DEF Precedes

LEMMA SnapshotPrecedesSerial ==
  ASSUME CommitInv, EpochInv, NEW n \in Nat, NEW rank \in [Txns -> Nat], RankOK(n, rank),
         NEW s \in Snapshots, NEW b \in Serial, Precedes(s, b)
  PROVE  b.writes # {} /\ s.tid < b.tid
<1>0. s.writes = {} /\ s.snapshot /\ ~b.snapshot /\ s.tid \in Nat /\ b.tid \in Nat
      /\ b.txn # Loader /\ b.txn \in Txns
  BY SnapshotTyped, SerialTids DEF Serial
<1>1. CASE EpochBefore(s, b)
  BY <1>0, <1>1 DEF EpochBefore
<1>2. CASE Before(s, b)
  <2>1. PICK r \in s.reads : /\ r[1] \in b.writes /\ Wrote(b, r[1])
                             /\ Place(r[1], r[2]) < Place(r[1], b.txn)
    BY <1>0, <1>2 DEF Before
  <2>2. PICK t \in Tuples, v \in {r[2]} : t = r[1] /\ ReadsAt(t, v, s.tid)
    BY SnapshotTyped
  <2>3. PICK j \in DOMAIN installed[t] : j = Place(t, b.txn) /\ installed[t][j] = b.txn
    BY <1>0, <2>1, <2>2 DEF Wrote, ToSet, Place
  <2>4. /\ DOMAIN installed[t] = 1 .. Len(installed[t]) /\ Len(installed[t]) \in Nat
        /\ \A i \in DOMAIN installed[t] : installed[t][i] \in Txns /\ installed[t][i] # Loader
    BY WritersAreTyped
  <2>5. ~UpTo(t, v, j)
    <3> SUFFICES ASSUME NEW i \in DOMAIN installed[t], j <= i, installed[t][i] = v
                 PROVE  FALSE
      BY DEF UpTo
    <3>1. v \in Txns /\ v # Loader
      BY <2>4
    <3>2. PICK p \in DOMAIN installed[t] : p = Place(t, v) /\ installed[t][p] = v
      BY <3>1 DEF Place
    <3>3. v # b.txn /\ p < j /\ j < i
      <4>1. p < j
        BY <2>1, <2>2, <2>3, <3>2
      <4>2. p # j
        BY <2>4, <4>1
      <4>3. v # b.txn
        BY <2>3, <3>2, <4>2
      <4>4. i # j
        BY <2>3, <4>3
      <4> QED BY <2>4, <4>1, <4>3, <4>4
    <3>4. rank[v] < rank[b.txn] /\ rank[b.txn] < rank[v]
      BY <2>3, <3>2, <3>3 DEF RankOK, WritersInOrder
    <3>5. rank[v] \in Nat /\ rank[b.txn] \in Nat
      BY <1>0, <3>1
    <3> QED BY <3>4, <3>5
  <2>6. ~ (b.tid <= s.tid)
    BY <2>2, <2>3, <2>5 DEF ReadsAt
  <2> QED BY <1>0, <2>1, <2>6
<1> QED BY <1>1, <1>2 DEF Precedes

LEMMA SnapshotsDoNotPrecede ==
  ASSUME EpochInv, NEW s \in Snapshots, NEW q \in Snapshots, Precedes(s, q)
  PROVE  FALSE
<1>1. s.writes = {} /\ q.writes = {}
  BY SnapshotTyped
<1> QED BY <1>1 DEF Precedes, Before, EpochBefore

\* A snapshot between two serial transactions has the later one in a later epoch.
LEMMA NoCircle ==
  ASSUME CommitInv, EpochInv, NEW n \in Nat, NEW rank \in [Txns -> Nat], RankOK(n, rank),
         EpochsRise(rank), NEW s \in Snapshots, NEW a \in Serial, NEW b \in Serial,
         Precedes(a, s), Precedes(s, b)
  PROVE  rank[a.txn] < rank[b.txn]
<1>1. a.writes # {} /\ a.tid <= s.tid
  BY SerialPrecedesSnapshot
<1>2. b.writes # {} /\ s.tid < b.tid
  BY SnapshotPrecedesSerial
<1>3. /\ s.tid \in AllBounds /\ s.tid \in Nat /\ a.tid \in Nat /\ b.tid \in Nat
      /\ a.txn \in Ranked /\ b.txn \in Ranked
      /\ rank[a.txn] \in Nat /\ rank[b.txn] \in Nat
  BY SnapshotTyped, SerialTids, SerialAreTyped DEF Ranked
<1>4. PICK e \in Nat, f \in Nat : e = EpochId(a.tid) /\ f = EpochId(b.tid)
  BY <1>3, EpochBound
<1>5. ~ (f <= e)
  <2>1. EpochId(b.tid) <= EpochId(a.tid) /\ a.tid <= s.tid => b.tid <= s.tid
    BY <1>3, BoundFacts
  <2> QED BY <1>1, <1>2, <1>3, <1>4, <2>1
<1>6. HasEpoch(a.txn, e) /\ HasEpoch(b.txn, f)
  BY <1>1, <1>2, <1>4 DEF HasEpoch
<1>7. rank[b.txn] <= rank[a.txn] => f <= e
  BY <1>3, <1>6 DEF EpochsRise
<1> QED BY <1>3, <1>5, <1>7

LEMMA ReadsAreKnown ==
  ASSUME EpochSerialInv, NEW d \in decided, NEW r \in d.reads
  PROVE  r[2] # Absent
<1>0. CommitInv /\ EpochInv
  BY DEF EpochSerialInv, TypeInv
<1>1. r[2] \in Txns \cup {Loader}
  <2>1. CASE ~d.snapshot
    BY <1>0, <2>1, SerialAreTyped DEF Serial
  <2>2. CASE d.snapshot
    <3>1. r[1] \in Tuples /\ ReadsAt(r[1], r[2], d.tid)
      BY <1>0, <2>2, SnapshotTyped DEF Snapshots
    <3>2. PICK t \in Tuples : t = r[1]
      BY <3>1
    <3>3. r[2] = Loader \/ \E i \in DOMAIN installed[t] : installed[t][i] = r[2]
      BY <3>1, <3>2 DEF ReadsAt, ToSet
    <3> QED BY <1>0, <3>3, WritersAreTyped
  <2> QED BY <2>1, <2>2
<1>2. Absent \notin Txns \cup {Loader}
  <2>1. \A c \in Cores : c \in Int /\ 1 <= c
    BY SiloAssumption
  <2>2. \A x \in Txns \cup {Loader} : x[1] \in Int /\ 0 <= x[1]
    BY <2>1 DEF Txns, Loader
  <2> QED BY <2>2 DEF Absent
<1> QED BY <1>1, <1>2

LEMMA EpochsInSerialOrder == EpochSerialInv => EpochsAreSerial
<1> SUFFICES ASSUME EpochSerialInv PROVE EpochsAreSerial
  OBVIOUS
<1>0. CommitInv /\ EpochInv
  BY DEF EpochSerialInv, TypeInv
<1>1. PICK n \in Nat, rank \in [Txns -> Nat] : RankOK(n, rank) /\ EpochsRise(rank)
  BY DEF EpochSerialInv
<1>2. ASSUME NEW S \in SUBSET decided, S # {}
      PROVE  \E b \in S : \A a \in S \ {b} : ~Precedes(a, b)
  <2>1. \A d \in S : d \in Serial \/ d \in Snapshots
    BY DEF Serial, Snapshots
  <2>2. CASE S \cap Serial = {}
    <3>1. PICK b \in S : TRUE
      BY <1>2
    <3> QED BY <1>0, <2>1, <2>2, <3>1, SnapshotsDoNotPrecede
  <2>3. CASE S \cap Serial # {}
    <3> DEFINE Ranks == {rank[a.txn] : a \in S \cap Serial}
    <3>1. \A a \in S \cap Serial : rank[a.txn] \in Nat
      BY <1>0, SerialAreTyped
    <3>2. Ranks \in SUBSET Nat /\ Ranks # {}
      BY <2>3, <3>1
    <3>3. PICK k \in Ranks : \A l \in Ranks : k <= l
      <4> HIDE DEF Ranks
      <4> QED BY <3>2, LeastExists
    <3>4. PICK m \in S \cap Serial : k = rank[m.txn]
      BY <3>3
    <3>5. \A a \in S \cap Serial : ~ (rank[a.txn] < rank[m.txn])
      <4> TAKE a \in S \cap Serial
      <4>1. rank[m.txn] <= rank[a.txn]
        BY <3>3, <3>4
      <4>2. rank[m.txn] \in Nat /\ rank[a.txn] \in Nat
        BY <3>1, <3>4
      <4> QED BY <4>1, <4>2
    <3>6. CASE \E s \in S \cap Snapshots : Precedes(s, m)
      <4>1. PICK s \in S \cap Snapshots : Precedes(s, m)
        BY <3>6
      <4>2. ASSUME NEW a \in S \ {s}, Precedes(a, s)
            PROVE  FALSE
        <5>1. CASE a \in Snapshots
          BY <1>0, <4>1, <4>2, <5>1, SnapshotsDoNotPrecede
        <5>2. CASE a \in Serial
          <6>1. rank[a.txn] < rank[m.txn]
            BY <1>0, <1>1, <3>4, <4>1, <4>2, <5>2, NoCircle
          <6> QED BY <3>5, <5>2, <6>1
        <5> QED BY <2>1, <5>1, <5>2
      <4> QED BY <4>1, <4>2
    <3>7. CASE ~ \E s \in S \cap Snapshots : Precedes(s, m)
      <4>1. ASSUME NEW a \in S \ {m}, Precedes(a, m)
            PROVE  FALSE
        <5>1. a \in Serial
          BY <2>1, <3>7, <4>1
        <5>2. rank[a.txn] < rank[m.txn]
          BY <1>0, <1>1, <3>4, <4>1, <5>1, SerialPrecedesSerial
        <5> QED BY <3>5, <5>1, <5>2
      <4> QED BY <3>4, <4>1
    <3> QED BY <3>6, <3>7
  <2> QED BY <2>2, <2>3
<1>3. Orderly(decided, Precedes)
  BY <1>2 DEF Orderly
<1>4. Orderly(decided, LAMBDA a, b : Before(a, b) \/ EpochBefore(a, b))
  BY <1>3 DEF Orderly, Precedes
<1>5. \A d \in decided : \A r \in d.reads : r[2] # Absent
  BY ReadsAreKnown
<1> QED BY <1>4, <1>5, Zenon DEF EpochsAreSerial
-----------------------------------------------------------------------------
(* Theorems *)

\* Of the cores of any set, the one that waits for the greatest record waits for
\* no other of them: all of them wait for records above the ones they hold.
LEMMA OrderedLocksHaveNoCycle == LockInv => NoLockCycle
<1> SUFFICES ASSUME LockInv, NEW S \in SUBSET Cores, S # {},
                    \A b \in S : \E a \in S \ {b} : WaitsFor(b, a)
             PROVE  FALSE
  BY DEF NoLockCycle, Orderly
<1> DEFINE Wanted == {NextLock(b) : b \in S}
<1>1. ASSUME NEW b \in S
      PROVE  /\ pc[b] = "lock" /\ NextLock(b) \in Tuples
             /\ \A t \in held[b] : t < NextLock(b)
  <2>1. pc[b] = "lock"
    BY DEF WaitsFor
  <2>2. /\ held[b] \subseteq Writes(b) /\ Writes(b) \subseteq Tuples
        /\ held[b] # Writes(b)
        /\ \A t \in held[b], u \in Writes(b) \ held[b] : t < u
    BY <2>1, WritesAreTuples DEF LockInv, StateOK, HoldsItsLocks, HoldsAt
  <2>3. NextLock(b) \in Writes(b) \ held[b]
    BY <2>2, NextLockIsLeast
  <2> QED BY <2>1, <2>2, <2>3
<1>2. Wanted \in SUBSET Tuples /\ Wanted # {}
  BY <1>1
<1>3. PICK m \in Wanted : \A n \in Wanted : n <= m
  <2> HIDE DEF Wanted
  <2> QED BY <1>2, Greatest
<1>4. PICK b \in S : m = NextLock(b)
  BY <1>3
<1>5. PICK a \in S : WaitsFor(b, a)
  BY <1>4
<1>6. m < NextLock(a) /\ NextLock(a) <= m
  BY <1>1, <1>3, <1>4, <1>5 DEF WaitsFor
<1>7. m \in Nat /\ NextLock(a) \in Nat
  BY <1>1, <1>4, SiloAssumption
<1> QED BY <1>6, <1>7

\* The write locks, which have no timeout, cannot deadlock, for any number of
\* cores, of records and of puts in any order: a commit takes them in the
\* order of the addresses (txn_impl.h, lines 287-322).
THEOREM LocksDoNotDeadlock == Spec => []NoLockCycle
<1>1. Init => LockInv
  BY Initially
<1>2. LockInv /\ [Next]_vars => LockInv'
  BY LockInvInductive
<1> QED BY <1>1, <1>2, OrderedLocksHaveNoCycle, PTL DEF Spec

\* A record is locked exactly when a core has it among its locks, and only one
\* does (is_lock_owner, tuple.h), through locks, aborts and unlocks.
THEOREM LocksAreExclusive == Spec => [](LockedIffHeld /\ Exclusive)
<1>1. Init => LockInv
  BY Initially
<1>2. LockInv /\ [Next]_vars => LockInv'
  BY LockInvInductive
<1>3. LockInv => LockedIffHeld /\ Exclusive
  BY DEF LockInv
<1> QED BY <1>1, <1>2, <1>3, PTL DEF Spec
-----------------------------------------------------------------------------
(* Serializability. *)

\* The transactions that pass validation behave as if one had run after the
\* other, for any cores, records, programs and run (write_record_at and
\* txn_impl.h's commit): the ids serve to tell one version of a record from another,
\* so the one thing it takes is that no id outgrows the field of its number,
\* which gen_commit_tid leaves unchecked.
THEOREM CommitsAreSerializable == Spec /\ []TidsFit => []Serializable
<1>1. Init => SerialInv
  BY SerialInvInit
<1>2. SerialInv /\ TidsFit /\ [Next]_vars => SerialInv'
  BY SerialInvInductive
<1> QED BY <1>1, <1>2, RankedIsSerializable, PTL DEF Spec

\* No id outgrows its field: a number is at most one above one that a read or a
\* record had, so a run gives out no more of them than it has transactions.
THEOREM NumbersLast == Spec => []TidsFit
<1>1. TypeInv => TidsFit
  BY NumbersFit DEF TypeInv
<1> QED BY <1>1, TypeInvInit, TypeInvInductive, PTL DEF Spec

\* The committed transactions are serializable (see CommitsAreSerializable) in a
\* run short enough for the field of the number.
THEOREM CommittedInSomeOrder == Spec => []Serializable
BY CommitsAreSerializable, NumbersLast, PTL

\* The type of the state, and with it what the code asserts: one owner of a lock
\* (is_lock_owner), no version newer than the epoch, chains of versions that
\* grow (is_not_behind, can_overwrite_record_tid), and cores that the ticker
\* leaves at most one epoch behind (ticker.h).
THEOREM SiloTypeCorrect == Spec => []SiloTypeOK
BY TypeInvInit, TypeInvInductive, TypeInvIsType, PTL DEF Spec

\* The epochs are a prefix order of that serial order, and a read-only snapshot
\* sees the epochs up to its bound and nothing else, whatever the ticker, the
\* commits, the copies of old versions and the reads do between each other
\* (do_tuple_read, write_record_at and the ticker).
THEOREM EpochsInOrder == Spec => []EpochsAreSerial
<1>1. Init => EpochSerialInv
  BY EpochSerialInit
<1>2. EpochSerialInv /\ [Next]_vars => EpochSerialInv'
  BY EpochSerialInductive
<1>3. EpochSerialInv => EpochsAreSerial
  BY EpochsInSerialOrder
<1> QED BY <1>1, <1>2, <1>3, PTL DEF Spec
=============================================================================
