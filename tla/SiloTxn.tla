------------------------------ MODULE SiloTxn ------------------------------
(***************************************************************************)
(* The commit protocol of the silo application's database                  *)
(* (tailbench-v0.9/silo): optimistic transactions of several cores on      *)
(* records (struct dbtuple, tuple.h) that are already in the tree, the     *)
(* transaction ids of protocol 2 (txn_proto2_impl.h), read-only snapshot   *)
(* transactions on the chains of older versions, and the ticker whose      *)
(* epochs the ids carry (ticker.h).                                        *)
(*                                                                         *)
(* A step is one access to memory that other cores write.  A transaction   *)
(* reads first and puts after; a put touches nothing shared before commit. *)
(* Left out, with the tree: inserts, deletes, absent-key checks, records   *)
(* that outgrow their buffer, garbage collection and the log.              *)
(***************************************************************************)
EXTENDS Integers, Sequences, FiniteSets, SequencesExt

CONSTANTS
    Cores,                    \* the ids of the cores that run workers
    Tuples,                   \* the records, named by their addresses
    Programs,                 \* core -> what its transactions may be
    MaxTxns,                  \* bound: core -> how many it runs
    MaxTick,                  \* bound: the last epoch
    CoreIds, NumIds,          \* 2^9 and 2^24 in the source
    ReadOnlyEpochMultiplier   \* 25 in the source

\* The loader commits in the first epoch, and the run starts when a snapshot sees
\* what it wrote: wait_an_epoch waits for the next epoch that snapshots know.
FirstTick == IF ReadOnlyEpochMultiplier = 1 THEN 2 ELSE ReadOnlyEpochMultiplier

ASSUME SiloAssumption ==
    /\ Cores \subseteq 1 .. CoreIds - 2
    /\ IsFiniteSet(Cores) /\ IsFiniteSet(Tuples) /\ Tuples \subseteq Nat
    /\ \A c \in Cores : \A p \in Programs[c] :
          /\ p \in [snapshot : BOOLEAN, reads : Seq(Tuples), writes : Seq(Tuples)]
          /\ p.snapshot => p.writes = <<>>
    /\ MaxTxns \in [Cores -> Nat] /\ MaxTick \in Nat /\ FirstTick <= MaxTick
    /\ CoreIds \in Nat \ {0} /\ NumIds \in Nat \ {0}
    /\ ReadOnlyEpochMultiplier \in Nat \ {0}

\* A program's writes are the entries of the write set that commit writes: each
\* record once, since do_write() skips those that a later put has replaced.
ASSUME WriteSetAssumption ==
    \A c \in Cores : \A p \in Programs[c] : IsInjective(p.writes)

\* The numbers last for the run: nothing in the source checks that one fits.
ASSUME TidAssumption ==
    Cardinality(UNION {{c} \X (1 .. MaxTxns[c]) : c \in Cores}) + 2 < NumIds

VARIABLES
    current_tick_,         \* ticker: the epoch
    last_tick_inclusive_,  \* ticker: every core has left the epochs up to it
    passing,               \* ticker: the cores it has still to pass on
    ticks_,                \* core -> the epoch the ticker knows it in
    hdr,                   \* tuple -> its header word
    version,               \* tuple -> the tid of its newest version
    value,                 \* tuple -> the transaction that wrote its bytes
    next,                  \* tuple -> its older versions, newest first
    pc, prog, txns,        \* core -> where it is, in what, and which one it is
    bound,                 \* core -> the newest tid it may read
    read_set,              \* core -> the reads so far: tuple, tid, value
    seen,                  \* core -> header, tid and value a read has loaded
    done,                  \* core -> tuples checked or written
    held,                  \* core -> the tuples it has locked
    last_commit_tid_,      \* core -> the tid it generated last
    installed,             \* history: tuple -> its writers in order
    decided                \* history: the transactions that will not abort

ticker == <<current_tick_, last_tick_inclusive_, passing>>
records == <<hdr, version, value, next>>
local == <<prog, txns, bound>>
history == <<installed, decided>>
vars == <<ticker, ticks_, records, pc, local, read_set, seen, done, held,
          last_commit_tid_, history>>

-----------------------------------------------------------------------------
(* Transaction ids: epoch, number and core, in this order of weight.       *)

MakeTid(core, num, epoch) == (epoch * NumIds + num) * CoreIds + core
CoreId(tid) == tid % CoreIds
NumId(tid) == (tid \div CoreIds) % NumIds
EpochId(tid) == tid \div (CoreIds * NumIds)

to_read_only_tick(epoch) == epoch \div ReadOnlyEpochMultiplier

\* Everything a transaction that is no snapshot may read.
MaxTid == MakeTid(CoreIds - 1, NumIds - 1, MaxTick)

\* The newest version a snapshot may show when every core has left ex - 1.
ComputeReadOnlyTid(ex) ==
    LET b == to_read_only_tick(ex) * ReadOnlyEpochMultiplier
    IN  IF b = 0 THEN 0 ELSE MakeTid(CoreIds - 1, NumIds - 1, b - 1)

\* A version may be overwritten when no snapshot can tell it from the new one.
can_overwrite_record_tid(prev, cur) ==
    to_read_only_tick(EpochId(prev)) = to_read_only_tick(EpochId(cur)) \/ prev = 0

-----------------------------------------------------------------------------
(* The header of a record: lock, write intent, modifying, and a counter    *)
(* that an unlock after a write intent advances.                           *)

Idle == [locked |-> FALSE, intent |-> FALSE, modifying |-> FALSE, count |-> 0]

Headers == [locked : BOOLEAN, intent : BOOLEAN, modifying : BOOLEAN, count : Nat]

Locked(h) == [h EXCEPT !.locked = TRUE, !.intent = TRUE]

Unlocked(h) == [Idle EXCEPT !.count =
                    IF h.modifying \/ h.intent THEN h.count + 1 ELSE h.count]

\* What a core has loaded of a record it is reading or checking.
NotSeen == [hdr |-> Idle, tid |-> 0, value |-> <<0, 0>>]

\* May a reader start?  A snapshot ignores the intent to write.
Stable(h, snapshot) == ~h.modifying /\ (snapshot \/ ~h.intent)

\* reader_check_version: the same but for the lock and the intent.
reader_check_version(h, v) == h.modifying = v.modifying /\ h.count = v.count

\* writer_check_version: the same word.
writer_check_version(h, v) == h = v

-----------------------------------------------------------------------------
Txn(c) == <<c, txns[c]>>
Loader == <<0, 0>>            \* the transaction that loaded the database
Absent == <<-1, 0>>           \* what a read finds past the end of a chain
Guarded(c) == pc[c] # "idle"  \* the core holds its ticker lock
Writes(c) == ToSet(prog[c].writes)
Tid(c) == last_commit_tid_[c]

NoProgram == [snapshot |-> FALSE, reads |-> <<>>, writes |-> <<>>]

\* Where a transaction goes that has read all it reads, and where it starts.
AfterReads(p) == IF p.snapshot THEN "end"
                 ELSE IF p.writes = <<>> THEN "validate" ELSE "lock"
StartReads(p) == IF p.reads = <<>> THEN AfterReads(p) ELSE "read"

Goto(c, place) == pc' = [pc EXCEPT ![c] = place]
Did(c, n) == done' = [done EXCEPT ![c] = n]

Init ==
    /\ current_tick_ = FirstTick /\ last_tick_inclusive_ = FirstTick - 1
    /\ passing = {} /\ ticks_ = [c \in Cores |-> FirstTick]
    /\ hdr = [t \in Tuples |-> Idle]
    /\ version = [t \in Tuples |-> MakeTid(0, 1, 1)]
    /\ value = [t \in Tuples |-> Loader]
    /\ next = [t \in Tuples |-> <<>>]
    /\ pc = [c \in Cores |-> "idle"]
    /\ prog = [c \in Cores |-> NoProgram]
    /\ txns = [c \in Cores |-> 0]
    /\ bound = [c \in Cores |-> 0]
    /\ read_set = [c \in Cores |-> <<>>]
    /\ seen = [c \in Cores |-> NotSeen]
    /\ done = [c \in Cores |-> 0]
    /\ held = [c \in Cores |-> {}]
    /\ last_commit_tid_ = [c \in Cores |-> 0]
    /\ installed = [t \in Tuples |-> <<>>]
    /\ decided = {}

-----------------------------------------------------------------------------
(* The ticker thread: it opens an epoch, waits for each core to leave the  *)
(* one before, and then says that this one is over.                        *)

Bump ==
    /\ last_tick_inclusive_ = current_tick_ - 1 /\ current_tick_ < MaxTick
    /\ current_tick_' = current_tick_ + 1
    /\ passing' = Cores
    /\ UNCHANGED <<last_tick_inclusive_, ticks_, records, pc, local, read_set,
                   seen, done, held, last_commit_tid_, history>>

MayPassAlways(c) == TRUE

\* A core that is in a transaction of the old epoch holds the ticker up.
MayPass(c) == ticks_[c] = current_tick_ \/ ~Guarded(c)

\* It goes through the cores in the order of their ids.
Visited == CHOOSE c \in passing : \A d \in passing : c <= d

Pass ==
    /\ passing # {} /\ MayPass(Visited)
    /\ ticks_' = [ticks_ EXCEPT ![Visited] = current_tick_]
    /\ passing' = passing \ {Visited}
    /\ UNCHANGED <<current_tick_, last_tick_inclusive_, records, pc, local,
                   read_set, seen, done, held, last_commit_tid_, history>>

Publish ==
    /\ passing = {} /\ last_tick_inclusive_ < current_tick_ - 1
    /\ last_tick_inclusive_' = current_tick_ - 1
    /\ UNCHANGED <<current_tick_, passing, ticks_, records, pc, local, read_set,
                   seen, done, held, last_commit_tid_, history>>

-----------------------------------------------------------------------------
(* The reads of a transaction.                                             *)

Begin(c) ==
    /\ pc[c] = "idle" /\ txns[c] < MaxTxns[c]
    /\ \E p \in Programs[c] :
          /\ prog' = [prog EXCEPT ![c] = p]
          /\ Goto(c, IF p.snapshot THEN "snapshot" ELSE StartReads(p))
    /\ txns' = [txns EXCEPT ![c] = @ + 1]
    /\ bound' = [bound EXCEPT ![c] = MaxTid]
    /\ ticks_' = [ticks_ EXCEPT ![c] = current_tick_]
    /\ UNCHANGED <<ticker, records, read_set, seen, done, held,
                   last_commit_tid_, history>>

TakeSnapshot(c) ==
    /\ pc[c] = "snapshot"
    /\ bound' = [bound EXCEPT ![c] = ComputeReadOnlyTid(last_tick_inclusive_ + 1)]
    /\ Goto(c, StartReads(prog[c]))
    /\ UNCHANGED <<ticker, ticks_, records, prog, txns, read_set, seen, done,
                   held, last_commit_tid_, history>>

\* The record whose read, check or write is next.
Reading(c) == prog[c].reads[Len(read_set[c]) + 1]

Saw(c, what) == seen' = [seen EXCEPT ![c] = what]

Loading(c) ==
    UNCHANGED <<ticker, ticks_, records, local, done, held, last_commit_tid_,
                history>>

\* reader_stable_version
ReadHeader(c) ==
    /\ pc[c] = "read" /\ Stable(hdr[Reading(c)], prog[c].snapshot)
    /\ Saw(c, [NotSeen EXCEPT !.hdr = hdr[Reading(c)]])
    /\ Goto(c, "readtid") /\ UNCHANGED read_set /\ Loading(c)

ReadVersion(c) ==
    /\ pc[c] = "readtid"
    /\ \/ /\ version[Reading(c)] <= bound[c]
          /\ Saw(c, [seen[c] EXCEPT !.tid = version[Reading(c)]])
          /\ Goto(c, "readvalue")
       \/ /\ version[Reading(c)] > bound[c]
          /\ Goto(c, "readnext") /\ UNCHANGED seen
    /\ UNCHANGED read_set /\ Loading(c)

ReadValue(c) ==
    /\ pc[c] = "readvalue"
    /\ Saw(c, [seen[c] EXCEPT !.value = value[Reading(c)]])
    /\ Goto(c, "readcheck") /\ UNCHANGED read_set /\ Loading(c)

\* record_at_chain: the newest older version that is not past the bound.
Shown(t, b) ==
    LET chain == next[t]
        old == {i \in DOMAIN chain : chain[i].tid <= b}
    IN  IF old = {} THEN [tid |-> 0, value |-> Absent]
        ELSE chain[CHOOSE i \in old : \A j \in old : i <= j]

ReadNext(c) ==
    /\ pc[c] = "readnext"
    /\ Saw(c, [seen[c] EXCEPT !.tid = Shown(Reading(c), bound[c]).tid,
                              !.value = Shown(Reading(c), bound[c]).value])
    /\ Goto(c, "readcheck") /\ UNCHANGED read_set /\ Loading(c)

\* The read counts if the header has not changed; else it starts again.
ReadCheck(c) ==
    /\ pc[c] = "readcheck"
    /\ IF reader_check_version(hdr[Reading(c)], seen[c].hdr)
       THEN /\ read_set' = [read_set EXCEPT ![c] = Append(@,
                    [tuple |-> Reading(c), tid |-> seen[c].tid,
                     value |-> seen[c].value])]
            /\ Goto(c, IF Len(read_set'[c]) = Len(prog[c].reads)
                       THEN AfterReads(prog[c]) ELSE "read")
       ELSE Goto(c, "read") /\ UNCHANGED read_set
    /\ Saw(c, NotSeen) /\ Loading(c)

-----------------------------------------------------------------------------
(* Commit: lock what is written, take a tid, check what was read, write,   *)
(* unlock.                                                                 *)

\* The record to lock next: the first of the sorted copy of the write set, and
\* of the write set as it was put.
NextLockAsPut(c) == prog[c].writes[Cardinality(held[c]) + 1]
NextLock(c) ==
    CHOOSE t \in Writes(c) \ held[c] : \A u \in Writes(c) \ held[c] : t <= u

Committing(c) == UNCHANGED <<ticker, ticks_, local, read_set>>

\* handle_last_tuple_in_group, for a record that is in the tree.
Lock(c) ==
    /\ pc[c] = "lock"
    /\ ~hdr[NextLock(c)].locked
    /\ hdr' = [hdr EXCEPT ![NextLock(c)] = Locked(@)]
    /\ held' = [held EXCEPT ![c] = @ \cup {NextLock(c)}]
    /\ Goto(c, IF held'[c] = Writes(c) THEN "tid" ELSE "lock")
    /\ Committing(c)
    /\ UNCHANGED <<version, value, next, seen, done, last_commit_tid_, history>>

NewestOwn(c) == IF EpochId(Tid(c)) = current_tick_ THEN Tid(c)
                ELSE MakeTid(0, 0, current_tick_)

\* The number that a new tid of this epoch must exceed.
Newest(c) ==
    LET own == IF EpochId(Tid(c)) = current_tick_ THEN Tid(c)
               ELSE MakeTid(0, 0, current_tick_)
    IN  Max({own} \cup {r.tid : r \in ToSet(read_set[c])}
                  \cup {version[t] : t \in Writes(c)})

gen_commit_tid(c) ==
    /\ pc[c] = "tid"
    /\ last_commit_tid_' = [last_commit_tid_ EXCEPT ![c] =
                               MakeTid(c, NumId(Newest(c)) + 1, current_tick_)]
    /\ Goto(c, "validate")
    /\ Committing(c) /\ UNCHANGED <<records, seen, done, held, history>>

\* An abort has only locks to give back.
Fail(c) == Goto(c, IF held[c] = {} THEN "end" ELSE "unlock")

Checking(c) == read_set[c][done[c] + 1]

\* A read of a record that is written too: the lock is held, no other check.
CheckOwn(c) ==
    /\ pc[c] = "validate" /\ done[c] < Len(read_set[c])
    /\ Checking(c).tuple \in Writes(c)
    /\ IF version[Checking(c).tuple] <= Checking(c).tid
       THEN Did(c, done[c] + 1) /\ UNCHANGED pc
       ELSE Fail(c) /\ UNCHANGED done
    /\ Committing(c)
    /\ UNCHANGED <<records, seen, held, last_commit_tid_, history>>

MayLoadAlways(h) == TRUE

\* try_writer_stable_version gives up when it has met the intent too often.
MayLoad(h) == ~h.intent

LoadHeader(c) ==
    /\ pc[c] = "validate" /\ done[c] < Len(read_set[c])
    /\ Checking(c).tuple \notin Writes(c)
    /\ \/ /\ MayLoad(hdr[Checking(c).tuple])
          /\ Saw(c, [NotSeen EXCEPT !.hdr = hdr[Checking(c).tuple]])
          /\ Goto(c, "check")
       \/ /\ hdr[Checking(c).tuple].intent
          /\ Fail(c) /\ UNCHANGED seen
    /\ Committing(c)
    /\ UNCHANGED <<records, done, held, last_commit_tid_, history>>

\* stable_is_latest_version
CheckLatest(c) ==
    /\ pc[c] = "check"
    /\ IF /\ version[Checking(c).tuple] <= Checking(c).tid
          /\ writer_check_version(hdr[Checking(c).tuple], seen[c].hdr)
       THEN Did(c, done[c] + 1) /\ Goto(c, "validate")
       ELSE Fail(c) /\ UNCHANGED done
    /\ Saw(c, NotSeen) /\ Committing(c)
    /\ UNCHANGED <<records, held, last_commit_tid_, history>>

\* Every read is still the latest: nothing can stop the transaction now.
Validated(c) ==
    /\ pc[c] = "validate" /\ done[c] = Len(read_set[c])
    /\ decided' = decided \cup {
          [txn |-> Txn(c), tid |-> Tid(c), writes |-> Writes(c), snapshot |-> FALSE,
           reads |-> {<<r.tuple, r.value>> : r \in ToSet(read_set[c])}]}
    /\ Did(c, 0) /\ Goto(c, IF Writes(c) = {} THEN "end" ELSE "write")
    /\ Committing(c)
    /\ UNCHANGED <<records, seen, held, last_commit_tid_, installed>>

Writing(c) == prog[c].writes[done[c] + 1]

\* write_record_at, in place or after a copy of the old version.
MarkModifying(c) ==
    /\ pc[c] = "write"
    /\ LET t == Writing(c)
       IN  /\ hdr' = [hdr EXCEPT ![t].modifying = TRUE]
           /\ next' = IF can_overwrite_record_tid(version[t], Tid(c)) THEN next
                      ELSE [next EXCEPT ![t] =
                          <<[tid |-> version[t], value |-> value[t]]>> \o @]
    /\ Goto(c, "writevalue") /\ Committing(c)
    /\ UNCHANGED <<version, value, seen, done, held, last_commit_tid_, history>>

StoreValue(c) ==
    /\ pc[c] = "writevalue"
    /\ value' = [value EXCEPT ![Writing(c)] = Txn(c)]
    /\ Goto(c, "writetid") /\ Committing(c)
    /\ UNCHANGED <<hdr, version, next, seen, done, held, last_commit_tid_, history>>

StoreVersion(c) ==
    /\ pc[c] = "writetid"
    /\ version' = [version EXCEPT ![Writing(c)] = Tid(c)]
    /\ installed' = [installed EXCEPT ![Writing(c)] = Append(@, Txn(c))]
    /\ IF done[c] + 1 = Len(prog[c].writes)
       THEN Did(c, 0) /\ Goto(c, "unlock")
       ELSE Did(c, done[c] + 1) /\ Goto(c, "write")
    /\ Committing(c)
    /\ UNCHANGED <<hdr, value, next, seen, held, last_commit_tid_, decided>>

\* After the writes and after an abort alike, in the order of the locks.
Unlock(c) ==
    /\ pc[c] = "unlock"
    /\ LET t == CHOOSE u \in held[c] : \A o \in held[c] : u <= o
       IN  /\ hdr' = [hdr EXCEPT ![t] = Unlocked(@)]
           /\ held' = [held EXCEPT ![c] = @ \ {t}]
           /\ Goto(c, IF held[c] = {t} THEN "end" ELSE "unlock")
    /\ Committing(c)
    /\ UNCHANGED <<version, value, next, seen, done, last_commit_tid_, history>>

\* The transaction is destroyed, and with it its guard on the epoch.
End(c) ==
    /\ pc[c] = "end" /\ Goto(c, "idle")
    /\ prog' = [prog EXCEPT ![c] = NoProgram]
    /\ bound' = [bound EXCEPT ![c] = 0]
    /\ read_set' = [read_set EXCEPT ![c] = <<>>]
    /\ Did(c, 0)
    /\ decided' = IF prog[c].snapshot
                  THEN decided \cup {[txn |-> Txn(c), tid |-> bound[c], writes |-> {},
                          snapshot |-> TRUE,
                          reads |-> {<<r.tuple, r.value>> : r \in ToSet(read_set[c])}]}
                  ELSE decided
    /\ UNCHANGED <<ticker, ticks_, records, txns, seen, held, last_commit_tid_,
                   installed>>

\* The cores have run their transactions and the ticker its epochs.
Finished ==
    /\ \A c \in Cores : pc[c] = "idle" /\ txns[c] = MaxTxns[c]
    /\ current_tick_ = MaxTick /\ last_tick_inclusive_ = MaxTick - 1
    /\ UNCHANGED vars

Next ==
    \/ Bump \/ Pass \/ Publish
    \/ \E c \in Cores :
          \/ Begin(c) \/ TakeSnapshot(c)
          \/ ReadHeader(c) \/ ReadVersion(c) \/ ReadValue(c) \/ ReadNext(c)
          \/ ReadCheck(c)
          \/ Lock(c) \/ gen_commit_tid(c)
          \/ CheckOwn(c) \/ LoadHeader(c) \/ CheckLatest(c) \/ Validated(c)
          \/ MarkModifying(c) \/ StoreValue(c) \/ StoreVersion(c)
          \/ Unlock(c) \/ End(c)
    \/ Finished

Spec == Init /\ [][Next]_vars

-----------------------------------------------------------------------------
(* Properties.                                                             *)

Transaction == {Loader} \cup (Cores \X (Nat \ {0}))

\* The type of the state, with what the code asserts of it: a core holds a
\* lock alone (is_lock_owner), no version of a record is newer than the
\* current epoch (gen_commit_tid's INVARIANTs), and the versions of a record
\* only grow (is_not_behind and can_overwrite_record_tid rely on it).
SiloTypeOK ==
    /\ current_tick_ \in FirstTick .. MaxTick
    /\ last_tick_inclusive_ \in {current_tick_ - 2, current_tick_ - 1}
    /\ \A c \in Cores : ticks_[c] \in {current_tick_ - 1, current_tick_}
    /\ hdr \in [Tuples -> Headers]
    /\ value \in [Tuples -> Transaction]
    /\ \A c \in Cores : txns[c] \in 0 .. MaxTxns[c]
    /\ held \in [Cores -> SUBSET Tuples]
    /\ \A c \in Cores : NumId(Tid(c)) < NumIds - 1
    /\ \A t \in Tuples :
          /\ hdr[t].locked = (\E c \in Cores : t \in held[c])
          /\ \A c, d \in Cores : t \in held[c] \cap held[d] => c = d
          /\ EpochId(version[t]) <= current_tick_
          /\ \A i, j \in DOMAIN next[t] : i < j => next[t][i].tid > next[t][j].tid
          /\ \A i \in DOMAIN next[t] :
                \/ next[t][i].tid < version[t]
                \/ next[t][i].tid = version[t] /\ hdr[t].modifying
    /\ \A c \in Cores : \A t \in Writes(c) :
          pc[c] \in {"write", "writevalue", "writetid"} => version[t] <= Tid(c)

\* How many writers of t came before the value v and with it.
Place(t, v) == IF v = Loader THEN 0
               ELSE CHOOSE i \in DOMAIN installed[t] : installed[t][i] = v

Wrote(a, t) == a.txn \in ToSet(installed[t])

\* b read or overwrote what a wrote, or overwrote what a read.
Before(a, b) ==
    \/ \E t \in a.writes : <<t, a.txn>> \in b.reads
    \/ \E t \in a.writes \cap b.writes :
          Wrote(a, t) /\ Wrote(b, t) /\ Place(t, a.txn) < Place(t, b.txn)
    \/ \E r \in a.reads : r[1] \in b.writes /\ Wrote(b, r[1])
                          /\ Place(r[1], r[2]) < Place(r[1], b.txn)

\* No transaction of a set is before itself, through any number of others.
Orderly(D, Prec(_, _)) ==
    \A S \in SUBSET D : S # {} =>
        \E b \in S : \A a \in S \ {b} : ~Prec(a, b)

\* c spins on a lock that d holds.
WaitsFor(c, d) == pc[c] = "lock" /\ NextLock(c) \in held[d]

\* Locks have no timeout: no cores wait for each other in a circle, whatever the
\* order of their puts, because the sorted copy of the write set is what is
\* locked (txn_impl.h, lines 287-293).
NoLockCycle == Orderly(Cores, LAMBDA a, b : WaitsFor(b, a))

\* Serializability: the transactions that passed validation behave as if they
\* had run one after the other, whatever the interleaving of their reads,
\* locks, checks, writes and unlocks.
Serializable == Orderly({d \in decided : ~d.snapshot}, Before)

\* One epoch comes before the other: of two writers by their tids, of a writer
\* and a snapshot by the snapshot's bound.
EpochBefore(a, b) ==
    \/ /\ a.writes # {} /\ b.writes # {}
       /\ EpochId(a.tid) < EpochId(b.tid)
    \/ a.writes # {} /\ b.snapshot /\ a.tid <= b.tid
    \/ a.snapshot /\ b.writes # {} /\ a.tid < b.tid

\* The epochs are a prefix order of that serial order, and a read-only
\* transaction sees exactly the epochs up to its bound: the writers ordered by
\* epoch and the snapshots between them never contradict what was read.
EpochsAreSerial ==
    /\ \A d \in decided : \A r \in d.reads : r[2] # Absent
    /\ Orderly(decided, LAMBDA a, b : Before(a, b) \/ EpochBefore(a, b))
=============================================================================
