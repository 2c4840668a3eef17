----------------------------- MODULE OrphanSweep -----------------------------
(***************************************************************************)
(* The half of maintenance.RunReconcile that goes from the object store to *)
(* the database: keys that no row refers to are entered in the ledger      *)
(* storage.orphaned_objects, and moved to quarantine/ once they have been  *)
(* in it for the retention period.  QuarantineOrphan holds the object-key  *)
(* lock, which CreateAsset and reclaim take too, across the move.          *)
(*                                                                         *)
(* Several sweeps may run at once.  Request handlers and the cleanup       *)
(* worker, detailed in AssetStore, are here what they do to one key.  An   *)
(* object call has no effect after its caller has stopped waiting for it.  *)
(***************************************************************************)
EXTENDS Naturals, FiniteSets

CONSTANTS
    Key,        \* object keys under objects/
    Bytes,      \* what may be stored under a key
    Sweeper,    \* processes running `storage-server worker`
    NoKey, NoBytes,
    Retention,  \* STORAGE_ORPHAN_RETENTION_DAYS
    DueLimit,   \* reconcileBatch: due entries taken up in one run
    MaxFaults   \* bound of the model: failures and crashes

ASSUME OrphanAssumption ==
    /\ NoKey \notin Key
    /\ NoBytes \notin Bytes
    /\ Retention \in Nat
    /\ DueLimit \in Nat \ {0}
    /\ MaxFaults \in Nat

VARIABLES
    local,    \* files below a directory (rename), or a bucket (copy, remove)
    row,      \* what storage.assets says of the key
    object,   \* the object store, under the key
    vault,    \* the object store, under quarantine/ and the key
    ledger,   \* storage.orphaned_objects
    sweeper,  \* local state of the sweeps
    faults    \* failures and crashes still to come

vars == <<local, row, object, vault, ledger, sweeper, faults>>

-----------------------------------------------------------------------------
(* State *)

\* deleting: a row whose deletion is registered.
RowState == {"none", "live", "deleting"}

\* age: since first_seen_at, not counted beyond the retention period;
\* moved: quarantined_at is set; older: open entries with an earlier first_seen_at.
NoEntry == [listed |-> FALSE, age |-> 0, moved |-> FALSE, older |-> {}]

Entry == {NoEntry} \cup
         [listed : {TRUE}, age : 0 .. Retention, moved : BOOLEAN, older : SUBSET Key]

\* idle: between runs; scan: keys of the listing left to judge; seen: judged
\* to be without a row; sweep: due entries left; locked: transaction open, key
\* lock held, entry and references checked; copied: second of the two steps of
\* a move in a bucket ahead; moved: ledger to be written.
SweeperState == [pc : {"idle", "scan", "seen", "sweep", "locked", "copied", "moved"},
                 todo : SUBSET Key,
                 job : Key \cup {NoKey}]

Idle == [pc |-> "idle", todo |-> {}, job |-> NoKey]

Holding(s) == sweeper[s].pc \in {"locked", "copied", "moved"}

KeyFree(k) == \A s \in Sweeper : Holding(s) => sweeper[s].job # k

Init ==
    /\ local \in BOOLEAN
    /\ row = [k \in Key |-> "none"]
    /\ object = [k \in Key |-> NoBytes]
    /\ vault = [k \in Key |-> NoBytes]
    /\ ledger = [k \in Key |-> NoEntry]
    /\ sweeper = [s \in Sweeper |-> Idle]
    /\ faults = MaxFaults

-----------------------------------------------------------------------------
(* Handlers and the cleanup worker *)

SetRow(k, r) ==
    /\ row' = [row EXCEPT ![k] = r]
    /\ UNCHANGED <<local, object, vault, ledger, sweeper, faults>>

\* Faulty variant: the row is inserted without the object-key lock.
CreateRowUnlocked(k) == row[k] = "none" /\ SetRow(k, "live")

CreateRow(k) == row[k] = "none" /\ KeyFree(k) /\ SetRow(k, "live")

\* First transaction of a reclaim.
Condemn(k) == row[k] = "live" /\ KeyFree(k) /\ SetRow(k, "deleting")

\* Second transaction of a reclaim: bytes and row, or the bytes alone when its
\* commit fails.
Reclaim(k) ==
    /\ row[k] = "deleting"
    /\ KeyFree(k)
    /\ object' = [object EXCEPT ![k] = NoBytes]
    /\ \/ row' = [row EXCEPT ![k] = "none"]
       \/ UNCHANGED row
    /\ UNCHANGED <<local, vault, ledger, sweeper, faults>>

\* An upload, or a presigned PUT that comes after its row was reclaimed.
Put(k, b) ==
    /\ object' = [object EXCEPT ![k] = b]
    /\ UNCHANGED <<local, row, vault, ledger, sweeper, faults>>

\* A handler drops bytes that failed to verify, without any lock.
Discard(k) ==
    /\ object' = [object EXCEPT ![k] = NoBytes]
    /\ UNCHANGED <<local, row, vault, ledger, sweeper, faults>>

Tick ==
    /\ ledger' = [k \in Key |->
                    IF ledger[k].listed /\ ledger[k].age < Retention
                    THEN [ledger[k] EXCEPT !.age = @ + 1] ELSE ledger[k]]
    /\ UNCHANGED <<local, row, object, vault, sweeper, faults>>

-----------------------------------------------------------------------------
(* scanOrphans *)

Become(s, pc, todo, job) ==
    sweeper' = [sweeper EXCEPT ![s] = [pc |-> pc, todo |-> todo, job |-> job]]

\* Faulty variant: the key in hand is not let go.
NextDueKeepsKey(s, k) ==
    IF sweeper[s].todo \ {k} = {} THEN Become(s, "idle", {}, k)
    ELSE Become(s, "sweep", sweeper[s].todo \ {k}, k)

\* Done with a due entry: the next one, or the end of the run.
NextDue(s, k) ==
    IF sweeper[s].todo \ {k} = {} THEN Become(s, "idle", {}, NoKey)
    ELSE Become(s, "sweep", sweeper[s].todo \ {k}, NoKey)

ListKeys(s) ==
    /\ sweeper[s].pc = "idle"
    /\ Become(s, "scan", {k \in Key : object[k] # NoBytes}, NoKey)
    /\ UNCHANGED <<local, row, object, vault, ledger, faults>>

\* IsKeyReferenced: any row counts, whatever its state.
Judge(s, k) ==
    LET left == sweeper[s].todo \ {k}
    IN  /\ sweeper[s].pc = "scan" /\ k \in sweeper[s].todo
        /\ \/ row[k] = "none" /\ Become(s, "seen", left, k)
           \/ row[k] # "none" /\ Become(s, "scan", left, NoKey)
        /\ UNCHANGED <<local, row, object, vault, ledger, faults>>

NewEntry(k) == [listed |-> TRUE, age |-> 0, moved |-> FALSE,
                older |-> {j \in Key \ {k} : ledger[j].listed /\ ~ledger[j].moved}]


\* first_seen_at and quarantined_at of an entry stay as they are.
UpsertOrphanSeen(k) ==
    ledger' = [ledger EXCEPT ![k] = IF @.listed THEN @ ELSE NewEntry(k)]

\* Waits for the lock of an entry that is being quarantined.
RecordSeen(s) ==
    LET k == sweeper[s].job
    IN  /\ sweeper[s].pc = "seen"
        /\ KeyFree(k)
        /\ UpsertOrphanSeen(k)
        /\ Become(s, "scan", sweeper[s].todo, NoKey)
        /\ UNCHANGED <<local, row, object, vault, faults>>

Due == {k \in Key : ledger[k].listed /\ ~ledger[k].moved /\ ledger[k].age = Retention}

\* Faulty variant: the newest entries come first.
ListOrphansDueNewest ==
    {k \in Due : Cardinality({j \in Due : k \in ledger[j].older}) < DueLimit}

\* The oldest of the due entries, up to the limit.
ListOrphansDue == {k \in Due : Cardinality(Due \cap ledger[k].older) < DueLimit}

ListDue(s) ==
    /\ sweeper[s].pc = "scan" /\ sweeper[s].todo = {}
    /\ IF ListOrphansDue = {} THEN Become(s, "idle", {}, NoKey)
       ELSE Become(s, "sweep", ListOrphansDue, NoKey)
    /\ UNCHANGED <<local, row, object, vault, ledger, faults>>

-----------------------------------------------------------------------------
(* QuarantineOrphan: one transaction around the move *)

\* Faulty variant: trusts the scan that no row refers to the key.
BeginUnchecked(s, k) ==
    /\ sweeper[s].pc = "sweep" /\ k \in sweeper[s].todo
    /\ KeyFree(k)
    /\ \/ /\ ledger[k].listed /\ ~ledger[k].moved
          /\ Become(s, "locked", sweeper[s].todo, k)
       \/ /\ ~ledger[k].listed \/ ledger[k].moved
          /\ NextDue(s, k)
    /\ UNCHANGED <<local, row, object, vault, ledger, faults>>

DropEntry(k) ==
    ledger' = [j \in Key |-> IF j = k THEN NoEntry ELSE [ledger[j] EXCEPT !.older = @ \ {k}]]

\* Takes the key lock and looks again at the entry and at the rows.
Begin(s, k) ==
    /\ sweeper[s].pc = "sweep" /\ k \in sweeper[s].todo
    /\ KeyFree(k)
    /\ \/ /\ ledger[k].listed /\ ~ledger[k].moved /\ row[k] = "none"
          /\ Become(s, "locked", sweeper[s].todo, k)
          /\ UNCHANGED ledger
       \/ /\ ledger[k].listed /\ ~ledger[k].moved /\ row[k] # "none"
          /\ DropEntry(k)
          /\ NextDue(s, k)
       \/ /\ ~ledger[k].listed \/ ledger[k].moved
          /\ NextDue(s, k)
          /\ UNCHANGED ledger
    /\ UNCHANGED <<local, row, object, vault, faults>>

Rename(s) ==
    LET k == sweeper[s].job
    IN  /\ local
        /\ sweeper[s].pc = "locked" /\ object[k] # NoBytes
        /\ vault' = [vault EXCEPT ![k] = object[k]]
        /\ object' = [object EXCEPT ![k] = NoBytes]
        /\ Become(s, "moved", sweeper[s].todo, k)
        /\ UNCHANGED <<local, row, ledger, faults>>

\* Faulty variant: goes on after a copy that failed.
CopyUnchecked(s) ==
    LET k == sweeper[s].job
    IN  /\ ~local
        /\ sweeper[s].pc = "locked" /\ object[k] # NoBytes
        /\ \/ vault' = [vault EXCEPT ![k] = object[k]]
           \/ UNCHANGED vault
        /\ Become(s, "copied", sweeper[s].todo, k)
        /\ UNCHANGED <<local, row, object, ledger, faults>>

Copy(s) ==
    LET k == sweeper[s].job
    IN  /\ ~local
        /\ sweeper[s].pc = "locked" /\ object[k] # NoBytes
        /\ vault' = [vault EXCEPT ![k] = object[k]]
        /\ Become(s, "copied", sweeper[s].todo, k)
        /\ UNCHANGED <<local, row, object, ledger, faults>>

Remove(s) ==
    LET k == sweeper[s].job
    IN  /\ sweeper[s].pc = "copied"
        /\ object' = [object EXCEPT ![k] = NoBytes]
        /\ Become(s, "moved", sweeper[s].todo, k)
        /\ UNCHANGED <<local, row, vault, ledger, faults>>

\* Faulty variant: nothing there counts as moved.
NothingToMoveIsDone(s) ==
    /\ sweeper[s].pc = "locked" /\ object[sweeper[s].job] = NoBytes
    /\ Become(s, "moved", sweeper[s].todo, sweeper[s].job)
    /\ UNCHANGED <<local, row, object, vault, ledger, faults>>

\* Rename or copy of an object that is not there: error, rollback, and the
\* entry is tried again by every run.
NothingToMove(s) ==
    /\ sweeper[s].pc = "locked" /\ object[sweeper[s].job] = NoBytes
    /\ NextDue(s, sweeper[s].job)
    /\ UNCHANGED <<local, row, object, vault, ledger, faults>>

Commit(s) ==
    LET k == sweeper[s].job
    IN  /\ sweeper[s].pc = "moved"
        /\ ledger' = [ledger EXCEPT ![k].moved = TRUE]
        /\ NextDue(s, k)
        /\ UNCHANGED <<local, row, object, vault, faults>>

-----------------------------------------------------------------------------
(* Failures *)

Faulted == faults > 0 /\ faults' = faults - 1

\* A query or an object call failed or timed out, with or without its effect
\* on the object store: the key is left to the next run.
FailScan(s, k) ==
    /\ Faulted
    /\ \/ /\ sweeper[s].pc = "scan" /\ k \in sweeper[s].todo
          /\ Become(s, "scan", sweeper[s].todo \ {k}, NoKey)
       \/ /\ sweeper[s].pc = "seen" /\ k = sweeper[s].job
          /\ Become(s, "scan", sweeper[s].todo, NoKey)
    /\ UNCHANGED <<local, row, object, vault, ledger>>

FailMove(s, k) ==
    /\ Faulted
    /\ \/ sweeper[s].pc = "sweep" /\ k \in sweeper[s].todo
       \/ Holding(s) /\ k = sweeper[s].job
    /\ NextDue(s, k)
    /\ UNCHANGED <<local, row, object, vault, ledger>>

\* The process dies, or a listing fails and ends the run; the transaction is
\* rolled back.
Crash(s) ==
    /\ Faulted
    /\ sweeper[s].pc # "idle"
    /\ Become(s, "idle", {}, NoKey)
    /\ UNCHANGED <<local, row, object, vault, ledger>>

-----------------------------------------------------------------------------
(* The system *)

RowOp(k) ==
    \/ CreateRow(k) \/ Condemn(k) \/ Reclaim(k)
    \/ Discard(k)
    \/ \E b \in Bytes : Put(k, b)

Sweep(s) ==
    \/ ListKeys(s)
    \/ RecordSeen(s)
    \/ ListDue(s)
    \/ \E k \in Key : Judge(s, k) \/ Begin(s, k)
    \/ Rename(s) \/ Copy(s) \/ Remove(s) \/ NothingToMove(s)
    \/ Commit(s)

Fault(s) ==
    \/ \E k \in Key : FailScan(s, k) \/ FailMove(s, k)
    \/ Crash(s)

Next ==
    \/ \E k \in Key : RowOp(k)
    \/ \E s \in Sweeper : Sweep(s) \/ Fault(s)
    \/ Tick

Spec == Init /\ [][Next]_vars

\* A timer starts the worker again and again, a started run goes on, and time
\* passes.
FairSpec ==
    /\ Spec
    /\ \A s \in Sweeper : WF_vars(Sweep(s))
    /\ WF_vars(Tick)

-----------------------------------------------------------------------------
(* Properties *)

\* Every variable has its type, and a sweep has a key in hand exactly between
\* taking it up and being done with it.
TypeOK ==
    /\ local \in BOOLEAN
    /\ row \in [Key -> RowState]
    /\ object \in [Key -> Bytes \cup {NoBytes}]
    /\ vault \in [Key -> Bytes \cup {NoBytes}]
    /\ ledger \in [Key -> Entry]
    /\ sweeper \in [Sweeper -> SweeperState]
    /\ \A s \in Sweeper : sweeper[s].job # NoKey
                            <=> sweeper[s].pc = "seen" \/ Holding(s)
    /\ faults \in 0 .. MaxFaults

\* From the check under the key lock to the commit no row comes to refer to
\* the key that is being moved, its entry stays, and no other sweep moves it
\* (orphan_lock.go:11: a stale scan cannot take the bytes of a new asset).
MoverAlone ==
    \A s \in Sweeper : Holding(s) =>
        LET k == sweeper[s].job
        IN  /\ row[k] = "none"
            /\ ledger[k].listed /\ ~ledger[k].moved
            /\ \A t \in Sweeper \ {s} : Holding(t) => sweeper[t].job # k

\* What the ledger says is in quarantine is there, after any failures and
\* retries of the move.
QuarantinedIsThere ==
    \A k \in Key : ledger[k].moved => vault[k] # NoBytes

\* A sweep takes bytes from their key only when no row refers to it, and never
\* destroys them: the quarantine then holds the bytes, or, in a bucket, where
\* a late PUT can fall between copy and removal, those that were copied.
SweepKeepsBytes ==
    [][\A k \in Key :
         /\ sweeper' # sweeper
         /\ object'[k] # object[k]
         => /\ row[k] = "none"
            /\ vault'[k] # NoBytes
            /\ local => vault'[k] = object[k]]_vars

\* Bytes without a row do not stay under their key, unless the ledger has them
\* down as quarantined from an earlier time (maintenance.go:204: what is without a
\* reference beyond the retention period is moved).  The code does not keep this.
OrphanLeaves ==
    \A k \in Key :
        row[k] = "none" /\ object[k] # NoBytes /\ ~ledger[k].moved
            ~> row[k] # "none" \/ object[k] = NoBytes \/ ledger[k].moved

\* An open entry without a row whose object is gone: each move of it fails.
Stuck(k) ==
    ledger[k].listed /\ ~ledger[k].moved /\ row[k] = "none" /\ object[k] = NoBytes

=============================================================================
