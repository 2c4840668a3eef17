----------------------------- MODULE AssetStore -----------------------------
(***************************************************************************)
(* The storage.assets and storage.bindings tables, the object store beside *)
(* them, and the cleanup worker that reclaims rows and bytes.              *)
(*                                                                         *)
(* One action per store operation (internal/store) with the triggers of    *)
(* migration 000006 folded into the statements that fire them; one action  *)
(* per step of maintenance.RunCleanup, whose reclaim of one row is two     *)
(* transactions with an object-store call inside the second.  A statement  *)
(* or a transaction without an outside call is atomic; a transaction that  *)
(* holds its row lock and object-key lock across an outside call spans     *)
(* several steps and disables whatever needs those locks.                  *)
(*                                                                         *)
(* A request handler is any sequence of the store operations here: module  *)
(* UploadFlow adds the handlers and what they remember between the calls.  *)
(***************************************************************************)
EXTENDS Integers, FiniteSets

CONSTANTS
    Asset,        \* row ids (uuids: never reused)
    Hash,         \* sha256 digests
    Key,          \* object keys
    Entity,       \* catalogue entities a file can be bound to
    Worker,       \* processes running `storage-server worker`
    ShaOf,        \* Asset -> Hash: the declared sha256 of the row
    KeyOf,        \* Asset -> Key: its object key, KeyFor(sha256, file name)
    Imported,     \* rows written before content addressing: key not under sha
    NoAsset, NoWorker,
    Lease,        \* STORAGE_UPLOAD_LEASE_MINUTES, counted from each renewal
    Retention,    \* how long a complete row stays unbound before reclaim
    ClaimTimeout, \* ReclaimClaimTimeout
    MaxClock,     \* bound of the model: the clock stops here
    FaultsUntil   \* bound of the model: crashes and failures happen up to this
                  \* time (-1: never)

ASSUME ShapeAssumption ==
    /\ ShaOf \in [Asset -> Hash]
    /\ KeyOf \in [Asset -> Key]
    /\ Imported \subseteq Asset
    /\ NoAsset \notin Asset
    /\ NoWorker \notin Worker

ASSUME TimeAssumption ==
    /\ Lease \in Nat
    /\ Retention \in Nat
    /\ ClaimTimeout \in Nat
    /\ MaxClock \in Nat
    /\ FaultsUntil \in Int

VARIABLES
    asset,     \* storage.assets
    bindings,  \* storage.bindings: pairs <<asset, entity>>
    object,    \* the object store
    worker,    \* local state of the cleanup processes
    clock

vars == <<asset, bindings, object, worker, clock>>

-----------------------------------------------------------------------------
(* State *)

NoTime == -1                       \* SQL NULL in a timestamp column
Time == Nat \cup {NoTime}

\* "unborn": not inserted yet; "gone": deleted.
Status == {"unborn", "pending", "complete", "gone"}

Row == [status : Status,
        verified : BOOLEAN,             \* hash_verified
        blocked : BOOLEAN,
        deleting : BOOLEAN,             \* reclaim_deleting
        token : Worker \cup {NoWorker}, \* reclaim_token, NoWorker for ''
        claimedAt : Time,               \* reclaim_claimed_at
        unboundSince : Time,            \* unbound_since
        expires : Time]                 \* upload_expires_at

\* What is stored under a key: nothing, bytes of the digest the key is named
\* for, or others.
Content == {"missing", "right", "wrong"}

Path == {"pending", "complete"}

\* idle: between runs; list: between two candidates; claimed: TryClaimReclaim
\* won; marked: deletion registered by the first transaction; locked: second
\* transaction open, object not touched; removed: object removed, row still
\* there; release: about to give the claim back.
Pc == {"idle", "list", "claimed", "marked", "locked", "removed", "release"}

WorkerState == [pc : Pc,
                todo : SUBSET (Asset \X Path), \* candidates left in this run
                job : Asset \cup {NoAsset},    \* the candidate in hand
                path : Path,
                now : Nat]                     \* time.Now() of the run

NoRow(s) == [status |-> s, verified |-> FALSE, blocked |-> FALSE,
             deleting |-> FALSE, token |-> NoWorker, claimedAt |-> NoTime,
             unboundSince |-> NoTime, expires |-> NoTime]

\* Faulty variant: the time of the run becomes NULL between runs.
IdleWithoutTime == [pc |-> "idle", todo |-> {}, job |-> NoAsset,
                    path |-> "pending", now |-> NoTime]

Idle == [pc |-> "idle", todo |-> {}, job |-> NoAsset, path |-> "pending",
         now |-> 0]

Live(a) == asset[a].status \in {"pending", "complete"}

Bound(a) == \E e \in Entity : <<a, e>> \in bindings

\* The second reclaim transaction holds the row lock and the key lock.
Holding(w) == worker[w].pc \in {"locked", "removed"}

RowFree(a) == \A w \in Worker : Holding(w) => worker[w].job # a

KeyFree(k) == \A w \in Worker : Holding(w) => KeyOf[worker[w].job] # k

Shared(a) == \E b \in Asset \ {a} : Live(b) /\ KeyOf[b] = KeyOf[a]

Init ==
    /\ asset = [a \in Asset |->
                  IF a \in Imported
                  THEN [NoRow("complete") EXCEPT !.verified = TRUE,
                                                 !.unboundSince = 0]
                  ELSE NoRow("unborn")]
    /\ bindings = {}
    /\ object = [k \in Key |-> IF \E a \in Imported : KeyOf[a] = k
                               THEN "right" ELSE "missing"]
    /\ worker = [w \in Worker |-> Idle]
    /\ clock = 0

-----------------------------------------------------------------------------
(* Store operations called by the request handlers *)

Claimed(r, w, t) == [r EXCEPT !.token = w, !.claimedAt = t]

Unclaimed(r) == Claimed(r, NoWorker, NoTime)

\* trigger assets_unbound_status, after status was assigned in r
StatusTrigger(r, old, bound) ==
    IF r.status # "complete" THEN [r EXCEPT !.unboundSince = NoTime]
    ELSE IF old.status = "complete" THEN r
    ELSE [r EXCEPT !.unboundSince = IF bound THEN NoTime ELSE clock]

\* Faulty variant: mutations that do not look at reclaim_deleting.
MutableWhileDeleting(a) == Live(a) /\ RowFree(a)

\* The row exists, nobody holds its lock and deletion has not been registered:
\* the WHERE clause every mutation of a live row carries.
Mutable(a) == Live(a) /\ RowFree(a) /\ ~asset[a].deleting

SetRow(a, r) ==
    /\ asset' = [asset EXCEPT ![a] = r]
    /\ UNCHANGED <<bindings, object, worker, clock>>

\* CreateAsset and CreatePendingAsset: under the object-key lock; the unique
\* index on sha256 rejects a second row for the same digest.
CreateAsset(a) ==
    /\ asset[a].status = "unborn"
    /\ KeyFree(KeyOf[a])
    /\ \A b \in Asset : Live(b) => ShaOf[b] # ShaOf[a]
    /\ SetRow(a, [NoRow("pending") EXCEPT !.expires = clock + Lease])

SetUploadExpiry(a) ==
    /\ Mutable(a)
    /\ SetRow(a, [Unclaimed(asset[a]) EXCEPT !.expires = clock + Lease])

MarkHashVerified(a) ==
    /\ Mutable(a)
    /\ SetRow(a, [Unclaimed(asset[a]) EXCEPT !.verified = TRUE])

\* Faulty variant: the verdict changes and the status stays.
MarkHashMismatchOnly(a) ==
    /\ Mutable(a)
    /\ asset[a].expires # NoTime
    /\ SetRow(a, [Unclaimed(asset[a]) EXCEPT !.verified = FALSE])

\* Demotes a complete row too.  The CHECK of migration 000005 rejects a pending
\* row without a lease, which a row completed before leases existed would be.
MarkHashMismatch(a) ==
    /\ Mutable(a)
    /\ asset[a].expires # NoTime
    /\ LET r == [Unclaimed(asset[a]) EXCEPT !.verified = FALSE,
                                            !.status = "pending"]
       IN  SetRow(a, StatusTrigger(r, asset[a], Bound(a)))

CompleteAsset(a) ==
    /\ Mutable(a)
    /\ asset[a].verified
    /\ LET r == [Unclaimed(asset[a]) EXCEPT !.status = "complete"]
       IN  SetRow(a, StatusTrigger(r, asset[a], Bound(a)))

SetBlocked(a) ==
    /\ Mutable(a)
    /\ SetRow(a, [asset[a] EXCEPT !.blocked = TRUE])

\* The one mutation without the NOT reclaim_deleting guard.
ClearBlocked(a) ==
    /\ Live(a) /\ RowFree(a)
    /\ SetRow(a, [asset[a] EXCEPT !.blocked = FALSE])

\* The upsert keeps an existing binding; either way the claim is cleared, and
\* an insert clears unbound_since (trigger bindings_unbound_changed).
Bind(a, e) ==
    /\ Mutable(a)
    /\ bindings' = bindings \cup {<<a, e>>}
    /\ asset' = [asset EXCEPT ![a] = [Unclaimed(@) EXCEPT !.unboundSince = NoTime]]
    /\ UNCHANGED <<object, worker, clock>>

\* Faulty variant: the clock starts with any binding that goes.
UnbindStartsClock(a, e) ==
    /\ <<a, e>> \in bindings
    /\ RowFree(a)
    /\ bindings' = bindings \ {<<a, e>>}
    /\ asset' = [asset EXCEPT ![a].unboundSince =
                   IF asset[a].status = "complete" THEN clock ELSE @]
    /\ UNCHANGED <<object, worker, clock>>

\* The triggers lock the row and start the retention clock with the last
\* binding of a complete asset.
Unbind(a, e) ==
    /\ <<a, e>> \in bindings
    /\ RowFree(a)
    /\ bindings' = bindings \ {<<a, e>>}
    /\ asset' = [asset EXCEPT ![a].unboundSince =
                   IF /\ asset[a].status = "complete"
                      /\ @ = NoTime
                      /\ \A f \in Entity \ {e} : <<a, f>> \notin bindings
                   THEN clock ELSE @]
    /\ UNCHANGED <<object, worker, clock>>

\* A presigned PUT or a stream upload: needs no row lock and no live row.
PutObject(k, c) ==
    /\ object' = [object EXCEPT ![k] = c]
    /\ UNCHANGED <<asset, bindings, worker, clock>>

-----------------------------------------------------------------------------
(* The cleanup worker *)

Expired(a, t) == asset[a].expires # NoTime /\ asset[a].expires <= t

RetentionOver(a, t) ==
    asset[a].unboundSince # NoTime /\ asset[a].unboundSince + Retention <= t

\* Faulty variants: a claim never becomes stale, or is stale at once.
ClaimableIfFree(a, t) == asset[a].token = NoWorker

ClaimableSinceClaimed(a, t) ==
    asset[a].token = NoWorker \/ asset[a].claimedAt <= t

\* No claim, or one whose holder counts as interrupted.
Claimable(a, t) ==
    \/ asset[a].token = NoWorker
    \/ asset[a].claimedAt = NoTime
    \/ asset[a].claimedAt + ClaimTimeout <= t

\* Faulty variant: a deletion that did not finish is not tried again.
ReclaimCandidatesNew(t) ==
    {a \in Asset : /\ asset[a].status = "pending"
                   /\ ~asset[a].blocked /\ ~asset[a].deleting
                   /\ ~Bound(a)
                   /\ Expired(a, t)
                   /\ Claimable(a, t)}

ReclaimCandidates(t) ==
    {a \in Asset : /\ asset[a].status = "pending"
                   /\ ~asset[a].blocked
                   /\ ~Bound(a)
                   /\ Expired(a, t)
                   /\ Claimable(a, t)}


UnboundCandidates(t) ==
    {a \in Asset : /\ asset[a].status = "complete"
                   /\ ~asset[a].blocked
                   /\ RetentionOver(a, t)
                   /\ ~Bound(a)}

\* Faulty variants of reclaimEligible: what was read when the candidate was
\* listed, its time or its bindings, is not read again.
EligibleByStatus(w, a) ==
    /\ ~asset[a].blocked
    /\ ~Bound(a)
    /\ asset[a].status = worker[w].path
    /\ worker[w].path = "pending" => asset[a].token = w

EligibleByTime(w, a) ==
    /\ ~asset[a].blocked
    /\ asset[a].status = worker[w].path
    /\ IF worker[w].path = "complete"
       THEN asset[a].unboundSince + Retention <= worker[w].now
       ELSE asset[a].token = w /\ Expired(a, worker[w].now)

\* reclaimEligible, re-evaluated inside both transactions with the time the
\* run started at.
Eligible(w, a) ==
    /\ ~asset[a].blocked
    /\ ~Bound(a)
    /\ asset[a].status = worker[w].path
    /\ IF worker[w].path = "complete"
       THEN RetentionOver(a, worker[w].now)
       ELSE asset[a].token = w /\ Expired(a, worker[w].now)

KeyMatches(a) == a \notin Imported

Goto(w, pc) == worker' = [worker EXCEPT ![w].pc = pc]

\* Work on one candidate of the list.
TakeUp(w, a, path) ==
    worker' = [worker EXCEPT ![w] =
                 [@ EXCEPT !.pc = "claimed",
                           !.todo = worker[w].todo \ {<<a, path>>},
                           !.job = a,
                           !.path = path]]

\* Done with the candidate in hand: next one, or the end of the run.
NextCandidate(w, todo) ==
    worker' = [worker EXCEPT ![w] =
                 IF todo = {} THEN Idle
                 ELSE [@ EXCEPT !.pc = "list", !.todo = todo, !.job = NoAsset]]

\* reclaimLocked returned an error or deleted=false: a pending row's claim is
\* given back, an unbound row has none.
Abandon(w) ==
    IF worker[w].path = "pending" THEN Goto(w, "release")
    ELSE NextCandidate(w, worker[w].todo)

\* An empty candidate list changes nothing and is left out.
StartRun(w) ==
    LET todo == (ReclaimCandidates(clock) \X {"pending"})
                  \cup (UnboundCandidates(clock) \X {"complete"})
    IN  /\ worker[w].pc = "idle"
        /\ todo # {}
        /\ worker' = [worker EXCEPT ![w] =
                        [@ EXCEPT !.pc = "list", !.todo = todo, !.now = clock]]
        /\ UNCHANGED <<asset, bindings, object, clock>>

\* TryClaimReclaim: one conditional UPDATE; losing it skips the candidate.
TryClaim(w, a) ==
    LET left == worker[w].todo \ {<<a, "pending">>}
        won  == a \in ReclaimCandidates(worker[w].now)
    IN  /\ worker[w].pc = "list"
        /\ <<a, "pending">> \in worker[w].todo
        /\ RowFree(a)
        /\ \/ /\ won
              /\ asset' = [asset EXCEPT ![a] = Claimed(@, w, worker[w].now)]
              /\ TakeUp(w, a, "pending")
           \/ /\ ~won
              /\ NextCandidate(w, left)
              /\ UNCHANGED asset
        /\ UNCHANGED <<bindings, object, clock>>

\* ReclaimUnbound draws a fresh token and claims nothing beforehand.
TakeUnbound(w, a) ==
    /\ worker[w].pc = "list"
    /\ <<a, "complete">> \in worker[w].todo
    /\ TakeUp(w, a, "complete")
    /\ UNCHANGED <<asset, bindings, object, clock>>

\* First transaction: register the deletion durably, under both locks.
MarkDeleting(w) ==
    LET a == worker[w].job
    IN  /\ worker[w].pc = "claimed"
        /\ RowFree(a) /\ KeyFree(KeyOf[a])
        /\ \/ /\ Eligible(w, a) /\ KeyMatches(a)
              /\ asset' = [asset EXCEPT ![a] =
                              [Claimed(@, w, clock) EXCEPT !.deleting = TRUE]]
              /\ Goto(w, "marked")
           \/ /\ ~(Eligible(w, a) /\ KeyMatches(a))
              /\ Abandon(w)
              /\ UNCHANGED asset
        /\ UNCHANGED <<bindings, object, clock>>

\* Faulty variant: the second transaction trusts the mark of the first.
LockForRemovalByMark(w) ==
    LET a  == worker[w].job
        ok == asset[a].deleting /\ Eligible(w, a)
    IN  /\ worker[w].pc = "marked"
        /\ RowFree(a) /\ KeyFree(KeyOf[a])
        /\ \/ ok /\ Goto(w, "locked")
           \/ ~ok /\ Abandon(w)
        /\ UNCHANGED <<asset, bindings, object, clock>>

\* Second transaction: take both locks again, re-check under them.
LockForRemoval(w) ==
    LET a  == worker[w].job
        ok == /\ asset[a].deleting
              /\ asset[a].token = w
              /\ Eligible(w, a)
    IN  /\ worker[w].pc = "marked"
        /\ RowFree(a) /\ KeyFree(KeyOf[a])
        /\ \/ ok /\ Goto(w, "locked")
           \/ ~ok /\ Abandon(w)
        /\ UNCHANGED <<asset, bindings, object, clock>>

\* Faulty variant: the object goes with the row.
RemoveObjectAlways(w) ==
    /\ worker[w].pc = "locked"
    /\ object' = [object EXCEPT ![KeyOf[worker[w].job]] = "missing"]
    /\ Goto(w, "removed")
    /\ UNCHANGED <<asset, bindings, clock>>

\* The remove callback: bytes another row refers to are kept.
RemoveObject(w) ==
    LET a == worker[w].job
    IN  /\ worker[w].pc = "locked"
        /\ object' = IF Shared(a) THEN object
                     ELSE [object EXCEPT ![KeyOf[a]] = "missing"]
        /\ Goto(w, "removed")
        /\ UNCHANGED <<asset, bindings, clock>>

\* DELETE of the row and COMMIT of the second transaction.
CommitDelete(w) ==
    LET a == worker[w].job
    IN  /\ worker[w].pc = "removed"
        /\ asset' = [asset EXCEPT ![a] = IF @.deleting /\ @.token = w
                                         THEN NoRow("gone") ELSE @]
        /\ NextCandidate(w, worker[w].todo)
        /\ UNCHANGED <<bindings, object, clock>>

\* Faulty variant: giving the claim back also reactivates the row.
ReleaseReactivates(w) ==
    LET a == worker[w].job
    IN  /\ worker[w].pc = "release"
        /\ RowFree(a)
        /\ asset' = [asset EXCEPT ![a] =
                       IF @.token = w
                       THEN [Unclaimed(@) EXCEPT !.deleting = FALSE] ELSE @]
        /\ NextCandidate(w, worker[w].todo)
        /\ UNCHANGED <<bindings, object, clock>>

\* ReleaseReclaimClaim: only the worker's own token.
Release(w) ==
    LET a == worker[w].job
    IN  /\ worker[w].pc = "release"
        /\ RowFree(a)
        /\ asset' = [asset EXCEPT ![a] = IF @.token = w THEN Unclaimed(@) ELSE @]
        /\ NextCandidate(w, worker[w].todo)
        /\ UNCHANGED <<bindings, object, clock>>

-----------------------------------------------------------------------------
(* Failures: bounded by FaultsUntil *)

\* A database error, or an object call that failed or timed out (after having
\* its effect, when it follows RemoveObject): rollback, deletion stays
\* registered.
Fail(w) ==
    /\ clock <= FaultsUntil
    /\ worker[w].pc \in {"claimed", "marked", "locked", "removed"}
    /\ Abandon(w)
    /\ UNCHANGED <<asset, bindings, object, clock>>

\* TryClaimReclaim reports an error, with or without the claim recorded.
FailClaim(w, a) ==
    /\ clock <= FaultsUntil
    /\ worker[w].pc = "list"
    /\ <<a, "pending">> \in worker[w].todo
    /\ RowFree(a)
    /\ \/ UNCHANGED asset
       \/ /\ a \in ReclaimCandidates(worker[w].now)
          /\ asset' = [asset EXCEPT ![a] = Claimed(@, w, worker[w].now)]
    /\ NextCandidate(w, worker[w].todo \ {<<a, "pending">>})
    /\ UNCHANGED <<bindings, object, clock>>

\* The error of ReleaseReclaimClaim is ignored.
LoseRelease(w) ==
    /\ clock <= FaultsUntil
    /\ worker[w].pc = "release"
    /\ NextCandidate(w, worker[w].todo)
    /\ UNCHANGED <<asset, bindings, object, clock>>

\* The process dies; its open transaction is rolled back, its locks are freed.
Crash(w) ==
    /\ clock <= FaultsUntil
    /\ worker[w].pc # "idle"
    /\ worker' = [worker EXCEPT ![w] = Idle]
    /\ UNCHANGED <<asset, bindings, object, clock>>

Tick ==
    /\ clock < MaxClock
    /\ clock' = clock + 1
    /\ UNCHANGED <<asset, bindings, object, worker>>

-----------------------------------------------------------------------------
(* The system *)

StoreOp ==
    \/ \E a \in Asset : \/ CreateAsset(a)
                        \/ SetUploadExpiry(a)
                        \/ MarkHashVerified(a)
                        \/ MarkHashMismatch(a)
                        \/ CompleteAsset(a)
                        \/ SetBlocked(a)
                        \/ ClearBlocked(a)
    \/ \E a \in Asset, e \in Entity : Bind(a, e) \/ Unbind(a, e)
    \/ \E k \in Key, c \in Content \ {"missing"} : PutObject(k, c)

WorkerStep(w) ==
    \/ StartRun(w)
    \/ \E a \in Asset : TryClaim(w, a) \/ TakeUnbound(w, a)
    \/ MarkDeleting(w)
    \/ LockForRemoval(w)
    \/ RemoveObject(w)
    \/ CommitDelete(w)
    \/ Release(w)

Fault(w) ==
    \/ Fail(w)
    \/ \E a \in Asset : FailClaim(w, a)
    \/ LoseRelease(w)
    \/ Crash(w)

Next ==
    \/ StoreOp
    \/ \E w \in Worker : WorkerStep(w) \/ Fault(w)
    \/ Tick

Spec == Init /\ [][Next]_vars

\* cron or a systemd timer starts the worker again and again, a started worker
\* runs on, and time passes.  Requests are not fair: users may stop.
FairSpec ==
    /\ Spec
    /\ \A w \in Worker : WF_vars(WorkerStep(w))
    /\ WF_vars(Tick)

-----------------------------------------------------------------------------
(* Properties *)

\* Every variable has its type.
TypeOK ==
    /\ asset \in [Asset -> Row]
    /\ bindings \subseteq Asset \X Entity
    /\ object \in [Key -> Content]
    /\ worker \in [Worker -> WorkerState]
    /\ clock \in Nat

\* The retention clock of migration 000006 runs for exactly the complete rows
\* without bindings, whatever order binds, unbinds and status changes come in.
UnboundClock ==
    \A a \in Asset : asset[a].unboundSince # NoTime
                       <=> asset[a].status = "complete" /\ ~Bound(a)

\* A row whose deletion is registered stays out of use until it is gone: it is
\* unbound, not blocked, and still past its lease or its retention, although
\* the handlers that could change that run between the two transactions.
CondemnedFrozen ==
    \A a \in Asset : asset[a].deleting =>
        /\ Live(a)
        /\ ~Bound(a)
        /\ ~asset[a].blocked
        /\ IF asset[a].status = "complete" THEN RetentionOver(a, clock)
                                           ELSE Expired(a, clock)

\* The worker that touches the bytes holds the current token of a row marked
\* for deletion, and no other worker is at work on the same object key.
HolderOwnsRow ==
    \A w \in Worker : Holding(w) =>
        /\ asset[worker[w].job].deleting
        /\ asset[worker[w].job].token = w
        /\ \A v \in Worker \ {w} :
              Holding(v) => KeyOf[worker[v].job] # KeyOf[worker[w].job]

\* A row that is offered for instant upload and download was verified, also
\* after a later verification took the verdict back (markHash in one
\* transaction; CompleteAsset's WHERE hash_verified).
PublishedVerified ==
    \A a \in Asset : asset[a].status = "complete" => asset[a].verified

\* Once registered, a deletion is never withdrawn: the row can only go away
\* (migration 000006: a crash or a failed commit must not reactivate a row
\* whose bytes may be lost).
DeletionIrreversible ==
    [][\A a \in Asset : asset[a].deleting =>
         asset'[a].deleting \/ asset'[a].status = "gone"]_vars

\* A row leaves the table only through reclaim, and at that moment nothing
\* uses it: it is unbound, not blocked, and its lease or retention is over.
ReclaimOnlyUnused ==
    [][\A a \in Asset : Live(a) /\ asset'[a].status = "gone" =>
         /\ asset[a].deleting
         /\ ~Bound(a) /\ ~asset[a].blocked
         /\ \/ asset[a].status = "complete" /\ RetentionOver(a, clock)
            \/ asset[a].status = "pending" /\ Expired(a, clock)]_vars

\* Reclaim removes bytes only of a row registered for deletion, and never
\* bytes that another row refers to.
RemovalSparesReferencedBytes ==
    [][\A k \in Key : object[k] # "missing" /\ object'[k] = "missing" =>
         \E a \in Asset : /\ KeyOf[a] = k
                          /\ asset[a].deleting
                          /\ \A b \in Asset \ {a} : Live(b) => KeyOf[b] # k]_vars

\* Before deletion is registered, a claim passes from one worker to another
\* only when its holder counts as interrupted.
ClaimTakeoverAfterTimeout ==
    [][\A a \in Asset :
         /\ asset[a].status = "pending"
         /\ asset[a].token # NoWorker
         /\ asset'[a].token \notin {NoWorker, asset[a].token}
         => asset[a].claimedAt + ClaimTimeout <= clock]_vars

\* What the rest of the service may rely on: the rows go through the phases of
\* AssetLifecycle, where a condemned row is out of everybody's reach for good.
PhaseOf(a) ==
    IF asset[a].deleting THEN "condemned"
    ELSE IF asset[a].status = "pending" THEN "open"
    ELSE IF asset[a].status = "complete" THEN "published"
    ELSE asset[a].status

Lifecycle == INSTANCE AssetLifecycle
                 WITH phase <- [a \in Asset |-> PhaseOf(a)],
                      held <- [a \in Asset |-> Bound(a) \/ asset[a].blocked]

\* The two-transaction reclaim, its retries and the handlers running beside it
\* implement that lifecycle.
ImplementsLifecycle == Lifecycle!Spec

\* A registered deletion is carried out, whatever crashes and failures came
\* before: the next runs of the worker retry it.
DeletionCompletes ==
    \A a \in Asset : asset[a].deleting ~> asset[a].status = "gone"

\* An upload whose lease ran out does not stay: unless requests for it keep
\* coming (each revokes the worker's claim), it is bound, blocked, completed,
\* renewed or reclaimed.
ExpiredUploadLeaves ==
    <>[][~StoreOp]_vars =>
        \A a \in Asset \ Imported :
            []<>~(/\ asset[a].status = "pending" /\ Expired(a, clock)
                  /\ ~Bound(a) /\ ~asset[a].blocked)

=============================================================================
