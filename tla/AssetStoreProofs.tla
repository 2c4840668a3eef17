-------------------------- MODULE AssetStoreProofs --------------------------
(***************************************************************************)
(* Proofs about AssetStore, for every set of rows, workers and entities    *)
(* and every lease, retention, claim timeout and clock bound.              *)
(***************************************************************************)
EXTENDS AssetStore, TLAPS

-----------------------------------------------------------------------------
(* The inductive invariant *)

Working(w) ==
    worker[w].pc \in {"claimed", "marked", "locked", "removed", "release"}

\* A worker between the claim and the release has a candidate in hand.
JobInHand == \A w \in Worker : Working(w) => worker[w].job \in Asset

\* The time a run works with is not in the future.
RunInPast == \A w \in Worker : worker[w].now <= clock

\* Only rows that exist are bound, blocked or registered for deletion.
OnlyLiveRowsUsed ==
    \A a \in Asset :
        ~Live(a) => ~Bound(a) /\ ~asset[a].blocked /\ ~asset[a].deleting

IInv == /\ TypeOK
        /\ JobInHand
        /\ RunInPast
        /\ OnlyLiveRowsUsed
        /\ UnboundClock
        /\ CondemnedFrozen
        /\ HolderOwnsRow
        /\ PublishedVerified

-----------------------------------------------------------------------------
(* Type correctness *)

LEMMA RowFields ==
    ASSUME NEW r \in Row
    PROVE  /\ \A t \in Worker \cup {NoWorker} : [r EXCEPT !.token = t] \in Row
           /\ \A t \in Time : /\ [r EXCEPT !.claimedAt = t] \in Row
                              /\ [r EXCEPT !.unboundSince = t] \in Row
                              /\ [r EXCEPT !.expires = t] \in Row
           /\ \A b \in BOOLEAN : /\ [r EXCEPT !.verified = b] \in Row
                                 /\ [r EXCEPT !.blocked = b] \in Row
                                 /\ [r EXCEPT !.deleting = b] \in Row
           /\ \A s \in Status : [r EXCEPT !.status = s] \in Row
  BY DEF Row

LEMMA ClaimTypes ==
    ASSUME NEW r \in Row
    PROVE  /\ Unclaimed(r) \in Row
           /\ \A w \in Worker, t \in Time : Claimed(r, w, t) \in Row
  <1>1. \A w \in Worker \cup {NoWorker}, t \in Time : Claimed(r, w, t) \in Row
    <2> SUFFICES ASSUME NEW w \in Worker \cup {NoWorker}, NEW t \in Time
                 PROVE  Claimed(r, w, t) \in Row
      OBVIOUS
    <2>1. [r EXCEPT !.token = w] \in Row
      BY RowFields
    <2>2. [[r EXCEPT !.token = w] EXCEPT !.claimedAt = t] \in Row
      BY <2>1, RowFields
    <2>3. QED BY <2>2 DEF Claimed
  <1>2. NoTime \in Time
    BY DEF Time
  <1>3. QED
    BY <1>1, <1>2 DEF Unclaimed

LEMMA TriggerType ==
    ASSUME NEW r \in Row, NEW old \in Row, NEW bound \in BOOLEAN, clock \in Nat
    PROVE  StatusTrigger(r, old, bound) \in Row
  BY RowFields DEF StatusTrigger, Time

LEMMA NoRowType == \A s \in Status : NoRow(s) \in Row
  BY DEF NoRow, Row, Time

LEMMA IdleType == Idle \in WorkerState
  BY DEF Idle, WorkerState, Pc, Path

LEMMA WorkerFields ==
    ASSUME NEW s \in WorkerState
    PROVE  /\ \A pc \in Pc : [s EXCEPT !.pc = pc] \in WorkerState
           /\ \A t \in SUBSET (Asset \X Path) : [s EXCEPT !.todo = t] \in WorkerState
           /\ \A a \in Asset \cup {NoAsset} : [s EXCEPT !.job = a] \in WorkerState
           /\ \A p \in Path : [s EXCEPT !.path = p] \in WorkerState
           /\ \A n \in Nat : [s EXCEPT !.now = n] \in WorkerState
  BY DEF WorkerState

\* What the shared control steps leave in the worker's state.
LEMMA WorkerTypes ==
    ASSUME worker \in [Worker -> WorkerState], NEW w \in Worker
    PROVE  /\ \A t \in SUBSET (Asset \X Path) :
                NextCandidate(w, t) => worker' \in [Worker -> WorkerState]
           /\ Abandon(w) => worker' \in [Worker -> WorkerState]
           /\ \A pc \in Pc : Goto(w, pc) => worker' \in [Worker -> WorkerState]
           /\ \A a \in Asset, p \in Path :
                TakeUp(w, a, p) => worker' \in [Worker -> WorkerState]
  <1>0. /\ worker[w] \in WorkerState
        /\ worker[w].todo \in SUBSET (Asset \X Path)
        /\ {"list", "claimed", "release"} \subseteq Pc
    BY DEF WorkerState, Pc
  <1>1. ASSUME NEW t \in SUBSET (Asset \X Path), NextCandidate(w, t)
        PROVE  worker' \in [Worker -> WorkerState]
    <2>1. [[[worker[w] EXCEPT !.pc = "list"] EXCEPT !.todo = t]
             EXCEPT !.job = NoAsset] \in WorkerState
      BY <1>0, WorkerFields
    <2>2. QED
      BY <1>1, <2>1, IdleType DEF NextCandidate
  <1>2. ASSUME NEW pc \in Pc, Goto(w, pc)
        PROVE  worker' \in [Worker -> WorkerState]
    <2>1. [worker[w] EXCEPT !.pc = pc] \in WorkerState
      BY <1>0, WorkerFields
    <2>2. QED
      BY <1>2, <2>1 DEF Goto
  <1>3. ASSUME NEW a \in Asset, NEW p \in Path, TakeUp(w, a, p)
        PROVE  worker' \in [Worker -> WorkerState]
    <2> DEFINE left == worker[w].todo \ {<<a, p>>}
    <2>1. left \in SUBSET (Asset \X Path)
      BY <1>0
    <2>2. [[[[worker[w] EXCEPT !.pc = "claimed"] EXCEPT !.todo = left]
              EXCEPT !.job = a] EXCEPT !.path = p] \in WorkerState
      BY <1>0, <2>1, WorkerFields
    <2>3. QED
      BY <1>3, <2>2 DEF TakeUp
  <1>4. QED
    BY <1>0, <1>1, <1>2, <1>3 DEF Abandon

LEMMA TypeInit == Init => TypeOK
  <1> SUFFICES ASSUME Init PROVE TypeOK
    OBVIOUS
  <1>1. [[NoRow("complete") EXCEPT !.verified = TRUE]
           EXCEPT !.unboundSince = 0] \in Row
    BY NoRowType, RowFields DEF Status, Time
  <1>2. asset \in [Asset -> Row]
    BY <1>1, NoRowType DEF Init, Status
  <1>3. object \in [Key -> Content]
    BY DEF Init, Content
  <1>4. QED
    BY <1>2, <1>3, IdleType DEF Init, TypeOK

LEMMA TypeStep == TypeOK /\ [Next]_vars => TypeOK'
  <1> SUFFICES ASSUME TypeOK, [Next]_vars PROVE TypeOK'
    OBVIOUS
  <1>t. /\ asset \in [Asset -> Row] /\ object \in [Key -> Content]
        /\ worker \in [Worker -> WorkerState] /\ clock \in Nat
        /\ bindings \in SUBSET (Asset \X Entity)
    BY DEF TypeOK
  <1>1. ASSUME NEW a \in Asset, NEW r \in Row, SetRow(a, r) PROVE TypeOK'
    BY <1>1, <1>t DEF SetRow, TypeOK
  <1>2. ASSUME NEW a \in Asset, CreateAsset(a) PROVE TypeOK'
    <2>1. /\ NoRow("pending") \in Row
          /\ clock + Lease \in Time
      BY <1>t, TimeAssumption, NoRowType DEF Time, Status
    <2>2. [NoRow("pending") EXCEPT !.expires = clock + Lease] \in Row
      BY <2>1, RowFields
    <2>3. QED BY <1>1, <1>2, <2>2 DEF CreateAsset
  <1>3. ASSUME NEW a \in Asset, SetUploadExpiry(a) PROVE TypeOK'
    <2>1. clock + Lease \in Time
      BY <1>t, TimeAssumption DEF Time
    <2>2. [Unclaimed(asset[a]) EXCEPT !.expires = clock + Lease] \in Row
      BY <1>t, <2>1, ClaimTypes, RowFields
    <2>3. QED BY <1>1, <1>3, <2>2 DEF SetUploadExpiry
  <1>4. ASSUME NEW a \in Asset, MarkHashVerified(a) PROVE TypeOK'
    <2>1. [Unclaimed(asset[a]) EXCEPT !.verified = TRUE] \in Row
      BY <1>t, ClaimTypes, RowFields
    <2>2. QED BY <1>1, <1>4, <2>1 DEF MarkHashVerified
  <1>5. ASSUME NEW a \in Asset, MarkHashMismatch(a) PROVE TypeOK'
    <2> DEFINE r == [[Unclaimed(asset[a]) EXCEPT !.verified = FALSE]
                       EXCEPT !.status = "pending"]
    <2>1. r \in Row
      BY <1>t, ClaimTypes, RowFields DEF Status
    <2>2. StatusTrigger(r, asset[a], Bound(a)) \in Row
      BY <1>t, <2>1, TriggerType DEF Bound
    <2>3. QED BY <1>1, <1>5, <2>2 DEF MarkHashMismatch
  <1>6. ASSUME NEW a \in Asset, CompleteAsset(a) PROVE TypeOK'
    <2> DEFINE r == [Unclaimed(asset[a]) EXCEPT !.status = "complete"]
    <2>1. r \in Row
      BY <1>t, ClaimTypes, RowFields DEF Status
    <2>2. StatusTrigger(r, asset[a], Bound(a)) \in Row
      BY <1>t, <2>1, TriggerType DEF Bound
    <2>3. QED BY <1>1, <1>6, <2>2 DEF CompleteAsset
  <1>7. ASSUME NEW a \in Asset, SetBlocked(a) \/ ClearBlocked(a) PROVE TypeOK'
    BY <1>1, <1>t, <1>7, RowFields DEF SetBlocked, ClearBlocked
  <1>8. ASSUME NEW a \in Asset, NEW e \in Entity, Bind(a, e) PROVE TypeOK'
    <2>1. [Unclaimed(asset[a]) EXCEPT !.unboundSince = NoTime] \in Row
      BY <1>t, ClaimTypes, RowFields DEF Time
    <2>2. QED BY <1>t, <1>8, <2>1 DEF Bind, TypeOK
  <1>9. ASSUME NEW a \in Asset, NEW e \in Entity, Unbind(a, e) PROVE TypeOK'
    <2>1. asset[a].unboundSince \in Time /\ clock \in Time
      BY <1>t DEF Row, Time
    <2>2. asset' \in [Asset -> Row]
      BY <1>t, <1>9, <2>1, RowFields DEF Unbind
    <2>3. QED BY <1>t, <1>9, <2>2 DEF Unbind, TypeOK
  <1>10. ASSUME NEW k \in Key, NEW c \in Content, PutObject(k, c) PROVE TypeOK'
    BY <1>t, <1>10 DEF PutObject, TypeOK
  <1>11. ASSUME NEW w \in Worker, StartRun(w) PROVE TypeOK'
    <2> DEFINE todo == (ReclaimCandidates(clock) \X {"pending"})
                         \cup (UnboundCandidates(clock) \X {"complete"})
    <2>1. todo \in SUBSET (Asset \X Path)
      BY DEF ReclaimCandidates, UnboundCandidates, Path
    <2>2. [[[worker[w] EXCEPT !.pc = "list"] EXCEPT !.todo = todo]
             EXCEPT !.now = clock] \in WorkerState
      BY <1>t, <2>1, WorkerFields DEF Pc
    <2>3. QED BY <1>t, <1>11, <2>2 DEF StartRun, TypeOK
  <1>w. \A w \in Worker : /\ worker[w].now \in Time
                          /\ worker[w].todo \in SUBSET (Asset \X Path)
    BY <1>t DEF WorkerState, Time
  <1>12. ASSUME NEW w \in Worker, NEW a \in Asset, TryClaim(w, a) PROVE TypeOK'
    <2> DEFINE left == worker[w].todo \ {<<a, "pending">>}
    <2>1. left \in SUBSET (Asset \X Path)
      BY <1>w
    <2>2. worker' \in [Worker -> WorkerState]
      BY <1>t, <1>12, <2>1, WorkerTypes DEF TryClaim, Path
    <2>3. asset' \in [Asset -> Row]
      BY <1>t, <1>w, <1>12, ClaimTypes DEF TryClaim
    <2>4. QED BY <1>t, <1>12, <2>2, <2>3 DEF TryClaim, TypeOK
  <1>13. ASSUME NEW w \in Worker, NEW a \in Asset, TakeUnbound(w, a) PROVE TypeOK'
    BY <1>t, <1>13, WorkerTypes DEF TakeUnbound, TypeOK, Path
  <1>14. ASSUME NEW w \in Worker, MarkDeleting(w) PROVE TypeOK'
    <2> DEFINE a == worker[w].job
    <2>1. worker' \in [Worker -> WorkerState]
      BY <1>t, <1>14, WorkerTypes DEF MarkDeleting, Pc
    <2>2. a \in Asset => [Claimed(asset[a], w, clock) EXCEPT !.deleting = TRUE] \in Row
      BY <1>t, ClaimTypes, RowFields DEF Time
    <2>3. asset' \in [Asset -> Row]
      BY <1>t, <1>14, <2>2 DEF MarkDeleting
    <2>4. QED BY <1>t, <1>14, <2>1, <2>3 DEF MarkDeleting, TypeOK
  <1>15. ASSUME NEW w \in Worker, LockForRemoval(w) PROVE TypeOK'
    BY <1>t, <1>15, WorkerTypes DEF LockForRemoval, TypeOK, Pc
  <1>16. ASSUME NEW w \in Worker, RemoveObject(w) PROVE TypeOK'
    BY <1>t, <1>16, WorkerTypes DEF RemoveObject, TypeOK, Pc, Content
  <1>17. ASSUME NEW w \in Worker, CommitDelete(w) PROVE TypeOK'
    <2>1. worker' \in [Worker -> WorkerState]
      BY <1>t, <1>w, <1>17, WorkerTypes DEF CommitDelete
    <2>2. asset' \in [Asset -> Row]
      BY <1>t, <1>17, NoRowType DEF CommitDelete, Status
    <2>3. QED BY <1>t, <1>17, <2>1, <2>2 DEF CommitDelete, TypeOK
  <1>18. ASSUME NEW w \in Worker, Release(w) PROVE TypeOK'
    <2>1. worker' \in [Worker -> WorkerState]
      BY <1>t, <1>w, <1>18, WorkerTypes DEF Release
    <2>2. asset' \in [Asset -> Row]
      BY <1>t, <1>18, ClaimTypes DEF Release
    <2>3. QED BY <1>t, <1>18, <2>1, <2>2 DEF Release, TypeOK
  <1>19. ASSUME NEW w \in Worker, Fail(w) \/ LoseRelease(w) \/ Crash(w)
         PROVE  TypeOK'
    <2>1. worker' \in [Worker -> WorkerState]
      BY <1>t, <1>w, <1>19, WorkerTypes, IdleType
         DEF Fail, LoseRelease, Crash
    <2>2. QED BY <1>t, <1>19, <2>1 DEF Fail, LoseRelease, Crash, TypeOK
  <1>20. ASSUME NEW w \in Worker, NEW a \in Asset, FailClaim(w, a) PROVE TypeOK'
    <2>1. worker[w].todo \ {<<a, "pending">>} \in SUBSET (Asset \X Path)
      BY <1>w
    <2>2. worker' \in [Worker -> WorkerState]
      BY <1>t, <1>20, <2>1, WorkerTypes DEF FailClaim
    <2>3. asset' \in [Asset -> Row]
      <3>1. \/ UNCHANGED asset
            \/ asset' = [asset EXCEPT ![a] = Claimed(asset[a], w, worker[w].now)]
        BY <1>20 DEF FailClaim
      <3>2. asset \in [Asset -> Row] /\ worker[w].now \in Time
        BY <1>t, <1>w DEF TypeOK, WorkerState, Time
      <3>3. Claimed(asset[a], w, worker[w].now) \in Row
        BY <3>2, ClaimTypes
      <3>4. QED BY <3>1, <3>2, <3>3
    <2>4. QED BY <1>t, <1>20, <2>2, <2>3 DEF FailClaim, TypeOK
  <1>21. CASE Tick
    BY <1>t, <1>21 DEF Tick, TypeOK
  <1>22. CASE UNCHANGED vars
    BY <1>t, <1>22 DEF vars, TypeOK
  <1>23. QED
    BY <1>2, <1>3, <1>4, <1>5, <1>6, <1>7, <1>8, <1>9, <1>10, <1>11, <1>12,
       <1>13, <1>14, <1>15, <1>16, <1>17, <1>18, <1>19, <1>20, <1>21, <1>22
    DEF Next, StoreOp, WorkerStep, Fault

\* Every variable keeps its type.
THEOREM TypeCorrect == Spec => []TypeOK
  BY TypeInit, TypeStep, PTL DEF Spec

-----------------------------------------------------------------------------
(* The invariant is inductive *)

LEMMA InvInit == Init => IInv
  <1> SUFFICES ASSUME Init PROVE IInv
    OBVIOUS
  <1>1. TypeOK
    BY TypeInit
  <1>2. \A a \in Asset :
           /\ ~Bound(a)
           /\ ~asset[a].deleting
           /\ ~asset[a].blocked
           /\ asset[a].status = "complete" => asset[a].verified
           /\ asset[a].unboundSince # NoTime <=> asset[a].status = "complete"
    BY DEF Init, Bound, NoRow, NoTime
  <1>3. \A w \in Worker : worker[w] = Idle
    BY DEF Init
  <1>4. JobInHand /\ RunInPast /\ HolderOwnsRow
    BY <1>3 DEF JobInHand, RunInPast, HolderOwnsRow, Working, Holding, Idle, Init
  <1>5. QED
    BY <1>1, <1>2, <1>4
       DEF IInv, OnlyLiveRowsUsed, UnboundClock, CondemnedFrozen, PublishedVerified

\* A request that changes one row which is not registered for deletion, and the
\* bindings of that row only.
LEMMA OneRowStep ==
    ASSUME IInv, TypeOK', NEW a \in Asset,
           ~asset[a].deleting,
           \A b \in Asset \ {a} : asset'[b] = asset[b] /\ Bound(b)' = Bound(b),
           ~asset'[a].deleting,
           asset'[a].status \in {"pending", "complete"},
           asset'[a].status = "complete" => asset'[a].verified,
           asset'[a].unboundSince # NoTime
             <=> asset'[a].status = "complete" /\ ~Bound(a)',
           UNCHANGED <<worker, clock>>
    PROVE  IInv'
  <1>1. JobInHand' /\ RunInPast'
    BY DEF IInv, JobInHand, RunInPast, Working
  <1>2. OnlyLiveRowsUsed' /\ PublishedVerified'
    BY DEF IInv, OnlyLiveRowsUsed, PublishedVerified, Live
  <1>3. UnboundClock'
    BY DEF IInv, UnboundClock
  <1>4. CondemnedFrozen'
    BY DEF IInv, CondemnedFrozen, Live, RetentionOver, Expired
  <1>5. HolderOwnsRow'
    BY DEF IInv, HolderOwnsRow, Holding, JobInHand, Working
  <1>6. QED
    BY <1>1, <1>2, <1>3, <1>4, <1>5 DEF IInv

\* A step of worker w that leaves the tables alone and does not take the locks.
LEMMA ControlStep ==
    ASSUME IInv, TypeOK', NEW w \in Worker,
           UNCHANGED <<asset, bindings, clock>>,
           \A v \in Worker \ {w} : worker'[v] = worker[v],
           worker'[w].now <= clock,
           Working(w)' => worker'[w].job \in Asset,
           Holding(w)' => Holding(w) /\ worker'[w].job = worker[w].job
    PROVE  IInv'
  <1>1. JobInHand' /\ RunInPast'
    BY DEF IInv, JobInHand, RunInPast, Working
  <1>2. OnlyLiveRowsUsed' /\ PublishedVerified' /\ UnboundClock' /\ CondemnedFrozen'
    BY DEF IInv, OnlyLiveRowsUsed, PublishedVerified, UnboundClock,
           CondemnedFrozen, Live, Bound, RetentionOver, Expired
  <1>3. HolderOwnsRow'
    BY DEF IInv, HolderOwnsRow, Holding
  <1>4. QED
    BY <1>1, <1>2, <1>3 DEF IInv

\* Where the shared control steps lead.
LEMMA ControlTargets ==
    ASSUME TypeOK, NEW w \in Worker
    PROVE  /\ \A t : NextCandidate(w, t) =>
                /\ \A v \in Worker \ {w} : worker'[v] = worker[v]
                /\ worker'[w].pc \in {"idle", "list"}
                /\ worker'[w].now \in {0, worker[w].now}
           /\ \A pc : Goto(w, pc) =>
                /\ \A v \in Worker \ {w} : worker'[v] = worker[v]
                /\ worker'[w] = [worker[w] EXCEPT !.pc = pc]
                /\ worker'[w].pc = pc
                /\ worker'[w].now = worker[w].now
                /\ worker'[w].job = worker[w].job
           /\ \A a, p : TakeUp(w, a, p) =>
                /\ \A v \in Worker \ {w} : worker'[v] = worker[v]
                /\ worker'[w].pc = "claimed"
                /\ worker'[w].now = worker[w].now
                /\ worker'[w].job = a
           /\ Abandon(w) =>
                /\ \A v \in Worker \ {w} : worker'[v] = worker[v]
                /\ worker'[w].pc \in {"idle", "list", "release"}
                /\ worker'[w].now \in {0, worker[w].now}
                /\ worker'[w].pc = "release" => worker'[w].job = worker[w].job
  <1>1. /\ worker \in [Worker -> WorkerState]
        /\ worker[w] \in WorkerState
    BY DEF TypeOK
  <1>2. ASSUME NEW t, NextCandidate(w, t)
        PROVE  /\ \A v \in Worker \ {w} : worker'[v] = worker[v]
               /\ worker'[w].pc \in {"idle", "list"}
               /\ worker'[w].now \in {0, worker[w].now}
    BY <1>1, <1>2 DEF NextCandidate, Idle, WorkerState
  <1>3. ASSUME NEW pc, Goto(w, pc)
        PROVE  /\ \A v \in Worker \ {w} : worker'[v] = worker[v]
               /\ worker'[w] = [worker[w] EXCEPT !.pc = pc]
               /\ worker'[w].pc = pc
               /\ worker'[w].now = worker[w].now
               /\ worker'[w].job = worker[w].job
    BY <1>1, <1>3 DEF Goto, WorkerState
  <1>4. ASSUME NEW a, NEW p, TakeUp(w, a, p)
        PROVE  /\ \A v \in Worker \ {w} : worker'[v] = worker[v]
               /\ worker'[w].pc = "claimed"
               /\ worker'[w].now = worker[w].now
               /\ worker'[w].job = a
    BY <1>1, <1>4 DEF TakeUp, WorkerState
  <1>5. QED
    BY <1>2, <1>3, <1>4 DEF Abandon

\* The reads a step on row a makes of the row before and after it.
LEMMA RowReads ==
    ASSUME TypeOK, NEW a \in Asset, NEW r, asset' = [asset EXCEPT ![a] = r]
    PROVE  /\ asset'[a] = r
           /\ \A b \in Asset \ {a} : asset'[b] = asset[b]
  BY DEF TypeOK

LEMMA ClaimReads ==
    ASSUME NEW r \in Row, NEW w, NEW t
    PROVE  /\ Claimed(r, w, t).token = w
           /\ Claimed(r, w, t).claimedAt = t
           /\ Claimed(r, w, t).status = r.status
           /\ Claimed(r, w, t).verified = r.verified
           /\ Claimed(r, w, t).blocked = r.blocked
           /\ Claimed(r, w, t).deleting = r.deleting
           /\ Claimed(r, w, t).unboundSince = r.unboundSince
           /\ Claimed(r, w, t).expires = r.expires
  BY DEF Claimed, Row

LEMMA RequestsKeepInv ==
    ASSUME IInv, TypeOK', StoreOp PROVE IInv'
  <1>t. /\ TypeOK
        /\ \A b \in Asset : asset[b] \in Row
        /\ clock \in Nat
    BY DEF IInv, TypeOK
  <1>b. ASSUME UNCHANGED bindings, NEW b \in Asset
        PROVE  Bound(b)' = Bound(b)
    BY <1>b DEF Bound
  <1>n. clock # NoTime
    BY <1>t DEF NoTime
  <1>u. ASSUME NEW a \in Asset
        PROVE  /\ asset[a].unboundSince # NoTime
                    <=> asset[a].status = "complete" /\ ~Bound(a)
               /\ asset[a].status = "complete" => asset[a].verified
               /\ Live(a) <=> asset[a].status \in {"pending", "complete"}
               /\ ~Live(a) => ~Bound(a) /\ ~asset[a].deleting
               /\ asset[a].deleting => Live(a) /\ ~Bound(a)
    BY DEF IInv, UnboundClock, PublishedVerified, Live, OnlyLiveRowsUsed, CondemnedFrozen
  <1>1. ASSUME NEW a \in Asset, CreateAsset(a) PROVE IInv'
    <2>1. asset'[a] = [NoRow("pending") EXCEPT !.expires = clock + Lease]
      BY <1>t, <1>1, RowReads DEF CreateAsset, SetRow
    <2>2. /\ ~asset'[a].deleting /\ asset'[a].status = "pending"
          /\ asset'[a].unboundSince = NoTime
      BY <2>1 DEF NoRow
    <2>3. QED
      BY <1>t, <1>b, <1>u, <1>1, <2>2, RowReads, OneRowStep
         DEF CreateAsset, SetRow
  <1>2. ASSUME NEW a \in Asset, SetUploadExpiry(a) PROVE IInv'
    <2>1. asset'[a] = [Unclaimed(asset[a]) EXCEPT !.expires = clock + Lease]
      BY <1>t, <1>2, RowReads DEF SetUploadExpiry, SetRow
    <2>2. /\ asset'[a].status = asset[a].status
          /\ asset'[a].unboundSince = asset[a].unboundSince
          /\ asset'[a].deleting = asset[a].deleting
          /\ asset[a].verified => asset'[a].verified
      BY <1>t, <2>1, ClaimTypes, ClaimReads DEF Unclaimed, Row
    <2>3. QED
      BY <1>t, <1>b, <1>u, <1>2, <2>2, RowReads, OneRowStep
         DEF SetUploadExpiry, SetRow, Mutable
  <1>11. ASSUME NEW a \in Asset, MarkHashVerified(a) PROVE IInv'
    <2>1. asset'[a] = [Unclaimed(asset[a]) EXCEPT !.verified = TRUE]
      BY <1>t, <1>11, RowReads DEF MarkHashVerified, SetRow
    <2>2. /\ asset'[a].status = asset[a].status
          /\ asset'[a].unboundSince = asset[a].unboundSince
          /\ asset'[a].deleting = asset[a].deleting
          /\ asset[a].verified => asset'[a].verified
      BY <1>t, <2>1, ClaimTypes, ClaimReads DEF Unclaimed, Row
    <2>3. QED
      BY <1>t, <1>b, <1>u, <1>11, <2>2, RowReads, OneRowStep
         DEF MarkHashVerified, SetRow, Mutable
  <1>3. ASSUME NEW a \in Asset, MarkHashMismatch(a) PROVE IInv'
    <2> DEFINE r == [[Unclaimed(asset[a]) EXCEPT !.verified = FALSE]
                       EXCEPT !.status = "pending"]
    <2>0. r \in Row
      BY <1>t, ClaimTypes, RowFields DEF Status
    <2>p. r.status = "pending"
      BY <1>t, ClaimTypes DEF Row
    <2>1. asset'[a] = [r EXCEPT !.unboundSince = NoTime]
      <3>1. asset'[a] = StatusTrigger(r, asset[a], Bound(a))
        BY <1>t, <1>3, RowReads DEF MarkHashMismatch, SetRow
      <3>2. QED
        BY <2>p, <3>1 DEF StatusTrigger
    <2>2. r.deleting = asset[a].deleting
      BY <1>t, ClaimTypes, ClaimReads DEF Unclaimed, Row
    <2>3. /\ asset'[a].status = "pending"
          /\ asset'[a].unboundSince = NoTime
          /\ asset'[a].deleting = asset[a].deleting
      BY <2>0, <2>1, <2>2, <2>p DEF Row
    <2>4. QED
      <3>1. /\ ~asset[a].deleting
            /\ UNCHANGED <<bindings, worker, clock>>
            /\ \A b \in Asset \ {a} : asset'[b] = asset[b]
        BY <1>t, <1>3, RowReads DEF MarkHashMismatch, SetRow, Mutable
      <3>2. QED
        BY <1>t, <1>b, <2>3, <3>1, OneRowStep
  <1>4. ASSUME NEW a \in Asset, CompleteAsset(a) PROVE IInv'
    <2>1. /\ asset'[a].status = "complete"
          /\ asset'[a].verified
          /\ ~asset'[a].deleting
          /\ asset'[a].unboundSince =
               IF asset[a].status = "complete" THEN asset[a].unboundSince
               ELSE IF Bound(a) THEN NoTime ELSE clock
      BY <1>t, <1>4 DEF CompleteAsset, SetRow, Mutable, StatusTrigger,
                        Unclaimed, Claimed, Row, TypeOK
    <2>2. QED
      BY <1>t, <1>b, <1>n, <1>u, <1>4, <2>1, RowReads, OneRowStep
         DEF CompleteAsset, SetRow, Mutable
  <1>5. ASSUME NEW a \in Asset, SetBlocked(a) PROVE IInv'
    <2>1. /\ asset'[a].status = asset[a].status
          /\ asset'[a].unboundSince = asset[a].unboundSince
          /\ ~asset'[a].deleting
          /\ asset'[a].verified = asset[a].verified
      BY <1>t, <1>5 DEF SetBlocked, SetRow, Mutable, Row, TypeOK
    <2>2. QED
      BY <1>t, <1>b, <1>u, <1>5, <2>1, RowReads, OneRowStep
         DEF SetBlocked, SetRow, Mutable
  <1>6. ASSUME NEW a \in Asset, ClearBlocked(a) PROVE IInv'
    <2>1. /\ \A b \in Asset :
               /\ asset'[b].status = asset[b].status
               /\ asset'[b].unboundSince = asset[b].unboundSince
               /\ asset'[b].deleting = asset[b].deleting
               /\ asset'[b].verified = asset[b].verified
               /\ asset'[b].expires = asset[b].expires
               /\ asset'[b].token = asset[b].token
               /\ (asset'[b].blocked => asset[b].blocked)
          /\ UNCHANGED <<bindings, worker, clock>>
      BY <1>t, <1>6 DEF ClearBlocked, SetRow, Row, TypeOK
    <2>2. ASSUME NEW b \in Asset
          PROVE  /\ Bound(b)' <=> Bound(b)
                 /\ Live(b)' <=> Live(b)
                 /\ RetentionOver(b, clock)' <=> RetentionOver(b, clock)
                 /\ Expired(b, clock)' <=> Expired(b, clock)
      BY <2>1 DEF Bound, Live, RetentionOver, Expired
    <2>3. OnlyLiveRowsUsed'
      BY <2>1, <2>2 DEF IInv, OnlyLiveRowsUsed
    <2>4. UnboundClock' /\ PublishedVerified'
      BY <2>1, <2>2, <1>u DEF UnboundClock, PublishedVerified
    <2>5. CondemnedFrozen'
      BY <2>1, <2>2 DEF IInv, CondemnedFrozen
    <2>6. JobInHand' /\ RunInPast'
      BY <2>1 DEF IInv, JobInHand, RunInPast, Working
    <2>7. HolderOwnsRow'
      BY <2>1 DEF IInv, JobInHand, HolderOwnsRow, Working, Holding
    <2>8. QED
      BY <2>3, <2>4, <2>5, <2>6, <2>7 DEF IInv
  <1>7. ASSUME NEW a \in Asset, NEW e \in Entity, Bind(a, e) PROVE IInv'
    <2>1. /\ asset'[a].status = asset[a].status
          /\ asset'[a].unboundSince = NoTime
          /\ ~asset'[a].deleting
          /\ asset'[a].verified = asset[a].verified
      BY <1>t, <1>7 DEF Bind, Mutable, Unclaimed, Claimed, Row, TypeOK
    <2>2. /\ Bound(a)'
          /\ \A b \in Asset \ {a} : Bound(b)' = Bound(b)
      BY <1>7 DEF Bind, Bound
    <2>3. QED
      BY <1>t, <1>u, <1>7, <2>1, <2>2, RowReads, OneRowStep DEF Bind, Mutable
  <1>8. ASSUME NEW a \in Asset, NEW e \in Entity, Unbind(a, e) PROVE IInv'
    <2>1. Bound(a) /\ asset[a].unboundSince = NoTime /\ ~asset[a].deleting /\ Live(a)
      BY <1>u, <1>8 DEF Unbind, Bound
    <2>2. Bound(a)' <=> ~ \A f \in Entity \ {e} : <<a, f>> \notin bindings
      BY <1>8 DEF Unbind, Bound
    <2>3. \A b \in Asset \ {a} : Bound(b)' = Bound(b)
      BY <1>8 DEF Unbind, Bound
    <2>4. /\ asset'[a].status = asset[a].status
          /\ asset'[a].deleting = asset[a].deleting
          /\ asset'[a].verified = asset[a].verified
          /\ asset'[a].unboundSince =
               IF asset[a].status = "complete" /\ ~Bound(a)' THEN clock ELSE NoTime
      BY <1>t, <1>8, <2>1, <2>2 DEF Unbind, Row, TypeOK
    <2>5. \A b \in Asset \ {a} : asset'[b] = asset[b]
      BY <1>t, <1>8 DEF Unbind, TypeOK
    <2>6. QED
      BY <1>n, <1>u, <1>8, <2>1, <2>3, <2>4, <2>5, OneRowStep DEF Unbind
  <1>9. ASSUME NEW k \in Key, NEW c \in Content, PutObject(k, c) PROVE IInv'
    <2>1. UNCHANGED <<asset, bindings, worker, clock>>
      BY <1>9 DEF PutObject
    <2>2. QED
      BY <2>1 DEF IInv, OnlyLiveRowsUsed, UnboundClock, PublishedVerified,
             CondemnedFrozen, Live, Bound, RetentionOver, Expired,
             JobInHand, RunInPast, HolderOwnsRow, Working, Holding
  <1>10. QED
    BY <1>1, <1>2, <1>3, <1>4, <1>5, <1>6, <1>7, <1>8, <1>9, <1>11 DEF StoreOp

\* A step of worker w that changes at most the claim on row a.
LEMMA ClaimStep ==
    ASSUME IInv, TypeOK', NEW w \in Worker, NEW a \in Asset, NEW x, NEW t,
           RowFree(a),
           asset' = [asset EXCEPT ![a] = Claimed(@, x, t)],
           UNCHANGED <<bindings, clock>>,
           \A v \in Worker \ {w} : worker'[v] = worker[v],
           worker'[w].now <= clock,
           Working(w)' => worker'[w].job \in Asset,
           ~Holding(w)'
    PROVE  IInv'
  <1>1. /\ \A b \in Asset :
             /\ asset'[b].status = asset[b].status
             /\ asset'[b].unboundSince = asset[b].unboundSince
             /\ asset'[b].deleting = asset[b].deleting
             /\ asset'[b].verified = asset[b].verified
             /\ asset'[b].expires = asset[b].expires
             /\ asset'[b].blocked = asset[b].blocked
        /\ \A b \in Asset \ {a} : asset'[b] = asset[b]
    <2>1. \A b \in Asset : asset[b] \in Row
      BY DEF IInv, TypeOK
    <2>2. TypeOK
      BY DEF IInv
    <2>3. /\ asset'[a] = Claimed(asset[a], x, t)
          /\ \A b \in Asset \ {a} : asset'[b] = asset[b]
      BY <2>2, RowReads
    <2>4. QED
      BY <2>1, <2>3, ClaimReads
  <1>2. \A b \in Asset : Bound(b)' <=> Bound(b)
    BY DEF Bound
  <1>3. JobInHand' /\ RunInPast'
    BY DEF IInv, JobInHand, RunInPast, Working
  <1>4. OnlyLiveRowsUsed' /\ UnboundClock' /\ PublishedVerified'
    BY <1>1, <1>2
       DEF IInv, OnlyLiveRowsUsed, UnboundClock, PublishedVerified, Live
  <1>5. CondemnedFrozen'
    BY <1>1, <1>2 DEF IInv, CondemnedFrozen, Live, RetentionOver, Expired
  <1>6. HolderOwnsRow'
    BY <1>1 DEF IInv, JobInHand, Working, HolderOwnsRow, Holding, RowFree
  <1>7. QED
    BY <1>3, <1>4, <1>5, <1>6 DEF IInv

LEMMA WorkerFacts ==
    ASSUME IInv, NEW w \in Worker
    PROVE  /\ TypeOK
           /\ clock \in Nat
           /\ worker[w] \in WorkerState
           /\ worker[w].now \in Nat
           /\ worker[w].now <= clock
           /\ 0 <= clock
           /\ Working(w) => worker[w].job \in Asset
  BY DEF IInv, TypeOK, WorkerState, RunInPast, JobInHand

LEMMA MarkKeepsInv ==
    ASSUME IInv, TypeOK', NEW w \in Worker, MarkDeleting(w) PROVE IInv'
  <1> DEFINE a == worker[w].job
  <1>0. a \in Asset
    BY DEF MarkDeleting, IInv, JobInHand, Working
  <1>f. /\ TypeOK /\ clock \in Nat /\ worker[w].now \in Nat
        /\ worker[w].now <= clock /\ 0 <= clock
        /\ asset[a] \in Row
    BY <1>0, WorkerFacts DEF TypeOK
  <1>1. CASE Abandon(w) /\ UNCHANGED asset
    BY <1>0, <1>1, <1>f, ControlTargets, ControlStep
       DEF MarkDeleting, Holding, Working
  <1>2. CASE /\ Eligible(w, a)
             /\ asset' = [asset EXCEPT ![a] =
                             [Claimed(@, w, clock) EXCEPT !.deleting = TRUE]]
             /\ Goto(w, "marked")
    <2>1. /\ asset'[a].status = asset[a].status
          /\ asset'[a].unboundSince = asset[a].unboundSince
          /\ asset'[a].verified = asset[a].verified
          /\ asset'[a].expires = asset[a].expires
          /\ asset'[a].blocked = asset[a].blocked
          /\ \A b \in Asset \ {a} : asset'[b] = asset[b]
      <3>1. /\ asset'[a] = [Claimed(asset[a], w, clock) EXCEPT !.deleting = TRUE]
            /\ \A b \in Asset \ {a} : asset'[b] = asset[b]
        BY <1>0, <1>2, <1>f, RowReads
      <3>2. Claimed(asset[a], w, clock) \in Row
        BY <1>f, ClaimTypes DEF Time
      <3>3. QED
        BY <1>f, <3>1, <3>2, ClaimReads DEF Row
    <2>2. /\ UNCHANGED <<bindings, clock>>
          /\ \A b \in Asset : Bound(b)' <=> Bound(b)
          /\ RowFree(a)
      BY DEF MarkDeleting, Bound
    <2>3. /\ \A v \in Worker \ {w} : worker'[v] = worker[v]
          /\ worker'[w].pc = "marked"
          /\ worker'[w].now = worker[w].now
          /\ worker'[w].job = a
      BY <1>2, <1>f, ControlTargets
    <2>4. JobInHand' /\ RunInPast'
      BY <1>0, <1>f, <2>2, <2>3 DEF IInv, JobInHand, RunInPast, Working
    <2>5. /\ ~Bound(a) /\ ~asset[a].blocked /\ Live(a)
          /\ IF asset[a].status = "complete" THEN RetentionOver(a, clock)
                                             ELSE Expired(a, clock)
      BY <1>2, <1>f, TimeAssumption
         DEF Eligible, Live, RetentionOver, Expired, WorkerState, Path, TypeOK,
             Row, Time, NoTime
    <2>6. OnlyLiveRowsUsed' /\ UnboundClock' /\ PublishedVerified'
      BY <2>1, <2>2, <2>5
         DEF IInv, OnlyLiveRowsUsed, UnboundClock, PublishedVerified, Live
    <2>7. CondemnedFrozen'
      BY <2>1, <2>2, <2>5 DEF IInv, CondemnedFrozen, Live, RetentionOver, Expired
    <2>8. HolderOwnsRow'
      BY <2>1, <2>2, <2>3 DEF IInv, JobInHand, Working, HolderOwnsRow, Holding, RowFree
    <2>9. QED
      BY <2>4, <2>6, <2>7, <2>8 DEF IInv
  <1>3. QED
    BY <1>1, <1>2 DEF MarkDeleting

LEMMA CommitKeepsInv ==
    ASSUME IInv, TypeOK', NEW w \in Worker, CommitDelete(w) PROVE IInv'
  <1> DEFINE a == worker[w].job
  <1>0. a \in Asset /\ Holding(w)
    BY DEF CommitDelete, IInv, JobInHand, Working, Holding
  <1>f. /\ TypeOK /\ worker[w].now <= clock /\ 0 <= clock
    BY WorkerFacts
  <1>1. /\ asset'[a] = NoRow("gone")
        /\ \A b \in Asset \ {a} : asset'[b] = asset[b]
    BY <1>0, <1>f DEF CommitDelete, IInv, HolderOwnsRow, TypeOK
  <1>2. /\ asset'[a].status = "gone" /\ ~asset'[a].deleting /\ ~asset'[a].blocked
        /\ asset'[a].unboundSince = NoTime
    BY <1>1 DEF NoRow
  <1>3. /\ UNCHANGED <<bindings, clock>>
        /\ \A b \in Asset : Bound(b)' <=> Bound(b)
        /\ ~Bound(a)
    BY <1>0 DEF CommitDelete, Bound, IInv, HolderOwnsRow, CondemnedFrozen
  <1>4. /\ \A v \in Worker \ {w} : worker'[v] = worker[v]
        /\ worker'[w].pc \in {"idle", "list"}
        /\ worker'[w].now <= clock
    BY <1>f, ControlTargets DEF CommitDelete
  <1>5. JobInHand' /\ RunInPast'
    BY <1>3, <1>4 DEF IInv, JobInHand, RunInPast, Working
  <1>6. OnlyLiveRowsUsed' /\ UnboundClock' /\ PublishedVerified'
    BY <1>1, <1>2, <1>3
       DEF IInv, OnlyLiveRowsUsed, UnboundClock, PublishedVerified, Live
  <1>7. CondemnedFrozen'
    BY <1>1, <1>2, <1>3 DEF IInv, CondemnedFrozen, Live, RetentionOver, Expired
  <1>8. HolderOwnsRow'
    BY <1>0, <1>1, <1>4 DEF IInv, JobInHand, Working, HolderOwnsRow, Holding
  <1>9. QED
    BY <1>5, <1>6, <1>7, <1>8 DEF IInv

LEMMA InvStep == IInv /\ [Next]_vars => IInv'
  <1> SUFFICES ASSUME IInv, [Next]_vars PROVE IInv'
    OBVIOUS
  <1>t. TypeOK /\ TypeOK'
    BY TypeStep DEF IInv
  <1>f. clock \in Nat
    BY <1>t DEF TypeOK
  <1>1. CASE StoreOp
    BY <1>t, <1>1, RequestsKeepInv
  <1>2. ASSUME NEW w \in Worker, StartRun(w) PROVE IInv'
    <2>1. /\ \A v \in Worker \ {w} : worker'[v] = worker[v]
          /\ worker'[w].pc = "list"
          /\ worker'[w].now = clock
      BY <1>t, <1>2 DEF StartRun, TypeOK, WorkerState
    <2>2. /\ UNCHANGED <<asset, bindings, clock>>
          /\ worker'[w].now <= clock
          /\ Working(w)' => worker'[w].job \in Asset
          /\ Holding(w)' => Holding(w) /\ worker'[w].job = worker[w].job
      BY <1>f, <1>2, <2>1 DEF StartRun, Holding, Working
    <2>3. QED
      BY <1>t, <2>1, <2>2, ControlStep
  <1>3. ASSUME NEW w \in Worker, NEW a \in Asset, TryClaim(w, a) PROVE IInv'
    <2>1. CASE /\ asset' = [asset EXCEPT ![a] = Claimed(@, w, worker[w].now)]
               /\ TakeUp(w, a, "pending")
      <3>1. /\ UNCHANGED <<bindings, clock>> /\ RowFree(a)
            /\ worker[w].now <= clock
        BY <1>3, WorkerFacts DEF TryClaim
      <3>2. /\ \A v \in Worker \ {w} : worker'[v] = worker[v]
            /\ worker'[w].pc = "claimed"
            /\ worker'[w].now = worker[w].now
            /\ worker'[w].job = a
        BY <1>t, <2>1, ControlTargets
      <3>3. /\ worker'[w].now <= clock
            /\ Working(w)' => worker'[w].job \in Asset
            /\ ~Holding(w)'
        BY <3>1, <3>2 DEF Holding
      <3>4. QED
        BY <1>t, <2>1, <3>1, <3>2, <3>3, ClaimStep
    <2>2. CASE /\ NextCandidate(w, worker[w].todo \ {<<a, "pending">>})
               /\ UNCHANGED asset
      BY <1>t, <1>3, <2>2, WorkerFacts, ControlTargets, ControlStep
         DEF TryClaim, Holding, Working
    <2>3. QED
      BY <1>3, <2>1, <2>2 DEF TryClaim
  <1>4. ASSUME NEW w \in Worker, NEW a \in Asset, TakeUnbound(w, a) PROVE IInv'
    BY <1>t, <1>4, WorkerFacts, ControlTargets, ControlStep DEF TakeUnbound, Holding
  <1>5. ASSUME NEW w \in Worker, MarkDeleting(w) PROVE IInv'
    BY <1>t, <1>5, MarkKeepsInv
  <1>6. ASSUME NEW w \in Worker, LockForRemoval(w) PROVE IInv'
    <2>1. CASE Abandon(w)
      BY <1>t, <1>6, <2>1, WorkerFacts, ControlTargets, ControlStep
         DEF LockForRemoval, Holding, Working
    <2>2. CASE /\ asset[worker[w].job].deleting
               /\ asset[worker[w].job].token = w
               /\ Goto(w, "locked")
      <3>1. /\ UNCHANGED <<asset, bindings, clock>>
            /\ worker[w].job \in Asset
            /\ KeyFree(KeyOf[worker[w].job])
        BY <1>6 DEF LockForRemoval, IInv, JobInHand, Working
      <3>2. /\ \A v \in Worker \ {w} : worker'[v] = worker[v]
            /\ worker'[w].pc = "locked"
            /\ worker'[w].now = worker[w].now
            /\ worker'[w].job = worker[w].job
        BY <1>t, <2>2, ControlTargets
      <3>3. JobInHand' /\ RunInPast'
        BY <3>1, <3>2 DEF IInv, JobInHand, RunInPast, Working
      <3>4. OnlyLiveRowsUsed' /\ PublishedVerified' /\ UnboundClock' /\ CondemnedFrozen'
        BY <3>1 DEF IInv, OnlyLiveRowsUsed, PublishedVerified, UnboundClock,
                    CondemnedFrozen, Live, Bound, RetentionOver, Expired
      <3>5. HolderOwnsRow'
        BY <2>2, <3>1, <3>2 DEF IInv, HolderOwnsRow, Holding, KeyFree
      <3>6. QED
        BY <1>t, <3>3, <3>4, <3>5 DEF IInv
    <2>3. QED
      BY <1>6, <2>1, <2>2 DEF LockForRemoval
  <1>7. ASSUME NEW w \in Worker, RemoveObject(w) PROVE IInv'
    BY <1>t, <1>7, WorkerFacts, ControlTargets, ControlStep
       DEF RemoveObject, Holding, Working
  <1>8. ASSUME NEW w \in Worker, CommitDelete(w) PROVE IInv'
    BY <1>t, <1>8, CommitKeepsInv
  <1>9. ASSUME NEW w \in Worker, Release(w) PROVE IInv'
    <2> DEFINE a == worker[w].job
    <2>1. a \in Asset
      BY <1>9 DEF Release, IInv, JobInHand, Working
    <2>2. /\ \A v \in Worker \ {w} : worker'[v] = worker[v]
          /\ worker'[w].now <= clock
          /\ ~Holding(w)' /\ ~Working(w)'
      BY <1>t, <1>9, WorkerFacts, ControlTargets DEF Release, Holding, Working
    <2>3. CASE asset[a].token = w
      BY <1>t, <1>9, <2>1, <2>2, <2>3, ClaimStep DEF Release, Unclaimed
    <2>4. CASE asset[a].token # w
      <3>1. asset' = asset
        BY <1>t, <1>9, <2>4 DEF Release, TypeOK
      <3>2. QED
        BY <1>t, <1>9, <2>2, <3>1, ControlStep DEF Release
    <2>5. QED
      BY <2>3, <2>4
  <1>10. ASSUME NEW w \in Worker, Fail(w) \/ LoseRelease(w) PROVE IInv'
    BY <1>t, <1>10, WorkerFacts, ControlTargets, ControlStep
       DEF Fail, LoseRelease, Holding, Working
  <1>11. ASSUME NEW w \in Worker, Crash(w) PROVE IInv'
    <2>1. /\ \A v \in Worker \ {w} : worker'[v] = worker[v]
          /\ worker'[w] = Idle
      BY <1>t, <1>11 DEF Crash, TypeOK
    <2>2. /\ UNCHANGED <<asset, bindings, clock>>
          /\ worker'[w].now <= clock
          /\ Working(w)' => worker'[w].job \in Asset
          /\ Holding(w)' => Holding(w) /\ worker'[w].job = worker[w].job
      BY <1>f, <1>11, <2>1 DEF Crash, Holding, Working, Idle
    <2>3. QED
      BY <1>t, <2>1, <2>2, ControlStep
  <1>12. ASSUME NEW w \in Worker, NEW a \in Asset, FailClaim(w, a) PROVE IInv'
    <2>1. CASE asset' = [asset EXCEPT ![a] = Claimed(@, w, worker[w].now)]
      <3>1. /\ UNCHANGED <<bindings, clock>> /\ RowFree(a)
            /\ worker[w].now <= clock /\ 0 <= clock
        BY <1>12, WorkerFacts DEF FailClaim
      <3>2. /\ \A v \in Worker \ {w} : worker'[v] = worker[v]
            /\ worker'[w].pc \in {"idle", "list"}
            /\ worker'[w].now \in {0, worker[w].now}
        BY <1>t, <1>12, ControlTargets DEF FailClaim
      <3>3. /\ worker'[w].now <= clock
            /\ Working(w)' => worker'[w].job \in Asset
            /\ ~Holding(w)'
        BY <3>1, <3>2 DEF Holding, Working
      <3>4. QED
        BY <1>t, <2>1, <3>1, <3>2, <3>3, ClaimStep
    <2>2. CASE UNCHANGED asset
      BY <1>t, <1>12, <2>2, WorkerFacts, ControlTargets, ControlStep
         DEF FailClaim, Holding, Working
    <2>3. QED
      BY <1>12, <2>1, <2>2 DEF FailClaim
  <1>13. CASE Tick
    <2>1. /\ UNCHANGED <<asset, bindings, worker>>
          /\ clock' = clock + 1
      BY <1>13 DEF Tick
    <2>2. JobInHand' /\ HolderOwnsRow' /\ PublishedVerified'
      BY <2>1 DEF IInv, JobInHand, HolderOwnsRow, PublishedVerified, Working, Holding
    <2>3. RunInPast'
      BY <1>t, <1>f, <2>1 DEF IInv, RunInPast, TypeOK, WorkerState
    <2>4. OnlyLiveRowsUsed' /\ UnboundClock'
      BY <2>1 DEF IInv, OnlyLiveRowsUsed, UnboundClock, Live, Bound
    <2>5. CondemnedFrozen'
      BY <1>t, <1>f, <2>1, TimeAssumption
         DEF IInv, CondemnedFrozen, Live, Bound, RetentionOver, Expired,
             TypeOK, Row, Time, NoTime
    <2>6. QED
      BY <1>t, <2>2, <2>3, <2>4, <2>5 DEF IInv
  <1>14. CASE UNCHANGED vars
    BY <1>t, <1>14
       DEF vars, IInv, OnlyLiveRowsUsed, UnboundClock, PublishedVerified,
           CondemnedFrozen, Live, Bound, RetentionOver, Expired,
           JobInHand, RunInPast, HolderOwnsRow, Working, Holding
  <1>15. QED
    BY <1>1, <1>2, <1>3, <1>4, <1>5, <1>6, <1>7, <1>8, <1>9, <1>10, <1>11,
       <1>12, <1>13, <1>14
    DEF Next, WorkerStep, Fault

\* The strengthened invariant holds in every reachable state.
THEOREM InvCorrect == Spec => []IInv
  BY InvInit, InvStep, PTL DEF Spec

-----------------------------------------------------------------------------
(* The safety invariants *)

\* The retention clock runs for exactly the complete unbound rows.
THEOREM UnboundClockCorrect == Spec => []UnboundClock
  BY InvCorrect, PTL DEF IInv

\* A row registered for deletion is out of use and stays so.
THEOREM CondemnedFrozenCorrect == Spec => []CondemnedFrozen
  BY InvCorrect, PTL DEF IInv

\* Only the holder of the current token touches bytes, alone on its key.
THEOREM HolderOwnsRowCorrect == Spec => []HolderOwnsRow
  BY InvCorrect, PTL DEF IInv

\* What is published was verified.
THEOREM PublishedVerifiedCorrect == Spec => []PublishedVerified
  BY InvCorrect, PTL DEF IInv

-----------------------------------------------------------------------------
(* What one step does to the use of the rows *)

\* Nothing about the use of row b changes.
Keeps(b) == /\ asset'[b].status = asset[b].status
            /\ asset'[b].deleting = asset[b].deleting
            /\ asset'[b].blocked = asset[b].blocked
            /\ (Bound(b)' <=> Bound(b))

OnlyRow(a) == \A b \in Asset \ {a} : Keeps(b)

SameHold(a) == asset'[a].blocked = asset[a].blocked /\ (Bound(a)' <=> Bound(a))

ToOpen(a) == /\ asset[a].status \in {"unborn", "pending", "complete"}
             /\ ~asset[a].deleting /\ ~asset'[a].deleting
             /\ asset'[a].status = "pending"
             /\ SameHold(a)

ToPublished(a) == /\ Live(a)
                  /\ ~asset[a].deleting /\ ~asset'[a].deleting
                  /\ asset'[a].status = "complete"
                  /\ SameHold(a)

ChangesHold(a) == /\ Live(a)
                  /\ ~asset[a].deleting /\ ~asset'[a].deleting
                  /\ asset'[a].status = asset[a].status

ToCondemned(a) == /\ Live(a)
                  /\ ~Bound(a) /\ ~asset[a].blocked
                  /\ asset'[a].deleting
                  /\ asset'[a].status = asset[a].status
                  /\ SameHold(a)

ToGone(a) == /\ asset[a].deleting
             /\ ~Bound(a) /\ ~asset[a].blocked
             /\ ~asset'[a].deleting
             /\ asset'[a].status = "gone"
             /\ SameHold(a)

RowMove(a) == ToOpen(a) \/ ToPublished(a) \/ ChangesHold(a)
                        \/ ToCondemned(a) \/ ToGone(a)

LEMMA StepShape ==
    ASSUME IInv, [Next]_vars
    PROVE  \/ \A b \in Asset : Keeps(b)
           \/ \E a \in Asset : OnlyRow(a) /\ RowMove(a)
  <1> DEFINE Goal == \/ \A b \in Asset : Keeps(b)
                     \/ \E a \in Asset : OnlyRow(a) /\ RowMove(a)
  <1>t. /\ TypeOK
        /\ \A b \in Asset : asset[b] \in Row
    BY DEF IInv, TypeOK
  <1>b. ASSUME UNCHANGED bindings, NEW b \in Asset
        PROVE  Bound(b)' <=> Bound(b)
    BY <1>b DEF Bound
  <1>k. ASSUME UNCHANGED <<asset, bindings>> PROVE Goal
    BY <1>k, <1>b DEF Keeps
  <1>1. ASSUME NEW a \in Asset, NEW r, SetRow(a, r),
               r.status = asset[a].status,
               r.deleting = asset[a].deleting,
               r.blocked = asset[a].blocked
        PROVE  Goal
    BY <1>t, <1>b, <1>1, RowReads DEF SetRow, Keeps
  <1>2. ASSUME NEW a \in Asset, NEW r, SetRow(a, r), RowMove(a) PROVE Goal
    BY <1>t, <1>b, <1>2, RowReads DEF SetRow, Keeps, OnlyRow
  <1>3. ASSUME NEW a \in Asset, NEW r, SetRow(a, r)
        PROVE  asset'[a] = r /\ (Bound(a)' <=> Bound(a))
    BY <1>t, <1>b, <1>3, RowReads DEF SetRow
  <1>4. ASSUME NEW a \in Asset, CreateAsset(a) PROVE Goal
    <2>1. /\ SetRow(a, [NoRow("pending") EXCEPT !.expires = clock + Lease])
          /\ asset[a].status = "unborn"
      BY <1>4 DEF CreateAsset
    <2>2. ~asset[a].deleting /\ ~asset[a].blocked
      BY <2>1 DEF IInv, OnlyLiveRowsUsed, Live
    <2> DEFINE r == [NoRow("pending") EXCEPT !.expires = clock + Lease]
    <2>3. r.status = "pending" /\ r.deleting = FALSE /\ r.blocked = FALSE
      BY DEF NoRow
    <2>4. asset'[a] = r /\ (Bound(a)' <=> Bound(a))
      BY <1>3, <2>1
    <2>5. asset[a].blocked = FALSE
      BY <1>t, <2>2 DEF Row
    <2>6. ToOpen(a)
      BY <2>1, <2>2, <2>3, <2>4, <2>5 DEF ToOpen, SameHold
    <2>7. QED
      BY <1>2, <2>1, <2>6 DEF RowMove
  <1>5. ASSUME NEW a \in Asset, SetUploadExpiry(a) PROVE Goal
    <2> DEFINE r == [Unclaimed(asset[a]) EXCEPT !.expires = clock + Lease]
    <2>1. /\ r.status = asset[a].status
          /\ r.deleting = asset[a].deleting
          /\ r.blocked = asset[a].blocked
      BY <1>t, ClaimTypes, ClaimReads DEF Unclaimed, Row
    <2>2. QED
      BY <1>1, <1>5, <2>1 DEF SetUploadExpiry
  <1>6. ASSUME NEW a \in Asset, MarkHashVerified(a) PROVE Goal
    <2> DEFINE r == [Unclaimed(asset[a]) EXCEPT !.verified = TRUE]
    <2>1. /\ r.status = asset[a].status
          /\ r.deleting = asset[a].deleting
          /\ r.blocked = asset[a].blocked
      BY <1>t, ClaimTypes, ClaimReads DEF Unclaimed, Row
    <2>2. QED
      BY <1>1, <1>6, <2>1 DEF MarkHashVerified
  <1>7. ASSUME NEW a \in Asset, MarkHashMismatch(a) PROVE Goal
    <2> DEFINE r == [[Unclaimed(asset[a]) EXCEPT !.verified = FALSE]
                       EXCEPT !.status = "pending"]
               q == StatusTrigger(r, asset[a], Bound(a))
    <2>0. /\ [Unclaimed(asset[a]) EXCEPT !.verified = FALSE] \in Row
          /\ [Unclaimed(asset[a]) EXCEPT !.verified = FALSE].deleting
               = asset[a].deleting
          /\ [Unclaimed(asset[a]) EXCEPT !.verified = FALSE].blocked
               = asset[a].blocked
      <3>1. /\ Unclaimed(asset[a]) \in Row
            /\ Unclaimed(asset[a]).deleting = asset[a].deleting
            /\ Unclaimed(asset[a]).blocked = asset[a].blocked
        BY <1>t, ClaimTypes, ClaimReads DEF Unclaimed
      <3>2. QED
        BY <3>1, RowFields DEF Row
    <2>1. /\ r \in Row
          /\ r.status = "pending"
          /\ r.deleting = asset[a].deleting
          /\ r.blocked = asset[a].blocked
      BY <2>0 DEF Row, Status
    <2>2. q = [r EXCEPT !.unboundSince = NoTime]
      BY <2>1 DEF StatusTrigger
    <2>3. /\ q.status = "pending"
          /\ q.deleting = asset[a].deleting
          /\ q.blocked = asset[a].blocked
      BY <2>1, <2>2 DEF Row
    <2>4. ToOpen(a)
      BY <1>3, <1>7, <2>3 DEF MarkHashMismatch, Mutable, Live, ToOpen, SameHold
    <2>5. QED
      BY <1>2, <1>7, <2>4 DEF MarkHashMismatch, RowMove
  <1>8. ASSUME NEW a \in Asset, CompleteAsset(a) PROVE Goal
    <2> DEFINE r == [Unclaimed(asset[a]) EXCEPT !.status = "complete"]
               q == StatusTrigger(r, asset[a], Bound(a))
    <2>1. /\ r \in Row
          /\ r.status = "complete"
          /\ r.deleting = asset[a].deleting
          /\ r.blocked = asset[a].blocked
      BY <1>t, ClaimTypes, ClaimReads DEF Unclaimed, Row, Status
    <2>2. q = r \/ \E u \in {NoTime, clock} : q = [r EXCEPT !.unboundSince = u]
      BY <2>1 DEF StatusTrigger
    <2>3. /\ q.status = "complete"
          /\ q.deleting = asset[a].deleting
          /\ q.blocked = asset[a].blocked
      BY <2>1, <2>2 DEF Row
    <2>4. ToPublished(a)
      BY <1>3, <1>8, <2>3 DEF CompleteAsset, Mutable, ToPublished, SameHold
    <2>5. QED
      BY <1>2, <1>8, <2>4 DEF CompleteAsset, RowMove
  <1>9. ASSUME NEW a \in Asset, SetBlocked(a) PROVE Goal
    <2>1. ChangesHold(a)
      BY <1>t, <1>3, <1>9 DEF SetBlocked, Mutable, ChangesHold, Row
    <2>2. QED
      BY <1>2, <1>9, <2>1 DEF SetBlocked, RowMove
  <1>10. ASSUME NEW a \in Asset, ClearBlocked(a) PROVE Goal
    <2>1. CASE asset[a].deleting
      <3>1. ~asset[a].blocked
        BY <2>1 DEF IInv, CondemnedFrozen
      <3>2. [asset[a] EXCEPT !.blocked = FALSE].blocked = asset[a].blocked
        BY <1>t, <3>1 DEF Row
      <3>3. QED
        BY <1>t, <1>1, <1>10, <3>2 DEF ClearBlocked, Row
    <2>2. CASE ~asset[a].deleting
      <3>1. ChangesHold(a)
        BY <1>t, <1>3, <1>10, <2>2 DEF ClearBlocked, ChangesHold, Row
      <3>2. QED
        BY <1>2, <1>10, <3>1 DEF ClearBlocked, RowMove
    <2>3. QED
      BY <2>1, <2>2
  <1>11. ASSUME NEW a \in Asset, NEW e \in Entity, Bind(a, e) PROVE Goal
    <2> DEFINE r == [Unclaimed(asset[a]) EXCEPT !.unboundSince = NoTime]
    <2>1. r.status = asset[a].status /\ r.deleting = asset[a].deleting
      BY <1>t, ClaimTypes, ClaimReads DEF Unclaimed, Row
    <2>2. /\ asset'[a] = r
          /\ \A b \in Asset \ {a} : asset'[b] = asset[b]
      BY <1>t, <1>11, RowReads DEF Bind
    <2>3. \A b \in Asset \ {a} : Bound(b)' <=> Bound(b)
      BY <1>11 DEF Bind, Bound
    <2>4. ChangesHold(a) /\ OnlyRow(a)
      BY <1>11, <2>1, <2>2, <2>3 DEF Bind, Mutable, ChangesHold, OnlyRow, Keeps
    <2>5. QED
      BY <2>4 DEF RowMove
  <1>12. ASSUME NEW a \in Asset, NEW e \in Entity, Unbind(a, e) PROVE Goal
    <2>1. Bound(a) /\ Live(a) /\ ~asset[a].deleting
      BY <1>12 DEF Unbind, Bound, IInv, OnlyLiveRowsUsed, CondemnedFrozen
    <2>2. /\ asset'[a].status = asset[a].status
          /\ asset'[a].deleting = asset[a].deleting
          /\ \A b \in Asset \ {a} : asset'[b] = asset[b]
      BY <1>t, <1>12 DEF Unbind, Row, TypeOK
    <2>3. \A b \in Asset \ {a} : Bound(b)' <=> Bound(b)
      BY <1>12 DEF Unbind, Bound
    <2>4. ChangesHold(a) /\ OnlyRow(a)
      BY <2>1, <2>2, <2>3 DEF ChangesHold, OnlyRow, Keeps
    <2>5. QED
      BY <2>4 DEF RowMove
  <1>13. ASSUME NEW a \in Asset, NEW x, NEW t,
                asset' = [asset EXCEPT ![a] = Claimed(@, x, t)],
                UNCHANGED bindings
         PROVE  Goal
    <2>1. /\ asset'[a] = Claimed(asset[a], x, t)
          /\ \A b \in Asset \ {a} : asset'[b] = asset[b]
      BY <1>t, <1>13, RowReads
    <2>2. QED
      BY <1>t, <1>b, <1>13, <2>1, ClaimReads DEF Keeps
  <1>14. ASSUME NEW w \in Worker, MarkDeleting(w) PROVE Goal
    <2>0. PICK a \in Asset : a = worker[w].job
      BY <1>14 DEF MarkDeleting, IInv, JobInHand, Working
    <2>1. CASE UNCHANGED asset
      BY <1>14, <1>k, <2>1 DEF MarkDeleting
    <2>2. CASE /\ Eligible(w, a)
               /\ asset' = [asset EXCEPT ![a] =
                               [Claimed(@, w, clock) EXCEPT !.deleting = TRUE]]
      <3>1. /\ asset'[a] = [Claimed(asset[a], w, clock) EXCEPT !.deleting = TRUE]
            /\ \A b \in Asset \ {a} : asset'[b] = asset[b]
        BY <1>t, <2>0, <2>2, RowReads
      <3>2. Claimed(asset[a], w, clock) \in Row
        BY <1>t, <2>0, ClaimTypes DEF TypeOK, Time
      <3>3. /\ asset'[a].status = asset[a].status
            /\ asset'[a].blocked = asset[a].blocked
            /\ asset'[a].deleting
        BY <1>t, <2>0, <3>1, <3>2, ClaimReads DEF Row
      <3>4. Live(a) /\ ~Bound(a) /\ ~asset[a].blocked
        BY <1>t, <2>2 DEF Eligible, Live, TypeOK, WorkerState, Path
      <3>5. UNCHANGED bindings
        BY <1>14 DEF MarkDeleting
      <3>6. \A b \in Asset : Bound(b)' <=> Bound(b)
        BY <1>b, <3>5
      <3>7. ToCondemned(a)
        BY <2>0, <3>3, <3>4, <3>6 DEF ToCondemned, SameHold
      <3>8. OnlyRow(a)
        BY <3>1, <3>6 DEF OnlyRow, Keeps
      <3>9. QED
        BY <2>0, <3>7, <3>8 DEF RowMove
    <2>3. QED
      BY <1>14, <2>0, <2>1, <2>2 DEF MarkDeleting
  <1>15. ASSUME NEW w \in Worker, CommitDelete(w) PROVE Goal
    <2>00. Holding(w)
      BY <1>15 DEF CommitDelete, Holding
    <2>0. PICK a \in Asset : a = worker[w].job
      BY <1>15 DEF CommitDelete, IInv, JobInHand, Working, Holding
    <2>1. /\ asset[a].deleting /\ asset[a].token = w
          /\ ~Bound(a) /\ ~asset[a].blocked
      BY <2>00, <2>0 DEF IInv, HolderOwnsRow, CondemnedFrozen
    <2>2. /\ asset'[a] = NoRow("gone")
          /\ \A b \in Asset \ {a} : asset'[b] = asset[b]
          /\ UNCHANGED bindings
      BY <1>t, <1>15, <2>0, <2>1 DEF CommitDelete, TypeOK
    <2>3. /\ asset'[a].status = "gone"
          /\ ~asset'[a].deleting
          /\ asset'[a].blocked = FALSE
      BY <2>2 DEF NoRow
    <2>4. asset'[a].blocked = asset[a].blocked
      BY <1>t, <2>0, <2>1, <2>3 DEF Row
    <2>5. \A b \in Asset : Bound(b)' <=> Bound(b)
      BY <1>b, <2>2
    <2>6. ToGone(a)
      BY <2>0, <2>1, <2>3, <2>4, <2>5 DEF ToGone, SameHold
    <2>7. OnlyRow(a)
      BY <2>2, <2>5 DEF OnlyRow, Keeps
    <2>8. QED
      BY <2>0, <2>6, <2>7 DEF RowMove
  <1>16. ASSUME NEW w \in Worker, Release(w) PROVE Goal
    <2> DEFINE a == worker[w].job
    <2>0. a \in Asset
      BY <1>16 DEF Release, IInv, JobInHand, Working
    <2>1. CASE asset[a].token = w
      BY <1>13, <1>16, <2>0, <2>1 DEF Release, Unclaimed
    <2>2. CASE asset[a].token # w
      <3>1. UNCHANGED asset
        BY <1>t, <1>16, <2>2 DEF Release, TypeOK
      <3>2. QED
        BY <1>16, <1>k, <3>1 DEF Release
    <2>3. QED
      BY <2>1, <2>2
  <1>17. ASSUME NEW w \in Worker, NEW a \in Asset,
                TryClaim(w, a) \/ FailClaim(w, a)
         PROVE  Goal
    BY <1>13, <1>17, <1>k DEF TryClaim, FailClaim
  <1>18. ASSUME NEW w \in Worker,
                \/ StartRun(w) \/ LockForRemoval(w) \/ RemoveObject(w)
                \/ Fail(w) \/ LoseRelease(w) \/ Crash(w)
         PROVE  Goal
    BY <1>18, <1>k DEF StartRun, LockForRemoval, RemoveObject, Fail, LoseRelease, Crash
  <1>19. ASSUME NEW w \in Worker, NEW a \in Asset, TakeUnbound(w, a) PROVE Goal
    BY <1>19, <1>k DEF TakeUnbound
  <1>20. ASSUME NEW k \in Key, NEW c \in Content, PutObject(k, c) PROVE Goal
    BY <1>20, <1>k DEF PutObject
  <1>21. CASE Tick \/ UNCHANGED vars
    BY <1>21, <1>k DEF Tick, vars
  <1>22. QED
    BY <1>4, <1>5, <1>6, <1>7, <1>8, <1>9, <1>10, <1>11, <1>12, <1>14, <1>15,
       <1>16, <1>17, <1>18, <1>19, <1>20, <1>21
    DEF Next, StoreOp, WorkerStep, Fault

-----------------------------------------------------------------------------
(* Action properties *)

\* A registered deletion is never withdrawn.
THEOREM DeletionIrreversibleCorrect == Spec => DeletionIrreversible
  <1>1. ASSUME IInv, [Next]_vars
        PROVE  \A a \in Asset : asset[a].deleting =>
                 asset'[a].deleting \/ asset'[a].status = "gone"
    BY <1>1, StepShape
       DEF Keeps, OnlyRow, RowMove, ToOpen, ToPublished, ChangesHold,
           ToCondemned, ToGone
  <1>2. QED
    BY <1>1, InvCorrect, PTL DEF Spec, DeletionIrreversible

\* A row goes away only when it is registered for deletion and out of use.
THEOREM ReclaimOnlyUnusedCorrect == Spec => ReclaimOnlyUnused
  <1>1. ASSUME IInv, [Next]_vars
        PROVE  \A a \in Asset : Live(a) /\ asset'[a].status = "gone" =>
                 /\ asset[a].deleting
                 /\ ~Bound(a) /\ ~asset[a].blocked
                 /\ \/ asset[a].status = "complete" /\ RetentionOver(a, clock)
                    \/ asset[a].status = "pending" /\ Expired(a, clock)
    <2> SUFFICES ASSUME NEW a \in Asset, Live(a), asset'[a].status = "gone"
                 PROVE  /\ asset[a].deleting
                        /\ ~Bound(a) /\ ~asset[a].blocked
                        /\ \/ asset[a].status = "complete" /\ RetentionOver(a, clock)
                           \/ asset[a].status = "pending" /\ Expired(a, clock)
      OBVIOUS
    <2>1. asset[a].deleting
      BY <1>1, StepShape
         DEF Keeps, OnlyRow, RowMove, ToOpen, ToPublished, ChangesHold,
             ToCondemned, ToGone, Live
    <2>2. QED
      BY <1>1, <2>1 DEF IInv, CondemnedFrozen, Live
  <1>2. QED
    BY <1>1, InvCorrect, PTL DEF Spec, ReclaimOnlyUnused

\* Bytes go with the row that is deleted, and only if no other row refers to them.
LEMMA RemovalSpares ==
    ASSUME IInv, [Next]_vars
    PROVE  \A k \in Key : object[k] # "missing" /\ object'[k] = "missing" =>
             \E a \in Asset : /\ KeyOf[a] = k
                              /\ asset[a].deleting
                              /\ \A b \in Asset \ {a} : Live(b) => KeyOf[b] # k
  <1> SUFFICES ASSUME NEW k \in Key,
                      object[k] # "missing", object'[k] = "missing"
               PROVE  \E a \in Asset :
                        /\ KeyOf[a] = k
                        /\ asset[a].deleting
                        /\ \A b \in Asset \ {a} : Live(b) => KeyOf[b] # k
    OBVIOUS
  <1>1. ASSUME NEW c \in Content \ {"missing"}, NEW j \in Key, PutObject(j, c)
        PROVE  FALSE
    BY <1>1 DEF PutObject, IInv, TypeOK
  <1>2. PICK w \in Worker : RemoveObject(w)
    <2>1. object' # object
      OBVIOUS
    <2>2. QED
      BY <1>1, <2>1
         DEF Next, StoreOp, WorkerStep, Fault, vars, SetRow,
             CreateAsset, SetUploadExpiry, MarkHashVerified, MarkHashMismatch,
             CompleteAsset, SetBlocked, ClearBlocked, Bind, Unbind,
             StartRun, TryClaim, TakeUnbound, MarkDeleting, LockForRemoval,
             CommitDelete, Release, Fail, FailClaim, LoseRelease, Crash, Tick
  <1>3. PICK a \in Asset : a = worker[w].job
    BY <1>2 DEF RemoveObject, IInv, JobInHand, Working
  <1>4. asset[a].deleting
    BY <1>2, <1>3 DEF RemoveObject, IInv, HolderOwnsRow, Holding
  <1>5. ~Shared(a) /\ KeyOf[a] = k
    BY <1>2, <1>3 DEF RemoveObject, IInv, TypeOK
  <1>6. QED
    BY <1>4, <1>5 DEF Shared

\* Reclaim never removes bytes that another row refers to.
THEOREM RemovalSparesReferencedBytesCorrect ==
    Spec => RemovalSparesReferencedBytes
  BY RemovalSpares, InvCorrect, PTL DEF Spec, RemovalSparesReferencedBytes

-----------------------------------------------------------------------------
(* Claims *)

\* A row with a claim knows since when: a NULL time would let TryClaimReclaim
\* take the claim away at once.
ClaimHasTime ==
    \A a \in Asset : asset[a].token # NoWorker => asset[a].claimedAt # NoTime

\* What one step can do to the claim on row b.
KeepsClaim(b) == /\ asset'[b].token = asset[b].token
                 /\ asset'[b].claimedAt = asset[b].claimedAt

DropsClaim(b) == asset'[b].token = NoWorker

\* TryClaimReclaim, by the time the run started at.
WinsClaim(b) == /\ asset'[b].claimedAt # NoTime
                /\ \E t \in Nat : t <= clock /\ Claimable(b, t)

\* Registering the deletion: of its own claim, or of a complete row.
RenewsClaim(b) == /\ asset'[b].claimedAt # NoTime
                  /\ \/ asset'[b].token = asset[b].token
                     \/ asset[b].status = "complete"

ClaimMove(b) == KeepsClaim(b) \/ DropsClaim(b) \/ WinsClaim(b) \/ RenewsClaim(b)

\* Only row a changes, and its claim only as in ClaimMove.
LEMMA ClaimOfOneRow ==
    ASSUME TypeOK, NEW a \in Asset, NEW r, asset' = [asset EXCEPT ![a] = r],
           \/ r.token = NoWorker
           \/ r.token = asset[a].token /\ r.claimedAt = asset[a].claimedAt
    PROVE  \A b \in Asset : ClaimMove(b)
  BY RowReads DEF ClaimMove, KeepsClaim, DropsClaim

LEMMA ClaimShape ==
    ASSUME IInv, [Next]_vars
    PROVE  \A b \in Asset : ClaimMove(b)
  <1> DEFINE Goal == \A b \in Asset : ClaimMove(b)
  <1>t. /\ TypeOK
        /\ \A b \in Asset : asset[b] \in Row
        /\ clock \in Nat
    BY DEF IInv, TypeOK
  <1>n. \A t \in Nat : t # NoTime
    BY DEF NoTime
  <1>k. ASSUME UNCHANGED asset PROVE Goal
    BY <1>k DEF ClaimMove, KeepsClaim
  <1>1. ASSUME NEW a \in Asset, CreateAsset(a) PROVE Goal
    <2> DEFINE r == [NoRow("pending") EXCEPT !.expires = clock + Lease]
    <2>1. r.token = NoWorker
      BY DEF NoRow
    <2>2. asset' = [asset EXCEPT ![a] = r]
      BY <1>1 DEF CreateAsset, SetRow
    <2>3. QED
      BY <1>t, <2>1, <2>2, ClaimOfOneRow
  <1>2. ASSUME NEW a \in Asset
        PROVE  Unclaimed(asset[a]) \in Row /\ Unclaimed(asset[a]).token = NoWorker
    BY <1>t, ClaimTypes, ClaimReads DEF Unclaimed
  <1>3. ASSUME NEW a \in Asset, SetUploadExpiry(a) PROVE Goal
    <2> DEFINE r == [Unclaimed(asset[a]) EXCEPT !.expires = clock + Lease]
    <2>1. r.token = NoWorker
      BY <1>2 DEF Row
    <2>2. asset' = [asset EXCEPT ![a] = r]
      BY <1>3 DEF SetUploadExpiry, SetRow
    <2>3. QED
      BY <1>t, <2>1, <2>2, ClaimOfOneRow
  <1>4. ASSUME NEW a \in Asset, MarkHashVerified(a) PROVE Goal
    <2> DEFINE r == [Unclaimed(asset[a]) EXCEPT !.verified = TRUE]
    <2>1. r.token = NoWorker
      BY <1>2 DEF Row
    <2>2. asset' = [asset EXCEPT ![a] = r]
      BY <1>4 DEF MarkHashVerified, SetRow
    <2>3. QED
      BY <1>t, <2>1, <2>2, ClaimOfOneRow
  <1>5. ASSUME NEW a \in Asset, NEW r \in Row, r.token = NoWorker,
               SetRow(a, StatusTrigger(r, asset[a], Bound(a)))
        PROVE  Goal
    <2>1. StatusTrigger(r, asset[a], Bound(a)).token = NoWorker
      BY <1>5 DEF StatusTrigger, Row
    <2>2. asset' = [asset EXCEPT ![a] = StatusTrigger(r, asset[a], Bound(a))]
      BY <1>5 DEF SetRow
    <2>3. QED
      BY <1>t, <2>1, <2>2, ClaimOfOneRow
  <1>6. ASSUME NEW a \in Asset, MarkHashMismatch(a) PROVE Goal
    <2> DEFINE q == [Unclaimed(asset[a]) EXCEPT !.verified = FALSE]
               r == [q EXCEPT !.status = "pending"]
    <2>1. q \in Row /\ q.token = NoWorker
      <3>1. /\ Unclaimed(asset[a]) \in Row
            /\ Unclaimed(asset[a]).token = NoWorker
        BY <1>2
      <3>2. QED
        BY <3>1 DEF Row
    <2>2. r \in Row /\ r.token = NoWorker
      <3> HIDE DEF q
      <3>1. QED
        BY <2>1 DEF Row, Status
    <2>3. SetRow(a, StatusTrigger(r, asset[a], Bound(a)))
      BY <1>6 DEF MarkHashMismatch
    <2>4. QED
      BY <1>5, <2>2, <2>3
  <1>7. ASSUME NEW a \in Asset, CompleteAsset(a) PROVE Goal
    <2> DEFINE r == [Unclaimed(asset[a]) EXCEPT !.status = "complete"]
    <2>1. r \in Row /\ r.token = NoWorker
      BY <1>2, RowFields DEF Row, Status
    <2>2. SetRow(a, StatusTrigger(r, asset[a], Bound(a)))
      BY <1>7 DEF CompleteAsset
    <2>3. QED
      BY <1>5, <2>1, <2>2
  <1>8. ASSUME NEW a \in Asset, SetBlocked(a) \/ ClearBlocked(a) PROVE Goal
    <2>1. PICK b \in BOOLEAN :
             asset' = [asset EXCEPT ![a] = [asset[a] EXCEPT !.blocked = b]]
      BY <1>8 DEF SetBlocked, ClearBlocked, SetRow
    <2> DEFINE r == [asset[a] EXCEPT !.blocked = b]
    <2>2. r.token = asset[a].token /\ r.claimedAt = asset[a].claimedAt
      BY <1>t DEF Row
    <2>3. QED
      BY <1>t, <2>1, <2>2, ClaimOfOneRow
  <1>9. ASSUME NEW a \in Asset, NEW e \in Entity, Bind(a, e) PROVE Goal
    <2> DEFINE r == [Unclaimed(asset[a]) EXCEPT !.unboundSince = NoTime]
    <2>1. r.token = NoWorker
      BY <1>2 DEF Row
    <2>2. asset' = [asset EXCEPT ![a] = r]
      BY <1>9 DEF Bind
    <2>3. QED
      BY <1>t, <2>1, <2>2, ClaimOfOneRow
  <1>10. ASSUME NEW a \in Asset, NEW e \in Entity, Unbind(a, e) PROVE Goal
    <2>1. /\ asset'[a].token = asset[a].token
          /\ asset'[a].claimedAt = asset[a].claimedAt
          /\ \A b \in Asset \ {a} : asset'[b] = asset[b]
      BY <1>t, <1>10 DEF Unbind, Row, TypeOK
    <2>2. QED
      BY <2>1 DEF ClaimMove, KeepsClaim
  <1>11. ASSUME NEW w \in Worker, NEW a \in Asset,
                TryClaim(w, a) \/ FailClaim(w, a)
         PROVE  Goal
    <2>1. CASE UNCHANGED asset
      BY <2>1, <1>k
    <2>2. CASE /\ a \in ReclaimCandidates(worker[w].now)
               /\ asset' = [asset EXCEPT ![a] = Claimed(@, w, worker[w].now)]
      <3>1. /\ asset'[a] = Claimed(asset[a], w, worker[w].now)
            /\ \A b \in Asset \ {a} : asset'[b] = asset[b]
        BY <1>t, <2>2, RowReads
      <3>2. asset'[a].claimedAt = worker[w].now
        BY <1>t, <3>1, ClaimReads
      <3>3. worker[w].now \in Nat /\ worker[w].now <= clock
        BY WorkerFacts
      <3>4. Claimable(a, worker[w].now)
        BY <2>2 DEF ReclaimCandidates
      <3>5. WinsClaim(a)
        BY <1>n, <3>2, <3>3, <3>4 DEF WinsClaim
      <3>6. QED
        BY <3>1, <3>5 DEF ClaimMove, KeepsClaim
    <2>3. QED
      BY <1>11, <2>1, <2>2 DEF TryClaim, FailClaim
  <1>12. ASSUME NEW w \in Worker, MarkDeleting(w) PROVE Goal
    <2>0. PICK a \in Asset : a = worker[w].job
      BY <1>12 DEF MarkDeleting, IInv, JobInHand, Working
    <2>1. CASE UNCHANGED asset
      BY <2>1, <1>k
    <2>2. CASE /\ Eligible(w, a)
               /\ asset' = [asset EXCEPT ![a] =
                               [Claimed(@, w, clock) EXCEPT !.deleting = TRUE]]
      <3>1. /\ asset'[a] = [Claimed(asset[a], w, clock) EXCEPT !.deleting = TRUE]
            /\ \A b \in Asset \ {a} : asset'[b] = asset[b]
        BY <1>t, <2>0, <2>2, RowReads
      <3>2. Claimed(asset[a], w, clock) \in Row
        BY <1>t, <2>0, ClaimTypes DEF Time
      <3>3. asset'[a].token = w /\ asset'[a].claimedAt = clock
        BY <1>t, <2>0, <3>1, <3>2, ClaimReads DEF Row
      <3>4. asset[a].token = w \/ asset[a].status = "complete"
        BY <2>2 DEF Eligible
      <3>5. RenewsClaim(a)
        BY <1>t, <1>n, <3>3, <3>4 DEF RenewsClaim
      <3>6. QED
        BY <3>1, <3>5 DEF ClaimMove, KeepsClaim
    <2>3. QED
      BY <1>12, <2>0, <2>1, <2>2 DEF MarkDeleting
  <1>13. ASSUME NEW w \in Worker, CommitDelete(w) PROVE Goal
    <2>0. PICK a \in Asset : a = worker[w].job
      BY <1>13 DEF CommitDelete, IInv, JobInHand, Working
    <2>1. NoRow("gone").token = NoWorker
      BY DEF NoRow
    <2>2. \/ asset' = [asset EXCEPT ![a] = NoRow("gone")]
          \/ UNCHANGED asset
      BY <1>t, <1>13, <2>0 DEF CommitDelete, TypeOK
    <2>3. QED
      BY <1>t, <1>k, <2>1, <2>2, ClaimOfOneRow
  <1>14. ASSUME NEW w \in Worker, Release(w) PROVE Goal
    <2>0. PICK a \in Asset : a = worker[w].job
      BY <1>14 DEF Release, IInv, JobInHand, Working
    <2>1. \/ asset' = [asset EXCEPT ![a] = Unclaimed(asset[a])]
          \/ UNCHANGED asset
      BY <1>t, <1>14, <2>0 DEF Release, TypeOK
    <2>2. QED
      BY <1>t, <1>2, <1>k, <2>1, ClaimOfOneRow
  <1>15. ASSUME NEW w \in Worker,
                \/ StartRun(w) \/ LockForRemoval(w) \/ RemoveObject(w)
                \/ Fail(w) \/ LoseRelease(w) \/ Crash(w)
                \/ \E a \in Asset : TakeUnbound(w, a)
         PROVE  Goal
    BY <1>15, <1>k DEF StartRun, LockForRemoval, RemoveObject, Fail,
                       LoseRelease, Crash, TakeUnbound
  <1>16. CASE \/ \E k \in Key, c \in Content : PutObject(k, c)
              \/ Tick
              \/ UNCHANGED vars
    BY <1>16, <1>k DEF PutObject, Tick, vars
  <1>17. QED
    BY <1>1, <1>3, <1>4, <1>6, <1>7, <1>8, <1>9, <1>10, <1>11, <1>12, <1>13,
       <1>14, <1>15, <1>16
    DEF Next, StoreOp, WorkerStep, Fault

\* A claim is never recorded without its time.
THEOREM ClaimHasTimeCorrect == Spec => []ClaimHasTime
  <1>1. Init => ClaimHasTime
    <2> SUFFICES ASSUME Init, NEW a \in Asset PROVE asset[a].token = NoWorker
      BY DEF ClaimHasTime
    <2>1. CASE a \in Imported
      <3>1. asset[a] = [NoRow("complete") EXCEPT !.verified = TRUE,
                                                 !.unboundSince = 0]
        BY <2>1 DEF Init
      <3>2. QED
        BY <3>1 DEF NoRow
    <2>2. CASE a \notin Imported
      BY <2>2 DEF Init, NoRow
    <2>3. QED
      BY <2>1, <2>2
  <1>2. IInv /\ ClaimHasTime /\ [Next]_vars => ClaimHasTime'
    BY ClaimShape
       DEF ClaimHasTime, ClaimMove, KeepsClaim, DropsClaim, WinsClaim, RenewsClaim
  <1>3. QED
    BY <1>1, <1>2, InvCorrect, PTL DEF Spec

\* A claim passes to another worker only when its holder counts as interrupted.
THEOREM ClaimTakeoverAfterTimeoutCorrect == Spec => ClaimTakeoverAfterTimeout
  <1>1. ASSUME IInv, ClaimHasTime, [Next]_vars
        PROVE  \A a \in Asset :
                 /\ asset[a].status = "pending"
                 /\ asset[a].token # NoWorker
                 /\ asset'[a].token \notin {NoWorker, asset[a].token}
                 => asset[a].claimedAt + ClaimTimeout <= clock
    <2> SUFFICES ASSUME NEW a \in Asset,
                        asset[a].status = "pending",
                        asset[a].token # NoWorker,
                        asset'[a].token \notin {NoWorker, asset[a].token}
                 PROVE  asset[a].claimedAt + ClaimTimeout <= clock
      OBVIOUS
    <2>1. WinsClaim(a)
      BY <1>1, ClaimShape DEF ClaimMove, KeepsClaim, DropsClaim, RenewsClaim
    <2>2. PICK t \in Nat : t <= clock /\ asset[a].claimedAt + ClaimTimeout <= t
      BY <1>1, <2>1 DEF WinsClaim, Claimable, ClaimHasTime
    <2>3. asset[a].claimedAt \in Int /\ clock \in Nat /\ ClaimTimeout \in Nat
      BY <1>1, TimeAssumption DEF IInv, TypeOK, Row, Time, NoTime
    <2>4. QED
      BY <2>2, <2>3
  <1>2. QED
    BY <1>1, ClaimHasTimeCorrect, InvCorrect, PTL DEF Spec, ClaimTakeoverAfterTimeout

-----------------------------------------------------------------------------
(* Refinement *)

\* The store implements the lifecycle the rest of the service relies on.
THEOREM LifecycleImplemented == Spec => ImplementsLifecycle
  <1>1. Init => Lifecycle!Init
    <2> SUFFICES ASSUME Init PROVE Lifecycle!Init
      OBVIOUS
    <2>1. ASSUME NEW a \in Asset
          PROVE  /\ asset[a].status \in {"unborn", "complete"}
                 /\ asset[a].deleting = FALSE
                 /\ asset[a].blocked = FALSE
      <3>1. CASE a \in Imported
        <4>1. asset[a] = [NoRow("complete") EXCEPT !.verified = TRUE,
                                                   !.unboundSince = 0]
          BY <3>1 DEF Init
        <4>2. QED
          BY <4>1 DEF NoRow
      <3>2. CASE a \notin Imported
        BY <3>2 DEF Init, NoRow
      <3>3. QED
        BY <3>1, <3>2
    <2>2. \A a \in Asset : PhaseOf(a) \in {"unborn", "published"}
      BY <2>1 DEF PhaseOf
    <2>3. \A a \in Asset : (Bound(a) \/ asset[a].blocked) = FALSE
      BY <2>1 DEF Init, Bound
    <2>4. QED
      BY <2>2, <2>3 DEF Lifecycle!Init
  <1>2. ASSUME IInv, [Next]_vars
        PROVE  [Lifecycle!Next]_(Lifecycle!vars)
    <2>1. ASSUME NEW b \in Asset, Keeps(b)
          PROVE  /\ PhaseOf(b)' = PhaseOf(b)
                 /\ (Bound(b) \/ asset[b].blocked)' = (Bound(b) \/ asset[b].blocked)
      BY <2>1 DEF Keeps, PhaseOf
    <2>2. CASE \A b \in Asset : Keeps(b)
      BY <2>1, <2>2 DEF Lifecycle!vars
    <2>3. ASSUME NEW a \in Asset, OnlyRow(a), RowMove(a)
          PROVE  Lifecycle!Next \/ UNCHANGED Lifecycle!vars
      <3> DEFINE ph == [b \in Asset |-> PhaseOf(b)]
                 hd == [b \in Asset |-> Bound(b) \/ asset[b].blocked]
      <3>1. /\ ph' = [ph EXCEPT ![a] = PhaseOf(a)']
            /\ hd' = [hd EXCEPT ![a] = (Bound(a) \/ asset[a].blocked)']
        BY <2>1, <2>3 DEF OnlyRow
      <3>2. CASE SameHold(a)
        <4>1. hd' = hd
          BY <3>1, <3>2 DEF SameHold
        <4>2. CASE ToOpen(a)
          BY <3>1, <4>1, <4>2
             DEF ToOpen, PhaseOf, Lifecycle!Next, Lifecycle!Open,
                 Lifecycle!Move, Lifecycle!vars
        <4>3. CASE ToPublished(a)
          BY <3>1, <4>1, <4>3
             DEF ToPublished, Live, PhaseOf, Lifecycle!Next, Lifecycle!Publish,
                 Lifecycle!Move, Lifecycle!vars
        <4>4. CASE ToCondemned(a)
          BY <3>1, <4>1, <4>4
             DEF ToCondemned, Live, PhaseOf, Lifecycle!Next, Lifecycle!Condemn,
                 Lifecycle!InUse, Lifecycle!Move, Lifecycle!vars
        <4>5. CASE ToGone(a)
          BY <3>1, <4>1, <4>5
             DEF ToGone, PhaseOf, Lifecycle!Next, Lifecycle!Discard,
                 Lifecycle!Move, Lifecycle!vars
        <4>6. CASE ChangesHold(a)
          BY <3>1, <4>1, <4>6 DEF ChangesHold, PhaseOf, Lifecycle!vars
        <4>7. QED
          BY <2>3, <4>2, <4>3, <4>4, <4>5, <4>6 DEF RowMove
      <3>3. CASE ChangesHold(a)
        <4>1. ph' = ph
          BY <3>1, <3>3 DEF ChangesHold, PhaseOf
        <4>2. ph[a] \in {"open", "published"}
          BY <3>3 DEF ChangesHold, Live, PhaseOf
        <4>3. QED
          BY <3>1, <4>1, <4>2
             DEF Lifecycle!Next, Lifecycle!Hold, Lifecycle!LetGo, Lifecycle!InUse
      <3>4. QED
        BY <2>3, <3>2, <3>3
           DEF RowMove, ToOpen, ToPublished, ToCondemned, ToGone
    <2>4. QED
      BY <1>2, <2>2, <2>3, StepShape
  <1>3. QED
    BY <1>1, <1>2, InvCorrect, PTL DEF Spec, ImplementsLifecycle, Lifecycle!Spec
=============================================================================
