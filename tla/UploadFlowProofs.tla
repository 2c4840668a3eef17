-------------------------- MODULE UploadFlowProofs --------------------------
(***************************************************************************)
(* What TLAPS proves of UploadFlow.  For any requests in any interleaving  *)
(* with the cleanup workers: the handlers keep the invariant of the store. *)
(* For requests that come one after the other, beside any number of        *)
(* workers: what is complete has its bytes, and stays complete.            *)
(***************************************************************************)
EXTENDS UploadFlow, AssetStoreProofs

\* A request in hand has a row that was inserted.
RequestsTyped ==
    /\ request \in [Request -> RequestState]
    /\ \A r \in Request : request[r].pc # "idle" =>
         request[r].asset \in Asset /\ asset[request[r].asset].status # "unborn"

GInv == IInv /\ RequestsTyped

-----------------------------------------------------------------------------
(* Steps of the store, seen from one row *)

\* The operations of the tables that neither open nor complete nor demote a row.
PlainOp ==
    \/ UNCHANGED vars
    \/ \E a \in Asset : SetUploadExpiry(a) \/ MarkHashVerified(a)
    \/ OtherStoreOp
    \/ \E k \in Key, c \in Content \ {"missing"} : PutObject(k, c)
    \/ \E w \in Worker : WorkerStep(w) \/ Fault(w)
    \/ Tick

LEMMA PlainIsNext == PlainOp => [Next]_vars
  BY DEF PlainOp, OtherStoreOp, Next, StoreOp

LEMMA PlainKeepsStatus ==
    ASSUME IInv, PlainOp, NEW a \in Asset
    PROVE  asset'[a].status \in {asset[a].status, "gone"}
  <1>1. /\ asset \in [Asset -> Row] /\ \A b \in Asset : asset[b] \in Row
    BY DEF IInv, TypeOK
  <1>2. ASSUME NEW b \in Asset, NEW r, asset' = [asset EXCEPT ![b] = r],
               r.status \in {asset[b].status, "gone"}
        PROVE  asset'[a].status \in {asset[a].status, "gone"}
    BY <1>1, <1>2
  <1>3. ASSUME NEW b \in Asset, NEW x, NEW t
        PROVE  /\ Claimed(asset[b], x, t).status = asset[b].status
               /\ Unclaimed(asset[b]).status = asset[b].status
    BY <1>1, ClaimReads DEF Unclaimed
  <1>4. CASE UNCHANGED asset
    BY <1>4
  <1>5. ASSUME NEW b \in Asset, SetUploadExpiry(b) \/ MarkHashVerified(b)
        PROVE  asset'[a].status \in {asset[a].status, "gone"}
    <2>1. /\ [Unclaimed(asset[b]) EXCEPT !.expires = clock + Lease].status = asset[b].status
          /\ [Unclaimed(asset[b]) EXCEPT !.verified = TRUE].status = asset[b].status
      BY <1>1, <1>3, ClaimTypes DEF Row
    <2> QED BY <1>2, <1>5, <2>1 DEF SetUploadExpiry, MarkHashVerified, SetRow
  <1>6. CASE OtherStoreOp
    <2>1. ASSUME NEW b \in Asset, SetBlocked(b) \/ ClearBlocked(b)
          PROVE  asset'[a].status \in {asset[a].status, "gone"}
      BY <1>1, <1>2, <2>1 DEF SetBlocked, ClearBlocked, SetRow, Row
    <2>2. ASSUME NEW b \in Asset, NEW e \in Entity, Bind(b, e)
          PROVE  asset'[a].status \in {asset[a].status, "gone"}
      <3>1. [Unclaimed(asset[b]) EXCEPT !.unboundSince = NoTime].status = asset[b].status
        BY <1>1, <1>3, ClaimTypes DEF Row
      <3> QED BY <1>2, <2>2, <3>1 DEF Bind
    <2>3. ASSUME NEW b \in Asset, NEW e \in Entity, Unbind(b, e)
          PROVE  asset'[a].status \in {asset[a].status, "gone"}
      BY <1>1, <2>3 DEF Unbind, Row
    <2> QED BY <1>6, <2>1, <2>2, <2>3 DEF OtherStoreOp
  <1>7. ASSUME NEW w \in Worker, WorkerStep(w) \/ Fault(w), asset' # asset
        PROVE  asset'[a].status \in {asset[a].status, "gone"}
    <2>1. ASSUME NEW b \in Asset, TryClaim(w, b) \/ FailClaim(w, b)
          PROVE  asset'[a].status \in {asset[a].status, "gone"}
      BY <1>2, <1>3, <1>7, <2>1 DEF TryClaim, FailClaim
    <2> DEFINE b == worker[w].job
    <2>2. ASSUME MarkDeleting(w)
          PROVE  asset'[a].status \in {asset[a].status, "gone"}
      <3>1. b \in Asset
        BY <2>2 DEF MarkDeleting, IInv, JobInHand, Working
      <3>2. [Claimed(asset[b], w, clock) EXCEPT !.deleting = TRUE].status = asset[b].status
        <4>1. Claimed(asset[b], w, clock) \in Row
          BY <1>1, <3>1, WorkerFacts, ClaimTypes DEF Time
        <4> QED BY <1>3, <3>1, <4>1 DEF Row
      <3> QED BY <1>2, <1>7, <2>2, <3>1, <3>2 DEF MarkDeleting
    <2>3. ASSUME CommitDelete(w)
          PROVE  asset'[a].status \in {asset[a].status, "gone"}
      <3>1. b \in Asset
        BY <2>3 DEF CommitDelete, IInv, JobInHand, Working
      <3> QED BY <1>2, <2>3, <3>1 DEF CommitDelete, NoRow
    <2>4. ASSUME Release(w)
          PROVE  asset'[a].status \in {asset[a].status, "gone"}
      <3>1. b \in Asset
        BY <2>4 DEF Release, IInv, JobInHand, Working
      <3> QED BY <1>2, <1>3, <2>4, <3>1 DEF Release
    <2> QED
      BY <1>7, <2>1, <2>2, <2>3, <2>4
         DEF WorkerStep, Fault, StartRun, TakeUnbound, LockForRemoval, RemoveObject,
             Fail, LoseRelease, Crash
  <1> QED BY <1>4, <1>5, <1>6, <1>7 DEF PlainOp, vars, PutObject, Tick

\* A step of the handlers is a step of the store, or takes polluted bytes away.
LEMMA ObjectOnly ==
    ASSUME IInv, UNCHANGED <<asset, bindings, worker, clock>>, object' \in [Key -> Content]
    PROVE  IInv'
  BY DEF IInv, TypeOK, JobInHand, RunInPast, OnlyLiveRowsUsed, UnboundClock, CondemnedFrozen,
         HolderOwnsRow, PublishedVerified, Working, Holding, Live, Bound, RetentionOver, Expired

-----------------------------------------------------------------------------
(* Any number of requests *)

\* What a step of the handlers is for the store, and where the request goes.
LEMMA HandlerSteps ==
    ASSUME GInv, NEW r \in Request, RequestStep(r)
    PROVE  /\ \/ [Next]_vars
              \/ Discard(r)
           /\ \/ request' = [request EXCEPT ![r] = NoRequest]
              \/ \E pc \in RequestPc : request' = [request EXCEPT ![r].pc = pc]
           /\ request[r].pc # "idle"
  <1>1. KeyOfRequest(r) \in Key \/ request[r].pc = "idle"
    BY ShapeAssumption DEF GInv, RequestsTyped, KeyOfRequest
  <1>2. request[r].asset \in Asset \/ request[r].pc = "idle"
    BY DEF GInv, RequestsTyped
  <1>3. request[r].pc # "idle"
    BY DEF RequestStep, Renew, SizeUp, Verify, Discard, RecordMismatch, RecordVerified,
           Finish, Receive, ReadBack, At
  <1>4. ASSUME Receive(r)
        PROVE  PutObject(KeyOfRequest(r), "right")
    BY <1>4 DEF Receive, SetObject, PutObject
  <1>5. [Next]_vars \/ Discard(r)
    <2>1. ASSUME NEW a \in Asset, \/ SetUploadExpiry(a) \/ MarkHashVerified(a)
                                  \/ MarkHashMismatch(a) \/ CompleteAsset(a)
          PROVE  Next
      BY <2>1 DEF Next, StoreOp
    <2>2. CASE Receive(r)
      BY <1>1, <1>3, <1>4, <2>2 DEF Next, StoreOp, Content
    <2> QED
      BY <1>2, <1>3, <2>1, <2>2 DEF RequestStep, Renew, SizeUp, Verify, RecordMismatch,
         RecordVerified, Finish, ReadBack, Write
  <1>6. \/ request' = [request EXCEPT ![r] = NoRequest]
        \/ \E pc \in RequestPc : request' = [request EXCEPT ![r].pc = pc]
    BY DEF RequestStep, Renew, SizeUp, Verify, Discard, RecordMismatch, RecordVerified,
           Finish, Receive, ReadBack, Write, Answer, Proceed, RequestPc
  <1> QED BY <1>3, <1>5, <1>6

LEMMA StoreSteps ==
    ASSUME FlowNext
    PROVE  \/ \E r \in Request, kind \in Kind, a \in Asset : Load(r, kind, a)
           \/ \E r \in Request : RequestStep(r) \/ Abort(r)
           \/ /\ UNCHANGED request
              /\ \/ \E a \in Asset : CreateAsset(a)
                 \/ PlainOp
  <1>1. ASSUME NEW a \in Asset, Initiate(a)
        PROVE  CreateAsset(a) \/ PlainOp
    BY <1>1 DEF Initiate, PlainOp
  <1>2. Upload("right") \/ Upload("wrong") => PlainOp
    BY DEF Upload, PlainOp, Content
  <1> QED BY <1>1, <1>2 DEF FlowNext, PlainOp

\* The row of a request does not become unborn again.
LEMMA NeverUnborn ==
    ASSUME IInv, [Next]_vars, NEW a \in Asset, asset[a].status # "unborn"
    PROVE  asset'[a].status # "unborn"
  BY StepShape DEF Keeps, OnlyRow, RowMove, ToOpen, ToPublished, ChangesHold, ToCondemned,
     ToGone

LEMMA GInvInit == FlowInit => GInv
  <1>1. FlowInit => IInv
    BY InvInit DEF FlowInit
  <1>2. FlowInit => RequestsTyped
    BY DEF FlowInit, RequestsTyped, NoRequest, RequestState, RequestPc, Kinds
  <1> QED BY <1>1, <1>2 DEF GInv

LEMMA GInvStep == GInv /\ [FlowNext]_flowVars => GInv'
  <1> SUFFICES ASSUME GInv, [FlowNext]_flowVars
               PROVE  GInv'
    OBVIOUS
  <1> USE DEF GInv
  <1>1. ASSUME [Next]_vars, request' \in [Request -> RequestState],
               \A r \in Request :
                 request'[r].pc # "idle" =>
                   /\ request'[r].asset \in Asset
                   /\ asset[request'[r].asset].status # "unborn"
        PROVE  GInv'
    BY <1>1, InvStep, NeverUnborn DEF RequestsTyped
  <1>2. \A r \in Request : request[r] \in RequestState
    BY DEF RequestsTyped
  <1>3. ASSUME NEW r \in Request, NEW q \in RequestState,
               request' = [request EXCEPT ![r] = q],
               q.pc # "idle" => q.asset \in Asset /\ asset[q.asset].status # "unborn"
        PROVE  /\ request' \in [Request -> RequestState]
               /\ \A s \in Request :
                    request'[s].pc # "idle" =>
                      /\ request'[s].asset \in Asset
                      /\ asset[request'[s].asset].status # "unborn"
    BY <1>3 DEF RequestsTyped
  <1>4. NoRequest \in RequestState /\ NoRequest.pc = "idle"
    BY DEF NoRequest, RequestState, RequestPc, Kinds
  <1>5. ASSUME NEW r \in Request, NEW kind \in Kind, NEW a \in Asset, Load(r, kind, a)
        PROVE  GInv'
    <2> DEFINE q == [pc |-> "loaded", kind |-> kind, asset |-> a, seen |-> asset[a].status]
    <2>1. q \in RequestState /\ asset[a].status # "unborn"
      BY <1>5, RequestAssumption DEF Load, Live, RequestState, RequestPc
    <2>2. request' = [request EXCEPT ![r] = q] /\ UNCHANGED vars
      BY <1>5 DEF Load
    <2>3. q.pc # "idle" /\ q.asset = a
      OBVIOUS
    <2> HIDE DEF q
    <2> QED BY <1>1, <1>3, <2>1, <2>2, <2>3
  <1>6. ASSUME NEW r \in Request, RequestStep(r)
        PROVE  GInv'
    <2>1. PICK q \in RequestState :
            /\ request' = [request EXCEPT ![r] = q]
            /\ q.pc # "idle" => q.asset \in Asset /\ asset[q.asset].status # "unborn"
      <3>1. CASE request' = [request EXCEPT ![r] = NoRequest]
        BY <1>4, <3>1
      <3>2. ASSUME NEW pc \in RequestPc, request' = [request EXCEPT ![r].pc = pc]
            PROVE  \E q \in RequestState :
                     /\ request' = [request EXCEPT ![r] = q]
                     /\ q.pc # "idle" => q.asset \in Asset /\ asset[q.asset].status # "unborn"
        <4> DEFINE q == [request[r] EXCEPT !.pc = pc]
        <4>1. q \in RequestState /\ q.asset = request[r].asset
          BY <1>2 DEF RequestState
        <4>2. request[r].asset \in Asset /\ asset[request[r].asset].status # "unborn"
          BY <1>6, HandlerSteps DEF RequestsTyped
        <4> QED BY <3>2, <4>1, <4>2
      <3> QED BY <1>6, <3>1, <3>2, HandlerSteps
    <2>2. CASE [Next]_vars
      BY <1>1, <1>3, <2>1, <2>2
    <2>3. CASE Discard(r)
      <3>1. UNCHANGED <<asset, bindings, worker, clock>> /\ object' \in [Key -> Content]
        BY <2>3 DEF Discard, SetObject, IInv, TypeOK, Content
      <3>2. IInv'
        BY <3>1, ObjectOnly
      <3> QED BY <1>3, <2>1, <3>1, <3>2 DEF RequestsTyped
    <2> QED BY <1>6, <2>2, <2>3, HandlerSteps
  <1>7. ASSUME NEW r \in Request, Abort(r)
        PROVE  GInv'
    BY <1>1, <1>3, <1>4, <1>7 DEF Abort, Answer
  <1>8. CASE UNCHANGED request /\ ((\E a \in Asset : CreateAsset(a)) \/ PlainOp)
    <2>1. [Next]_vars
      BY <1>8, PlainIsNext DEF Next, StoreOp
    <2> QED BY <1>1, <1>8, <2>1 DEF RequestsTyped
  <1>9. CASE UNCHANGED flowVars
    BY <1>1, <1>9 DEF flowVars, RequestsTyped
  <1> QED BY <1>5, <1>6, <1>7, <1>8, <1>9, StoreSteps

LEMMA GInvAlways == FlowSpec => []GInv
  BY GInvInit, GInvStep, PTL DEF FlowSpec

\* Every variable of the flow keeps its type.
THEOREM FlowTypeCorrect == FlowSpec => []FlowTypeOK
  <1>1. GInv => FlowTypeOK
    BY DEF GInv, RequestsTyped, FlowTypeOK, IInv
  <1> QED BY <1>1, GInvAlways, PTL

\* Whatever requests are in hand, one beside the other, the tables keep what
\* AssetStoreProofs proves of single operations: the retention clock, that a
\* condemned row stays out of use, who owns a row, and that what is complete was
\* verified.
THEOREM HandlersKeepStore ==
    FlowSpec => [](UnboundClock /\ CondemnedFrozen /\ HolderOwnsRow /\ PublishedVerified)
  <1>1. GInv => UnboundClock /\ CondemnedFrozen /\ HolderOwnsRow /\ PublishedVerified
    BY DEF GInv, IInv
  <1> QED BY <1>1, GInvAlways, PTL

-----------------------------------------------------------------------------
(* Requests one after the other *)

OneAtATime == \A r, s \in Request : r = s

\* KeyFor: a key is named for a digest; and no digest was imported twice.
KeysNameDigests ==
    /\ \A a, b \in Asset : KeyOf[a] = KeyOf[b] => ShaOf[a] = ShaOf[b]
    /\ \A a, b \in Imported : ShaOf[a] = ShaOf[b] => a = b

\* The unique index on sha256.
UniqueDigest == \A a, b \in Asset : Live(a) /\ Live(b) /\ ShaOf[a] = ShaOf[b] => a = b

MayDemote(q) == q.pc # "idle" /\ q.kind # "stream" /\ q.seen = "pending"

\* A request that goes on to judge a row has seen it pending.
SeenPending(q) ==
    /\ q.pc \in {"reject", "removed"} => q.kind # "stream"
    /\ q.kind = "complete" /\ q.pc \notin {"idle", "loaded"} => q.seen = "pending"
    /\ q.kind = "verify" /\ q.pc \notin {"idle", "loaded"} => q.seen = "pending"

\* Meanwhile no row of its key is complete.
KeyUnfinished(q) ==
    MayDemote(q) =>
        \A a \in Asset : KeyOf[a] = KeyOf[q.asset] => asset[a].status # "complete"

\* From the look at the object on, its bytes stay, unless the row is condemned.
WorkHasBytes(q) ==
    q.pc \in {"sized", "verified", "marked"} /\ Live(q.asset) /\ ~asset[q.asset].deleting =>
        object[KeyOf[q.asset]] # "missing"

InHand(q) == SeenPending(q) /\ KeyUnfinished(q) /\ WorkHasBytes(q)

FInv == /\ GInv
        /\ UniqueDigest
        /\ CompleteHasBytes
        /\ \A r \in Request : InHand(request[r])

\* What a step of the store that completes no row does to the rest.
LEMMA BackgroundKeeps ==
    ASSUME FInv, [Next]_vars,
           \A a \in Asset : asset'[a].status = "complete" => asset[a].status = "complete",
           \A a \in Asset : Live(a)' => Live(a) \/ CreateAsset(a)
    PROVE  /\ UniqueDigest' /\ CompleteHasBytes'
           /\ \A q \in RequestState :
                /\ q.pc # "idle" => q.asset \in Asset /\ asset[q.asset].status # "unborn"
                /\ InHand(q)
                => InHand(q)'
  <1> USE DEF FInv, GInv
  <1>1. \A a \in Asset : asset[a].deleting /\ Live(a)' => asset'[a].deleting
    BY StepShape DEF Keeps, OnlyRow, RowMove, ToOpen, ToPublished, ChangesHold, ToCondemned,
       ToGone, Live
  <1>2. \A k \in Key : object[k] # "missing" /\ object'[k] = "missing" =>
          \A a \in Asset : Live(a) /\ KeyOf[a] = k => asset[a].deleting
    BY RemovalSpares
  <1>3. UniqueDigest'
    <2> SUFFICES ASSUME NEW a \in Asset, NEW b \in Asset, Live(a)', Live(b)',
                        ShaOf[a] = ShaOf[b], a # b
                 PROVE  FALSE
      BY DEF UniqueDigest
    <2>1. ASSUME NEW x \in Asset, NEW y \in Asset, CreateAsset(x), Live(y)', x # y,
                 ShaOf[x] = ShaOf[y]
          PROVE  FALSE
      <3>1. asset' = [asset EXCEPT ![x] = [NoRow("pending") EXCEPT !.expires = clock + Lease]]
        BY <2>1 DEF CreateAsset, SetRow
      <3>2. Live(y)
        BY <2>1, <3>1 DEF Live, IInv, TypeOK
      <3> QED BY <2>1, <3>2 DEF CreateAsset
    <2>2. Live(a) /\ Live(b)
      BY <2>1
    <2> QED BY <2>2 DEF UniqueDigest
  <1>4. CompleteHasBytes'
    <2> SUFFICES ASSUME NEW a \in Asset, asset'[a].status = "complete", ~asset'[a].deleting
                 PROVE  object'[KeyOf[a]] # "missing"
      BY DEF CompleteHasBytes
    <2>1. Live(a) /\ Live(a)' /\ asset[a].status = "complete" /\ ~asset[a].deleting
      BY <1>1 DEF Live
    <2>2. KeyOf[a] \in Key
      BY ShapeAssumption
    <2> QED BY <1>2, <2>1, <2>2 DEF CompleteHasBytes
  <1>5. ASSUME NEW q \in RequestState, InHand(q),
               q.pc # "idle" => q.asset \in Asset /\ asset[q.asset].status # "unborn"
        PROVE  InHand(q)'
    <2>1. SeenPending(q)' /\ KeyUnfinished(q)'
      BY <1>5 DEF InHand, SeenPending, KeyUnfinished, MayDemote
    <2>2. WorkHasBytes(q)'
      <3> SUFFICES ASSUME q.pc \in {"sized", "verified", "marked"},
                          Live(q.asset)', ~asset'[q.asset].deleting
                   PROVE  object'[KeyOf[q.asset]] # "missing"
        BY DEF WorkHasBytes
      <3>1. q.asset \in Asset /\ asset[q.asset].status # "unborn"
        BY <1>5
      <3>2. Live(q.asset)
        BY <3>1 DEF CreateAsset
      <3>3. ~asset[q.asset].deleting /\ KeyOf[q.asset] \in Key
        BY <1>1, <3>1, ShapeAssumption
      <3> QED BY <1>2, <1>5, <3>1, <3>2, <3>3 DEF InHand, WorkHasBytes
    <2> QED BY <2>1, <2>2 DEF InHand
  <1> QED BY <1>3, <1>4, <1>5

\* Plain steps, new rows and demotions are such steps.
LEMMA BackgroundSteps ==
    ASSUME IInv, \/ PlainOp
                 \/ \E b \in Asset : CreateAsset(b) \/ MarkHashMismatch(b)
    PROVE  /\ [Next]_vars
           /\ \A a \in Asset : asset'[a].status = "complete" => asset[a].status = "complete"
           /\ \A a \in Asset : Live(a)' => Live(a) \/ CreateAsset(a)
  <1>1. CASE PlainOp
    BY <1>1, PlainIsNext, PlainKeepsStatus DEF Live
  <1>2. /\ asset \in [Asset -> Row]
        /\ \A b \in Asset : asset[b] \in Row
    BY DEF IInv, TypeOK
  <1>3. ASSUME NEW b \in Asset, CreateAsset(b)
        PROVE  /\ [Next]_vars
               /\ \A a \in Asset : asset'[a].status = "complete" => asset[a].status = "complete"
               /\ \A a \in Asset : Live(a)' => Live(a) \/ CreateAsset(a)
    <2>1. asset' = [asset EXCEPT ![b] = [NoRow("pending") EXCEPT !.expires = clock + Lease]]
      BY <1>3 DEF CreateAsset, SetRow
    <2>2. \A a \in Asset \ {b} : asset'[a] = asset[a]
      BY <1>2, <2>1
    <2>3. asset'[b].status = "pending"
      BY <1>2, <2>1 DEF NoRow
    <2> QED BY <1>3, <2>2, <2>3 DEF Next, StoreOp, Live
  <1>4. ASSUME NEW b \in Asset, MarkHashMismatch(b)
        PROVE  /\ [Next]_vars
               /\ \A a \in Asset : asset'[a].status = "complete" => asset[a].status = "complete"
               /\ \A a \in Asset : Live(a)' => Live(a) \/ CreateAsset(a)
    <2>1. Live(b) /\ \A a \in Asset \ {b} : asset'[a] = asset[a]
      BY <1>2, <1>4, RowReads DEF MarkHashMismatch, Mutable, SetRow, IInv
    <2>2. asset'[b].status = "pending"
      <3> DEFINE r == [Unclaimed(asset[b]) EXCEPT !.verified = FALSE, !.status = "pending"]
      <3>1. asset'[b] = StatusTrigger(r, asset[b], Bound(b))
        BY <1>2, <1>4 DEF MarkHashMismatch, SetRow
      <3>2. r \in Row /\ r.status = "pending"
        <4>1. Unclaimed(asset[b]) \in Row
          BY <1>2, ClaimTypes
        <4> QED BY <4>1 DEF Row, Status
      <3> HIDE DEF r
      <3> QED BY <3>1, <3>2 DEF StatusTrigger, Row
    <2> QED BY <1>4, <2>1, <2>2 DEF Next, StoreOp, Live
  <1> QED BY <1>1, <1>3, <1>4

LEMMA FInvInit == FlowInit /\ KeysNameDigests => FInv
  <1> SUFFICES ASSUME FlowInit, KeysNameDigests
               PROVE  FInv
    OBVIOUS
  <1>1. \A a \in Asset : Live(a) => a \in Imported
    BY DEF FlowInit, Init, Live, NoRow
  <1>2. UniqueDigest
    BY <1>1 DEF UniqueDigest, KeysNameDigests
  <1>3. CompleteHasBytes
    <2> SUFFICES ASSUME NEW a \in Asset, a \in Imported
                 PROVE  object[KeyOf[a]] = "right"
      BY <1>1 DEF CompleteHasBytes, Live
    <2>1. KeyOf[a] \in Key
      BY ShapeAssumption
    <2> QED BY <2>1 DEF FlowInit, Init
  <1>4. \A r \in Request : InHand(request[r])
    BY DEF FlowInit, NoRequest, InHand, SeenPending, KeyUnfinished, WorkHasBytes, MayDemote
  <1> QED BY <1>2, <1>3, <1>4, GInvInit DEF FInv

\* The request that is at work leaves, or goes on with what it has.
LEMMA AloneStep ==
    ASSUME FInv, OneAtATime, GInv', NEW r \in Request, NEW q \in RequestState,
           request' = [request EXCEPT ![r] = q], InHand(q)',
           UniqueDigest', CompleteHasBytes'
    PROVE  FInv'
  <1>1. \A s \in Request : s = r
    BY DEF OneAtATime
  <1> QED BY <1>1 DEF FInv, GInv, RequestsTyped

LEMMA FInvStep ==
    ASSUME FInv, OneAtATime, KeysNameDigests, [FlowNext]_flowVars
    PROVE  FInv'
  <1> USE DEF FInv, GInv
  <1>1. GInv'
    BY GInvStep
  <1>2. /\ request \in [Request -> RequestState]
        /\ \A r \in Request : request[r] \in RequestState /\ InHand(request[r])
        /\ \A r \in Request : request[r].pc # "idle" =>
             /\ request[r].asset \in Asset /\ asset[request[r].asset].status # "unborn"
             /\ KeyOfRequest(r) \in Key /\ KeyOfRequest(r) = KeyOf[request[r].asset]
    BY ShapeAssumption DEF RequestsTyped, KeyOfRequest
  <1>3. NoRequest \in RequestState /\ InHand(NoRequest)'
    BY DEF NoRequest, RequestState, RequestPc, Kinds, InHand, SeenPending, KeyUnfinished,
           WorkHasBytes, MayDemote
  <1> DEFINE Background ==
        /\ UniqueDigest' /\ CompleteHasBytes'
        /\ \A q \in RequestState :
             /\ q.pc # "idle" => q.asset \in Asset /\ asset[q.asset].status # "unborn"
             /\ InHand(q)
             => InHand(q)'
  <1>4. (PlainOp \/ \E b \in Asset : CreateAsset(b) \/ MarkHashMismatch(b)) => Background
    <2> SUFFICES ASSUME PlainOp \/ \E b \in Asset : CreateAsset(b) \/ MarkHashMismatch(b)
                 PROVE  Background
      OBVIOUS
    <2>1. /\ [Next]_vars
          /\ \A a \in Asset : asset'[a].status = "complete" => asset[a].status = "complete"
          /\ \A a \in Asset : Live(a)' => Live(a) \/ CreateAsset(a)
      BY BackgroundSteps
    <2> QED BY <2>1, BackgroundKeeps
  <1> HIDE DEF Background
  <1>5. ASSUME NEW r \in Request, Background, request' = [request EXCEPT ![r] = NoRequest]
        PROVE  FInv'
    BY <1>1, <1>3, <1>5, AloneStep DEF Background
  \* The request goes on; all that is new about it is where it is.
  <1>6. ASSUME NEW r \in Request, Background, NEW pc \in RequestPc,
               request[r].pc # "idle", Proceed(r, pc),
               LET q == [request[r] EXCEPT !.pc = pc]
               IN  SeenPending(q) /\ WorkHasBytes(q)
        PROVE  FInv'
    <2>1. PICK q \in RequestState : q = [request[r] EXCEPT !.pc = pc]
      BY <1>2 DEF RequestState
    <2>2. q.asset = request[r].asset /\ q.kind = request[r].kind /\ q.seen = request[r].seen
      BY <1>2, <2>1 DEF RequestState
    <2>3. KeyUnfinished(q)
      BY <1>2, <1>6, <2>2 DEF InHand, KeyUnfinished, MayDemote
    <2>4. SeenPending(q) /\ WorkHasBytes(q)
      BY <1>6, <2>1
    <2>5. InHand(q)'
      BY <1>2, <1>6, <2>2, <2>3, <2>4 DEF InHand, Background
    <2>6. request' = [request EXCEPT ![r] = q]
      BY <1>2, <1>6, <2>1 DEF Proceed
    <2> QED BY <1>1, <1>6, <2>5, <2>6, AloneStep DEF Background
  <1>7. UNCHANGED vars => PlainOp
    BY DEF PlainOp
  <1>8. ASSUME NEW r \in Request, NEW kind \in Kind, NEW a \in Asset, Load(r, kind, a)
        PROVE  FInv'
    <2>1. Live(a) /\ UNCHANGED vars
      BY <1>8 DEF Load
    <2>2. PICK q \in RequestState :
            /\ q.pc = "loaded" /\ q.kind = kind /\ q.asset = a /\ q.seen = asset[a].status
            /\ request' = [request EXCEPT ![r] = q]
      <3> DEFINE x == [pc |-> "loaded", kind |-> kind, asset |-> a, seen |-> asset[a].status]
      <3>1. x \in RequestState
        BY <2>1, RequestAssumption DEF Live, RequestState, RequestPc
      <3> QED BY <1>8, <3>1 DEF Load
    <2>3. SeenPending(q) /\ WorkHasBytes(q)
      BY <2>2 DEF SeenPending, WorkHasBytes
    <2>4. KeyUnfinished(q)
      BY <2>1, <2>2 DEF KeyUnfinished, MayDemote, UniqueDigest, KeysNameDigests, Live
    <2>5. InHand(q)'
      BY <1>4, <1>7, <2>1, <2>2, <2>3, <2>4 DEF InHand, Background, Live
    <2> QED BY <1>1, <1>4, <1>7, <2>1, <2>2, <2>5, AloneStep DEF Background
  <1>9. ASSUME NEW r \in Request, Abort(r)
        PROVE  FInv'
    BY <1>4, <1>5, <1>7, <1>9 DEF Abort, Answer
  <1>10. ASSUME NEW r \in Request, RequestStep(r)
         PROVE  FInv'
    <2> DEFINE a == request[r].asset
    <2>1. /\ request[r].pc # "idle" /\ a \in Asset
          /\ KeyOfRequest(r) \in Key /\ KeyOfRequest(r) = KeyOf[a]
          /\ request[r] \in RequestState /\ InHand(request[r])
      BY <1>2, <1>10, HandlerSteps
    <2>2. \A pc \in RequestPc : [request[r] EXCEPT !.pc = pc].pc = pc
          /\ [request[r] EXCEPT !.pc = pc].asset = a
          /\ [request[r] EXCEPT !.pc = pc].kind = request[r].kind
          /\ [request[r] EXCEPT !.pc = pc].seen = request[r].seen
      BY <2>1 DEF RequestState
    <2>3. SetUploadExpiry(a) \/ MarkHashVerified(a) => PlainOp
      BY <2>1 DEF PlainOp
    <2>4. CASE Renew(r)
      <3>1. Background
        BY <1>4, <1>7, <2>3, <2>4 DEF Renew
      <3>2. CASE Answer(r)
        BY <1>5, <3>1, <3>2 DEF Answer
      <3>3. CASE Proceed(r, "renewed")
                 /\ (request[r].kind = "complete" => request[r].seen # "complete")
        <4>1. request[r].seen \in {"pending", "complete"} /\ request[r].kind # "verify"
          BY <2>1, <2>4 DEF RequestState, Renew, At
        <4> QED BY <1>6, <2>1, <2>2, <3>1, <3>3, <4>1 DEF SeenPending, WorkHasBytes, RequestPc
      <3> QED BY <2>4, <3>2, <3>3 DEF Renew
    <2>5. CASE SizeUp(r)
      BY <1>4, <1>5, <1>6, <1>7, <2>1, <2>2, <2>5
         DEF SizeUp, At, Answer, InHand, SeenPending, WorkHasBytes, RequestPc
    <2>6. CASE Verify(r)
      BY <1>4, <1>6, <1>7, <2>1, <2>2, <2>6
         DEF Verify, At, InHand, SeenPending, WorkHasBytes, RequestPc
    <2>7. CASE RecordMismatch(r)
      BY <1>4, <1>5, <1>7, <2>1, <2>7 DEF RecordMismatch, Answer
    <2>8. CASE RecordVerified(r)
      BY <1>4, <1>5, <1>6, <1>7, <2>1, <2>2, <2>3, <2>8
         DEF RecordVerified, Write, At, Answer, InHand, SeenPending, WorkHasBytes, RequestPc
    <2>9. CASE ReadBack(r)
      BY <1>4, <1>5, <1>6, <1>7, <2>1, <2>2, <2>9
         DEF ReadBack, At, Answer, InHand, SeenPending, WorkHasBytes, RequestPc
    <2>10. CASE Receive(r)
      <3>1. request[r].kind = "stream" /\ Proceed(r, "verified")
            /\ object' = [object EXCEPT ![KeyOf[a]] = "right"]
            /\ UNCHANGED <<asset, bindings, worker, clock>>
        BY <2>1, <2>10 DEF Receive, At, SetObject
      <3>2. PlainOp
        BY <2>1, <3>1 DEF PlainOp, PutObject, Content
      <3>3. PICK q \in RequestState : q = [request[r] EXCEPT !.pc = "verified"]
        BY <2>1 DEF RequestState, RequestPc
      <3>4. q.asset = a /\ q.kind = "stream" /\ q.pc = "verified"
        BY <2>2, <3>1, <3>3 DEF RequestPc
      <3>5. object'[KeyOf[a]] = "right"
        BY <2>1, <3>1 DEF IInv, TypeOK
      <3>6. InHand(q)'
        BY <3>4, <3>5 DEF InHand, SeenPending, KeyUnfinished, MayDemote, WorkHasBytes
      <3>7. request' = [request EXCEPT ![r] = q]
        BY <1>2, <3>1, <3>3 DEF Proceed
      <3> QED BY <1>1, <1>4, <3>2, <3>6, <3>7, AloneStep DEF Background
    <2>11. CASE Finish(r)
      <3>1. request' = [request EXCEPT ![r] = NoRequest] /\ (CompleteAsset(a) \/ UNCHANGED vars)
        BY <2>11 DEF Finish, Answer
      <3>2. CASE UNCHANGED vars
        BY <1>4, <1>5, <1>7, <3>1, <3>2
      <3>3. CASE CompleteAsset(a)
        <4>1. /\ Live(a) /\ ~asset[a].deleting /\ UNCHANGED <<object, bindings>>
              /\ \A b \in Asset \ {a} : asset'[b] = asset[b]
          BY <2>1, <3>3, RowReads DEF CompleteAsset, Mutable, SetRow, IInv
        <4>2. object[KeyOf[a]] # "missing"
          BY <2>1, <2>11, <4>1 DEF Finish, At, InHand, WorkHasBytes
        <4>3. UniqueDigest'
          BY <4>1 DEF UniqueDigest, Live
        <4>4. CompleteHasBytes'
          BY <4>1, <4>2 DEF CompleteHasBytes
        <4> QED BY <1>1, <1>3, <3>1, <4>3, <4>4, AloneStep
      <3> QED BY <3>1, <3>2, <3>3
    <2>12. CASE Discard(r)
      <3>1. /\ request[r].kind = "complete" /\ request[r].pc = "reject"
            /\ Proceed(r, "removed")
            /\ object' = [object EXCEPT ![KeyOf[a]] = "missing"]
            /\ UNCHANGED asset
        BY <2>1, <2>12 DEF Discard, At, SetObject
      <3>2. request[r].seen = "pending"
        BY <2>1, <3>1 DEF InHand, SeenPending
      <3>3. \A b \in Asset : KeyOf[b] = KeyOf[a] => asset[b].status # "complete"
        BY <2>1, <3>1, <3>2 DEF InHand, KeyUnfinished, MayDemote
      <3>4. CompleteHasBytes'
        <4>1. \A k \in Key : k # KeyOf[a] => object'[k] = object[k]
          BY <3>1 DEF IInv, TypeOK
        <4>2. \A b \in Asset : KeyOf[b] \in Key
          BY ShapeAssumption
        <4> QED BY <3>1, <3>3, <4>1, <4>2 DEF CompleteHasBytes
      <3>5. UniqueDigest'
        BY <3>1 DEF UniqueDigest, Live
      <3>6. PICK q \in RequestState : q = [request[r] EXCEPT !.pc = "removed"]
        BY <2>1 DEF RequestState, RequestPc
      <3>7. /\ q.asset = a /\ q.kind = "complete" /\ q.pc = "removed"
            /\ q.seen = "pending"
        BY <2>2, <3>1, <3>2, <3>6 DEF RequestPc
      <3>8. InHand(q)'
        BY <3>1, <3>3, <3>7 DEF InHand, SeenPending, KeyUnfinished, WorkHasBytes
      <3>9. request' = [request EXCEPT ![r] = q]
        BY <1>2, <3>1, <3>6 DEF Proceed
      <3> QED BY <1>1, <3>4, <3>5, <3>8, <3>9, AloneStep
    <2> QED BY <1>10, <2>4, <2>5, <2>6, <2>7, <2>8, <2>9, <2>10, <2>11, <2>12 DEF RequestStep
  <1>11. CASE UNCHANGED request /\ ((\E a \in Asset : CreateAsset(a)) \/ PlainOp)
    BY <1>1, <1>2, <1>4, <1>11 DEF Background
  <1>12. CASE UNCHANGED flowVars
    BY <1>1, <1>2, <1>4, <1>7, <1>12 DEF Background, flowVars
  <1> QED BY <1>8, <1>9, <1>10, <1>11, <1>12, StoreSteps

LEMMA FInvAlways ==
    ASSUME OneAtATime, KeysNameDigests
    PROVE  FlowSpec => []FInv
  <1>1. FlowInit => FInv
    BY FInvInit
  <1>2. FInv /\ [FlowNext]_flowVars => FInv'
    BY FInvStep
  <1> QED BY <1>1, <1>2, PTL DEF FlowSpec

\* While requests come one after the other, what is complete and not condemned
\* has its bytes, whatever clients put and however many workers reclaim.
THEOREM CompleteHasBytesAlone ==
    ASSUME OneAtATime, KeysNameDigests
    PROVE  FlowSpec => []CompleteHasBytes
  <1>1. FInv => CompleteHasBytes
    BY DEF FInv
  <1> QED BY <1>1, FInvAlways, PTL

\* And no request takes it back.
THEOREM PublishedStaysAlone ==
    ASSUME OneAtATime, KeysNameDigests
    PROVE  FlowSpec => PublishedStays
  <1> DEFINE Stays == \A a \in Asset : asset[a].status = "complete" => asset'[a].status # "pending"
  <1>1. FInv /\ [FlowNext]_flowVars => Stays
    <2> SUFFICES ASSUME FInv, [FlowNext]_flowVars, NEW a \in Asset,
                        asset[a].status = "complete", asset'[a].status = "pending"
                 PROVE  FALSE
      OBVIOUS
    <2> USE DEF FInv, GInv
    <2>1. ~PlainOp
      BY PlainKeepsStatus
    <2>2. asset' # asset
      OBVIOUS
    <2>3. ASSUME NEW b \in Asset, CreateAsset(b)
          PROVE  FALSE
      BY <2>3 DEF CreateAsset, SetRow, IInv, TypeOK
    <2>4. PICK r \in Request : RequestStep(r)
      BY <2>1, <2>2, <2>3, StoreSteps DEF flowVars, vars, Load, Abort
    <2> DEFINE b == request[r].asset
    <2>5. b \in Asset /\ InHand(request[r]) /\ request[r] \in RequestState
      BY <2>4, HandlerSteps DEF RequestsTyped
    <2>6. ASSUME NEW x \in Asset, SetUploadExpiry(x) \/ MarkHashVerified(x)
          PROVE  FALSE
      BY <2>1, <2>6 DEF PlainOp
    <2>7. CASE RecordMismatch(r) /\ MarkHashMismatch(b)
      <3>1. a = b
        BY <2>5, <2>7, RowReads DEF MarkHashMismatch, SetRow, IInv
      <3>2. MayDemote(request[r])
        BY <2>5, <2>7 DEF RecordMismatch, At, InHand, SeenPending, MayDemote
      <3> QED BY <2>5, <3>1, <3>2 DEF InHand, KeyUnfinished
    <2>8. CASE CompleteAsset(b)
      <3>1. a = b
        BY <2>5, <2>8, RowReads DEF CompleteAsset, SetRow, IInv
      <3> DEFINE r1 == [Unclaimed(asset[b]) EXCEPT !.status = "complete"]
      <3>2. r1 \in Row /\ r1.status = "complete"
        <4>1. Unclaimed(asset[b]) \in Row
          BY <2>5, ClaimTypes DEF IInv, TypeOK
        <4> QED BY <4>1 DEF Row, Status
      <3>3. asset'[b] = StatusTrigger(r1, asset[b], Bound(b))
        BY <2>5, <2>8 DEF CompleteAsset, SetRow, IInv, TypeOK
      <3> HIDE DEF r1
      <3> QED BY <3>1, <3>2, <3>3 DEF StatusTrigger, Row
    <2> QED
      BY <2>2, <2>4, <2>5, <2>6, <2>7, <2>8
         DEF RequestStep, Renew, SizeUp, Verify, Discard, RecordMismatch, RecordVerified,
             Finish, Receive, ReadBack, Write, SetObject, vars
  <1>2. FlowSpec => [][Stays]_flowVars
    BY <1>1, FInvAlways, PTL DEF FlowSpec
  <1> QED BY <1>2, PTL DEF PublishedStays
=============================================================================
