----------------------------- MODULE UploadFlow -----------------------------
(***************************************************************************)
(* The upload handlers (internal/handler): what a request reads once and    *)
(* acts on later, over the tables, the object store and the cleanup worker *)
(* of AssetStore.                                                          *)
(*                                                                         *)
(* A request is a process.  Each call it makes into the database or the    *)
(* object store is one step, and everything else may happen in between.    *)
(* The object calls of the handlers take no lock.  initiateUpload, bind,   *)
(* unbind and setBlocked carry nothing over from a read to their one write *)
(* and stay the operations of AssetStore.  Rows declare the true size of   *)
(* their digest: module Quota has false and unknown sizes and the quotas.  *)
(* The object store is S3 (in local mode only streamUpload finishes rows). *)
(***************************************************************************)
EXTENDS AssetStore

CONSTANTS
    Request,      \* requests the server can have in hand at one time
    Kind          \* which handlers are called: see Kinds

Kinds == {"complete", "stream", "verify"}

ASSUME RequestAssumption == Kind \subseteq Kinds

VARIABLE request

flowVars == <<vars, request>>

-----------------------------------------------------------------------------
(* State *)

\* loaded: the row was read; renewed: its lease is renewed; sized: an object of
\* the declared size is there; reject: its content is wrong or unreadable;
\* removed: and it is removed; verified: its content is right; marked: and
\* that is recorded.
RequestPc == {"idle", "loaded", "renewed", "sized", "reject", "removed",
              "verified", "marked"}

RequestState == [pc : RequestPc,
                 kind : Kinds,
                 asset : Asset \cup {NoAsset},
                 seen : {"pending", "complete"}]  \* status when loaded

NoRequest == [pc |-> "idle", kind |-> "complete", asset |-> NoAsset,
              seen |-> "pending"]

FlowInit == Init /\ request = [r \in Request |-> NoRequest]

KeyOfRequest(r) == KeyOf[request[r].asset]

-----------------------------------------------------------------------------
(* Steps of a request *)

At(r, kinds, pc) == request[r].kind \in kinds /\ request[r].pc = pc

Proceed(r, pc) == request' = [request EXCEPT ![r].pc = pc]

Answer(r) == request' = [request EXCEPT ![r] = NoRequest]

\* The row is gone or being deleted: 404 or 409 asset_reclaiming.
Refused(a) == RowFree(a) /\ (~Live(a) \/ asset[a].deleting)

\* A write to the row of the request, or its refusal, which ends the request.
Write(r, Op(_), next) ==
    LET a == request[r].asset
    IN  \/ Op(a) /\ Proceed(r, next)
        \/ Refused(a) /\ Answer(r) /\ UNCHANGED vars

SetObject(k, c) ==
    /\ object' = [object EXCEPT ![k] = c]
    /\ UNCHANGED <<asset, bindings, worker, clock>>

\* Faulty variant: a row that does not exist is loaded, too.
LoadAnyRow(r, kind, a) ==
    /\ request[r].pc = "idle"
    /\ request' = [request EXCEPT ![r] =
                     [pc |-> "loaded", kind |-> kind, asset |-> a,
                      seen |-> asset[a].status]]
    /\ UNCHANGED vars

\* The row is read, and the right to manage it is checked (left out).
Load(r, kind, a) ==
    /\ request[r].pc = "idle"
    /\ Live(a)
    /\ request' = [request EXCEPT ![r] =
                     [pc |-> "loaded", kind |-> kind, asset |-> a,
                      seen |-> asset[a].status]]
    /\ UNCHANGED vars

\* Faulty variant: a row that is complete is completed again.
RenewAlways(r) ==
    LET a == request[r].asset
    IN  /\ At(r, {"complete", "stream"}, "loaded")
        /\ \/ SetUploadExpiry(a) /\ Proceed(r, "renewed")
           \/ Refused(a) /\ Answer(r) /\ UNCHANGED vars

\* completeUpload of a row seen complete answers already_complete.
Renew(r) ==
    LET a == request[r].asset
    IN  /\ At(r, {"complete", "stream"}, "loaded")
        /\ \/ /\ SetUploadExpiry(a)
              /\ IF request[r].kind = "complete" /\ request[r].seen = "complete"
                 THEN Answer(r) ELSE Proceed(r, "renewed")
           \/ Refused(a) /\ Answer(r) /\ UNCHANGED vars

\* CompleteUpload and the comparison of sizes.  Bytes of another digest may or
\* may not have the declared size.
SizeUp(r) ==
    /\ At(r, {"complete"}, "renewed")
    /\ \/ object[KeyOfRequest(r)] # "missing" /\ Proceed(r, "sized")
       \/ object[KeyOfRequest(r)] # "right" /\ Answer(r)
    /\ UNCHANGED vars

\* VerifyHash of completeUpload: a read error, a time-out and a size limit are
\* treated like a mismatch.
Verify(r) ==
    /\ At(r, {"complete"}, "sized")
    /\ \/ object[KeyOfRequest(r)] = "right" /\ Proceed(r, "verified")
       \/ object[KeyOfRequest(r)] # "right" /\ Proceed(r, "reject")
       \/ clock <= FaultsUntil /\ Proceed(r, "reject")
    /\ UNCHANGED vars

\* The pollution of the content-addressed key is removed, errors ignored.
Discard(r) ==
    /\ At(r, {"complete"}, "reject")
    /\ Proceed(r, "removed")
    /\ SetObject(KeyOfRequest(r), "missing")

\* The error of MarkHashMismatch is only logged.
RecordMismatch(r) ==
    LET a == request[r].asset
    IN  /\ At(r, {"complete", "verify"}, "removed")
        /\ Answer(r)
        /\ \/ MarkHashMismatch(a)
           \/ /\ Refused(a) \/ (RowFree(a) /\ asset[a].expires = NoTime)
              /\ UNCHANGED vars

\* Faulty variant: the verdict is not recorded before the row is completed.
RecordVerifiedLater(r) ==
    /\ At(r, {"complete", "stream"}, "verified")
    /\ Proceed(r, "marked")
    /\ UNCHANGED vars

RecordVerified(r) ==
    /\ At(r, {"complete", "stream"}, "verified")
    /\ Write(r, MarkHashVerified, "marked")

\* CompleteAsset; a verdict taken back meanwhile is ErrAssetUnverified.
Finish(r) ==
    LET a == request[r].asset
    IN  /\ At(r, {"complete", "stream"}, "marked")
        /\ Answer(r)
        /\ \/ CompleteAsset(a)
           \/ /\ Refused(a) \/ (RowFree(a) /\ ~asset[a].verified)
              /\ UNCHANGED vars

\* streamUpload: only bytes of the declared digest are published, whatever the
\* row's status is.
Receive(r) ==
    /\ At(r, {"stream"}, "renewed")
    /\ Proceed(r, "verified")
    /\ SetObject(KeyOfRequest(r), "right")

\* Faulty variant: verifyHash demotes what it read as complete, too.
ReadBackAlwaysDemotes(r) ==
    /\ At(r, {"verify"}, "loaded")
    /\ IF object[KeyOfRequest(r)] = "wrong" THEN Proceed(r, "removed") ELSE Answer(r)
    /\ UNCHANGED vars

\* verifyHash by asset: a row seen complete is not demoted.
ReadBack(r) ==
    /\ At(r, {"verify"}, "loaded")
    /\ IF object[KeyOfRequest(r)] = "wrong" /\ request[r].seen = "pending"
       THEN Proceed(r, "removed") ELSE Answer(r)
    /\ UNCHANGED vars

\* The client goes away, a call fails or the server restarts: the context is
\* cancelled and nothing more happens.
Abort(r) ==
    /\ clock <= FaultsUntil
    /\ request[r].pc # "idle"
    /\ Answer(r)
    /\ UNCHANGED vars

-----------------------------------------------------------------------------
(* The system *)

RequestStep(r) ==
    \/ Renew(r) \/ SizeUp(r) \/ Verify(r) \/ Discard(r) \/ RecordMismatch(r)
    \/ RecordVerified(r) \/ Finish(r) \/ Receive(r) \/ ReadBack(r)

\* initiateUpload opens a row, or renews the lease of an upload in progress.
Initiate(a) == CreateAsset(a) \/ (asset[a].status = "pending" /\ SetUploadExpiry(a))

Upload(c) == \E k \in Key : PutObject(k, c)

OtherStoreOp ==
    \/ \E a \in Asset : SetBlocked(a) \/ ClearBlocked(a)
    \/ \E a \in Asset, e \in Entity : Bind(a, e) \/ Unbind(a, e)

FlowNext ==
    \/ \E r \in Request, kind \in Kind, a \in Asset : Load(r, kind, a)
    \/ \E r \in Request : RequestStep(r) \/ Abort(r)
    \/ /\ \/ \E a \in Asset : Initiate(a)
          \/ Upload("right") \/ Upload("wrong")
          \/ OtherStoreOp
          \/ \E w \in Worker : WorkerStep(w) \/ Fault(w)
          \/ Tick
       /\ UNCHANGED request

FlowSpec == FlowInit /\ [][FlowNext]_flowVars

\* The server works on what it was asked, the worker is started again and
\* again, and an owner who wants the file keeps uploading it and asking.
FlowFairSpec ==
    /\ FlowSpec
    /\ \A r \in Request :
          /\ WF_flowVars(RequestStep(r))
          /\ SF_flowVars(\E a \in Asset : Load(r, "complete", a))
    /\ WF_flowVars(Upload("right") /\ UNCHANGED request)
    /\ \A w \in Worker : WF_flowVars(WorkerStep(w) /\ UNCHANGED request)
    /\ WF_flowVars(Tick /\ UNCHANGED request)

-----------------------------------------------------------------------------
(* Properties *)

\* Every variable has its type, and a request in hand has a row.
FlowTypeOK ==
    /\ TypeOK
    /\ request \in [Request -> RequestState]
    /\ \A r \in Request : request[r].pc # "idle" => request[r].asset \in Asset

\* The service offers a complete row for download and instant upload, so its
\* bytes are there (VerifiedAssetByHash: hash_verified is the one proof that
\* the content is in the store).
CompleteHasBytes ==
    \A a \in Asset : asset[a].status = "complete" /\ ~asset[a].deleting =>
                       object[KeyOf[a]] # "missing"

\* The weaker form: at least when no request is at work any more.
BytesAtRest == (\A r \in Request : request[r].pc = "idle") => CompleteHasBytes

\* verifyHash does not demote a complete row (files.go:500).  Not kept, and
\* checked by no run: it goes by the status it loaded before the read-back, and
\* the row may be completed meanwhile.
VerifyKeepsPublished ==
    [][\A r \in Request : request[r].kind = "verify" /\ RecordMismatch(r) =>
         asset[request[r].asset].status # "complete"]_flowVars

\* What is published stays: while requests come one after the other, none takes
\* a complete row back, whatever clients put under its key meanwhile.
PublishedStays ==
    [][\A a \in Asset : asset[a].status = "complete" => asset'[a].status # "pending"]_flowVars

\* A failed upload does not occupy its digest for good: once nobody uploads
\* other bytes, an owner who keeps uploading and completing gets the row
\* complete, unless it is reclaimed.
RetryingOwnerPublishes ==
    <>[][~(Upload("wrong") /\ UNCHANGED request)]_flowVars =>
        \A a \in Asset :
            asset[a].status = "pending" ~> asset[a].status # "pending" \/ asset[a].deleting
=============================================================================
