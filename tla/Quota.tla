------------------------------- MODULE Quota -------------------------------
(***************************************************************************)
(* Byte and concurrency budgets: the reservation initiateUpload makes      *)
(* (store.CreatePendingAsset), the redemption of an unknown size           *)
(* (store.CheckCompleteCapacity), and what completeUpload and streamUpload *)
(* do with the answer.                                                     *)
(*                                                                         *)
(* Both transactions take the site-wide advisory lock before the user's,   *)
(* so the site-wide one alone decides who waits; they read the usage of    *)
(* the user and of the site by two queries, and completing or reclaiming a *)
(* row takes neither lock.  A row has one request at a time: UploadFlow    *)
(* shows what two of them do to it.  Leases are there, too; the reclaim of *)
(* a row is one step here and a protocol in AssetStore.                    *)
(***************************************************************************)
EXTENDS Integers, FiniteSets

CONSTANTS
    Asset, User, Request,
    OwnerOf,         \* Asset -> User: uploader_id
    Declared,        \* Asset -> Nat: declared_size, 0 when it is not known
    Actual,          \* Asset -> Nat: the size of the bytes of the digest
    UserQuota,       \* QuotaLimits: 0 is no limit
    SiteQuota,
    UserConcurrent,
    SiteConcurrent,
    NoAsset, Nobody

ASSUME QuotaAssumption ==
    /\ OwnerOf \in [Asset -> User]
    /\ Declared \in [Asset -> Nat]
    /\ Actual \in [Asset -> Nat \ {0}]
    /\ UserQuota \in Nat /\ SiteQuota \in Nat
    /\ UserConcurrent \in Nat /\ SiteConcurrent \in Nat
    /\ NoAsset \notin Asset
    /\ Nobody \notin Request

VARIABLES
    status,   \* of each row
    stored,   \* the bytes under the key of each row
    request,  \* requests in hand
    holder    \* of the site-wide budget lock

vars == <<status, stored, request, holder>>

-----------------------------------------------------------------------------
(* State *)

Kinds == {"initiate", "complete", "stream"}

\* none, bytes of the digest of the row, or other ones.
Bytes == {"none", "right", "junk"}

\* wait: for the lock; locked, user: usage being read; site: both usages read;
\* settle: about to complete the row; reject, demote: refused;
\* discard: about to remove what was just received.
Pc == {"idle", "wait", "locked", "user", "site", "settle", "reject", "demote",
       "discard"}

Usage == [bytes : Nat, count : Nat]

NoUsage == [bytes |-> 0, count |-> 0]

\* Faulty variant: the size not yet known is -1.
MinusOne == [pc |-> "idle", kind |-> "initiate", asset |-> NoAsset, size |-> 0 - 1,
             user |-> NoUsage, site |-> NoUsage]

NoRequest == [pc |-> "idle", kind |-> "initiate", asset |-> NoAsset, size |-> 0,
              user |-> NoUsage, site |-> NoUsage]

Live(a) == status[a] \in {"pending", "complete"}

Init ==
    /\ status = [a \in Asset |-> "unborn"]
    /\ stored = [a \in Asset |-> "none"]
    /\ request = [r \in Request |-> NoRequest]
    /\ holder = Nobody

\* Complete rows count with their real size, pending ones with the declared.
Charge(a) == CASE status[a] = "complete" -> Actual[a]
               [] status[a] = "pending" -> Declared[a]
               [] OTHER -> 0

\* One element for each byte charged: the sum of the sizes is their number.
Units(rows) == UNION {{a} \X (1 .. Charge(a)) : a \in rows}

UsageOf(rows) ==
    [bytes |-> Cardinality(Units(rows)),
     count |-> Cardinality({a \in rows : status[a] = "pending"})]

\* Other bytes have any size; those that matter have the declared one.
SizeOf(a) == IF stored[a] = "junk" /\ Declared[a] > 0 THEN Declared[a] ELSE Actual[a]

Free(a) == \A r \in Request : request[r].asset # a

UserRows(u) == {a \in Asset : OwnerOf[a] = u}

-----------------------------------------------------------------------------
(* Requests *)

Goto(r, pc) == request' = [request EXCEPT ![r].pc = pc]

Start(r, kind, a, size, pc) ==
    /\ request[r].pc = "idle"
    /\ Free(a)
    /\ request' = [request EXCEPT ![r] =
          [NoRequest EXCEPT !.pc = pc, !.kind = kind, !.asset = a, !.size = size]]

Answer(r) == request' = [request EXCEPT ![r] = NoRequest]

\* The end of a transaction.
Unlock(r) == holder' = IF holder = r THEN Nobody ELSE holder

Initiate(r, a) ==
    /\ status[a] = "unborn"
    /\ Start(r, "initiate", a, Declared[a], "wait")
    /\ UNCHANGED <<status, stored, holder>>

\* A presigned PUT, which may come at any time and hold anything.
Put(a, bytes) ==
    /\ Live(a)
    /\ stored' = [stored EXCEPT ![a] = bytes]
    /\ UNCHANGED <<status, request, holder>>

\* Only rows seen pending come this far, and only with the declared size.
Complete(r, a) ==
    /\ status[a] = "pending"
    /\ stored[a] # "none"
    /\ Declared[a] \in {0, SizeOf(a)}
    /\ Start(r, "complete", a, SizeOf(a), IF Declared[a] = 0 THEN "wait" ELSE "settle")
    /\ UNCHANGED <<status, stored, holder>>

\* streamUpload receives the bytes whether the row is complete or not.
Receive(r, a) ==
    /\ Live(a)
    /\ stored' = [stored EXCEPT ![a] = "right"]
    /\ Start(r, "stream", a, Actual[a], CASE Declared[a] = 0 -> "wait"
                                          [] Declared[a] = Actual[a] -> "settle"
                                          [] OTHER -> "discard")
    /\ UNCHANGED <<status, holder>>

-----------------------------------------------------------------------------
(* The two transactions *)

\* Faulty variant: no lock is taken.
LockNothing(r) ==
    /\ request[r].pc = "wait"
    /\ Goto(r, "locked")
    /\ UNCHANGED <<status, stored, holder>>

Lock(r) ==
    /\ request[r].pc = "wait"
    /\ holder = Nobody
    /\ holder' = r
    /\ Goto(r, "locked")
    /\ UNCHANGED <<status, stored>>

ReadUser(r) ==
    /\ request[r].pc = "locked"
    /\ request' = [request EXCEPT
          ![r].pc = "user",
          ![r].user = UsageOf(UserRows(OwnerOf[request[r].asset]))]
    /\ UNCHANGED <<status, stored, holder>>

ReadSite(r) ==
    /\ request[r].pc = "user"
    /\ request' = [request EXCEPT ![r].pc = "site", ![r].site = UsageOf(Asset)]
    /\ UNCHANGED <<status, stored, holder>>

Exceeds(used, more, limit) == limit > 0 /\ used.bytes + more > limit

Full(used, limit) == limit > 0 /\ used.count >= limit

\* Faulty variant: the transaction of a refused reservation stays open.
ReserveKeepsLock(r) ==
    LET a    == request[r].asset
        used == request[r]
        fits == /\ ~Full(used.user, UserConcurrent)
                /\ ~Full(used.site, SiteConcurrent)
                /\ ~Exceeds(used.user, Declared[a], UserQuota)
                /\ ~Exceeds(used.site, Declared[a], SiteQuota)
    IN  /\ used.pc = "site" /\ used.kind = "initiate"
        /\ status' = [status EXCEPT ![a] = IF fits THEN "pending" ELSE @]
        /\ holder' = IF fits THEN Nobody ELSE holder
        /\ Answer(r)
        /\ UNCHANGED stored

\* CreatePendingAsset: refuse, or insert the row; either way the lock goes.
Reserve(r) ==
    LET a    == request[r].asset
        used == request[r]
        fits == /\ ~Full(used.user, UserConcurrent)
                /\ ~Full(used.site, SiteConcurrent)
                /\ ~Exceeds(used.user, Declared[a], UserQuota)
                /\ ~Exceeds(used.site, Declared[a], SiteQuota)
    IN  /\ used.pc = "site" /\ used.kind = "initiate"
        /\ status' = [status EXCEPT ![a] = IF fits THEN "pending" ELSE @]
        /\ Unlock(r)
        /\ Answer(r)
        /\ UNCHANGED stored

\* CheckCompleteCapacity records nothing: what fits is only claimed when the
\* row is completed.
Redeem(r) ==
    LET a    == request[r].asset
        used == request[r]
        more == used.size - Declared[a]
    IN  /\ used.pc = "site" /\ used.kind # "initiate"
        /\ Goto(r, IF Exceeds(used.user, more, UserQuota) \/ Exceeds(used.site, more, SiteQuota)
                   THEN "reject" ELSE "settle")
        /\ Unlock(r)
        /\ UNCHANGED <<status, stored>>

\* A database error ends the request: 500, and streamUpload removes the object
\* it has just written when it has not been told that it fits.
Break(r) ==
    /\ request[r].pc \in {"wait", "locked", "user", "site", "settle"}
    /\ IF request[r].kind = "stream" /\ request[r].pc # "settle"
       THEN Goto(r, "discard")
       ELSE Answer(r)
    /\ Unlock(r)
    /\ UNCHANGED <<status, stored>>

-----------------------------------------------------------------------------
(* After the answer *)

\* VerifyHash, then MarkHashVerified and CompleteAsset, or their refusal.
\* PutStream has verified what it received.
Settle(r) ==
    LET a  == request[r].asset
        ok == request[r].kind = "stream" \/ stored[a] = "right"
    IN  /\ request[r].pc = "settle"
        /\ status' = [status EXCEPT ![a] = IF ok /\ Live(a) THEN "complete" ELSE @]
        /\ IF ok THEN Answer(r) ELSE Goto(r, "reject")
        /\ UNCHANGED <<stored, holder>>

\* Whatever the refusal, the object is removed.
Remove(r) ==
    /\ request[r].pc \in {"reject", "discard"}
    /\ stored' = [stored EXCEPT ![request[r].asset] = "none"]
    /\ IF request[r].pc = "reject" THEN Goto(r, "demote") ELSE Answer(r)
    /\ UNCHANGED <<status, holder>>

\* MarkHashMismatch.
Demote(r) ==
    LET a == request[r].asset
    IN  /\ request[r].pc = "demote"
        /\ status' = [status EXCEPT ![a] = IF Live(a) THEN "pending" ELSE @]
        /\ Answer(r)
        /\ UNCHANGED <<stored, holder>>

\* The cleanup worker (AssetStore) gives the budget of an unused row back.
Reclaim(a) ==
    /\ Live(a)
    /\ status' = [status EXCEPT ![a] = "gone"]
    /\ stored' = [stored EXCEPT ![a] = "none"]
    /\ UNCHANGED <<request, holder>>

-----------------------------------------------------------------------------
(* The system *)

Step(r) ==
    \/ Lock(r) \/ ReadUser(r) \/ ReadSite(r) \/ Reserve(r) \/ Redeem(r)
    \/ Settle(r) \/ Remove(r) \/ Demote(r)

Next ==
    \/ \E r \in Request, a \in Asset : Initiate(r, a) \/ Complete(r, a) \/ Receive(r, a)
    \/ \E r \in Request : Step(r) \/ Break(r)
    \/ \E a \in Asset : Reclaim(a) \/ \E bytes \in {"right", "junk"} : Put(a, bytes)

Spec == Init /\ [][Next]_vars

\* Requests run on; PostgreSQL queues who waits for an advisory lock.
FairSpec == Spec /\ \A r \in Request : WF_vars(Step(r)) /\ SF_vars(Lock(r))

-----------------------------------------------------------------------------
(* Properties *)

\* Every variable has its type.
TypeOK ==
    /\ status \in [Asset -> {"unborn", "pending", "complete", "gone"}]
    /\ stored \in [Asset -> Bytes]
    /\ request \in [Request -> [pc : Pc, kind : Kinds, asset : Asset \cup {NoAsset},
                                size : Nat, user : Usage, site : Usage]]
    /\ holder \in Request \cup {Nobody}

Within(used, limit) == limit = 0 \/ used.bytes <= limit

\* As long as no row is complete with a size it did not declare.  Such a row
\* may overdraw: an unknown size is checked in one transaction and counted by a
\* later one, and a declared size is compared with the object before the
\* read-back, which a PUT may replace in between.
BytesHold ==
    (\A a \in Asset : status[a] = "complete" => Declared[a] = Actual[a]) =>
        /\ Within(UsageOf(Asset), SiteQuota)
        /\ \A u \in User : Within(UsageOf(UserRows(u)), UserQuota)

\* Uploads in progress that a reservation was made for.
Reserved(rows) == {a \in rows : status[a] = "pending" /\ Declared[a] > 0}

UploadsInProgressHold ==
    /\ SiteConcurrent = 0 \/ Cardinality(Reserved(Asset)) <= SiteConcurrent
    /\ \A u \in User :
          UserConcurrent = 0 \/ Cardinality(Reserved(UserRows(u))) <= UserConcurrent

\* Concurrent reservations do not overdraw a budget ("no more over-issue",
\* CreatePendingAsset), neither of bytes nor of uploads in progress, although
\* rows are completed, taken back and reclaimed without the lock.
BudgetsHold == BytesHold /\ UploadsInProgressHold

\* Nobody waits for ever: the lock comes round and every request is answered.
RequestsAreAnswered == \A r \in Request : request[r].pc # "idle" ~> request[r].pc = "idle"

\* A refusal for lack of budget leaves an upload where it was, pending
\* (CheckCompleteCapacity): it does not take a finished upload back.
RefusalKeepsFinished ==
    [][\A a \in Asset : status[a] = "complete" => status'[a] # "pending"]_vars
=============================================================================
