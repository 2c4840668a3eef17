------------------------------ MODULE ReadGate ------------------------------
(***************************************************************************)
(* The answer to a request for a file (handler/files.go): readable and     *)
(* denyUnreadable, which getAsset, assetContent, download, the look-up by  *)
(* digest and the reuse of an upload share, beside the catalogue and the   *)
(* deliveries of CatalogLifecycle.                                         *)
(*                                                                         *)
(* The one who reads is a stranger: whoever uploaded the file, and a       *)
(* moderator, pass after the first check.  The gate reads the row, the     *)
(* deletion mark and the bindings one after the other and asks the         *)
(* catalogue once per binding, while all of them change.                   *)
(***************************************************************************)
EXTENDS CatalogLifecycle

CONSTANTS
    Reader,    \* requests that read, each once
    MaxProbe   \* maxBindingProbe

ASSUME ReadAssumption == MaxProbe \in Nat \ {0}

VARIABLES
    visible,   \* entities that the catalogue shows to the one who reads
    blocked,   \* files that moderation has blocked
    pending,   \* files whose row is not complete
    reader,    \* local state of the requests
    owed       \* history: canonical entities by which the file has been
               \* complete and readable ever since the request read the row

readVars == <<catalog, sent, bindings, receipt, reclaimed, lock, binder, delivery, now,
              visible, blocked, pending, reader, owed>>

ReaderState == {Idle}
                 \cup [pc : {"loaded"}, asset : Asset, open : BOOLEAN]
                 \cup [pc : {"active", "granted"}, asset : Asset]
                 \cup [pc : {"probing"}, asset : Asset, todo : SUBSET Entity]
                 \cup [pc : {"answered"},
                       answer : {"served", "notFound", "missing", "unavailable"}]

Answered(answer) == [pc |-> "answered", answer |-> answer]

\* What the catalogue answers of entity e: the canonical one decides.
Visible(e) == Living(e) /\ catalog[e].canonical \in visible

ReadableBy(a, c) ==
    /\ a \notin pending
    /\ catalog[c].canonical = c /\ Visible(c)
    /\ \E x \in bindings : x.asset = a /\ catalog[x.entity].canonical = c

ReadInit ==
    /\ CatalogInit
    /\ visible \in SUBSET Entity
    /\ blocked = {}
    /\ pending \in SUBSET Asset
    /\ reader = [r \in Reader |-> Idle]
    /\ owed = [r \in Reader |-> {}]

-----------------------------------------------------------------------------
(* What changes beside the reader *)

File(r) == reader[r].asset

Reading(r) == reader[r].pc \notin {"idle", "answered"}

\* What was readable by an entity is so by the one that it was merged into.
OwedStill ==
    owed' = [r \in Reader |->
               {c \in Entity :
                  /\ Reading(r)
                  /\ \E p \in owed[r] : catalog'[p].canonical = c
                  /\ ReadableBy(File(r), c)'}]

ReadersAside == UNCHANGED <<visible, blocked, pending, reader>> /\ OwedStill

CatalogStep == CatalogNext /\ ReadersAside

\* An entity appears to the one who reads, or disappears.
Rights(e) ==
    /\ \E r \in Reader : Reading(r)
    /\ Canonical(e)
    /\ Tick
    /\ visible' = IF e \in visible THEN visible \ {e} ELSE visible \cup {e}
    /\ UNCHANGED <<catalog, sent, bindings, receipt, reclaimed, lock, binder, delivery,
                   blocked, pending, reader>>
    /\ OwedStill

Moderate(a) ==
    /\ \E r \in Reader : Reading(r)
    /\ Tick
    /\ blocked' = IF a \in blocked THEN blocked \ {a} ELSE blocked \cup {a}
    /\ UNCHANGED <<catalog, sent, bindings, receipt, reclaimed, lock, binder, delivery,
                   visible, pending, reader, owed>>

\* Rows of files that are being deleted are neither completed nor demoted.
SetPending(files) ==
    /\ \E r \in Reader : Reading(r)
    /\ Tick
    /\ pending' = files
    /\ UNCHANGED <<catalog, sent, bindings, receipt, reclaimed, lock, binder, delivery,
                   visible, blocked, reader>>
    /\ OwedStill

CompleteAsset(a) == a \in pending \ reclaimed /\ SetPending(pending \ {a})

\* A read-back that fails takes the row back, also one that is bound and complete.
MarkHashMismatch(a) == a \notin pending \cup reclaimed /\ SetPending(pending \cup {a})

-----------------------------------------------------------------------------
(* The gate *)

Goto(r, s) ==
    /\ reader' = [reader EXCEPT ![r] = s]
    /\ UNCHANGED <<catalog, sent, bindings, receipt, reclaimed, lock, binder, delivery,
                   visible, blocked, pending>>

Stay == UNCHANGED <<now, owed>>

\* Asset: from here on block and status are what they were at this moment.
LoadRow(r, a) ==
    LET open == a \notin blocked \cup pending
    IN  /\ reader[r].pc = "idle"
        /\ Goto(r, [pc |-> "loaded", asset |-> a, open |-> open])
        /\ owed' = [owed EXCEPT ![r] = IF open THEN {c \in Entity : ReadableBy(a, c)} ELSE {}]
        /\ UNCHANGED now

\* CheckAssetActive: a file that is being deleted is not found, nor is one that
\* was blocked or not complete when its row was loaded.
CheckActive(r) ==
    /\ reader[r].pc = "loaded"
    /\ \/ Goto(r, IF File(r) \in reclaimed \/ ~reader[r].open
                  THEN Answered("notFound")
                  ELSE [pc |-> "active", asset |-> File(r)])
       \/ Goto(r, Answered("unavailable"))
    /\ Stay

\* BindingsForAsset: the first MaxProbe bindings, in no order.  A query that
\* fails counts as unreadable, by design; nothing is owed then.
ListBindings(r) ==
    LET all == {x \in bindings : x.asset = File(r)}
    IN  /\ reader[r].pc = "active"
        /\ \/ /\ \E some \in SUBSET all :
                   /\ Cardinality(some) = IF Cardinality(all) <= MaxProbe
                                          THEN Cardinality(all) ELSE MaxProbe
                   /\ Goto(r, [pc |-> "probing", asset |-> File(r),
                               todo |-> {x.entity : x \in some}])
              /\ owed' = [owed EXCEPT ![r] = IF Cardinality(all) <= MaxProbe THEN @ ELSE {}]
              /\ UNCHANGED now
           \/ /\ Tick
              /\ Goto(r, Answered("notFound"))
              /\ owed' = [owed EXCEPT ![r] = {}]

\* Faulty variant: a catalogue that does not answer is taken for a "no".
ProbeFailureIsNo(r) ==
    /\ reader[r].pc = "probing"
    /\ \E e \in reader[r].todo :
         \/ Visible(e) /\ Goto(r, [pc |-> "granted", asset |-> File(r)])
         \/ Goto(r, [reader[r] EXCEPT !.todo = @ \ {e}])
    /\ Stay

\* Visible, for one binding after the other: the first "yes" settles it, a "no"
\* passes on, and a catalogue that cannot be asked is answered 503.
Probe(r) ==
    /\ reader[r].pc = "probing"
    /\ \E e \in reader[r].todo :
         \/ Visible(e) /\ Goto(r, [pc |-> "granted", asset |-> File(r)])
         \/ ~Visible(e) /\ Goto(r, [reader[r] EXCEPT !.todo = @ \ {e}])
         \/ Goto(r, Answered("unavailable"))
    /\ Stay

Exhausted(r) ==
    /\ reader[r].pc = "probing"
    /\ reader[r].todo = {}
    /\ Goto(r, Answered("notFound"))
    /\ Stay

\* The object is opened.  It may be missing (another answer, object_missing: what
\* lies under the keys is the matter of UploadFlow), and the object store may fail.
Open(r) ==
    /\ reader[r].pc = "granted"
    /\ \E answer \in {"served", "missing", "unavailable"} : Goto(r, Answered(answer))
    /\ Stay

\* An address is signed, or the row is answered: nobody looks at the object.
Presign(r) ==
    /\ reader[r].pc = "granted"
    /\ Goto(r, Answered("served")) \/ Goto(r, Answered("unavailable"))
    /\ Stay

Reads(r) ==
    \/ \E a \in Asset : LoadRow(r, a)
    \/ CheckActive(r)
    \/ ListBindings(r)
    \/ Probe(r)
    \/ Exhausted(r)
    \/ Open(r)
    \/ Presign(r)

ReadNext ==
    \/ CatalogStep
    \/ \E e \in Entity : Rights(e)
    \/ \E a \in Asset : Moderate(a) \/ CompleteAsset(a) \/ MarkHashMismatch(a)
    \/ \E r \in Reader : Reads(r)

\* As in CatalogLifecycle, here over all variables.
ReadFairness ==
    /\ \A b \in Binder : WF_readVars(CommitBind(b) /\ ReadersAside)
    /\ \A d \in Delivery : WF_readVars(CommitApply(d) /\ ReadersAside)
    /\ \A e \in Entity :
         SF_readVars(\E d \in Delivery :
             /\ catalog[e].canonical = e
             /\ BeginApply(d, SnapshotOf(catalog, e))
             /\ ReadersAside)

ReadSpec == ReadInit /\ [][ReadNext]_readVars /\ ReadFairness

-----------------------------------------------------------------------------
(* Properties *)

\* Types, and the keys of storage.bindings through any merge.
GateTypeOK ==
    /\ CatalogTypeOK
    /\ visible \subseteq Entity
    /\ blocked \subseteq Asset
    /\ pending \subseteq Asset
    /\ reader \in [Reader -> ReaderState]
    /\ owed \in [Reader -> SUBSET Entity]

\* A complete file that has been readable by one entity, whatever that one was
\* merged into, ever since the request read an unblocked row is not answered 404
\* not_found: deliveries move its bindings between the steps of the gate, others
\* are bound and withdrawn, and the catalogue fails to answer.
SteadyReaderServed ==
    \A r \in Reader : owed[r] # {} => reader[r] # Answered("notFound")

=============================================================================
