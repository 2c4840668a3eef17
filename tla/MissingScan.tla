----------------------------- MODULE MissingScan -----------------------------
(***************************************************************************)
(* The half of RunReconcile that goes from rows to objects                 *)
(* (maintenance/maintenance.go): every complete row is looked up in the    *)
(* object store, and rows whose object is missing are blocked, unless so   *)
(* many are that the object store itself must be at fault.                 *)
(*                                                                         *)
(* The rows are read page by page, each by its OFFSET, and blocked after   *)
(* the last page.  Meanwhile rows come and go, objects are lost and put    *)
(* again, moderators lift blocks, and the object store answers with an     *)
(* error or, say with a wrong bucket, that nothing is there.               *)
(***************************************************************************)
EXTENDS Integers, Sequences, FiniteSets

CONSTANTS
    Row,       \* storage.assets.id, in the order of their text
    Batch,     \* reconcileBatch
    AbortN,    \* missingAbortN
    MaxUpsets  \* bound of the model: losses, failures and other disturbances

ASSUME ScanAssumption ==
    /\ Row \subseteq Nat /\ IsFiniteSet(Row)
    /\ {Batch, AbortN} \subseteq Nat \ {0}
    /\ MaxUpsets \in Nat

VARIABLES
    listed,  \* rows that are complete and not registered for deletion
    doomed,  \* rows that are registered for deletion, or gone
    stored,  \* rows whose object is there
    barred,  \* rows that are blocked
    outage,  \* the object store says of every object that it is missing
    scan,    \* RunReconcile
    astray,  \* history: an outage with AbortN rows or more since the scan began
    upsets

scanVars == <<listed, doomed, stored, barred, outage, scan, astray, upsets>>

-----------------------------------------------------------------------------
(* State *)

NoScan == [pc |-> "idle"]

\* missing holds a row twice if it moved to a later page in between.
ScanState ==
    {NoScan}
      \cup [pc : {"listing", "checking"}, offset : Nat, page : SUBSET Row, last : BOOLEAN,
            missing : Seq(Row), checked : Nat, errors : Nat]
      \cup [pc : {"marking"}, missing : Seq(Row)]

ScanInit ==
    /\ listed \in SUBSET Row
    /\ stored = listed /\ doomed = {}
    /\ barred = {}
    /\ outage = FALSE
    /\ scan = NoScan
    /\ astray = FALSE
    /\ upsets = 0

Upset == upsets < MaxUpsets /\ upsets' = upsets + 1

\* Exists says no.
Absent == IF outage THEN listed ELSE listed \ stored

-----------------------------------------------------------------------------
(* RunReconcile *)

StartScan ==
    /\ scan = NoScan
    /\ scan' = [pc |-> "listing", offset |-> 0, page |-> {}, last |-> FALSE,
                missing |-> << >>, checked |-> 0, errors |-> 0]
    /\ astray' = (outage /\ Cardinality(listed) >= AbortN)
    /\ UNCHANGED <<listed, doomed, stored, barred, outage, upsets>>

Rank(r) == Cardinality({x \in listed : x < r})

\* ListCompleteKeys.
PageAt(offset) == {r \in listed : Rank(r) \in offset .. offset + Batch - 1}

ListPage ==
    /\ scan.pc = "listing"
    /\ LET page == PageAt(scan.offset)
       IN  scan' = [scan EXCEPT !.pc = "checking", !.page = page,
                                !.last = Cardinality(page) < Batch]
    /\ UNCHANGED <<listed, doomed, stored, barred, outage, astray, upsets>>

\* The next row of the page, which need not be listed any more.
Upcoming(r) == scan.pc = "checking" /\ r \in scan.page /\ \A x \in scan.page : r <= x

CheckRow(r) ==
    /\ Upcoming(r)
    /\ scan' = [scan EXCEPT !.page = @ \ {r}, !.checked = @ + 1,
                            !.missing = IF outage \/ r \notin stored THEN Append(@, r) ELSE @]
    /\ UNCHANGED <<listed, doomed, stored, barred, outage, astray, upsets>>

\* The object store fails to answer.
CheckFails(r) ==
    /\ Upcoming(r)
    /\ Upset
    /\ scan' = [scan EXCEPT !.page = @ \ {r}, !.checked = @ + 1, !.errors = @ + 1]
    /\ UNCHANGED <<listed, doomed, stored, barred, outage, astray>>

\* Faulty variant: the offset is counted from one.
NextPageFromOne ==
    /\ scan.pc = "checking" /\ scan.page = {} /\ ~scan.last
    /\ scan' = [scan EXCEPT !.pc = "listing", !.offset = @ + Batch + 1]
    /\ UNCHANGED <<listed, doomed, stored, barred, outage, astray, upsets>>

NextPage ==
    /\ scan.pc = "checking" /\ scan.page = {} /\ ~scan.last
    /\ scan' = [scan EXCEPT !.pc = "listing", !.offset = @ + Batch]
    /\ UNCHANGED <<listed, doomed, stored, barred, outage, astray, upsets>>

\* Faulty variant: more than missingAbortN.
ShouldMarkMore ==
    /\ scan.missing # << >> /\ scan.errors = 0
    /\ ~(Len(scan.missing) > AbortN /\ 2 * Len(scan.missing) > scan.checked)

\* shouldMarkMissing.
ShouldMark ==
    /\ scan.missing # << >> /\ scan.errors = 0
    /\ ~(Len(scan.missing) >= AbortN /\ 2 * Len(scan.missing) > scan.checked)

JudgeScan ==
    /\ scan.pc = "checking" /\ scan.page = {} /\ scan.last
    /\ scan' = IF ShouldMark THEN [pc |-> "marking", missing |-> scan.missing] ELSE NoScan
    /\ UNCHANGED <<listed, doomed, stored, barred, outage, astray, upsets>>

Marked ==
    scan' = IF Len(scan.missing) = 1 THEN NoScan ELSE [scan EXCEPT !.missing = Tail(@)]

\* SetBlocked, whatever the status; it refuses a row that is to be deleted.
Mark ==
    /\ scan.pc = "marking"
    /\ Marked
    /\ barred' = barred \cup ({Head(scan.missing)} \ doomed)
    /\ UNCHANGED <<listed, doomed, stored, outage, astray, upsets>>

MarkFails ==
    /\ scan.pc = "marking"
    /\ Upset
    /\ Marked
    /\ UNCHANGED <<listed, doomed, stored, barred, outage, astray>>

\* A list cannot be read, or the worker dies: what was blocked stays blocked.
BreakOff ==
    /\ scan # NoScan
    /\ Upset
    /\ scan' = NoScan
    /\ UNCHANGED <<listed, doomed, stored, barred, outage, astray>>

-----------------------------------------------------------------------------
(* Everybody else *)

Disturb(rows, objects, dead) ==
    /\ Upset
    /\ listed' = rows /\ stored' = objects /\ outage' = dead
    /\ astray' = (astray /\ dead /\ Cardinality(rows) >= AbortN)
    /\ UNCHANGED scan

Tables == UNCHANGED <<doomed, barred>>

\* An upload is finished, whose object was found, maybe before an outage began.
FinishUpload(r) ==
    /\ r \notin listed \cup doomed
    /\ Disturb(listed \cup {r}, stored \cup {r}, outage)
    /\ Tables

\* A row is taken back to pending, or registered for deletion; either may cost
\* the object.
Leave(r) ==
    /\ r \in listed
    /\ \E objects \in {stored, stored \ {r}} : Disturb(listed \ {r}, objects, outage)
    /\ doomed' \in {doomed, doomed \cup {r}}
    /\ UNCHANGED barred

\* An object is lost, or put again.
Change(r) ==
    /\ r \in listed
    /\ Disturb(listed, IF r \in stored THEN stored \ {r} ELSE stored \cup {r}, outage)
    /\ Tables

SwitchBucket == Disturb(listed, stored, ~outage) /\ Tables

\* A moderator lifts a block.
Lift(r) ==
    /\ r \in barred
    /\ Disturb(listed, stored, outage)
    /\ barred' = barred \ {r}
    /\ UNCHANGED doomed

-----------------------------------------------------------------------------
(* Specification *)

Scans ==
    \/ StartScan \/ ListPage \/ NextPage \/ JudgeScan \/ Mark \/ MarkFails \/ BreakOff
    \/ \E r \in Row : CheckRow(r) \/ CheckFails(r)

ScanNext ==
    \/ Scans
    \/ \E r \in Row : FinishUpload(r) \/ Leave(r) \/ Change(r) \/ Lift(r)
    \/ SwitchBucket

\* A timer starts the worker again and again.
ScanSpec == ScanInit /\ [][ScanNext]_scanVars /\ WF_scanVars(Scans)

-----------------------------------------------------------------------------
(* Properties *)

ScanTypeOK ==
    /\ listed \cup doomed \cup stored \cup barred \subseteq Row /\ listed \cap doomed = {}
    /\ {outage, astray} \subseteq BOOLEAN
    /\ scan \in ScanState
    /\ upsets \in 0 .. MaxUpsets

\* "When more is missing than not, as if the whole bucket were unavailable, it
\* is reported only" (README.md:280).  The pages are cut by OFFSET while rows come
\* and go, so that a row may be seen twice or not at all; nevertheless a scan
\* during which nothing can be found, of AbortN rows or more at any time, blocks
\* nothing.
OutageBarsNothing == scan.pc = "marking" => ~astray

TooMany == Cardinality(Absent) >= AbortN /\ 2 * Cardinality(Absent) > Cardinality(listed)

\* A row whose object stays away is blocked in the end, unless with too many
\* others: scans that skip it, fail or die are followed by others.
MissingIsBarred ==
    \A r \in Row : <>[](r \in Absent /\ ~TooMany) => <>[](r \in barred)
=============================================================================
