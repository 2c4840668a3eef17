---------------------------- MODULE ServerProofs ----------------------------
(***************************************************************************)
(* What TLAPS proves of the parts that MCServer runs.  First of            *)
(* AuditTrail, for any finite set of requests and any size of the queue,   *)
(* and of MissingScan, for any rows, size of the pages, threshold and      *)
(* number of disturbances; then, with what CircuitBreakerProofs and        *)
(* AuthProofs say of the other parts, of MCServer as a whole.              *)
(***************************************************************************)
EXTENDS MCServer, CircuitBreakerProofs, AuthProofs, FiniteSetTheorems,
        SequenceTheorems, TLAPS

-----------------------------------------------------------------------------
(* The audit trail: AuditTrail *)

Queued == {queue[i] : i \in 1 .. Len(queue)}

InHand == IF writer.pc = "writing" THEN {writer.row} ELSE {}

\* Rows that are not lost without a line in the log.
Traced == Queued \cup InHand \cup written \cup failed

\* Wherever the rows are, the others of the requests that are through are counted.
DropsCounted ==
    /\ Traced \subseteq Finished
    /\ dropped = Cardinality(Finished \ Traced)

\* The parts of the process end in order.
EndsInOrder ==
    /\ closing => server \in {"closing", "exited"}
    /\ server \in {"closing", "exited"} => UnderWay = {}
    /\ writer.pc = "gone" => closing /\ queue = << >>
    /\ server = "exited" => writer.pc = "gone"

AInv == AuditTypeOK /\ DropsCounted /\ EndsInOrder

-----------------------------------------------------------------------------
(* Rows move on *)

LEMMA AuditInitially == AuditInit => AInv
  <1> SUFFICES ASSUME AuditInit
               PROVE  AInv
    OBVIOUS
  <1> USE DEF AuditInit
  <1>1. AuditTypeOK
    <2>1. writer \in WriterState /\ server \in ServerStates
      BY DEF WriterState, Selecting, ServerStates
    <2>2. audited \in [Audited -> Progress]
      BY DEF Progress
    <2>3. queue \in Seq(Audited) /\ Len(queue) = 0
      OBVIOUS
    <2>4. {stopped, closing} \subseteq BOOLEAN
      BY Zenon
    <2> QED BY <2>1, <2>2, <2>3, <2>4, AuditAssumption DEF AuditTypeOK
  <1>2. Traced = {} /\ Finished = {}
    BY DEF Traced, Queued, InHand, Selecting, Finished
  <1>3. DropsCounted
    <2>1. Finished \ Traced = {} /\ dropped = 0
      BY <1>2
    <2> QED BY <1>2, <2>1, FS_EmptySet DEF DropsCounted
  <1>4. EndsInOrder
    BY DEF EndsInOrder, Selecting
  <1> QED BY <1>1, <1>3, <1>4 DEF AInv

\* The one request that moves on is not through, and no row of it is kept.
LEMMA GoesOn ==
    ASSUME AInv, NEW a \in Audited, audited[a] # "done",
           NEW pc \in Progress, Goes(a, pc)
    PROVE  /\ audited' \in [Audited -> Progress]
           /\ a \notin Finished /\ a \notin Traced
           /\ Finished' = IF pc = "done" THEN Finished \cup {a} ELSE Finished
           /\ pc \in {"done", "panicked"} => UnderWay' = UnderWay \ {a}
           /\ audited[a] \in {"handling", "recording", "sending"} => a \in UnderWay
  BY DEF Goes, AInv, AuditTypeOK, DropsCounted, Finished, UnderWay

\* A step that leaves the queue, the writer and the tables alone keeps the rows.
LEMMA TracedStays ==
    ASSUME UNCHANGED <<queue, writer, written, failed>>
    PROVE  Traced' = Traced
  BY DEF Traced, Queued, InHand

LEMMA RequestKeeps ==
    ASSUME AInv, NEW a \in Audited, Arrive(a) \/ Handled(a) \/ Panic(a) \/ Records(a)
    PROVE  AInv'
  <1> USE DEF AInv
  <1>1. ASSUME NEW pc \in Progress \ {"done"}, Goes(a, pc), audited[a] # "done",
               UNCHANGED <<queue, writer, stopped, closing, dropped, written, failed, server>>,
               \/ server = "serving"
               \/ audited[a] \in {"handling", "recording", "sending"}
        PROVE  AInv'
    <2>1. /\ audited' \in [Audited -> Progress] /\ Finished' = Finished
          /\ audited[a] \in {"handling", "recording", "sending"} => a \in UnderWay
      BY <1>1, GoesOn
    <2>2. AuditTypeOK'
      BY <1>1, <2>1 DEF AuditTypeOK
    <2>3. DropsCounted'
      BY <1>1, <2>1, TracedStays DEF DropsCounted
    <2>4. EndsInOrder'
      BY <1>1, <2>1 DEF EndsInOrder
    <2> QED BY <2>2, <2>3, <2>4
  <1>2. ASSUME Drop(a), audited[a] \in {"recording", "sending"}
        PROVE  AInv'
    <2>1. /\ Goes(a, "done") /\ "done" \in Progress
          /\ dropped' = dropped + 1
          /\ UNCHANGED <<queue, writer, stopped, closing, written, failed, server>>
      BY <1>2 DEF Drop, Progress
    <2>2. /\ audited' \in [Audited -> Progress]
          /\ a \notin Finished /\ a \notin Traced /\ a \in UnderWay
          /\ Finished' = Finished \cup {a}
          /\ UnderWay' = UnderWay \ {a}
      BY <1>2, <2>1, GoesOn
    <2>3. AuditTypeOK'
      BY <2>1, <2>2 DEF AuditTypeOK
    <2>4. DropsCounted'
      <3>1. Traced' = Traced
        BY <2>1, TracedStays
      <3>2. Finished' \ Traced' = (Finished \ Traced) \cup {a}
        BY <2>2, <3>1
      <3>3. IsFiniteSet(Finished \ Traced)
        BY AuditAssumption, FS_Subset DEF Finished
      <3>4. Cardinality((Finished \ Traced) \cup {a}) = Cardinality(Finished \ Traced) + 1
        BY <2>2, <3>3, FS_AddElement
      <3> QED BY <2>1, <2>2, <3>1, <3>2, <3>4 DEF DropsCounted
    <2>5. EndsInOrder'
      BY <2>1, <2>2 DEF EndsInOrder
    <2> QED BY <2>3, <2>4, <2>5
  <1>3. CASE Enqueue(a)
    <2>1. /\ Goes(a, "done") /\ "done" \in Progress /\ audited[a] = "sending"
          /\ Len(queue) < QueueSize /\ queue' = Append(queue, a)
          /\ UNCHANGED <<writer, stopped, closing, dropped, written, failed, server>>
      BY <1>3 DEF Enqueue, Progress
    <2>2. /\ audited' \in [Audited -> Progress]
          /\ a \notin Finished /\ a \notin Traced /\ a \in UnderWay
          /\ Finished' = Finished \cup {a}
          /\ UnderWay' = UnderWay \ {a}
      BY <2>1, GoesOn
    <2>3. Queued' = Queued \cup {a}
      BY <2>1 DEF Queued, AuditTypeOK
    <2>4. Traced' = Traced \cup {a}
      BY <2>1, <2>3 DEF Traced, InHand
    <2>5. AuditTypeOK'
      BY <2>1, <2>2, AuditAssumption DEF AuditTypeOK
    <2>6. DropsCounted'
      <3>1. Finished' \ Traced' = Finished \ Traced
        BY <2>2, <2>4
      <3> QED BY <2>1, <2>2, <2>4, <3>1 DEF DropsCounted
    <2>7. EndsInOrder'
      BY <2>1, <2>2 DEF EndsInOrder
    <2> QED BY <2>5, <2>6, <2>7
  <1> QED
    BY <1>1, <1>2, <1>3 DEF Arrive, Handled, Panic, Records, CheckStopped, DropFull, Progress

LEMMA WriterKeeps ==
    ASSUME AInv, Take \/ Persist \/ Drained
    PROVE  AInv'
  <1> USE DEF AInv
  <1>1. Finished' = Finished /\ UnderWay' = UnderWay
    BY DEF Take, Persist, Drained, Finished, UnderWay
  <1>2. CASE Take
    <2>1. /\ writer = Selecting /\ queue # << >>
          /\ writer' = [pc |-> "writing", row |-> Head(queue)] /\ queue' = Tail(queue)
          /\ UNCHANGED <<audited, stopped, closing, dropped, written, failed, server>>
      BY <1>2 DEF Take
    <2>2. queue \in Seq(Audited)
      BY DEF AuditTypeOK
    <2>3. Queued = Queued' \cup {Head(queue)}
      <3>1. /\ Len(queue) \in Nat \ {0} /\ Len(queue') = Len(queue) - 1
            /\ Head(queue) = queue[1]
            /\ \A i \in 1 .. Len(queue) - 1 : queue'[i] = queue[i + 1]
        BY <2>1, <2>2
      <3>2. ASSUME NEW i \in 1 .. Len(queue)
            PROVE  queue[i] \in Queued' \cup {Head(queue)}
        <4>1. CASE i = 1
          BY <3>1, <4>1
        <4>2. CASE i # 1
          <5>1. i - 1 \in 1 .. Len(queue') /\ queue'[i - 1] = queue[i]
            BY <3>1, <4>2
          <5> QED BY <5>1 DEF Queued
        <4> QED BY <4>1, <4>2
      <3>3. ASSUME NEW i \in 1 .. Len(queue')
            PROVE  queue'[i] \in Queued
        <4>1. i + 1 \in 1 .. Len(queue) /\ queue'[i] = queue[i + 1]
          BY <3>1
        <4> QED BY <4>1 DEF Queued
      <3>4. Head(queue) \in Queued
        BY <3>1 DEF Queued
      <3> QED BY <3>2, <3>3, <3>4 DEF Queued
    <2>4. Traced' = Traced
      <3>1. InHand = {} /\ InHand' = {Head(queue)}
        BY <2>1 DEF InHand, Selecting
      <3> QED BY <2>1, <2>3, <3>1 DEF Traced
    <2>5. AuditTypeOK'
      <3>1. /\ queue' \in Seq(Audited) /\ Head(queue) \in Audited
            /\ Len(queue') <= Len(queue) /\ Len(queue') \in Nat /\ Len(queue) \in Nat
        BY <2>1, <2>2
      <3>2. writer' \in WriterState
        BY <2>1, <3>1 DEF WriterState
      <3>3. Len(queue') <= QueueSize
        BY <3>1, AuditAssumption DEF AuditTypeOK
      <3> QED BY <2>1, <3>1, <3>2, <3>3 DEF AuditTypeOK
    <2>6. DropsCounted'
      BY <1>1, <2>1, <2>4 DEF DropsCounted
    <2>7. EndsInOrder'
      BY <1>1, <2>1 DEF EndsInOrder, Selecting
    <2> QED BY <2>5, <2>6, <2>7
  <1>3. CASE Persist
    <2>1. /\ writer.pc = "writing" /\ writer.row \in Audited
          /\ writer' = Selecting
          /\ \/ written' = written \cup {writer.row} /\ UNCHANGED failed
             \/ failed' = failed \cup {writer.row} /\ UNCHANGED written
          /\ UNCHANGED <<audited, queue, stopped, closing, dropped, server>>
      BY <1>3 DEF Persist, AuditTypeOK, WriterState
    <2>2. Traced' = Traced
      BY <2>1 DEF Traced, Queued, InHand, Selecting
    <2>3. AuditTypeOK'
      BY <2>1 DEF AuditTypeOK, WriterState, Selecting
    <2>4. DropsCounted'
      BY <1>1, <2>1, <2>2 DEF DropsCounted
    <2>5. EndsInOrder'
      BY <1>1, <2>1 DEF EndsInOrder, Selecting
    <2> QED BY <2>3, <2>4, <2>5
  <1>4. CASE Drained
    <2>1. /\ writer = Selecting /\ closing /\ queue = << >>
          /\ writer' = [pc |-> "gone"]
          /\ UNCHANGED <<audited, queue, stopped, closing, dropped, written, failed, server>>
      BY <1>4 DEF Drained
    <2>2. Traced' = Traced
      BY <2>1 DEF Traced, Queued, InHand, Selecting
    <2>3. AuditTypeOK'
      BY <2>1 DEF AuditTypeOK, WriterState
    <2>4. DropsCounted'
      BY <1>1, <2>1, <2>2 DEF DropsCounted
    <2>5. EndsInOrder'
      BY <1>1, <2>1 DEF EndsInOrder
    <2> QED BY <2>3, <2>4, <2>5
  <1> QED BY <1>2, <1>3, <1>4

LEMMA ServerKeeps ==
    ASSUME AInv, Signal \/ CloseRecorder \/ Killed \/ Exit
    PROVE  AInv'
  <1> USE DEF AInv
  <1>1. UNCHANGED <<audited, queue, writer, dropped, written, failed>>
    BY DEF Signal, CloseRecorder, Killed, Exit
  <1>2. Finished' = Finished /\ UnderWay' = UnderWay /\ Traced' = Traced
    BY <1>1, TracedStays DEF Finished, UnderWay
  <1>3. AuditTypeOK'
    BY <1>1 DEF AuditTypeOK, ServerStates, Signal, CloseRecorder, Killed, Exit
  <1>4. DropsCounted'
    BY <1>1, <1>2 DEF DropsCounted
  <1>5. EndsInOrder'
    BY <1>1, <1>2 DEF EndsInOrder, Signal, CloseRecorder, Killed, Exit
  <1> QED BY <1>3, <1>4, <1>5

LEMMA AInvKept == AInv /\ [AuditNext]_auditVars => AInv'
  <1>1. AInv /\ UNCHANGED auditVars => AInv'
    BY TracedStays DEF auditVars, AInv, AuditTypeOK, DropsCounted, EndsInOrder, Finished, UnderWay
  <1> QED BY <1>1, RequestKeeps, WriterKeeps, ServerKeeps DEF AuditNext, Rest

LEMMA AInvAlways == AuditSpec => []AInv
  BY AuditInitially, AInvKept, PTL DEF AuditSpec

-----------------------------------------------------------------------------
(* Theorems *)

\* The queue stays within its size, and every part has its type.
THEOREM AuditTypeCorrect == AuditSpec => []AuditTypeOK
  <1>1. AInv => AuditTypeOK
    BY DEF AInv
  <1> QED BY <1>1, AInvAlways, PTL

\* However requests, the writer and the end of the process interleave, a process
\* that ends in order has written, logged as failed, or counted every row.
THEOREM RowsAccountedCorrect == AuditSpec => []RowsAccounted
  <1>1. AInv => RowsAccounted
    <2> SUFFICES ASSUME AInv, server = "exited"
                 PROVE  /\ UnderWay = {} /\ queue = << >>
                        /\ written \cup failed \subseteq Finished
                        /\ dropped = Cardinality(Finished \ (written \cup failed))
      BY DEF RowsAccounted
    <2>1. UnderWay = {} /\ queue = << >> /\ writer.pc = "gone"
      BY DEF AInv, EndsInOrder
    <2>2. Traced = written \cup failed
      BY <2>1 DEF Traced, Queued, InHand
    <2> QED BY <2>1, <2>2 DEF AInv, DropsCounted
  <1> QED BY <1>1, AInvAlways, PTL

-----------------------------------------------------------------------------
(* From the rows to the object store: MissingScan *)

\* Ranks in a finite set of naturals have no gaps: as many rows as places.
LEMMA RanksDiffer ==
    ASSUME listed \subseteq Nat, IsFiniteSet(listed)
    PROVE  /\ \A r \in listed : Rank(r) \in 0 .. Cardinality(listed) - 1
           /\ \A r, s \in listed : Rank(r) = Rank(s) => r = s
  <1> DEFINE Below(r) == {x \in listed : x < r}
  <1>1. \A r : IsFiniteSet(Below(r)) /\ Cardinality(Below(r)) \in Nat
    BY FS_Subset, FS_CardinalityType
  <1>2. ASSUME NEW r \in listed
        PROVE  Rank(r) \in 0 .. Cardinality(listed) - 1
    <2>1. Below(r) \subseteq listed \ {r}
      OBVIOUS
    <2>2. IsFiniteSet(listed \ {r}) /\ Cardinality(listed \ {r}) = Cardinality(listed) - 1
      BY FS_RemoveElement
    <2>3. Cardinality(Below(r)) <= Cardinality(listed \ {r})
      BY <2>1, <2>2, FS_Subset
    <2>4. Rank(r) = Cardinality(Below(r))
      BY DEF Rank
    <2>5. Cardinality(Below(r)) \in Nat /\ Cardinality(listed) \in Nat
      BY <1>1, FS_CardinalityType
    <2> HIDE DEF Below
    <2> QED BY <2>2, <2>3, <2>4, <2>5
  <1>3. ASSUME NEW r \in listed, NEW s \in listed, r < s
        PROVE  Rank(r) # Rank(s)
    <2>1. \A x \in listed : x \in Nat
      OBVIOUS
    <2>2. r \in Below(s) /\ r \notin Below(r) /\ \A x \in Below(r) : x \in Below(s)
      BY <1>3, <2>1
    <2>3. Below(r) \subseteq Below(s) /\ Below(r) # Below(s)
      <3> HIDE DEF Below
      <3> QED BY <2>2
    <2> QED BY <1>1, <2>3, FS_Subset DEF Rank
  <1>4. ASSUME NEW r \in listed, NEW s \in listed, Rank(r) = Rank(s)
        PROVE  r = s
    <2>1. r \in Nat /\ s \in Nat
      OBVIOUS
    <2> QED BY <1>3, <1>4, <2>1
  <1> QED BY <1>2, <1>4

\* The rows of a range of ranks are no more than the range is long.
LEMMA RowsOfRanks ==
    ASSUME listed \subseteq Nat, IsFiniteSet(listed), NEW lo \in Nat, NEW len \in Nat
    PROVE  LET rows == {r \in listed : Rank(r) \in lo .. lo + len - 1}
           IN  IsFiniteSet(rows) /\ Cardinality(rows) \in Nat /\ Cardinality(rows) <= len
  <1> DEFINE rows  == {r \in listed : Rank(r) \in lo .. lo + len - 1}
             range == lo .. lo + len - 1
             f     == [r \in rows |-> Rank(r)]
  <1>1. IsFiniteSet(rows) /\ Cardinality(rows) \in Nat
    BY FS_Subset, FS_CardinalityType
  <1>2. IsFiniteSet(range) /\ Cardinality(range) = len
    BY FS_Interval
  <1>3. f \in [rows -> range] /\ \A r, s \in rows : f[r] = f[s] => r = s
    BY RanksDiffer
  <1>4. ~ Cardinality(range) < Cardinality(rows)
    <2> HIDE DEF rows, range, f
    <2> QED BY <1>1, <1>2, <1>3, FS_PigeonHole
  <1> QED BY <1>1, <1>2, <1>4

LEMMA Together ==
    ASSUME NEW S, NEW T, IsFiniteSet(S), IsFiniteSet(T)
    PROVE  /\ IsFiniteSet(S \cup T) /\ Cardinality(S \cup T) \in Nat
           /\ Cardinality(S \cup T) <= Cardinality(S) + Cardinality(T)
  <1>1. Cardinality(S \cap T) \in Nat /\ Cardinality(S) \in Nat /\ Cardinality(T) \in Nat
    BY FS_Intersection, FS_CardinalityType
  <1>2. /\ IsFiniteSet(S \cup T)
        /\ Cardinality(S \cup T) = Cardinality(S) + Cardinality(T) - Cardinality(S \cap T)
    BY FS_Union
  <1> QED BY <1>1, <1>2, FS_CardinalityType

\* A page is full unless it reaches the end of the list.
LEMMA PageFull ==
    ASSUME listed \subseteq Nat, IsFiniteSet(listed), NEW offset \in Nat,
           Batch \in Nat \ {0}
    PROVE  /\ IsFiniteSet(PageAt(offset)) /\ Cardinality(PageAt(offset)) \in Nat
           /\ Cardinality(PageAt(offset)) <= Batch
           /\ Cardinality(PageAt(offset)) < Batch
                => offset + Cardinality(PageAt(offset)) >= Cardinality(listed)
  <1> DEFINE n      == Cardinality(listed)
             page   == PageAt(offset)
             before == {r \in listed : Rank(r) \in 0 .. 0 + offset - 1}
             rest   == n - (offset + Batch)
             after  == {r \in listed :
                          Rank(r) \in offset + Batch .. (offset + Batch) + rest - 1}
  <1>1. n \in Nat
    BY FS_CardinalityType
  <1>2. IsFiniteSet(page) /\ Cardinality(page) \in Nat /\ Cardinality(page) <= Batch
    BY RowsOfRanks DEF PageAt
  <1>3. IsFiniteSet(before) /\ Cardinality(before) \in Nat /\ Cardinality(before) <= offset
    BY RowsOfRanks
  <1>4. ASSUME offset < n, Cardinality(page) < Batch
        PROVE  offset + Cardinality(page) >= n
    <2>1. CASE rest \in Nat
      <3>1. /\ IsFiniteSet(after) /\ Cardinality(after) \in Nat
            /\ Cardinality(after) <= rest
        <4>1. offset + Batch \in Nat
          OBVIOUS
        <4> QED BY <2>1, <4>1, RowsOfRanks
      <3>2. listed = (before \cup page) \cup after
        <4>1. ASSUME NEW r \in listed
              PROVE  r \in (before \cup page) \cup after
          <5>1. Rank(r) \in 0 .. n - 1
            BY RanksDiffer
          <5>2. \/ Rank(r) \in 0 .. 0 + offset - 1
                \/ Rank(r) \in offset .. offset + Batch - 1
                \/ Rank(r) \in offset + Batch .. (offset + Batch) + rest - 1
            BY <1>1, <2>1, <5>1
          <5> QED BY <5>2 DEF PageAt
        <4> QED BY <4>1 DEF PageAt
      <3>3. /\ IsFiniteSet(before \cup page) /\ Cardinality(before \cup page) \in Nat
            /\ Cardinality(before \cup page) <= Cardinality(before) + Cardinality(page)
        <4> HIDE DEF before, page
        <4> QED BY <1>2, <1>3, Together
      <3>4. n <= Cardinality(before \cup page) + Cardinality(after)
        <4> HIDE DEF before, page, after
        <4> QED BY <3>1, <3>2, <3>3, Together
      <3> HIDE DEF n, page, before, after
      <3> QED BY <1>1, <1>2, <1>3, <1>4, <3>1, <3>3, <3>4
    <2>2. CASE rest \notin Nat
      <3>1. listed = before \cup page
        <4>1. ASSUME NEW r \in listed
              PROVE  r \in before \cup page
          <5>1. Rank(r) \in 0 .. n - 1
            BY RanksDiffer
          <5>2. \/ Rank(r) \in 0 .. 0 + offset - 1
                \/ Rank(r) \in offset .. offset + Batch - 1
            BY <1>1, <2>2, <5>1
          <5> QED BY <5>2 DEF PageAt
        <4> QED BY <4>1 DEF PageAt
      <3>2. n <= Cardinality(before) + Cardinality(page)
        <4> HIDE DEF before, page
        <4> QED BY <1>2, <1>3, <3>1, Together
      <3> HIDE DEF n, page, before
      <3> QED BY <1>1, <1>2, <1>3, <3>2
    <2> QED BY <2>1, <2>2
  <1> HIDE DEF n, page
  <1>5. /\ IsFiniteSet(page) /\ Cardinality(page) \in Nat /\ Cardinality(page) <= Batch
        /\ Cardinality(page) < Batch => offset + Cardinality(page) >= n
    BY <1>1, <1>2, <1>4
  <1> QED BY <1>5 DEF n, page

\* The count of rows seen: the pages before the last one are full, and during an
\* outage each row seen is missing or an error.
AllCounted ==
    /\ scan.pc = "listing" => scan.checked = scan.offset
    /\ scan.pc = "checking" /\ ~scan.last
         => scan.checked + Cardinality(scan.page) = scan.offset + Batch
    /\ scan.pc = "checking" /\ scan.last /\ astray
         => scan.checked + Cardinality(scan.page) >= AbortN
    /\ scan.pc \in {"listing", "checking"} /\ astray
         => Len(scan.missing) + scan.errors = scan.checked
    /\ astray => outage /\ Cardinality(listed) >= AbortN
    /\ scan.pc = "marking" => scan.missing # << >>

ScanInv == ScanTypeOK /\ AllCounted /\ OutageBarsNothing

\* A scan that still looks rows up.
LookingUp == [pc : {"listing", "checking"}, offset : Nat, page : SUBSET Row,
              last : BOOLEAN, missing : Seq(Row), checked : Nat, errors : Nat]

\* A scan under way has the fields of its phase.
LEMMA ScanShape ==
    ASSUME ScanTypeOK
    PROVE  /\ scan.pc \in {"listing", "checking"} =>
                /\ scan \in LookingUp
                /\ IsFiniteSet(scan.page) /\ Cardinality(scan.page) \in Nat
           /\ scan.pc = "marking" => scan \in [pc : {"marking"}, missing : Seq(Row)]
           /\ scan.pc \in {"idle", "listing", "checking", "marking"}
           /\ scan # NoScan => scan.pc # "idle"
           /\ listed \subseteq Nat /\ IsFiniteSet(listed) /\ Cardinality(listed) \in Nat
  <1>1. /\ scan.pc \in {"listing", "checking"} => scan \in LookingUp
        /\ scan.pc = "marking" => scan \in [pc : {"marking"}, missing : Seq(Row)]
        /\ scan.pc \in {"idle", "listing", "checking", "marking"}
        /\ scan # NoScan => scan.pc # "idle"
    BY DEF ScanTypeOK, ScanState, LookingUp, NoScan
  <1>2. listed \subseteq Row
    BY DEF ScanTypeOK
  <1>3. listed \subseteq Nat /\ IsFiniteSet(listed) /\ Cardinality(listed) \in Nat
    BY <1>2, ScanAssumption, FS_Subset, FS_CardinalityType DEF ScanAssumption
  <1>4. ASSUME scan.pc \in {"listing", "checking"}
        PROVE  IsFiniteSet(scan.page) /\ Cardinality(scan.page) \in Nat
    <2>1. scan.page \subseteq Row
      BY <1>1, <1>4 DEF LookingUp
    <2> QED BY <2>1, ScanAssumption, FS_Subset, FS_CardinalityType DEF ScanAssumption
  <1> QED BY <1>1, <1>3, <1>4

\* One row less to look up.
LEMMA PageShrinks ==
    ASSUME NEW page, NEW r \in page, IsFiniteSet(page)
    PROVE  Cardinality(page) \in Nat /\ Cardinality(page \ {r}) = Cardinality(page) - 1
  BY FS_RemoveElement, FS_CardinalityType

\* A scan that is over, or that has not gone on, leaves nothing to show but that
\* the outage is still what it was.
LEMMA ScanInvBy ==
    ASSUME ScanTypeOK',
           scan'.pc \in {"listing", "checking", "marking"} => scan' = scan,
           ScanInv, astray' => astray,
           astray' => outage' /\ Cardinality(listed') >= AbortN
    PROVE  ScanInv'
  BY DEF ScanInv, AllCounted, OutageBarsNothing

LEMMA StartScanKeeps ==
    ASSUME ScanInv, StartScan
    PROVE  ScanInv'
  <1>1. scan' = [pc |-> "listing", offset |-> 0, page |-> {}, last |-> FALSE,
                 missing |-> << >>, checked |-> 0, errors |-> 0]
    BY DEF StartScan
  <1>2. ScanTypeOK'
    <2>1. scan' \in ScanState
      BY <1>1 DEF ScanState
    <2>2. astray' \in BOOLEAN
      BY DEF StartScan, ScanInv, ScanTypeOK
    <2> QED BY <2>1, <2>2 DEF StartScan, ScanInv, ScanTypeOK
  <1>3. AllCounted'
    <2>1. Len(scan'.missing) + scan'.errors = 0
      BY <1>1
    <2>2. scan'.pc = "listing" /\ scan'.checked = 0 /\ scan'.offset = 0
      BY <1>1
    <2>3. astray' => outage' /\ Cardinality(listed)' >= AbortN
      BY DEF StartScan
    <2> QED BY <2>1, <2>2, <2>3 DEF AllCounted
  <1> QED BY <1>1, <1>2, <1>3 DEF ScanInv, OutageBarsNothing

\* The last page is the one that is not full: all rows are then in or before it.
LEMMA ListPageKeeps ==
    ASSUME ScanInv, ListPage
    PROVE  ScanInv'
  <1> USE ScanAssumption DEF ScanAssumption, ScanInv
  <1>1. /\ scan.pc = "listing" /\ scan.offset \in Nat /\ scan.checked = scan.offset
        /\ scan \in LookingUp
        /\ listed \subseteq Nat /\ IsFiniteSet(listed) /\ Cardinality(listed) \in Nat
    BY ScanShape DEF ListPage, AllCounted, LookingUp
  <1> DEFINE page == PageAt(scan.offset)
  <1>2. scan' = [pc |-> "checking", offset |-> scan.offset, page |-> page,
                 last |-> Cardinality(page) < Batch, missing |-> scan.missing,
                 checked |-> scan.checked, errors |-> scan.errors]
    BY <1>1 DEF ListPage, LookingUp
  <1>3. /\ page \subseteq Row /\ Cardinality(page) \in Nat
        /\ Cardinality(page) <= Batch
        /\ Cardinality(page) < Batch
             => scan.offset + Cardinality(page) >= Cardinality(listed)
    BY <1>1, PageFull DEF PageAt, ScanTypeOK
  <1> HIDE DEF page
  <1>4. ScanTypeOK'
    <2>1. scan' \in ScanState
      BY <1>1, <1>2, <1>3 DEF ScanState, LookingUp
    <2> QED BY <2>1 DEF ListPage, ScanTypeOK
  <1>5. UNCHANGED <<astray, outage, listed>>
    BY DEF ListPage
  <1>6. /\ scan'.pc = "checking" /\ scan'.page = page
        /\ scan'.last <=> Cardinality(page) < Batch
        /\ scan'.checked = scan.offset /\ scan'.offset = scan.offset
        /\ scan'.missing = scan.missing /\ scan'.errors = scan.errors
    BY <1>1, <1>2
  <1>7. AllCounted'
    <2>1. astray => Cardinality(listed) >= AbortN /\ outage
      BY DEF AllCounted
    <2>2. astray => Len(scan.missing) + scan.errors = scan.checked
      BY <1>1 DEF AllCounted
    <2>3. AbortN \in Nat /\ Batch \in Nat
      OBVIOUS
    <2>4. scan'.last /\ astray => scan.offset + Cardinality(page) >= AbortN
      BY <1>1, <1>3, <1>6, <2>1, <2>3
    <2>5. ~scan'.last => scan.offset + Cardinality(page) = scan.offset + Batch
      BY <1>1, <1>3, <1>6, <2>3
    <2> QED BY <1>1, <1>5, <1>6, <2>1, <2>2, <2>4, <2>5 DEF AllCounted
  <1> QED BY <1>4, <1>6, <1>7 DEF OutageBarsNothing

\* A row that is looked up, whatever the answer.
LEMMA RowCounted ==
    ASSUME ScanInv, NEW r \in Row, Upcoming(r),
           NEW missing \in Seq(Row), NEW errors \in Nat,
           scan' = [pc |-> "checking", offset |-> scan.offset, page |-> scan.page \ {r},
                   last |-> scan.last, missing |-> missing,
                   checked |-> scan.checked + 1, errors |-> errors],
           astray => Len(missing) + errors = Len(scan.missing) + scan.errors + 1,
           UNCHANGED <<listed, doomed, stored, barred, outage, astray>>,
           upsets' \in 0 .. MaxUpsets
    PROVE  ScanInv'
  <1> USE ScanAssumption DEF ScanAssumption, ScanInv
  <1>1. /\ scan.pc = "checking" /\ r \in scan.page
        /\ scan \in LookingUp
        /\ IsFiniteSet(scan.page)
    BY ScanShape DEF Upcoming
  <1>2. /\ Cardinality(scan.page) \in Nat
        /\ Cardinality(scan.page \ {r}) = Cardinality(scan.page) - 1
    BY <1>1, PageShrinks
  <1>3. /\ scan'.pc = "checking" /\ scan'.page = scan.page \ {r}
        /\ (scan'.last <=> scan.last) /\ scan'.offset = scan.offset
        /\ scan'.checked = scan.checked + 1
        /\ scan'.missing = missing /\ scan'.errors = errors
    OBVIOUS
  <1>4. ScanTypeOK'
    <2>1. scan' \in ScanState
      BY <1>1, <1>3 DEF ScanState, LookingUp
    <2> QED BY <2>1 DEF ScanTypeOK
  <1>5. AllCounted'
    <2>1. /\ Cardinality(scan'.page) = Cardinality(scan.page) - 1
          /\ scan.checked \in Nat /\ scan.offset \in Nat
      BY <1>1, <1>2, <1>3 DEF LookingUp
    <2>2. /\ ~scan.last => scan.checked + Cardinality(scan.page) = scan.offset + Batch
          /\ scan.last /\ astray => scan.checked + Cardinality(scan.page) >= AbortN
      BY <1>1 DEF AllCounted
    <2>3. scan'.checked + Cardinality(scan'.page) = scan.checked + Cardinality(scan.page)
      BY <1>2, <1>3, <2>1
    <2>4. astray => Len(scan.missing) + scan.errors = scan.checked
      BY <1>1 DEF AllCounted
    <2>5. astray => outage /\ Cardinality(listed) >= AbortN
      BY DEF AllCounted
    <2>6. astray => Len(scan'.missing) + scan'.errors = scan'.checked
      BY <1>1, <1>3, <2>1, <2>4 DEF LookingUp
    <2> QED BY <1>3, <2>2, <2>3, <2>5, <2>6 DEF AllCounted
  <1> QED BY <1>3, <1>4, <1>5 DEF OutageBarsNothing

LEMMA CheckKeeps ==
    ASSUME ScanInv, NEW r \in Row, CheckRow(r) \/ CheckFails(r)
    PROVE  ScanInv'
  <1>1. /\ Upcoming(r) /\ scan.pc = "checking"
        /\ scan \in LookingUp
        /\ upsets \in 0 .. MaxUpsets
    BY ScanShape DEF CheckRow, CheckFails, Upcoming, ScanInv, ScanTypeOK
  <1>2. CASE CheckRow(r)
    <2> DEFINE missing == IF outage \/ r \notin stored THEN Append(scan.missing, r)
                                                      ELSE scan.missing
    <2>1. missing \in Seq(Row) /\ (astray => Len(missing) = Len(scan.missing) + 1)
      BY <1>1 DEF ScanInv, AllCounted, LookingUp
    <2>2. scan' = [pc |-> "checking", offset |-> scan.offset, page |-> scan.page \ {r},
                   last |-> scan.last, missing |-> missing,
                   checked |-> scan.checked + 1, errors |-> scan.errors]
      BY <1>1, <1>2 DEF CheckRow, LookingUp
    <2> HIDE DEF missing
    <2>3. scan.errors \in Nat /\ Len(scan.missing) \in Nat
      BY <1>1 DEF LookingUp
    <2>4. astray => Len(missing) + scan.errors = Len(scan.missing) + scan.errors + 1
      BY <2>1, <2>3
    <2>5. /\ UNCHANGED <<listed, doomed, stored, barred, outage, astray>>
          /\ upsets' \in 0 .. MaxUpsets
      BY <1>1, <1>2 DEF CheckRow
    <2> QED BY <1>1, <2>1, <2>2, <2>3, <2>4, <2>5, RowCounted
  <1>3. CASE CheckFails(r)
    <2>1. scan' = [pc |-> "checking", offset |-> scan.offset, page |-> scan.page \ {r},
                   last |-> scan.last, missing |-> scan.missing,
                   checked |-> scan.checked + 1, errors |-> scan.errors + 1]
      BY <1>1, <1>3 DEF CheckFails, LookingUp
    <2>2. /\ scan.missing \in Seq(Row) /\ scan.errors \in Nat /\ scan.errors + 1 \in Nat
          /\ Len(scan.missing) \in Nat
      BY <1>1 DEF LookingUp
    <2>3. /\ UNCHANGED <<listed, doomed, stored, barred, outage, astray>>
          /\ upsets' \in 0 .. MaxUpsets
      BY <1>1, <1>3, ScanAssumption DEF CheckFails, Upset, ScanAssumption
    <2>4. Len(scan.missing) + (scan.errors + 1) = Len(scan.missing) + scan.errors + 1
      BY <2>2
    <2> QED BY <1>1, <2>1, <2>2, <2>3, <2>4, RowCounted
  <1> QED BY <1>2, <1>3

LEMMA NextPageKeeps ==
    ASSUME ScanInv, NextPage
    PROVE  ScanInv'
  <1> USE ScanAssumption DEF ScanAssumption, ScanInv
  <1>1. /\ scan.pc = "checking" /\ scan.page = {} /\ ~scan.last
        /\ scan \in LookingUp
        /\ scan' = [pc |-> "listing", offset |-> scan.offset + Batch, page |-> scan.page,
                    last |-> scan.last, missing |-> scan.missing,
                    checked |-> scan.checked, errors |-> scan.errors]
    BY ScanShape DEF NextPage, LookingUp
  <1>2. Cardinality(scan.page) = 0
    BY <1>1, FS_EmptySet
  <1>3. scan.checked = scan.offset + Batch
    BY <1>1, <1>2 DEF AllCounted, LookingUp
  <1>4. ScanTypeOK'
    <2>1. scan' \in ScanState
      BY <1>1 DEF ScanState, LookingUp
    <2> QED BY <2>1 DEF NextPage, ScanTypeOK
  <1>5. AllCounted'
    BY <1>1, <1>3 DEF NextPage, AllCounted
  <1> QED BY <1>1, <1>4, <1>5 DEF OutageBarsNothing

\* In an outage all rows seen are missing, and they are too many.
LEMMA JudgeScanKeeps ==
    ASSUME ScanInv, JudgeScan
    PROVE  ScanInv'
  <1> USE ScanAssumption DEF ScanAssumption, ScanInv
  <1>1. /\ scan.pc = "checking" /\ scan.page = {} /\ scan.last
        /\ scan \in LookingUp /\ scan.missing \in Seq(Row)
        /\ scan.checked \in Nat /\ scan.errors \in Nat
    BY ScanShape DEF JudgeScan, LookingUp
  <1>2. /\ scan' = [pc |-> "marking", missing |-> scan.missing] \/ scan' = NoScan
        /\ scan'.pc = "marking" => ShouldMark
    BY DEF JudgeScan, NoScan
  <1>3. ScanTypeOK'
    <2>1. scan' \in ScanState
      BY <1>1, <1>2 DEF ScanState
    <2> QED BY <2>1 DEF JudgeScan, ScanTypeOK
  <1>4. ShouldMark => ~astray
    <2> SUFFICES ASSUME ShouldMark, astray
                 PROVE  FALSE
      OBVIOUS
    <2>1. Cardinality(scan.page) = 0
      BY <1>1, FS_EmptySet
    <2>2. scan.checked >= AbortN
      BY <1>1, <2>1 DEF AllCounted
    <2>3. Len(scan.missing) = scan.checked
      BY <1>1 DEF AllCounted, ShouldMark
    <2> QED BY <1>1, <2>2, <2>3 DEF ShouldMark
  <1>5. scan'.pc \in {"idle", "marking"}
    BY <1>2 DEF NoScan
  <1>6. UNCHANGED <<astray, outage, listed>>
    BY DEF JudgeScan
  <1>7. scan'.pc = "marking" => scan'.missing # << >>
    BY <1>2 DEF NoScan, ShouldMark
  <1> QED BY <1>2, <1>3, <1>4, <1>5, <1>6, <1>7 DEF AllCounted, OutageBarsNothing

LEMMA MarkKeeps ==
    ASSUME ScanInv, Mark \/ MarkFails
    PROVE  ScanInv'
  <1> USE ScanAssumption DEF ScanAssumption, ScanInv
  <1>1. scan.pc = "marking" /\ scan \in [pc : {"marking"}, missing : Seq(Row)] /\ ~astray
    BY ScanShape DEF Mark, MarkFails, OutageBarsNothing
  <1> DEFINE rest == Tail(scan.missing)
  <1>2. /\ scan.missing \in Seq(Row) /\ Head(scan.missing) \in Row
        /\ rest \in Seq(Row) /\ (rest = << >> => Len(scan.missing) = 1)
    <2>1. scan.missing \in Seq(Row) /\ scan.missing # << >>
      BY <1>1 DEF AllCounted
    <2>2. /\ Head(scan.missing) \in Row /\ rest \in Seq(Row)
          /\ Len(rest) = Len(scan.missing) - 1 /\ Len(scan.missing) \in Nat
      BY <2>1, HeadTailProperties, LenProperties
    <2> HIDE DEF rest
    <2>3. rest = << >> => Len(rest) = 0
      BY EmptySeq
    <2> QED BY <2>1, <2>2, <2>3
  <1>a. scan' = NoScan \/ (rest # << >> /\ scan' = [pc |-> "marking", missing |-> rest])
    <2>1. [scan EXCEPT !.missing = rest] = [pc |-> "marking", missing |-> rest]
      <3> HIDE DEF rest
      <3> QED BY <1>1
    <2>2. scan' = IF Len(scan.missing) = 1 THEN NoScan ELSE [scan EXCEPT !.missing = rest]
      BY DEF Mark, MarkFails, Marked
    <2> QED BY <1>2, <2>1, <2>2
  <1> HIDE DEF rest
  <1>3. /\ scan'.pc \in {"idle", "marking"} /\ scan' \in ScanState
        /\ scan'.pc = "marking" => scan'.missing # << >>
    BY <1>2, <1>a DEF ScanState, NoScan
  <1>4. UNCHANGED <<listed, doomed, stored, outage, astray>>
    BY DEF Mark, MarkFails
  <1>5. barred' \subseteq Row
    <2>1. CASE Mark
      BY <1>2, <2>1 DEF Mark, ScanTypeOK
    <2>2. CASE MarkFails
      BY <2>2 DEF MarkFails, ScanTypeOK
    <2> QED BY <2>1, <2>2
  <1>6. upsets' \in 0 .. MaxUpsets
    BY DEF Mark, MarkFails, Upset, ScanTypeOK
  <1>7. ScanTypeOK'
    BY <1>3, <1>4, <1>5, <1>6 DEF ScanTypeOK
  <1> QED BY <1>1, <1>3, <1>4, <1>7 DEF AllCounted, OutageBarsNothing

LEMMA BreakOffKeeps ==
    ASSUME ScanInv, BreakOff
    PROVE  ScanInv'
  <1> USE ScanAssumption DEF ScanAssumption, ScanInv
  <1>1. scan' = NoScan /\ scan'.pc = "idle"
    BY DEF BreakOff, NoScan
  <1>2. ScanTypeOK'
    BY <1>1 DEF BreakOff, Upset, ScanTypeOK, ScanState
  <1>3. UNCHANGED <<listed, outage, astray>>
    BY DEF BreakOff
  <1> QED BY <1>1, <1>2, <1>3 DEF AllCounted, OutageBarsNothing

\* Whatever else happens, the history knows whether the outage went on.
LEMMA DisturbKeeps ==
    ASSUME ScanInv, NEW rows \in SUBSET Row, NEW objects \in SUBSET Row, NEW dead \in BOOLEAN,
           Disturb(rows, objects, dead),
           doomed' \subseteq Row, rows \cap doomed' = {}, barred' \subseteq Row
    PROVE  ScanInv'
  <1>1. UNCHANGED scan /\ listed' = rows /\ outage' = dead
    BY DEF Disturb
  <1>2. astray' => astray /\ outage' /\ Cardinality(listed') >= AbortN
    <2>1. astray' => astray /\ dead /\ Cardinality(rows) >= AbortN
      BY Zenon DEF Disturb
    <2> QED BY <1>1, <2>1
  <1>3. ScanTypeOK'
    BY <1>1, ScanAssumption DEF ScanInv, ScanTypeOK, Disturb, Upset, ScanAssumption
  <1> QED BY <1>1, <1>2, <1>3, ScanInvBy

LEMMA OthersKeep ==
    ASSUME ScanInv,
           SwitchBucket \/ \E r \in Row : FinishUpload(r) \/ Leave(r) \/ Change(r) \/ Lift(r)
    PROVE  ScanInv'
  <1> USE DEF ScanInv, ScanTypeOK
  <1>1. CASE SwitchBucket
    BY <1>1, DisturbKeeps DEF SwitchBucket, Tables
  <1>2. ASSUME NEW r \in Row, FinishUpload(r)
        PROVE  ScanInv'
    BY <1>2, DisturbKeeps DEF FinishUpload, Tables
  <1>3. ASSUME NEW r \in Row, Leave(r)
        PROVE  ScanInv'
    <2>1. PICK objects \in {stored, stored \ {r}} : Disturb(listed \ {r}, objects, outage)
      BY <1>3 DEF Leave
    <2>2. doomed' \subseteq Row /\ (listed \ {r}) \cap doomed' = {} /\ barred' \subseteq Row
      BY <1>3 DEF Leave
    <2>3. listed \ {r} \in SUBSET Row /\ objects \in SUBSET Row /\ outage \in BOOLEAN
      OBVIOUS
    <2> QED BY <2>1, <2>2, <2>3, DisturbKeeps
  <1>4. ASSUME NEW r \in Row, Change(r)
        PROVE  ScanInv'
    <2>1. PICK objects \in SUBSET Row : Disturb(listed, objects, outage)
      BY <1>4 DEF Change
    <2> QED BY <1>4, <2>1, DisturbKeeps DEF Change, Tables
  <1>5. ASSUME NEW r \in Row, Lift(r)
        PROVE  ScanInv'
    BY <1>5, DisturbKeeps DEF Lift
  <1> QED BY <1>1, <1>2, <1>3, <1>4, <1>5

LEMMA ScanInitially == ScanInit => ScanInv
  <1> SUFFICES ASSUME ScanInit PROVE ScanInv
    OBVIOUS
  <1>1. scan = NoScan /\ scan.pc = "idle" /\ astray = FALSE
    BY DEF ScanInit, NoScan
  <1>2. ScanTypeOK
    <2>1. listed \subseteq Row /\ upsets \in 0 .. MaxUpsets
      BY ScanAssumption DEF ScanInit, ScanAssumption
    <2> QED BY <1>1, <2>1 DEF ScanInit, ScanTypeOK, ScanState
  <1> QED BY <1>1, <1>2 DEF ScanInv, AllCounted, OutageBarsNothing

LEMMA ScanInvKept == ScanInv /\ [ScanNext]_scanVars => ScanInv'
  <1> SUFFICES ASSUME ScanInv, [ScanNext]_scanVars PROVE ScanInv'
    OBVIOUS
  <1>1. CASE Scans
    BY <1>1, StartScanKeeps, ListPageKeeps, NextPageKeeps, JudgeScanKeeps, MarkKeeps,
       BreakOffKeeps, CheckKeeps DEF Scans
  <1>2. CASE SwitchBucket \/ \E r \in Row : FinishUpload(r) \/ Leave(r) \/ Change(r) \/ Lift(r)
    BY <1>2, OthersKeep
  <1>3. CASE UNCHANGED scanVars
    BY <1>3 DEF scanVars, ScanInv, ScanTypeOK, AllCounted, OutageBarsNothing
  <1> QED BY <1>1, <1>2, <1>3 DEF ScanNext

LEMMA ScanInvAlways == ScanSpec => []ScanInv
  BY ScanInitially, ScanInvKept, PTL DEF ScanSpec

\* The scan for missing objects keeps its types through pages that are cut while
\* rows come and go, failures and the worker's death.
THEOREM ScanTypeCorrect == ScanSpec => []ScanTypeOK
  <1>1. ScanInv => ScanTypeOK
    BY DEF ScanInv
  <1> QED BY <1>1, ScanInvAlways, PTL

\* A scan during which the object store finds nothing, of AbortN rows or more all
\* the while, blocks nothing, however the pages are cut.
THEOREM OutageBarsNothingCorrect == ScanSpec => []OutageBarsNothing
  <1>1. ScanInv => OutageBarsNothing
    BY DEF ScanInv
  <1> QED BY <1>1, ScanInvAlways, PTL

-----------------------------------------------------------------------------
(* All parts: MCServer *)

\* The invariants of the parts, each of its own variables.
ServerInv == BInv /\ BoundInv /\ KInv /\ AInv /\ ScanInv

LEMMA ServerInitially == ServerInit => ServerInv
  BY InitBInv, BoundInitially, KeyInitially, AuditInitially, ScanInitially
     DEF ServerInit, ServerInv

\* Each part moves as it does on its own and the others stand still.
LEMMA ServerInvKept == ServerInv /\ [ServerNext]_serverVars => ServerInv'
  <1> SUFFICES ASSUME ServerInv, [ServerNext]_serverVars PROVE ServerInv'
    OBVIOUS
  <1>1. [Next]_vars
    BY DEF ServerNext, BreakerMoves, ScanMoves, serverVars
  <1>2. [PatNext]_patVars
    BY DEF ServerNext, BreakerMoves, ScanMoves, serverVars
  <1>3. [KeyNext]_keyVars
    BY DEF ServerNext, BreakerMoves, ScanMoves, serverVars
  <1>4. [AuditNext]_auditVars
    BY DEF ServerNext, BreakerMoves, ScanMoves, serverVars
  <1>5. [ScanNext]_scanVars
    BY DEF ServerNext, BreakerMoves, ScanMoves, serverVars
  <1> QED BY <1>1, <1>2, <1>3, <1>4, <1>5, StepBInv, BoundKept, KInvKept, AInvKept,
             ScanInvKept DEF ServerInv

\* Every part of the server keeps its types and the shape of what its processes
\* share, for any number of callers, tokens, keys, requests and rows.
THEOREM ServerTypeCorrect == ServerSpec => []ServerTypeOK
  <1>1. ServerInv => ServerTypeOK
    <2> SUFFICES ASSUME ServerInv PROVE ServerTypeOK
      OBVIOUS
    <2>1. TypeOK /\ CountFitsState
      BY DEF ServerInv, BInv
    <2>2. PatTypeOK /\ CacheBounded /\ OneLeader
      BY DEF ServerInv, BoundInv, PInv, CacheTypeOK, PatTypeOK
    <2>3. KeyTypeOK /\ OneFetch
      BY DEF ServerInv, KInv
    <2>4. AuditTypeOK /\ ScanTypeOK
      BY DEF ServerInv, AInv, ScanInv
    <2> QED BY <2>1, <2>2, <2>3, <2>4 DEF ServerTypeOK
  <1> QED BY <1>1, ServerInitially, ServerInvKept, PTL DEF ServerSpec

=============================================================================
