------------------------ MODULE CircuitBreakerProofs ------------------------
(***************************************************************************)
(* What TLAPS proves of CircuitBreaker, for any number of callers and any  *)
(* policy.                                                                 *)
(***************************************************************************)
EXTENDS CircuitBreaker, FiniteSetTheorems, TLAPS

\* A call that waits for its next attempt has one left.
WaitingCall == {s \in CallState : s.pc = "backoff" => s.tries < Attempts}

\* The inductive invariant.  The invariants of the runs support each other:
\* Failure keeps ProbesBounded only because the count below the threshold
\* rules out an open and a half-open breaker.
BInv == TypeOK /\ call \in [Call -> WaitingCall] /\ CountFitsState /\ ProbesBounded

-----------------------------------------------------------------------------
(* Sets of callers are finite: what one call more or less adds to them *)

LEMMA ProbingFinite ==
  ASSUME TypeOK
  PROVE  IsFiniteSet(probing) /\ Cardinality(probing) \in Nat
BY PolicyAssumption, FS_Subset, FS_CardinalityType DEF TypeOK

LEMMA OneMore ==
  ASSUME TypeOK, NEW c \in Call
  PROVE  Cardinality(probing \cup {c}) <= Cardinality(probing) + 1
<1>1. IsFiniteSet(probing) /\ Cardinality(probing) \in Nat
  BY ProbingFinite
<1>2. Cardinality(probing \cup {c})
        = IF c \in probing THEN Cardinality(probing) ELSE Cardinality(probing) + 1
  BY <1>1, FS_AddElement, Zenon
<1> DEFINE n == Cardinality(probing)
           m == Cardinality(probing \cup {c})
<1>3. n \in Nat /\ (m = n \/ m = n + 1)
  BY <1>1, <1>2, Zenon
<1> HIDE DEF n, m
<1>4. m <= n + 1
  BY <1>3
<1> QED BY <1>4 DEF n, m

LEMMA OneLess ==
  ASSUME TypeOK, NEW c \in Call
  PROVE  Cardinality(probing \ {c}) <= Cardinality(probing)
<1>1. IsFiniteSet(probing)
  BY ProbingFinite
<1>2. (probing \ {c}) \subseteq probing
  OBVIOUS
<1> QED BY <1>1, <1>2, FS_Subset

LEMMA OneAlone ==
  ASSUME NEW c
  PROVE  Cardinality({c}) = 1
BY FS_Singleton

LEMMA NoneAtAll == Cardinality({}) = 0
BY FS_EmptySet

-----------------------------------------------------------------------------
(* The steps of the breaker *)

\* A success leaves the breaker sound, whatever it was.
LEMMA SuccessSound ==
  ASSUME Success
  PROVE  /\ breaker' \in Breaker
         /\ probing' \subseteq Call
         /\ CountFitsState'
         /\ ProbesBounded'
BY PolicyAssumption DEF Success, Closed, Breaker, CountFitsState, ProbesBounded

\* The count goes up by one, to the threshold at most.
LEMMA CountedType ==
  ASSUME TypeOK
  PROVE  Counted \in 0..Threshold
BY PolicyAssumption DEF TypeOK, Breaker, Counted

\* A failure opens the breaker exactly when the count says so: in the
\* half-open state the count is at the threshold already.
LEMMA FailureSound ==
  ASSUME BInv, NEW cs \in SUBSET Call, Failure(cs)
  PROVE  /\ breaker' \in Breaker
         /\ probing' \subseteq Call
         /\ CountFitsState'
         /\ ProbesBounded'
<1>1. Counted \in 0..Threshold
  BY CountedType DEF BInv
<1>2. breaker \in Breaker /\ probing \subseteq Call
  BY DEF BInv, TypeOK
<1>3. CASE breaker.state = "half" \/ Counted >= Threshold
  <2>1. breaker' = [state |-> "open", failures |-> Counted, cool |-> OpenFor, left |-> 0]
    BY <1>3 DEF Failure
  <2>2. probing' = {}
    BY <1>3 DEF Failure
  <2>3. Counted = Threshold
    BY <1>1, <1>2, <1>3, PolicyAssumption DEF BInv, CountFitsState, Counted, Breaker
  <2> QED BY <2>1, <2>2, <2>3, PolicyAssumption DEF Breaker, CountFitsState, ProbesBounded
<1>4. CASE ~(breaker.state = "half" \/ Counted >= Threshold)
  <2>1. breaker' = [breaker EXCEPT !.failures = Counted]
    BY <1>4 DEF Failure
  <2>2. probing' = probing \ cs
    BY <1>4 DEF Failure
  <2>3. Counted < Threshold
    BY <1>1, <1>4, PolicyAssumption
  <2>4. breaker.state = "closed"
    BY <1>2, <2>3, PolicyAssumption DEF BInv, CountFitsState, Counted, Breaker
  <2>5. /\ breaker' \in Breaker
        /\ breaker'.state = "closed"
        /\ breaker'.failures = Counted
    BY <1>1, <1>2, <2>1, <2>4 DEF Breaker
  <2> QED BY <1>2, <2>2, <2>3, <2>5 DEF CountFitsState, ProbesBounded
<1> QED BY <1>3, <1>4

\* Letting a call through takes a place for every place it gives.
LEMMA AllowSound ==
  ASSUME BInv, NEW c \in Call, AllowClosed(c) \/ AllowFirst(c) \/ AllowMore(c)
  PROVE  /\ breaker' \in Breaker
         /\ probing' \subseteq Call
         /\ CountFitsState'
         /\ ProbesBounded'
<1>1. TypeOK /\ breaker \in Breaker /\ probing \subseteq Call
  BY DEF BInv, TypeOK
<1>2. CASE AllowClosed(c)
  BY <1>1, <1>2 DEF AllowClosed, BInv, CountFitsState, ProbesBounded
<1>3. CASE AllowFirst(c)
  <2>1. /\ breaker' \in Breaker
        /\ breaker'.state = "half" /\ breaker.state = "open"
        /\ breaker'.failures = breaker.failures
        /\ breaker'.left = Probes - 1
    <3>1. Probes - 1 \in 0..Probes
      BY PolicyAssumption
    <3>2. breaker' = [breaker EXCEPT !.state = "half", !.left = Probes - 1]
      BY <1>3 DEF AllowFirst
    <3>3. breaker.state = "open"
      BY <1>3 DEF AllowFirst
    <3> QED BY <1>1, <3>1, <3>2, <3>3 DEF Breaker
  <2>2. probing' = {c}
    BY <1>3 DEF AllowFirst
  <2>3. CountFitsState'
    BY <2>1 DEF BInv, CountFitsState
  <2>4. ProbesBounded'
    <3>1. Cardinality(probing') = 1
      BY <2>2, OneAlone, Zenon
    <3> QED BY <2>1, <3>1, PolicyAssumption DEF ProbesBounded
  <2> QED BY <2>1, <2>2, <2>3, <2>4
<1>4. CASE AllowMore(c)
  <2>1. /\ breaker' \in Breaker
        /\ breaker'.state = "half" /\ breaker.state = "half"
        /\ breaker'.failures = breaker.failures
        /\ breaker'.left = breaker.left - 1
        /\ breaker.left \in Nat
    BY <1>1, <1>4, PolicyAssumption DEF AllowMore, Breaker
  <2>2. probing' = probing \cup {c}
    BY <1>4 DEF AllowMore
  <2>3. CountFitsState'
    BY <2>1 DEF BInv, CountFitsState
  <2>4. Cardinality(probing \cup {c}) <= Cardinality(probing) + 1
    BY <1>1, OneMore
  <2>5. Cardinality(probing) \in Nat /\ Cardinality(probing \cup {c}) \in Nat
    BY <1>1, ProbingFinite, FS_AddElement, FS_CardinalityType
  <2>6. ProbesBounded'
    BY <2>1, <2>2, <2>4, <2>5, PolicyAssumption DEF BInv, ProbesBounded
  <2> QED BY <1>1, <2>1, <2>2, <2>3, <2>6
<1> QED BY <1>2, <1>3, <1>4

-----------------------------------------------------------------------------
(* The invariant *)

LEMMA InitBInv == Init => BInv
<1> SUFFICES ASSUME Init PROVE BInv
  OBVIOUS
<1>1. breaker = Closed /\ probing = {} /\ settled = FALSE
  BY DEF Init
<1>2. breaker \in Breaker /\ CountFitsState /\ ProbesBounded
  BY <1>1, PolicyAssumption DEF Closed, Breaker, CountFitsState, ProbesBounded
<1>3. NoCall \in WaitingCall
  BY PolicyAssumption DEF NoCall, CallState, WaitingCall
<1>4. call \in [Call -> WaitingCall]
  BY <1>3 DEF Init
<1>5. call \in [Call -> CallState]
  BY <1>4 DEF WaitingCall
<1> QED BY <1>1, <1>2, <1>4, <1>5 DEF BInv, TypeOK

\* Steps that leave the breaker alone and let nobody in.
LEMMA Untouched ==
  ASSUME BInv, UNCHANGED <<breaker, probing>>
  PROVE  CountFitsState' /\ ProbesBounded'
BY DEF BInv, CountFitsState, ProbesBounded

\* Every step of a call keeps the invariant.
LEMMA CallKeepsBInv ==
  ASSUME BInv, NEW c \in Call, Start(c) \/ Run(c) \/ Cancel(c)
  PROVE  BInv'
<1> USE DEF BInv
<1>0. /\ TypeOK
      /\ breaker \in Breaker /\ probing \subseteq Call /\ settled \in BOOLEAN
      /\ call \in [Call -> WaitingCall]
      /\ call[c] \in WaitingCall
      /\ NoCall \in WaitingCall
  BY PolicyAssumption DEF TypeOK, NoCall, CallState, WaitingCall
<1>a. call' \in [Call -> WaitingCall] => call' \in [Call -> CallState]
  BY DEF WaitingCall
<1>1. CASE Start(c)
  <2>1. call' \in [Call -> WaitingCall]
    <3>1. [pc |-> "trying", tries |-> 1, cancelled |-> FALSE] \in WaitingCall
      BY PolicyAssumption DEF CallState, WaitingCall
    <3>2. call' = [call EXCEPT ![c] = [pc |-> "trying", tries |-> 1, cancelled |-> FALSE]]
      BY <1>1 DEF Start, Admit
    <3> QED BY <1>0, <3>1, <3>2
  <2>2. settled' = settled /\ (AllowClosed(c) \/ AllowFirst(c) \/ AllowMore(c))
    BY <1>1 DEF Start
  <2> QED BY <1>0, <1>a, <2>1, <2>2, AllowSound DEF TypeOK
<1>2. CASE Answered(c)
  <2>1. call' \in [Call -> WaitingCall]
    BY <1>0, <1>2 DEF Answered, Over
  <2>2. settled' = settled /\ Success
    BY <1>2 DEF Answered
  <2> QED BY <1>0, <1>a, <2>1, <2>2, SuccessSound DEF TypeOK
<1>3. CASE Abandoned(c)
  <2>1. call' \in [Call -> WaitingCall]
    BY <1>0, <1>3 DEF Abandoned, Over
  <2>2. UNCHANGED <<breaker, settled>> /\ probing' = probing \ {c}
    BY <1>3 DEF Abandoned
  <2>3. /\ Cardinality(probing \ {c}) <= Cardinality(probing)
        /\ Cardinality(probing) \in Nat
        /\ Cardinality(probing \ {c}) \in Nat
    BY <1>0, OneLess, ProbingFinite, FS_RemoveElement, FS_Subset, FS_CardinalityType
  <2>4. breaker.left \in Nat
    BY <1>0 DEF Breaker
  <2>5. ProbesBounded'
    BY <2>2, <2>3, <2>4, PolicyAssumption DEF ProbesBounded
  <2> QED BY <1>0, <1>a, <2>1, <2>2, <2>5 DEF TypeOK, CountFitsState
<1>4. CASE Retry(c)
  <2>1. call' \in [Call -> WaitingCall]
    BY <1>0, <1>4 DEF Retry, AttemptFails, CallState, WaitingCall
  <2> QED BY <1>0, <1>a, <1>4, <2>1, Untouched DEF Retry, TypeOK
<1>5. CASE GiveUp(c)
  <2>1. call' \in [Call -> WaitingCall]
    BY <1>0, <1>5 DEF GiveUp, Over
  <2>2. settled' = settled /\ Failure({c})
    BY <1>5 DEF GiveUp
  <2> QED BY <1>0, <1>a, <2>1, <2>2, FailureSound DEF TypeOK
<1>6. CASE Again(c)
  <2>1. call' \in [Call -> WaitingCall]
    BY <1>0, <1>6, PolicyAssumption DEF Again, CallState, WaitingCall
  <2> QED BY <1>0, <1>a, <1>6, <2>1, Untouched DEF Again, TypeOK
<1>7. CASE CutShort(c)
  <2>1. call' \in [Call -> WaitingCall]
    BY <1>0, <1>7 DEF CutShort, Over
  <2>2. settled' = settled /\ Failure({c})
    BY <1>7 DEF CutShort
  <2> QED BY <1>0, <1>a, <2>1, <2>2, FailureSound DEF TypeOK
<1>8. CASE Cancel(c)
  <2>1. call' \in [Call -> WaitingCall]
    BY <1>0, <1>8 DEF Cancel, CallState, WaitingCall
  <2> QED BY <1>0, <1>a, <1>8, <2>1, Untouched DEF Cancel, TypeOK
<1> QED BY <1>1, <1>2, <1>3, <1>4, <1>5, <1>6, <1>7, <1>8 DEF Run

\* Every step keeps the invariant.
LEMMA StepBInv == BInv /\ [Next]_vars => BInv'
<1> SUFFICES ASSUME BInv, [Next]_vars
             PROVE  BInv'
  OBVIOUS
<1>0. /\ TypeOK /\ CountFitsState /\ ProbesBounded
      /\ breaker \in Breaker /\ probing \subseteq Call /\ settled \in BOOLEAN
      /\ call \in [Call -> WaitingCall] /\ call \in [Call -> CallState]
  BY DEF BInv, TypeOK
<1>1. ASSUME NEW c \in Call, Start(c) \/ Run(c) \/ Cancel(c)
      PROVE  BInv'
  BY <1>1, CallKeepsBInv
<1>2. CASE ProbeReady
  BY <1>0, <1>2, SuccessSound DEF ProbeReady, BInv, TypeOK
<1>3. CASE ProbeUnavailable
  <2>1. Failure({}) /\ UNCHANGED <<call, settled>>
    BY <1>3 DEF ProbeUnavailable
  <2> QED BY <1>0, <2>1, FailureSound DEF BInv, TypeOK
<1>4. CASE Settle
  <2>1. settled' = TRUE /\ UNCHANGED <<breaker, call, probing>>
    BY <1>4 DEF Settle
  <2> QED BY <1>0, <2>1, Untouched DEF BInv, TypeOK
<1>5. CASE Tick
  <2>1. /\ breaker' \in Breaker
        /\ breaker'.state = breaker.state
        /\ breaker'.failures = breaker.failures
        /\ breaker'.left = breaker.left
        /\ UNCHANGED <<call, probing, settled>>
    BY <1>0, <1>5, PolicyAssumption DEF Tick, Breaker
  <2> QED BY <1>0, <2>1 DEF BInv, TypeOK, CountFitsState, ProbesBounded
<1>6. CASE UNCHANGED vars
  <2>1. UNCHANGED breaker /\ UNCHANGED call /\ UNCHANGED probing /\ UNCHANGED settled
    BY <1>6 DEF vars
  <2> QED BY <1>0, <2>1, Untouched DEF BInv, TypeOK
<1> QED BY <1>1, <1>2, <1>3, <1>4, <1>5, <1>6 DEF Next

LEMMA BInvCorrect == Spec => []BInv
BY InitBInv, StepBInv, PTL DEF Spec

\* Every variable of the executor has its type.
THEOREM BreakerTypeCorrect == Spec => []TypeOK
BY BInvCorrect, PTL DEF BInv

\* upstream.breaker never lets more calls through in one half-open period
\* than the policy has places for, however late other calls come back.
THEOREM ProbesBoundedCorrect == Spec => []ProbesBounded
BY BInvCorrect, PTL DEF BInv

\* The count of failures and the state of the breaker agree after every
\* interleaving of success and failure.
THEOREM CountFitsStateCorrect == Spec => []CountFitsState
BY BInvCorrect, PTL DEF BInv

-----------------------------------------------------------------------------
(* Lost places *)

\* A place is lost only by a call that its caller has abandoned: every other
\* step out of a half-open period that still has a place or a probe leaves
\* one, or ends the period.
THEOREM OnlyCancelLosesProbe ==
  Spec => [][ProbeNotLost /\ ProbeLost' => \E c \in Call : Abandoned(c)]_vars
<1>1. ASSUME BInv, Next, ProbeNotLost, ProbeLost'
      PROVE  \E c \in Call : Abandoned(c)
  <2>0. breaker \in Breaker /\ breaker'.state = "half" /\ probing' = {}
    BY <1>1 DEF BInv, TypeOK, ProbeLost
  <2>1. ~Success
    BY <2>0 DEF Success, Closed
  <2>2. ASSUME NEW cs \in SUBSET Call, Failure(cs)
        PROVE  FALSE
    <3>1. CASE breaker.state = "half" \/ Counted >= Threshold
      BY <2>0, <2>2, <3>1 DEF Failure
    <3>2. CASE ~(breaker.state = "half" \/ Counted >= Threshold)
      <4>1. breaker' = [breaker EXCEPT !.failures = Counted]
        BY <2>2, <3>2 DEF Failure
      <4>2. breaker'.state = breaker.state
        BY <2>0, <4>1 DEF Breaker
      <4> QED BY <2>0, <3>2, <4>2
    <3> QED BY <3>1, <3>2
  <2>3. ASSUME breaker'.state = breaker.state, breaker'.left = breaker.left, probing' = probing
        PROVE  FALSE
    BY <1>1, <2>3 DEF ProbeNotLost, ProbeLost
  <2>4. ASSUME NEW c \in Call, Start(c)
        PROVE  FALSE
    <3>1. AllowClosed(c) \/ c \in probing'
      BY <2>4 DEF Start, AllowFirst, AllowMore
    <3> QED BY <2>0, <2>3, <3>1 DEF AllowClosed
  <2>5. ASSUME NEW c \in Call, Cancel(c) \/ Retry(c) \/ Again(c)
        PROVE  FALSE
    BY <2>3, <2>5 DEF Cancel, Retry, Again
  <2>6. ASSUME NEW c \in Call, Answered(c) \/ GiveUp(c) \/ CutShort(c)
        PROVE  FALSE
    <3>1. Success \/ Failure({c})
      BY <2>6 DEF Answered, GiveUp, CutShort
    <3> QED BY <2>1, <2>2, <3>1
  <2>7. ~ProbeReady /\ ~ProbeUnavailable
    BY <2>1, <2>2 DEF ProbeReady, ProbeUnavailable
  <2>8. ~Settle
    BY <2>3 DEF Settle
  <2>9. ~Tick
    <3>1. SUFFICES ASSUME Tick PROVE FALSE
      OBVIOUS
    <3>2. breaker'.state = breaker.state /\ breaker'.left = breaker.left /\ probing' = probing
      BY <2>0, <3>1 DEF Tick, Breaker
    <3> QED BY <2>3, <3>2
  <2> QED BY <1>1, <2>4, <2>5, <2>6, <2>7, <2>8, <2>9 DEF Next, Run
<1>2. BInv /\ [Next]_vars => [ProbeNotLost /\ ProbeLost' => \E c \in Call : Abandoned(c)]_vars
  BY <1>1
<1> QED BY <1>2, BInvCorrect, PTL DEF Spec
=============================================================================
