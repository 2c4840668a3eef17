--------------------------- MODULE CircuitBreaker ---------------------------
(***************************************************************************)
(* The executor of outgoing calls (upstream.Client): bounded retries       *)
(* behind a circuit breaker that every call and every deep probe of one    *)
(* upstream share.                                                         *)
(*                                                                         *)
(* allow, success and failure each hold the mutex of the breaker, so each  *)
(* is one step; a call is out of it in between, and may come back when the *)
(* breaker has moved on.                                                   *)
(***************************************************************************)
EXTENDS Integers, FiniteSets

CONSTANTS
    Call,       \* callers of Do
    Attempts,   \* Policy.Attempts, 1 for a request that is not idempotent
    Threshold,  \* Policy.BreakerThreshold
    OpenFor,    \* Policy.BreakerOpenFor, in ticks
    Probes      \* Policy.BreakerHalfOpenProbes

\* Policy.normalized.
ASSUME PolicyAssumption ==
    /\ Attempts \in Nat \ {0}
    /\ Threshold \in Nat \ {0}
    /\ OpenFor \in Nat \ {0}
    /\ Probes \in Nat \ {0}
    /\ IsFiniteSet(Call)

VARIABLES
    breaker,
    call,      \* each call of Do
    probing,   \* history: who took a place of the present half-open period
    settled    \* history: has the upstream answered for good

vars == <<breaker, call, probing, settled>>

-----------------------------------------------------------------------------
(* State *)

\* failures counts up to Threshold, from where on it decides nothing more;
\* cool is the rest of the cooling period, now - openedAt in the code.
Breaker == [state : {"closed", "open", "half"}, failures : 0..Threshold,
            cool : 0..OpenFor, left : 0..Probes]

\* tries is 0 when nothing is under way; cancelled is the caller's context.
CallState == [pc : {"idle", "trying", "backoff"}, tries : 0..Attempts, cancelled : BOOLEAN]

Closed == [state |-> "closed", failures |-> 0, cool |-> 0, left |-> 0]

NoCall == [pc |-> "idle", tries |-> 0, cancelled |-> FALSE]

Init ==
    /\ breaker = Closed
    /\ call = [c \in Call |-> NoCall]
    /\ probing = {}
    /\ settled = FALSE

-----------------------------------------------------------------------------
(* The breaker *)

Success ==
    /\ breaker' = Closed
    /\ probing' = {}

Counted == IF breaker.failures < Threshold THEN breaker.failures + 1 ELSE Threshold

\* A failure opens the breaker, or keeps it open for another period, unless
\* it is closed and below the threshold.
Failure(c) ==
    IF breaker.state = "half" \/ Counted >= Threshold
    THEN /\ breaker' = [state |-> "open", failures |-> Counted, cool |-> OpenFor, left |-> 0]
         /\ probing' = {}
    ELSE /\ breaker' = [breaker EXCEPT !.failures = Counted]
         /\ probing' = probing \ c

Admit(c) ==
    call' = [call EXCEPT ![c] = [pc |-> "trying", tries |-> 1, cancelled |-> FALSE]]

AllowClosed(c) ==
    /\ breaker.state = "closed"
    /\ UNCHANGED <<breaker, probing>>

\* Faulty variant: waits for a success that only a probe could bring.
AllowForgiven(c) ==
    /\ breaker.state = "open" /\ breaker.cool = 0 /\ breaker.failures < Threshold
    /\ breaker' = [breaker EXCEPT !.state = "half", !.left = Probes - 1]
    /\ probing' = {c}

AllowFirst(c) ==
    /\ breaker.state = "open" /\ breaker.cool = 0
    /\ breaker' = [breaker EXCEPT !.state = "half", !.left = Probes - 1]
    /\ probing' = {c}

\* Faulty variant: looks whether a place is free and does not take it.
AllowAnyMore(c) ==
    /\ breaker.state = "half" /\ breaker.left > 0
    /\ UNCHANGED breaker
    /\ probing' = probing \cup {c}

AllowMore(c) ==
    /\ breaker.state = "half" /\ breaker.left > 0
    /\ breaker' = [breaker EXCEPT !.left = @ - 1]
    /\ probing' = probing \cup {c}

Tick ==
    /\ breaker.cool > 0
    /\ breaker' = [breaker EXCEPT !.cool = @ - 1]
    /\ UNCHANGED <<call, probing, settled>>

-----------------------------------------------------------------------------
(* Do *)

Over(c) == call' = [call EXCEPT ![c] = NoCall]

\* A call that allow refuses changes nothing (circuit_open).
Start(c) ==
    /\ call[c].pc = "idle"
    /\ AllowClosed(c) \/ AllowFirst(c) \/ AllowMore(c)
    /\ Admit(c)
    /\ UNCHANGED settled

\* Anything but a time-out, a lost connection, 5xx and 429 is an answer.
Answered(c) ==
    /\ call[c].pc = "trying"
    /\ Success
    /\ Over(c)
    /\ UNCHANGED settled

AttemptFails(c) == call[c].pc = "trying" /\ (~settled \/ call[c].cancelled)

\* The caller has gone: no verdict on the upstream.
Abandoned(c) ==
    /\ AttemptFails(c) /\ call[c].cancelled
    /\ Over(c)
    /\ probing' = probing \ {c}
    /\ UNCHANGED <<breaker, settled>>

Retry(c) ==
    /\ AttemptFails(c) /\ ~call[c].cancelled
    /\ call[c].tries < Attempts
    /\ call' = [call EXCEPT ![c].pc = "backoff"]
    /\ UNCHANGED <<breaker, probing, settled>>

\* The last attempt, or a failure that is not to be retried (bad_response).
GiveUp(c) ==
    /\ AttemptFails(c) /\ ~call[c].cancelled
    /\ Failure({c})
    /\ Over(c)
    /\ UNCHANGED settled

Again(c) ==
    /\ call[c].pc = "backoff"
    /\ call' = [call EXCEPT ![c].pc = "trying", ![c].tries = @ + 1]
    /\ UNCHANGED <<breaker, probing, settled>>

\* sleep ends early: the budget is used up, or the caller has gone.
CutShort(c) ==
    /\ call[c].pc = "backoff"
    /\ Failure({c})
    /\ Over(c)
    /\ UNCHANGED settled

Cancel(c) ==
    /\ call[c].pc # "idle" /\ ~call[c].cancelled
    /\ call' = [call EXCEPT ![c].cancelled = TRUE]
    /\ UNCHANGED <<breaker, probing, settled>>

-----------------------------------------------------------------------------
(* Probe: /ready?deep=1 asks nobody and tells the breaker *)

ProbeReady == Success /\ UNCHANGED <<call, settled>>

\* Also of an upstream that answers: anything but 2xx counts here, and so does a
\* caller of the probe who goes away.
ProbeUnavailable == Failure({}) /\ UNCHANGED <<call, settled>>

\* From here on the upstream answers every attempt of a call.
Settle == ~settled /\ settled' = TRUE /\ UNCHANGED <<breaker, call, probing>>

Run(c) ==
    \/ Answered(c) \/ Abandoned(c) \/ Retry(c) \/ GiveUp(c)
    \/ Again(c) \/ CutShort(c)

Next ==
    \/ \E c \in Call : Start(c) \/ Run(c) \/ Cancel(c)
    \/ ProbeReady \/ ProbeUnavailable \/ Settle
    \/ Tick

Spec == Init /\ [][Next]_vars

\* Time goes on, calls come to an end, and there is always another one.
FairSpec ==
    /\ Spec
    /\ WF_vars(Tick)
    /\ \A c \in Call : WF_vars(Run(c)) /\ WF_vars(Start(c))

-----------------------------------------------------------------------------
(* Properties *)

TypeOK ==
    /\ breaker \in Breaker
    /\ call \in [Call -> CallState]
    /\ probing \subseteq Call
    /\ settled \in BOOLEAN

\* Nothing is left of the half-open period: no place, nobody to report.
ProbeLost == breaker.state = "half" /\ breaker.left = 0 /\ probing = {}

\* However late earlier calls come back, a half-open period lets no more
\* calls through than it has places.
ProbesBounded ==
    breaker.state = "half" => Cardinality(probing) + breaker.left <= Probes

\* Late answers never leave a closed breaker one that counts as broken, nor an
\* open one that counts as sound: a success forgets, and only a success does.
CountFitsState == breaker.state = "closed" <=> breaker.failures < Threshold

\* An upstream that answers is used again, unless the probe was lost or deep
\* probes go on failing.
Recovers ==
    <>[][~ProbeUnavailable]_vars => (settled ~> breaker.state = "closed" \/ ProbeLost)

\* After the cooling period a probe is let through, and its result decides
\* (upstream.go:12): the place of a probe does not get lost.
ProbeNotLost == ~ProbeLost

\* A caller that goes away is not held against the upstream (upstream.go:18):
\* not so in CutShort, where the cancelled caller is counted.
CancelIsNoFailure ==
    [][\A c \in Call : call[c].cancelled /\ call'[c].pc = "idle"
          => breaker' \in {breaker, Closed}]_vars
=============================================================================
