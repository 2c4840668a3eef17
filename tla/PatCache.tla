------------------------------ MODULE PatCache ------------------------------
(***************************************************************************)
(* The cache of verdicts on personal access tokens (auth/pat.go): the      *)
(* account service is asked once per token at a time, its verdict is kept  *)
(* for a while, and the cache is bounded.                                  *)
(*                                                                         *)
(* Every section under patCache.mu is one step.  A leader is between two   *)
(* sections while the account service decides, answers or fails; others    *)
(* who ask for the same token meanwhile wait for it and then look again.   *)
(***************************************************************************)
EXTENDS Integers, Sequences, FiniteSets

CONSTANTS
    Token,       \* tokens of valid shape; the cache holds their digests
    Caller,      \* requests that carry a token
    MaxEntries,  \* PATCacheMax
    TTL,         \* PATCacheTTL
    Latency,     \* the longest time from a decision to the end of the call
    ExpiryOf,    \* when a token itself expires
    Horizon      \* bound of the model: the clock stops there

NoLeader == [nobody |-> TRUE]

ASSUME PatAssumption ==
    /\ NoLeader \notin Caller
    /\ MaxEntries \in Nat \ {0}
    /\ {TTL, Latency, Horizon} \subseteq Nat
    /\ TTL > 0
    /\ ExpiryOf \in [Token -> 0 .. Horizon + 1]
    /\ IsFiniteSet(Token)

VARIABLES
    patClock,
    entries,    \* patCache.entries
    order,      \* patCache.order
    inflight,   \* patCache.inflight: who leads
    caller,     \* the requests
    revokedAt   \* when the account service revoked a token

patVars == <<patClock, entries, order, inflight, caller, revokedAt>>

-----------------------------------------------------------------------------
(* State *)

Instant == 0 .. Horizon

Never == Horizon + 1

\* patCacheEntry: a verdict, which holds before the moment until.
Verdict == [valid : BOOLEAN, until : 0 .. Horizon + TTL]

NoVerdict == [valid |-> FALSE, until |-> -1]

\* At rest a caller has its last answer; 401 and 503 are one refusal.
CallerState ==
    [pc : {"accepted", "refused"}]
      \cup [pc : {"looking", "leading"}, token : Token]
      \cup [pc : {"waiting"}, token : Token, on : Caller]
      \cup [pc : {"decided"}, token : Token, valid : BOOLEAN, at : Instant]

Cached(es) == {t \in Token : es[t] # NoVerdict}

Fresh(t) == patClock < entries[t].until

Refused == [pc |-> "refused"]

Done(valid) == IF valid THEN [pc |-> "accepted"] ELSE Refused

PatInit ==
    /\ patClock = 0
    /\ entries = [t \in Token |-> NoVerdict]
    /\ order = << >>
    /\ inflight = [t \in Token |-> NoLeader]
    /\ caller = [c \in Caller |-> Refused]
    /\ revokedAt = [t \in Token |-> Never]

-----------------------------------------------------------------------------
(* resolve *)

Looking(t) == [pc |-> "looking", token |-> t]

Ask(c, t) ==
    /\ caller[c].pc \in {"accepted", "refused"}
    /\ caller' = [caller EXCEPT ![c] = Looking(t)]
    /\ UNCHANGED <<patClock, entries, order, inflight, revokedAt>>

\* Faulty variant: what is in the cache is taken, however old.
HitAnyAge(c) ==
    LET t == caller[c].token
    IN  /\ caller[c].pc = "looking"
        /\ entries[t] # NoVerdict
        /\ caller' = [caller EXCEPT ![c] = Done(entries[t].valid)]
        /\ UNCHANGED <<patClock, entries, order, inflight, revokedAt>>

Hit(c) ==
    LET t == caller[c].token
    IN  /\ caller[c].pc = "looking"
        /\ entries[t] # NoVerdict /\ Fresh(t)
        /\ caller' = [caller EXCEPT ![c] = Done(entries[t].valid)]
        /\ UNCHANGED <<patClock, entries, order, inflight, revokedAt>>

\* An old entry is deleted, but stays in the order.
Miss(c) ==
    LET t == caller[c].token
    IN  /\ caller[c].pc = "looking"
        /\ ~(entries[t] # NoVerdict /\ Fresh(t))
        /\ entries' = [entries EXCEPT ![t] = NoVerdict]
        /\ UNCHANGED <<patClock, order, revokedAt>>

Lead(c) ==
    /\ Miss(c)
    /\ inflight[caller[c].token] = NoLeader
    /\ inflight' = [inflight EXCEPT ![caller[c].token] = c]
    /\ caller' = [caller EXCEPT ![c] = [pc |-> "leading", token |-> caller[c].token]]

\* Behind a leader the caller waits, or gives up if its own time is over.
Follow(c) ==
    LET t == caller[c].token
    IN  /\ Miss(c)
        /\ inflight[t] # NoLeader
        /\ \/ caller' = [caller EXCEPT ![c] = [pc |-> "waiting", token |-> t, on |-> inflight[t]]]
           \/ caller' = [caller EXCEPT ![c] = Refused]
        /\ UNCHANGED inflight

-----------------------------------------------------------------------------
(* fetch *)

\* The account service looks at the token.
Decide(c) ==
    LET t == caller[c].token
    IN  /\ caller[c].pc = "leading"
        /\ caller' = [caller EXCEPT ![c] =
                [pc |-> "decided", token |-> t, at |-> patClock,
                 valid |-> patClock < revokedAt[t] /\ patClock < ExpiryOf[t]]]
        /\ UNCHANGED <<patClock, entries, order, inflight, revokedAt>>

\* Faulty variant: the expiry of the token itself is not looked at.
UntilIgnoringExpiry(t, valid) == patClock + TTL

\* A verdict holds for TTL from now on, a positive one no longer than the token.
Until(t, valid) ==
    IF valid /\ ExpiryOf[t] # Never /\ ExpiryOf[t] < patClock + TTL
    THEN ExpiryOf[t]
    ELSE patClock + TTL

-----------------------------------------------------------------------------
(* lead's deferred section, and the cache *)

Live(k) == entries[k] # NoVerdict /\ Fresh(k)

\* The loop of evictLocked: what it keeps of the first i keys of the order.
Kept[i \in 0 .. Len(order)] ==
    IF i = 0 THEN << >>
    ELSE IF Live(order[i]) THEN Append(Kept[i - 1], order[i]) ELSE Kept[i - 1]

\* Faulty variant: the oldest goes out of the order and stays in the cache.
EvictFromOrderOnly(full) ==
    LET kept == Kept[Len(order)]
    IN  [entries |-> [t \in Token |-> IF Live(t) THEN entries[t] ELSE NoVerdict],
         order |-> IF Cardinality({t \in Token : Live(t)}) >= full THEN Tail(kept) ELSE kept]

\* evictLocked: what is old or gone leaves the order; if the cache is still
\* full, so does the first of the order.
Evict(full) ==
    LET kept == Kept[Len(order)]
        live == {t \in Token : Live(t)}
        crowded == Cardinality(live) >= full /\ kept # << >>
    IN  [entries |-> [t \in Token |->
                        IF t \in live /\ ~(crowded /\ t = Head(kept))
                        THEN entries[t] ELSE NoVerdict],
         order |-> IF crowded THEN Tail(kept) ELSE kept]

\* storeLocked.
Store(t, verdict) ==
    LET room == IF Cardinality(Cached(entries)) >= MaxEntries
                THEN Evict(MaxEntries)
                ELSE [entries |-> entries, order |-> order]
    IN  IF entries[t] # NoVerdict
        THEN /\ entries' = [entries EXCEPT ![t] = verdict]
             /\ UNCHANGED order
        ELSE /\ entries' = [room.entries EXCEPT ![t] = verdict]
             /\ order' = Append(room.order, t)

\* The leader is through; those who wait for it look again.
Awakened(c, own) ==
    [d \in Caller |->
        IF d = c THEN own
        ELSE IF caller[d].pc = "waiting" /\ caller[d].on = c
        THEN Looking(caller[d].token)
        ELSE caller[d]]

\* The answer is read and kept: valid or not; 401 and 403 say "invalid" too.
Conclude(c) ==
    LET t == caller[c].token
        valid == caller[c].valid
    IN  /\ caller[c].pc = "decided"
        /\ inflight' = [inflight EXCEPT ![t] = NoLeader]
        /\ Store(t, [valid |-> valid, until |-> Until(t, valid)])
        /\ caller' = Awakened(c, Done(valid))
        /\ UNCHANGED <<patClock, revokedAt>>

\* No answer, another status, a malformed body, the leader's client gone: the
\* cache is left alone, and the next to look leads.
Fail(c) ==
    /\ caller[c].pc \in {"leading", "decided"}
    /\ inflight' = [inflight EXCEPT ![caller[c].token] = NoLeader]
    /\ caller' = Awakened(c, Refused)
    /\ UNCHANGED <<patClock, entries, order, revokedAt>>

-----------------------------------------------------------------------------
(* Specification *)

Revoke(t) ==
    /\ revokedAt[t] = Never
    /\ revokedAt' = [revokedAt EXCEPT ![t] = patClock]
    /\ UNCHANGED <<patClock, entries, order, inflight, caller>>

\* A call does not outlive its budget.
PatTick ==
    /\ patClock < Horizon
    /\ \A c \in Caller : caller[c].pc = "decided" => patClock < caller[c].at + Latency
    /\ patClock' = patClock + 1
    /\ UNCHANGED <<entries, order, inflight, caller, revokedAt>>

Resolves(c) ==
    \/ Hit(c) \/ Lead(c) \/ Follow(c)
    \/ Decide(c) \/ Conclude(c) \/ Fail(c)

PatNext ==
    \/ \E c \in Caller, t \in Token : Ask(c, t)
    \/ \E c \in Caller : Resolves(c)
    \/ \E t \in Token : Revoke(t)
    \/ PatTick

PatSpec == PatInit /\ [][PatNext]_patVars

-----------------------------------------------------------------------------
(* Properties *)

InOrder(t) == \E i \in 1 .. Len(order) : order[i] = t

\* However entries expire, are stored anew and evicted, the cache holds no more
\* than MaxEntries, and everything it holds can be evicted.
CacheBounded ==
    /\ Cardinality(Cached(entries)) <= MaxEntries
    /\ \A t \in Cached(entries) : InOrder(t)

\* The leader of a token is at work on it and nobody else is, and whoever waits
\* waits for a leader that has yet to conclude.
OneLeader ==
    /\ \A t \in Token, c \in Caller :
         inflight[t] = c <=> /\ caller[c].pc \in {"leading", "decided"}
                             /\ caller[c].token = t
    /\ \A c \in Caller : caller[c].pc = "waiting" => inflight[caller[c].token] = caller[c].on

PatTypeOK ==
    /\ patClock \in Instant
    /\ entries \in [Token -> Verdict \cup {NoVerdict}]
    /\ order \in Seq(Token)
    /\ inflight \in [Token -> Caller \cup {NoLeader}]
    /\ caller \in [Caller -> CallerState]
    /\ revokedAt \in [Token -> Instant \cup {Never}]

\* "A revocation takes effect after 60 seconds at the latest" (auth/pat.go:16):
\* TTL after the verdict was heard, which was given up to Latency before.  A
\* token that expires is refused at once, but for the call that is under way.
RevocationWindow ==
    [][\A c \in Caller :
         caller[c].pc # "accepted" /\ caller'[c].pc = "accepted"
         => LET t == caller[c].token
            IN  /\ revokedAt[t] # Never => patClock < revokedAt[t] + Latency + TTL
                /\ ExpiryOf[t] # Never /\ caller[c].pc = "looking" => patClock < ExpiryOf[t]
      ]_patVars

\* "What matters is that memory has a limit" (auth/pat.go:319).  Not kept: a key
\* whose entry expired and is stored anew is in the order twice, and the order
\* is swept only when the cache is full.
OrderBounded == Len(order) <= MaxEntries
=============================================================================
