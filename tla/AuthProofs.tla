----------------------------- MODULE AuthProofs -----------------------------
(***************************************************************************)
(* What TLAPS proves of the two caches of the authentication.  Of          *)
(* PatCache: for any tokens, callers, size of the cache and times.  Of     *)
(* KeyCache: for any keys and any number of requests.                      *)
(***************************************************************************)
EXTENDS PatCache, KeyCache, FiniteSetTheorems, SequenceTheorems,
        WellFoundedInduction, TLAPS

-----------------------------------------------------------------------------
(* Verdicts on personal access tokens: PatCache *)

\* PatTypeOK but for the order, which matters to CacheBounded alone: BoundInv.
CacheTypeOK ==
    /\ patClock \in Instant
    /\ entries \in [Token -> Verdict \cup {NoVerdict}]
    /\ inflight \in [Token -> Caller \cup {NoLeader}]
    /\ caller \in [Caller -> CallerState]
    /\ revokedAt \in [Token -> Instant \cup {Never}]

\* A decision under way is not older than a call may take, and a favourable one
\* was made before the token was revoked.
DecidedInTime ==
    \A c \in Caller :
        caller[c].pc = "decided"
          => /\ patClock <= caller[c].at + Latency
             /\ caller[c].at <= patClock
             /\ caller[c].valid => caller[c].at <= revokedAt[caller[c].token]

\* A favourable verdict in the cache ends in time.
VerdictsEnd ==
    \A t \in Token :
        entries[t].valid
          => /\ entries[t].until <= patClock + TTL
             /\ revokedAt[t] # Never => entries[t].until <= revokedAt[t] + Latency + TTL
             /\ ExpiryOf[t] # Never => entries[t].until <= ExpiryOf[t]

PInv == CacheTypeOK /\ OneLeader /\ DecidedInTime /\ VerdictsEnd

-----------------------------------------------------------------------------
(* What the parts of a step do *)

LEMMA AskedToken ==
    ASSUME CacheTypeOK, NEW c \in Caller, caller[c].pc \notin {"accepted", "refused"}
    PROVE  caller[c].token \in Token
  BY DEF CacheTypeOK, CallerState

LEMMA VerdictIs ==
    ASSUME CacheTypeOK, NEW t \in Token
    PROVE  /\ entries[t].valid \in BOOLEAN
           /\ entries[t].until \in Int
           /\ entries[t] # NoVerdict => entries[t] \in Verdict
           /\ entries[t] = NoVerdict => ~entries[t].valid
  <1>1. entries[t] \in Verdict \/ entries[t] = NoVerdict
    BY DEF CacheTypeOK
  <1>2. CASE entries[t] \in Verdict
    BY <1>2, PatAssumption DEF Verdict, NoVerdict
  <1>3. CASE entries[t] = NoVerdict
    BY <1>3 DEF NoVerdict
  <1> QED BY <1>1, <1>2, <1>3

\* The cache keeps its verdicts, loses them, or gets the one it is given.
LEMMA StoreOnly ==
    ASSUME CacheTypeOK, NEW t \in Token, NEW vd \in Verdict, Store(t, vd)
    PROVE  /\ entries' \in [Token -> Verdict \cup {NoVerdict}]
           /\ \A x \in Token : \/ entries'[x] \in {entries[x], NoVerdict}
                               \/ x = t /\ entries'[x] = vd
  <1> DEFINE evicted == Evict(MaxEntries).entries
  <1>1. /\ evicted \in [Token -> Verdict \cup {NoVerdict}]
        /\ \A x \in Token : evicted[x] \in {entries[x], NoVerdict}
    BY DEF Evict, CacheTypeOK
  <1>2. \/ entries' = [entries EXCEPT ![t] = vd]
        \/ entries' = [evicted EXCEPT ![t] = vd]
    BY DEF Store
  <1> HIDE DEF evicted
  <1> QED BY <1>1, <1>2 DEF CacheTypeOK

\* The leader that concludes is at rest, those who wait for it look again.
LEMMA AwakenedOnly ==
    ASSUME CacheTypeOK, NEW c \in Caller, NEW own \in {[pc |-> "accepted"], Refused},
           caller' = Awakened(c, own)
    PROVE  /\ caller' \in [Caller -> CallerState]
           /\ caller'[c] = own
           /\ \A d \in Caller \ {c} :
                \/ /\ caller[d].pc = "waiting" /\ caller[d].on = c
                   /\ caller'[d] = Looking(caller[d].token)
                \/ /\ ~(caller[d].pc = "waiting" /\ caller[d].on = c)
                   /\ caller'[d] = caller[d]
  <1>1. own \in CallerState
    BY DEF CallerState, Refused
  <1>2. \A d \in Caller : caller[d].pc = "waiting" => Looking(caller[d].token) \in CallerState
    BY AskedToken DEF Looking, CallerState
  <1>3. \A d \in Caller :
          caller'[d] = IF d = c THEN own
                       ELSE IF caller[d].pc = "waiting" /\ caller[d].on = c
                       THEN Looking(caller[d].token)
                       ELSE caller[d]
    BY DEF Awakened
  <1>4. caller' \in [Caller -> CallerState]
    <2>1. \A d \in Caller : caller'[d] \in CallerState
      BY <1>1, <1>2, <1>3 DEF CacheTypeOK
    <2> QED BY <2>1 DEF Awakened
  <1> QED BY <1>3, <1>4

LEMMA LaterStill ==
    \A until, now, at, end, lasts, kept \in Int :
        until <= now + kept /\ now <= at + lasts /\ at <= end => until <= end + lasts + kept
  OBVIOUS

LEMMA DoneOnly == \A valid \in BOOLEAN : Done(valid) \in {[pc |-> "accepted"], Refused}
  BY DEF Done

-----------------------------------------------------------------------------
(* The loop of evictLocked *)

LEMMA LeastNatural ==
    ASSUME NEW T \in SUBSET Nat, T # {}
    PROVE  \E n \in T : \A m \in T : n <= m
  <1>1. PICK n \in T : \A m \in T : <<m, n>> \notin OpToRel(<, Nat)
    BY NatLessThanWellFounded, WFMin
  <1>2. \A m \in T : ~ m < n
    BY <1>1 DEF OpToRel
  <1> QED BY <1>2

\* What the loop makes of key i after the keys before it, and a run of n keys.
Turn(before, i) ==
    IF i = 0 THEN << >>
    ELSE IF Live(order[i]) THEN Append(before[i - 1], order[i]) ELSE before[i - 1]

LoopTo(n, f) == f = [i \in 0 .. n |-> Turn(f, i)]

\* A loop that could not go on to key n could not go on to an earlier one.
LEMMA LoopRuns == \A n \in Nat : \E f : LoopTo(n, f)
  <1> DEFINE stuck == {n \in Nat : ~ \E f : LoopTo(n, f)}
  <1> SUFFICES stuck = {}
    OBVIOUS
  <1> SUFFICES ASSUME stuck # {} PROVE FALSE
    OBVIOUS
  <1>1. PICK n \in stuck : \A m \in stuck : n <= m
    BY LeastNatural
  <1>2. n # 0
    <2> DEFINE f == [i \in 0 .. 0 |-> << >>]
    <2>1. LoopTo(0, f)
      BY DEF LoopTo, Turn
    <2> QED BY <2>1
  <1>3. n \in Nat \ {0} /\ n - 1 \in Nat /\ n - 1 \notin stuck
    BY <1>1, <1>2
  <1>4. PICK f : LoopTo(n - 1, f)
    BY <1>3
  <1> DEFINE g == [i \in 0 .. n |-> IF i = n THEN Turn(f, n) ELSE f[i]]
  <1>5. \A i \in 0 .. n - 1 : g[i] = f[i] /\ f[i] = Turn(f, i)
    BY <1>3, <1>4 DEF LoopTo
  <1>6. \A i \in 0 .. n : g[i] = Turn(g, i)
    <2> HIDE DEF stuck
    <2> SUFFICES ASSUME NEW i \in 0 .. n PROVE g[i] = Turn(g, i)
      OBVIOUS
    <2>1. g[i] = Turn(f, i)
      <3>1. CASE i = n
        BY <3>1
      <3>2. CASE i # n
        <4>1. i \in 0 .. n - 1
          BY <1>3, <3>2
        <4> QED BY <1>5, <4>1
      <3> QED BY <3>1, <3>2
    <2>2. i = 0 \/ g[i - 1] = f[i - 1]
      BY <1>3, <1>5
    <2> HIDE DEF g
    <2> QED BY <2>1, <2>2 DEF Turn
  <1>7. LoopTo(n, g)
    BY <1>6 DEF LoopTo
  <1> QED BY <1>1, <1>7

LEMMA KeptIs ==
    ASSUME order \in Seq(Token)
    PROVE  \A i \in 0 .. Len(order) : Kept[i] = Turn(Kept, i)
  <1>1. \E f : LoopTo(Len(order), f)
    BY LoopRuns, LenProperties
  <1>2. LoopTo(Len(order), Kept)
    BY <1>1, Zenon DEF Kept, LoopTo, Turn
  <1> HIDE DEF Kept
  <1> QED BY <1>2 DEF LoopTo

\* What is kept is live, and nothing live is left out.
KeptUpTo(i) ==
    /\ Kept[i] \in Seq(Token)
    /\ \A j \in 1 .. Len(Kept[i]) : Live(Kept[i][j])
    /\ \A j \in 1 .. i : Live(order[j]) => \E k \in 1 .. Len(Kept[i]) : Kept[i][k] = order[j]

LEMMA KeptHasLive ==
    ASSUME order \in Seq(Token)
    PROVE  \A i \in 0 .. Len(order) : KeptUpTo(i)
  <1> DEFINE wrong == {i \in 0 .. Len(order) : ~KeptUpTo(i)}
  <1> SUFFICES ASSUME wrong # {} PROVE FALSE
    OBVIOUS
  <1>0. Len(order) \in Nat
    BY LenProperties
  <1>b. wrong \in SUBSET Nat
    BY <1>0
  <1>1. PICK i \in wrong : \A m \in wrong : i <= m
    <2> HIDE DEF wrong
    <2> QED BY <1>b, LeastNatural
  <1>2. CASE i = 0
    <2>1. Kept[0] = << >>
      BY <1>0, KeptIs DEF Turn
    <2> HIDE DEF Kept, wrong
    <2>2. Kept[0] \in Seq(Token) /\ Len(Kept[0]) = 0
      BY <2>1, EmptySeq
    <2>3. KeptUpTo(0)
      BY <2>2 DEF KeptUpTo
    <2> QED BY <1>2, <2>3 DEF wrong
  <1>3. CASE i # 0
    <2>1. i \in 1 .. Len(order) /\ i - 1 \in 0 .. Len(order) /\ i - 1 \notin wrong
      BY <1>0, <1>1, <1>3
    <2>2. KeptUpTo(i - 1)
      BY <2>1
    <2>3. Kept[i] = IF Live(order[i]) THEN Append(Kept[i - 1], order[i]) ELSE Kept[i - 1]
      BY <2>1, <1>3, KeptIs DEF Turn
    <2> HIDE DEF Kept, wrong
    <2>4. order[i] \in Token
      BY <2>1, ElementOfSeq
    <2>5. KeptUpTo(i)
      <3>1. CASE Live(order[i])
        <4> DEFINE s == Kept[i - 1]
        <4>1. /\ Kept[i] = Append(s, order[i]) /\ s \in Seq(Token)
              /\ \A j \in 1 .. Len(s) : Live(s[j])
              /\ \A j \in 1 .. i - 1 : Live(order[j]) => \E k \in 1 .. Len(s) : s[k] = order[j]
          BY <2>2, <2>3, <3>1 DEF KeptUpTo
        <4> HIDE DEF s
        <4>2. /\ Kept[i] \in Seq(Token) /\ Len(Kept[i]) = Len(s) + 1 /\ Len(s) \in Nat
              /\ Kept[i][Len(s) + 1] = order[i]
              /\ \A j \in 1 .. Len(s) : Kept[i][j] = s[j]
          BY <2>4, <4>1, AppendProperties, LenProperties
        <4>3. \A j \in 1 .. Len(Kept[i]) : Live(Kept[i][j])
          BY <3>1, <4>1, <4>2
        <4>4. ASSUME NEW j \in 1 .. i, Live(order[j])
              PROVE  \E k \in 1 .. Len(Kept[i]) : Kept[i][k] = order[j]
          <5>1. CASE j = i
            BY <4>2, <5>1
          <5>2. CASE j # i
            <6>1. j \in 1 .. i - 1
              BY <2>1, <5>2
            <6> QED BY <4>1, <4>2, <4>4, <6>1
          <5> QED BY <5>1, <5>2
        <4> QED BY <4>2, <4>3, <4>4 DEF KeptUpTo
      <3>2. CASE ~Live(order[i])
        <4>1. \A j \in 1 .. i : Live(order[j]) => j \in 1 .. i - 1
          BY <2>1, <3>2
        <4> QED BY <2>2, <2>3, <3>2, <4>1 DEF KeptUpTo
      <3> QED BY <3>1, <3>2
    <2> QED BY <2>5 DEF wrong
  <1> QED BY <1>2, <1>3

\* A full cache has a place free afterwards, and what it still holds can be
\* evicted in its turn.
LEMMA EvictFrees ==
    ASSUME CacheTypeOK, order \in Seq(Token), CacheBounded
    PROVE  LET room == Evict(MaxEntries)
           IN  /\ room.order \in Seq(Token)
               /\ room.entries \in [Token -> Verdict \cup {NoVerdict}]
               /\ Cardinality(Cached(room.entries)) <= MaxEntries - 1
               /\ \A t \in Cached(room.entries) :
                    \E i \in 1 .. Len(room.order) : room.order[i] = t
  <1> DEFINE kept    == Kept[Len(order)]
             live    == {t \in Token : Live(t)}
             crowded == Cardinality(live) >= MaxEntries /\ kept # << >>
             room    == Evict(MaxEntries)
  <1>1. /\ kept \in Seq(Token)
        /\ \A j \in 1 .. Len(kept) : Live(kept[j])
        /\ \A t \in live : \E k \in 1 .. Len(kept) : kept[k] = t
    <2>1. KeptUpTo(Len(order))
      BY KeptHasLive, LenProperties
    <2>2. \A t \in live : \E j \in 1 .. Len(order) : order[j] = t
      BY DEF CacheBounded, InOrder, Cached, Live
    <2> HIDE DEF Kept
    <2> QED BY <2>1, <2>2 DEF KeptUpTo
  <1>2. /\ room.order = IF crowded THEN Tail(kept) ELSE kept
        /\ room.entries = [t \in Token |-> IF t \in live /\ ~(crowded /\ t = Head(kept))
                                          THEN entries[t] ELSE NoVerdict]
    BY DEF Evict
  <1> HIDE DEF kept, room
  <1>3. /\ IsFiniteSet(live) /\ Cardinality(live) \in Nat
        /\ MaxEntries \in Nat \ {0}
    BY PatAssumption, FS_Subset, FS_CardinalityType
  <1>4. room.entries \in [Token -> Verdict \cup {NoVerdict}]
    BY <1>2 DEF CacheTypeOK
  <1>5. Cached(room.entries) = {t \in live : ~(crowded /\ t = Head(kept))}
    BY <1>2 DEF Cached, Live
  <1>6. Cardinality(live) <= MaxEntries
    <2>1. live \subseteq Cached(entries) /\ Cached(entries) \subseteq Token
      BY DEF Cached, Live
    <2>2. /\ IsFiniteSet(Cached(entries)) /\ Cardinality(Cached(entries)) \in Nat
          /\ Cardinality(live) <= Cardinality(Cached(entries))
      BY <2>1, PatAssumption, FS_Subset, FS_CardinalityType
    <2> QED BY <1>3, <2>2 DEF CacheBounded
  <1>7. CASE crowded
    <2>1. kept # << >>
      BY <1>7
    <2>2. /\ Head(kept) = kept[1] /\ 1 \in 1 .. Len(kept) /\ Len(kept) \in Nat
          /\ Tail(kept) \in Seq(Token) /\ Len(Tail(kept)) = Len(kept) - 1
          /\ \A i \in 1 .. Len(Tail(kept)) : Tail(kept)[i] = kept[i + 1]
          /\ Head(kept) \in Token
      BY <1>1, <2>1, HeadTailProperties, EmptySeq, LenProperties
    <2>3. Head(kept) \in live
      BY <1>1, <2>2
    <2>4. Cached(room.entries) = live \ {Head(kept)}
      BY <1>5, <1>7
    <2>5. Cardinality(live \ {Head(kept)}) = Cardinality(live) - 1
      BY <1>3, <2>3, FS_RemoveElement
    <2>6. ASSUME NEW t \in Cached(room.entries)
          PROVE  \E i \in 1 .. Len(room.order) : room.order[i] = t
      <3>1. PICK k \in 1 .. Len(kept) : kept[k] = t
        BY <1>1, <2>4
      <3>2. k # 1
        BY <2>2, <2>4, <3>1
      <3>3. k - 1 \in 1 .. Len(Tail(kept)) /\ Tail(kept)[k - 1] = t
        BY <2>2, <3>1, <3>2
      <3> QED BY <1>2, <1>7, <3>3
    <2>7. Cardinality(Cached(room.entries)) <= MaxEntries - 1
      BY <1>3, <1>6, <2>4, <2>5
    <2> HIDE DEF crowded, live
    <2> QED BY <1>2, <1>4, <1>7, <2>2, <2>6, <2>7 DEF room
  <1>8. CASE ~crowded
    <2>1. Cached(room.entries) = live
      BY <1>5, <1>8
    <2>2. Cardinality(live) <= MaxEntries - 1
      <3>1. CASE kept = << >>
        <4>1. Len(kept) = 0
          BY <1>1, <3>1, EmptySeq
        <4>2. live = {}
          BY <1>1, <4>1
        <4> HIDE DEF live
        <4> QED BY <1>3, <4>2, FS_EmptySet
      <3>2. CASE kept # << >>
        BY <1>3, <1>8, <3>2
      <3> QED BY <3>1, <3>2
    <2>3. \A t \in live : \E i \in 1 .. Len(room.order) : room.order[i] = t
      BY <1>1, <1>2, <1>8
    <2> HIDE DEF crowded, live
    <2> QED BY <1>1, <1>2, <1>4, <1>8, <2>1, <2>2, <2>3 DEF room
  <1> QED BY <1>7, <1>8

LEMMA StoreKeepsBound ==
    ASSUME CacheTypeOK, order \in Seq(Token), CacheBounded,
           NEW t \in Token, NEW vd \in Verdict, Store(t, vd)
    PROVE  order' \in Seq(Token) /\ CacheBounded'
  <1>1. vd # NoVerdict
    BY PatAssumption DEF Verdict, NoVerdict
  <1>2. MaxEntries \in Nat \ {0} /\ IsFiniteSet(Cached(entries))
        /\ Cardinality(Cached(entries)) \in Nat
    BY PatAssumption, FS_Subset, FS_CardinalityType DEF Cached
  <1>3. CASE entries[t] # NoVerdict
    <2>1. entries' = [entries EXCEPT ![t] = vd] /\ order' = order
      BY <1>3 DEF Store
    <2>2. Cached(entries') = Cached(entries)
      BY <1>1, <1>3, <2>1 DEF Cached, CacheTypeOK
    <2> QED BY <2>1, <2>2 DEF CacheBounded, InOrder
  <1>4. CASE entries[t] = NoVerdict
    <2> DEFINE room == IF Cardinality(Cached(entries)) >= MaxEntries
                       THEN Evict(MaxEntries)
                       ELSE [entries |-> entries, order |-> order]
    <2>1. /\ room.order \in Seq(Token)
          /\ room.entries \in [Token -> Verdict \cup {NoVerdict}]
          /\ Cardinality(Cached(room.entries)) <= MaxEntries - 1
          /\ \A x \in Cached(room.entries) :
               \E i \in 1 .. Len(room.order) : room.order[i] = x
      <3>1. CASE Cardinality(Cached(entries)) >= MaxEntries
        BY <3>1, EvictFrees
      <3>2. CASE ~ Cardinality(Cached(entries)) >= MaxEntries
        <4>1. room = [entries |-> entries, order |-> order]
          BY <3>2
        <4>2. room.order = order /\ room.entries = entries
          BY <4>1
        <4> HIDE DEF room
        <4> QED BY <1>2, <3>2, <4>2 DEF CacheTypeOK, CacheBounded, InOrder
      <3> QED BY <3>1, <3>2
    <2>2. /\ entries' = [room.entries EXCEPT ![t] = vd]
          /\ order' = Append(room.order, t)
      BY <1>4 DEF Store
    <2> HIDE DEF room
    <2>3. Cached(entries') = Cached(room.entries) \cup {t}
      BY <1>1, <2>1, <2>2 DEF Cached
    <2>4. Cardinality(Cached(entries')) <= MaxEntries
      <3>1. IsFiniteSet(Cached(room.entries)) /\ Cardinality(Cached(room.entries)) \in Nat
        BY PatAssumption, FS_Subset, FS_CardinalityType DEF Cached
      <3>2. \/ Cardinality(Cached(room.entries) \cup {t}) = Cardinality(Cached(room.entries))
            \/ Cardinality(Cached(room.entries) \cup {t}) = Cardinality(Cached(room.entries)) + 1
        BY <3>1, FS_AddElement, Zenon
      <3> QED BY <1>2, <2>1, <2>3, <3>1, <3>2
    <2>5. /\ order' \in Seq(Token) /\ Len(order') = Len(room.order) + 1
          /\ Len(room.order) \in Nat
          /\ order'[Len(room.order) + 1] = t
          /\ \A i \in 1 .. Len(room.order) : order'[i] = room.order[i]
      BY <2>1, <2>2, AppendProperties, LenProperties
    <2>6. \A x \in Cached(entries') : \E i \in 1 .. Len(order') : order'[i] = x
      BY <2>1, <2>3, <2>5
    <2> QED BY <2>4, <2>5, <2>6 DEF CacheBounded, InOrder
  <1> QED BY <1>3, <1>4

-----------------------------------------------------------------------------
(* The invariant *)

LEMMA PatInitially == PatInit => PInv
  BY PatAssumption DEF PatInit, PInv, CacheTypeOK, CallerState, OneLeader, DecidedInTime,
     VerdictsEnd, Instant, Refused, NoVerdict

LEMMA RestKeeps ==
    ASSUME PInv, NEW c \in Caller, NEW t \in Token,
           Ask(c, t) \/ Hit(c)
    PROVE  PInv'
  <1> USE DEF PInv, CacheTypeOK
  <1>1. CASE Ask(c, t)
    <2>1. Looking(t) \in CallerState
      BY DEF Looking, CallerState
    <2>2. CacheTypeOK'
      BY <1>1, <2>1 DEF Ask
    <2>3. OneLeader'
      BY <1>1 DEF Ask, Looking, OneLeader
    <2>4. DecidedInTime'
      BY <1>1 DEF Ask, Looking, DecidedInTime
    <2> QED BY <1>1, <2>2, <2>3, <2>4 DEF Ask, VerdictsEnd
  <1>2. CASE Hit(c)
    <2>1. caller[c].token \in Token
      BY <1>2, AskedToken DEF Hit
    <2>2. entries[caller[c].token].valid \in BOOLEAN
      BY <2>1, VerdictIs
    <2>3. PICK own \in {[pc |-> "accepted"], Refused} : caller' = [caller EXCEPT ![c] = own]
      BY <1>2, <2>2, DoneOnly DEF Hit
    <2>4. CacheTypeOK'
      BY <1>2, <2>3 DEF Hit, CallerState, Refused
    <2>5. OneLeader'
      BY <1>2, <2>3 DEF Hit, Refused, OneLeader
    <2>6. DecidedInTime'
      BY <1>2, <2>3 DEF Hit, Refused, DecidedInTime
    <2> QED BY <1>2, <2>4, <2>5, <2>6 DEF Hit, VerdictsEnd
  <1> QED BY <1>1, <1>2

\* A look that finds nothing fresh: the entry goes, and with it a bound to keep.
LEMMA MissKeeps ==
    ASSUME PInv, NEW c \in Caller, Lead(c) \/ Follow(c)
    PROVE  PInv'
  <1> USE DEF PInv, CacheTypeOK
  <1> DEFINE t == caller[c].token
  <1>1. /\ caller[c].pc = "looking" /\ t \in Token
        /\ entries' = [entries EXCEPT ![t] = NoVerdict]
        /\ UNCHANGED <<patClock, order, revokedAt>>
    BY AskedToken DEF Lead, Follow, Miss
  <1>2. VerdictsEnd'
    BY <1>1 DEF VerdictsEnd, NoVerdict
  <1>3. CASE Lead(c)
    <2>1. caller' = [caller EXCEPT ![c] = [pc |-> "leading", token |-> t]]
      BY <1>3 DEF Lead
    <2>2. CacheTypeOK'
      BY <1>1, <1>3, <2>1 DEF Lead, CallerState
    <2>3. OneLeader'
      <3>1. /\ inflight[t] = NoLeader /\ inflight' = [inflight EXCEPT ![t] = c]
        BY <1>3 DEF Lead
      <3>2. \A d \in Caller : caller[d].pc = "waiting" => /\ caller[d].token \in Token
                                                          /\ caller[d].on \in Caller
        BY DEF CallerState
      <3>3. \A d \in Caller : caller[d].pc = "waiting" => caller[d].token # t
        BY <3>1, <3>2, PatAssumption DEF OneLeader
      <3>4. \A x \in Token, d \in Caller :
              inflight'[x] = d <=> /\ caller'[d].pc \in {"leading", "decided"}
                                   /\ caller'[d].token = x
        BY <1>1, <2>1, <3>1, PatAssumption DEF OneLeader
      <3> QED BY <1>1, <2>1, <3>1, <3>2, <3>3, <3>4 DEF OneLeader
    <2>4. DecidedInTime'
      BY <1>1, <2>1 DEF DecidedInTime
    <2> QED BY <1>2, <2>2, <2>3, <2>4
  <1>4. CASE Follow(c)
    <2>1. inflight[t] \in Caller
      BY <1>1, <1>4 DEF Follow
    <2>2. PICK own \in {[pc |-> "waiting", token |-> t, on |-> inflight[t]], Refused} :
              caller' = [caller EXCEPT ![c] = own]
      BY <1>4 DEF Follow
    <2>3. CacheTypeOK'
      BY <1>1, <1>4, <2>1, <2>2 DEF Follow, CallerState, Refused
    <2>4. OneLeader'
      BY <1>1, <1>4, <2>2 DEF Follow, Refused, OneLeader
    <2>5. DecidedInTime'
      BY <1>1, <2>2 DEF Refused, DecidedInTime
    <2> QED BY <1>2, <2>3, <2>4, <2>5
  <1> QED BY <1>3, <1>4

LEMMA DecideKeeps ==
    ASSUME PInv, NEW c \in Caller, Decide(c)
    PROVE  PInv'
  <1> USE DEF PInv, CacheTypeOK
  <1> DEFINE t == caller[c].token
  <1>1. caller[c].pc = "leading" /\ t \in Token
    BY AskedToken DEF Decide
  <1>2. PICK valid \in BOOLEAN :
          /\ caller' = [caller EXCEPT ![c] = [pc |-> "decided", token |-> t,
                                              at |-> patClock, valid |-> valid]]
          /\ valid => patClock < revokedAt[t]
    BY DEF Decide
  <1>3. CacheTypeOK'
    BY <1>1, <1>2 DEF Decide, CallerState
  <1>4. OneLeader'
    BY <1>1, <1>2 DEF Decide, OneLeader
  <1>5. DecidedInTime'
    <2>1. patClock \in Int /\ Latency \in Nat /\ revokedAt[t] \in Int
      BY <1>1, PatAssumption DEF Instant, Never
    <2> QED BY <1>1, <1>2, <2>1 DEF Decide, DecidedInTime
  <1> QED BY <1>3, <1>4, <1>5 DEF Decide, VerdictsEnd

LEMMA ConcludeKeeps ==
    ASSUME PInv, NEW c \in Caller, Conclude(c) \/ Fail(c)
    PROVE  PInv'
  <1> USE DEF PInv, CacheTypeOK
  <1> DEFINE t == caller[c].token
  <1>1. /\ caller[c].pc \in {"leading", "decided"} /\ t \in Token
        /\ inflight' = [inflight EXCEPT ![t] = NoLeader]
        /\ UNCHANGED <<patClock, revokedAt>>
    BY AskedToken DEF Conclude, Fail
  <1>2. caller[c].pc = "decided" => caller[c].valid \in BOOLEAN /\ caller[c].at \in Instant
    BY DEF CallerState
  <1>3. PICK own \in {[pc |-> "accepted"], Refused} : caller' = Awakened(c, own)
    BY <1>2, DoneOnly DEF Conclude, Fail
  <1>4. /\ caller' \in [Caller -> CallerState]
        /\ caller'[c] = own
        /\ \A d \in Caller \ {c} :
             \/ /\ caller[d].pc = "waiting" /\ caller[d].on = c
                /\ caller'[d] = Looking(caller[d].token)
             \/ /\ ~(caller[d].pc = "waiting" /\ caller[d].on = c)
                /\ caller'[d] = caller[d]
    BY <1>3, AwakenedOnly
  <1>5. own.pc \in {"accepted", "refused"}
    BY DEF Refused
  <1>6. OneLeader'
    <2>1. inflight[t] = c
      BY <1>1 DEF OneLeader
    <2>2. \A d \in Caller : caller[d].pc = "waiting" => /\ caller[d].token \in Token
                                                        /\ caller[d].on \in Caller
      BY DEF CallerState
    <2>3. \A x \in Token, d \in Caller :
            inflight'[x] = d <=> /\ caller'[d].pc \in {"leading", "decided"}
                                 /\ caller'[d].token = x
      <3> SUFFICES ASSUME NEW x \in Token, NEW d \in Caller
                   PROVE  inflight'[x] = d <=> /\ caller'[d].pc \in {"leading", "decided"}
                                               /\ caller'[d].token = x
        OBVIOUS
      <3>1. CASE d = c
        BY <1>1, <1>4, <1>5, <2>1, <3>1, PatAssumption DEF OneLeader
      <3>2. CASE d # c
        BY <1>1, <1>4, <2>1, <3>2, PatAssumption DEF OneLeader, Looking
      <3> QED BY <3>1, <3>2
    <2>4. \A d \in Caller :
            caller'[d].pc = "waiting" => inflight'[caller'[d].token] = caller'[d].on
      <3> SUFFICES ASSUME NEW d \in Caller, caller'[d].pc = "waiting"
                   PROVE  inflight'[caller'[d].token] = caller'[d].on
        OBVIOUS
      <3>1. d # c /\ caller'[d] = caller[d] /\ caller[d].on # c
        BY <1>4, <1>5 DEF Looking
      <3> QED BY <1>1, <2>1, <2>2, <3>1 DEF OneLeader
    <2> QED BY <2>3, <2>4 DEF OneLeader
  <1>7. DecidedInTime'
    <2> SUFFICES ASSUME NEW d \in Caller, caller'[d].pc = "decided"
                 PROVE  d # c /\ caller'[d] = caller[d]
      BY <1>1 DEF DecidedInTime
    <2> QED BY <1>4, <1>5 DEF Looking
  <1>8. /\ entries' \in [Token -> Verdict \cup {NoVerdict}]
        /\ VerdictsEnd'
    <2>1. CASE Fail(c)
      BY <1>1, <2>1 DEF Fail, VerdictsEnd
    <2>2. CASE Conclude(c)
      <3> DEFINE valid == caller[c].valid
      <3>1. valid \in BOOLEAN /\ caller[c].at \in Instant
        BY <1>2, <2>2 DEF Conclude
      <3>2. /\ patClock \in Int /\ Latency \in Nat /\ TTL \in Nat /\ Horizon \in Nat
            /\ ExpiryOf[t] \in Int /\ ExpiryOf[t] >= 0 /\ revokedAt[t] \in Int
        <4>1. ExpiryOf[t] \in 0 .. Horizon + 1
          BY <1>1, PatAssumption
        <4>2. revokedAt[t] \in Instant \cup {Never}
          BY <1>1
        <4> QED BY <4>1, <4>2, PatAssumption DEF Instant, Never
      <3>3. PICK until \in 0 .. Horizon + TTL :
              /\ until = Until(t, valid)
              /\ until <= patClock + TTL
              /\ valid /\ ExpiryOf[t] # Never => until <= ExpiryOf[t]
        BY <1>1, <3>1, <3>2 DEF Until, Instant, Never
      <3> DEFINE vd == [valid |-> valid, until |-> until]
      <3>8. Store(t, vd)
        BY <2>2, <3>3 DEF Conclude
      <3>4. valid => until <= revokedAt[t] + Latency + TTL
        <4> HAVE valid
        <4>1. patClock <= caller[c].at + Latency /\ caller[c].at <= revokedAt[t]
          BY <2>2 DEF Conclude, DecidedInTime
        <4>2. caller[c].at \in Int
          BY <3>1, <3>2 DEF Instant
        <4>3. until \in Int
          BY <3>2
        <4>4. until <= patClock + TTL
          BY <3>3, Zenon
        <4> HIDE DEF t
        <4> QED BY <3>2, <4>1, <4>2, <4>3, <4>4, LaterStill
      <3>5. vd \in Verdict
        BY <3>1, <3>3 DEF Verdict
      <3>6. /\ entries' \in [Token -> Verdict \cup {NoVerdict}]
            /\ \A x \in Token : \/ entries'[x] \in {entries[x], NoVerdict}
                                \/ x = t /\ entries'[x] = vd
        BY <1>1, <3>5, <3>8, StoreOnly
      <3>7. VerdictsEnd'
        <4> HIDE DEF vd
        <4> SUFFICES ASSUME NEW x \in Token, entries'[x].valid
                     PROVE  /\ entries'[x].until <= patClock + TTL
                            /\ revokedAt[x] # Never
                                 => entries'[x].until <= revokedAt[x] + Latency + TTL
                            /\ ExpiryOf[x] # Never => entries'[x].until <= ExpiryOf[x]
          BY <1>1 DEF VerdictsEnd
        <4>1. CASE entries'[x] \in {entries[x], NoVerdict}
          BY <4>1 DEF VerdictsEnd, NoVerdict
        <4>2. CASE x = t /\ entries'[x] = vd
          BY <3>3, <3>4, <4>2 DEF vd
        <4> QED BY <3>6, <4>1, <4>2
      <3> QED BY <3>6, <3>7
    <2> QED BY <2>1, <2>2
  <1>9. CacheTypeOK'
    BY <1>1, <1>4, <1>8
  <1> QED BY <1>6, <1>7, <1>8, <1>9

LEMMA RevokeKeeps ==
    ASSUME PInv, NEW t \in Token, Revoke(t)
    PROVE  PInv'
  <1> USE DEF PInv, CacheTypeOK
  <1>1. /\ revokedAt[t] = Never
        /\ revokedAt' = [revokedAt EXCEPT ![t] = patClock]
        /\ UNCHANGED <<patClock, entries, inflight, caller>>
    BY DEF Revoke
  <1>2. patClock \in Int /\ Latency \in Nat /\ TTL \in Nat
    BY PatAssumption DEF Instant
  <1>3. DecidedInTime'
    BY <1>1, <1>2 DEF DecidedInTime
  <1>4. VerdictsEnd'
    <2> SUFFICES ASSUME NEW x \in Token, entries[x].valid, revokedAt'[x] # Never
                 PROVE  entries[x].until <= revokedAt'[x] + Latency + TTL
      BY <1>1 DEF VerdictsEnd
    <2>1. entries[x].until \in Int
      BY VerdictIs
    <2> QED BY <1>1, <1>2, <2>1 DEF VerdictsEnd
  <1> QED BY <1>1, <1>3, <1>4 DEF OneLeader

LEMMA TickKeepsCache ==
    ASSUME PInv, PatTick
    PROVE  PInv'
  <1> USE DEF PInv, CacheTypeOK
  <1>1. /\ patClock < Horizon /\ patClock' = patClock + 1
        /\ patClock \in Int /\ Horizon \in Nat /\ Latency \in Nat /\ TTL \in Nat
        /\ UNCHANGED <<entries, inflight, caller, revokedAt>>
    BY PatAssumption DEF PatTick, Instant
  <1>2. DecidedInTime'
    <2> SUFFICES ASSUME NEW c \in Caller, caller[c].pc = "decided"
                 PROVE  /\ patClock + 1 <= caller[c].at + Latency
                        /\ caller[c].at <= patClock + 1
      BY <1>1 DEF DecidedInTime
    <2>1. caller[c].at \in Int
      BY DEF CallerState, Instant
    <2> QED BY <1>1, <2>1 DEF PatTick, DecidedInTime
  <1>3. VerdictsEnd'
    BY <1>1, VerdictIs DEF VerdictsEnd
  <1> QED BY <1>1, <1>2, <1>3 DEF Instant, OneLeader

LEMMA PInvKept ==
    ASSUME PInv, [PatNext]_patVars
    PROVE  PInv'
  <1>1. ASSUME NEW c \in Caller, NEW t \in Token, Ask(c, t)
        PROVE  PInv'
    BY <1>1, RestKeeps
  <1>2. ASSUME NEW c \in Caller, Resolves(c)
        PROVE  PInv'
    <2>1. CASE Hit(c)
      <3>1. PICK t : t \in Token
        BY <2>1, AskedToken DEF Hit, PInv
      <3> QED BY <2>1, <3>1, RestKeeps
    <2> QED BY <1>2, <2>1, MissKeeps, DecideKeeps, ConcludeKeeps DEF Resolves
  <1>3. CASE UNCHANGED patVars
    BY <1>3 DEF patVars, PInv, CacheTypeOK, OneLeader, DecidedInTime, VerdictsEnd
  <1> QED BY <1>1, <1>2, <1>3, RevokeKeeps, TickKeepsCache DEF PatNext

LEMMA PInvAlways == PatSpec => []PInv
  BY PatInitially, PInvKept, PTL DEF PatSpec

-----------------------------------------------------------------------------
(* The bound, with the order it depends on *)

BoundInv == PInv /\ order \in Seq(Token) /\ CacheBounded

LEMMA BoundKept ==
    ASSUME BoundInv, [PatNext]_patVars
    PROVE  BoundInv'
  <1> USE DEF BoundInv
  <1>1. PInv' /\ CacheTypeOK
    BY PInvKept DEF PInv
  <1>2. CASE UNCHANGED <<entries, order>>
    BY <1>1, <1>2 DEF CacheBounded, InOrder
  \* A look that finds nothing fresh may take an entry out, and leaves its key
  \* in the order.
  <1>3. ASSUME NEW c \in Caller, Lead(c) \/ Follow(c)
        PROVE  BoundInv'
    <2>1. /\ entries' = [entries EXCEPT ![caller[c].token] = NoVerdict]
          /\ UNCHANGED order
      BY <1>3 DEF Lead, Follow, Miss
    <2>2. Cached(entries') \subseteq Cached(entries)
      BY <1>1, <2>1 DEF Cached, CacheTypeOK
    <2>3. Cardinality(Cached(entries')) <= MaxEntries
      <3>1. IsFiniteSet(Cached(entries))
        BY PatAssumption, FS_Subset DEF Cached
      <3>2. /\ IsFiniteSet(Cached(entries'))
            /\ Cardinality(Cached(entries')) <= Cardinality(Cached(entries))
        BY <2>2, <3>1, FS_Subset
      <3>3. /\ Cardinality(Cached(entries)) \in Nat
            /\ Cardinality(Cached(entries')) \in Nat /\ MaxEntries \in Nat
        BY <3>1, <3>2, FS_CardinalityType, PatAssumption
      <3> QED BY <3>2, <3>3 DEF CacheBounded
    <2> QED BY <1>1, <2>1, <2>2, <2>3 DEF CacheBounded, InOrder
  <1>4. ASSUME NEW c \in Caller, Conclude(c)
        PROVE  BoundInv'
    <2> DEFINE t     == caller[c].token
               valid == caller[c].valid
    <2>1. t \in Token /\ valid \in BOOLEAN
      <3>1. caller[c].pc = "decided"
        BY <1>4 DEF Conclude
      <3> QED BY <1>1, <3>1, AskedToken DEF CacheTypeOK, CallerState
    <2>2. Until(t, valid) \in 0 .. Horizon + TTL
      <3>1. ExpiryOf[t] \in 0 .. Horizon + 1
        BY <2>1, PatAssumption
      <3> QED BY <1>1, <3>1, PatAssumption DEF Until, CacheTypeOK, Instant
    <2>3. Store(t, [valid |-> valid, until |-> Until(t, valid)])
      BY <1>4 DEF Conclude
    <2>4. [valid |-> valid, until |-> Until(t, valid)] \in Verdict
      BY <2>1, <2>2 DEF Verdict
    <2> QED BY <1>1, <2>1, <2>3, <2>4, StoreKeepsBound
  <1>5. \/ UNCHANGED <<entries, order>>
        \/ \E c \in Caller : Lead(c) \/ Follow(c) \/ Conclude(c)
    BY DEF PatNext, Resolves, Ask, Hit, Decide, Fail, Revoke, PatTick, patVars
  <1> QED BY <1>2, <1>3, <1>4, <1>5

LEMMA BoundInitially == PatInit => BoundInv
  <1> SUFFICES ASSUME PatInit PROVE order \in Seq(Token) /\ CacheBounded
    BY PatInitially DEF BoundInv
  <1>1. Cached(entries) = {} /\ order = << >>
    BY DEF PatInit, Cached
  <1>2. Cardinality(Cached(entries)) = 0
    BY <1>1, FS_EmptySet
  <1> QED BY <1>1, <1>2, EmptySeq, PatAssumption DEF CacheBounded

LEMMA BoundAlways == PatSpec => []BoundInv
  BY BoundInitially, BoundKept, PTL DEF PatSpec

-----------------------------------------------------------------------------
(* Theorems *)

\* Cache, order of insertion, calls and callers keep their types.
THEOREM PatTypeCorrect == PatSpec => []PatTypeOK
  <1>1. BoundInv => PatTypeOK
    BY DEF BoundInv, PInv, CacheTypeOK, PatTypeOK
  <1> QED BY <1>1, BoundAlways, PTL

\* However entries expire, are stored anew and evicted, and although keys are
\* twice in the order, the cache holds no more than MaxEntries verdicts, and each
\* of them can be evicted.
THEOREM CacheBoundedCorrect == PatSpec => []CacheBounded
  <1>1. BoundInv => CacheBounded
    BY DEF BoundInv
  <1> QED BY <1>1, BoundAlways, PTL

\* The account service is asked about a token by one request at a time, and who
\* waits for an answer waits for the request that asks.
THEOREM OneLeaderCorrect == PatSpec => []OneLeader
  <1>1. PInv => OneLeader
    BY DEF PInv
  <1> QED BY <1>1, PInvAlways, PTL

\* Whatever order calls, answers, expiries and revocations come in, a revoked
\* token is accepted no longer than TTL and the duration of one call.
THEOREM RevocationWindowCorrect == PatSpec => RevocationWindow
  <1> DEFINE Window ==
        \A c \in Caller :
          caller[c].pc # "accepted" /\ caller'[c].pc = "accepted"
          => LET t == caller[c].token
             IN  /\ revokedAt[t] # Never => patClock < revokedAt[t] + Latency + TTL
                 /\ ExpiryOf[t] # Never /\ caller[c].pc = "looking" => patClock < ExpiryOf[t]
  <1>1. PInv /\ [PatNext]_patVars => Window
    <2> SUFFICES ASSUME PInv, [PatNext]_patVars, NEW c \in Caller,
                        caller[c].pc # "accepted", caller'[c].pc = "accepted"
                 PROVE  LET t == caller[c].token
                        IN  /\ revokedAt[t] # Never => patClock < revokedAt[t] + Latency + TTL
                            /\ ExpiryOf[t] # Never /\ caller[c].pc = "looking"
                                 => patClock < ExpiryOf[t]
      OBVIOUS
    <2> USE DEF PInv, CacheTypeOK
    <2> DEFINE t == caller[c].token
    <2>1. Hit(c) \/ (Conclude(c) /\ caller[c].valid)
      <3>1. ASSUME NEW d \in Caller, NEW x \in Token, Ask(d, x)
            PROVE  FALSE
        BY <3>1 DEF Ask, Looking
      <3>2. ASSUME NEW d \in Caller, NEW own, own.pc # "accepted",
                   caller' = [caller EXCEPT ![d] = own]
            PROVE  FALSE
        BY <3>2
      <3>3. ASSUME NEW d \in Caller, Hit(d)
            PROVE  d = c
        BY <3>3 DEF Hit
      <3>4. ASSUME NEW d \in Caller, NEW own \in {[pc |-> "accepted"], Refused},
                   caller' = Awakened(d, own)
            PROVE  d = c /\ own = [pc |-> "accepted"]
        <4>1. caller'[d] = own /\ \A e \in Caller \ {d} :
                 caller'[e] = Looking(caller[e].token) \/ caller'[e] = caller[e]
          BY <3>4, AwakenedOnly
        <4>2. d = c
          <5> SUFFICES ASSUME d # c
                       PROVE  FALSE
            OBVIOUS
          <5>1. caller'[c] = Looking(caller[c].token) \/ caller'[c] = caller[c]
            BY <4>1
          <5>2. Looking(caller[c].token).pc = "looking"
            BY DEF Looking
          <5> QED BY <5>1, <5>2
        <4>3. own.pc = "accepted"
          BY <4>1, <4>2
        <4> QED BY <4>2, <4>3 DEF Refused
      <3>5. ASSUME NEW d \in Caller, Fail(d)
            PROVE  FALSE
        <4>1. caller' = Awakened(d, Refused)
          BY <3>5 DEF Fail
        <4>2. Refused = [pc |-> "accepted"]
          BY <3>4, <4>1
        <4> QED BY <4>2 DEF Refused
      <3>7. ASSUME NEW d \in Caller, Lead(d) \/ Follow(d) \/ Decide(d)
            PROVE  FALSE
        <4>1. \E own : own.pc # "accepted" /\ caller' = [caller EXCEPT ![d] = own]
          <5>1. CASE Lead(d)
            BY <5>1 DEF Lead
          <5>2. CASE Follow(d)
            BY <5>2 DEF Follow, Refused
          <5>3. CASE Decide(d)
            BY <5>3 DEF Decide
          <5> QED BY <3>7, <5>1, <5>2, <5>3
        <4> QED BY <3>2, <4>1
      <3>8. ASSUME NEW d \in Caller, Conclude(d)
            PROVE  d = c /\ caller[c].valid
        <4>1. caller[d].valid \in BOOLEAN
          <5>1. caller[d].pc = "decided" /\ caller[d] \in CallerState
            BY <3>8 DEF Conclude
          <5> QED BY <5>1 DEF CallerState
        <4>3. caller' = Awakened(d, Done(caller[d].valid))
          BY <3>8 DEF Conclude
        <4>2. d = c /\ Done(caller[d].valid) = [pc |-> "accepted"]
          BY <3>4, <4>1, <4>3, DoneOnly
        <4> QED BY <4>1, <4>2 DEF Done, Refused
      <3>6. ~UNCHANGED caller
        OBVIOUS
      <3> QED BY <3>1, <3>3, <3>5, <3>6, <3>7, <3>8
              DEF PatNext, Resolves, Revoke, PatTick, patVars
    <2>2. /\ t \in Token /\ patClock \in Int
          /\ Latency \in Nat /\ TTL \in Nat /\ TTL > 0
          /\ revokedAt[t] \in Int /\ ExpiryOf[t] \in Int
      <3>1. t \in Token
        BY <2>1, AskedToken DEF Hit, Conclude
      <3> QED BY <3>1, PatAssumption DEF Instant, Never
    <2>3. CASE Hit(c)
      <3>1. entries[t].valid /\ patClock < entries[t].until
        BY <2>3 DEF Hit, Done, Refused, Fresh
      <3>2. entries[t].until \in Int
        BY <2>2, VerdictIs
      <3> QED BY <2>2, <3>1, <3>2 DEF VerdictsEnd
    <2>4. CASE Conclude(c) /\ caller[c].valid
      <3>1. /\ caller[c].pc = "decided" /\ caller[c].at \in Int
            /\ patClock <= caller[c].at + Latency
            /\ caller[c].at <= revokedAt[t]
        BY <2>4 DEF Conclude, DecidedInTime, CallerState, Instant
      <3> QED BY <2>2, <3>1
    <2> QED BY <2>1, <2>3, <2>4
  <1>2. PatSpec => [][Window]_patVars
    BY <1>1, PInvAlways, PTL DEF PatSpec
  <1> QED BY <1>2, PTL DEF RevocationWindow

-----------------------------------------------------------------------------
(* Signing keys of session tokens: KeyCache *)


\* Requests that were in time to rely on a key.
Relying == {"refreshing", "following", "fetching", "answered", "landing", "looking"}

\* Only keys that were published once are in the cache or on their way to it.
KeysSigned ==
    /\ \A k \in keys : signing[k] # "new"
    /\ \A v \in Verifying, k \in Kid :
         verifying[v].pc = "answered" /\ k \in verifying[v].set => signing[k] # "new"

\* The answer under way does not lack a key that the cache has and that is still
\* published: only the flight itself can change the cache meanwhile.
AnswerCovers ==
    \A v \in Verifying :
        verifying[v].pc = "answered"
          => \A k \in keys : signing[k] = "published" => k \in verifying[v].set

\* A key at hand when the request came is at hand until it is retired.
KnownKept ==
    \A v \in Verifying :
        verifying[v].pc # "idle" /\ verifying[v].known
          => /\ verifying[v].kid \in Kid
             /\ signing[verifying[v].kid] # "new"
             /\ verifying[v].pc \in Relying /\ signing[verifying[v].kid] = "published"
                  => verifying[v].kid \in keys

KInv == /\ KeyTypeOK /\ OneFetch
        /\ KeysSigned /\ AnswerCovers /\ KnownKept /\ KeysOutliveOutage

-----------------------------------------------------------------------------
(* Types *)

LEMMA RequestHasKey ==
    ASSUME KeyTypeOK, NEW v \in Verifying, verifying[v].pc # "idle"
    PROVE  verifying[v].kid \in Named /\ verifying[v].known \in BOOLEAN
  BY DEF KeyTypeOK, VerifyState

LEMMA KeyInitially == KeyInit => KInv
  BY KeyAssumption DEF KeyInit, KInv, KeyTypeOK, VerifyState, OneFetch, InFlight,
     KeysSigned, AnswerCovers, KnownKept, Published, KeysOutliveOutage

LEMMA KeyTypeKept ==
    ASSUME KeyTypeOK, [KeyNext]_keyVars
    PROVE  KeyTypeOK'
  <1>1. ASSUME NEW v \in Verifying, NEW k \in Named, Present(v, k)
        PROVE  KeyTypeOK'
    BY <1>1 DEF KeyTypeOK, VerifyState, Present
  <1>2. ASSUME NEW v \in Verifying, Verifies(v)
        PROVE  KeyTypeOK'
    <2>1. verifying[v].pc # "idle"
      BY <1>2 DEF Verifies, Look, AwaitFlight, SkipFetch, TakeOff, Land, Answer,
                  Replace, FetchFails
    <2>2. verifying[v].kid \in Named /\ verifying[v].known \in BOOLEAN
      BY <2>1, RequestHasKey
    <2>3. \A pc \in {"refreshing", "fetching", "landing", "looking", "verified", "refused"} :
            At(v, pc) \in VerifyState
      BY <2>2 DEF At, VerifyState
    <2>4. CASE Look(v)
      BY <2>3, <2>4 DEF Look, Goto, KeyTypeOK
    <2>5. CASE AwaitFlight(v)
      BY <2>2, <2>5 DEF AwaitFlight, KeyTypeOK, VerifyState
    <2>6. CASE SkipFetch(v)
      BY <2>3, <2>6 DEF SkipFetch, Goto, KeyTypeOK
    <2>7. CASE TakeOff(v)
      BY <2>3, <2>7 DEF TakeOff, Goto, KeyTypeOK
    <2>8. CASE Land(v)
      <3>1. \A w \in Verifying : verifying[w].pc = "following" => At(w, "looking") \in VerifyState
        BY RequestHasKey DEF KeyTypeOK, At, VerifyState
      <3> QED BY <2>3, <2>8, <3>1 DEF Land, KeyTypeOK
    <2>9. CASE Answer(v)
      BY <2>2, <2>9 DEF Answer, KeyTypeOK, VerifyState, Published
    <2>10. CASE Replace(v)
      <3>1. verifying[v].set \subseteq Kid
        BY <2>10 DEF Replace, KeyTypeOK, VerifyState
      <3> QED BY <2>3, <2>10, <3>1 DEF Replace, Goto, KeyTypeOK
    <2>11. CASE FetchFails(v)
      BY <2>3, <2>11 DEF FetchFails, Goto, KeyTypeOK
    <2> QED BY <1>2, <2>4, <2>5, <2>6, <2>7, <2>8, <2>9, <2>10, <2>11 DEF Verifies
  <1>3. ASSUME NEW k \in Kid, Publish(k) \/ Retire(k)
        PROVE  KeyTypeOK'
    BY <1>3 DEF KeyTypeOK, Publish, Retire
  <1>4. CASE Expire
    BY <1>4 DEF KeyTypeOK, Expire
  <1>5. CASE UNCHANGED keyVars
    BY <1>5 DEF KeyTypeOK, keyVars
  <1> QED BY <1>1, <1>2, <1>3, <1>4, <1>5 DEF KeyNext

-----------------------------------------------------------------------------
(* A step of a request replaces its own record and leaves those of others, *)
(* but for the landing, which wakes those who wait for it                  *)

\* One download at a time, and all who wait for one wait for it.
LEMMA OneFetchKept ==
    ASSUME KInv, [KeyNext]_keyVars
    PROVE  OneFetch'
  <1> USE DEF KInv
  <1>1. ASSUME NEW v \in Verifying, NEW k \in Named, Present(v, k)
        PROVE  OneFetch'
    BY <1>1 DEF KeyTypeOK, Present, OneFetch, InFlight
  <1>2. ASSUME NEW v \in Verifying, Verifies(v)
        PROVE  OneFetch'
    <2> USE DEF KeyTypeOK, OneFetch, InFlight, Goto, At
    <2>1. CASE Look(v)
      BY <2>1 DEF Look
    <2>2. CASE AwaitFlight(v)
      BY <2>2 DEF AwaitFlight
    <2>3. CASE SkipFetch(v)
      BY <2>3 DEF SkipFetch
    <2>4. CASE TakeOff(v)
      \* Nobody follows a flight that is none.
      <3>1. \A w \in Verifying : verifying[w].pc = "following" => verifying[w].on \in Verifying
        BY DEF VerifyState
      <3>2. \A w \in Verifying : verifying[w].pc # "following" /\ w \notin InFlight
        BY <2>4, <3>1, KeyAssumption DEF TakeOff
      <3> QED BY <2>4, <3>2 DEF TakeOff
    <2>5. CASE Land(v)
      <3>1. flight = v /\ flight' = NoFlight
        BY <2>5 DEF Land
      <3>2. \A w \in Verifying : /\ verifying'[w].pc \notin {"fetching", "answered", "landing"}
                                /\ verifying'[w].pc # "following"
        <4> SUFFICES ASSUME NEW w \in Verifying
                     PROVE  /\ verifying'[w].pc \notin {"fetching", "answered", "landing"}
                            /\ verifying'[w].pc # "following"
          OBVIOUS
        <4>1. CASE w = v \/ (verifying[w].pc = "following" /\ verifying[w].on = v)
          BY <2>5, <4>1 DEF Land
        <4>2. CASE ~(w = v \/ (verifying[w].pc = "following" /\ verifying[w].on = v))
          BY <2>5, <3>1, <4>2 DEF Land
        <4> QED BY <4>1, <4>2
      <3> QED BY <3>1, <3>2, KeyAssumption
    <2>6. CASE Answer(v)
      BY <2>6 DEF Answer
    <2>7. CASE Replace(v)
      BY <2>7 DEF Replace
    <2>8. CASE FetchFails(v)
      BY <2>8 DEF FetchFails
    <2> QED BY <1>2, <2>1, <2>2, <2>3, <2>4, <2>5, <2>6, <2>7, <2>8 DEF Verifies
  <1>3. ASSUME NEW k \in Kid, Publish(k) \/ Retire(k)
        PROVE  OneFetch'
    BY <1>3 DEF OneFetch, InFlight, Publish, Retire
  <1>4. CASE Expire
    BY <1>4 DEF OneFetch, InFlight, Expire
  <1>5. CASE UNCHANGED keyVars
    BY <1>5 DEF OneFetch, InFlight, keyVars
  <1> QED BY <1>1, <1>2, <1>3, <1>4, <1>5 DEF KeyNext

LEMMA KeysSignedKept ==
    ASSUME KInv, [KeyNext]_keyVars
    PROVE  KeysSigned'
  <1> USE DEF KInv
  <1>1. ASSUME NEW v \in Verifying, NEW k \in Named, Present(v, k)
        PROVE  KeysSigned'
    BY <1>1 DEF KeyTypeOK, Present, KeysSigned
  <1>2. ASSUME NEW v \in Verifying, Verifies(v)
        PROVE  KeysSigned'
    <2> USE DEF KeyTypeOK, KeysSigned, Goto, At
    <2>1. CASE Look(v)
      BY <2>1 DEF Look
    <2>2. CASE AwaitFlight(v)
      BY <2>2 DEF AwaitFlight
    <2>3. CASE SkipFetch(v)
      BY <2>3 DEF SkipFetch
    <2>4. CASE TakeOff(v)
      BY <2>4 DEF TakeOff
    <2>5. CASE Land(v)
      BY <2>5 DEF Land
    <2>6. CASE Answer(v)
      BY <2>6 DEF Answer, Published
    <2>7. CASE Replace(v)
      <3>1. keys' \subseteq Kid
        BY <2>7 DEF Replace, VerifyState
      <3> QED BY <2>7, <3>1 DEF Replace
    <2>8. CASE FetchFails(v)
      BY <2>8 DEF FetchFails
    <2> QED BY <1>2, <2>1, <2>2, <2>3, <2>4, <2>5, <2>6, <2>7, <2>8 DEF Verifies
  <1>3. ASSUME NEW k \in Kid, Publish(k) \/ Retire(k)
        PROVE  KeysSigned'
    BY <1>3 DEF KeyTypeOK, KeysSigned, Publish, Retire
  <1>4. CASE Expire
    BY <1>4 DEF KeysSigned, Expire
  <1>5. CASE UNCHANGED keyVars
    BY <1>5 DEF KeysSigned, keyVars
  <1> QED BY <1>1, <1>2, <1>3, <1>4, <1>5 DEF KeyNext

LEMMA AnswerCoversKept ==
    ASSUME KInv, [KeyNext]_keyVars
    PROVE  AnswerCovers'
  <1> USE DEF KInv
  <1>1. ASSUME NEW v \in Verifying, NEW k \in Named, Present(v, k)
        PROVE  AnswerCovers'
    BY <1>1 DEF KeyTypeOK, Present, AnswerCovers
  <1>2. ASSUME NEW v \in Verifying, Verifies(v)
        PROVE  AnswerCovers'
    <2> USE DEF KeyTypeOK, AnswerCovers, Goto, At
    <2>1. CASE Look(v)
      BY <2>1 DEF Look
    <2>2. CASE AwaitFlight(v)
      BY <2>2 DEF AwaitFlight
    <2>3. CASE SkipFetch(v)
      BY <2>3 DEF SkipFetch
    <2>4. CASE TakeOff(v)
      BY <2>4 DEF TakeOff
    <2>5. CASE Land(v)
      BY <2>5 DEF Land
    <2>6. CASE Answer(v)
      BY <2>6 DEF Answer, Published
    <2>7. CASE Replace(v)
      \* Nobody else has an answer in hand.
      BY <2>7 DEF Replace, OneFetch, InFlight
    <2>8. CASE FetchFails(v)
      BY <2>8 DEF FetchFails
    <2> QED BY <1>2, <2>1, <2>2, <2>3, <2>4, <2>5, <2>6, <2>7, <2>8 DEF Verifies
  <1>3. ASSUME NEW k \in Kid, Publish(k) \/ Retire(k)
        PROVE  AnswerCovers'
    BY <1>3 DEF KeyTypeOK, KeysSigned, AnswerCovers, Publish, Retire
  <1>4. CASE Expire
    BY <1>4 DEF AnswerCovers, Expire
  <1>5. CASE UNCHANGED keyVars
    BY <1>5 DEF AnswerCovers, keyVars
  <1> QED BY <1>1, <1>2, <1>3, <1>4, <1>5 DEF KeyNext

LEMMA KnownKeptKept ==
    ASSUME KInv, [KeyNext]_keyVars
    PROVE  KnownKept' /\ KeysOutliveOutage'
  <1> USE DEF KInv
  <1>1. ASSUME NEW v \in Verifying, NEW k \in Named, Present(v, k)
        PROVE  KnownKept' /\ KeysOutliveOutage'
    BY <1>1 DEF KeyTypeOK, Present, KnownKept, KeysOutliveOutage, Published, Relying
  <1>2. ASSUME NEW v \in Verifying, Verifies(v)
        PROVE  KnownKept' /\ KeysOutliveOutage'
    <2> USE DEF KeyTypeOK, KnownKept, KeysOutliveOutage, Published, Relying, Goto, At
    <2>1. CASE Look(v)
      BY <2>1 DEF Look, Lookup
    <2>2. CASE AwaitFlight(v)
      BY <2>2 DEF AwaitFlight
    <2>3. CASE SkipFetch(v)
      BY <2>3 DEF SkipFetch
    <2>4. CASE TakeOff(v)
      BY <2>4 DEF TakeOff
    <2>5. CASE Land(v)
      BY <2>5 DEF Land
    <2>6. CASE Answer(v)
      BY <2>6 DEF Answer
    <2>7. CASE Replace(v)
      BY <2>7 DEF Replace, AnswerCovers
    <2>8. CASE FetchFails(v)
      BY <2>8 DEF FetchFails
    <2> QED BY <1>2, <2>1, <2>2, <2>3, <2>4, <2>5, <2>6, <2>7, <2>8 DEF Verifies
  <1>3. ASSUME NEW k \in Kid, Publish(k) \/ Retire(k)
        PROVE  KnownKept' /\ KeysOutliveOutage'
    BY <1>3, RequestHasKey DEF KeyTypeOK, KnownKept, KeysOutliveOutage, Published, Relying, Publish, Retire
  <1>4. CASE Expire
    BY <1>4 DEF KnownKept, KeysOutliveOutage, Published, Expire
  <1>5. CASE UNCHANGED keyVars
    BY <1>5 DEF KnownKept, KeysOutliveOutage, Published, keyVars
  <1> QED BY <1>1, <1>2, <1>3, <1>4, <1>5 DEF KeyNext

LEMMA KInvKept == KInv /\ [KeyNext]_keyVars => KInv'
  BY KeyTypeKept, OneFetchKept, KeysSignedKept, AnswerCoversKept, KnownKeptKept DEF KInv

LEMMA KInvAlways == KeySpec => []KInv
  BY KeyInitially, KInvKept, PTL DEF KeySpec

-----------------------------------------------------------------------------
(* Theorems *)

\* The cache and the requests keep their types.
THEOREM KeyTypeCorrect == KeySpec => []KeyTypeOK
  <1>1. KInv => KeyTypeOK
    BY DEF KInv
  <1> QED BY <1>1, KInvAlways, PTL

\* However many requests miss a key at once, one of them downloads the key set.
THEOREM OneFetchCorrect == KeySpec => []OneFetch
  <1>1. KInv => OneFetch
    BY DEF KInv
  <1> QED BY <1>1, KInvAlways, PTL

\* A token signed with a key at hand is not refused for an outage, for an expired
\* cache or for an older answer, as long as the key is published.
THEOREM KeysOutliveOutageCorrect == KeySpec => []KeysOutliveOutage
  <1>1. KInv => KeysOutliveOutage
    BY DEF KInv
  <1> QED BY <1>1, KInvAlways, PTL
=============================================================================
