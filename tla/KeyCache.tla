------------------------------ MODULE KeyCache ------------------------------
(***************************************************************************)
(* The cache of signing keys (Verifier.publicKey in auth/auth.go): one     *)
(* download of the key set at a time, shared by all who need it, and the   *)
(* keys at hand as the fall-back when it fails.                            *)
(*                                                                         *)
(* The key set is read by the account service at one moment and replaces   *)
(* the cache at a later one; keys are published and retired in between.    *)
(* What a download returned as an error decides nothing, since publicKey   *)
(* looks into the cache in either case: flightErr is left out.             *)
(***************************************************************************)
EXTENDS Integers

CONSTANTS
    Kid,       \* key identifiers
    NoKid,     \* the header of a token names no key
    Verifying  \* requests that carry a session token

NoFlight == [nobody |-> TRUE]

ASSUME KeyAssumption == NoFlight \notin Verifying /\ NoKid \notin Kid

VARIABLES
    keys,      \* Verifier.keys
    stale,     \* keyCacheTTL has passed since fetchedAt
    flight,    \* Verifier.flight: who downloads
    signing,   \* the account service: what became of each key
    verifying  \* the requests

keyVars == <<keys, stale, flight, signing, verifying>>

-----------------------------------------------------------------------------
(* State *)

Published == {k \in Kid : signing[k] = "published"}

\* What a token may name as its key.
Named == Kid \cup {NoKid}

\* known: the key was in the cache, and published, when the request came.
VerifyState ==
    [pc : {"idle"}]
      \cup [pc : {"refreshing", "fetching", "landing", "looking", "verified", "refused"},
            kid : Named, known : BOOLEAN]
      \cup [pc : {"following"}, kid : Named, known : BOOLEAN, on : Verifying]
      \cup [pc : {"answered"}, kid : Named, known : BOOLEAN, set : SUBSET Kid]

KeyInit ==
    /\ keys = {}
    /\ stale = TRUE
    /\ flight = NoFlight
    /\ signing = [k \in Kid |-> "new"]
    /\ verifying = [v \in Verifying |-> [pc |-> "idle"]]

\* lookupKey: a token that names no key is tried with the only one there is.
Lookup(k) == k \in keys \/ (k = NoKid /\ \E only \in Kid : keys = {only})

FreshKey(k) == ~stale /\ Lookup(k)

At(v, pc) ==
    [pc |-> pc, kid |-> verifying[v].kid, known |-> verifying[v].known]

Goto(v, pc) == verifying' = [verifying EXCEPT ![v] = At(v, pc)]

-----------------------------------------------------------------------------
(* publicKey *)

\* A fresh key is used at once; for any other the key set is downloaded.
Present(v, k) ==
    /\ verifying[v].pc \in {"idle", "verified", "refused"}
    /\ verifying' = [verifying EXCEPT ![v] =
            [pc |-> IF FreshKey(k) THEN "verified" ELSE "refreshing",
             kid |-> k, known |-> k \in keys /\ k \in Published]]
    /\ UNCHANGED <<keys, stale, flight, signing>>

\* After the download, whatever came of it: a key at hand is good.
Look(v) ==
    /\ verifying[v].pc = "looking"
    /\ Goto(v, IF Lookup(verifying[v].kid) THEN "verified" ELSE "refused")
    /\ UNCHANGED <<keys, stale, flight, signing>>

-----------------------------------------------------------------------------
(* refreshJWKS *)

AwaitFlight(v) ==
    /\ verifying[v].pc = "refreshing"
    /\ flight # NoFlight
    /\ verifying' = [verifying EXCEPT ![v] =
            [pc |-> "following", kid |-> verifying[v].kid, known |-> verifying[v].known,
             on |-> flight]]
    /\ UNCHANGED <<keys, stale, flight, signing>>

\* Another download has just ended and brought the key.
SkipFetch(v) ==
    /\ verifying[v].pc = "refreshing"
    /\ flight = NoFlight /\ FreshKey(verifying[v].kid)
    /\ Goto(v, "looking")
    /\ UNCHANGED <<keys, stale, flight, signing>>

\* Faulty variant: does not look whether somebody downloads already.
TakeOffBeside(v) ==
    /\ verifying[v].pc = "refreshing"
    /\ ~FreshKey(verifying[v].kid)
    /\ flight' = v
    /\ Goto(v, "fetching")
    /\ UNCHANGED <<keys, stale, signing>>

TakeOff(v) ==
    /\ verifying[v].pc = "refreshing"
    /\ flight = NoFlight /\ ~FreshKey(verifying[v].kid)
    /\ flight' = v
    /\ Goto(v, "fetching")
    /\ UNCHANGED <<keys, stale, signing>>

\* The download is over: those who wait for it look into the cache.
Land(v) ==
    /\ verifying[v].pc = "landing"
    /\ flight' = NoFlight
    /\ verifying' = [w \in Verifying |->
            IF w = v \/ (verifying[w].pc = "following" /\ verifying[w].on = v)
            THEN At(w, "looking")
            ELSE verifying[w]]
    /\ UNCHANGED <<keys, stale, signing>>

-----------------------------------------------------------------------------
(* fetch *)

\* The account service answers.
Answer(v) ==
    /\ verifying[v].pc = "fetching"
    /\ verifying' = [verifying EXCEPT ![v] =
            [pc |-> "answered", kid |-> verifying[v].kid, known |-> verifying[v].known,
             set |-> Published]]
    /\ UNCHANGED <<keys, stale, flight, signing>>

\* The whole cache is replaced; a key set without a usable key is a failure.
Replace(v) ==
    /\ verifying[v].pc = "answered"
    /\ verifying[v].set # {}
    /\ keys' = verifying[v].set
    /\ stale' = FALSE
    /\ Goto(v, "landing")
    /\ UNCHANGED <<flight, signing>>

\* No answer, another status, a body that cannot be read: the cache stays.
FetchFails(v) ==
    /\ verifying[v].pc \in {"fetching", "answered"}
    /\ Goto(v, "landing")
    /\ UNCHANGED <<keys, stale, flight, signing>>

-----------------------------------------------------------------------------
(* Specification *)

\* keyCacheTTL is over.
Expire == ~stale /\ stale' = TRUE /\ UNCHANGED <<keys, flight, signing, verifying>>

Publish(k) ==
    /\ signing[k] = "new"
    /\ signing' = [signing EXCEPT ![k] = "published"]
    /\ UNCHANGED <<keys, stale, flight, verifying>>

Retire(k) ==
    /\ signing[k] = "published"
    /\ signing' = [signing EXCEPT ![k] = "retired"]
    /\ UNCHANGED <<keys, stale, flight, verifying>>

Verifies(v) ==
    \/ Look(v) \/ AwaitFlight(v) \/ SkipFetch(v) \/ TakeOff(v) \/ Land(v)
    \/ Answer(v) \/ Replace(v) \/ FetchFails(v)

KeyNext ==
    \/ \E v \in Verifying, k \in Named : Present(v, k)
    \/ \E v \in Verifying : Verifies(v)
    \/ \E k \in Kid : Publish(k) \/ Retire(k)
    \/ Expire

KeySpec == KeyInit /\ [][KeyNext]_keyVars

-----------------------------------------------------------------------------
(* Properties *)

KeyTypeOK ==
    /\ keys \subseteq Kid
    /\ stale \in BOOLEAN
    /\ flight \in Verifying \cup {NoFlight}
    /\ signing \in [Kid -> {"new", "published", "retired"}]
    /\ verifying \in [Verifying -> VerifyState]

InFlight == {v \in Verifying : verifying[v].pc \in {"fetching", "answered", "landing"}}

\* "At any one time a single outgoing refresh" (auth/auth.go:214): whoever
\* downloads is the flight that others wait for.
OneFetch ==
    /\ \A v \in Verifying : v \in InFlight <=> flight = v
    /\ \A v \in Verifying : verifying[v].pc = "following" => verifying[v].on = flight

\* "A failed refresh is no death sentence" (auth/auth.go:215): a token whose key
\* was at hand when it came, and which the account service has not retired, is
\* verified, whatever expires, fails or is rotated meanwhile.
KeysOutliveOutage ==
    \A v \in Verifying :
        verifying[v].pc = "refused" /\ verifying[v].known
          => verifying[v].kid \notin Published
=============================================================================
