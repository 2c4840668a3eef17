------------------------------ MODULE MCServer ------------------------------
(***************************************************************************)
(* The parts that share no state, for one run of TLC: of a server process  *)
(* the executor of outgoing calls, the two caches of the authentication    *)
(* and the audit trail, of the worker the scan for missing objects.  A     *)
(* behaviour moves one part, chosen at the start, and leaves the others as *)
(* they begin; what is said of a part is thus said of all its behaviours   *)
(* and of nothing else.                                                    *)
(***************************************************************************)
EXTENDS CircuitBreaker, PatCache, KeyCache, AuditTrail, MissingScan

VARIABLE part

serverVars == <<vars, patVars, keyVars, auditVars, scanVars, part>>

\* One token never expires, the other does.
ExpiryOfToken ==
    LET lasting == CHOOSE t \in Token : TRUE
    IN  [t \in Token |-> IF t = lasting THEN Horizon + 1 ELSE 3]

ServerInit ==
    /\ part \in {"breaker", "pat", "keys", "audit", "scan"}
    /\ Init /\ PatInit /\ KeyInit /\ AuditInit /\ ScanInit
    /\ part # "scan" => listed = Row

BreakerMoves(A) ==
    part = "breaker" /\ A /\ UNCHANGED <<patVars, keyVars, auditVars, scanVars, part>>

ScanMoves(A) == part = "scan" /\ A /\ UNCHANGED <<vars, patVars, keyVars, auditVars, part>>

ServerNext ==
    \/ BreakerMoves(Next)
    \/ part = "pat" /\ PatNext /\ UNCHANGED <<vars, keyVars, auditVars, scanVars, part>>
    \/ part = "keys" /\ KeyNext /\ UNCHANGED <<vars, patVars, auditVars, scanVars, part>>
    \/ part = "audit" /\ AuditNext /\ UNCHANGED <<vars, patVars, keyVars, scanVars, part>>
    \/ ScanMoves(ScanNext)

\* The fairness of FairSpec and of ScanSpec, each for its own part.
ServerSpec ==
    /\ ServerInit /\ [][ServerNext]_serverVars
    /\ WF_serverVars(BreakerMoves(Tick))
    /\ \A c \in Call : /\ WF_serverVars(BreakerMoves(Run(c)))
                       /\ WF_serverVars(BreakerMoves(Start(c)))
    /\ WF_serverVars(ScanMoves(Scans))

\* The types of all parts, and the shape of what their processes share: the
\* breaker is closed exactly while it counts less than the threshold, the cache
\* of verdicts is bounded and each of its entries can be evicted, a token and the
\* key set have at most one leader (upstream/upstream.go:278, auth/pat.go:413,
\* auth/pat.go:355, auth/auth.go:273).
ServerTypeOK ==
    /\ TypeOK /\ CountFitsState
    /\ PatTypeOK /\ CacheBounded /\ OneLeader
    /\ KeyTypeOK /\ OneFetch
    /\ AuditTypeOK
    /\ ScanTypeOK
=============================================================================
