---------------------------- MODULE MCOrphanSweep ----------------------------
(* Instances of OrphanSweep for TLC. *)
EXTENDS OrphanSweep

CONSTANTS k1, k2, b1, b2, s1, s2

\* What a behaviour is about, chosen at its start.  beside: two sweeps at one key
\* and its contents; queue: one sweep and two keys, of which it takes up one.
VARIABLE scene

sceneVars == <<vars, scene>>

SceneInit == scene \in {"beside", "queue"} /\ Init

SceneNext ==
    /\ Next
    /\ UNCHANGED scene
    /\ scene = "beside" => UNCHANGED <<row[k2], object[k2]>>
    /\ scene = "queue" => /\ UNCHANGED sweeper[s2]
                          /\ \A k \in Key : object'[k] # b2

\* The fairness of FairSpec, for the sweeps that take part.
SceneSpec ==
    /\ SceneInit /\ [][SceneNext]_sceneVars
    /\ WF_vars(Sweep(s1))
    /\ WF_vars(scene = "beside" /\ Sweep(s2))
    /\ WF_vars(Tick)
=============================================================================
