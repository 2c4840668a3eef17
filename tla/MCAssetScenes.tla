---------------------------- MODULE MCAssetScenes ----------------------------
(* The two instances of AssetStore that ask for safety only, as one run. *)
EXTENDS MCAssetStore

\* What a behaviour is about, chosen at its start.  takeover: two workers at one
\* row, without the imported one; shared: one worker and two rows on one key.
VARIABLE scene

sceneVars == <<vars, scene>>

SceneInit ==
    \/ /\ scene = "takeover"
       /\ asset = [a \in Asset |-> NoRow("unborn")]
       /\ bindings = {}
       /\ object = [key \in Key |-> "missing"]
       /\ worker = [w \in Worker |-> Idle]
       /\ clock = 0
    \/ scene = "shared" /\ Init

SceneNext ==
    /\ Next
    /\ UNCHANGED scene
    /\ scene = "takeover" => UNCHANGED asset[a2]
    /\ scene = "shared" => /\ UNCHANGED worker[w2]
                           /\ <<a1, e2>> \notin bindings' /\ <<a2, e2>> \notin bindings'
                           /\ clock' < MaxClock

SceneSpec == SceneInit /\ [][SceneNext]_sceneVars
=============================================================================
