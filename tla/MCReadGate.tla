----------------------------- MODULE MCReadGate -----------------------------
(* Instances of ReadGate for TLC.                                          *)
EXTENDS ReadGate

CONSTANTS a1, e1, e2, e3, cover_image, file

Bound(n, e, role) == [id |-> n, asset |-> a1, entity |-> e, role |-> role, confirmed |-> 0]

Scene(c0, c, bs, t) ==
    /\ StartWith(c0, c, bs, t)
    /\ blocked = {}
    /\ owed = [r \in Reader |-> {}]

NobodyReads ==
    /\ visible = {}
    /\ pending = {}
    /\ reader = [r \in Reader |-> Answered("served")]

SomeoneReads ==
    /\ visible \in {{e1}, {e1, e2}}
    /\ pending \in SUBSET Asset
    /\ reader = [r \in Reader |-> Idle]

Two == Catalogue({e1, e2})

\* Entity e2 of two has just been merged into e1.
TwoMerged == [Two EXCEPT ![e2].canonical = e1, ![e2].version = 2]

OneCover == {Bound(1, e1, cover_image)}

TwoFiles == {Bound(1, e1, file), Bound(2, e2, file)}

FileAndCover == {Bound(1, e1, file), Bound(2, e2, cover_image)}

\* Three entities, chains of merges and late snapshots, with nobody reading; and
\* two, with a reader in the course of a merge.
MCInit ==
    \/ /\ \E bs \in {OneCover, TwoFiles} :
            Scene(Catalogue(Entity), Catalogue(Entity), bs, 0)
       /\ NobodyReads
    \/ /\ \E c \in {Two, TwoMerged} : Scene(Two, c, FileAndCover, 1)
       /\ SomeoneReads

MCSpec == MCInit /\ [][ReadNext]_readVars /\ ReadFairness

=============================================================================
