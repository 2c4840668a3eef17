---------------------------- MODULE MCAssetStore ----------------------------
(* Instances of AssetStore for TLC. *)
EXTENDS AssetStore

CONSTANTS a1, a2, w1, w2, h, other, k, e1, e2

\* One object key: an imported row refers to it under a digest of its own.
MCSha == [a \in Asset |-> IF a \in Imported THEN other ELSE h]
MCKey == [a \in Asset |-> k]
=============================================================================
