---------------------------- MODULE MCUploadFlow ----------------------------
(* Instances of UploadFlow for TLC. *)
EXTENDS UploadFlow

CONSTANTS a1, a2, w1, h, k, e1, r1, r2

MCSha == [a \in Asset |-> h]
MCKey == [a \in Asset |-> k]

Never == -1
=============================================================================
