------------------------------ MODULE MCQuota ------------------------------
(* Instances of Quota for TLC. *)
EXTENDS Quota

CONSTANTS a1, a2, a3, u1, u2

MCOwner == [a \in Asset |-> IF a = a2 THEN u2 ELSE u1]

\* a1 and a2 declare their size, a3 does not know it.
MCDeclared == [a \in Asset |-> CASE a = a1 -> 1 [] a = a2 -> 2 [] OTHER -> 0]
MCActual == [a \in Asset |-> IF a = a2 THEN 2 ELSE 1]

\* a1 is not as large as it says.
MCFalseActual == [a \in Asset |-> IF a = a3 THEN 1 ELSE 2]
=============================================================================
