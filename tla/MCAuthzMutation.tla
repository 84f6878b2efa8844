--------------------------- MODULE MCAuthzMutation ---------------------------
(***************************************************************************)
(* TLC instances of AuthzMutation.                                         *)
(***************************************************************************)
EXTENDS AuthzMutation

CONSTANTS p1, k1

\* Batches that overlap without being the same: p1 touches every key, the
\* other request only k1.
Overlapping == [p \in Procs |-> IF p = p1 THEN {Keys} ELSE {{k1}}]

=============================================================================
