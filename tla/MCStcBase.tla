----------------------------- MODULE MCStcBase -----------------------------
(* StcBase for TLC: one constant maps the work elements to modules. *)
EXTENDS StcBase

CONSTANTS a, b, m1, m2

\* a is for the first module, everything else for the second.
MCTarget(w) == IF w = a THEN m1 ELSE m2
============================================================================
