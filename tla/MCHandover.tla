----------------------------- MODULE MCHandover -----------------------------
(* Model-checking instance of the handover: two threads of one process, and *)
(* two portal users who are the demo users.                                 *)
EXTENDS Handover

CONSTANTS u1, u2, r1, r2, p1

OneProcess == [w \in Workers |-> p1]

Asserted ==
  { [subject |-> u1, roles |-> <<r1, r2>>],
    [subject |-> u1, roles |-> <<>>],
    [subject |-> u2, roles |-> <<r2, r1>>] }
=============================================================================
