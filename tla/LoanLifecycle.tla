--------------------------- MODULE LoanLifecycle ---------------------------
(* What the desk promises about a single application: the stages it goes    *)
(* through, in which order, and that the final ones are final.              *)
CONSTANT Applications

VARIABLE stage

Stages == { "absent", "pending", "rejected", "lent", "return_requested", "returned" }

LifecycleTypeOK == stage \in [Applications -> Stages]

LifecycleInit == stage = [r \in Applications |-> "absent"]

\* Which stage may follow which.
Transitions ==
  { <<"absent", "pending">>,
    <<"pending", "rejected">>, <<"pending", "lent">>,
    <<"lent", "return_requested">>, <<"lent", "returned">>,
    <<"return_requested", "returned">> }

Advance(r) ==
  \E s \in Stages :
    /\ <<stage[r], s>> \in Transitions
    /\ stage' = [stage EXCEPT ![r] = s]

LifecycleNext == \E r \in Applications : Advance(r)

LifecycleSpec == LifecycleInit /\ [][LifecycleNext]_stage
=============================================================================
