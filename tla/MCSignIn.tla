------------------------------- MODULE MCSignIn -------------------------------
(* Model-checking instance of the sign-in.  The portal asserts that the demo *)
(* employee is an asset administrator, by the list of roles, or no e-mail    *)
(* address, and that the demo administrator is none; only the administrator  *)
(* can be switched to.                                                       *)
EXTENDS SignIn

CONSTANTS ownHost, otherHost

Edited == { {<<"s">>} }

Asserted ==
  { [subject |-> "demo_employee", email |-> TRUE, role |-> <<"a">>,
     roles |-> { <<"A", " ", "a", " ">>, <<"-", "a">> }],
    [subject |-> "demo_admin", email |-> TRUE, role |-> <<"a", "s">>, roles |-> {}],
    [subject |-> "demo_employee", email |-> FALSE, role |-> <<"A">>, roles |-> { <<"s">> }] }
=============================================================================
