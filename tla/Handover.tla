------------------------------ MODULE Handover ------------------------------
(* From the portal's token to the account: what handover_view does before   *)
(* it logs the user in.  The worker gets the JWKS client of its process,    *)
(* verifies the token and runs establish_account_session; the demo seed     *)
(* command may write the demo accounts at the same time.  Statements that   *)
(* need a lock wait for it; PostgreSQL breaks wait cycles by aborting one   *)
(* of the transactions.  AccountSessions continues where this module ends.  *)
EXTENDS JwksCache, Accounts

CONSTANTS
  Identities,      \* what tokens assert: records of a subject and its roles
  DemoEmployee, DemoAdmin, AdminRole,
  Seeder           \* the process that runs the seed command

ASSUME HandoverAssumption ==
  /\ \A id \in Identities : id.subject \in Subjects /\ id.roles \in Seq(RoleCodes)
  /\ DemoEmployee \in Subjects /\ DemoAdmin \in Subjects \ {DemoEmployee} /\ AdminRole \in RoleCodes
  /\ Seeder \notin Workers
  /\ Subjects \cap RoleCodes = {}

Actors == Workers \cup {Seeder}

VARIABLES
  task,            \* what each actor is doing
  asserted         \* history: the roles that each account was last to have

handoverVars == <<jwksVars, accountVars, task, asserted>>

Idle == [step |-> "idle"]
Never == {"never"}           \* the account has not been written yet

\* Mutated form: the administrator is written first.
AdminFirst ==
  << [subject |-> DemoAdmin, roles |-> <<AdminRole>>], [subject |-> DemoEmployee, roles |-> <<>>] >>

\* The users that the seed command ensures, in its order.
DemoIdentities ==
  << [subject |-> DemoEmployee, roles |-> <<>>], [subject |-> DemoAdmin, roles |-> <<AdminRole>>] >>

At(w, step) == task[w].step = step

InTransaction(w) ==
  task[w].step \in {"select", "update", "insert", "role", "create_role", "set_roles", "commit"}

\* Every open transaction is on the way of an identity, and holds locks on
\* accounts and new roles of the identities up to it.
HandoverTypeOK ==
  /\ JwksTypeOK /\ AccountsTypeOK
  /\ asserted \in [Subjects -> (SUBSET RoleCodes) \cup {Never}]
  /\ \A w \in Actors :
       \/ task[w] = Idle
       \/ w \in Workers /\ task[w] \in [step: {"look_up", "wait_lock", "fill_cache"}]
       \/ w \in Workers /\ task[w] \in [step: {"verify"}, client: Workers]
       \/ LET t == task[w]
              seen == { t.identities[i] : i \in 1..t.i }
          IN /\ InTransaction(w)
             /\ t.inserted \subseteq t.locked /\ t.locked \subseteq { id.subject : id \in seen }
             /\ t.created \subseteq UNION { ToSet(id.roles) : id \in seen }
             /\ t.removed \cap t.added = {}

HandoverInit ==
  /\ JwksInit /\ AccountsInit
  /\ task = [w \in Actors |-> Idle]
  /\ asserted = [s \in Subjects |-> Never]

Goto(w, t) == task' = [task EXCEPT ![w] = t]

-----------------------------------------------------------------------------
(* _get_jwks_client and the verification of the token.                      *)

\* handover_view in portal mode, with a token in a cookie.
Arrive(w) ==
  /\ w \in Workers /\ At(w, "idle")
  /\ Goto(w, [step |-> "look_up"])
  /\ UNCHANGED <<jwksVars, accountVars, asserted>>

LookUpClient(w) ==
  /\ At(w, "look_up")
  /\ Goto(w, IF Cached(w) THEN [step |-> "verify", client |-> client[ProcessOf[w]]]
                          ELSE [step |-> "wait_lock"])
  /\ UNCHANGED <<jwksVars, accountVars, asserted>>

WaitForLock(w) ==
  /\ At(w, "wait_lock")
  /\ AcquireLock(w)
  /\ Goto(w, [step |-> "fill_cache"])
  /\ UNCHANGED <<accountVars, asserted>>

GetClient(w) ==
  /\ At(w, "fill_cache")
  /\ FillCache(w)
  /\ Goto(w, [step |-> "verify", client |-> client'[ProcessOf[w]]])
  /\ UNCHANGED <<accountVars, asserted>>

\* The token asserts id, and the transaction of establish_account_session begins.
VerifyToken(w, id) ==
  /\ At(w, "verify")
  /\ Goto(w, Begin("portal", <<id>>))
  /\ UNCHANGED <<jwksVars, accountVars, asserted>>

-----------------------------------------------------------------------------
(* The statements of a transaction.                                         *)

RunSeed ==
  /\ At(Seeder, "idle")
  /\ Goto(Seeder, Begin("demo", DemoIdentities))
  /\ UNCHANGED <<jwksVars, accountVars, asserted>>

\* The next statement of w waits for the transaction of v.
WaitsFor(w, v) ==
  /\ v # w /\ InTransaction(w) /\ InTransaction(v)
  /\ Needed(task[w]) \cap Held(task[v]) # {}

Waiting(w) == \E v \in Actors : WaitsFor(w, v)

\* Statement step of the transaction of w is executed and leads to t.
Execute(w, step, t) ==
  /\ At(w, step) /\ ~Waiting(w)
  /\ Goto(w, t)
  /\ UNCHANGED <<jwksVars, accountVars, asserted>>

SelectAccount(w) == Execute(w, "select", Select(task[w]))
UpdateAccount(w) == Execute(w, "update", Update(task[w]))
InsertAccount(w) == At(w, "insert") /\ Insertable(task[w]) /\ Execute(w, "insert", Insert(task[w]))
GetNextRole(w) == Execute(w, "role", GetRole(task[w]))
CreateNextRole(w) == Execute(w, "create_role", CreateRole(task[w]))
SetAccountRoles(w) == Execute(w, "set_roles", SetRoles(task[w]))

\* The INSERT of the account is refused: the whole transaction rolls back.
InsertRefused(w) == At(w, "insert") /\ ~Insertable(task[w]) /\ Execute(w, "insert", Idle)

\* The roles that t leaves the account of s with, by the identity it asserts.
AssertedBy(t, s) ==
  UNION { ToSet(t.identities[i].roles) : i \in { k \in DOMAIN t.identities : t.identities[k].subject = s } }

Commit(w) ==
  LET t == task[w] IN
  /\ At(w, "commit")
  /\ CommitWrites(t)
  /\ asserted' = [s \in Subjects |->
                    IF \E i \in DOMAIN t.identities : t.identities[i].subject = s
                    THEN AssertedBy(t, s) ELSE asserted[s]]
  /\ Goto(w, Idle)
  /\ UNCHANGED jwksVars

-----------------------------------------------------------------------------
(* What goes wrong.                                                         *)

\* The actors that wait for each other in a circle.
Deadlocked ==
  UNION { D \in SUBSET Actors :
            \A w \in D : (\E v \in D : WaitsFor(w, v)) /\ (\E v \in D : WaitsFor(v, w)) }

\* PostgreSQL's deadlock detector aborts one of them.
BreakDeadlock(w) ==
  /\ w \in Deadlocked
  /\ Goto(w, Idle)
  /\ UNCHANGED <<jwksVars, accountVars, asserted>>

\* The token is not accepted, the keys cannot be fetched, or a statement fails:
\* the transaction, if there is one, rolls back.
Fail(w) ==
  /\ At(w, "verify") \/ InTransaction(w)
  /\ Goto(w, Idle)
  /\ UNCHANGED <<jwksVars, accountVars, asserted>>

\* A server process dies with everything its threads were doing.
Restart(p) ==
  /\ ForgetClient(p)
  /\ task' = [w \in Actors |-> IF w \in Workers /\ ProcessOf[w] = p THEN Idle ELSE task[w]]
  /\ UNCHANGED <<accountVars, asserted>>

-----------------------------------------------------------------------------

\* Statements that never wait.
Proceed(w) ==
  \/ LookUpClient(w) \/ WaitForLock(w) \/ GetClient(w)
  \/ \E id \in Identities : VerifyToken(w, id)
  \/ SelectAccount(w) \/ GetNextRole(w) \/ SetAccountRoles(w) \/ Commit(w)

\* Statements that may wait for another transaction.
ProceedUnlocked(w) ==
  UpdateAccount(w) \/ InsertAccount(w) \/ InsertRefused(w) \/ CreateNextRole(w)

HandoverNext ==
  \/ RunSeed
  \/ \E w \in Actors : Arrive(w) \/ Proceed(w) \/ ProceedUnlocked(w) \/ BreakDeadlock(w) \/ Fail(w)
  \/ \E p \in Processes : Restart(p)

\* Threads are scheduled and statements return; PostgreSQL grants a lock to the
\* transactions that wait for it in turn, and its detector runs on every wait
\* cycle.  Nothing makes a request arrive or fail.
HandoverFairness ==
  /\ \A w \in Actors : WF_handoverVars(Proceed(w)) /\ SF_handoverVars(ProceedUnlocked(w))
  /\ WF_handoverVars(\E w \in Actors : BreakDeadlock(w))

HandoverSpec == HandoverInit /\ [][HandoverNext]_handoverVars /\ HandoverFairness

-----------------------------------------------------------------------------
(* Properties.                                                              *)

\* The threads of a process share one client, however their first requests
\* race for the cache.
OneClient ==
  \A w \in Workers : At(w, "verify") => task[w].client = client[ProcessOf[w]]

\* Every account has exactly the roles of the identity that wrote it last: two
\* handovers of one account with different roles never leave a mixture, and
\* one that fails half way leaves neither an account without roles nor a part
\* of them.
RolesAsAsserted ==
  \A s \in Subjects :
    IF owner[s] = "none" THEN asserted[s] = Never ELSE asserted[s] = RolesOf(s)

\* A subject has one account, and that account stays with the user it was
\* created for, whichever of a handover and the seed command comes first.
AccountKeepsUser == [][\A s \in Subjects : owner[s] # "none" => owner'[s] = owner[s]]_handoverVars

\* Transactions only deadlock over roles that none of them has committed yet:
\* once the roles exist, the order in which identities list them and in which
\* the seed command writes its users does not matter.
DeadlocksNeedNewRoles == \A w \in Deadlocked : At(w, "create_role")

\* Every handover and every run of the command comes to an end: no thread waits
\* for ever for the client, for an account or for a role.
EveryHandoverEnds == \A w \in Actors : ~At(w, "idle") ~> At(w, "idle")
=============================================================================
