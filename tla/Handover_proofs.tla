--------------------------- MODULE Handover_proofs ---------------------------
(* What the handover guarantees for any number of threads, processes, portal *)
(* users and roles: one JWKS client per process, and one user per account.  *)
EXTENDS Handover, TLAPS

-----------------------------------------------------------------------------
(* What the statements of a transaction do to its record.                   *)

StatementSteps == {"select", "update", "insert", "role", "create_role", "set_roles", "commit"}

IsTransaction(t) ==
  /\ t = [by |-> t.by, identities |-> t.identities, i |-> t.i, j |-> t.j, step |-> t.step,
          locked |-> t.locked, inserted |-> t.inserted, created |-> t.created,
          removed |-> t.removed, added |-> t.added]
  /\ t.step \in StatementSteps

\* u is t after a statement that locks or inserts no account.
LocksNothing(t, u) == IsTransaction(u) /\ u.locked = t.locked /\ u.inserted = t.inserted

LEMMA BeginShape ==
  ASSUME NEW by, NEW identities
  PROVE  /\ IsTransaction(Begin(by, identities))
         /\ Begin(by, identities).inserted = {}
         /\ Begin(by, identities).locked = {}
BY DEF Begin, IsTransaction, StatementSteps

LEMMA ReadingStatements ==
  ASSUME NEW t, IsTransaction(t)
  PROVE  /\ LocksNothing(t, Select(t))
         /\ LocksNothing(t, GetRole(t))
         /\ LocksNothing(t, CreateRole(t))
         /\ LocksNothing(t, SetRoles(t))
<1> USE DEF LocksNothing, IsTransaction, StatementSteps
<1>1. LocksNothing(t, Select(t))
  BY DEF Select
<1>2. LocksNothing(t, GetRole(t))
  BY DEF GetRole
<1>3. LocksNothing(t, CreateRole(t))
  <2>1. \E created, j : CreateRole(t) = [t EXCEPT !.created = created, !.step = "role", !.j = j]
    BY Zenon DEF CreateRole
  <2> QED BY <2>1
<1>4. LocksNothing(t, SetRoles(t))
  <2>1. PICK removed, added, step, i :
          /\ SetRoles(t) = [t EXCEPT !.removed = removed, !.added = added, !.step = step, !.i = i]
          /\ step \in {"commit", "select"}
    BY Zenon DEF SetRoles
  <2> QED BY <2>1
<1> QED BY <1>1, <1>2, <1>3, <1>4

LEMMA WritingStatements ==
  ASSUME NEW t, IsTransaction(t)
  PROVE  /\ IsTransaction(Update(t))
         /\ Update(t).locked = t.locked \cup {Subject(t)}
         /\ Update(t).inserted = t.inserted
         /\ IsTransaction(Insert(t))
         /\ Insert(t).locked = t.locked \cup {Subject(t)}
         /\ Insert(t).inserted = t.inserted \cup {Subject(t)}
<1> USE DEF IsTransaction, StatementSteps
<1>1. \E locked : /\ Update(t) = [t EXCEPT !.locked = locked, !.step = "role", !.j = 1]
                  /\ locked = t.locked \cup {Subject(t)}
  BY Zenon DEF Update
<1>2. \E locked, inserted :
        /\ Insert(t) = [t EXCEPT !.locked = locked, !.inserted = inserted, !.step = "role", !.j = 1]
        /\ locked = t.locked \cup {Subject(t)} /\ inserted = t.inserted \cup {Subject(t)}
  BY Zenon DEF Insert
<1> QED BY <1>1, <1>2

-----------------------------------------------------------------------------
(* The locks on accounts.                                                   *)

\* A transaction has locked the accounts it inserts, nobody has inserted them
\* before, and no two transactions hold a lock on the same account.
LocksInv ==
  /\ DOMAIN task = Actors
  /\ \A w \in Actors : InTransaction(w) =>
       /\ IsTransaction(task[w])
       /\ task[w].inserted \subseteq task[w].locked
       /\ \A s \in Subjects : s \in task[w].inserted => owner[s] = "none"
  /\ \A v, w \in Actors : v # w /\ InTransaction(v) /\ InTransaction(w) =>
       task[v].locked \cap task[w].locked = {}

LEMMA InTransactionSteps ==
  ASSUME NEW w
  PROVE  /\ InTransaction(w) <=> task[w].step \in StatementSteps
         /\ InTransaction(w)' <=> task'[w].step \in StatementSteps
BY DEF InTransaction, StatementSteps

\* A step that leaves the transaction, or starts one.
LEMMA NewTask ==
  ASSUME LocksInv, UNCHANGED owner, NEW w \in Actors, NEW u, Goto(w, u),
         \/ u.step \notin StatementSteps
         \/ IsTransaction(u) /\ u.locked = {} /\ u.inserted = {}
  PROVE  LocksInv'
BY InTransactionSteps DEF LocksInv, Goto

\* A statement that locks no account.
LEMMA NoNewLock ==
  ASSUME LocksInv, UNCHANGED owner, NEW w \in Actors, InTransaction(w),
         NEW u, Goto(w, u), LocksNothing(task[w], u)
  PROVE  LocksInv'
BY InTransactionSteps DEF LocksInv, Goto, LocksNothing

\* A statement that is executed with the lock that it needs.
LEMMA NewLock ==
  ASSUME LocksInv, UNCHANGED owner, NEW w \in Actors, InTransaction(w),
         NEW u, Goto(w, u), IsTransaction(u), NEW x, u.locked = task[w].locked \cup {x},
         \/ u.inserted = task[w].inserted
         \/ u.inserted = task[w].inserted \cup {x} /\ (x \in Subjects => owner[x] = "none"),
         \A v \in Actors \ {w} : InTransaction(v) => x \notin task[v].locked
  PROVE  LocksInv'
<1>1. \A v \in Actors : task'[v] = IF v = w THEN u ELSE task[v]
  BY DEF LocksInv, Goto
<1>2. DOMAIN task' = Actors
  BY DEF LocksInv, Goto
<1>3. ASSUME NEW v \in Actors, InTransaction(v)'
      PROVE  /\ IsTransaction(task'[v])
             /\ task'[v].inserted \subseteq task'[v].locked
             /\ \A s \in Subjects : s \in task'[v].inserted => owner'[s] = "none"
  BY <1>1, <1>3, InTransactionSteps DEF LocksInv
<1>4. ASSUME NEW v \in Actors, NEW y \in Actors, v # y, InTransaction(v)', InTransaction(y)'
      PROVE  task'[v].locked \cap task'[y].locked = {}
  <2>1. CASE v = w
    BY <1>1, <1>4, <2>1, InTransactionSteps DEF LocksInv
  <2>2. CASE y = w
    BY <1>1, <1>4, <2>2, InTransactionSteps DEF LocksInv
  <2>3. CASE v # w /\ y # w
    BY <1>1, <1>4, <2>3, InTransactionSteps DEF LocksInv
  <2> QED BY <2>1, <2>2, <2>3
<1> QED BY <1>2, <1>3, <1>4 DEF LocksInv

\* Update and Insert only run while nobody else has a lock on the account.
LEMMA NotWaiting ==
  ASSUME NEW w \in Actors, InTransaction(w), ~Waiting(w), task[w].step \in {"update", "insert"},
         NEW v \in Actors \ {w}, InTransaction(v)
  PROVE  Subject(task[w]) \notin task[v].locked
BY DEF Waiting, WaitsFor, Needed, Held

\* Only commits write owner, and they write it for accounts that had none.
LEMMA CommitOwners ==
  ASSUME LocksInv, NEW w \in Actors, Commit(w)
  PROVE  /\ LocksInv'
         /\ \A s \in Subjects : owner[s] # "none" => owner'[s] = owner[s]
<1>1. InTransaction(w)
  BY DEF Commit, At, InTransaction
<1>2. owner' = [s \in Subjects |-> IF s \in task[w].inserted THEN task[w].by ELSE owner[s]]
  BY DEF Commit, CommitWrites
<1>3. \A v \in Actors : task'[v] = IF v = w THEN Idle ELSE task[v]
  BY DEF Commit, Goto, LocksInv
<1>4. Idle.step \notin StatementSteps
  BY DEF Idle, StatementSteps
<1>5. DOMAIN task' = Actors
  BY DEF Commit, Goto, LocksInv
<1>6. ASSUME NEW v \in Actors, InTransaction(v)'
      PROVE  /\ v # w /\ InTransaction(v) /\ task'[v] = task[v]
             /\ \A s \in Subjects : s \in task[v].inserted => owner'[s] = "none"
  <2>1. v # w /\ InTransaction(v) /\ task'[v] = task[v]
    BY <1>3, <1>4, <1>6, InTransactionSteps
  <2>2. \A s \in Subjects : s \in task[v].inserted => s \notin task[w].inserted
    BY <1>1, <2>1 DEF LocksInv
  <2> QED BY <1>2, <2>1, <2>2 DEF LocksInv
<1>7. LocksInv'
  BY <1>5, <1>6 DEF LocksInv
<1> QED BY <1>1, <1>2, <1>7 DEF LocksInv

\* No other step writes owner.
LEMMA LocksStep ==
  ASSUME LocksInv, [HandoverNext]_handoverVars
  PROVE  /\ LocksInv'
         /\ \A s \in Subjects : owner[s] # "none" => owner'[s] = owner[s]
<1>0. Idle.step \notin StatementSteps
  BY DEF Idle, StatementSteps
<1>1. CASE RunSeed
  BY <1>1, BeginShape, NewTask DEF RunSeed, Actors, accountVars
<1>2. ASSUME NEW w \in Actors, Arrive(w) \/ LookUpClient(w) \/ WaitForLock(w) \/ GetClient(w)
      PROVE  LocksInv' /\ UNCHANGED owner
  <2>1. \E u : Goto(w, u) /\ u.step \notin StatementSteps
    BY <1>2 DEF Arrive, LookUpClient, WaitForLock, GetClient, StatementSteps
  <2>2. UNCHANGED owner
    BY <1>2 DEF Arrive, LookUpClient, WaitForLock, GetClient, accountVars
  <2> QED BY <2>1, <2>2, NewTask
<1>3. ASSUME NEW w \in Actors, NEW id \in Identities, VerifyToken(w, id)
      PROVE  LocksInv' /\ UNCHANGED owner
  BY <1>3, BeginShape, NewTask DEF VerifyToken, accountVars
<1>4. ASSUME NEW w \in Actors, SelectAccount(w) \/ GetNextRole(w) \/ CreateNextRole(w) \/ SetAccountRoles(w)
      PROVE  LocksInv' /\ UNCHANGED owner
  <2>1. InTransaction(w) /\ UNCHANGED owner
    BY <1>4 DEF SelectAccount, GetNextRole, CreateNextRole, SetAccountRoles, Execute, At,
                InTransaction, accountVars
  <2>2. \E u : Goto(w, u) /\ LocksNothing(task[w], u)
    BY <1>4, <2>1, ReadingStatements
    DEF SelectAccount, GetNextRole, CreateNextRole, SetAccountRoles, Execute, LocksInv
  <2> QED BY <2>1, <2>2, NoNewLock
<1>5. ASSUME NEW w \in Actors, UpdateAccount(w) \/ InsertAccount(w)
      PROVE  LocksInv' /\ UNCHANGED owner
  <2>1. InTransaction(w) /\ UNCHANGED owner
    BY <1>5 DEF UpdateAccount, InsertAccount, Execute, At, InTransaction, accountVars
  <2>2. \A v \in Actors \ {w} : InTransaction(v) => Subject(task[w]) \notin task[v].locked
    BY <1>5, <2>1, NotWaiting DEF UpdateAccount, InsertAccount, Execute, At
  <2>3. CASE UpdateAccount(w)
    <3>1. Goto(w, Update(task[w]))
      BY <2>3 DEF UpdateAccount, Execute
    <3> QED BY <2>1, <2>2, <3>1, WritingStatements, NewLock DEF LocksInv
  <2>4. CASE InsertAccount(w)
    <3>1. Goto(w, Insert(task[w])) /\ owner[Subject(task[w])] = "none"
      BY <2>4 DEF InsertAccount, Insertable, Execute
    <3> QED BY <2>1, <2>2, <3>1, WritingStatements, NewLock DEF LocksInv
  <2> QED BY <1>5, <2>3, <2>4, <2>1
<1>6. ASSUME NEW w \in Actors, InsertRefused(w) \/ BreakDeadlock(w) \/ Fail(w)
      PROVE  LocksInv' /\ UNCHANGED owner
  <2>1. Goto(w, Idle) /\ UNCHANGED owner
    BY <1>6 DEF InsertRefused, Execute, BreakDeadlock, Fail, accountVars
  <2> QED BY <1>0, <2>1, NewTask
<1>7. ASSUME NEW p \in Processes, Restart(p)
      PROVE  LocksInv' /\ UNCHANGED owner
  <2>1. /\ DOMAIN task' = Actors
        /\ \A w \in Actors : task'[w] = Idle \/ task'[w] = task[w]
        /\ UNCHANGED owner
    BY <1>7 DEF Restart, accountVars
  <2>2. \A w \in Actors : InTransaction(w)' => InTransaction(w) /\ task'[w] = task[w]
    BY <1>0, <2>1, InTransactionSteps
  <2> QED BY <2>1, <2>2 DEF LocksInv
<1>8. CASE UNCHANGED handoverVars
  BY <1>8 DEF handoverVars, accountVars, LocksInv, InTransaction
<1> QED
  BY <1>1, <1>2, <1>3, <1>4, <1>5, <1>6, <1>7, <1>8, CommitOwners
  DEF HandoverNext, Proceed, ProceedUnlocked, RunSeed, accountVars

\* However many handovers race with each other and with the seed command, an
\* account stays with the user it was created for: nobody inserts an account
\* that somebody else has inserted.
THEOREM AccountsKeepUsers == HandoverSpec => AccountKeepsUser
<1>1. HandoverInit => LocksInv
  BY DEF HandoverInit, LocksInv, InTransaction, Idle
<1>2. LocksInv /\ [HandoverNext]_handoverVars =>
        [\A s \in Subjects : owner[s] # "none" => owner'[s] = owner[s]]_handoverVars
  BY LocksStep
<1>3. LocksInv /\ [HandoverNext]_handoverVars => LocksInv'
  BY LocksStep
<1> QED
  BY <1>1, <1>2, <1>3, PTL DEF HandoverSpec, AccountKeepsUser

-----------------------------------------------------------------------------
(* The client of a process.                                                 *)

\* Only threads look for a client, and those that verify a token do so with
\* the client of their process, which is there to stay.
ClientInv ==
  /\ JwksTypeOK
  /\ DOMAIN task = Actors
  /\ \A w \in Actors :
       task[w].step \in {"look_up", "wait_lock", "fill_cache", "verify"} => w \in Workers
  /\ \A w \in Workers : At(w, "verify") =>
       task[w].client = client[ProcessOf[w]] /\ Cached(w)

\* Statements, commits and failures neither verify tokens nor touch clients.
LEMMA OtherSteps ==
  ASSUME LocksInv, NEW w \in Actors,
         \/ SelectAccount(w) \/ GetNextRole(w) \/ SetAccountRoles(w) \/ Commit(w)
         \/ ProceedUnlocked(w) \/ BreakDeadlock(w) \/ Fail(w)
         \/ \E id \in Identities : VerifyToken(w, id)
  PROVE  UNCHANGED jwksVars /\ \E u : Goto(w, u) /\ u.step \in StatementSteps \cup {"idle"}
<1>0. Idle.step = "idle"
  BY DEF Idle
<1>1. CASE SelectAccount(w) \/ GetNextRole(w) \/ CreateNextRole(w) \/ SetAccountRoles(w)
  <2>1. InTransaction(w)
    BY <1>1 DEF SelectAccount, GetNextRole, CreateNextRole, SetAccountRoles, Execute, At, InTransaction
  <2>2. \E u : Goto(w, u) /\ LocksNothing(task[w], u)
    BY <1>1, <2>1, ReadingStatements
    DEF SelectAccount, GetNextRole, CreateNextRole, SetAccountRoles, Execute, LocksInv
  <2> QED
    BY <1>1, <2>2
    DEF SelectAccount, GetNextRole, CreateNextRole, SetAccountRoles, Execute, LocksNothing,
        IsTransaction
<1>2. CASE UpdateAccount(w) \/ InsertAccount(w)
  <2>1. InTransaction(w)
    BY <1>2 DEF UpdateAccount, InsertAccount, Execute, At, InTransaction
  <2>2. \E u : Goto(w, u) /\ IsTransaction(u)
    BY <1>2, <2>1, WritingStatements DEF UpdateAccount, InsertAccount, Execute, LocksInv
  <2> QED BY <1>2, <2>2 DEF UpdateAccount, InsertAccount, Execute, IsTransaction
<1>3. CASE InsertRefused(w) \/ BreakDeadlock(w) \/ Fail(w) \/ Commit(w)
  BY <1>0, <1>3 DEF InsertRefused, Execute, BreakDeadlock, Fail, Commit
<1>4. CASE \E id \in Identities : VerifyToken(w, id)
  <2>1. \E u : Goto(w, u) /\ IsTransaction(u) /\ UNCHANGED jwksVars
    BY <1>4, BeginShape DEF VerifyToken
  <2> QED BY <2>1 DEF IsTransaction
<1> QED BY <1>1, <1>2, <1>3, <1>4 DEF ProceedUnlocked

\* A client is only stored where there is none, under the lock or not.
LEMMA ClientStep ==
  ASSUME ClientInv, LocksInv, [HandoverNext]_handoverVars
  PROVE  ClientInv'
<1> USE DEF ClientInv, JwksTypeOK, At, Cached
<1>1. ASSUME NEW w \in Actors, NEW u, Goto(w, u), UNCHANGED jwksVars,
             u.step \in StatementSteps \cup {"idle"}
      PROVE  ClientInv'
  BY <1>1 DEF Goto, jwksVars, StatementSteps
<1>2. CASE RunSeed
  <2>1. Begin("demo", DemoIdentities).step \in StatementSteps
    BY BeginShape DEF IsTransaction
  <2> QED BY <1>1, <1>2, <2>1 DEF RunSeed, Actors
<1>3. ASSUME NEW w \in Actors, Arrive(w)
      PROVE  ClientInv'
  BY <1>3 DEF Arrive, Goto, jwksVars
<1>4. ASSUME NEW w \in Actors, LookUpClient(w)
      PROVE  ClientInv'
  BY <1>4 DEF LookUpClient, Goto, jwksVars
<1>5. ASSUME NEW w \in Actors, WaitForLock(w)
      PROVE  ClientInv'
  BY <1>5, JwksAssumption DEF WaitForLock, AcquireLock, Goto
<1>6. ASSUME NEW w \in Actors, GetClient(w)
      PROVE  ClientInv'
  <2> DEFINE p == ProcessOf[w]
  <2>1. w \in Workers /\ p \in Processes /\ w # NoClient
    BY <1>6, JwksAssumption DEF GetClient
  <2>2. client' = [client EXCEPT ![p] = IF Cached(w) THEN client[p] ELSE w]
        /\ lockHolder' = [lockHolder EXCEPT ![p] = NoHolder]
    BY <1>6 DEF GetClient, FillCache
  <2>3. JwksTypeOK' /\ client'[p] # NoClient /\ \A q \in Processes : client[q] # NoClient => client'[q] = client[q]
    BY <2>1, <2>2
  <2>4. \A v \in Actors : task'[v] = IF v = w THEN [step |-> "verify", client |-> client'[p]]
                                              ELSE task[v]
    BY <1>6 DEF GetClient, Goto
  <2>5. DOMAIN task' = Actors
    BY <1>6 DEF GetClient, Goto
  <2>6. \A v \in Workers : v \in Actors /\ ProcessOf[v] \in Processes
    BY JwksAssumption DEF Actors
  <2> QED BY <2>1, <2>3, <2>4, <2>5, <2>6
<1>7. ASSUME NEW p \in Processes, Restart(p)
      PROVE  ClientInv'
  <2>1. /\ DOMAIN task' = Actors
        /\ \A v \in Actors : task'[v] = IF v \in Workers /\ ProcessOf[v] = p THEN Idle ELSE task[v]
        /\ client' = [client EXCEPT ![p] = NoClient]
        /\ lockHolder' = [lockHolder EXCEPT ![p] = NoHolder]
    BY <1>7 DEF Restart, ForgetClient
  <2>2. Idle.step = "idle"
    BY DEF Idle
  <2>3. \A v \in Workers : v \in Actors /\ ProcessOf[v] \in Processes
    BY JwksAssumption DEF Actors
  <2> QED BY <2>1, <2>2, <2>3
<1>8. CASE UNCHANGED handoverVars
  BY <1>8 DEF handoverVars, jwksVars
<1> QED
  BY <1>1, <1>2, <1>3, <1>4, <1>5, <1>6, <1>7, <1>8, OtherSteps
  DEF HandoverNext, Proceed

\* However the first requests of a process race for the empty cache, and however
\* often processes restart, threads that verify tokens share one client.
THEOREM ThreadsShareClient == HandoverSpec => []OneClient
<1>1. HandoverInit => LocksInv /\ ClientInv
  <2> SUFFICES ASSUME HandoverInit PROVE LocksInv /\ ClientInv
    OBVIOUS
  <2>1. LocksInv
    BY DEF HandoverInit, LocksInv, InTransaction, Idle
  <2>2. ClientInv
    BY DEF HandoverInit, JwksInit, ClientInv, JwksTypeOK, At, Idle, Actors
  <2> QED BY <2>1, <2>2
<1>2. LocksInv /\ ClientInv /\ [HandoverNext]_handoverVars => LocksInv' /\ ClientInv'
  BY LocksStep, ClientStep
<1>3. ClientInv => OneClient
  BY DEF ClientInv, OneClient
<1> QED BY <1>1, <1>2, <1>3, PTL DEF HandoverSpec
-----------------------------------------------------------------------------
(* How far a transaction is.                                                *)

\* A thread asserts one identity, the seed command its two demo users.
Identified(w, t) ==
  \/ w \in Workers /\ t.by = "portal" /\ \E id \in Identities : t.identities = <<id>>
  \/ w = Seeder /\ t.by = "demo" /\ t.identities = DemoIdentities

SubjectAt(t, k) == t.identities[k].subject
RolesAt(t, k) == t.identities[k].roles

\* The identities whose account t has written, and whose roles it has set.
Written(t) ==
  { k \in DOMAIN t.identities :
      k < t.i \/ (k = t.i /\ t.step \in {"role", "create_role", "set_roles", "commit"}) }
Settled(t) == { k \in DOMAIN t.identities : k < t.i \/ (k = t.i /\ t.step = "commit") }

\* The roles that s has once t has committed.
After(t, s) == { c \in RoleCodes : <<s, c>> \in (granted \ t.removed) \cup t.added }

\* t has locked the accounts it has written, which exist or are its own; its
\* role changes are of the identities it has settled, and settle them.
LocksWritten(t) ==
  /\ t.locked = { SubjectAt(t, k) : k \in Written(t) }
  /\ t.inserted \subseteq t.locked

WrittenExist(t) ==
  /\ \A k \in Written(t) : owner[SubjectAt(t, k)] # "none" \/ SubjectAt(t, k) \in t.inserted
  /\ t.step = "update" => owner[Subject(t)] # "none"

ChangesSettled(t) ==
  \A x \in t.removed \cup t.added : \E k \in Settled(t), c \in RoleCodes : x = <<SubjectAt(t, k), c>>

SettledAsAsserted(t) == \A k \in Settled(t) : After(t, SubjectAt(t, k)) = ToSet(RolesAt(t, k))

TransactionOK(w, t) ==
  /\ IsTransaction(t) /\ Identified(w, t) /\ t.i \in DOMAIN t.identities
  /\ t.step = "commit" => t.i = Len(t.identities)
  /\ LocksWritten(t) /\ WrittenExist(t) /\ ChangesSettled(t) /\ SettledAsAsserted(t)

RolesInv ==
  /\ granted \subseteq Subjects \X RoleCodes
  /\ \A w \in Actors : InTransaction(w) => TransactionOK(w, task[w])

LEMMA KnownIdentities ==
  ASSUME NEW w, NEW t, Identified(w, t)
  PROVE  /\ t.by # "none"
         /\ Len(t.identities) \in Nat \ {0} /\ DOMAIN t.identities = 1..Len(t.identities)
         /\ \A k \in DOMAIN t.identities : SubjectAt(t, k) \in Subjects /\ RolesAt(t, k) \in Seq(RoleCodes)
         /\ \A k, l \in DOMAIN t.identities : SubjectAt(t, k) = SubjectAt(t, l) => k = l
<1>1. CASE w = Seeder /\ t.by = "demo" /\ t.identities = DemoIdentities
  <2>1. /\ Len(t.identities) = 2 /\ DOMAIN t.identities = 1..2
        /\ t.identities[1] = [subject |-> DemoEmployee, roles |-> <<>>]
        /\ t.identities[2] = [subject |-> DemoAdmin, roles |-> <<AdminRole>>]
    BY <1>1 DEF DemoIdentities
  <2>2. <<>> \in Seq(RoleCodes) /\ <<AdminRole>> \in Seq(RoleCodes)
    BY HandoverAssumption
  <2>3. \A k \in DOMAIN t.identities : k = 1 \/ k = 2
    BY <2>1
  <2>4. /\ SubjectAt(t, 1) = DemoEmployee /\ RolesAt(t, 1) = <<>>
        /\ SubjectAt(t, 2) = DemoAdmin /\ RolesAt(t, 2) = <<AdminRole>>
    BY <2>1 DEF SubjectAt, RolesAt
  <2>5. \A k, l \in DOMAIN t.identities : SubjectAt(t, k) = SubjectAt(t, l) => k = l
    BY <2>3, <2>4, HandoverAssumption
  <2>6. \A k \in DOMAIN t.identities : SubjectAt(t, k) \in Subjects /\ RolesAt(t, k) \in Seq(RoleCodes)
    BY <2>2, <2>3, <2>4, HandoverAssumption
  <2> QED BY <1>1, <2>1, <2>5, <2>6
<1>2. ASSUME NEW id \in Identities, t.by = "portal", t.identities = <<id>>
      PROVE  /\ t.by # "none"
             /\ Len(t.identities) = 1 /\ DOMAIN t.identities = 1..1
             /\ t.identities[1] = id
  BY <1>2
<1>3. ASSUME NEW id \in Identities, t.by = "portal", t.identities = <<id>>
      PROVE  /\ \A k \in DOMAIN t.identities : SubjectAt(t, k) \in Subjects /\ RolesAt(t, k) \in Seq(RoleCodes)
             /\ \A k, l \in DOMAIN t.identities : SubjectAt(t, k) = SubjectAt(t, l) => k = l
  <2>1. \A k \in DOMAIN t.identities : k = 1
    BY <1>2, <1>3
  <2> QED BY <1>2, <1>3, <2>1, HandoverAssumption DEF SubjectAt, RolesAt
<1> QED BY <1>1, <1>2, <1>3 DEF Identified

-----------------------------------------------------------------------------
(* The statements.                                                          *)

\* u is t but for the step, the role it has come to, and the roles it creates.
SameButStep(t, u) ==
  /\ IsTransaction(u) /\ u.by = t.by /\ u.identities = t.identities /\ u.i = t.i
  /\ u.locked = t.locked /\ u.inserted = t.inserted
  /\ u.removed = t.removed /\ u.added = t.added

LEMMA SmallStatements ==
  ASSUME NEW t, IsTransaction(t)
  PROVE  /\ SameButStep(t, Select(t)) /\ SameButStep(t, GetRole(t)) /\ SameButStep(t, CreateRole(t))
         /\ Select(t).step = IF Found(t) THEN "update" ELSE "insert"
         /\ t.step = "role" => GetRole(t).step \in {"role", "create_role", "set_roles"}
         /\ CreateRole(t).step = "role"
<1> USE DEF SameButStep, IsTransaction, StatementSteps
<1>1. SameButStep(t, Select(t)) /\ Select(t).step = IF Found(t) THEN "update" ELSE "insert"
  BY DEF Select
<1>2. /\ SameButStep(t, GetRole(t))
      /\ t.step = "role" => GetRole(t).step \in {"role", "create_role", "set_roles"}
  BY DEF GetRole
<1>3. SameButStep(t, CreateRole(t)) /\ CreateRole(t).step = "role"
  <2>1. \E created, j : CreateRole(t) = [t EXCEPT !.created = created, !.step = "role", !.j = j]
    BY Zenon DEF CreateRole
  <2> QED BY <2>1
<1> QED BY <1>1, <1>2, <1>3

LEMMA WritingFields ==
  ASSUME NEW t, IsTransaction(t)
  PROVE  /\ Update(t).by = t.by /\ Update(t).identities = t.identities /\ Update(t).i = t.i
         /\ Update(t).step = "role" /\ Update(t).removed = t.removed /\ Update(t).added = t.added
         /\ Insert(t).by = t.by /\ Insert(t).identities = t.identities /\ Insert(t).i = t.i
         /\ Insert(t).step = "role" /\ Insert(t).removed = t.removed /\ Insert(t).added = t.added
<1> USE DEF IsTransaction, StatementSteps
<1>1. \E locked : Update(t) = [t EXCEPT !.locked = locked, !.step = "role", !.j = 1]
  BY Zenon DEF Update
<1>2. \E locked, inserted :
        Insert(t) = [t EXCEPT !.locked = locked, !.inserted = inserted, !.step = "role", !.j = 1]
  BY Zenon DEF Insert
<1> QED BY <1>1, <1>2

LEMMA BeginOK ==
  ASSUME NEW w, NEW by, NEW identities, Identified(w, Begin(by, identities))
  PROVE  TransactionOK(w, Begin(by, identities))
<1> DEFINE t == Begin(by, identities)
<1>1. /\ t.identities = identities /\ t.i = 1 /\ t.step = "select" /\ t.locked = {}
      /\ t.inserted = {} /\ t.removed = {} /\ t.added = {}
  BY DEF Begin
<1>2. 1 \in DOMAIN t.identities
  BY KnownIdentities
<1>3. Written(t) = {} /\ Settled(t) = {}
  BY <1>1, KnownIdentities DEF Written, Settled
<1> QED
  BY <1>1, <1>2, <1>3, BeginShape
  DEF TransactionOK, LocksWritten, WrittenExist, ChangesSettled, SettledAsAsserted

\* The SELECT finds an account that exists.
LEMMA SelectOK ==
  ASSUME NEW w, NEW t, TransactionOK(w, t), t.step = "select"
  PROVE  TransactionOK(w, Select(t))
<1> DEFINE u == Select(t)
<1>1. SameButStep(t, u) /\ u.step = IF Found(t) THEN "update" ELSE "insert"
  BY SmallStatements DEF TransactionOK
<1>2. Written(u) = Written(t) /\ Settled(u) = Settled(t)
  BY <1>1 DEF SameButStep, Written, Settled
<1>3. u.step = "update" => owner[Subject(u)] # "none"
  BY <1>1 DEF SameButStep, Found, Subject
<1>4. \A k : SubjectAt(u, k) = SubjectAt(t, k) /\ RolesAt(u, k) = RolesAt(t, k)
  BY <1>1 DEF SameButStep, SubjectAt, RolesAt
<1>5. \A s : After(u, s) = After(t, s)
  BY <1>1 DEF SameButStep, After
<1>6. Identified(w, u)
  BY <1>1 DEF SameButStep, TransactionOK, Identified
<1> QED
  BY <1>1, <1>2, <1>3, <1>4, <1>5, <1>6
  DEF SameButStep, TransactionOK, LocksWritten, WrittenExist, ChangesSettled, SettledAsAsserted

\* The statements that get the roles change nothing but the roles created.
LEMMA RoleStatementOK ==
  ASSUME NEW w, NEW t, NEW u, TransactionOK(w, t), SameButStep(t, u),
         t.step \in {"role", "create_role"}, u.step \in {"role", "create_role", "set_roles"}
  PROVE  TransactionOK(w, u)
<1>2. Written(u) = Written(t) /\ Settled(u) = Settled(t)
  BY DEF SameButStep, Written, Settled
<1>4. \A k : SubjectAt(u, k) = SubjectAt(t, k) /\ RolesAt(u, k) = RolesAt(t, k)
  BY DEF SameButStep, SubjectAt, RolesAt
<1>5. \A s : After(u, s) = After(t, s)
  BY DEF SameButStep, After
<1>6. Identified(w, u)
  BY DEF SameButStep, TransactionOK, Identified
<1> QED
  BY <1>2, <1>4, <1>5, <1>6
  DEF SameButStep, TransactionOK, LocksWritten, WrittenExist, ChangesSettled, SettledAsAsserted

\* A written account is locked, and exists or is t's own.
LEMMA WriteOK ==
  ASSUME NEW w, NEW t, NEW u, TransactionOK(w, t), IsTransaction(u), t.step \in {"update", "insert"},
         u.by = t.by, u.identities = t.identities, u.i = t.i, u.step = "role",
         u.locked = t.locked \cup {Subject(t)}, u.removed = t.removed, u.added = t.added,
         \/ t.step = "update" /\ u.inserted = t.inserted
         \/ t.step = "insert" /\ u.inserted = t.inserted \cup {Subject(t)}
  PROVE  TransactionOK(w, u)
<1>1. Written(u) = Written(t) \cup {t.i} /\ Settled(u) = Settled(t)
  BY DEF TransactionOK, Written, Settled
<1>2. \A k : SubjectAt(u, k) = SubjectAt(t, k) /\ RolesAt(u, k) = RolesAt(t, k)
  BY DEF SubjectAt, RolesAt
<1>3. \A s : After(u, s) = After(t, s)
  BY DEF After
<1>4. Identified(w, u)
  BY DEF TransactionOK, Identified
<1>5. Subject(t) = SubjectAt(t, t.i)
  BY DEF Subject, SubjectAt
<1>6. LocksWritten(u)
  BY <1>1, <1>2, <1>5 DEF TransactionOK, LocksWritten
<1>7. WrittenExist(u)
  BY <1>1, <1>2, <1>5 DEF TransactionOK, WrittenExist
<1> QED
  BY <1>1, <1>2, <1>3, <1>4, <1>6, <1>7
  DEF TransactionOK, ChangesSettled, SettledAsAsserted

\* roles.set turns the roles that the account has into those asserted.
LEMMA SetRolesOK ==
  ASSUME NEW w, NEW t, TransactionOK(w, t), t.step = "set_roles"
  PROVE  TransactionOK(w, SetRoles(t))
<1> DEFINE u == SetRoles(t)
           s == Subject(t)
           roles == ToSet(RolesAt(t, t.i))
<1>1. PICK step, i :
        /\ u = [t EXCEPT !.removed = t.removed \cup {s} \X (RolesOf(s) \ roles),
                         !.added = t.added \cup {s} \X (roles \ RolesOf(s)),
                         !.step = step, !.i = i]
        /\ \/ t.i = Len(t.identities) /\ step = "commit" /\ i = t.i
           \/ t.i # Len(t.identities) /\ step = "select" /\ i = t.i + 1
  BY Zenon DEF SetRoles, RolesAt, Roles
<1>2. /\ IsTransaction(u) /\ u.by = t.by /\ u.identities = t.identities
      /\ u.step = step /\ u.i = i /\ u.locked = t.locked /\ u.inserted = t.inserted
      /\ u.removed = t.removed \cup {s} \X (RolesOf(s) \ roles)
      /\ u.added = t.added \cup {s} \X (roles \ RolesOf(s))
  BY <1>1 DEF TransactionOK, IsTransaction, StatementSteps
<1> HIDE DEF u
<1>3. u.i \in DOMAIN u.identities
  BY <1>1, <1>2, KnownIdentities DEF TransactionOK
<1>4. Written(u) = Written(t) /\ Settled(u) = Settled(t) \cup {t.i}
  BY <1>1, <1>2, KnownIdentities DEF TransactionOK, Written, Settled
<1>5. \A k : SubjectAt(u, k) = SubjectAt(t, k) /\ RolesAt(u, k) = RolesAt(t, k)
  BY <1>2 DEF SubjectAt, RolesAt
<1>6. Identified(w, u)
  BY <1>2 DEF TransactionOK, Identified
<1>7. s = SubjectAt(t, t.i) /\ s \in Subjects /\ roles \subseteq RoleCodes
  BY KnownIdentities DEF TransactionOK, Subject, SubjectAt, ToSet
<1>8. LocksWritten(u) /\ WrittenExist(u)
  BY <1>1, <1>2, <1>4, <1>5 DEF TransactionOK, LocksWritten, WrittenExist
<1>9. ChangesSettled(u)
  BY <1>2, <1>4, <1>5, <1>7 DEF TransactionOK, ChangesSettled, RolesOf
<1>10. ASSUME NEW k \in Settled(t)
       PROVE  After(u, SubjectAt(t, k)) = ToSet(RolesAt(t, k))
  <2>1. SubjectAt(t, k) # s
    BY <1>7, <1>10, KnownIdentities DEF TransactionOK, Settled
  <2> QED BY <1>2, <2>1 DEF TransactionOK, SettledAsAsserted, After
<1>11. After(u, s) = roles
  <2>1. \A c : <<s, c>> \notin t.removed \cup t.added
    BY <1>7, KnownIdentities DEF TransactionOK, ChangesSettled, Settled
  <2> QED BY <1>2, <1>7, <2>1 DEF After, RolesOf
<1>12. SettledAsAsserted(u)
  <2> SUFFICES ASSUME NEW k \in Settled(u)
               PROVE  After(u, SubjectAt(u, k)) = ToSet(RolesAt(u, k))
    BY DEF SettledAsAsserted
  <2>1. SubjectAt(u, k) = SubjectAt(t, k) /\ RolesAt(u, k) = RolesAt(t, k)
    BY <1>5
  <2>2. CASE k \in Settled(t)
    BY <1>10, <2>1, <2>2
  <2>3. CASE k = t.i
    BY <1>7, <1>11, <2>1, <2>3
  <2> QED BY <1>4, <2>2, <2>3
<1>13. TransactionOK(w, u)
  BY <1>1, <1>2, <1>3, <1>6, <1>8, <1>9, <1>12 DEF TransactionOK
<1> QED BY <1>13 DEF u

-----------------------------------------------------------------------------
(* The steps.                                                               *)

\* What a transaction has done stays as it is while the tables do.
LEMMA StillOK ==
  ASSUME UNCHANGED <<owner, granted>>
  PROVE  \A w, t : TransactionOK(w, t) => TransactionOK(w, t)'
BY DEF TransactionOK, IsTransaction, Identified, LocksWritten, WrittenExist, ChangesSettled,
       SettledAsAsserted, After, Written, Settled, SubjectAt, RolesAt, Subject

\* A step that leaves the tables alone, and every transaction as it should be.
LEMMA TablesKept ==
  ASSUME RolesInv, UNCHANGED accountVars,
         \A v \in Actors : InTransaction(v)' => TransactionOK(v, task'[v])
  PROVE  RolesInv'
<1>1. ASSUME NEW v \in Actors, InTransaction(v)'
      PROVE  TransactionOK(v, task[v])'
  <2>1. PICK t : t = task'[v] /\ TransactionOK(v, t)
    BY <1>1
  <2>2. TransactionOK(v, t)'
    BY <2>1, StillOK DEF accountVars
  <2> QED
    BY <2>1, <2>2
    DEF TransactionOK, IsTransaction, Identified, LocksWritten, WrittenExist, ChangesSettled,
        SettledAsAsserted, After, Written, Settled, SubjectAt, RolesAt, Subject
<1> QED BY <1>1 DEF RolesInv, accountVars

\* A step of w that leaves it idle, or with a transaction that is as it should be.
LEMMA NextTask ==
  ASSUME RolesInv, DOMAIN task = Actors, UNCHANGED accountVars, NEW w \in Actors, NEW u, Goto(w, u),
         u.step \notin StatementSteps \/ TransactionOK(w, u)
  PROVE  RolesInv'
<1>1. \A v \in Actors : task'[v] = IF v = w THEN u ELSE task[v]
  BY DEF Goto
<1>2. \A v \in Actors : InTransaction(v)' => TransactionOK(v, task'[v])
  BY <1>1, InTransactionSteps DEF RolesInv
<1> QED BY <1>2, TablesKept

\* A commit makes the roles of the accounts that it settles those asserted, and
\* leaves the other accounts alone.
LEMMA CommitSettles ==
  ASSUME RolesInv, RolesAsAsserted, NEW w \in Actors, Commit(w)
  PROVE  RolesAsAsserted'
<1> DEFINE t == task[w]
<1>1. TransactionOK(w, t) /\ t.step = "commit"
  BY DEF Commit, At, InTransaction, RolesInv
<1>2. Settled(t) = DOMAIN t.identities /\ Written(t) = DOMAIN t.identities
  BY <1>1, KnownIdentities DEF TransactionOK, Settled, Written
<1> SUFFICES ASSUME NEW s \in Subjects
             PROVE  IF owner'[s] = "none" THEN asserted'[s] = Never ELSE asserted'[s] = RolesOf(s)'
  BY DEF RolesAsAsserted
<1>3. owner'[s] = IF s \in t.inserted THEN t.by ELSE owner[s]
  BY DEF Commit, CommitWrites
<1>4. granted' = (granted \ t.removed) \cup t.added
  BY DEF Commit, CommitWrites
<1>5. RolesOf(s)' = After(t, s)
  BY <1>4 DEF RolesOf, After
<1>6. CASE \E k \in DOMAIN t.identities : SubjectAt(t, k) = s
  <2>1. PICK k \in DOMAIN t.identities : SubjectAt(t, k) = s
    BY <1>6
  <2>2. { l \in DOMAIN t.identities : t.identities[l].subject = s } = {k}
    BY <1>1, <2>1, KnownIdentities DEF TransactionOK, SubjectAt
  <2>3. AssertedBy(t, s) = ToSet(RolesAt(t, k))
    BY <2>2 DEF AssertedBy, RolesAt
  <2>4. asserted'[s] = AssertedBy(t, s)
    BY <2>1 DEF Commit, SubjectAt
  <2>5. owner'[s] # "none"
    BY <1>1, <1>2, <1>3, <2>1, KnownIdentities DEF TransactionOK, WrittenExist
  <2>6. After(t, s) = ToSet(RolesAt(t, k))
    BY <1>1, <1>2, <2>1 DEF TransactionOK, SettledAsAsserted
  <2> QED BY <1>5, <2>3, <2>4, <2>5, <2>6
<1>7. CASE ~\E k \in DOMAIN t.identities : SubjectAt(t, k) = s
  <2>1. asserted'[s] = asserted[s]
    BY <1>7 DEF Commit, SubjectAt
  <2>2. s \notin t.inserted
    BY <1>1, <1>2, <1>7 DEF TransactionOK, LocksWritten
  <2>3. \A c : <<s, c>> \notin t.removed \cup t.added
    BY <1>1, <1>2, <1>7 DEF TransactionOK, ChangesSettled
  <2>4. After(t, s) = RolesOf(s)
    BY <2>3 DEF After, RolesOf
  <2> QED BY <1>3, <1>5, <2>1, <2>2, <2>4 DEF RolesAsAsserted
<1> QED BY <1>6, <1>7

\* It leaves what other transactions have done as it is: they hold locks on
\* other accounts.
LEMMA CommitKeepsOthers ==
  ASSUME RolesInv, LocksInv, NEW w \in Actors, Commit(w)
  PROVE  RolesInv'
<1> DEFINE t == task[w]
<1>1. TransactionOK(w, t) /\ InTransaction(w)
  BY DEF Commit, At, InTransaction, RolesInv
<1>2. owner' = [s \in Subjects |-> IF s \in t.inserted THEN t.by ELSE owner[s]]
  BY DEF Commit, CommitWrites
<1>3. granted' = (granted \ t.removed) \cup t.added
  BY DEF Commit, CommitWrites
<1>4. \A v \in Actors : task'[v] = IF v = w THEN Idle ELSE task[v]
  BY DEF Commit, Goto, LocksInv
<1>5. \A x \in t.removed \cup t.added : \E s \in t.locked \cap Subjects, c \in RoleCodes : x = <<s, c>>
  <2>1. Settled(t) \subseteq Written(t) /\ Settled(t) \subseteq DOMAIN t.identities
    BY DEF Settled, Written
  <2> QED BY <1>1, <2>1, KnownIdentities DEF TransactionOK, ChangesSettled, LocksWritten
<1>6. granted' \subseteq Subjects \X RoleCodes
  BY <1>3, <1>5 DEF RolesInv
<1>7. ASSUME NEW v \in Actors, InTransaction(v)'
      PROVE  TransactionOK(v, task[v])'
  <2>1. v # w /\ InTransaction(v) /\ task'[v] = task[v]
    BY <1>4, <1>7, InTransactionSteps DEF Idle, StatementSteps
  <2>2. PICK u : u = task[v] /\ TransactionOK(v, u)
    BY <2>1 DEF RolesInv
  <2>3. \A k \in Written(u) : SubjectAt(u, k) \in Subjects /\ SubjectAt(u, k) \notin t.locked
    <3>1. t.locked \cap u.locked = {}
      BY <1>1, <2>1, <2>2 DEF LocksInv
    <3>2. \A k \in Written(u) : SubjectAt(u, k) \in u.locked /\ k \in DOMAIN u.identities
      BY <2>2 DEF TransactionOK, LocksWritten, Written
    <3>3. Identified(v, u)
      BY <2>2 DEF TransactionOK
    <3> QED BY <3>1, <3>2, <3>3, KnownIdentities
  <2>4. \A s \in Subjects : owner[s] # "none" => owner'[s] # "none"
    BY <1>1, <1>2, KnownIdentities DEF TransactionOK
  <2>5. \A k \in Settled(u) : k \in Written(u)
    BY DEF Settled, Written
  <2>6. \A k \in Written(u), c \in RoleCodes :
          <<SubjectAt(u, k), c>> \in granted' <=> <<SubjectAt(u, k), c>> \in granted
    BY <1>3, <1>5, <2>3
  <2>7. SettledAsAsserted(u)'
    <3>1. SettledAsAsserted(u)
      BY <2>2 DEF TransactionOK
    <3> QED
      BY <2>5, <2>6, <3>1 DEF SettledAsAsserted, After, Settled, SubjectAt, RolesAt
  <2>8. WrittenExist(u)'
    <3>1. WrittenExist(u) /\ Subject(u) \in Subjects
      BY <2>2, KnownIdentities DEF TransactionOK, Subject, SubjectAt
    <3> QED BY <2>3, <2>4, <3>1 DEF WrittenExist, Written, SubjectAt, Subject
  <2>9. TransactionOK(v, u)'
    BY <2>2, <2>7, <2>8
    DEF TransactionOK, IsTransaction, Identified, LocksWritten, ChangesSettled, Written, Settled, SubjectAt
  <2> QED
    BY <2>1, <2>2, <2>9
    DEF TransactionOK, IsTransaction, Identified, LocksWritten, WrittenExist, ChangesSettled,
        SettledAsAsserted, After, Written, Settled, SubjectAt, RolesAt, Subject
<1> QED BY <1>6, <1>7 DEF RolesInv

LEMMA RolesStep ==
  ASSUME RolesInv, LocksInv, ClientInv, RolesAsAsserted, [HandoverNext]_handoverVars
  PROVE  RolesInv' /\ RolesAsAsserted'
<1>1. DOMAIN task = Actors
  BY DEF LocksInv
<1>2. ASSUME NEW w \in Actors, NEW u, Goto(w, u), UNCHANGED <<accountVars, asserted>>,
             u.step \notin StatementSteps \/ TransactionOK(w, u)
      PROVE  RolesInv' /\ RolesAsAsserted'
  BY <1>1, <1>2, NextTask DEF RolesAsAsserted, accountVars, RolesOf
<1>3. CASE RunSeed
  <2>1. Identified(Seeder, Begin("demo", DemoIdentities))
    BY DEF Identified, Begin
  <2> QED BY <1>2, <1>3, <2>1, BeginOK DEF RunSeed, Actors
<1>4. ASSUME NEW w \in Actors, Arrive(w) \/ LookUpClient(w) \/ WaitForLock(w) \/ GetClient(w)
      PROVE  RolesInv' /\ RolesAsAsserted'
  <2>1. \E u : Goto(w, u) /\ u.step \notin StatementSteps
    BY <1>4 DEF Arrive, LookUpClient, WaitForLock, GetClient, StatementSteps
  <2> QED BY <1>2, <1>4, <2>1 DEF Arrive, LookUpClient, WaitForLock, GetClient
<1>5. ASSUME NEW w \in Actors, NEW id \in Identities, VerifyToken(w, id)
      PROVE  RolesInv' /\ RolesAsAsserted'
  <2>1. w \in Workers
    BY <1>5 DEF VerifyToken, At, ClientInv
  <2>2. Identified(w, Begin("portal", <<id>>))
    BY <2>1 DEF Identified, Begin
  <2> QED BY <1>2, <1>5, <2>2, BeginOK DEF VerifyToken
<1>6. ASSUME NEW w \in Actors, \E step, u : Execute(w, step, u) /\ step \in StatementSteps
      PROVE  TransactionOK(w, task[w])
  BY <1>6 DEF Execute, At, RolesInv, InTransaction, StatementSteps
<1>7. ASSUME NEW w \in Actors, SelectAccount(w)
      PROVE  RolesInv' /\ RolesAsAsserted'
  <2>1. TransactionOK(w, Select(task[w]))
    BY <1>6, <1>7, SelectOK DEF SelectAccount, Execute, At, StatementSteps
  <2> QED BY <1>2, <1>7, <2>1 DEF SelectAccount, Execute
<1>8. ASSUME NEW w \in Actors, GetNextRole(w)
      PROVE  RolesInv' /\ RolesAsAsserted'
  <2>1. TransactionOK(w, task[w]) /\ task[w].step = "role"
    BY <1>6, <1>8 DEF GetNextRole, Execute, At, StatementSteps
  <2>2. TransactionOK(w, GetRole(task[w]))
    BY <2>1, SmallStatements, RoleStatementOK DEF TransactionOK
  <2> QED BY <1>2, <1>8, <2>2 DEF GetNextRole, Execute
<1>9. ASSUME NEW w \in Actors, CreateNextRole(w)
      PROVE  RolesInv' /\ RolesAsAsserted'
  <2>1. TransactionOK(w, task[w]) /\ task[w].step = "create_role"
    BY <1>6, <1>9 DEF CreateNextRole, Execute, At, StatementSteps
  <2>2. TransactionOK(w, CreateRole(task[w]))
    BY <2>1, SmallStatements, RoleStatementOK DEF TransactionOK
  <2> QED BY <1>2, <1>9, <2>2 DEF CreateNextRole, Execute
<1>10. ASSUME NEW w \in Actors, SetAccountRoles(w)
       PROVE  RolesInv' /\ RolesAsAsserted'
  <2>1. TransactionOK(w, SetRoles(task[w]))
    BY <1>6, <1>10, SetRolesOK DEF SetAccountRoles, Execute, At, StatementSteps
  <2> QED BY <1>2, <1>10, <2>1 DEF SetAccountRoles, Execute
<1>11. ASSUME NEW w \in Actors, UpdateAccount(w)
       PROVE  RolesInv' /\ RolesAsAsserted'
  <2>1. TransactionOK(w, task[w]) /\ task[w].step = "update"
    BY <1>6, <1>11 DEF UpdateAccount, Execute, At, StatementSteps
  <2>2. TransactionOK(w, Update(task[w]))
    BY <2>1, WritingStatements, WritingFields, WriteOK DEF TransactionOK
  <2> QED BY <1>2, <1>11, <2>2 DEF UpdateAccount, Execute
<1>12. ASSUME NEW w \in Actors, InsertAccount(w)
       PROVE  RolesInv' /\ RolesAsAsserted'
  <2>1. TransactionOK(w, task[w]) /\ task[w].step = "insert"
    BY <1>6, <1>12 DEF InsertAccount, Execute, At, StatementSteps
  <2>2. TransactionOK(w, Insert(task[w]))
    BY <2>1, WritingStatements, WritingFields, WriteOK DEF TransactionOK
  <2> QED BY <1>2, <1>12, <2>2 DEF InsertAccount, Execute
<1>13. ASSUME NEW w \in Actors, InsertRefused(w) \/ BreakDeadlock(w) \/ Fail(w)
       PROVE  RolesInv' /\ RolesAsAsserted'
  <2>1. Idle.step \notin StatementSteps
    BY DEF Idle, StatementSteps
  <2> QED BY <1>2, <1>13, <2>1 DEF InsertRefused, Execute, BreakDeadlock, Fail
<1>14. ASSUME NEW p \in Processes, Restart(p)
       PROVE  RolesInv' /\ RolesAsAsserted'
  <2>1. \A w \in Actors : task'[w] = Idle \/ task'[w] = task[w]
    BY <1>14 DEF Restart
  <2>2. \A w \in Actors : InTransaction(w)' => InTransaction(w) /\ task'[w] = task[w]
    BY <2>1, InTransactionSteps DEF Idle, StatementSteps
  <2>3. UNCHANGED <<accountVars, asserted>>
    BY <1>14 DEF Restart
  <2>4. RolesInv'
    BY <2>2, <2>3, TablesKept DEF RolesInv
  <2> QED BY <2>3, <2>4 DEF RolesAsAsserted, accountVars, RolesOf
<1>15. CASE UNCHANGED handoverVars
  <2>1. RolesInv'
    BY <1>15, TablesKept DEF handoverVars, RolesInv, InTransaction
  <2> QED BY <1>15, <2>1 DEF handoverVars, RolesAsAsserted, accountVars, RolesOf
<1> QED
  BY <1>3, <1>4, <1>5, <1>7, <1>8, <1>9, <1>10, <1>11, <1>12, <1>13, <1>14, <1>15,
     CommitSettles, CommitKeepsOthers
  DEF HandoverNext, Proceed, ProceedUnlocked

LEMMA RolesInitially ==
  ASSUME HandoverInit
  PROVE  RolesInv /\ LocksInv /\ ClientInv /\ RolesAsAsserted
<1>1. LocksInv /\ RolesInv
  BY DEF HandoverInit, AccountsInit, LocksInv, RolesInv, InTransaction, Idle
<1>2. ClientInv
  BY DEF HandoverInit, JwksInit, ClientInv, JwksTypeOK, At, Idle, Actors
<1>3. RolesAsAsserted
  BY DEF HandoverInit, AccountsInit, RolesAsAsserted
<1> QED BY <1>1, <1>2, <1>3

\* However handovers and the seed command overlap, fail and are restarted, the
\* roles of an account are those of the identity that wrote it last.
THEOREM RolesAlwaysAsAsserted == HandoverSpec => []RolesAsAsserted
<1> DEFINE Inv == RolesInv /\ LocksInv /\ ClientInv /\ RolesAsAsserted
<1>1. HandoverInit => Inv
  BY RolesInitially
<1>2. Inv /\ [HandoverNext]_handoverVars => Inv'
  BY LocksStep, ClientStep, RolesStep
<1>3. Inv => RolesAsAsserted
  OBVIOUS
<1> QED BY <1>1, <1>2, <1>3, PTL DEF HandoverSpec

-----------------------------------------------------------------------------
(* Deadlocks.                                                               *)

\* The roles that t has created are asserted by identities it has written, and
\* so is the one that it creates next.
CreatesAsserted(t) ==
  /\ \A c \in t.created : \E k \in Written(t) : c \in ToSet(RolesAt(t, k))
  /\ t.j \in Nat \ {0}
  /\ t.step = "create_role" => t.j \in DOMAIN Roles(t)

CreatedInv == \A w \in Actors : InTransaction(w) => CreatesAsserted(task[w])

LEMMA BeginCreates ==
  ASSUME NEW by, NEW identities
  PROVE  CreatesAsserted(Begin(by, identities))
BY DEF Begin, CreatesAsserted

LEMMA SelectCreates ==
  ASSUME NEW t, IsTransaction(t), CreatesAsserted(t), t.step = "select"
  PROVE  CreatesAsserted(Select(t))
<1>1. SameButStep(t, Select(t)) /\ Select(t).step \in {"update", "insert"}
  BY SmallStatements
<1>2. Select(t).created = t.created /\ Select(t).j = t.j
  BY DEF IsTransaction, Select
<1>3. Written(Select(t)) = Written(t)
  BY <1>1 DEF Written, SameButStep
<1> QED BY <1>1, <1>2, <1>3 DEF CreatesAsserted, RolesAt, SameButStep

LEMMA GetRoleCreates ==
  ASSUME NEW w, NEW t, TransactionOK(w, t), CreatesAsserted(t), t.step = "role"
  PROVE  CreatesAsserted(GetRole(t))
<1> DEFINE u == GetRole(t)
<1>1. SameButStep(t, u) /\ u.step \in {"role", "create_role", "set_roles"}
  BY SmallStatements DEF TransactionOK
<1>2. Roles(t) = RolesAt(t, t.i) /\ Roles(u) = Roles(t) /\ Len(Roles(t)) \in Nat
      /\ DOMAIN Roles(t) = 1..Len(Roles(t))
  BY <1>1, KnownIdentities DEF SameButStep, Roles, RolesAt, TransactionOK
<1>3. /\ u.created = t.created
      /\ u.j \in {t.j, t.j + 1}
      /\ u.step = "create_role" => u.j = t.j /\ ~(t.j > Len(Roles(t)))
  BY DEF GetRole, TransactionOK, IsTransaction
<1>4. Written(u) = Written(t)
  BY <1>1 DEF Written, SameButStep
<1> QED BY <1>1, <1>2, <1>3, <1>4 DEF CreatesAsserted, RolesAt, SameButStep

LEMMA CreateRoleCreates ==
  ASSUME NEW w, NEW t, TransactionOK(w, t), CreatesAsserted(t), t.step = "create_role"
  PROVE  CreatesAsserted(CreateRole(t))
<1> DEFINE u == CreateRole(t)
<1>1. SameButStep(t, u) /\ u.step = "role"
  BY SmallStatements DEF TransactionOK
<1>2. u.j = t.j + 1 /\ u.created \subseteq t.created \cup {Roles(t)[t.j]}
  <2>1. \E created : /\ u = [t EXCEPT !.created = created, !.step = "role", !.j = t.j + 1]
                     /\ created = t.created \cup ({Roles(t)[t.j]} \ appRoles)
    BY Zenon DEF CreateRole
  <2> QED BY <2>1 DEF TransactionOK, IsTransaction
<1>3. Written(u) = Written(t) /\ t.i \in Written(t)
  BY <1>1 DEF Written, SameButStep, TransactionOK
<1>4. Roles(t)[t.j] \in ToSet(RolesAt(t, t.i))
  BY DEF CreatesAsserted, Roles, RolesAt, ToSet
<1>5. \A k : RolesAt(u, k) = RolesAt(t, k)
  BY <1>1 DEF RolesAt, SameButStep
<1> QED BY <1>1, <1>2, <1>3, <1>4, <1>5 DEF CreatesAsserted

\* The other statements create nothing.
LEMMA WriteCreates ==
  ASSUME NEW t, NEW u, CreatesAsserted(t), u.identities = t.identities, u.created = t.created,
         u.j \in {1, t.j}, u.step # "create_role", Written(t) \subseteq Written(u)
  PROVE  CreatesAsserted(u)
BY DEF CreatesAsserted, RolesAt

LEMMA OtherStatementsCreate ==
  ASSUME NEW w, NEW t, TransactionOK(w, t), CreatesAsserted(t)
  PROVE  /\ t.step = "set_roles" => CreatesAsserted(SetRoles(t))
         /\ t.step = "update" => CreatesAsserted(Update(t))
         /\ t.step = "insert" => CreatesAsserted(Insert(t))
<1>1. ASSUME t.step = "set_roles" PROVE CreatesAsserted(SetRoles(t))
  <2>1. PICK removed, added, step, i :
          /\ SetRoles(t) = [t EXCEPT !.removed = removed, !.added = added, !.step = step, !.i = i]
          /\ \/ step = "commit" /\ i = t.i
             \/ step = "select" /\ i = t.i + 1
    BY Zenon DEF SetRoles
  <2>2. /\ SetRoles(t).identities = t.identities /\ SetRoles(t).created = t.created
        /\ SetRoles(t).j = t.j /\ SetRoles(t).step = step /\ SetRoles(t).i = i
    BY <2>1 DEF TransactionOK, IsTransaction
  <2>3. Written(t) \subseteq Written(SetRoles(t))
    BY <2>1, <2>2, KnownIdentities DEF Written, TransactionOK
  <2> QED BY <2>1, <2>2, <2>3, WriteCreates
<1>2. ASSUME t.step = "update" PROVE CreatesAsserted(Update(t))
  <2>1. \E locked : Update(t) = [t EXCEPT !.locked = locked, !.step = "role", !.j = 1]
    BY Zenon DEF Update
  <2>2. /\ Update(t).identities = t.identities /\ Update(t).created = t.created
        /\ Update(t).j = 1 /\ Update(t).step = "role" /\ Update(t).i = t.i
    BY <2>1 DEF TransactionOK, IsTransaction
  <2>3. Written(t) \subseteq Written(Update(t))
    BY <2>2 DEF Written
  <2> QED BY <2>2, <2>3, WriteCreates
<1>3. ASSUME t.step = "insert" PROVE CreatesAsserted(Insert(t))
  <2>1. \E locked, inserted :
          Insert(t) = [t EXCEPT !.locked = locked, !.inserted = inserted, !.step = "role", !.j = 1]
    BY Zenon DEF Insert
  <2>2. /\ Insert(t).identities = t.identities /\ Insert(t).created = t.created
        /\ Insert(t).j = 1 /\ Insert(t).step = "role" /\ Insert(t).i = t.i
    BY <2>1 DEF TransactionOK, IsTransaction
  <2>3. Written(t) \subseteq Written(Insert(t))
    BY <2>2 DEF Written
  <2> QED BY <2>2, <2>3, WriteCreates
<1> QED BY <1>1, <1>2, <1>3

LEMMA CreatedStep ==
  ASSUME RolesInv, LocksInv, CreatedInv, [HandoverNext]_handoverVars
  PROVE  CreatedInv'
<1>1. ASSUME NEW w \in Actors, NEW u, Goto(w, u), u.step \in StatementSteps => CreatesAsserted(u)
      PROVE  CreatedInv'
  <2>1. \A v \in Actors : task'[v] = IF v = w THEN u ELSE task[v]
    BY <1>1 DEF Goto, LocksInv
  <2>2. \A v \in Actors : InTransaction(v)' => CreatesAsserted(task'[v])
    BY <1>1, <2>1, InTransactionSteps DEF CreatedInv
  <2> QED
    BY <2>2 DEF CreatedInv, CreatesAsserted, Written, RolesAt, Roles
<1>2. CASE RunSeed
  BY <1>1, <1>2, BeginCreates DEF RunSeed, Actors
<1>3. ASSUME NEW w \in Actors, Arrive(w) \/ LookUpClient(w) \/ WaitForLock(w) \/ GetClient(w)
      PROVE  CreatedInv'
  <2>1. \E u : Goto(w, u) /\ u.step \notin StatementSteps
    BY <1>3 DEF Arrive, LookUpClient, WaitForLock, GetClient, StatementSteps
  <2> QED BY <1>1, <2>1
<1>4. ASSUME NEW w \in Actors, NEW id \in Identities, VerifyToken(w, id)
      PROVE  CreatedInv'
  BY <1>1, <1>4, BeginCreates DEF VerifyToken
<1>5. ASSUME NEW w \in Actors,
             \/ SelectAccount(w) \/ GetNextRole(w) \/ CreateNextRole(w) \/ SetAccountRoles(w)
             \/ UpdateAccount(w) \/ InsertAccount(w)
      PROVE  CreatedInv'
  <2>1. TransactionOK(w, task[w]) /\ CreatesAsserted(task[w])
    BY <1>5
    DEF SelectAccount, GetNextRole, CreateNextRole, SetAccountRoles, UpdateAccount, InsertAccount,
        Execute, At, InTransaction, RolesInv, CreatedInv
  <2>2. \E u : Goto(w, u) /\ CreatesAsserted(u)
    BY <1>5, <2>1, SelectCreates, GetRoleCreates, CreateRoleCreates, OtherStatementsCreate
    DEF SelectAccount, GetNextRole, CreateNextRole, SetAccountRoles, UpdateAccount, InsertAccount,
        Execute, At, TransactionOK
  <2> QED BY <1>1, <2>2
<1>6. ASSUME NEW w \in Actors, InsertRefused(w) \/ BreakDeadlock(w) \/ Fail(w) \/ Commit(w)
      PROVE  CreatedInv'
  <2>1. Idle.step \notin StatementSteps
    BY DEF Idle, StatementSteps
  <2> QED BY <1>1, <1>6, <2>1 DEF InsertRefused, Execute, BreakDeadlock, Fail, Commit
<1>7. ASSUME \A w \in Actors : task'[w] = Idle \/ task'[w] = task[w]
      PROVE  CreatedInv'
  <2>1. \A w \in Actors : InTransaction(w)' => InTransaction(w) /\ task'[w] = task[w]
    BY <1>7, InTransactionSteps DEF Idle, StatementSteps
  <2>2. \A v \in Actors : InTransaction(v)' => CreatesAsserted(task'[v])
    BY <2>1 DEF CreatedInv
  <2> QED
    BY <2>2 DEF CreatedInv, CreatesAsserted, Written, RolesAt, Roles
<1> QED
  BY <1>2, <1>3, <1>4, <1>5, <1>6, <1>7
  DEF HandoverNext, Proceed, ProceedUnlocked, Restart, handoverVars

\* A thread that is about to write its account has no lock yet, and the seed
\* command at most the one on its first account.
LEMMA BeforeWriting ==
  ASSUME RolesInv, CreatedInv, NEW w \in Actors, InTransaction(w),
         task[w].step \in {"update", "insert"}
  PROVE  Held(task[w]) = {} \/ (w = Seeder /\ Held(task[w]) \subseteq {DemoEmployee})
<1> DEFINE t == task[w]
<1>1. TransactionOK(w, t) /\ CreatesAsserted(t)
  BY DEF RolesInv, CreatedInv
<1>2. Written(t) = { k \in DOMAIN t.identities : k < t.i }
  BY DEF Written
<1>3. CASE Written(t) = {}
  BY <1>1, <1>3 DEF TransactionOK, LocksWritten, CreatesAsserted, Held
<1>4. CASE Written(t) # {}
  <2>1. t.identities = DemoIdentities /\ w = Seeder
    <3>1. ASSUME NEW id \in Identities, t.identities = <<id>>
          PROVE  FALSE
      <4>1. DOMAIN t.identities = {1}
        BY <3>1
      <4> QED BY <1>1, <1>2, <1>4, <4>1 DEF TransactionOK
    <3> QED BY <1>1, <3>1 DEF TransactionOK, Identified
  <2>2. DOMAIN t.identities = {1, 2} /\ SubjectAt(t, 1) = DemoEmployee /\ RolesAt(t, 1) = <<>>
    BY <2>1 DEF DemoIdentities, SubjectAt, RolesAt
  <2>3. Written(t) = {1}
    BY <1>1, <1>2, <1>4, <2>2 DEF TransactionOK
  <2>4. t.locked = {DemoEmployee}
    BY <1>1, <2>2, <2>3 DEF TransactionOK, LocksWritten
  <2>5. t.created = {}
    BY <1>1, <2>2, <2>3 DEF CreatesAsserted, ToSet
  <2> QED BY <2>1, <2>4, <2>5 DEF Held
<1> QED BY <1>3, <1>4

\* Who waits in a cycle without creating a role is about to write an account. A
\* thread in that place holds nothing, so nobody waits for it; the seed command
\* holds its first account, which nobody who holds a lock asks for.
LEMMA DeadlockedCreate ==
  ASSUME RolesInv, CreatedInv
  PROVE  DeadlocksNeedNewRoles
<1> SUFFICES ASSUME NEW D \in SUBSET Actors,
                    \A v \in D : (\E x \in D : WaitsFor(v, x)) /\ (\E x \in D : WaitsFor(x, v)),
                    NEW w \in D, task[w].step # "create_role"
             PROVE  FALSE
  BY DEF DeadlocksNeedNewRoles, Deadlocked, At
<1>1. \A v \in D : InTransaction(v) /\ Held(task[v]) # {} /\ Needed(task[v]) # {}
  BY DEF WaitsFor
<1>2. \A v \in D : task[v].step \in {"update", "insert", "create_role"}
  BY <1>1 DEF Needed
<1>3. w = Seeder /\ Held(task[w]) \subseteq {DemoEmployee}
  BY <1>1, <1>2, BeforeWriting
<1>4. PICK x \in D : WaitsFor(x, w)
  OBVIOUS
<1>5. x # Seeder /\ DemoEmployee \in Needed(task[x])
  BY <1>3, <1>4 DEF WaitsFor
<1>6. CASE task[x].step = "create_role"
  <2>1. TransactionOK(x, task[x]) /\ CreatesAsserted(task[x])
    BY <1>1 DEF RolesInv, CreatedInv
  <2>2. Roles(task[x]) \in Seq(RoleCodes) /\ task[x].j \in DOMAIN Roles(task[x])
    BY <1>6, <2>1, KnownIdentities DEF TransactionOK, CreatesAsserted, Roles, RolesAt
  <2>3. Needed(task[x]) \subseteq RoleCodes
    BY <1>6, <2>2 DEF Needed
  <2> QED BY <1>5, <2>3, HandoverAssumption
<1>7. CASE task[x].step # "create_role"
  BY <1>1, <1>2, <1>5, <1>7, BeforeWriting
<1> QED BY <1>6, <1>7

\* However many threads and roles there are, a transaction in a wait cycle is
\* one that creates a role.
THEOREM DeadlocksOnlyOverRoles == HandoverSpec => []DeadlocksNeedNewRoles
<1> DEFINE Inv == RolesInv /\ LocksInv /\ ClientInv /\ RolesAsAsserted /\ CreatedInv
<1>1. HandoverInit => CreatedInv
  BY DEF HandoverInit, CreatedInv, InTransaction, Idle
<1>2. HandoverInit => Inv
  BY <1>1, RolesInitially
<1>3. Inv /\ [HandoverNext]_handoverVars => Inv'
  BY LocksStep, ClientStep, RolesStep, CreatedStep
<1>4. Inv => DeadlocksNeedNewRoles
  BY DeadlockedCreate
<1> QED BY <1>2, <1>3, <1>4, PTL DEF HandoverSpec

-----------------------------------------------------------------------------
(* The types.                                                               *)

\* What a task that has no transaction looks like.
IsRequest(w, t) ==
  \/ t = Idle
  \/ w \in Workers /\ t \in [step: {"look_up", "wait_lock", "fill_cache"}]
  \/ w \in Workers /\ t \in [step: {"verify"}, client: Workers]

TablesTyped ==
  /\ owner \in [Subjects -> Owners] /\ appRoles \subseteq RoleCodes
  /\ asserted \in [Subjects -> (SUBSET RoleCodes) \cup {Never}]

\* No role is both deleted and inserted.
TypesInv ==
  /\ TablesTyped
  /\ \A w \in Actors : IF InTransaction(w) THEN task[w].removed \cap task[w].added = {}
                                           ELSE IsRequest(w, task[w])

\* A transaction holds locks on accounts and new roles of the identities it has
\* come to: those it has written.
LEMMA TypesHold ==
  ASSUME TypesInv, RolesInv, CreatedInv, ClientInv
  PROVE  HandoverTypeOK
<1>1. JwksTypeOK /\ AccountsTypeOK /\ asserted \in [Subjects -> (SUBSET RoleCodes) \cup {Never}]
  BY DEF TypesInv, TablesTyped, RolesInv, ClientInv, AccountsTypeOK
<1>2. ASSUME NEW w \in Actors, InTransaction(w),
             NEW seen, seen = { task[w].identities[i] : i \in 1..task[w].i }
      PROVE  /\ task[w].inserted \subseteq task[w].locked
             /\ task[w].locked \subseteq { id.subject : id \in seen }
             /\ task[w].created \subseteq UNION { ToSet(id.roles) : id \in seen }
             /\ task[w].removed \cap task[w].added = {}
  <2> DEFINE t == task[w]
  <2>1. TransactionOK(w, t) /\ CreatesAsserted(t)
    BY <1>2 DEF RolesInv, CreatedInv
  <2>2. \A k \in Written(t) : t.identities[k] \in seen
    <3>1. \A k \in Written(t) : k \in 1..t.i
      BY <2>1, KnownIdentities DEF TransactionOK, Written
    <3> QED BY <1>2, <3>1
  <2>3. t.inserted \subseteq t.locked /\ t.locked \subseteq { id.subject : id \in seen }
    BY <2>1, <2>2 DEF TransactionOK, LocksWritten, SubjectAt
  <2>4. t.created \subseteq UNION { ToSet(id.roles) : id \in seen }
    BY <2>1, <2>2 DEF CreatesAsserted, RolesAt
  <2>5. t.removed \cap t.added = {}
    BY <1>2 DEF TypesInv
  <2> QED BY <2>3, <2>4, <2>5
<1>3. ASSUME NEW w \in Actors
      PROVE  \/ task[w] = Idle
             \/ w \in Workers /\ task[w] \in [step: {"look_up", "wait_lock", "fill_cache"}]
             \/ w \in Workers /\ task[w] \in [step: {"verify"}, client: Workers]
             \/ LET t == task[w]
                    seen == { t.identities[i] : i \in 1..t.i }
                IN /\ InTransaction(w)
                   /\ t.inserted \subseteq t.locked /\ t.locked \subseteq { id.subject : id \in seen }
                   /\ t.created \subseteq UNION { ToSet(id.roles) : id \in seen }
                   /\ t.removed \cap t.added = {}
  <2>1. CASE InTransaction(w)
    BY <1>2, <2>1
  <2>2. CASE ~InTransaction(w)
    BY <2>2 DEF TypesInv, IsRequest
  <2> QED BY <2>1, <2>2
<1> QED BY <1>1, <1>3 DEF HandoverTypeOK

\* A step of w that leaves the tables alone.
LEMMA NextTyped ==
  ASSUME TypesInv, DOMAIN task = Actors, UNCHANGED <<accountVars, asserted>>,
         NEW w \in Actors, NEW u, Goto(w, u),
         IF u.step \in StatementSteps THEN u.removed \cap u.added = {} ELSE IsRequest(w, u)
  PROVE  TypesInv'
<1>1. \A v \in Actors : task'[v] = IF v = w THEN u ELSE task[v]
  BY DEF Goto
<1>2. \A v \in Actors : IF InTransaction(v)' THEN task'[v].removed \cap task'[v].added = {}
                                             ELSE IsRequest(v, task'[v])
  BY <1>1, InTransactionSteps DEF TypesInv
<1> QED BY <1>2 DEF TypesInv, TablesTyped, IsRequest, accountVars

\* What is deleted was there and what is inserted was not; changes made before
\* are of other accounts.
LEMMA SetRolesDisjoint ==
  ASSUME NEW w, NEW t, TransactionOK(w, t), t.step = "set_roles", t.removed \cap t.added = {}
  PROVE  SetRoles(t).removed \cap SetRoles(t).added = {}
<1> DEFINE u == SetRoles(t)
           s == Subject(t)
           roles == ToSet(RolesAt(t, t.i))
<1>1. PICK step, i :
        u = [t EXCEPT !.removed = t.removed \cup {s} \X (RolesOf(s) \ roles),
                      !.added = t.added \cup {s} \X (roles \ RolesOf(s)),
                      !.step = step, !.i = i]
  BY Zenon DEF SetRoles, RolesAt, Roles
<1>2. /\ u.removed = t.removed \cup {s} \X (RolesOf(s) \ roles)
      /\ u.added = t.added \cup {s} \X (roles \ RolesOf(s))
  BY <1>1 DEF TransactionOK, IsTransaction
<1>3. \A c : <<s, c>> \notin t.removed \cup t.added
  <2>1. s = SubjectAt(t, t.i)
    BY DEF Subject, SubjectAt
  <2> QED BY <2>1, KnownIdentities DEF TransactionOK, ChangesSettled, Settled
<1> QED BY <1>2, <1>3

\* The other statements of a transaction change no row of an account's roles.
LEMMA StatementsDisjoint ==
  ASSUME NEW w, NEW t, TransactionOK(w, t), t.removed \cap t.added = {}
  PROVE  /\ Select(t).removed \cap Select(t).added = {}
         /\ GetRole(t).removed \cap GetRole(t).added = {}
         /\ CreateRole(t).removed \cap CreateRole(t).added = {}
         /\ Update(t).removed \cap Update(t).added = {}
         /\ Insert(t).removed \cap Insert(t).added = {}
BY SmallStatements, WritingFields DEF TransactionOK, SameButStep

LEMMA StatementsStay ==
  ASSUME NEW w, NEW t, TransactionOK(w, t)
  PROVE  /\ t.step = "select" => Select(t).step \in StatementSteps
         /\ t.step = "role" => GetRole(t).step \in StatementSteps
         /\ CreateRole(t).step \in StatementSteps
         /\ SetRoles(t).step \in StatementSteps
         /\ Update(t).step \in StatementSteps
         /\ Insert(t).step \in StatementSteps
BY ReadingStatements, WritingStatements DEF TransactionOK, LocksNothing, IsTransaction

\* A commit writes the names, roles and rows that identities assert.
LEMMA CommitTyped ==
  ASSUME TypesInv, RolesInv, CreatedInv, DOMAIN task = Actors, NEW w \in Actors, Commit(w)
  PROVE  TypesInv'
<1> DEFINE t == task[w]
<1>1. TransactionOK(w, t) /\ CreatesAsserted(t)
  BY DEF Commit, At, InTransaction, RolesInv, CreatedInv
<1>2. /\ owner' = [s \in Subjects |-> IF s \in t.inserted THEN t.by ELSE owner[s]]
      /\ appRoles' = appRoles \cup t.created
      /\ asserted' = [s \in Subjects |->
                        IF \E i \in DOMAIN t.identities : t.identities[i].subject = s
                        THEN AssertedBy(t, s) ELSE asserted[s]]
  BY Zenon DEF Commit, CommitWrites
<1>3. \A v \in Actors : task'[v] = IF v = w THEN Idle ELSE task[v]
  BY DEF Commit, Goto
<1>4. t.by \in Owners
  BY <1>1 DEF TransactionOK, Identified, Owners
<1>5. \A k \in DOMAIN t.identities : ToSet(RolesAt(t, k)) \subseteq RoleCodes
  <2>1. \A k \in DOMAIN t.identities : RolesAt(t, k) \in Seq(RoleCodes)
    BY <1>1, KnownIdentities DEF TransactionOK
  <2> QED BY <2>1 DEF ToSet
<1>6. t.created \subseteq RoleCodes
  BY <1>1, <1>5 DEF CreatesAsserted, Written
<1>7. \A s : AssertedBy(t, s) \subseteq RoleCodes
  BY <1>5 DEF AssertedBy, RolesAt
<1>8. TablesTyped'
  <2>1. owner' \in [Subjects -> Owners]
    BY <1>2, <1>4 DEF TypesInv, TablesTyped
  <2>2. asserted' \in [Subjects -> (SUBSET RoleCodes) \cup {Never}]
    BY <1>2, <1>7 DEF TypesInv, TablesTyped
  <2>3. appRoles' \subseteq RoleCodes
    BY <1>2, <1>6 DEF TypesInv, TablesTyped
  <2> QED BY <2>1, <2>2, <2>3 DEF TablesTyped
<1>9. \A v \in Actors : IF InTransaction(v)' THEN task'[v].removed \cap task'[v].added = {}
                                             ELSE IsRequest(v, task'[v])
  BY <1>3, InTransactionSteps DEF TypesInv, IsRequest, Idle, StatementSteps
<1> QED BY <1>8, <1>9 DEF TypesInv, IsRequest

LEMMA TypesStep ==
  ASSUME TypesInv, RolesInv, LocksInv, ClientInv, CreatedInv, [HandoverNext]_handoverVars
  PROVE  TypesInv'
<1>1. DOMAIN task = Actors /\ Idle.step \notin StatementSteps
  BY DEF LocksInv, Idle, StatementSteps
<1>2. CASE RunSeed
  <2>1. Begin("demo", DemoIdentities).removed \cap Begin("demo", DemoIdentities).added = {}
    BY DEF Begin
  <2> QED BY <1>1, <1>2, <2>1, BeginShape, NextTyped DEF RunSeed, IsTransaction, Actors
<1>3. ASSUME NEW w \in Actors, Arrive(w) \/ LookUpClient(w) \/ WaitForLock(w) \/ GetClient(w)
      PROVE  TypesInv'
  <2>1. w \in Workers /\ ProcessOf[w] \in Processes
    BY <1>3, JwksAssumption DEF Arrive, LookUpClient, WaitForLock, GetClient, At, ClientInv
  <2>2. Cached(w) => client[ProcessOf[w]] \in Workers
    BY <2>1 DEF Cached, ClientInv, JwksTypeOK
  <2>3. \E u : Goto(w, u) /\ IsRequest(w, u) /\ u.step \notin StatementSteps
    <3>1. CASE Arrive(w) \/ WaitForLock(w)
      BY <2>1, <3>1 DEF Arrive, WaitForLock, IsRequest, StatementSteps
    <3>2. CASE LookUpClient(w)
      BY <2>1, <2>2, <3>2 DEF LookUpClient, IsRequest, StatementSteps
    <3>3. CASE GetClient(w)
      <4>1. client'[ProcessOf[w]] \in Workers
        BY <2>1, <2>2, <3>3 DEF GetClient, FillCache, ClientInv, JwksTypeOK
      <4> QED BY <2>1, <3>3, <4>1 DEF GetClient, IsRequest, StatementSteps
    <3> QED BY <1>3, <3>1, <3>2, <3>3
  <2>4. UNCHANGED <<accountVars, asserted>>
    BY <1>3 DEF Arrive, LookUpClient, WaitForLock, GetClient
  <2> QED BY <1>1, <2>3, <2>4, NextTyped
<1>4. ASSUME NEW w \in Actors, NEW id \in Identities, VerifyToken(w, id)
      PROVE  TypesInv'
  <2>1. Begin("portal", <<id>>).removed \cap Begin("portal", <<id>>).added = {}
    BY DEF Begin
  <2> QED BY <1>1, <1>4, <2>1, BeginShape, NextTyped DEF VerifyToken, IsTransaction
<1>5. ASSUME NEW w \in Actors,
             \/ SelectAccount(w) \/ GetNextRole(w) \/ CreateNextRole(w) \/ SetAccountRoles(w)
             \/ UpdateAccount(w) \/ InsertAccount(w)
      PROVE  TypesInv'
  <2>1. TransactionOK(w, task[w]) /\ task[w].removed \cap task[w].added = {}
    BY <1>5
    DEF SelectAccount, GetNextRole, CreateNextRole, SetAccountRoles, UpdateAccount, InsertAccount,
        Execute, At, InTransaction, RolesInv, TypesInv
  <2>2. \E u : Goto(w, u) /\ u.removed \cap u.added = {} /\ u.step \in StatementSteps
    BY <1>5, <2>1, SetRolesDisjoint, StatementsDisjoint, StatementsStay
    DEF SelectAccount, GetNextRole, CreateNextRole, SetAccountRoles, UpdateAccount, InsertAccount,
        Execute, At
  <2>3. UNCHANGED <<accountVars, asserted>>
    BY <1>5
    DEF SelectAccount, GetNextRole, CreateNextRole, SetAccountRoles, UpdateAccount, InsertAccount, Execute
  <2> QED BY <1>1, <2>2, <2>3, NextTyped
<1>6. ASSUME NEW w \in Actors, InsertRefused(w) \/ BreakDeadlock(w) \/ Fail(w)
      PROVE  TypesInv'
  <2>1. Goto(w, Idle) /\ UNCHANGED <<accountVars, asserted>> /\ IsRequest(w, Idle)
    BY <1>6 DEF InsertRefused, Execute, BreakDeadlock, Fail, IsRequest
  <2> QED BY <1>1, <2>1, NextTyped
<1>7. ASSUME UNCHANGED <<accountVars, asserted>>,
             \A w \in Actors : task'[w] = Idle \/ task'[w] = task[w]
      PROVE  TypesInv'
  <2>1. \A w \in Actors : IF InTransaction(w)' THEN task'[w].removed \cap task'[w].added = {}
                                               ELSE IsRequest(w, task'[w])
    BY <1>1, <1>7, InTransactionSteps DEF TypesInv, IsRequest
  <2> QED BY <1>7, <2>1 DEF TypesInv, TablesTyped, IsRequest, accountVars
<1>8. ASSUME NEW p \in Processes, Restart(p)
      PROVE  TypesInv'
  BY <1>7, <1>8 DEF Restart
<1>9. CASE UNCHANGED handoverVars
  BY <1>7, <1>9 DEF handoverVars
<1> QED
  BY <1>1, <1>2, <1>3, <1>4, <1>5, <1>6, <1>8, <1>9, CommitTyped
  DEF HandoverNext, Proceed, ProceedUnlocked

\* The types of a handover hold for any number of threads, portal users and
\* roles: a transaction only holds locks on accounts and new roles of the
\* identities it has come to, and never deletes a role that it also inserts.
THEOREM HandoverTypeCorrect == HandoverSpec => []HandoverTypeOK
<1> DEFINE Inv == TypesInv /\ RolesInv /\ LocksInv /\ ClientInv /\ RolesAsAsserted /\ CreatedInv
<1>1. HandoverInit => TypesInv /\ CreatedInv
  BY DEF HandoverInit, AccountsInit, TypesInv, TablesTyped, IsRequest, CreatedInv, InTransaction,
         Idle, Owners
<1>2. HandoverInit => Inv
  BY <1>1, RolesInitially
<1>3. Inv /\ [HandoverNext]_handoverVars => Inv'
  BY LocksStep, ClientStep, RolesStep, CreatedStep, TypesStep
<1>4. Inv => HandoverTypeOK
  BY TypesHold
<1> QED BY <1>2, <1>3, <1>4, PTL DEF HandoverSpec
=============================================================================
