# IT asset desk: models, checks and proofs

The repository is a Django application (`src/sys/app`) with which a company
lends its IT equipment. Employees apply for an asset, administrators approve,
take assets back, deal with breakdowns, losses and retirements, and take
inventory. This directory holds TLA+ modules translated from that code, the TLC
configurations that check them on small instances, and theorems about them that
TLAPS proves for instances of every size.

To run something: `tlc -config X.cfg M` with the pairs listed under *Runs*, and
`tlapm M_proofs.tla` for the eight proof modules.

## 1. The system

### Components, their state and their operations

| component | state (tables) | operations | modelled in |
|---|---|---|---|
| asset ledger (`assets/`) | `Asset.status`: in_stock, on_loan, in_repair, lost, retired | reads only; `is_available_for_loan` | `AssetLedger` |
| audit log (`auditlogs/`) | append-only `AuditLog` rows | `log_action` | `AuditLog` |
| loans (`loans/`) | `LoanRequest.status`, `LoanRecord` (one per request), `return_requested_at`, `ReturnRecord` (one per loan) | create, approve, reject, request return, confirm return | `Loans` |
| incidents (`incidents/`) | `IncidentReport.status`: open, resolved | report (breakdown, lost, retired), resolve | `Incidents` |
| inventory (`inventory/`) | `InventorySession.status`, `closed_by`; one `InventoryResult` per session and asset | open, record, close; the discrepancy list is a query | `Inventory` |
| account sessions (`accounts/`) | `Account`, `AccountSession` (one per session key), the Django session store, the browser's cookie | handover, demo switch, logout; sessions expire and cookies are lost | `AccountSessions` |
| accounts and roles (`accounts/`) | `Account`, `User`, `AppRole`, the role set of an account | `upsert_account`, `sync_account_roles`, `ensure_user` of the seed command | `Accounts`, `Handover` |
| JWKS client cache (`accounts/services.py`) | one client per process and URL, and a lock | `_get_jwks_client` | `JwksCache`, `Handover` |
| portal identity (`accounts/services.py`) | none of its own; cookies and headers of the request; the roles it leaves with an account | `resolve_portal_identity`, `normalize_role_code`, `sanitize_return_to`; the demo switch | `PortalIdentity`, `SignIn` |
| permissions and routing (mixins of the views) | none of its own; session and roles of the user | login check, role check, redirect | `SignIn` |
| demo seed (`load_demo_seed`) | writes the tables of all of the above in one transaction | `handle` | `DemoSeed`; its users in `Handover`, their roles in `SignIn` |

### How they interact

* Every service function runs in a transaction of its own
  (`@transaction.atomic`) and ends with a call of `log_action` in that
  transaction. Opening an inventory session is the one exception: it is not
  logged.
* **`Asset.status` is the meeting point.** Loans and incidents never call each
  other. Both decide on the status of the asset and both overwrite it with a
  blind UPDATE. A confirmed return puts the asset in stock only if the status it
  read is `on_loan`; a resolved breakdown puts it in stock whatever its status.
* Views load their row before the service starts, outside of the transaction,
  and no query takes a lock. The guards of the services look at these loaded
  objects, or at rows that the service reads without a lock, and the writes
  follow. Between the two, another request may commit.
* The inventory reads the asset table (its discrepancy list shows assets that
  were missing and are in stock *now*) and writes none of it.
* The account views run statement by statement with no transaction around them;
  each statement commits. Only `establish_account_session` is atomic.
* The seed command calls the loan, incident and inventory services, but
  overwrites asset statuses on its own first.
* A page that needs a login redirects to `handover_view`, which redirects to the
  portal if it finds no identity; the portal redirects back to the page. Nobody
  remembers how often: the address to come back to travels in `returnTo`.
* The threads of a server process share the JWKS client cache; the processes and
  the seed command share the account and role tables, which both write.

### What is hard

1. *Order of calls.* Loans and incidents write the same column for different
   reasons; after a legal sequence of calls the column and the rows behind it
   must still tell the same story.
2. *Overlap.* Guards on rows read earlier: two approvals, approve and reject,
   a return and an incident, two inventory managers, two submits of a form.
3. *Failure half way.* A transaction must leave all of its writes, the audit
   entry included, or none. The account views have no transaction at all.
4. *One row, two lives.* A session key may be kept, replaced or deleted by
   `login`, and its `AccountSession` row may be the one ended and the one
   reopened in the same request.
5. *Idempotence.* The seed command is run again on a desk in use, and finds its
   inventory session by a name that any manager may use.
6. *Locks.* A thread lock around the client cache, and the row locks that the
   statements of a handover take one after the other, in an order that the
   identity decides. Something must make every waiting handover go on.
7. *Redirects.* Three parties send the browser to each other. What the user
   asked for must survive the way, whatever expires on it, and the way must end.

`PROJECT.json` lists each hazard at its line with the properties about it.

### What makes each component correct

* Loans: status and loan history agree; an asset passes from one holder to the
  next only through being taken back; an application goes through its stages in
  order; one active application per user and asset; the three tables agree.
* Incidents: a status that takes an asset out of circulation has an open report
  behind it; only incidents end such a status.
* Audit log: exactly one entry per effect, in every component.
* Inventory: a closed session is final and was closed by one manager.
* Account sessions: a session key never changes its account; a session with a
  user has its open row; an open row is a session that a browser holds, or one
  that has expired or whose cookie was lost.
* Demo seed: it restores the demonstration, as far as it looks; twice is once; it
  breaks no rule.
* Accounts and roles: one account per subject, which keeps its user; the roles
  of an account are those of one identity, the last; deadlocks are confined to
  the creation of roles; every handover ends.
* JWKS client cache: one client per process, and the lock is given back.
* Identity, permissions and routing: a user gets the page that was asked for, or
  the reason why not; a user may manage exactly if the roles last written for the
  account say so, whoever wrote them.

## 2. The modules

```
AssetLedger <- AuditLog <- Loans ------+-> AssetDesk <- DeskServer
                        <- Incidents --+      |
                        <- Inventory <- InventoryServer
                                 \------------+-> DemoSeed
JwksCache, Accounts <- Handover
PortalIdentity <- SignIn
AccountSessions: on its own
AssetCustody, LoanLifecycle: abstract specifications, instantiated by Loans
and AssetDesk
```

(An arrow points from a module to one that extends it.)

* **AssetLedger, AuditLog** -- the shared tables. The log is abstracted to the
  number of entries per action and asset code: entries are never changed, and no
  property tells two entries of a kind apart.
* **Loans, Incidents, Inventory** -- one action per service function. Each is
  split into a guard and its writes (`ApproveLoanRequest` = guard +
  `ApproveWrites`), because the served models reuse the writes under guards that
  were evaluated earlier. Rows are identified by the columns that never change
  plus a `slot` that stands for the primary key; `"absent"` is a row not yet
  inserted. An INSERT of a one-to-one row that exists is not possible (the
  database refuses it and the transaction rolls back).
* **AssetDesk** -- loans and incidents together, one call at a time.
* **DeskServer, InventoryServer** -- the same operations as served by several
  workers. A `task` holds what the worker has read. Each view is a load, the
  service's own reads, and a commit; `Abort` is a rollback at any point.
* **JwksCache** -- the dictionary of clients and its lock: look, wait for the lock,
  look again and fill. A client is named after the thread that built it.
* **Accounts** -- the account, role and account-role tables, and the statements of
  a transaction on them as functions from one state of the transaction to the
  next: SELECT of the account, UPDATE or INSERT, `get_or_create` of each role,
  `roles.set`, COMMIT. An account and its user are one row. `Needed` and `Held`
  say which locks a statement takes and a transaction has.
* **Handover** -- threads that serve `handover_view` and the seed command's
  `ensure_user`, as actors that execute those statements when nobody holds the
  lock they need. PostgreSQL's deadlock detector, refused INSERTs, failing
  statements and restarts of a process are actions. `asserted` is a history
  variable that no action reads.
* **PortalIdentity** -- `normalize_role_code` on role texts, the choice of the
  token among the cookies, the role codes of an identity, `sanitize_return_to`;
  and a reference definition of role codes that does not follow the code.
* **SignIn** -- one browser. `at` is the request it makes next or what it shows.
  `ServePage` is the chain of checks in front of the views, with a page for each
  kind of check; `ServeHandover` is `handover_view`; `ServePortal` is the portal's
  login page (external); `DemoSwitch` is `demo_switch_view`. In between, a token,
  the session or the portal login may end (`Lapse`), the portal's record of the
  user, its keys and the user itself may change. Each subject may have an
  account, whose roles three parties write: `ServeHandover`, `Seed` (`ensure_user`
  of the seed command, which fails if a handover has made an account of a demo
  subject, and ends the demo users' sessions) and `EditRoles` (an administrator in
  the Django admin). `asked` and `granted` are history variables that no action
  reads.
* **AccountSessions** -- the three views as programs of steps over the session
  store. `Login`, `Flush` and `Respond` model Django's `login`, `logout` and
  session middleware, from how the views use them; they are marked external.
  `Expire` and `LoseCookie` are what happens to sessions without a request: from
  then on the session's key is in `lapsed`, and no request is told it any more.
* **DemoSeed** -- the command as one action, its guard being that none of the
  services it calls refuses, among calls of the desk and the inventory.
  `demoSession` is the session that the command's query finds: the one opened last
  under the demo's name, by the command or by a manager. Any manager may record in
  it and close it like every other. `seeded` is a history variable that no action
  reads.
* **AssetCustody** -- an asset has one holder or none. **LoanLifecycle** -- the
  stages of an application. Loans implements the first and AssetDesk the second,
  by the refinement mappings `HolderOf` and `StageOf`.
* **MC...** -- symmetry sets and the demo's incident list, for TLC.
* **..._proofs** -- theorems, see section 4.

Definitions whose comment starts with *Mutated form* are used by no
specification: each is a plausible mistake in the code, and replacing the
definition it varies makes a named property fail (`mutants` in `PROJECT.json`).

### Abstractions, and why they are sound

* *The writes of a transaction appear at once, at its commit.* The database is
  PostgreSQL at its default level, READ COMMITTED (`settings.py` sets none):
  uncommitted writes are invisible to others. Until the commit they hold row
  locks, which can delay another transaction or, in a deadlock, abort one; the
  models contain both (a worker may take its time, and `Abort`). An UPDATE sets
  constants and does not look at the row it overwrites. An INSERT of a one-to-one
  row waits for another one of the same key and fails if that commits, which is
  the guard `r \notin loanRecords` (`r \notin returnRecords`) at the commit.
  No service reads what it has written: `confirm_return` inserts the return
  record before it loads the asset, but the two are rows of different tables, so
  `ReadAsset` before the commit sees the same status.
* *A task keeps only reads that passed their guard*; a failed guard is an error
  page and no state change. `ReadAsset` keeps the status it read because
  `confirm_return` branches on it.
* Reads that decide nothing (for messages and log texts) are left out.
* Dates, notes, names, descriptions and client data are left out: no guard reads
  them. The models of the desk and the inventory start with a request that was
  let through the role checks, which are in SignIn.
* *A session is one value in SignIn*, its rows are in AccountSessions; *a handover
  is one step in both*, its statements are in Handover. What AccountSessions and
  SignIn use of a handover is that it either commits as a whole or fails, and
  that it leaves the account with the roles it asserted: `RolesAsAsserted`.
* *Role texts are sequences over two letters, a capital, a blank and a hyphen.*
  `normalize_role_code` tells characters apart only by: letter or digit, or not;
  capital; white space. One letter stands for a word of `asset-admin` or
  `sysadmin`.
* *A token is what it asserts, or expired.* Key fetching and signature checks
  are one yes or no; an expired token and any other text that is no token
  behave alike, since `jwt.decode` raises for both.
* *PostgreSQL's locks.* An UPDATE or INSERT of a row with a unique key waits while
  another transaction has written that key. SELECTs and the deletions of
  `roles.set` never wait: the account row that precedes them is locked.
* `cancelled` is a declared choice of `LoanRequest.status` that no code assigns.

## 3. Runs

| run | module, cfg | what it shows |
|---|---|---|
| `desk` | MCAssetDesk, MCAssetDesk.cfg | Loans and incidents over one asset, one call at a time. |
| `server` | MCDeskServer, MCDeskServer.cfg | Two workers overlap and fail. |
| `server_one_worker` | MCDeskServer, ServerOneWorker.cfg | One worker, two assets, no incidents: DeskServer implements AssetDesk, so what `desk` shows holds for a single-worker deployment; the asset status follows the loan history and custody is kept. |
| `inventory_server` | InventoryServer, InventoryServer.cfg | Two workers: what is left of the inventory's promises when requests overlap. |
| `sessions` | MCAccountSessions, MCAccountSessions.cfg | Signing in, switching, signing out, overlapping and failing, while a session expires or a cookie is lost. |
| `demo_seed` | MCDemoSeed, MCDemoSeed.cfg | The seed command among up to four calls of all services, the inventory's one call at a time included. |
| `handover` | MCHandover, MCHandover.cfg | Two threads of one process and the seed command write the same accounts and roles. Safety and liveness. |
| `sign_in` | MCSignIn, MCSignIn.cfg | One browser and two accounts between pages, handover, demo switch and portal, in both modes, with and without a portal login page, while the seed command and an administrator write roles. Safety and liveness. |
| `lost_back_in_stock` | AssetDesk, DeskLostBack.cfg | *finding*: a lost or retired asset returns to stock. |
| `race_two_loans` | DeskServer, RaceTwoLoans.cfg | *finding*: two overlapping approvals lend one asset twice. |
| `race_decision` | DeskServer, RaceDecision.cfg | *finding*: approve and reject overlap; a rejected request has a loan. |
| `seed_rerun` | MCDemoSeed, SeedRerun.cfg | *finding*: the seed command fails after the demo loan was returned. |

`CHECK_DEADLOCK FALSE` is set in the models of the desk, the inventory, the
sessions and the seed, which really may stop: once the slots, keys or calls the
bounds allow are used, or the only asset is retired, nothing is left to do. Each
cfg says so. Handover and SignIn never stop, and are checked for it.

### Fairness

The desk, the inventory, the sessions and the seed command state none: their
operations are calls of people, and nothing in the code promises that a loan is
ever returned or an incident resolved.

* `HandoverFairness`: a thread that can go on does (weak fairness of `Proceed` per
  thread: the steps that do not wait for another transaction, once enabled, stay
  so until taken). A statement that waits for a lock is enabled on and off
  while other transactions come and go; strong fairness of `ProceedUnlocked`
  says that PostgreSQL hands a lock to those who wait for it in turn. Weak
  fairness of `BreakDeadlock` says that its detector finds every wait cycle. The
  thread lock needs no strong fairness: its holder does no I/O, and once it has
  filled the cache nobody asks for the lock again until a restart, which
  takes every waiting thread of the process with it. Arrivals, failures and
  restarts are not fair.
* `SignInSpec`: the browser follows every redirect and the server answers every
  request. It is written as weak fairness of a step that leads from a request
  to its answer (`~Shown /\ at' = Answer`), a short formula for TLC; those steps
  are exactly the ones of `Follow`, since nothing else answers a request
  (`OnlyAnswersMove` in SignIn_proofs). Users, lapses, changes at the portal, the
  seed command and administrators are not fair. A token, a session or a login ends
  at most `MaxLapses` times: if they ended for ever, each before its first
  use, the redirects could go on as well. `EveryRequestAnswered` holds under the premise that from
  some time on the handover can work; without it the redirects do go on for
  ever, as `doc/dev-plan/03-deploy/auth-production-blocker.md:22-31` describes for an
  earlier version of the code.

### The properties

* `StatusTracksLoans`, `AtMostOneActiveLoan`, `CustodyKept` (Loans): hold only
  while no incident touches the asset and calls do not overlap, which is why
  AssetDesk and DeskServer state weaker ones:
* `StatusExplained`: a status that keeps an asset out of stock always has the row
  whose handler can move it on. It holds one call at a time, under overlap, and
  with the seed command, although the status is overwritten blindly.
* `LoansBoundedByRepairs`: resolving a breakdown of an asset that is still lent
  makes a second loan possible. This invariant says exactly how far it can go:
  one extra loan per resolved breakdown.
* `IncidentStatusKept`: only incident calls take an asset out of in_repair, lost
  or retired (`src/README.md:77`).
* `RecordsMatchRequests`, `OneActiveRequest`, `LifecycleFollowed`: tables agree,
  the duplicate check works, decisions are taken once.
* `LoanAuditComplete`, `IncidentAuditComplete`, `InventoryAuditComplete`: the log
  matches the rows; `EveryChangeLogged`, `InventoryAccounted` are what is left of
  them under overlap (an operation may happen twice, never unlogged).
* `ReturnNeverOverlooked`: a confirmation that read the status before the asset
  was lent leaves the status alone. Still, an asset on loan always has some loan
  out that no confirmation under way has misread, so it can get back.
* `ApprovedHasRecord`: what `RecordsMatchRequests` becomes under overlap.
* `ClosedSessionsFinal`: true one call at a time, false with two workers.
  `SettledSessionsFinal` says what two workers leave: a closed session may only
  be changed by a request that loaded it while it was open; once no such request
  is under way it is final.
* `SignInsTracked`, `OpenRowsHeld`, `KeyKeepsAccount`: see section 1. The first is
  stated for runs without a failed request, the second also without overlap
  (history variable `overlapped`, which no action reads); the third always holds.
  A session that expires, or whose cookie is lost, leaves its row open for good:
  its key is None at `accounts/views.py:84`, and `end_account_session(None)` does
  nothing. `OpenRowsHeld` says that no other row is left behind.
* `SeedRestoresDemo`: what a command that succeeds restores, and what it does not.
  It always restores the desk. It leaves a session of the demo's name that a
  manager has closed as it is, discrepancy or not. And it takes no application
  for LAPTOP-001 back, with which the script begins
  (`doc/spec/demo-procedure.md:26-31`): once an application of the demo employee
  for it was approved, even if the asset came back, the services refuse the next
  one (`loans/services.py:28-32`) after the next run of the command as well. The
  property says that nothing else stands in the way.
* `SeedTwiceIsOnce`: on a desk and an inventory that are ready the command changes
  nothing.
* `OneClient`: the threads that verify tokens use the client that their process
  has cached. It needs both looks at the dictionary, the one under the lock too.
* `RolesAsAsserted`: the role set of an account is that of the last transaction
  that wrote it. `roles.set` reads and writes without looking again, so this hangs
  on the lock of the UPDATE before it.
* `AccountKeepsUser`: a handover looks for the subject, the seed command for the
  username. Whoever is second does not take the account over, but fails.
* `DeadlocksNeedNewRoles`: wait cycles exist only among transactions that insert a
  role; two users who sign in with known roles never deadlock, and neither does
  the order of the demo users.
* `EveryHandoverEnds`: every thread and the seed command come back to idle.
* `AnswerFitsRequest`: the redirects never lose or replace what was asked for.
* `ManagersAsAsserted`: an account's manager rights are exactly those of the roles
  last written for it: those its last handover asserted, by the reference
  spelling of the role texts, or what the seed command or an administrator has
  set since. The demo switch changes none. Taking a role away at the portal has
  its effect at the account's next handover.
* `EveryRequestAnswered`: see *Fairness*. It would fail if a stale cookie hid a
  valid one.
* `RoleCodesMeetReference`: `normalize_role_code` agrees with the reference
  definition on all texts of up to five characters, with a limit of four instead
  of fifty, so that the cut falls inside words, on hyphens and at the end, and is
  proved for texts and limits of any length. A code can end with a hyphen after
  the cut: the reference says so too.

### Bounds

| constant | bounds | enough because |
|---|---|---|
| `Assets` | 1 in `desk` and `server`, 2 in `server_one_worker` and the inventory, 4 in `demo_seed` | no service touches more than one asset; two show that none leaks to another; the seed has one asset per role |
| `Users` | 2 | the duplicate check and custody relate two users; somebody else has an asset of the demonstration |
| `Slots` | 2 (1 in `server`) | a second application of a user after the first was refused; the overlap of two applications needs two users, not two slots |
| `IncidentSlots` | 2 (1 in `server`) | a second report after the first was resolved |
| `Workers` | 2 | each known anomaly needs one operation between the read and the write of another |
| `MaxRecordings` | 2 per asset (1 in `demo_seed`) | an overwritten result |
| `Keys` | 3 | a session replaced while another one is held |
| `MaxCrashes` | 1 | a failure and the recovery from it |
| `MaxLapsed` | 1 | one lapsed session next to those that are held; a session that is answered to comes back |
| `Sessions`, `Managers` in `demo_seed` | 2 and 2 | two sessions of the demo's name; somebody else than the command closes one |
| `MaxCalls` | 4 (3 in `seed_rerun`) | seed, ask for the return, return, seed again; open a session of the demo's name, count, close, seed; the proofs need no bound |
| `Workers`, `Processes` in `handover` | 2 threads of 1 process, and the seed command | processes share no cache; the third transaction of a wait cycle is the seed command |
| `Identities` | one subject with two roles and with none, the other with the two roles in the other order | roles taken away, roles created in opposite orders, demo users met by both sides |
| `MaxLapses` | 2 | two of token, session and portal login end on one way |
| `Claims` | the demo employee as a manager by the list of roles and without e-mail, the demo administrator as no manager | the three outcomes of a handover; a subject whose roles are not those the seed command gives it |
| `EditedRoles` | one set, of the other manager's code | a right that neither the handover nor the seed command gave |
| `MaxCode`, `MaxText` | 4 and 5 | texts longer than the cut, with words and hyphens on either side of it; the cut must leave room for more than a manager's code, as 50 does for `asset-admin` |

Symmetry is used over users, slots, workers and keys where the cfg names none of
their members; all properties treat them alike.

## 4. What is proved

Eight modules hold proofs checked by TLAPS, for values of any size: finite sets of
assets, users, slots, workers, keys and sessions, any identities, hosts and
claims, texts of any length. Every property of a passing run that is not a
liveness property is the subject of a theorem.

The assumptions are those of the modules, each named and evaluated by TLC:
`AssetsAssumption`, `LoansAssumption`, `IncidentsAssumption`, `WorkersAssumption`
and `InventoryAssumption` say that sets are finite and that the name standing for
null is no user; `AuditAssumption`, `JwksAssumption`, `SessionsAssumption` and
`SignInAssumption` keep stand-ins and real values apart in the same way. Four
speak of the code's data: `DemoAssumption` (the demo's assets are distinct where
the command's lists are), `HandoverAssumption` (so are its two users),
`PortalAssumption` (allowed hosts are hosts, the cut is positive) and
`ManageCodesAssumption` (below).

* **AssetDesk_proofs**: `DeskTypeCorrect`, `RecordsAlwaysMatch`,
  `OneActiveRequestAlways`, `StatusAlwaysExplained`,
  `IncidentStatusAlwaysKept`, and `DeskFollowsLifecycle`, the refinement of
  LoanLifecycle. `RecordsMatchRequests` is the workhorse: it is inductive with
  the types, and it is what makes a pending request have no record, so that
  each step moves `StageOf` by one stage. `StatusExplained` is proved from the
  types and from `RecordsMatchRequests` (a loan that is recorded now was not
  returned before): every action that takes an asset out of stock writes the row
  that explains it, and the two that take such a row away (a confirmed return and
  a resolved breakdown) change the status with it.
* **AssetDeskCounts_proofs**: `LoansAlwaysBounded`, `LoanAuditAlwaysComplete`,
  `IncidentAuditAlwaysComplete`. These count rows. Lemmas about
  cardinalities of a finite set that gains or keeps a member come first
  (`FiniteSetTheorems` supplies the base facts); each action is shown to change
  exactly one count and one log entry by one.

  `StatusAlwaysTracksLoans`, `AlwaysAtMostOneLoan`, `LoansKeepCustody`, under the
  assumption that no incident is reported (`IncidentSlots = {}`), for any number
  of assets, users and applications. An asset has at most one loan out, and is on
  loan exactly then; from that, `HolderOf` maps each step to a step of
  AssetCustody or none.
* **DeskServer_proofs**: `ServerTypeCorrect`, `ApprovedAlwaysHasRecord`,
  `ReturnsNeverOverlooked`, `ServerStatusExplained`. `StatusExplained` is not
  inductive under overlap: a confirmation that has misread the status could
  return the last loan of an asset on loan and leave it on loan. The invariant
  proved instead has four parts: the types, `ApprovedHasRecord`,
  `TasksHaveRecords` (a return under way is of a loan that was recorded) and
  `ReturnNeverOverlooked`; a second, independent one, `ReportsExplain`, is the
  incident half of `StatusExplained`. Together they imply it.

  `EveryChangeAlwaysLogged`. The invariant (`ServerTallies`, `TasksHaveRows`)
  distinguishes the two kinds of writes. An INSERT guards itself: the row is new
  and its entry with it, so the counts are equal. An UPDATE may be made twice, by
  two workers that loaded the row before either wrote it, so there are at least as
  many entries as rows. A decision is made on a request that was filed, and a
  repair on a report: otherwise the first write would also be an unlogged INSERT.

  `OneWorkerServesSerially`, under the assumption that there is at most one
  worker: the refinement of AssetDesk. The invariant is that the guards a task
  has passed still hold: nobody else is there to change the rows in between.
* **InventoryServer_proofs**: `InventoryTypeCorrect`, `SettledStaysSettled`,
  `InventoryAlwaysAccounted` for any number of workers, and
  `OneWorkerCountsSerially` for one: the refinement of Inventory. From it follows
  `OneWorkerClosesForGood`: with one worker, `ClosedSessionsFinal` holds as it
  stands.
* **Handover_proofs**: `AccountsKeepUsers` (the invariant: two open transactions
  never hold the same account, and an account inserted by one has no owner yet)
  and `ThreadsShareClient` (a thread that is past the lock has a client that only a
  restart of its own process takes away), for any threads, processes, subjects,
  roles and identities.

  `RolesAlwaysAsAsserted` and `DeadlocksOnlyOverRoles`. A transaction has locked
  every account it wrote, so the roles that `roles.set` read are still the
  account's when it commits; that makes "the roles of an account are those of
  its last writer" inductive. In a wait cycle everybody holds a lock. A handover
  holds none before it has written its account, after which it only waits to
  create roles; the seed command holds the lock of its first account while it
  asks for the second, so the proof needs the assumption that the two demo users
  are different subjects (`HandoverAssumption`).

  `HandoverTypeCorrect`. The
  interesting part of these types is what the tasks may hold: a transaction has
  locked accounts and new roles only of the identities it has come to, and
  deletes no role that it inserts. The latter is not a matter of form: it needs
  that `roles.set` splits one set of roles (`TypesInv`), and the former the
  invariants of the two theorems before.
* **AccountSessions_proofs**: `KeysKeepAccounts`, `SessionsTypeCorrect`,
  `SignInsAlwaysTracked`, `OpenRowsAlwaysHeld`, for any workers, browsers, keys,
  subjects and number of failures. A session key has three lives, in the store, in
  its row and in the requests that work on it; `KeysInv` says that they agree on
  the account, and that a key that has no row yet is known to one request only.
  Types and `KeysInv` are inductive only together: that `login` keeps a key is a
  comparison of the account in the store with the one in the request. Then
  `TrackedInv`: the only time a session in the store has a closed row is while a
  request is between closing it and opening it again or deleting the session.
  `HeldInv`, without failure and overlap, lists what the one request under way
  knows: its session is there, the browser's cookie is the one it sent or of a
  session that has lapsed or was deleted since, and the one row that no browser
  holds and that has not lapsed is the one it is about to answer with or to close.
* **SignIn_proofs**: `AnswersFitRequests`, for any hosts, claims and number of
  lapses. The invariant says what each request and answer on the way to a target
  looks like and that a portal is only visited if there is one.

  `RoleCodesAsSpelled`, hence `RoleCodesAlwaysMeetReference`: the code's four
  passes over a text (strip, lower, hyphenate runs, strip hyphens) yield the
  reference's spelling, cut, for texts of any length. The reference has no
  passes: it says where each letter goes, one place behind the letter before it
  and one more if a new word begins. The lemmas follow the places of the letters
  through the passes; that the places counted there are consecutive is shown by
  looking at the least one that is not, since induction over data is not to be had.

  `ManagersAlwaysAsAsserted`: the role rows of an account are the cut spellings of
  the roles last written for it (`RolesAsGranted`; `HandoverGrants`, `SeedGrants`
  and `OneWritten` are its steps), and the managers' codes are told apart from
  all others after the cut. The latter needs `ManageCodesAssumption`: were a
  manager's code as long as the cut, a longer role name would be cut to
  it and make its holder a manager. The limit of 50 characters rules that out;
  a larger `MaxCode` keeps it so.

  `SignInTypeCorrect`, and `OnlyAnswersMove`, on which the fairness of `SignInSpec`
  rests.
* **DemoSeed_proofs**: `SeedAlwaysRestores`, `SeedingTwiceIsOnce`,
  `DemoStatusExplained`, `ClosedAlwaysFinal`, `InventoryAuditAlwaysComplete`, for
  any assets, users, slots, demo incidents and number of calls. The command is the
  composition of many writes; the lemmas give the tables after it as functions of
  those before (`SeedMakesReady`, `SeedMakesInventory`, `SeedKeepsEligible`), and the
  theorems about the desk supply the other steps. `DemoInv` adds the types of
  the inventory to those theorems' invariants; nothing is assumed of the session
  of the demo's name, which managers use as they like. For the audit, the log gains an entry
  for every inventory row that a call or the command adds.

Left to TLC: liveness (`EveryHandoverEnds`, `EveryRequestAnswered`), because
temporal reasoning about fairness and `ENABLED` is beyond the provers used here;
and the four findings, which are counterexamples.

## 5. What is not modelled, and why

* The Django admin: a superuser can set any column past the services. Only the
  roles chosen for an account are in SignIn. The admin's own login form signs in
  without an `AccountSession` row; `SignInsTracked` is about the views.
* Configuration, templates, containers, migrations: no run-time behaviour of the
  system's own. The constraints that migrations create are in the guards; the
  settings that matter are values of `settings` and constants in SignIn.
* `me_view` and `jwt_check_view` report; they change nothing but the client cache,
  which they fill like a handover.
* Passwords of the demo users. Setting them ends the demo users' sessions: so it
  does in SignIn, but AccountSessions does not contain the command. What it leaves
  there is what an expired session leaves, a row that stays open.
* Values of `AUTH_MODE` other than `portal` and `dev-header`; the documents use no
  other. `sanitize_return_to` works on pages and hosts, not on the
  characters of an address.
* Lengths of names and addresses that a token asserts.
* The demonstration's script gives `X-Portal-Subject` as the only header
  (`doc/spec/demo-procedure.md:28`); the code also requires an e-mail address and
  answers 401 without one, or redirects. SignIn contains that answer; no run
  is devoted to it.

## 6. Plan

Done, in this order: shared tables; Loans with AssetCustody; Incidents and
AssetDesk with LoanLifecycle; DeskServer; Inventory and InventoryServer;
AccountSessions; DemoSeed; proofs of the desk and of the served desk; JwksCache,
Accounts and Handover; PortalIdentity and SignIn; proofs of the one-worker
refinements, of custody, of the inventory, of handovers, their roles and their
deadlocks, and of the redirects; proofs of the served desk's audit log, of the
account sessions, of role codes and manager rights, of the seed command, and of
the types of every component.

Next: the loan and incident audit with the seed command among the calls, as proved
for the inventory; what two inventory workers implement, as an abstract
specification; that the steps of a handover together have the effect of the one
step that SignIn and AccountSessions take.
