----------------------------- MODULE DeskServer -----------------------------
(* The asset desk as it is served: several workers handle requests at the   *)
(* same time.  A view loads its row before the service's transaction begins *)
(* and the service reads more rows without locking them (PostgreSQL, READ   *)
(* COMMITTED); the guards are evaluated on those reads.  All writes of a    *)
(* service function appear together when its transaction commits.           *)
(*                                                                          *)
(* A task keeps only reads that passed their guard: a failed guard is an    *)
(* error page, and the task is over without effect.                         *)
EXTENDS AssetDesk

CONSTANT Workers    \* the threads or processes that serve requests

ASSUME WorkersAssumption == IsFiniteSet(Workers)

VARIABLE task       \* what each worker is doing

serverVars == <<deskVars, task>>

Idle == [op |-> "idle"]

\* step names the reads behind the task.  "loaded": the view has loaded its
\* row.  "checked": the service has made its own query as well.
Steps == {"loaded", "checked"}

Tasks ==
  {Idle}
    \cup [op: {"create"}, step: Steps, asset: Assets, requester: Users]
    \cup [op: {"approve"}, step: Steps, request: Requests]
    \cup [op: {"reject"}, step: {"loaded"}, request: Requests]
    \cup [op: {"request_return"}, step: Steps, request: Requests]
    \cup [op: {"confirm"}, step: {"loaded"}, request: Requests]
    \cup [op: {"confirm"}, step: {"checked"}, request: Requests, status: AssetStatuses]
    \cup [op: {"report"}, step: {"loaded"}, asset: Assets, type: IncidentTypes]
    \cup [op: {"resolve"}, step: {"loaded"}, incident: IncidentReports]

ServerTypeOK == DeskTypeOK /\ task \in [Workers -> Tasks]

ServerInit == DeskInit /\ task = [w \in Workers |-> Idle]

Begin(w, t) ==
  /\ task[w] = Idle
  /\ task' = [task EXCEPT ![w] = t]
  /\ UNCHANGED deskVars

\* The worker's task t makes its second read.
Proceed(w, t) ==
  /\ task[w] # Idle
  /\ task' = [task EXCEPT ![w] = t]
  /\ UNCHANGED deskVars

At(w, op, step) == task[w] # Idle /\ task[w].op = op /\ task[w].step = step

Finish(w) == task' = [task EXCEPT ![w] = Idle]

-----------------------------------------------------------------------------
(* LoanRequestCreateView and create_loan_request: the asset is loaded in    *)
(* setup(), its status is checked on that object, then the duplicate query  *)
(* runs, then the row is inserted.                                          *)

LoadForCreate(w, a, u) ==
  /\ IsAvailableForLoan(a)
  /\ Begin(w, [op |-> "create", step |-> "loaded", asset |-> a, requester |-> u])

CheckDuplicate(w) ==
  /\ At(w, "create", "loaded")
  /\ ~HasActiveRequest(task[w].asset, task[w].requester)
  /\ Proceed(w, [task[w] EXCEPT !.step = "checked"])

CommitCreate(w) ==
  /\ At(w, "create", "checked")
  /\ \E r \in Requests :
       /\ r.asset = task[w].asset /\ r.requester = task[w].requester
       /\ CreateWrites(r)
  /\ Finish(w) /\ UNCHANGED incidentStatus

(* LoanApproveView and approve_loan_request: the request is loaded by the   *)
(* view, its asset by the service.                                          *)

LoadForApprove(w, r) ==
  /\ requestStatus[r] = "pending"
  /\ Begin(w, [op |-> "approve", step |-> "loaded", request |-> r])

\* Mutated form: the service relies on the check made when the loan was asked for.
CheckNothing(w) ==
  /\ At(w, "approve", "loaded")
  /\ Proceed(w, [task[w] EXCEPT !.step = "checked"])

\* Mutated form: without a transaction the new request status is saved at once.
CheckAndSave(w) ==
  /\ At(w, "approve", "loaded")
  /\ IsAvailableForLoan(task[w].request.asset)
  /\ task' = [task EXCEPT ![w].step = "checked"]
  /\ requestStatus' = [requestStatus EXCEPT ![task[w].request] = "approved"]
  /\ UNCHANGED <<assetStatus, auditLog, loanRecords, returnRequested, returnRecords,
                 incidentStatus>>

CheckAvailable(w) ==
  /\ At(w, "approve", "loaded")
  /\ IsAvailableForLoan(task[w].request.asset)
  /\ Proceed(w, [task[w] EXCEPT !.step = "checked"])

CommitApprove(w) ==
  /\ At(w, "approve", "checked")
  /\ ApproveWrites(task[w].request)
  /\ Finish(w) /\ UNCHANGED incidentStatus

(* LoanRejectView and reject_loan_request *)

LoadForReject(w, r) ==
  /\ requestStatus[r] = "pending"
  /\ Begin(w, [op |-> "reject", step |-> "loaded", request |-> r])

CommitReject(w) ==
  /\ At(w, "reject", "loaded")
  /\ RejectWrites(task[w].request)
  /\ Finish(w) /\ UNCHANGED incidentStatus

-----------------------------------------------------------------------------
(* ReturnRequestView and request_return: return_requested_at is the loaded  *)
(* value, is_on_loan is a query of its own.                                 *)

LoadForReturn(w, r) ==
  /\ r \in loanRecords /\ r \notin returnRequested
  /\ Begin(w, [op |-> "request_return", step |-> "loaded", request |-> r])

CheckOnLoan(w) ==
  /\ At(w, "request_return", "loaded")
  /\ IsOnLoan(task[w].request)
  /\ Proceed(w, [task[w] EXCEPT !.step = "checked"])

CommitReturnRequest(w) ==
  /\ At(w, "request_return", "checked")
  /\ RequestReturnWrites(task[w].request)
  /\ Finish(w) /\ UNCHANGED incidentStatus

(* ReturnConfirmView and confirm_return: is_on_loan is queried, then the    *)
(* asset is loaded and its status decides what is written.                  *)

LoadForConfirm(w, r) ==
  /\ r \in loanRecords /\ IsOnLoan(r)
  /\ Begin(w, [op |-> "confirm", step |-> "loaded", request |-> r])

ReadAsset(w) ==
  /\ At(w, "confirm", "loaded")
  /\ Proceed(w, [op |-> "confirm", step |-> "checked", request |-> task[w].request,
                 status |-> assetStatus[task[w].request.asset]])

CommitConfirm(w) ==
  /\ At(w, "confirm", "checked")
  /\ ConfirmWrites(task[w].request, task[w].status)
  /\ Finish(w) /\ UNCHANGED incidentStatus

-----------------------------------------------------------------------------
(* IncidentReportCreateView and report_incident: every guard looks at the   *)
(* asset that setup() has loaded.                                           *)

LoadForReport(w, a, type) ==
  /\ ReportAllowed(type, assetStatus[a])
  /\ Begin(w, [op |-> "report", step |-> "loaded", asset |-> a, type |-> type])

CommitReport(w) ==
  /\ At(w, "report", "loaded")
  /\ \E i \in IncidentReports :
       i.asset = task[w].asset /\ i.type = task[w].type /\ ReportWrites(i)
  /\ Finish(w) /\ UNCHANGED loanVars

(* IncidentResolveView and resolve_incident: every guard looks at the       *)
(* report that get_incident has loaded.                                     *)

LoadForResolve(w, i) ==
  /\ ResolveAllowed(i, incidentStatus[i])
  /\ Begin(w, [op |-> "resolve", step |-> "loaded", incident |-> i])

CommitResolve(w) ==
  /\ At(w, "resolve", "loaded")
  /\ ResolveWrites(task[w].incident)
  /\ Finish(w) /\ UNCHANGED loanVars

-----------------------------------------------------------------------------

\* A failed guard, an IntegrityError, a lost database connection or a worker
\* that dies: the transaction rolls back and leaves nothing behind.
Abort(w) == task[w] # Idle /\ Finish(w) /\ UNCHANGED deskVars

Load(w) ==
  \/ \E a \in Assets, u \in Users : LoadForCreate(w, a, u)
  \/ \E r \in Requests :
       \/ LoadForApprove(w, r)
       \/ LoadForReject(w, r)
       \/ LoadForReturn(w, r)
       \/ LoadForConfirm(w, r)
  \/ \E a \in Assets, type \in IncidentTypes : LoadForReport(w, a, type)
  \/ \E i \in IncidentReports : LoadForResolve(w, i)

Read(w) == CheckDuplicate(w) \/ CheckAvailable(w) \/ CheckOnLoan(w) \/ ReadAsset(w)

Commit(w) ==
  \/ CommitCreate(w)
  \/ CommitApprove(w)
  \/ CommitReject(w)
  \/ CommitReturnRequest(w)
  \/ CommitConfirm(w)
  \/ CommitReport(w)
  \/ CommitResolve(w)

ServerNext == \E w \in Workers : Load(w) \/ Read(w) \/ Commit(w) \/ Abort(w)

ServerSpec == ServerInit /\ [][ServerNext]_serverVars

-----------------------------------------------------------------------------
(* Properties.                                                              *)

\* With a single worker nothing comes between a guard and the writes it
\* protects: the server then does exactly what the asset desk does.
ServesSerially == DeskSpec

\* What atomic transactions still give when requests overlap: a request that
\* says approved has its loan record, and a loan is only returned or asked
\* back if it was recorded.
ApprovedHasRecord ==
  /\ \A r \in Requests : requestStatus[r] = "approved" => r \in loanRecords
  /\ returnRequested \subseteq loanRecords
  /\ returnRecords \subseteq loanRecords

\* When requests overlap, an operation may be carried out twice but it is
\* never carried out unlogged: the entries that stand for an INSERT match the
\* rows exactly, the others are at least as many as the rows they explain.
EveryChangeLogged ==
  \A a \in Assets :
    /\ Logged("loan_requested", a) =
         Cardinality({ r \in RequestsOf(a) : requestStatus[r] # "absent" })
    /\ Logged("loan_approved", a) = Cardinality(loanRecords \cap RequestsOf(a))
    /\ Logged("return_confirmed", a) = Cardinality(returnRecords \cap RequestsOf(a))
    /\ Logged("loan_rejected", a) >=
         Cardinality({ r \in RequestsOf(a) : requestStatus[r] = "rejected" })
    /\ Logged("return_requested", a) >= Cardinality(returnRequested \cap RequestsOf(a))
    /\ Logged("incident_reported", a) = Cardinality({ i \in ReportsOf(a) : Filed(i) })
    /\ Logged("incident_resolved", a) >= Cardinality(RepairsOf(a))

\* A return confirmation that has read the asset before it was lent leaves the
\* asset's status alone.  That never strands the asset: an asset on loan always
\* has a loan that is out and that no confirmation under way has misread, so
\* the confirmation of that loan will put the asset back in stock.
Overlooked(r) ==
  \E w \in Workers :
    /\ At(w, "confirm", "checked")
    /\ task[w].request = r
    /\ task[w].status # "on_loan"

ReturnNeverOverlooked ==
  \A a \in Assets :
    assetStatus[a] = "on_loan" => \E r \in ActiveLoans(a) : ~Overlooked(r)
=============================================================================
