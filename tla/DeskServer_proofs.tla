------------------------- MODULE DeskServer_proofs -------------------------
(* What the asset desk still guarantees when any number of workers serve    *)
(* overlapping requests and may fail between any two of their steps.        *)
EXTENDS DeskServer, AssetDeskCounts_proofs

-----------------------------------------------------------------------------
(* Type correctness.                                                        *)

\* Steps that only read leave the database as it is.
LEMMA ReadingSteps ==
  ASSUME NEW w \in Workers, Load(w) \/ Read(w) \/ Abort(w)
  PROVE  UNCHANGED deskVars
BY DEF Load, LoadForCreate, LoadForApprove, LoadForReject, LoadForReturn, LoadForConfirm,
       LoadForReport, LoadForResolve, Begin, Read, CheckDuplicate, CheckAvailable,
       CheckOnLoan, ReadAsset, Proceed, Abort

\* What a task remembers of the row it works on has the right type.
LEMMA TaskRow ==
  ASSUME ServerTypeOK, NEW w \in Workers
  PROVE  /\ At(w, "approve", "loaded") \/ At(w, "approve", "checked") => task[w].request \in Requests
         /\ At(w, "reject", "loaded") => task[w].request \in Requests
         /\ At(w, "request_return", "loaded") \/ At(w, "request_return", "checked")
              => task[w].request \in Requests
         /\ At(w, "confirm", "loaded") \/ At(w, "confirm", "checked") => task[w].request \in Requests
         /\ At(w, "resolve", "loaded") => task[w].incident \in IncidentReports
BY DEF ServerTypeOK, Tasks, At, Steps

\* Loads and reads store what Tasks describes, commits are service writes.
LEMMA ServerTypeStep ==
  ASSUME ServerTypeOK, [ServerNext]_serverVars
  PROVE  ServerTypeOK'
<1> USE DEF ServerTypeOK
<1>1. ASSUME NEW w \in Workers, Load(w)
      PROVE  ServerTypeOK'
  <2>1. DeskTypeOK'
    BY <1>1, ReadingSteps, DeskTypeStutter
  <2>2. \E t \in Tasks : task' = [task EXCEPT ![w] = t]
    BY <1>1
    DEF Load, LoadForCreate, LoadForApprove, LoadForReject, LoadForReturn, LoadForConfirm,
        LoadForReport, LoadForResolve, Begin, Tasks, Steps
  <2> QED BY <2>1, <2>2
<1>2. ASSUME NEW w \in Workers, Read(w)
      PROVE  ServerTypeOK'
  <2>1. DeskTypeOK'
    BY <1>2, ReadingSteps, DeskTypeStutter
  <2>2. \E t \in Tasks : task' = [task EXCEPT ![w] = t]
    <3>1. CASE CheckDuplicate(w)
      BY <3>1 DEF CheckDuplicate, Proceed, At, Tasks, Steps
    <3>2. CASE CheckAvailable(w)
      BY <3>2 DEF CheckAvailable, Proceed, At, Tasks, Steps
    <3>3. CASE CheckOnLoan(w)
      BY <3>3 DEF CheckOnLoan, Proceed, At, Tasks, Steps
    <3>4. CASE ReadAsset(w)
      <4>1. task[w].request \in Requests /\ task[w].request.asset \in Assets
        BY <3>4, TaskRow DEF ReadAsset, Requests
      <4>2. assetStatus[task[w].request.asset] \in AssetStatuses
        BY <4>1 DEF DeskTypeOK, LedgerTypeOK
      <4> QED BY <3>4, <4>1, <4>2 DEF ReadAsset, Proceed, Tasks
    <3> QED BY <1>2, <3>1, <3>2, <3>3, <3>4 DEF Read
  <2> QED BY <2>1, <2>2
<1>3. ASSUME NEW w \in Workers, Commit(w)
      PROVE  ServerTypeOK'
  <2>1. DeskTypeOK'
    <3>1. CASE CommitCreate(w)
      BY <3>1, LoanWritesType DEF CommitCreate
    <3>2. CASE CommitApprove(w)
      BY <3>2, TaskRow, LoanWritesType DEF CommitApprove
    <3>3. CASE CommitReject(w)
      BY <3>3, TaskRow, LoanWritesType DEF CommitReject
    <3>4. CASE CommitReturnRequest(w)
      BY <3>4, TaskRow, LoanWritesType DEF CommitReturnRequest
    <3>5. CASE CommitConfirm(w)
      BY <3>5, TaskRow, LoanWritesType DEF CommitConfirm
    <3>6. CASE CommitReport(w)
      BY <3>6, IncidentWritesType DEF CommitReport
    <3>7. CASE CommitResolve(w)
      BY <3>7, TaskRow, IncidentWritesType DEF CommitResolve
    <3> QED
      BY <1>3, <3>1, <3>2, <3>3, <3>4, <3>5, <3>6, <3>7 DEF Commit
  <2>2. task' = [task EXCEPT ![w] = Idle]
    BY <1>3
    DEF Commit, CommitCreate, CommitApprove, CommitReject, CommitReturnRequest,
        CommitConfirm, CommitReport, CommitResolve, Finish
  <2> QED BY <2>1, <2>2 DEF Tasks
<1>4. ASSUME NEW w \in Workers, Abort(w)
      PROVE  ServerTypeOK'
  BY <1>4, ReadingSteps, DeskTypeStutter DEF Abort, Finish, Tasks
<1>5. CASE UNCHANGED serverVars
  BY <1>5, DeskTypeStutter DEF serverVars
<1> QED
  BY <1>1, <1>2, <1>3, <1>4, <1>5 DEF ServerNext

\* Overlapping requests never leave a row with a value outside its type, nor a
\* worker with a half-finished task of no kind.
THEOREM ServerTypeCorrect == ServerSpec => []ServerTypeOK
<1>1. ServerInit => ServerTypeOK
  BY DeskTypeInit DEF ServerInit, ServerTypeOK, Tasks
<1> QED
  BY <1>1, ServerTypeStep, PTL DEF ServerSpec

-----------------------------------------------------------------------------
(* Approved requests have loan records, and so have the requests that a     *)
(* return task works on: loan records are never deleted.                    *)

WorksOnLoan(w) ==
  \/ At(w, "confirm", "loaded")
  \/ At(w, "confirm", "checked")
  \/ At(w, "request_return", "loaded")
  \/ At(w, "request_return", "checked")

TasksHaveRecords ==
  \A w \in Workers : WorksOnLoan(w) => task[w].request \in loanRecords

\* Only approvals add loan records.
LEMMA CommitRecords ==
  ASSUME ServerTypeOK, ApprovedHasRecord, TasksHaveRecords, NEW w \in Workers, Commit(w)
  PROVE  ApprovedHasRecord' /\ loanRecords \subseteq loanRecords'
<1> USE DEF ApprovedHasRecord, ServerTypeOK, DeskTypeOK, LoanTypeOK
<1>1. CASE CommitCreate(w)
  BY <1>1 DEF CommitCreate, CreateWrites
<1>2. CASE CommitApprove(w)
  BY <1>2, TaskRow DEF CommitApprove, ApproveWrites
<1>3. CASE CommitReject(w)
  BY <1>3, TaskRow DEF CommitReject, RejectWrites
<1>4. CASE CommitReturnRequest(w)
  <2>1. task[w].request \in loanRecords
    BY <1>4 DEF CommitReturnRequest, TasksHaveRecords, WorksOnLoan
  <2> QED BY <1>4, <2>1 DEF CommitReturnRequest, RequestReturnWrites
<1>5. CASE CommitConfirm(w)
  <2>1. task[w].request \in loanRecords
    BY <1>5 DEF CommitConfirm, TasksHaveRecords, WorksOnLoan
  <2> QED BY <1>5, <2>1 DEF CommitConfirm, ConfirmWrites
<1>6. CASE CommitReport(w) \/ CommitResolve(w)
  BY <1>6 DEF CommitReport, CommitResolve, loanVars
<1> QED
  BY <1>1, <1>2, <1>3, <1>4, <1>5, <1>6 DEF Commit

\* A commit is the last step of a task.
LEMMA CommitEndsTask ==
  ASSUME NEW w \in Workers, Commit(w)
  PROVE  task' = [task EXCEPT ![w] = Idle]
BY DEF Commit, CommitCreate, CommitApprove, CommitReject, CommitReturnRequest,
       CommitConfirm, CommitReport, CommitResolve, Finish

\* A worker does not touch what the others are doing.
LEMMA OtherTasksKept ==
  ASSUME ServerTypeOK, NEW w \in Workers, Load(w) \/ Read(w) \/ Abort(w) \/ Commit(w)
  PROVE  \A v \in Workers \ {w} : task'[v] = task[v]
<1>1. \E t : task' = [task EXCEPT ![w] = t]
  BY CommitEndsTask
  DEF Load, LoadForCreate, LoadForApprove, LoadForReject, LoadForReturn, LoadForConfirm,
      LoadForReport, LoadForResolve, Begin, Read, CheckDuplicate, CheckAvailable,
      CheckOnLoan, ReadAsset, Proceed, Abort, Finish
<1> QED
  BY <1>1 DEF ServerTypeOK

\* Loads see loan records that exist, and those are there to stay.
LEMMA RecordsStep ==
  ASSUME ServerTypeOK, ApprovedHasRecord, TasksHaveRecords, [ServerNext]_serverVars
  PROVE  ApprovedHasRecord' /\ TasksHaveRecords'
<1>1. ASSUME NEW w \in Workers, Load(w) \/ Read(w) \/ Abort(w)
      PROVE  ApprovedHasRecord' /\ TasksHaveRecords'
  <2>1. UNCHANGED deskVars
    BY <1>1, ReadingSteps
  <2>2. ApprovedHasRecord'
    BY <2>1 DEF deskVars, loanVars, ApprovedHasRecord
  <2>3. \A v \in Workers \ {w} : task'[v] = task[v]
    BY <1>1, OtherTasksKept
  <2>4. WorksOnLoan(w)' => task'[w].request \in loanRecords
    <3> USE DEF ServerTypeOK, TasksHaveRecords, WorksOnLoan, At
    <3>1. CASE Load(w)
      <4>1. CASE \E r \in Requests : LoadForReturn(w, r) \/ LoadForConfirm(w, r)
        BY <4>1 DEF LoadForReturn, LoadForConfirm, Begin
      <4>2. CASE ~\E r \in Requests : LoadForReturn(w, r) \/ LoadForConfirm(w, r)
        BY <3>1, <4>2
        DEF Load, LoadForCreate, LoadForApprove, LoadForReject, LoadForReport, LoadForResolve,
            Begin
      <4> QED BY <4>1, <4>2
    <3>2. CASE Read(w)
      <4>1. CASE CheckDuplicate(w) \/ CheckAvailable(w)
        <5>1. task[w] \in Tasks /\ task[w].op \in {"create", "approve"}
          BY <4>1 DEF CheckDuplicate, CheckAvailable
        <5>2. task'[w].op = task[w].op
          BY <4>1, <5>1 DEF CheckDuplicate, CheckAvailable, Proceed, Tasks
        <5> QED BY <5>1, <5>2
      <4>2. CASE CheckOnLoan(w)
        BY <4>2 DEF CheckOnLoan, Proceed, Tasks, Steps
      <4>3. CASE ReadAsset(w)
        BY <4>3 DEF ReadAsset, Proceed
      <4> QED BY <3>2, <4>1, <4>2, <4>3 DEF Read
    <3>3. CASE Abort(w)
      BY <3>3 DEF Abort, Finish, Idle
    <3> QED BY <1>1, <3>1, <3>2, <3>3
  <2> QED
    BY <2>1, <2>2, <2>3, <2>4 DEF TasksHaveRecords, WorksOnLoan, At, deskVars, loanVars
<1>2. ASSUME NEW w \in Workers, Commit(w)
      PROVE  ApprovedHasRecord' /\ TasksHaveRecords'
  <2>1. ApprovedHasRecord' /\ loanRecords \subseteq loanRecords'
    BY <1>2, CommitRecords
  <2>2. TasksHaveRecords'
    BY <1>2, <2>1, CommitEndsTask DEF TasksHaveRecords, WorksOnLoan, At, ServerTypeOK
  <2> QED BY <2>1, <2>2
<1>3. CASE UNCHANGED serverVars
  BY <1>3 DEF serverVars, deskVars, loanVars, ApprovedHasRecord, TasksHaveRecords, WorksOnLoan, At
<1> QED
  BY <1>1, <1>2, <1>3 DEF ServerNext

\* Whatever requests overlap and wherever workers fail, a request that says
\* approved has its loan record, and returns are recorded for loans only: the
\* rows that one transaction writes stay together.
THEOREM ApprovedAlwaysHasRecord == ServerSpec => []ApprovedHasRecord
<1>1. ServerInit => ApprovedHasRecord /\ TasksHaveRecords
  BY DEF ServerInit, DeskInit, LoanInit, ApprovedHasRecord, TasksHaveRecords, WorksOnLoan, At
<1> QED
  BY <1>1, RecordsStep, ServerTypeCorrect, PTL DEF ServerSpec

-----------------------------------------------------------------------------
(* The explanation of every asset status survives overlapping requests.     *)

\* Reports explain the statuses that incidents assign, and no confirmation
\* under way has overlooked the last loan of an asset on loan.
ReportsExplain ==
  \A a \in Assets, type \in IncidentTypes :
    assetStatus[a] = StatusOfType(type) => OpenReport(a, type)

\* Only a report sets an incident status, and it adds an open report with it.
LEMMA ReportsExplainStep ==
  ASSUME ServerTypeOK, ReportsExplain, [ServerNext]_serverVars
  PROVE  ReportsExplain'
<1> USE DEF ServerTypeOK, DeskTypeOK, LedgerTypeOK, IncidentTypeOK, SaveStatus
<1>1. ASSUME NEW r \in Requests, NEW status, UNCHANGED incidentStatus,
             \/ CreateWrites(r) \/ ApproveWrites(r) \/ RejectWrites(r)
             \/ RequestReturnWrites(r) \/ ConfirmWrites(r, status)
      PROVE  ReportsExplain'
  \* Loan writes assign only in_stock and on_loan.
  <2>1. \A a \in Assets, type \in IncidentTypes :
          assetStatus'[a] = StatusOfType(type) => assetStatus[a] = StatusOfType(type)
    BY <1>1, IncidentStatuses
    DEF Requests, CreateWrites, ApproveWrites, RejectWrites, RequestReturnWrites, ConfirmWrites
  <2> QED BY <1>1, <2>1 DEF ReportsExplain, OpenReport, ReportsOf
<1>2. ASSUME NEW i \in IncidentReports, ReportWrites(i)
      PROVE  ReportsExplain'
  <2>0. i.asset \in Assets /\ i.type \in IncidentTypes
    BY DEF IncidentReports
  <2> SUFFICES ASSUME NEW a \in Assets, NEW type \in IncidentTypes,
                      assetStatus'[a] = StatusOfType(type)
               PROVE  OpenReport(a, type)'
    BY DEF ReportsExplain
  <2>1. CASE a = i.asset
    <3>1. i.type = type /\ incidentStatus'[i] = "open"
      BY <1>2, <2>0, <2>1, IncidentStatuses DEF ReportWrites
    <3> QED BY <2>1, <3>1 DEF OpenReport, ReportsOf
  <2>2. CASE a # i.asset
    <3>1. OpenReport(a, type)
      BY <1>2, <2>2 DEF ReportWrites, ReportsExplain
    <3> QED BY <1>2, <2>2, <3>1 DEF ReportWrites, OpenReport, ReportsOf
  <2> QED BY <2>1, <2>2
<1>3. ASSUME NEW i \in IncidentReports, ResolveWrites(i)
      PROVE  ReportsExplain'
  <2>0. i.asset \in Assets
    BY DEF IncidentReports
  <2> SUFFICES ASSUME NEW a \in Assets, NEW type \in IncidentTypes,
                      assetStatus'[a] = StatusOfType(type)
               PROVE  OpenReport(a, type)'
    BY DEF ReportsExplain
  <2>1. a # i.asset
    BY <1>3, <2>0, IncidentStatuses DEF ResolveWrites
  <2>2. OpenReport(a, type)
    BY <1>3, <2>1 DEF ResolveWrites, ReportsExplain
  <2> QED BY <1>3, <2>1, <2>2 DEF ResolveWrites, OpenReport, ReportsOf
<1>4. ASSUME NEW w \in Workers, Commit(w)
      PROVE  ReportsExplain'
  <2>1. CASE CommitCreate(w)
    BY <1>1, <2>1 DEF CommitCreate
  <2>2. CASE CommitApprove(w)
    BY <1>1, <2>2, TaskRow DEF CommitApprove
  <2>3. CASE CommitReject(w)
    BY <1>1, <2>3, TaskRow DEF CommitReject
  <2>4. CASE CommitReturnRequest(w)
    BY <1>1, <2>4, TaskRow DEF CommitReturnRequest
  <2>5. CASE CommitConfirm(w)
    BY <1>1, <2>5, TaskRow DEF CommitConfirm
  <2>6. CASE CommitReport(w)
    BY <1>2, <2>6 DEF CommitReport
  <2>7. CASE CommitResolve(w)
    BY <1>3, <2>7, TaskRow DEF CommitResolve
  <2> QED BY <1>4, <2>1, <2>2, <2>3, <2>4, <2>5, <2>6, <2>7 DEF Commit
<1>5. CASE UNCHANGED deskVars
  BY <1>5 DEF deskVars, ReportsExplain, OpenReport, ReportsOf
<1> QED
  BY <1>4, <1>5, ReadingSteps DEF ServerNext, serverVars

\* An approval makes an asset on loan with a new record that no confirmation
\* works on, and a return that leaves it on loan is the one that overlooked it.
LEMMA NeverOverlookedStep ==
  ASSUME ServerTypeOK, ApprovedHasRecord, TasksHaveRecords, ReturnNeverOverlooked,
         [ServerNext]_serverVars
  PROVE  ReturnNeverOverlooked'
<1> USE DEF ServerTypeOK, DeskTypeOK, LedgerTypeOK, LoanTypeOK, SaveStatus
<1>1. ASSUME NEW w \in Workers, Load(w) \/ Read(w) \/ Abort(w)
      PROVE  ReturnNeverOverlooked'
  <2>1. UNCHANGED deskVars
    BY <1>1, ReadingSteps
  \* A confirmation that reads the asset while it is on loan overlooks nothing.
  <2>2. ASSUME NEW a \in Assets, assetStatus[a] = "on_loan",
               NEW r \in ActiveLoans(a), ~Overlooked(r)
        PROVE  ~Overlooked(r)'
    <3>1. \A v \in Workers \ {w} : task'[v] = task[v]
      BY <1>1, OtherTasksKept
    <3>2. r.asset = a
      BY <2>2 DEF ActiveLoans
    <3>3. ~(At(w, "confirm", "checked")' /\ task'[w].request = r /\ task'[w].status # "on_loan")
      <4>1. CASE Load(w)
        BY <4>1
        DEF Load, LoadForCreate, LoadForApprove, LoadForReject, LoadForReturn, LoadForConfirm,
            LoadForReport, LoadForResolve, Begin, At
      <4>2. CASE CheckDuplicate(w) \/ CheckAvailable(w) \/ CheckOnLoan(w)
        <5>1. task[w] \in Tasks /\ task[w].op \in {"create", "approve", "request_return"}
          BY <4>2 DEF CheckDuplicate, CheckAvailable, CheckOnLoan, At
        <5>2. task'[w].op = task[w].op
          BY <4>2, <5>1 DEF CheckDuplicate, CheckAvailable, CheckOnLoan, Proceed, Tasks
        <5> QED BY <5>1, <5>2 DEF At
      <4>3. CASE ReadAsset(w)
        <5>1. task'[w] = [op |-> "confirm", step |-> "checked", request |-> task[w].request,
                          status |-> assetStatus[task[w].request.asset]]
          BY <4>3 DEF ReadAsset, Proceed
        <5> QED BY <2>2, <3>2, <5>1
      <4>4. CASE Abort(w)
        BY <4>4 DEF Abort, Finish, At
      <4> QED BY <1>1, <4>1, <4>2, <4>3, <4>4 DEF Read
    <3> QED BY <2>2, <3>1, <3>3 DEF Overlooked, At
  <2>3. \A a \in Assets : ActiveLoans(a)' = ActiveLoans(a)
    BY <2>1 DEF deskVars, loanVars, ActiveLoans, IsOnLoan
  <2> QED
    BY <2>1, <2>2, <2>3 DEF deskVars, ReturnNeverOverlooked
<1>2. ASSUME NEW w \in Workers, Commit(w)
      PROVE  ReturnNeverOverlooked'
  \* A commit ends one task and begins none.
  <2>0. \A r : Overlooked(r)' => Overlooked(r)
    BY <1>2, CommitEndsTask DEF Overlooked, At
  <2> SUFFICES ASSUME NEW a \in Assets, assetStatus'[a] = "on_loan"
               PROVE  \E r \in ActiveLoans(a)' : ~Overlooked(r)'
    BY DEF ReturnNeverOverlooked
  <2>1. CASE CommitApprove(w) /\ a = task[w].request.asset
    <3> DEFINE r == task[w].request
    \* No confirmation can be under way for a loan that has no record yet.
    <3>1. r \in Requests /\ r \notin loanRecords /\ r \in loanRecords'
      BY <2>1, TaskRow DEF CommitApprove, ApproveWrites
    <3>2. ~Overlooked(r)
      BY <3>1 DEF TasksHaveRecords, WorksOnLoan, Overlooked
    <3>3. r \notin returnRecords'
      BY <2>1, <3>1 DEF CommitApprove, ApproveWrites, ApprovedHasRecord
    <3> QED BY <2>0, <2>1, <3>1, <3>2, <3>3 DEF ActiveLoans, IsOnLoan
  <2>2. CASE ~(CommitApprove(w) /\ a = task[w].request.asset)
    <3>1. assetStatus[a] = "on_loan"
      BY <1>2, <2>2, TaskRow, IncidentStatuses
      DEF Commit, CommitCreate, CreateWrites, CommitApprove, ApproveWrites, CommitReject,
          RejectWrites, CommitReturnRequest, RequestReturnWrites, CommitConfirm, ConfirmWrites,
          CommitReport, ReportWrites, CommitResolve, ResolveWrites, Requests, IncidentReports
    <3>2. PICK r \in ActiveLoans(a) : ~Overlooked(r)
      BY <3>1 DEF ReturnNeverOverlooked
    <3>3. r \in ActiveLoans(a)'
      <4>1. CASE CommitConfirm(w)
        \* The confirmed loan is another one: this confirmation would have
        \* put the asset back in stock, or it has overlooked that loan.
        <5>1. task[w].request # r
          <6>1. CASE task[w].status = "on_loan"
            BY <3>2, <4>1, <6>1, TaskRow
            DEF CommitConfirm, ConfirmWrites, ActiveLoans, Requests
          <6>2. CASE task[w].status # "on_loan"
            BY <3>2, <4>1, <6>2 DEF CommitConfirm, Overlooked
          <6> QED BY <6>1, <6>2
        <5> QED BY <3>2, <4>1, <5>1 DEF CommitConfirm, ConfirmWrites, ActiveLoans, IsOnLoan
      <4>2. CASE ~CommitConfirm(w)
        <5>1. loanRecords \subseteq loanRecords' /\ returnRecords' = returnRecords
          BY <1>2, <4>2
          DEF Commit, CommitCreate, CreateWrites, CommitApprove, ApproveWrites, CommitReject,
              RejectWrites, CommitReturnRequest, RequestReturnWrites,
              CommitReport, CommitResolve, loanVars
        <5> QED BY <3>2, <5>1 DEF ActiveLoans, IsOnLoan
      <4> QED BY <4>1, <4>2
    <3> QED BY <2>0, <3>2, <3>3
  <2> QED BY <2>1, <2>2
<1>3. CASE UNCHANGED serverVars
  BY <1>3 DEF serverVars, deskVars, loanVars, ReturnNeverOverlooked, Overlooked, At,
              ActiveLoans, IsOnLoan
<1> QED
  BY <1>1, <1>2, <1>3 DEF ServerNext

\* Even with overlapping requests, an asset on loan has a loan that is out and
\* whose confirmation, if one is under way, will put the asset back in stock.
THEOREM ReturnsNeverOverlooked == ServerSpec => []ReturnNeverOverlooked
<1>1. ServerInit => ApprovedHasRecord /\ TasksHaveRecords /\ ReturnNeverOverlooked
  BY DEF ServerInit, DeskInit, LedgerInit, LoanInit, ApprovedHasRecord, TasksHaveRecords,
         WorksOnLoan, At, ReturnNeverOverlooked
<1> QED
  BY <1>1, RecordsStep, NeverOverlookedStep, ServerTypeCorrect, PTL DEF ServerSpec

\* No interleaving of requests strands an asset: whatever status takes it out of
\* circulation is backed by a loan that is out or an open report of that kind.
THEOREM ServerStatusExplained == ServerSpec => []StatusExplained
<1>1. ServerInit => ReportsExplain
  BY IncidentStatuses DEF ServerInit, DeskInit, LedgerInit, ReportsExplain
<1>2. ReportsExplain /\ ReturnNeverOverlooked => StatusExplained
  BY DEF ReportsExplain, ReturnNeverOverlooked, StatusExplained
<1> QED
  BY <1>1, <1>2, ReportsExplainStep, ServerTypeCorrect, ReturnsNeverOverlooked, PTL
  DEF ServerSpec

-----------------------------------------------------------------------------
(* The audit log under overlapping requests.  An INSERT guards itself: the  *)
(* row is new, and its entry with it.  An UPDATE may be made twice, with an *)
(* entry each time, so there the entries are at least as many as the rows.  *)

\* The entries for an action on an asset are at least as many as the rows in S.
Covers(action, a, S) == IsFiniteSet(S) /\ Logged(action, a) >= Cardinality(S)

ServerTallies ==
  \A a \in Assets :
    /\ Tally("loan_requested", a, Applied(a))
    /\ Tally("loan_approved", a, Approved(a))
    /\ Tally("return_confirmed", a, Returned(a))
    /\ Covers("loan_rejected", a, Rejected(a))
    /\ Covers("return_requested", a, AskedBack(a))
    /\ Tally("incident_reported", a, Reported(a))
    /\ Covers("incident_resolved", a, RepairsOf(a))

\* A decision is about a request that was filed, and a repair about a report.
WorksOnRequest(w) ==
  \/ At(w, "approve", "loaded")
  \/ At(w, "approve", "checked")
  \/ At(w, "reject", "loaded")

TasksHaveRows ==
  \A w \in Workers :
    /\ WorksOnRequest(w) => requestStatus[task[w].request] # "absent"
    /\ At(w, "resolve", "loaded") => Filed(task[w].incident)

\* T is what the rows S become when one entry (action, code) is written: at most
\* row is added, and only to the rows that this entry stands for.
AtMostFollows(action, code, row, other, a, S, T) ==
  T \subseteq S \cup {row} /\ (~(other = action /\ a = code) => T \subseteq S)

LEMMA CoversStep ==
  ASSUME AuditTypeOK, NEW action \in AuditActions, NEW code \in Assets,
         LogAction(action, code),
         NEW other \in AuditActions, NEW a \in Assets, NEW S, NEW T, NEW row,
         Covers(other, a, S),
         AtMostFollows(action, code, row, other, a, S, T)
  PROVE  IsFiniteSet(T) /\ Logged(other, a)' >= Cardinality(T)
<1>1. Logged(other, a) \in Nat
  BY DEF AuditTypeOK, Logged, AssetCodes
<1>2. Cardinality(S) \in Nat
  BY FS_CardinalityType DEF Covers
<1>3. CASE other = action /\ a = code
  <2>1. /\ IsFiniteSet(S \cup {row})
        /\ Cardinality(S \cup {row}) = Cardinality(S) \/ Cardinality(S \cup {row}) = Cardinality(S) + 1
    BY FS_AddElement DEF Covers
  <2>2. IsFiniteSet(T) /\ Cardinality(T) <= Cardinality(S \cup {row})
    BY <2>1, FS_Subset DEF AtMostFollows
  <2>3. Cardinality(T) \in Nat
    BY <2>2, FS_CardinalityType
  <2> QED BY <1>1, <1>2, <1>3, <2>1, <2>2, <2>3, LoggedAfter DEF Covers
<1>4. CASE ~(other = action /\ a = code)
  <2>1. IsFiniteSet(T) /\ Cardinality(T) <= Cardinality(S)
    BY <1>4, FS_Subset DEF Covers, AtMostFollows
  <2>2. Cardinality(T) \in Nat
    BY <2>1, FS_CardinalityType
  <2>3. Logged(other, a)' = Logged(other, a)
    BY <1>4, LoggedAfter
  <2> QED BY <1>1, <1>2, <2>1, <2>2, <2>3 DEF Covers
<1> QED BY <1>3, <1>4

\* The seven tallies of an asset, kept together.
LEMMA ServerTalliesStep ==
  ASSUME AuditTypeOK, ServerTallies,
         NEW action \in AuditActions, NEW code \in Assets, NEW row,
         LogAction(action, code),
         \A a \in Assets :
           /\ Follows(action, code, row, "loan_requested", a, Applied(a), Applied(a)')
           /\ Follows(action, code, row, "loan_approved", a, Approved(a), Approved(a)')
           /\ Follows(action, code, row, "return_confirmed", a, Returned(a), Returned(a)')
           /\ AtMostFollows(action, code, row, "loan_rejected", a, Rejected(a), Rejected(a)')
           /\ AtMostFollows(action, code, row, "return_requested", a, AskedBack(a), AskedBack(a)')
           /\ Follows(action, code, row, "incident_reported", a, Reported(a), Reported(a)')
           /\ AtMostFollows(action, code, row, "incident_resolved", a, RepairsOf(a), RepairsOf(a)')
  PROVE  ServerTallies'
<1> SUFFICES
      ASSUME NEW a \in Assets
      PROVE  /\ Tally("loan_requested", a, Applied(a))'
             /\ Tally("loan_approved", a, Approved(a))'
             /\ Tally("return_confirmed", a, Returned(a))'
             /\ Covers("loan_rejected", a, Rejected(a))'
             /\ Covers("return_requested", a, AskedBack(a))'
             /\ Tally("incident_reported", a, Reported(a))'
             /\ Covers("incident_resolved", a, RepairsOf(a))'
  BY DEF ServerTallies
<1>a. /\ {"loan_requested", "loan_approved", "loan_rejected"} \subseteq AuditActions
      /\ {"return_requested", "return_confirmed"} \subseteq AuditActions
      /\ {"incident_reported", "incident_resolved"} \subseteq AuditActions
  BY DEF AuditActions
<1>1. Tally("loan_requested", a, Applied(a))'
  BY <1>a, TallyStep DEF ServerTallies, Tally
<1>2. Tally("loan_approved", a, Approved(a))'
  BY <1>a, TallyStep DEF ServerTallies, Tally
<1>3. Tally("return_confirmed", a, Returned(a))'
  BY <1>a, TallyStep DEF ServerTallies, Tally
<1>4. Covers("loan_rejected", a, Rejected(a))'
  BY <1>a, CoversStep DEF ServerTallies, Covers
<1>5. Covers("return_requested", a, AskedBack(a))'
  BY <1>a, CoversStep DEF ServerTallies, Covers
<1>6. Tally("incident_reported", a, Reported(a))'
  BY <1>a, TallyStep DEF ServerTallies, Tally
<1>7. Covers("incident_resolved", a, RepairsOf(a))'
  BY <1>a, CoversStep DEF ServerTallies, Covers
<1> QED BY <1>1, <1>2, <1>3, <1>4, <1>5, <1>6, <1>7

\* The writes of the loan services, on whatever reads their guards were evaluated;
\* a decision is about a request that exists.
LEMMA LoanWritesTallies ==
  ASSUME DeskTypeOK, ServerTallies, NEW r \in Requests, NEW status, UNCHANGED incidentStatus,
         \/ CreateWrites(r)
         \/ requestStatus[r] # "absent" /\ (ApproveWrites(r) \/ RejectWrites(r))
         \/ RequestReturnWrites(r)
         \/ ConfirmWrites(r, status)
  PROVE  ServerTallies'
<1> USE DEF DeskTypeOK
<1>a. /\ r.asset \in Assets
      /\ {"loan_requested", "loan_approved", "loan_rejected"} \subseteq AuditActions
      /\ {"return_requested", "return_confirmed"} \subseteq AuditActions
  BY DEF Requests, AuditActions
<1>b. \A a \in Assets : Reported(a)' = Reported(a) /\ RepairsOf(a)' = RepairsOf(a)
  BY DEF Reported, RepairsOf, ReportsOf, Filed
<1>1. CASE CreateWrites(r)
  <2>1. \A a \in Assets :
          /\ a = r.asset => r \notin Applied(a) /\ Applied(a)' = Applied(a) \cup {r}
          /\ a # r.asset => Applied(a)' = Applied(a)
          /\ Rejected(a)' = Rejected(a)
    BY <1>1 DEF CreateWrites, Applied, Rejected, RequestsOf, LoanTypeOK
  <2>2. \A a \in Assets :
          Approved(a)' = Approved(a) /\ AskedBack(a)' = AskedBack(a) /\ Returned(a)' = Returned(a)
    BY <1>1 DEF CreateWrites, Approved, AskedBack, Returned, RequestsOf
  <2>3. LogAction("loan_requested", r.asset)
    BY <1>1 DEF CreateWrites
  <2> QED BY <1>a, <1>b, <2>1, <2>2, <2>3, ServerTalliesStep DEF Follows, AtMostFollows
<1>2. CASE requestStatus[r] # "absent" /\ ApproveWrites(r)
  <2>1. \A a \in Assets :
          /\ a = r.asset => r \notin Approved(a) /\ Approved(a)' = Approved(a) \cup {r}
          /\ a # r.asset => Approved(a)' = Approved(a)
          /\ AskedBack(a)' = AskedBack(a) /\ Returned(a)' = Returned(a)
    BY <1>2 DEF ApproveWrites, Approved, AskedBack, Returned, RequestsOf
  \* A request that was rejected meanwhile is approved all the same.
  <2>2. \A a \in Assets : Applied(a)' = Applied(a) /\ Rejected(a)' \subseteq Rejected(a)
    BY <1>2 DEF ApproveWrites, Applied, Rejected, RequestsOf, LoanTypeOK
  <2>3. LogAction("loan_approved", r.asset)
    BY <1>2 DEF ApproveWrites
  <2> QED BY <1>a, <1>b, <2>1, <2>2, <2>3, ServerTalliesStep DEF Follows, AtMostFollows
<1>3. CASE requestStatus[r] # "absent" /\ RejectWrites(r)
  <2>1. \A a \in Assets :
          /\ Rejected(a)' \subseteq Rejected(a) \cup {r}
          /\ a # r.asset => Rejected(a)' \subseteq Rejected(a)
          /\ Applied(a)' = Applied(a)
    BY <1>3 DEF RejectWrites, Applied, Rejected, RequestsOf, LoanTypeOK
  <2>2. \A a \in Assets :
          Approved(a)' = Approved(a) /\ AskedBack(a)' = AskedBack(a) /\ Returned(a)' = Returned(a)
    BY <1>3 DEF RejectWrites, Approved, AskedBack, Returned, RequestsOf
  <2>3. LogAction("loan_rejected", r.asset)
    BY <1>3 DEF RejectWrites
  <2> QED BY <1>a, <1>b, <2>1, <2>2, <2>3, ServerTalliesStep DEF Follows, AtMostFollows
<1>4. CASE RequestReturnWrites(r)
  <2>1. \A a \in Assets :
          /\ AskedBack(a)' \subseteq AskedBack(a) \cup {r}
          /\ a # r.asset => AskedBack(a)' \subseteq AskedBack(a)
          /\ Approved(a)' = Approved(a) /\ Returned(a)' = Returned(a)
    BY <1>4 DEF RequestReturnWrites, Approved, AskedBack, Returned, RequestsOf
  <2>2. \A a \in Assets : Applied(a)' = Applied(a) /\ Rejected(a)' = Rejected(a)
    BY <1>4 DEF RequestReturnWrites, Applied, Rejected, RequestsOf
  <2>3. LogAction("return_requested", r.asset)
    BY <1>4 DEF RequestReturnWrites
  <2> QED BY <1>a, <1>b, <2>1, <2>2, <2>3, ServerTalliesStep DEF Follows, AtMostFollows
<1>5. CASE ConfirmWrites(r, status)
  <2>1. \A a \in Assets :
          /\ a = r.asset => r \notin Returned(a) /\ Returned(a)' = Returned(a) \cup {r}
          /\ a # r.asset => Returned(a)' = Returned(a)
          /\ Approved(a)' = Approved(a) /\ AskedBack(a)' = AskedBack(a)
    BY <1>5 DEF ConfirmWrites, Approved, AskedBack, Returned, RequestsOf
  <2>2. \A a \in Assets : Applied(a)' = Applied(a) /\ Rejected(a)' = Rejected(a)
    BY <1>5 DEF ConfirmWrites, Applied, Rejected, RequestsOf
  <2>3. LogAction("return_confirmed", r.asset)
    BY <1>5 DEF ConfirmWrites
  <2> QED BY <1>a, <1>b, <2>1, <2>2, <2>3, ServerTalliesStep DEF Follows, AtMostFollows
<1> QED BY <1>1, <1>2, <1>3, <1>4, <1>5

LEMMA IncidentWritesTallies ==
  ASSUME DeskTypeOK, ServerTallies, NEW i \in IncidentReports, UNCHANGED loanVars,
         ReportWrites(i) \/ (Filed(i) /\ ResolveWrites(i))
  PROVE  ServerTallies'
<1> USE DEF DeskTypeOK
<1>a. i.asset \in Assets /\ {"incident_reported", "incident_resolved"} \subseteq AuditActions
  BY DEF IncidentReports, AuditActions
<1>b. \A a \in Assets :
        /\ Applied(a)' = Applied(a) /\ Approved(a)' = Approved(a) /\ Rejected(a)' = Rejected(a)
        /\ AskedBack(a)' = AskedBack(a) /\ Returned(a)' = Returned(a)
  BY DEF loanVars, Applied, Approved, Rejected, AskedBack, Returned, RequestsOf
<1>1. CASE ReportWrites(i)
  <2>1. \A a \in Assets :
          /\ a = i.asset => i \notin Reported(a) /\ Reported(a)' = Reported(a) \cup {i}
          /\ a # i.asset => Reported(a)' = Reported(a)
          /\ RepairsOf(a)' = RepairsOf(a)
    BY <1>1 DEF ReportWrites, Reported, RepairsOf, ReportsOf, Filed, IncidentTypeOK
  <2>2. LogAction("incident_reported", i.asset)
    BY <1>1 DEF ReportWrites
  <2> QED BY <1>a, <1>b, <2>1, <2>2, ServerTalliesStep DEF Follows, AtMostFollows
<1>2. CASE Filed(i) /\ ResolveWrites(i)
  <2>1. \A a \in Assets :
          /\ RepairsOf(a)' \subseteq RepairsOf(a) \cup {i}
          /\ a # i.asset => RepairsOf(a)' \subseteq RepairsOf(a)
          /\ Reported(a)' = Reported(a)
    BY <1>2 DEF ResolveWrites, Reported, RepairsOf, ReportsOf, Filed, IncidentTypeOK
  <2>2. LogAction("incident_resolved", i.asset)
    BY <1>2 DEF ResolveWrites
  <2> QED BY <1>a, <1>b, <2>1, <2>2, ServerTalliesStep DEF Follows, AtMostFollows
<1> QED BY <1>1, <1>2

LEMMA ServerTalliesKept ==
  ASSUME ServerTypeOK, TasksHaveRows, ServerTallies, [ServerNext]_serverVars
  PROVE  ServerTallies'
<1>1. CASE UNCHANGED deskVars
  BY <1>1
  DEF deskVars, loanVars, ServerTallies, Tally, Covers, Logged, Applied, Approved, Rejected,
      AskedBack, Returned, Reported, RepairsOf, RequestsOf, ReportsOf, Filed
<1>2. ASSUME NEW w \in Workers, Commit(w)
      PROVE  ServerTallies'
  <2> USE DEF ServerTypeOK
  <2>1. CASE CommitCreate(w)
    BY <2>1, LoanWritesTallies DEF CommitCreate
  <2>2. CASE CommitApprove(w)
    BY <2>2, TaskRow, LoanWritesTallies DEF CommitApprove, TasksHaveRows, WorksOnRequest
  <2>3. CASE CommitReject(w)
    BY <2>3, TaskRow, LoanWritesTallies DEF CommitReject, TasksHaveRows, WorksOnRequest
  <2>4. CASE CommitReturnRequest(w)
    BY <2>4, TaskRow, LoanWritesTallies DEF CommitReturnRequest
  <2>5. CASE CommitConfirm(w)
    BY <2>5, TaskRow, LoanWritesTallies DEF CommitConfirm
  <2>6. CASE CommitReport(w)
    BY <2>6, IncidentWritesTallies DEF CommitReport
  <2>7. CASE CommitResolve(w)
    BY <2>7, TaskRow, IncidentWritesTallies DEF CommitResolve, TasksHaveRows
  <2> QED BY <1>2, <2>1, <2>2, <2>3, <2>4, <2>5, <2>6, <2>7 DEF Commit
<1> QED BY <1>1, <1>2, ReadingSteps DEF ServerNext, serverVars

\* Rows are never deleted, and a task that has loaded one keeps to it.
LEMMA TasksHaveRowsStep ==
  ASSUME ServerTypeOK, TasksHaveRows, [ServerNext]_serverVars
  PROVE  TasksHaveRows'
<1> USE DEF ServerTypeOK
<1>1. /\ \A r \in Requests : requestStatus[r] # "absent" => requestStatus'[r] # "absent"
      /\ \A i \in IncidentReports : Filed(i) => Filed(i)'
  <2>1. CASE UNCHANGED deskVars
    BY <2>1 DEF deskVars, loanVars, Filed
  <2>2. ASSUME NEW w \in Workers, Commit(w)
        PROVE  /\ \A r \in Requests : requestStatus[r] # "absent" => requestStatus'[r] # "absent"
               /\ \A i \in IncidentReports : Filed(i) => Filed(i)'
    BY <2>2
    DEF Commit, CommitCreate, CreateWrites, CommitApprove, ApproveWrites, CommitReject,
        RejectWrites, CommitReturnRequest, RequestReturnWrites, CommitConfirm, ConfirmWrites,
        CommitReport, ReportWrites, CommitResolve, ResolveWrites, loanVars, Filed,
        DeskTypeOK, LoanTypeOK, IncidentTypeOK
  <2> QED BY <2>1, <2>2, ReadingSteps DEF ServerNext, serverVars
<1>2. ASSUME NEW w \in Workers, task'[w] = task[w]
      PROVE  /\ WorksOnRequest(w)' => requestStatus'[task'[w].request] # "absent"
             /\ At(w, "resolve", "loaded")' => Filed(task[w].incident)'
  BY <1>1, <1>2, TaskRow DEF TasksHaveRows, WorksOnRequest, At, Filed
<1>3. ASSUME NEW w \in Workers, Load(w) \/ Read(w) \/ Commit(w) \/ Abort(w)
      PROVE  /\ WorksOnRequest(w)' => requestStatus'[task'[w].request] # "absent"
             /\ At(w, "resolve", "loaded")' => Filed(task[w].incident)'
  <2> USE DEF WorksOnRequest, At
  <2>1. CASE Load(w)
    BY <2>1
    DEF Load, LoadForCreate, LoadForApprove, LoadForReject, LoadForReturn, LoadForConfirm,
        LoadForReport, LoadForResolve, ResolveAllowed, Begin, deskVars, loanVars, Filed
  <2>2. CASE CheckDuplicate(w) \/ CheckOnLoan(w) \/ ReadAsset(w)
    <3>1. task[w] \in Tasks /\ (task[w].op \in {"create", "request_return"} \/ ReadAsset(w))
      BY <2>2 DEF CheckDuplicate, CheckOnLoan
    <3>2. task'[w].op \in {"create", "request_return", "confirm"}
      BY <2>2, <3>1 DEF CheckDuplicate, CheckOnLoan, ReadAsset, Proceed, Tasks
    <3> QED BY <3>2
  <2>3. CASE CheckAvailable(w)
    <3>1. task'[w].op = "approve" /\ task'[w].request = task[w].request
      BY <2>3 DEF CheckAvailable, Proceed, Tasks
    <3> QED BY <1>1, <2>3, <3>1, TaskRow DEF CheckAvailable, TasksHaveRows
  <2>4. CASE Commit(w) \/ Abort(w)
    BY <2>4, CommitEndsTask DEF Abort, Finish
  <2> QED BY <1>3, <2>1, <2>2, <2>3, <2>4 DEF Read
<1>4. CASE UNCHANGED serverVars
  BY <1>2, <1>4 DEF serverVars, TasksHaveRows
<1>5. CASE ServerNext
  <2>1. PICK w \in Workers : Load(w) \/ Read(w) \/ Commit(w) \/ Abort(w)
    BY <1>5 DEF ServerNext
  <2>2. \A v \in Workers \ {w} : task'[v] = task[v]
    BY <2>1, OtherTasksKept
  <2> QED BY <1>2, <1>3, <2>1, <2>2 DEF TasksHaveRows
<1> QED BY <1>4, <1>5

\* Whatever requests overlap and wherever workers fail, no operation is carried out
\* unlogged: inserted rows have exactly one entry each, updated rows at least one.
THEOREM EveryChangeAlwaysLogged == ServerSpec => []EveryChangeLogged
<1>1. ServerInit => ServerTallies /\ TasksHaveRows
  <2> SUFFICES ASSUME ServerInit
               PROVE  ServerTallies /\ TasksHaveRows
    OBVIOUS
  <2>1. TasksHaveRows
    BY DEF ServerInit, TasksHaveRows, WorksOnRequest, At
  <2>2. LoanTallies /\ IncidentTallies
    BY TalliesInit DEF ServerInit
  <2>3. \A action, S, a : Tally(action, a, S) => Covers(action, a, S)
    BY FS_CardinalityType DEF Tally, Covers
  <2> QED BY <2>1, <2>2, <2>3 DEF LoanTallies, IncidentTallies, ServerTallies
<1>2. ServerTallies => EveryChangeLogged
  BY DEF ServerTallies, EveryChangeLogged, Tally, Covers, Applied, Approved, Rejected, AskedBack,
         Returned, Reported
<1> QED
  BY <1>1, <1>2, ServerTalliesKept, TasksHaveRowsStep, ServerTypeCorrect, PTL DEF ServerSpec

-----------------------------------------------------------------------------
(* With one worker, nothing happens between the guards and the writes.      *)

\* The guards that the worker's task has passed so far still hold.
PassedGuards(w) ==
  /\ At(w, "create", "loaded") => IsAvailableForLoan(task[w].asset)
  /\ At(w, "create", "checked") => LoanEligible(task[w].asset, task[w].requester)
  /\ At(w, "approve", "loaded") \/ At(w, "approve", "checked") \/ At(w, "reject", "loaded")
       => requestStatus[task[w].request] = "pending"
  /\ At(w, "approve", "checked") => IsAvailableForLoan(task[w].request.asset)
  /\ At(w, "request_return", "loaded") \/ At(w, "request_return", "checked")
       => task[w].request \in loanRecords \ returnRequested
  /\ At(w, "request_return", "checked") => IsOnLoan(task[w].request)
  /\ At(w, "confirm", "loaded") \/ At(w, "confirm", "checked")
       => task[w].request \in loanRecords /\ IsOnLoan(task[w].request)
  /\ At(w, "confirm", "checked") => task[w].status = assetStatus[task[w].request.asset]
  /\ At(w, "report", "loaded") => ReportAllowed(task[w].type, assetStatus[task[w].asset])
  /\ At(w, "resolve", "loaded")
       => ResolveAllowed(task[w].incident, incidentStatus[task[w].incident])

GuardsStillHold == \A w \in Workers : PassedGuards(w)

\* An idle worker has passed no guard.
LEMMA IdleGuards ==
  ASSUME NEW w \in Workers, task'[w] = Idle
  PROVE  PassedGuards(w)'
BY DEF PassedGuards, At

\* Each load passes the first guards of its task.
LEMMA LoadedGuards ==
  ASSUME ServerTypeOK, NEW w \in Workers, Load(w)
  PROVE  PassedGuards(w)'
<1> USE DEF ServerTypeOK, Begin, PassedGuards, At, deskVars, loanVars, IsAvailableForLoan, IsOnLoan
<1>1. CASE \E a \in Assets, u \in Users : LoadForCreate(w, a, u)
  BY <1>1 DEF LoadForCreate
<1>2. CASE \E r \in Requests : LoadForApprove(w, r) \/ LoadForReject(w, r)
  BY <1>2 DEF LoadForApprove, LoadForReject
<1>3. CASE \E r \in Requests : LoadForReturn(w, r) \/ LoadForConfirm(w, r)
  BY <1>3 DEF LoadForReturn, LoadForConfirm
<1>4. CASE \E a \in Assets, type \in IncidentTypes : LoadForReport(w, a, type)
  BY <1>4 DEF LoadForReport
<1>5. CASE \E i \in IncidentReports : LoadForResolve(w, i)
  BY <1>5 DEF LoadForResolve, ResolveAllowed
<1> QED BY <1>1, <1>2, <1>3, <1>4, <1>5 DEF Load

\* Each second read passes the rest of them.
LEMMA ReadGuards ==
  ASSUME ServerTypeOK, NEW w \in Workers, PassedGuards(w), Read(w)
  PROVE  PassedGuards(w)'
<1> USE DEF ServerTypeOK, Proceed, At, deskVars, loanVars
<1>1. CASE CheckDuplicate(w)
  <2>1. task[w] \in [op: {"create"}, step: Steps, asset: Assets, requester: Users]
    BY <1>1 DEF CheckDuplicate, Tasks
  <2>2. task'[w] = [op |-> "create", step |-> "checked", asset |-> task[w].asset,
                    requester |-> task[w].requester]
    BY <1>1, <2>1 DEF CheckDuplicate
  <2>3. LoanEligible(task[w].asset, task[w].requester)
    BY <1>1 DEF CheckDuplicate, PassedGuards, LoanEligible
  <2> QED
    BY <1>1, <2>1, <2>2, <2>3
    DEF CheckDuplicate, PassedGuards, LoanEligible, IsAvailableForLoan, HasActiveRequest, IsActive
<1>2. CASE CheckAvailable(w)
  <2>1. task[w] \in [op: {"approve"}, step: Steps, request: Requests]
    BY <1>2 DEF CheckAvailable, Tasks
  <2>2. task'[w] = [op |-> "approve", step |-> "checked", request |-> task[w].request]
    BY <1>2, <2>1 DEF CheckAvailable
  <2> QED
    BY <1>2, <2>1, <2>2 DEF CheckAvailable, PassedGuards, IsAvailableForLoan
<1>3. CASE CheckOnLoan(w)
  <2>1. task[w] \in [op: {"request_return"}, step: Steps, request: Requests]
    BY <1>3 DEF CheckOnLoan, Tasks
  <2>2. task'[w] = [op |-> "request_return", step |-> "checked", request |-> task[w].request]
    BY <1>3, <2>1 DEF CheckOnLoan
  <2> QED
    BY <1>3, <2>1, <2>2 DEF CheckOnLoan, PassedGuards, IsOnLoan
<1>4. CASE ReadAsset(w)
  BY <1>4 DEF ReadAsset, PassedGuards, IsOnLoan
<1> QED BY <1>1, <1>2, <1>3, <1>4 DEF Read

\* While the guards hold, a commit is a call of the asset desk.
LEMMA GuardedCommit ==
  ASSUME ServerTypeOK, NEW w \in Workers, PassedGuards(w), Commit(w)
  PROVE  DeskNext
<1>1. CASE CommitCreate(w)
  <2>1. PICK r \in Requests : /\ r.asset = task[w].asset /\ r.requester = task[w].requester
                               /\ CreateWrites(r)
    BY <1>1 DEF CommitCreate
  <2>2. CreateLoanRequest(r)
    BY <1>1, <2>1 DEF CommitCreate, PassedGuards, CreateLoanRequest
  <2> QED BY <1>1, <2>2 DEF CommitCreate, DeskNext, LoanStep
<1>2. CASE CommitApprove(w)
  <2>1. ApproveLoanRequest(task[w].request)
    BY <1>2 DEF CommitApprove, PassedGuards, ApproveLoanRequest
  <2> QED BY <1>2, <2>1, TaskRow DEF CommitApprove, DeskNext, LoanStep
<1>3. CASE CommitReject(w)
  <2>1. RejectLoanRequest(task[w].request)
    BY <1>3 DEF CommitReject, PassedGuards, RejectLoanRequest
  <2> QED BY <1>3, <2>1, TaskRow DEF CommitReject, DeskNext, LoanStep
<1>4. CASE CommitReturnRequest(w)
  <2>1. RequestReturn(task[w].request)
    BY <1>4 DEF CommitReturnRequest, PassedGuards, RequestReturn
  <2> QED BY <1>4, <2>1, TaskRow DEF CommitReturnRequest, DeskNext, LoanStep
<1>5. CASE CommitConfirm(w)
  <2>1. ConfirmReturn(task[w].request)
    BY <1>5 DEF CommitConfirm, PassedGuards, ConfirmReturn
  <2> QED BY <1>5, <2>1, TaskRow DEF CommitConfirm, DeskNext, LoanStep
<1>6. CASE CommitReport(w)
  <2>1. PICK i \in IncidentReports : /\ i.asset = task[w].asset /\ i.type = task[w].type
                                      /\ ReportWrites(i)
    BY <1>6 DEF CommitReport
  <2>2. ReportIncident(i)
    BY <1>6, <2>1 DEF CommitReport, PassedGuards, ReportIncident
  <2> QED BY <1>6, <2>2 DEF CommitReport, DeskNext, IncidentStep
<1>7. CASE CommitResolve(w)
  <2>1. ResolveIncident(task[w].incident)
    BY <1>7 DEF CommitResolve, PassedGuards, ResolveIncident
  <2> QED BY <1>7, <2>1, TaskRow DEF CommitResolve, DeskNext, IncidentStep
<1> QED BY <1>1, <1>2, <1>3, <1>4, <1>5, <1>6, <1>7 DEF Commit

\* With a single worker the served desk implements the desk that handles one
\* call at a time: every theorem about DeskSpec is then one about ServerSpec.
THEOREM OneWorkerServesSerially ==
  ASSUME \A v, w \in Workers : v = w
  PROVE  ServerSpec => ServesSerially
<1>1. ServerInit => GuardsStillHold /\ DeskInit
  BY DEF ServerInit, GuardsStillHold, PassedGuards, At
<1>2. ASSUME ServerTypeOK, GuardsStillHold, [ServerNext]_serverVars
      PROVE  GuardsStillHold'
  <2>1. CASE UNCHANGED serverVars
    BY <1>2, <2>1
    DEF serverVars, deskVars, loanVars, GuardsStillHold, PassedGuards, At, IsAvailableForLoan,
        LoanEligible, HasActiveRequest, IsActive, IsOnLoan, ReportAllowed, ResolveAllowed
  <2>2. ASSUME NEW w \in Workers, Load(w) \/ Read(w) \/ Commit(w) \/ Abort(w)
        PROVE  PassedGuards(w)'
    <3>1. CASE Load(w)
      BY <1>2, <3>1, LoadedGuards
    <3>2. CASE Read(w)
      BY <1>2, <3>2, ReadGuards DEF GuardsStillHold
    <3>3. CASE Commit(w) \/ Abort(w)
      BY <1>2, <3>3, CommitEndsTask, IdleGuards DEF Abort, Finish, ServerTypeOK
    <3> QED BY <2>2, <3>1, <3>2, <3>3
  <2> QED BY <1>2, <2>1, <2>2 DEF ServerNext, GuardsStillHold
<1>3. ASSUME ServerTypeOK, GuardsStillHold, [ServerNext]_serverVars
      PROVE  [DeskNext]_deskVars
  BY <1>3, ReadingSteps, GuardedCommit DEF ServerNext, serverVars, GuardsStillHold
<1> QED
  BY <1>1, <1>2, <1>3, ServerTypeCorrect, PTL DEF ServerSpec, ServesSerially, DeskSpec
=============================================================================
