-------------------------- MODULE AssetDesk_proofs --------------------------
(* What the asset desk guarantees for any number of assets, users, requests *)
(* and incident reports.                                                    *)
EXTENDS AssetDesk, TLAPS

-----------------------------------------------------------------------------
(* Type correctness.                                                        *)

\* Writing a status of the model keeps the status column well typed.
LEMMA SaveStatusType ==
  ASSUME LedgerTypeOK, NEW a \in Assets, NEW s \in AssetStatuses, SaveStatus(a, s)
  PROVE  LedgerTypeOK'
BY DEF LedgerTypeOK, SaveStatus

\* An entry for a known action and asset code keeps the log well typed.
LEMMA LogActionType ==
  ASSUME AuditTypeOK, NEW action \in AuditActions, NEW code \in AssetCodes,
         LogAction(action, code)
  PROVE  AuditTypeOK'
<1>1. auditLog[action] \in [AssetCodes -> Nat]
  BY DEF AuditTypeOK
<1>2. [auditLog[action] EXCEPT ![code] = @ + 1] \in [AssetCodes -> Nat]
  BY <1>1
<1> QED
  BY <1>2 DEF AuditTypeOK, LogAction

\* The writes of every loan service function are well typed, whatever its
\* guard has found.
LEMMA LoanWritesType ==
  ASSUME DeskTypeOK, NEW r \in Requests, NEW status, UNCHANGED incidentStatus,
         \/ CreateWrites(r)
         \/ ApproveWrites(r)
         \/ RejectWrites(r)
         \/ RequestReturnWrites(r)
         \/ ConfirmWrites(r, status)
  PROVE  DeskTypeOK'
<1> USE DEF DeskTypeOK
<1>a. /\ r.asset \in Assets
      /\ r.asset \in AssetCodes
      /\ "in_stock" \in AssetStatuses
      /\ "on_loan" \in AssetStatuses
  BY DEF Requests, AssetCodes, AssetStatuses
<1>b. /\ {"loan_requested", "loan_approved", "loan_rejected"} \subseteq AuditActions
      /\ {"return_requested", "return_confirmed"} \subseteq AuditActions
  BY DEF AuditActions
<1>c. IncidentTypeOK'
  BY DEF IncidentTypeOK
<1>1. CASE CreateWrites(r)
  <2>1. AuditTypeOK'
    BY <1>a, <1>b, <1>1, LogActionType DEF CreateWrites
  <2>2. LedgerTypeOK' /\ LoanTypeOK'
    BY <1>1 DEF CreateWrites, LedgerTypeOK, LoanTypeOK, RequestStatuses
  <2> QED BY <1>c, <2>1, <2>2
<1>2. CASE ApproveWrites(r)
  <2>1. AuditTypeOK' /\ LedgerTypeOK'
    BY <1>a, <1>b, <1>2, LogActionType, SaveStatusType DEF ApproveWrites
  <2>2. LoanTypeOK'
    BY <1>2 DEF ApproveWrites, LoanTypeOK, RequestStatuses
  <2> QED BY <1>c, <2>1, <2>2
<1>3. CASE RejectWrites(r)
  <2>1. AuditTypeOK'
    BY <1>a, <1>b, <1>3, LogActionType DEF RejectWrites
  <2>2. LedgerTypeOK' /\ LoanTypeOK'
    BY <1>3 DEF RejectWrites, LedgerTypeOK, LoanTypeOK, RequestStatuses
  <2> QED BY <1>c, <2>1, <2>2
<1>4. CASE RequestReturnWrites(r)
  <2>1. AuditTypeOK'
    BY <1>a, <1>b, <1>4, LogActionType DEF RequestReturnWrites
  <2>2. LedgerTypeOK' /\ LoanTypeOK'
    BY <1>4 DEF RequestReturnWrites, LedgerTypeOK, LoanTypeOK
  <2> QED BY <1>c, <2>1, <2>2
<1>5. CASE ConfirmWrites(r, status)
  <2>1. AuditTypeOK'
    BY <1>a, <1>b, <1>5, LogActionType DEF ConfirmWrites
  <2>2. LedgerTypeOK'
    <3>1. CASE status = "on_loan"
      BY <1>a, <1>5, <3>1, SaveStatusType DEF ConfirmWrites
    <3>2. CASE status # "on_loan"
      BY <1>5, <3>2 DEF ConfirmWrites, LedgerTypeOK
    <3> QED BY <3>1, <3>2
  <2>3. LoanTypeOK'
    BY <1>5 DEF ConfirmWrites, LoanTypeOK
  <2> QED BY <1>c, <2>1, <2>2, <2>3
<1> QED
  BY <1>1, <1>2, <1>3, <1>4, <1>5

\* So are the writes of the two incident service functions.
LEMMA IncidentWritesType ==
  ASSUME DeskTypeOK, NEW i \in IncidentReports, UNCHANGED loanVars,
         ReportWrites(i) \/ ResolveWrites(i)
  PROVE  DeskTypeOK'
<1> USE DEF DeskTypeOK
<1>a. /\ i.asset \in Assets
      /\ i.asset \in AssetCodes
      /\ "in_stock" \in AssetStatuses
      /\ StatusOfType(i.type) \in AssetStatuses
      /\ {"incident_reported", "incident_resolved"} \subseteq AuditActions
  BY DEF IncidentReports, AssetCodes, IncidentTypes, StatusOfType, AssetStatuses, AuditActions
<1>1. AuditTypeOK' /\ LedgerTypeOK'
  BY <1>a, LogActionType, SaveStatusType DEF ReportWrites, ResolveWrites
<1>2. IncidentTypeOK'
  BY DEF ReportWrites, ResolveWrites, IncidentTypeOK
<1>3. LoanTypeOK'
  BY DEF LoanTypeOK, loanVars
<1> QED
  BY <1>1, <1>2, <1>3

\* A step of something else changes no type.
LEMMA DeskTypeStutter ==
  ASSUME DeskTypeOK, UNCHANGED deskVars
  PROVE  DeskTypeOK'
BY DEF deskVars, loanVars, DeskTypeOK, LedgerTypeOK, AuditTypeOK, LoanTypeOK, IncidentTypeOK

\* Every step of the desk is one service call, well typed by its writes.
LEMMA DeskTypeStep ==
  ASSUME DeskTypeOK, [DeskNext]_deskVars
  PROVE  DeskTypeOK'
<1>1. ASSUME NEW r \in Requests, LoanStep(r), UNCHANGED incidentStatus
      PROVE  DeskTypeOK'
  BY <1>1, LoanWritesType
  DEF LoanStep, CreateLoanRequest, ApproveLoanRequest, RejectLoanRequest, RequestReturn,
      ConfirmReturn
<1>2. ASSUME NEW i \in IncidentReports, IncidentStep(i), UNCHANGED loanVars
      PROVE  DeskTypeOK'
  BY <1>2, IncidentWritesType DEF IncidentStep, ReportIncident, ResolveIncident
<1> QED
  BY <1>1, <1>2, DeskTypeStutter DEF DeskNext

\* The tables start well typed.
LEMMA DeskTypeInit ==
  ASSUME DeskInit
  PROVE  DeskTypeOK
BY DEF DeskInit, DeskTypeOK, LedgerInit, AuditInit, LoanInit, IncidentInit,
       LedgerTypeOK, AuditTypeOK, LoanTypeOK, IncidentTypeOK, AssetStatuses

\* Whatever the handlers do, every table holds values of its columns' types:
\* in particular no asset ends with a status outside the five of the model.
THEOREM DeskTypeCorrect == DeskSpec => []DeskTypeOK
BY DeskTypeInit, DeskTypeStep, PTL DEF DeskSpec

-----------------------------------------------------------------------------
(* Requests, loan records and return records agree.                         *)

\* Each service call changes the three loan tables together or not at all.
LEMMA RecordsMatchStep ==
  ASSUME DeskTypeOK, RecordsMatchRequests, [DeskNext]_deskVars
  PROVE  RecordsMatchRequests'
<1> USE DEF DeskTypeOK, LoanTypeOK, RecordsMatchRequests
<1>1. ASSUME NEW r \in Requests, LoanStep(r)
      PROVE  RecordsMatchRequests'
  <2>1. CASE CreateLoanRequest(r)
    BY <2>1 DEF CreateLoanRequest, CreateWrites
  <2>2. CASE ApproveLoanRequest(r)
    BY <2>2 DEF ApproveLoanRequest, ApproveWrites
  <2>3. CASE RejectLoanRequest(r)
    BY <2>3 DEF RejectLoanRequest, RejectWrites
  <2>4. CASE RequestReturn(r)
    BY <2>4 DEF RequestReturn, RequestReturnWrites
  <2>5. CASE ConfirmReturn(r)
    BY <2>5 DEF ConfirmReturn, ConfirmWrites
  <2> QED
    BY <1>1, <2>1, <2>2, <2>3, <2>4, <2>5 DEF LoanStep
<1>2. CASE UNCHANGED loanVars
  BY <1>2 DEF loanVars
<1> QED
  BY <1>1, <1>2 DEF DeskNext, deskVars

\* The three loan tables never disagree while requests are served one at a
\* time: a request is approved exactly when it has a loan record, and only
\* recorded loans are asked back or returned.
THEOREM RecordsAlwaysMatch == DeskSpec => []RecordsMatchRequests
<1>1. DeskInit => RecordsMatchRequests
  BY DEF DeskInit, LoanInit, RecordsMatchRequests
<1> QED
  BY <1>1, RecordsMatchStep, DeskTypeCorrect, PTL DEF DeskSpec

-----------------------------------------------------------------------------
(* No user has two undecided or approved applications for one asset.        *)

\* Only an eligible application makes a request active.
LEMMA OneActiveStep ==
  ASSUME DeskTypeOK, OneActiveRequest, [DeskNext]_deskVars
  PROVE  OneActiveRequest'
<1> USE DEF DeskTypeOK, LoanTypeOK, OneActiveRequest, IsActive
<1>1. ASSUME NEW r \in Requests, LoanStep(r)
      PROVE  OneActiveRequest'
  <2>1. CASE CreateLoanRequest(r)
    \* The eligibility check found no active request like the new one.
    <3>1. \A q \in Requests :
            q.asset = r.asset /\ q.requester = r.requester => ~IsActive(q)
      BY <2>1 DEF CreateLoanRequest, LoanEligible, HasActiveRequest
    <3>2. \A q \in Requests : q # r => requestStatus'[q] = requestStatus[q]
      BY <2>1 DEF CreateLoanRequest, CreateWrites
    <3> QED BY <3>1, <3>2
  <2>2. CASE ApproveLoanRequest(r)
    BY <2>2 DEF ApproveLoanRequest, ApproveWrites
  <2>3. CASE RejectLoanRequest(r)
    BY <2>3 DEF RejectLoanRequest, RejectWrites
  <2>4. CASE RequestReturn(r)
    BY <2>4 DEF RequestReturn, RequestReturnWrites
  <2>5. CASE ConfirmReturn(r)
    BY <2>5 DEF ConfirmReturn, ConfirmWrites
  <2> QED
    BY <1>1, <2>1, <2>2, <2>3, <2>4, <2>5 DEF LoanStep
<1>2. CASE UNCHANGED loanVars
  BY <1>2 DEF loanVars
<1> QED
  BY <1>1, <1>2 DEF DeskNext, deskVars

\* The duplicate check of check_loan_eligibility is enough while requests are
\* served one at a time, although no constraint of the database backs it.
THEOREM OneActiveRequestAlways == DeskSpec => []OneActiveRequest
<1>1. DeskInit => OneActiveRequest
  BY DEF DeskInit, LoanInit, OneActiveRequest, IsActive
<1> QED
  BY <1>1, OneActiveStep, DeskTypeCorrect, PTL DEF DeskSpec

-----------------------------------------------------------------------------
(* Every status that takes an asset out of circulation is explained.        *)

\* The statuses that incidents assign are not the two that loans assign.
LEMMA IncidentStatuses ==
  ASSUME NEW type \in IncidentTypes
  PROVE  /\ StatusOfType(type) # "in_stock"
         /\ StatusOfType(type) # "on_loan"
         /\ \A other \in IncidentTypes :
              StatusOfType(type) = StatusOfType(other) => type = other
BY DEF IncidentTypes, StatusOfType

\* A loan step leaves the incident half of the explanation alone: it moves the
\* asset to a status that no incident explains, or does not move it.
LEMMA LoanStepKeepsReports ==
  ASSUME DeskTypeOK, StatusExplained, NEW r \in Requests, LoanStep(r),
         UNCHANGED incidentStatus,
         NEW a \in Assets, NEW type \in IncidentTypes,
         assetStatus'[a] = StatusOfType(type)
  PROVE  OpenReport(a, type)'
<1>1. r.asset \in Assets
  BY DEF Requests
<1>2. assetStatus[a] = StatusOfType(type)
  BY <1>1, IncidentStatuses
  DEF LoanStep, CreateLoanRequest, CreateWrites, ApproveLoanRequest, ApproveWrites,
      RejectLoanRequest, RejectWrites, RequestReturn, RequestReturnWrites,
      ConfirmReturn, ConfirmWrites, SaveStatus, DeskTypeOK, LedgerTypeOK
<1>3. OpenReport(a, type)
  BY <1>2 DEF StatusExplained
<1> QED
  BY <1>3 DEF OpenReport, ReportsOf

\* After a loan step an asset on loan still has a loan that is out.
LEMMA LoanStepKeepsLoan ==
  ASSUME DeskTypeOK, StatusExplained, RecordsMatchRequests,
         NEW r \in Requests, LoanStep(r),
         NEW a \in Assets, assetStatus'[a] = "on_loan"
  PROVE  ActiveLoans(a)' # {}
<1> USE DEF DeskTypeOK, LedgerTypeOK, ActiveLoans, IsOnLoan, SaveStatus
<1>0. r.asset \in Assets
  BY DEF Requests
<1>1. CASE ApproveLoanRequest(r)
  <2>1. CASE a = r.asset
    <3>1. r \in loanRecords' /\ r \notin returnRecords'
      BY <1>1 DEF ApproveLoanRequest, ApproveWrites, RecordsMatchRequests
    <3> QED BY <2>1, <3>1
  <2>2. CASE a # r.asset
    BY <1>0, <1>1, <2>2 DEF ApproveLoanRequest, ApproveWrites, StatusExplained
  <2> QED BY <2>1, <2>2
<1>2. CASE ConfirmReturn(r)
  \* The asset of the returned loan is not on loan any more.
  <2>1. a # r.asset
    BY <1>0, <1>2 DEF ConfirmReturn, ConfirmWrites
  <2>2. assetStatus[a] = "on_loan" /\ ActiveLoans(a) # {}
    BY <1>0, <1>2, <2>1 DEF ConfirmReturn, ConfirmWrites, StatusExplained
  <2> QED BY <1>2, <2>1, <2>2 DEF ConfirmReturn, ConfirmWrites
<1>3. CASE \/ CreateLoanRequest(r) \/ RejectLoanRequest(r) \/ RequestReturn(r)
  BY <1>3 DEF CreateLoanRequest, CreateWrites, RejectLoanRequest, RejectWrites,
              RequestReturn, RequestReturnWrites, StatusExplained
<1> QED
  BY <1>1, <1>2, <1>3 DEF LoanStep

\* After an incident step every asset is still explained.
LEMMA IncidentStepExplained ==
  ASSUME DeskTypeOK, StatusExplained, NEW i \in IncidentReports, IncidentStep(i),
         UNCHANGED loanVars
  PROVE  StatusExplained'
<1> USE DEF DeskTypeOK, LedgerTypeOK, IncidentTypeOK, SaveStatus
<1>0. i.asset \in Assets /\ i.type \in IncidentTypes
  BY DEF IncidentReports
<1> SUFFICES ASSUME NEW a \in Assets
             PROVE  /\ assetStatus'[a] = "on_loan" => ActiveLoans(a)' # {}
                    /\ \A type \in IncidentTypes :
                         assetStatus'[a] = StatusOfType(type) => OpenReport(a, type)'
  BY DEF StatusExplained
<1>1. ASSUME assetStatus'[a] = "on_loan"
      PROVE  ActiveLoans(a)' # {}
  <2>1. assetStatus[a] = "on_loan"
    BY <1>0, <1>1, IncidentStatuses
    DEF IncidentStep, ReportIncident, ReportWrites, ResolveIncident, ResolveWrites
  <2> QED
    BY <2>1 DEF StatusExplained, ActiveLoans, IsOnLoan, loanVars
<1>2. ASSUME NEW type \in IncidentTypes, assetStatus'[a] = StatusOfType(type)
      PROVE  OpenReport(a, type)'
  <2>1. CASE a = i.asset
    \* Only the report that has just been filed explains the new status.
    <3>1. ReportIncident(i)
      BY <1>0, <1>2, <2>1, IncidentStatuses DEF IncidentStep, ResolveIncident, ResolveWrites
    <3>2. i.type = type
      BY <1>0, <1>2, <2>1, <3>1, IncidentStatuses DEF ReportIncident, ReportWrites
    <3>3. incidentStatus'[i] = "open"
      BY <3>1 DEF ReportIncident, ReportWrites
    <3> QED BY <2>1, <3>2, <3>3 DEF OpenReport, ReportsOf
  <2>2. CASE a # i.asset
    <3>1. OpenReport(a, type)
      BY <1>0, <1>2, <2>2
      DEF StatusExplained, IncidentStep, ReportIncident, ReportWrites,
          ResolveIncident, ResolveWrites
    <3>2. \A j \in ReportsOf(a) : incidentStatus'[j] = incidentStatus[j]
      BY <2>2
      DEF ReportsOf, IncidentStep, ReportIncident, ReportWrites, ResolveIncident, ResolveWrites
    <3> QED BY <3>1, <3>2 DEF OpenReport, ReportsOf
  <2> QED BY <2>1, <2>2
<1> QED BY <1>1, <1>2

LEMMA StatusExplainedStep ==
  ASSUME DeskTypeOK, RecordsMatchRequests, StatusExplained, [DeskNext]_deskVars
  PROVE  StatusExplained'
<1>1. ASSUME NEW r \in Requests, LoanStep(r), UNCHANGED incidentStatus
      PROVE  StatusExplained'
  BY <1>1, LoanStepKeepsReports, LoanStepKeepsLoan DEF StatusExplained
<1>2. ASSUME NEW i \in IncidentReports, IncidentStep(i), UNCHANGED loanVars
      PROVE  StatusExplained'
  BY <1>2, IncidentStepExplained
<1>3. CASE UNCHANGED deskVars
  BY <1>3 DEF deskVars, loanVars, StatusExplained, ActiveLoans, IsOnLoan, OpenReport, ReportsOf
<1> QED
  BY <1>1, <1>2, <1>3 DEF DeskNext

\* No asset is ever out of circulation without a row whose handler can bring
\* it back or that says why it never comes back.
THEOREM StatusAlwaysExplained == DeskSpec => []StatusExplained
<1>1. DeskInit => StatusExplained
  BY IncidentStatuses DEF DeskInit, LedgerInit, StatusExplained
<1> QED
  BY <1>1, StatusExplainedStep, DeskTypeCorrect, RecordsAlwaysMatch, PTL DEF DeskSpec

-----------------------------------------------------------------------------
(* Only incident operations move an asset that an incident has moved.       *)

\* A loan operation writes the status of an asset only if it is in stock or on
\* loan at that moment, so what an incident has assigned stays.
THEOREM IncidentStatusAlwaysKept == DeskSpec => IncidentStatusKept
<1>1. ASSUME DeskTypeOK, [DeskNext]_deskVars, NEW a \in Assets,
             assetStatus[a] \in {"in_repair", "lost", "retired"},
             incidentStatus' = incidentStatus
      PROVE  assetStatus'[a] = assetStatus[a]
  <2> USE DEF DeskTypeOK, LedgerTypeOK, SaveStatus
  <2>1. ASSUME NEW r \in Requests, LoanStep(r)
        PROVE  assetStatus'[a] = assetStatus[a]
    BY <1>1, <2>1
    DEF Requests, LoanStep, CreateLoanRequest, CreateWrites, ApproveLoanRequest,
        ApproveWrites, IsAvailableForLoan, RejectLoanRequest, RejectWrites,
        RequestReturn, RequestReturnWrites, ConfirmReturn, ConfirmWrites
  <2>2. ASSUME NEW i \in IncidentReports, IncidentStep(i)
        PROVE  FALSE
    BY <1>1, <2>2
    DEF IncidentTypeOK, IncidentStep, ReportIncident, ReportWrites, ResolveAllowed,
        ResolveIncident, ResolveWrites
  <2>3. CASE UNCHANGED deskVars
    BY <2>3 DEF deskVars
  <2> QED
    BY <1>1, <2>1, <2>2, <2>3 DEF DeskNext
<1>2. DeskTypeOK /\ [DeskNext]_deskVars =>
        [\A a \in Assets :
           assetStatus[a] \in {"in_repair", "lost", "retired"} /\ assetStatus'[a] # assetStatus[a]
             => incidentStatus' # incidentStatus]_deskVars
  BY <1>1
<1> QED
  BY <1>2, DeskTypeCorrect, PTL DEF DeskSpec, IncidentStatusKept

-----------------------------------------------------------------------------
(* The desk implements the life cycle of an application.                    *)

\* A loan step moves the application it is about to a following stage.
LEMMA LoanStepAdvances ==
  ASSUME DeskTypeOK, RecordsMatchRequests, NEW r \in Requests, LoanStep(r)
  PROVE  /\ StageOf(r)' \in Lifecycle!Stages
         /\ <<StageOf(r), StageOf(r)'>> \in Lifecycle!Transitions
         /\ \A q \in Requests : q # r => StageOf(q)' = StageOf(q)
<1> USE DEF DeskTypeOK, LoanTypeOK, RecordsMatchRequests, StageOf,
            Lifecycle!Stages, Lifecycle!Transitions
<1>1. CASE CreateLoanRequest(r)
  BY <1>1 DEF CreateLoanRequest, CreateWrites
<1>2. CASE ApproveLoanRequest(r)
  BY <1>2 DEF ApproveLoanRequest, ApproveWrites
<1>3. CASE RejectLoanRequest(r)
  BY <1>3 DEF RejectLoanRequest, RejectWrites
<1>4. CASE RequestReturn(r)
  BY <1>4 DEF RequestReturn, RequestReturnWrites, IsOnLoan
<1>5. CASE ConfirmReturn(r)
  BY <1>5 DEF ConfirmReturn, ConfirmWrites, IsOnLoan
<1> QED
  BY <1>1, <1>2, <1>3, <1>4, <1>5 DEF LoanStep

\* Every application at the desk goes through the stages of LoanLifecycle in
\* order: decided once, returned once, whatever incidents happen meanwhile.
THEOREM DeskFollowsLifecycle == DeskSpec => LifecycleFollowed
<1> DEFINE stages == [r \in Requests |-> StageOf(r)]
<1>1. DeskInit => Lifecycle!LifecycleInit
  BY DEF DeskInit, LoanInit, Lifecycle!LifecycleInit, StageOf
<1>2. DeskTypeOK /\ RecordsMatchRequests /\ [DeskNext]_deskVars
        => [Lifecycle!LifecycleNext]_stages
  <2> SUFFICES ASSUME DeskTypeOK, RecordsMatchRequests, [DeskNext]_deskVars
               PROVE  [Lifecycle!LifecycleNext]_stages
    OBVIOUS
  <2>1. ASSUME NEW r \in Requests, LoanStep(r)
        PROVE  Lifecycle!LifecycleNext
    <3>1. /\ StageOf(r)' \in Lifecycle!Stages
          /\ <<StageOf(r), StageOf(r)'>> \in Lifecycle!Transitions
          /\ \A q \in Requests : q # r => StageOf(q)' = StageOf(q)
      BY <2>1, LoanStepAdvances
    <3>2. stages' = [stages EXCEPT ![r] = StageOf(r)']
      BY <3>1
    <3>3. Lifecycle!Advance(r)
      BY <3>1, <3>2 DEF Lifecycle!Advance
    <3> QED BY <3>3 DEF Lifecycle!LifecycleNext
  <2>2. CASE UNCHANGED loanVars
    BY <2>2 DEF loanVars, StageOf
  <2> QED
    BY <2>1, <2>2 DEF DeskNext, deskVars
<1> QED
  BY <1>1, <1>2, DeskTypeCorrect, RecordsAlwaysMatch, PTL
  DEF DeskSpec, LifecycleFollowed, Lifecycle!LifecycleSpec
=============================================================================
