----------------------------- MODULE AssetDesk -----------------------------
(* The asset desk: loans and incidents over the same asset table and audit  *)
(* log, one service call at a time.  The two apps do not call each other;   *)
(* they meet in Asset.status, which both read and both overwrite.           *)
EXTENDS Loans, Incidents

deskVars == <<assetStatus, auditLog, loanVars, incidentStatus>>

DeskTypeOK == LedgerTypeOK /\ AuditTypeOK /\ LoanTypeOK /\ IncidentTypeOK

DeskInit == LedgerInit /\ AuditInit /\ LoanInit /\ IncidentInit

DeskNext ==
  \/ \E r \in Requests : LoanStep(r) /\ UNCHANGED incidentStatus
  \/ \E i \in IncidentReports : IncidentStep(i) /\ UNCHANGED loanVars

DeskSpec == DeskInit /\ [][DeskNext]_deskVars

-----------------------------------------------------------------------------
(* Properties.                                                              *)

OpenReport(a, type) ==
  \E i \in ReportsOf(a) : i.type = type /\ incidentStatus[i] = "open"

\* Every status an asset can be stuck in has a row that explains it, and that
\* row is the one whose handler can move the asset on: an asset on loan has a
\* loan that is still out, an asset in repair an open breakdown, a lost or
\* retired asset a report of that type.  Otherwise the asset would be out of
\* circulation with nothing left to return or to resolve.
StatusExplained ==
  \A a \in Assets :
    /\ assetStatus[a] = "on_loan" => ActiveLoans(a) # {}
    /\ \A type \in IncidentTypes :
         assetStatus[a] = StatusOfType(type) => OpenReport(a, type)

\* Resolving a breakdown puts the asset back in stock even when a loan of it
\* is still out.  That is the only way to a second loan at the same time: the
\* loans out never outnumber the resolved breakdowns by more than one, and
\* not at all while the asset is in stock.
LoansBoundedByRepairs ==
  \A a \in Assets :
    Cardinality(ActiveLoans(a)) <=
      Cardinality(RepairsOf(a)) + IF IsAvailableForLoan(a) THEN 0 ELSE 1

\* "If an incident has moved the asset to another state, that state is kept":
\* only an incident operation takes an asset out of in_repair, lost or retired;
\* approving, returning and the other loan operations leave it there.
IncidentStatusKept ==
  [][\A a \in Assets :
       assetStatus[a] \in {"in_repair", "lost", "retired"} /\ assetStatus'[a] # assetStatus[a]
         => incidentStatus' # incidentStatus]_deskVars

StageOf(r) ==
  IF r \in returnRecords THEN "returned"
  ELSE IF r \in returnRequested THEN "return_requested"
  ELSE IF r \in loanRecords THEN "lent"
  ELSE requestStatus[r]

Lifecycle == INSTANCE LoanLifecycle
  WITH Applications <- Requests, stage <- [r \in Requests |-> StageOf(r)]

\* Each application goes through its stages in order and one at a time,
\* whatever incidents do to its asset in the meantime: no decision is taken
\* twice or reversed, no loan is asked back after it was returned.
LifecycleFollowed == Lifecycle!LifecycleSpec

\* "Once reported lost, an asset cannot be put back in stock", "lost and
\* retired are permanent": an asset with such a report stays out of stock.
LostStaysOutOfStock ==
  \A i \in IncidentReports :
    i.type \in {"lost", "retired"} /\ Filed(i) => ~IsAvailableForLoan(i.asset)
=============================================================================
