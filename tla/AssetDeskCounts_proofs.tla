----------------------- MODULE AssetDeskCounts_proofs -----------------------
(* Theorems of the asset desk about the loans of an asset and the entries   *)
(* of the audit log: how many loans can be out at a time, that the log has  *)
(* an entry for every row, and how loans alone hand an asset on.            *)
EXTENDS AssetDesk_proofs, FiniteSetTheorems

-----------------------------------------------------------------------------
(* The loan records and the resolved breakdowns are finite: they start      *)
(* empty and grow by one row at a time.                                     *)

FiniteRows ==
  /\ IsFiniteSet(loanRecords)
  /\ \A a \in Assets : IsFiniteSet(RepairsOf(a))

\* Loan steps do not touch incidents and resolving touches one report.
LEMMA RepairsStep ==
  ASSUME DeskTypeOK, NEW i \in IncidentReports, NEW a \in Assets
  PROVE  /\ UNCHANGED incidentStatus => RepairsOf(a)' = RepairsOf(a)
         /\ ReportIncident(i) => RepairsOf(a)' = RepairsOf(a)
         /\ ResolveIncident(i) =>
              /\ a = i.asset => i \notin RepairsOf(a) /\ RepairsOf(a)' = RepairsOf(a) \cup {i}
              /\ a # i.asset => RepairsOf(a)' = RepairsOf(a)
BY DEF DeskTypeOK, IncidentTypeOK, RepairsOf, ReportsOf, ReportIncident, ReportWrites,
       ResolveIncident, ResolveWrites, ResolveAllowed

\* The resolved reports of an asset depend on incidentStatus only.
LEMMA RepairsUnchanged ==
  ASSUME UNCHANGED incidentStatus, NEW a \in Assets
  PROVE  RepairsOf(a)' = RepairsOf(a)
BY DEF RepairsOf, ReportsOf

\* Every step adds at most one row, so the rows stay finite in number.
LEMMA FiniteRowsStep ==
  ASSUME DeskTypeOK, FiniteRows, [DeskNext]_deskVars
  PROVE  FiniteRows'
<1> USE DEF FiniteRows
<1>1. ASSUME NEW r \in Requests, LoanStep(r), UNCHANGED incidentStatus
      PROVE  FiniteRows'
  <2>1. loanRecords' = loanRecords \/ loanRecords' = loanRecords \cup {r}
    BY <1>1
    DEF LoanStep, CreateLoanRequest, CreateWrites, ApproveLoanRequest, ApproveWrites,
        RejectLoanRequest, RejectWrites, RequestReturn, RequestReturnWrites,
        ConfirmReturn, ConfirmWrites
  <2>2. IsFiniteSet(loanRecords')
    BY <2>1, FS_AddElement
  <2> QED BY <1>1, <2>2, RepairsUnchanged
<1>2. ASSUME NEW i \in IncidentReports, IncidentStep(i), UNCHANGED loanVars
      PROVE  FiniteRows'
  <2>1. \A a \in Assets : RepairsOf(a)' = RepairsOf(a) \/ RepairsOf(a)' = RepairsOf(a) \cup {i}
    BY <1>2, RepairsStep DEF IncidentStep
  <2>2. ASSUME NEW a \in Assets PROVE IsFiniteSet(RepairsOf(a)')
    <3>1. IsFiniteSet(RepairsOf(a) \cup {i})
      BY FS_AddElement
    <3> QED BY <2>1, <3>1
  <2> QED BY <1>2, <2>2 DEF loanVars
<1>3. CASE UNCHANGED deskVars
  BY <1>3, RepairsUnchanged DEF deskVars, loanVars
<1> QED
  BY <1>1, <1>2, <1>3 DEF DeskNext

\* In every reachable state Cardinality is meaningful for the rows counted.
LEMMA FiniteRowsAlways == DeskSpec => []FiniteRows
<1>1. DeskInit => FiniteRows
  <2> SUFFICES ASSUME DeskInit PROVE FiniteRows
    OBVIOUS
  <2>1. \A a \in Assets : RepairsOf(a) = {}
    BY DEF DeskInit, IncidentInit, RepairsOf, ReportsOf
  <2> QED BY <2>1, FS_EmptySet DEF DeskInit, LoanInit, FiniteRows
<1> QED
  BY <1>1, FiniteRowsStep, DeskTypeCorrect, PTL DEF DeskSpec

-----------------------------------------------------------------------------
(* Two loans at a time need a resolved breakdown.                           *)

\* How each loan step changes the set of loans that are out.
LEMMA ActiveLoansStep ==
  ASSUME DeskTypeOK, RecordsMatchRequests, NEW r \in Requests, NEW a \in Assets
  PROVE  /\ ApproveLoanRequest(r) =>
              /\ a = r.asset => r \notin ActiveLoans(a) /\ ActiveLoans(a)' = ActiveLoans(a) \cup {r}
              /\ a # r.asset => ActiveLoans(a)' = ActiveLoans(a)
         /\ ConfirmReturn(r) =>
              /\ a = r.asset => r \in ActiveLoans(a) /\ ActiveLoans(a)' = ActiveLoans(a) \ {r}
              /\ a # r.asset => ActiveLoans(a)' = ActiveLoans(a)
         /\ CreateLoanRequest(r) \/ RejectLoanRequest(r) \/ RequestReturn(r)
              => ActiveLoans(a)' = ActiveLoans(a)
BY DEF RecordsMatchRequests, ActiveLoans, IsOnLoan, ApproveLoanRequest, ApproveWrites,
       ConfirmReturn, ConfirmWrites, CreateLoanRequest, CreateWrites,
       RejectLoanRequest, RejectWrites, RequestReturn, RequestReturnWrites

\* Loans out and resolved reports can be counted.
LEMMA CardinalitiesAreNat ==
  ASSUME FiniteRows, NEW a \in Assets
  PROVE  /\ IsFiniteSet(ActiveLoans(a))
         /\ Cardinality(ActiveLoans(a)) \in Nat
         /\ IsFiniteSet(RepairsOf(a))
         /\ Cardinality(RepairsOf(a)) \in Nat
<1>1. ActiveLoans(a) \in SUBSET loanRecords
  BY DEF ActiveLoans
<1>2. IsFiniteSet(ActiveLoans(a))
  BY <1>1, FS_Subset DEF FiniteRows
<1> QED
  BY <1>2, FS_CardinalityType DEF FiniteRows

\* A loan needs an asset in stock, and only a repair that is resolved while a
\* loan is out puts an asset in stock too early: each step keeps the bound.
LEMMA LoansBoundedStep ==
  ASSUME DeskTypeOK, RecordsMatchRequests, FiniteRows, LoansBoundedByRepairs,
         [DeskNext]_deskVars
  PROVE  LoansBoundedByRepairs'
<1> DEFINE Loans(a)   == Cardinality(ActiveLoans(a))
           Repairs(a) == Cardinality(RepairsOf(a))
<1> SUFFICES ASSUME NEW a \in Assets
             PROVE  Loans(a)' <= Repairs(a)' + IF IsAvailableForLoan(a)' THEN 0 ELSE 1
  BY DEF LoansBoundedByRepairs
<1>a. /\ Loans(a) \in Nat /\ Repairs(a) \in Nat
      /\ IsFiniteSet(ActiveLoans(a)) /\ IsFiniteSet(RepairsOf(a))
  BY CardinalitiesAreNat
<1>b. Loans(a) <= Repairs(a) + IF IsAvailableForLoan(a) THEN 0 ELSE 1
  BY DEF LoansBoundedByRepairs
<1>1. ASSUME NEW r \in Requests, LoanStep(r), UNCHANGED incidentStatus
      PROVE  Loans(a)' <= Repairs(a)' + IF IsAvailableForLoan(a)' THEN 0 ELSE 1
  <2>0. Repairs(a)' = Repairs(a) /\ r.asset \in Assets
    BY <1>1, RepairsUnchanged DEF Requests
  <2>1. CASE ApproveLoanRequest(r) /\ a = r.asset
    <3>1. IsAvailableForLoan(a) /\ ~IsAvailableForLoan(a)'
      BY <2>0, <2>1
      DEF ApproveLoanRequest, ApproveWrites, IsAvailableForLoan, SaveStatus, DeskTypeOK, LedgerTypeOK
    <3>2. Loans(a)' = Loans(a) + 1
      BY <1>a, <2>1, ActiveLoansStep, FS_AddElement
    <3> QED BY <1>a, <1>b, <2>0, <3>1, <3>2
  <2>2. CASE ConfirmReturn(r) /\ a = r.asset
    <3>1. Loans(a)' = Loans(a) - 1
      BY <1>a, <2>2, ActiveLoansStep, FS_RemoveElement
    <3> QED BY <1>a, <1>b, <2>0, <3>1
  <2>3. CASE /\ ~(ApproveLoanRequest(r) /\ a = r.asset)
             /\ ~(ConfirmReturn(r) /\ a = r.asset)
    <3>1. Loans(a)' = Loans(a)
      BY <1>1, <2>3, ActiveLoansStep DEF LoanStep
    <3>2. IsAvailableForLoan(a)' = IsAvailableForLoan(a)
      BY <1>1, <2>0, <2>3
      DEF LoanStep, CreateLoanRequest, CreateWrites, ApproveLoanRequest, ApproveWrites,
          RejectLoanRequest, RejectWrites, RequestReturn, RequestReturnWrites,
          ConfirmReturn, ConfirmWrites, IsAvailableForLoan, SaveStatus, DeskTypeOK, LedgerTypeOK
    <3> QED BY <1>b, <2>0, <3>1, <3>2
  <2> QED BY <2>1, <2>2, <2>3
<1>2. ASSUME NEW i \in IncidentReports, IncidentStep(i), UNCHANGED loanVars
      PROVE  Loans(a)' <= Repairs(a)' + IF IsAvailableForLoan(a)' THEN 0 ELSE 1
  <2>0. Loans(a)' = Loans(a)
    BY <1>2 DEF loanVars, ActiveLoans, IsOnLoan
  <2>1. CASE ResolveIncident(i) /\ a = i.asset
    <3>1. Repairs(a)' = Repairs(a) + 1
      BY <1>a, <2>1, RepairsStep, FS_AddElement
    <3> QED BY <1>a, <1>b, <2>0, <3>1
  <2>2. CASE ~(ResolveIncident(i) /\ a = i.asset)
    <3>1. Repairs(a)' = Repairs(a)
      BY <1>2, <2>2, RepairsStep DEF IncidentStep
    \* A report takes the asset it is about out of stock.
    <3>2. IsAvailableForLoan(a)' => IsAvailableForLoan(a)
      BY <1>2, <2>2, IncidentStatuses
      DEF IncidentReports, IncidentStep, ReportIncident, ReportWrites, ResolveIncident,
          ResolveWrites, IsAvailableForLoan, SaveStatus, DeskTypeOK, LedgerTypeOK
    <3> QED BY <1>a, <1>b, <2>0, <3>1, <3>2
  <2> QED BY <2>1, <2>2
<1>3. CASE UNCHANGED deskVars
  BY <1>b, <1>3, RepairsUnchanged
  DEF deskVars, loanVars, ActiveLoans, IsOnLoan, IsAvailableForLoan
<1> QED
  BY <1>1, <1>2, <1>3 DEF DeskNext

\* An asset can be out under several loans at once only if breakdowns of it were
\* resolved while it was lent: without a resolved breakdown there is at most one.
THEOREM LoansAlwaysBounded == DeskSpec => []LoansBoundedByRepairs
<1>1. DeskInit => LoansBoundedByRepairs
  <2> SUFFICES ASSUME DeskInit, NEW a \in Assets
               PROVE  Cardinality(ActiveLoans(a)) <=
                        Cardinality(RepairsOf(a)) + IF IsAvailableForLoan(a) THEN 0 ELSE 1
    BY DEF LoansBoundedByRepairs
  <2>1. ActiveLoans(a) = {} /\ RepairsOf(a) = {}
    BY DEF DeskInit, LoanInit, IncidentInit, ActiveLoans, RepairsOf, ReportsOf
  <2> QED BY <2>1, FS_EmptySet
<1> QED
  BY <1>1, LoansBoundedStep, DeskTypeCorrect, RecordsAlwaysMatch, FiniteRowsAlways, PTL
  DEF DeskSpec

-----------------------------------------------------------------------------
(* The audit log has an entry for every row and no other.                   *)

Applied(a)   == { r \in RequestsOf(a) : requestStatus[r] # "absent" }
Approved(a)  == loanRecords \cap RequestsOf(a)
Rejected(a)  == { r \in RequestsOf(a) : requestStatus[r] = "rejected" }
AskedBack(a) == returnRequested \cap RequestsOf(a)
Returned(a)  == returnRecords \cap RequestsOf(a)
Reported(a)  == { i \in ReportsOf(a) : Filed(i) }

\* The entries for an action on an asset stand for the rows in S.
Tally(action, a, S) == IsFiniteSet(S) /\ Logged(action, a) = Cardinality(S)

\* Every audited action tallies with the rows it has left behind.
LoanTallies ==
  \A a \in Assets :
    /\ Tally("loan_requested", a, Applied(a))
    /\ Tally("loan_approved", a, Approved(a))
    /\ Tally("loan_rejected", a, Rejected(a))
    /\ Tally("return_requested", a, AskedBack(a))
    /\ Tally("return_confirmed", a, Returned(a))

IncidentTallies ==
  \A a \in Assets :
    /\ Tally("incident_reported", a, Reported(a))
    /\ Tally("incident_resolved", a, RepairsOf(a))

\* LogAction raises the number it names by one and leaves the others.
LEMMA LoggedAfter ==
  ASSUME AuditTypeOK, NEW action \in AuditActions, NEW code \in Assets,
         LogAction(action, code),
         NEW other \in AuditActions, NEW a \in Assets
  PROVE  Logged(other, a)' =
           IF other = action /\ a = code THEN Logged(other, a) + 1 ELSE Logged(other, a)
<1>1. /\ auditLog[other] \in [AssetCodes -> Nat]
      /\ auditLog[action] \in [AssetCodes -> Nat]
      /\ a \in AssetCodes /\ code \in AssetCodes
  BY DEF AuditTypeOK, AssetCodes
<1>2. auditLog' = [auditLog EXCEPT ![action] = [auditLog[action] EXCEPT ![code] = auditLog[action][code] + 1]]
  BY DEF LogAction
<1>3. auditLog'[other] = IF other = action
                         THEN [auditLog[action] EXCEPT ![code] = auditLog[action][code] + 1]
                         ELSE auditLog[other]
  BY <1>2 DEF AuditTypeOK
<1>4. auditLog'[other][a] = IF other = action /\ a = code
                            THEN auditLog[other][a] + 1 ELSE auditLog[other][a]
  BY <1>1, <1>3
<1> QED
  BY <1>4 DEF Logged

\* T is what the rows S become when one entry (action, code) is written and
\* row is added to the rows that this entry stands for, and to no others.
Follows(action, code, row, other, a, S, T) ==
  /\ other = action /\ a = code => row \notin S /\ T = S \cup {row}
  /\ ~(other = action /\ a = code) => T = S

\* A tally is kept when the row and the entry for it are added together, and
\* when neither is.
LEMMA TallyStep ==
  ASSUME AuditTypeOK, NEW action \in AuditActions, NEW code \in Assets,
         LogAction(action, code),
         NEW other \in AuditActions, NEW a \in Assets, NEW S, NEW T, NEW row,
         Tally(other, a, S),
         Follows(action, code, row, other, a, S, T)
  PROVE  IsFiniteSet(T) /\ Logged(other, a)' = Cardinality(T)
<1>1. CASE other = action /\ a = code
  <2>1. IsFiniteSet(T) /\ Cardinality(T) = Cardinality(S) + 1
    BY <1>1, FS_AddElement DEF Tally, Follows
  <2> QED BY <1>1, <2>1, LoggedAfter DEF Tally
<1>2. CASE ~(other = action /\ a = code)
  BY <1>2, LoggedAfter DEF Tally, Follows
<1> QED BY <1>1, <1>2

\* The seven tallies of an asset, kept together.
LEMMA TalliesStep ==
  ASSUME AuditTypeOK, LoanTallies, IncidentTallies,
         NEW action \in AuditActions, NEW code \in Assets, NEW row,
         LogAction(action, code),
         \A a \in Assets :
           /\ Follows(action, code, row, "loan_requested", a, Applied(a), Applied(a)')
           /\ Follows(action, code, row, "loan_approved", a, Approved(a), Approved(a)')
           /\ Follows(action, code, row, "loan_rejected", a, Rejected(a), Rejected(a)')
           /\ Follows(action, code, row, "return_requested", a, AskedBack(a), AskedBack(a)')
           /\ Follows(action, code, row, "return_confirmed", a, Returned(a), Returned(a)')
           /\ Follows(action, code, row, "incident_reported", a, Reported(a), Reported(a)')
           /\ Follows(action, code, row, "incident_resolved", a, RepairsOf(a), RepairsOf(a)')
  PROVE  LoanTallies' /\ IncidentTallies'
<1> SUFFICES
      ASSUME NEW a \in Assets
      PROVE  /\ Tally("loan_requested", a, Applied(a))'
             /\ Tally("loan_approved", a, Approved(a))'
             /\ Tally("loan_rejected", a, Rejected(a))'
             /\ Tally("return_requested", a, AskedBack(a))'
             /\ Tally("return_confirmed", a, Returned(a))'
             /\ Tally("incident_reported", a, Reported(a))'
             /\ Tally("incident_resolved", a, RepairsOf(a))'
  BY DEF LoanTallies, IncidentTallies
<1>a. /\ {"loan_requested", "loan_approved", "loan_rejected"} \subseteq AuditActions
      /\ {"return_requested", "return_confirmed"} \subseteq AuditActions
      /\ {"incident_reported", "incident_resolved"} \subseteq AuditActions
  BY DEF AuditActions
<1>1. Tally("loan_requested", a, Applied(a))'
  BY <1>a, TallyStep DEF LoanTallies, Tally
<1>2. Tally("loan_approved", a, Approved(a))'
  BY <1>a, TallyStep DEF LoanTallies, Tally
<1>3. Tally("loan_rejected", a, Rejected(a))'
  BY <1>a, TallyStep DEF LoanTallies, Tally
<1>4. Tally("return_requested", a, AskedBack(a))'
  BY <1>a, TallyStep DEF LoanTallies, Tally
<1>5. Tally("return_confirmed", a, Returned(a))'
  BY <1>a, TallyStep DEF LoanTallies, Tally
<1>6. Tally("incident_reported", a, Reported(a))'
  BY <1>a, TallyStep DEF IncidentTallies, Tally
<1>7. Tally("incident_resolved", a, RepairsOf(a))'
  BY <1>a, TallyStep DEF IncidentTallies, Tally
<1> QED BY <1>1, <1>2, <1>3, <1>4, <1>5, <1>6, <1>7

\* No rows and no entries at first.
LEMMA TalliesInit ==
  ASSUME DeskInit
  PROVE  LoanTallies /\ IncidentTallies
<1>1. \A a \in Assets :
        /\ Applied(a) = {} /\ Approved(a) = {} /\ Rejected(a) = {}
        /\ AskedBack(a) = {} /\ Returned(a) = {}
        /\ Reported(a) = {} /\ RepairsOf(a) = {}
  BY DEF DeskInit, LoanInit, IncidentInit, Applied, Approved, Rejected, AskedBack, Returned,
         Reported, RepairsOf, RequestsOf, ReportsOf, Filed
<1>2. \A a \in Assets, action \in AuditActions : Logged(action, a) = 0
  BY DEF DeskInit, AuditInit, Logged, AssetCodes
<1>3. \A a \in Assets, action \in AuditActions : Tally(action, a, {})
  BY <1>2, FS_EmptySet DEF Tally
<1> QED
  BY <1>1, <1>3 DEF LoanTallies, IncidentTallies, AuditActions

\* Every loan step adds one row and the entry for it.
LEMMA LoanStepTallies ==
  ASSUME DeskTypeOK, RecordsMatchRequests, LoanTallies, IncidentTallies,
         NEW r \in Requests, LoanStep(r), UNCHANGED incidentStatus
  PROVE  LoanTallies' /\ IncidentTallies'
<1> USE DEF DeskTypeOK
<1>a. /\ r.asset \in Assets
      /\ {"loan_requested", "loan_approved", "loan_rejected"} \subseteq AuditActions
      /\ {"return_requested", "return_confirmed"} \subseteq AuditActions
  BY DEF Requests, AuditActions
<1>b. \A a \in Assets : Reported(a)' = Reported(a) /\ RepairsOf(a)' = RepairsOf(a)
  BY DEF Reported, RepairsOf, ReportsOf, Filed
<1>1. CASE CreateLoanRequest(r)
  <2>1. \A a \in Assets :
          /\ a = r.asset => r \notin Applied(a) /\ Applied(a)' = Applied(a) \cup {r}
          /\ a # r.asset => Applied(a)' = Applied(a)
          /\ Rejected(a)' = Rejected(a)
    BY <1>1 DEF CreateLoanRequest, CreateWrites, Applied, Rejected, RequestsOf, LoanTypeOK
  <2>2. \A a \in Assets :
          Approved(a)' = Approved(a) /\ AskedBack(a)' = AskedBack(a) /\ Returned(a)' = Returned(a)
    BY <1>1 DEF CreateLoanRequest, CreateWrites, Approved, AskedBack, Returned, RequestsOf
  <2>3. LogAction("loan_requested", r.asset)
    BY <1>1 DEF CreateLoanRequest, CreateWrites
  <2> QED BY <1>a, <1>b, <2>1, <2>2, <2>3, TalliesStep DEF Follows
<1>2. CASE ApproveLoanRequest(r)
  <2>1. \A a \in Assets :
          /\ a = r.asset => r \notin Approved(a) /\ Approved(a)' = Approved(a) \cup {r}
          /\ a # r.asset => Approved(a)' = Approved(a)
          /\ AskedBack(a)' = AskedBack(a) /\ Returned(a)' = Returned(a)
    BY <1>2 DEF ApproveLoanRequest, ApproveWrites, Approved, AskedBack, Returned, RequestsOf
  <2>2. \A a \in Assets : Applied(a)' = Applied(a) /\ Rejected(a)' = Rejected(a)
    BY <1>2 DEF ApproveLoanRequest, ApproveWrites, Applied, Rejected, RequestsOf, LoanTypeOK
  <2>3. LogAction("loan_approved", r.asset)
    BY <1>2 DEF ApproveLoanRequest, ApproveWrites
  <2> QED BY <1>a, <1>b, <2>1, <2>2, <2>3, TalliesStep DEF Follows
<1>3. CASE RejectLoanRequest(r)
  <2>1. \A a \in Assets :
          /\ a = r.asset => r \notin Rejected(a) /\ Rejected(a)' = Rejected(a) \cup {r}
          /\ a # r.asset => Rejected(a)' = Rejected(a)
          /\ Applied(a)' = Applied(a)
    BY <1>3 DEF RejectLoanRequest, RejectWrites, Applied, Rejected, RequestsOf, LoanTypeOK
  <2>2. \A a \in Assets :
          Approved(a)' = Approved(a) /\ AskedBack(a)' = AskedBack(a) /\ Returned(a)' = Returned(a)
    BY <1>3 DEF RejectLoanRequest, RejectWrites, Approved, AskedBack, Returned, RequestsOf
  <2>3. LogAction("loan_rejected", r.asset)
    BY <1>3 DEF RejectLoanRequest, RejectWrites
  <2> QED BY <1>a, <1>b, <2>1, <2>2, <2>3, TalliesStep DEF Follows
<1>4. CASE RequestReturn(r)
  <2>1. \A a \in Assets :
          /\ a = r.asset => r \notin AskedBack(a) /\ AskedBack(a)' = AskedBack(a) \cup {r}
          /\ a # r.asset => AskedBack(a)' = AskedBack(a)
          /\ Approved(a)' = Approved(a) /\ Returned(a)' = Returned(a)
    BY <1>4 DEF RequestReturn, RequestReturnWrites, Approved, AskedBack, Returned, RequestsOf
  <2>2. \A a \in Assets : Applied(a)' = Applied(a) /\ Rejected(a)' = Rejected(a)
    BY <1>4 DEF RequestReturn, RequestReturnWrites, Applied, Rejected, RequestsOf
  <2>3. LogAction("return_requested", r.asset)
    BY <1>4 DEF RequestReturn, RequestReturnWrites
  <2> QED BY <1>a, <1>b, <2>1, <2>2, <2>3, TalliesStep DEF Follows
<1>5. CASE ConfirmReturn(r)
  <2>1. \A a \in Assets :
          /\ a = r.asset => r \notin Returned(a) /\ Returned(a)' = Returned(a) \cup {r}
          /\ a # r.asset => Returned(a)' = Returned(a)
          /\ Approved(a)' = Approved(a) /\ AskedBack(a)' = AskedBack(a)
    BY <1>5 DEF ConfirmReturn, ConfirmWrites, Approved, AskedBack, Returned, RequestsOf
  <2>2. \A a \in Assets : Applied(a)' = Applied(a) /\ Rejected(a)' = Rejected(a)
    BY <1>5 DEF ConfirmReturn, ConfirmWrites, Applied, Rejected, RequestsOf
  <2>3. LogAction("return_confirmed", r.asset)
    BY <1>5 DEF ConfirmReturn, ConfirmWrites
  <2> QED BY <1>a, <1>b, <2>1, <2>2, <2>3, TalliesStep DEF Follows
<1> QED
  BY <1>1, <1>2, <1>3, <1>4, <1>5 DEF LoanStep

\* Every incident step adds one row and the entry for it.
LEMMA IncidentStepTallies ==
  ASSUME DeskTypeOK, LoanTallies, IncidentTallies,
         NEW i \in IncidentReports, IncidentStep(i), UNCHANGED loanVars
  PROVE  LoanTallies' /\ IncidentTallies'
<1> USE DEF DeskTypeOK
<1>a. /\ i.asset \in Assets
      /\ {"incident_reported", "incident_resolved"} \subseteq AuditActions
  BY DEF IncidentReports, AuditActions
<1>b. \A a \in Assets :
        /\ Applied(a)' = Applied(a) /\ Approved(a)' = Approved(a) /\ Rejected(a)' = Rejected(a)
        /\ AskedBack(a)' = AskedBack(a) /\ Returned(a)' = Returned(a)
  BY DEF loanVars, Applied, Approved, Rejected, AskedBack, Returned, RequestsOf
<1>1. CASE ReportIncident(i)
  <2>1. \A a \in Assets :
          /\ a = i.asset => i \notin Reported(a) /\ Reported(a)' = Reported(a) \cup {i}
          /\ a # i.asset => Reported(a)' = Reported(a)
          /\ RepairsOf(a)' = RepairsOf(a)
    BY <1>1 DEF ReportIncident, ReportWrites, Reported, RepairsOf, ReportsOf, Filed, IncidentTypeOK
  <2>2. LogAction("incident_reported", i.asset)
    BY <1>1 DEF ReportIncident, ReportWrites
  <2> QED BY <1>a, <1>b, <2>1, <2>2, TalliesStep DEF Follows
<1>2. CASE ResolveIncident(i)
  <2>1. \A a \in Assets :
          /\ a = i.asset => i \notin RepairsOf(a) /\ RepairsOf(a)' = RepairsOf(a) \cup {i}
          /\ a # i.asset => RepairsOf(a)' = RepairsOf(a)
    BY <1>2, RepairsStep
  <2>2. \A a \in Assets : Reported(a)' = Reported(a)
    BY <1>2 DEF ResolveIncident, ResolveWrites, ResolveAllowed, Reported, ReportsOf, Filed, IncidentTypeOK
  <2>3. LogAction("incident_resolved", i.asset)
    BY <1>2 DEF ResolveIncident, ResolveWrites
  <2> QED BY <1>a, <1>b, <2>1, <2>2, <2>3, TalliesStep DEF Follows
<1> QED
  BY <1>1, <1>2 DEF IncidentStep

\* Every step of the desk keeps the tallies of rows and entries.
LEMMA TalliesAlways == DeskSpec => [](LoanTallies /\ IncidentTallies)
<1>1. ASSUME DeskTypeOK, RecordsMatchRequests, LoanTallies, IncidentTallies,
             [DeskNext]_deskVars
      PROVE  LoanTallies' /\ IncidentTallies'
  <2>1. CASE UNCHANGED deskVars
    BY <1>1, <2>1
    DEF deskVars, loanVars, LoanTallies, IncidentTallies, Tally, Logged, Applied, Approved,
        Rejected, AskedBack, Returned, Reported, RepairsOf, RequestsOf, ReportsOf, Filed
  <2> QED
    BY <1>1, <2>1, LoanStepTallies, IncidentStepTallies DEF DeskNext
<1> QED
  BY <1>1, TalliesInit, DeskTypeCorrect, RecordsAlwaysMatch, PTL DEF DeskSpec

\* For each asset the audit log has exactly one entry per application, approval,
\* refusal, return request and return that the loan tables show.
THEOREM LoanAuditAlwaysComplete == DeskSpec => []LoanAuditComplete
<1>1. LoanTallies => LoanAuditComplete
  BY DEF LoanTallies, LoanAuditComplete, Tally, Applied, Approved, Rejected, AskedBack, Returned
<1> QED BY <1>1, TalliesAlways, PTL

\* For each asset the audit log has exactly one entry per incident reported and
\* one per incident resolved.
THEOREM IncidentAuditAlwaysComplete == DeskSpec => []IncidentAuditComplete
<1>1. IncidentTallies => IncidentAuditComplete
  BY DEF IncidentTallies, IncidentAuditComplete, Tally, Reported
<1> QED BY <1>1, TalliesAlways, PTL

-----------------------------------------------------------------------------
(* What the loan services guarantee as long as no incident is reported: the *)
(* status of an asset follows its loans, and an asset is handed from user   *)
(* to user only by way of the stock.                                        *)

\* Without slots there are no reports, so every step is a loan step.
LEMMA OnlyLoanSteps ==
  ASSUME IncidentSlots = {}, [DeskNext]_deskVars
  PROVE  (\E r \in Requests : LoanStep(r)) \/ UNCHANGED deskVars
<1>1. IncidentReports = {}
  BY DEF IncidentReports
<1> QED BY <1>1 DEF DeskNext

LoansAlone == StatusTracksLoans /\ AtMostOneActiveLoan

\* An approval needs an asset in stock, which has no loan out; a confirmation
\* ends the one loan of an asset on loan.
LEMMA LoansAloneStep ==
  ASSUME DeskTypeOK, RecordsMatchRequests, LoansAlone, NEW r \in Requests, LoanStep(r)
  PROVE  LoansAlone'
<1> USE DEF LoansAlone, StatusTracksLoans, AtMostOneActiveLoan, DeskTypeOK, LedgerTypeOK,
            SaveStatus
<1>0. r.asset \in Assets
  BY DEF Requests
<1>1. CASE ApproveLoanRequest(r)
  <2>1. assetStatus[r.asset] = "in_stock" /\ assetStatus' = [assetStatus EXCEPT ![r.asset] = "on_loan"]
    BY <1>1 DEF ApproveLoanRequest, ApproveWrites, IsAvailableForLoan
  <2>2. ActiveLoans(r.asset) = {}
    BY <1>0, <2>1
  <2>3. ASSUME NEW a \in Assets
        PROVE  /\ a = r.asset => ActiveLoans(a)' = {r}
               /\ a # r.asset => ActiveLoans(a)' = ActiveLoans(a)
    BY <1>1, <2>2, ActiveLoansStep
  <2> QED BY <1>0, <2>1, <2>3
<1>2. CASE ConfirmReturn(r)
  <2>1. r \in ActiveLoans(r.asset)
    BY <1>0, <1>2, ActiveLoansStep
  <2>2. assetStatus[r.asset] = "on_loan"
    BY <1>0, <2>1
  <2>3. assetStatus' = [assetStatus EXCEPT ![r.asset] = "in_stock"]
    BY <1>2, <2>2 DEF ConfirmReturn, ConfirmWrites
  <2>4. ASSUME NEW a \in Assets
        PROVE  /\ a = r.asset => ActiveLoans(a)' = {}
               /\ a # r.asset => ActiveLoans(a)' = ActiveLoans(a)
    BY <1>0, <1>2, <2>1, ActiveLoansStep
  <2> QED BY <1>0, <2>3, <2>4
<1>3. CASE CreateLoanRequest(r) \/ RejectLoanRequest(r) \/ RequestReturn(r)
  <2>1. assetStatus' = assetStatus
    BY <1>3 DEF CreateLoanRequest, CreateWrites, RejectLoanRequest, RejectWrites,
                RequestReturn, RequestReturnWrites
  <2>2. \A a \in Assets : ActiveLoans(a)' = ActiveLoans(a)
    BY <1>3, ActiveLoansStep
  <2> QED BY <2>1, <2>2
<1> QED BY <1>1, <1>2, <1>3 DEF LoanStep

\* A stuttering step changes neither loans nor statuses.
LEMMA ActiveLoansStutter ==
  ASSUME UNCHANGED deskVars, NEW a \in Assets
  PROVE  ActiveLoans(a)' = ActiveLoans(a) /\ assetStatus'[a] = assetStatus[a]
BY DEF deskVars, loanVars, ActiveLoans, IsOnLoan

LEMMA LoansAloneInductive ==
  ASSUME IncidentSlots = {}
  PROVE  DeskSpec => []LoansAlone
<1>1. DeskInit => LoansAlone
  BY DEF DeskInit, LedgerInit, LoanInit, LoansAlone, StatusTracksLoans, AtMostOneActiveLoan,
         ActiveLoans
<1>2. ASSUME DeskTypeOK, RecordsMatchRequests, LoansAlone, [DeskNext]_deskVars
      PROVE  LoansAlone'
  <2>1. CASE UNCHANGED deskVars
    BY <1>2, <2>1, ActiveLoansStutter DEF LoansAlone, StatusTracksLoans, AtMostOneActiveLoan
  <2> QED BY <1>2, <2>1, OnlyLoanSteps, LoansAloneStep
<1> QED
  BY <1>1, <1>2, DeskTypeCorrect, RecordsAlwaysMatch, PTL DEF DeskSpec

\* While no incident is reported, an asset is on loan exactly while a loan of
\* it is out, and in stock otherwise.
THEOREM StatusAlwaysTracksLoans ==
  ASSUME IncidentSlots = {}
  PROVE  DeskSpec => []StatusTracksLoans
<1>1. LoansAlone => StatusTracksLoans
  BY DEF LoansAlone
<1> QED BY <1>1, LoansAloneInductive, PTL

\* While no incident is reported, an asset is never lent twice at a time.
THEOREM AlwaysAtMostOneLoan ==
  ASSUME IncidentSlots = {}
  PROVE  DeskSpec => []AtMostOneActiveLoan
<1>1. LoansAlone => AtMostOneActiveLoan
  BY DEF LoansAlone
<1> QED BY <1>1, LoansAloneInductive, PTL

-----------------------------------------------------------------------------
(* The loan services implement the custody of an asset.                     *)

\* The holder depends on nothing but the loans that are out.
LEMMA HolderKept ==
  ASSUME NEW a \in Assets, ActiveLoans(a)' = ActiveLoans(a)
  PROVE  HolderOf(a)' = HolderOf(a)
BY DEF HolderOf

\* Holders are users or nobody, and never mistaken for each other.
LEMMA RequesterIsSomebody ==
  ASSUME NEW r \in Requests
  PROVE  r.requester \in Users /\ r.requester # Nobody /\ r.asset \in Assets
BY LoansAssumption DEF Requests

\* The loan services, as long as they have the assets to themselves, implement
\* AssetCustody: an asset goes to one user at a time and back to the stock
\* before the next one has it.
THEOREM LoansKeepCustody ==
  ASSUME IncidentSlots = {}
  PROVE  DeskSpec => CustodyKept
<1> DEFINE holders == [a \in Assets |-> HolderOf(a)]
<1>1. DeskInit => Custody!CustodyInit
  BY DEF DeskInit, LoanInit, Custody!CustodyInit, Custody!Nobody, Nobody, HolderOf, ActiveLoans
<1>2. ASSUME DeskTypeOK, RecordsMatchRequests, LoansAlone, [DeskNext]_deskVars
      PROVE  [Custody!CustodyNext]_holders
  <2> USE DEF LoansAlone, StatusTracksLoans, AtMostOneActiveLoan, Custody!Nobody, Nobody
  <2>1. CASE UNCHANGED deskVars
    <3>1. \A a \in Assets : HolderOf(a)' = HolderOf(a)
      BY <2>1, ActiveLoansStutter, HolderKept
    <3> QED BY <3>1
  <2>2. ASSUME NEW r \in Requests, LoanStep(r)
        PROVE  [Custody!CustodyNext]_holders
    <3> DEFINE a == r.asset
    <3>0. a \in Assets /\ r.requester \in Users /\ r.requester # Nobody
      BY RequesterIsSomebody
    <3>1. CASE ApproveLoanRequest(r)
      <4>1. ActiveLoans(a) = {}
        BY <1>2, <3>0, <3>1 DEF ApproveLoanRequest, IsAvailableForLoan
      <4>2. ActiveLoans(a)' = {r} /\ \A b \in Assets \ {a} : ActiveLoans(b)' = ActiveLoans(b)
        BY <1>2, <3>0, <3>1, <4>1, ActiveLoansStep
      <4>3. HolderOf(a) = Nobody /\ HolderOf(a)' = r.requester
        BY <3>0, <4>1, <4>2 DEF HolderOf
      <4>4. \A b \in Assets \ {a} : HolderOf(b)' = HolderOf(b)
        BY <4>2, HolderKept
      <4>5. holders' = [holders EXCEPT ![a] = r.requester]
        BY <3>0, <4>3, <4>4
      <4>6. Custody!Lend(a, r.requester)
        BY <3>0, <4>3, <4>5 DEF Custody!Lend
      <4> QED BY <3>0, <4>6 DEF Custody!CustodyNext
    <3>2. CASE ConfirmReturn(r)
      <4>1. r \in ActiveLoans(a)
        BY <1>2, <3>0, <3>2, ActiveLoansStep
      <4>2. ActiveLoans(a) = {r}
        BY <1>2, <3>0, <4>1
      <4>3. ActiveLoans(a)' = {} /\ \A b \in Assets \ {a} : ActiveLoans(b)' = ActiveLoans(b)
        BY <1>2, <3>0, <3>2, <4>2, ActiveLoansStep
      <4>4. HolderOf(a) = r.requester /\ HolderOf(a)' = Nobody
        BY <3>0, <4>2, <4>3 DEF HolderOf
      <4>5. \A b \in Assets \ {a} : HolderOf(b)' = HolderOf(b)
        BY <4>3, HolderKept
      <4>6. holders' = [holders EXCEPT ![a] = Nobody]
        BY <3>0, <4>4, <4>5
      <4>7. Custody!TakeBack(a)
        BY <3>0, <4>4, <4>6 DEF Custody!TakeBack
      <4> QED BY <3>0, <4>7 DEF Custody!CustodyNext
    <3>3. CASE CreateLoanRequest(r) \/ RejectLoanRequest(r) \/ RequestReturn(r)
      <4>1. \A b \in Assets : ActiveLoans(b)' = ActiveLoans(b)
        BY <1>2, <3>3, ActiveLoansStep
      <4>2. \A b \in Assets : HolderOf(b)' = HolderOf(b)
        BY <4>1, HolderKept
      <4> QED BY <4>2
    <3> QED BY <2>2, <3>1, <3>2, <3>3 DEF LoanStep
  <2> QED BY <1>2, <2>1, <2>2, OnlyLoanSteps
<1> QED
  BY <1>1, <1>2, LoansAloneInductive, DeskTypeCorrect, RecordsAlwaysMatch, PTL
  DEF DeskSpec, CustodyKept, Custody!CustodySpec
=============================================================================
