------------------------------- MODULE Loans -------------------------------
(* Loan requests, loan records and return records (loans/models.py) and the *)
(* five service functions that change them (loans/services.py).             *)
(*                                                                          *)
(* Each service function is split into its guard and its writes.  Here they *)
(* are put together into one atomic action, as when one request is served   *)
(* at a time; module DeskServer reuses the writes with guards that were     *)
(* evaluated on rows read earlier.                                          *)
EXTENDS AuditLog

CONSTANTS Users,   \* the portal users that may apply for a loan
          Slots    \* how many applications each user may file per asset

ASSUME LoansAssumption ==
  /\ IsFiniteSet(Users) /\ IsFiniteSet(Slots)
  /\ Nobody \notin Users

\* A row of the loan request table, identified by the columns that never
\* change after the INSERT; slot stands for the primary key.
Requests == [asset: Assets, requester: Users, slot: Slots]

VARIABLES
  requestStatus,     \* LoanRequest.status, "absent" before the INSERT
  loanRecords,       \* requests with a LoanRecord (one-to-one)
  returnRequested,   \* loan records whose return_requested_at is set
  returnRecords      \* loan records with a ReturnRecord (one-to-one)

loanVars == <<requestStatus, loanRecords, returnRequested, returnRecords>>

\* "cancelled" is a choice of the model that no service function assigns.
RequestStatuses == {"pending", "approved", "rejected", "cancelled"}

LoanTypeOK ==
  /\ requestStatus \in [Requests -> RequestStatuses \cup {"absent"}]
  /\ loanRecords \subseteq Requests
  /\ returnRequested \subseteq Requests
  /\ returnRecords \subseteq Requests

LoanInit ==
  /\ requestStatus = [r \in Requests |-> "absent"]
  /\ loanRecords = {}
  /\ returnRequested = {}
  /\ returnRecords = {}

-----------------------------------------------------------------------------
(* What the models and the eligibility check compute.                       *)

\* LoanRecord.is_on_loan, for a request that has a loan record.
IsOnLoan(r) == r \notin returnRecords

\* LoanRequest.is_active, and the filter of check_loan_eligibility.
IsActive(r) == requestStatus[r] \in {"pending", "approved"}

\* Mutated form: the query forgets the approved requests.
HasPendingRequest(a, u) ==
  \E r \in Requests : r.asset = a /\ r.requester = u /\ requestStatus[r] = "pending"

HasActiveRequest(a, u) ==
  \E r \in Requests : r.asset = a /\ r.requester = u /\ IsActive(r)

\* check_loan_eligibility returns without raising.
LoanEligible(a, u) == IsAvailableForLoan(a) /\ ~HasActiveRequest(a, u)

-----------------------------------------------------------------------------
(* The writes of each service function.  A one-to-one row that exists       *)
(* already makes the INSERT fail and the transaction roll back.             *)

CreateWrites(r) ==
  /\ requestStatus[r] = "absent"
  /\ requestStatus' = [requestStatus EXCEPT ![r] = "pending"]
  /\ LogAction("loan_requested", r.asset)
  /\ UNCHANGED <<assetStatus, loanRecords, returnRequested, returnRecords>>

\* Mutated form: the status of the request is not saved.
ApproveWithoutSaving(r) ==
  /\ r \notin loanRecords
  /\ loanRecords' = loanRecords \cup {r}
  /\ SaveStatus(r.asset, "on_loan")
  /\ LogAction("loan_approved", r.asset)
  /\ UNCHANGED <<requestStatus, returnRequested, returnRecords>>

ApproveWrites(r) ==
  /\ r \notin loanRecords
  /\ loanRecords' = loanRecords \cup {r}
  /\ requestStatus' = [requestStatus EXCEPT ![r] = "approved"]
  /\ SaveStatus(r.asset, "on_loan")
  /\ LogAction("loan_approved", r.asset)
  /\ UNCHANGED <<returnRequested, returnRecords>>

\* Mutated form: the call of log_action is missing.
RejectUnlogged(r) ==
  /\ requestStatus' = [requestStatus EXCEPT ![r] = "rejected"]
  /\ UNCHANGED <<assetStatus, auditLog, loanRecords, returnRequested, returnRecords>>

RejectWrites(r) ==
  /\ requestStatus' = [requestStatus EXCEPT ![r] = "rejected"]
  /\ LogAction("loan_rejected", r.asset)
  /\ UNCHANGED <<assetStatus, loanRecords, returnRequested, returnRecords>>

RequestReturnWrites(r) ==
  /\ returnRequested' = returnRequested \cup {r}
  /\ LogAction("return_requested", r.asset)
  /\ UNCHANGED <<assetStatus, requestStatus, loanRecords, returnRecords>>

\* Mutated form: the asset stays on loan.
ConfirmKeepingStatus(r, status) ==
  /\ r \notin returnRecords
  /\ returnRecords' = returnRecords \cup {r}
  /\ LogAction("return_confirmed", r.asset)
  /\ UNCHANGED <<assetStatus, requestStatus, loanRecords, returnRequested>>

\* Mutated form: the asset goes back to stock whatever its status.
ConfirmRestocking(r, status) ==
  /\ r \notin returnRecords
  /\ returnRecords' = returnRecords \cup {r}
  /\ SaveStatus(r.asset, "in_stock")
  /\ LogAction("return_confirmed", r.asset)
  /\ UNCHANGED <<requestStatus, loanRecords, returnRequested>>

\* status is the asset status that confirm_return has read: an asset that an
\* incident took elsewhere keeps its status.
ConfirmWrites(r, status) ==
  /\ r \notin returnRecords
  /\ returnRecords' = returnRecords \cup {r}
  /\ IF status = "on_loan" THEN SaveStatus(r.asset, "in_stock")
                           ELSE UNCHANGED assetStatus
  /\ LogAction("return_confirmed", r.asset)
  /\ UNCHANGED <<requestStatus, loanRecords, returnRequested>>

-----------------------------------------------------------------------------
(* The service functions, one request at a time.                            *)

CreateLoanRequest(r) ==
  /\ LoanEligible(r.asset, r.requester)
  /\ CreateWrites(r)

\* Mutated form: the availability is not checked again on approval.
ApproveUnavailable(r) ==
  /\ requestStatus[r] = "pending"
  /\ ApproveWrites(r)

\* Mutated form: a refused request can still be approved.
ApproveRejected(r) ==
  /\ requestStatus[r] \in {"pending", "rejected"}
  /\ IsAvailableForLoan(r.asset)
  /\ ApproveWrites(r)

ApproveLoanRequest(r) ==
  /\ requestStatus[r] = "pending"
  /\ IsAvailableForLoan(r.asset)
  /\ ApproveWrites(r)

RejectLoanRequest(r) ==
  /\ requestStatus[r] = "pending"
  /\ RejectWrites(r)

RequestReturn(r) ==
  /\ r \in loanRecords
  /\ IsOnLoan(r)
  /\ r \notin returnRequested
  /\ RequestReturnWrites(r)

ConfirmReturn(r) ==
  /\ r \in loanRecords
  /\ IsOnLoan(r)
  /\ ConfirmWrites(r, assetStatus[r.asset])

LoanStep(r) ==
  \/ CreateLoanRequest(r)
  \/ ApproveLoanRequest(r)
  \/ RejectLoanRequest(r)
  \/ RequestReturn(r)
  \/ ConfirmReturn(r)

-----------------------------------------------------------------------------
(* Properties.                                                              *)

\* The loans of an asset that are out: recorded and not returned.
ActiveLoans(a) == { r \in loanRecords : r.asset = a /\ IsOnLoan(r) }

\* As long as only the loan services touch an asset, its status and its loan
\* history tell the same story: it is on loan exactly when some loan of it is
\* out, and otherwise in stock (approve_loan_request and confirm_return write
\* the two tables in one transaction).
StatusTracksLoans ==
  \A a \in Assets :
    assetStatus[a] = IF ActiveLoans(a) = {} THEN "in_stock" ELSE "on_loan"

\* The holder of an asset is the requester of the loan that is out.
HolderOf(a) ==
  IF ActiveLoans(a) = {} THEN Nobody
  ELSE (CHOOSE r \in ActiveLoans(a) : TRUE).requester

Custody == INSTANCE AssetCustody WITH holder <- [a \in Assets |-> HolderOf(a)]

\* On its own, the loan component hands an asset to one user at a time and
\* takes it back before lending it again (approve_loan_request requires an
\* asset in stock, confirm_return puts it back).
CustodyKept == Custody!CustodySpec

\* An asset is never out under two loans at once.
AtMostOneActiveLoan ==
  \A a \in Assets : \A r, q \in ActiveLoans(a) : r = q

\* The three tables agree on each request: a request is approved exactly when
\* it has a loan record, and only a recorded loan is ever asked back or
\* returned ("consistency of LoanRequest, Asset and the related records").
RecordsMatchRequests ==
  /\ \A r \in Requests : r \in loanRecords <=> requestStatus[r] = "approved"
  /\ returnRequested \subseteq loanRecords
  /\ returnRecords \subseteq loanRecords

\* The duplicate check works: a user never has two applications for one asset
\* that are pending or approved at the same time.
OneActiveRequest ==
  \A r, q \in Requests :
    r.asset = q.asset /\ r.requester = q.requester /\ IsActive(r) /\ IsActive(q)
      => r = q

RequestsOf(a) == { r \in Requests : r.asset = a }

\* The audit log accounts for every loan row: for each asset it has one entry
\* per application filed, approved, refused, asked back and returned, no entry
\* missing (a write without log_action) and none left over (an entry kept from
\* a transaction that did not happen).
LoanAuditComplete ==
  \A a \in Assets :
    /\ Logged("loan_requested", a) =
         Cardinality({ r \in RequestsOf(a) : requestStatus[r] # "absent" })
    /\ Logged("loan_approved", a) = Cardinality(loanRecords \cap RequestsOf(a))
    /\ Logged("loan_rejected", a) =
         Cardinality({ r \in RequestsOf(a) : requestStatus[r] = "rejected" })
    /\ Logged("return_requested", a) =
         Cardinality(returnRequested \cap RequestsOf(a))
    /\ Logged("return_confirmed", a) =
         Cardinality(returnRecords \cap RequestsOf(a))
=============================================================================
