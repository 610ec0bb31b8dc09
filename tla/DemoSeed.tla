------------------------------ MODULE DemoSeed ------------------------------
(* The load_demo_seed command, run any number of times on a desk in use.    *)
(* The command is one transaction: it creates what the demonstration needs  *)
(* and is not there, sets every asset of its list to the status it is to be *)
(* shown in, and fails as a whole if one of the services it calls refuses.  *)
(*                                                                          *)
(* All assets are assets of the command's list.  The demo accounts, which   *)
(* the command writes too, are not part of this module.                     *)
EXTENDS AssetDesk, Inventory

CONSTANTS
  DemoEmployee,    \* the borrower of the demo loans
  DemoAdmin,       \* the manager of the demo inventory
  LoanedAsset,     \* LAPTOP-002
  ReturnedAsset,   \* MON-001
  CountedAsset,    \* LAPTOP-001, which is also the one applied for
  DemoIncident,    \* incident type of LAPTOP-003, PHONE-002 and MON-002
  MaxCalls         \* bound: how many calls are made

NoSession == "no session"

ASSUME DemoAssumption ==
  /\ DemoEmployee \in Users /\ DemoAdmin \in Managers /\ NoSession \notin Sessions
  /\ {LoanedAsset, ReturnedAsset, CountedAsset} \subseteq Assets
  /\ DemoIncident \in [DOMAIN DemoIncident -> IncidentTypes]
  /\ DOMAIN DemoIncident \subseteq Assets \ {LoanedAsset, ReturnedAsset, CountedAsset}
  /\ LoanedAsset # ReturnedAsset /\ CountedAsset \notin {LoanedAsset, ReturnedAsset}
  /\ MaxCalls \in Nat

VARIABLES
  demoSession,     \* the session opened last under the demo's name
  seeded,          \* history: the command has been run
  calls            \* how many calls have been made

inventoryRows == <<sessionStatus, closedBy, result, demoSession>>
demoVars == <<deskVars, inventoryRows, seeded, calls>>

\* The status column of ensure_assets.
DemoStatus(a) ==
  IF a = LoanedAsset THEN "on_loan"
  ELSE IF a \in DOMAIN DemoIncident THEN StatusOfType(DemoIncident[a])
  ELSE "in_stock"

DemoRequests(a) == { r \in RequestsOf(a) : r.requester = DemoEmployee }

\* Mutated form: a loan that was returned counts as the active loan.
NoLoanEver == DemoRequests(LoanedAsset) \cap loanRecords = {}

\* ensure_active_loan finds no loan that is out.
NeedsLoan == \A r \in DemoRequests(LoanedAsset) \cap loanRecords : ~IsOnLoan(r)

\* ensure_returned_loan_history finds no return.
NeedsHistory == DemoRequests(ReturnedAsset) \cap returnRecords = {}

\* Mutated form: the reports that are there are not looked for.
AllReports == DOMAIN DemoIncident

\* The assets for which ensure_incident finds no open report.
MissingReports == { a \in DOMAIN DemoIncident : ~OpenReport(a, DemoIncident[a]) }

\* The name is not unique, and a manager may have used it too: the query finds
\* the session that was opened last, whoever opened it.
NeedsInventory == demoSession = NoSession \/ sessionStatus[demoSession] # "closed"

\* No service refuses: create_loan_request, which the command calls with the
\* asset set to in_stock, only looks for active requests of the employee.
SeedRunnable ==
  /\ NeedsLoan => ~HasActiveRequest(LoanedAsset, DemoEmployee)
  /\ NeedsHistory => ~HasActiveRequest(ReturnedAsset, DemoEmployee)

\* The loan that is created and stays out, and the one that is returned.
SeedLoans(loan, history) ==
  LET lent     == { r \in {loan} : NeedsLoan }
      returned == { r \in {history} : NeedsHistory }
  IN /\ \A r \in lent \cup returned : requestStatus[r] = "absent"
     /\ requestStatus' = [r \in Requests |-> IF r \in lent \cup returned THEN "approved"
                                                                         ELSE requestStatus[r]]
     /\ loanRecords' = loanRecords \cup lent \cup returned
     /\ returnRequested' = returnRequested \cup returned
     /\ returnRecords' = returnRecords \cup returned

SeedIncidents(reports) ==
  /\ { i.asset : i \in reports } = MissingReports
  /\ \A i \in reports : i.type = DemoIncident[i.asset] /\ incidentStatus[i] = "absent"
  /\ \A i, j \in reports : i.asset = j.asset => i = j
  /\ incidentStatus' = [i \in IncidentReports |-> IF i \in reports THEN "open"
                                                                   ELSE incidentStatus[i]]

\* An open session is counted and closed, a closed one is left as it is.
SeedInventory(s) ==
  IF NeedsInventory
  THEN /\ IF demoSession = NoSession THEN sessionStatus[s] = "absent" ELSE s = demoSession
       /\ demoSession' = s
       /\ sessionStatus' = [sessionStatus EXCEPT ![s] = "closed"]
       /\ closedBy' = [closedBy EXCEPT ![s] = DemoAdmin]
       /\ result' = [result EXCEPT ![s][CountedAsset] = "confirmed",
                                   ![s][ReturnedAsset] = "missing"]
  ELSE UNCHANGED inventoryRows

\* The entries that the services write on behalf of the command.
SeedEntries ==
  { <<action, LoanedAsset>> : action \in { x \in {"loan_requested", "loan_approved"} : NeedsLoan } }
    \cup { <<action, ReturnedAsset>> :
             action \in { x \in {"loan_requested", "loan_approved", "return_requested",
                                 "return_confirmed"} : NeedsHistory } }
    \cup { <<"incident_reported", a>> : a \in MissingReports }
    \cup { entry \in { <<"inventory_recorded", CountedAsset>>,
                       <<"inventory_recorded", ReturnedAsset>>,
                       <<"inventory_closed", NoAsset>> } : NeedsInventory }

Seed ==
  /\ SeedRunnable
  /\ assetStatus' = [a \in Assets |-> DemoStatus(a)]
  /\ \E loan \in DemoRequests(LoanedAsset), history \in DemoRequests(ReturnedAsset) :
       SeedLoans(loan, history)
  /\ \E slots \in [DOMAIN DemoIncident -> IncidentSlots] :
       SeedIncidents({ [asset |-> a, type |-> DemoIncident[a], slot |-> slots[a]]
                         : a \in MissingReports })
  /\ \E s \in Sessions : SeedInventory(s)
  /\ seeded' = TRUE
  /\ auditLog' = [action \in AuditActions |->
                    [code \in AssetCodes |->
                       auditLog[action][code] + IF <<action, code>> \in SeedEntries THEN 1 ELSE 0]]

\* The inventory views; a session may be opened under any name.
InventoryCall ==
  \E s \in Sessions :
    \/ OpenInventorySession(s) /\ demoSession' \in {demoSession, s}
    \/ /\ \/ \E a \in Assets, status \in ResultStatuses : RecordInventoryResult(s, a, status)
          \/ \E m \in Managers : CloseInventorySession(s, m)
       /\ UNCHANGED demoSession

DemoInit ==
  /\ DeskInit /\ InventoryInit
  /\ demoSession = NoSession /\ seeded = FALSE /\ calls = 0

DemoNext ==
  /\ calls < MaxCalls
  /\ calls' = calls + 1
  /\ \/ DeskNext /\ UNCHANGED <<inventoryRows, seeded>>
     \/ InventoryCall /\ UNCHANGED <<loanVars, incidentStatus, seeded>>
     \/ Seed

DemoSpec == DemoInit /\ [][DemoNext]_demoVars

-----------------------------------------------------------------------------
(* Properties.                                                              *)

\* What the command sets up at the desk: an asset on loan to the demo employee, a
\* returned loan in the history and an open report behind every asset out of
\* circulation.
DeskReady ==
  /\ \A a \in Assets : assetStatus[a] = DemoStatus(a)
  /\ \E r \in ActiveLoans(LoanedAsset) : r.requester = DemoEmployee
  /\ \E r \in DemoRequests(ReturnedAsset) : r \in returnRecords
  /\ \A a \in DOMAIN DemoIncident : OpenReport(a, DemoIncident[a])

\* And in the inventory: a closed session with an asset in the discrepancy list.
InventoryReady ==
  ~NeedsInventory /\ ReturnedAsset \in Discrepancies(demoSession)

\* Whatever has been done at the desk and in the inventory, a command that
\* succeeds leaves the desk ready, and the inventory too, unless a manager had
\* closed the last session of the demo's name without that asset missing.  The
\* demo employee can apply for LAPTOP-001, with which the scripts begin, unless an
\* earlier application for it is still pending or approved, returned or not: the
\* command takes none of these back.
SeedRestoresDemo ==
  [][Seed =>
       /\ DeskReady'
       /\ NeedsInventory \/ result[demoSession][ReturnedAsset] = "missing" => InventoryReady'
       /\ ~HasActiveRequest(CountedAsset, DemoEmployee)
            => LoanEligible(CountedAsset, DemoEmployee)']_demoVars

\* Running the command twice is running it once: on a demonstration that is ready
\* it creates no second loan, report or result and logs nothing.
SeedTwiceIsOnce ==
  [][Seed /\ DeskReady /\ InventoryReady => UNCHANGED <<deskVars, inventoryRows>>]_demoVars

\* "Running the command again does not lead to an error": once it has been
\* run, no service refuses it.
SeedRerunnable == seeded => SeedRunnable
=============================================================================
