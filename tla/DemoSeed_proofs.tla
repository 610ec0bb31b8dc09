--------------------------- MODULE DemoSeed_proofs ---------------------------
(* What the seed command guarantees for any assets, users and sessions, and *)
(* any calls at the desk and of the inventory before and after it.          *)
EXTENDS DemoSeed, AssetDesk_proofs, FiniteSetTheorems

-----------------------------------------------------------------------------
(* What the command writes.                                                 *)

\* The loans lent and returned are new ones of the demo employee.
LoansSeeded(lent, returned) ==
  /\ lent \subseteq DemoRequests(LoanedAsset) /\ returned \subseteq DemoRequests(ReturnedAsset)
  /\ lent # {} <=> NeedsLoan
  /\ returned # {} <=> NeedsHistory
  /\ \A r \in lent \cup returned : requestStatus[r] = "absent"
  /\ requestStatus' = [r \in Requests |-> IF r \in lent \cup returned THEN "approved"
                                                                     ELSE requestStatus[r]]
  /\ loanRecords' = loanRecords \cup lent \cup returned
  /\ returnRequested' = returnRequested \cup returned
  /\ returnRecords' = returnRecords \cup returned

LEMMA SeedsLoans == ASSUME Seed PROVE \E lent, returned : LoansSeeded(lent, returned)
<1>1. PICK loan \in DemoRequests(LoanedAsset), history \in DemoRequests(ReturnedAsset) :
        SeedLoans(loan, history)
  BY DEF Seed
<1> DEFINE lent == { r \in {loan} : NeedsLoan }
           returned == { r \in {history} : NeedsHistory }
<1>2. /\ lent \subseteq DemoRequests(LoanedAsset) /\ returned \subseteq DemoRequests(ReturnedAsset)
      /\ lent # {} <=> NeedsLoan
      /\ returned # {} <=> NeedsHistory
  OBVIOUS
<1>3. LoansSeeded(lent, returned)
  BY <1>1, <1>2 DEF SeedLoans, LoansSeeded
<1> QED BY <1>3

\* The reports are new ones, one per incident that is missing.
ReportsSeeded(reports) ==
  /\ reports \subseteq IncidentReports
  /\ \A a \in MissingReports : \E i \in reports : i.asset = a /\ i.type = DemoIncident[a]
  /\ \A i \in reports : i.asset \in MissingReports /\ incidentStatus[i] = "absent"
  /\ incidentStatus' = [i \in IncidentReports |-> IF i \in reports THEN "open"
                                                                    ELSE incidentStatus[i]]

LEMMA SeedsReports == ASSUME Seed PROVE \E reports : ReportsSeeded(reports)
<1>1. PICK slots \in [DOMAIN DemoIncident -> IncidentSlots] :
        SeedIncidents({ [asset |-> a, type |-> DemoIncident[a], slot |-> slots[a]]
                          : a \in MissingReports })
  BY DEF Seed
<1> DEFINE report(a) == [asset |-> a, type |-> DemoIncident[a], slot |-> slots[a]]
           reports == { report(a) : a \in MissingReports }
<1>2. \A a \in MissingReports : report(a) \in IncidentReports
  BY DemoAssumption DEF MissingReports, IncidentReports
<1>3. \A a \in MissingReports : report(a).asset = a /\ report(a).type = DemoIncident[a]
  OBVIOUS
<1>4. SeedIncidents(reports)
  BY <1>1
<1>5. /\ reports \subseteq IncidentReports
      /\ \A a \in MissingReports : \E i \in reports : i.asset = a /\ i.type = DemoIncident[a]
      /\ \A i \in reports : i.asset \in MissingReports
  BY <1>2, <1>3
<1> HIDE DEF reports
<1>6. ReportsSeeded(reports)
  BY <1>4, <1>5 DEF SeedIncidents, ReportsSeeded
<1> QED BY <1>6

LEMMA DemoStatuses ==
  /\ \A a \in Assets : DemoStatus(a) \in AssetStatuses
  /\ DemoStatus(ReturnedAsset) = "in_stock" /\ DemoStatus(LoanedAsset) = "on_loan"
  /\ \A a \in Assets : DemoStatus(a) = "on_loan" => a = LoanedAsset
  /\ \A a \in Assets, type \in IncidentTypes :
       DemoStatus(a) = StatusOfType(type) => a \in DOMAIN DemoIncident /\ type = DemoIncident[a]
<1>1. /\ ReturnedAsset \notin DOMAIN DemoIncident /\ ReturnedAsset # LoanedAsset
      /\ \A a \in DOMAIN DemoIncident : DemoIncident[a] \in IncidentTypes
  BY DemoAssumption
<1> QED BY <1>1 DEF DemoStatus, StatusOfType, IncidentTypes, AssetStatuses

-----------------------------------------------------------------------------
(* The tables under the command and the calls.                              *)

InventoryRowsTyped ==
  /\ sessionStatus \in [Sessions -> {"absent", "open", "closed"}]
  /\ closedBy \in [Sessions -> Managers \cup {Nobody}]
  /\ result \in [Sessions -> [Assets -> ResultStatuses \cup {"none"}]]
  /\ demoSession \in Sessions \cup {NoSession}

LEMMA SeedKeepsTypes ==
  ASSUME DeskTypeOK, InventoryRowsTyped, Seed
  PROVE  DeskTypeOK' /\ InventoryRowsTyped'
<1> USE DEF DeskTypeOK, InventoryRowsTyped
<1>1. LedgerTypeOK'
  BY DemoStatuses DEF Seed, LedgerTypeOK
<1>2. AuditTypeOK'
  BY DEF Seed, AuditTypeOK
<1>3. PICK lent, returned : LoansSeeded(lent, returned)
  BY SeedsLoans
<1>4. lent \subseteq Requests /\ returned \subseteq Requests
  BY <1>3 DEF LoansSeeded, DemoRequests, RequestsOf
<1>5. LoanTypeOK'
  BY <1>3, <1>4 DEF LoansSeeded, LoanTypeOK, RequestStatuses
<1>6. PICK reports : ReportsSeeded(reports)
  BY SeedsReports
<1>7. IncidentTypeOK'
  BY <1>6 DEF ReportsSeeded, IncidentTypeOK
<1>8. InventoryRowsTyped'
  <2>. PICK s \in Sessions : SeedInventory(s)
    BY DEF Seed
  <2>1. CASE NeedsInventory
    <3>1. [[result[s] EXCEPT ![CountedAsset] = "confirmed"]
             EXCEPT ![ReturnedAsset] = "missing"] \in [Assets -> ResultStatuses \cup {"none"}]
      BY DEF ResultStatuses
    <3>2. result' = [result EXCEPT ![s] = [[result[s] EXCEPT ![CountedAsset] = "confirmed"]
                                             EXCEPT ![ReturnedAsset] = "missing"]]
      BY <2>1 DEF SeedInventory
    <3>3. result' \in [Sessions -> [Assets -> ResultStatuses \cup {"none"}]]
      BY <3>1, <3>2
    <3>4. /\ sessionStatus' \in [Sessions -> {"absent", "open", "closed"}]
          /\ closedBy' \in [Sessions -> Managers \cup {Nobody}]
          /\ demoSession' \in Sessions \cup {NoSession}
      BY <2>1, DemoAssumption DEF SeedInventory
    <3> QED BY <3>3, <3>4
  <2>2. CASE ~NeedsInventory
    BY <2>2 DEF SeedInventory, inventoryRows
  <2> QED BY <2>1, <2>2
<1> QED BY <1>1, <1>2, <1>5, <1>7, <1>8

\* What a call works on, and the session of the demo's name after it.
LEMMA InventoryCallIs ==
  ASSUME InventoryCall
  PROVE  \E s \in Sessions :
           /\ \/ OpenInventorySession(s)
              \/ \E a \in Assets, status \in ResultStatuses : RecordInventoryResult(s, a, status)
              \/ \E m \in Managers : CloseInventorySession(s, m)
           /\ demoSession' \in {demoSession, s}
BY DEF InventoryCall

LEMMA InventoryCallKeepsTypes ==
  ASSUME DeskTypeOK, InventoryRowsTyped, InventoryCall, UNCHANGED <<loanVars, incidentStatus>>
  PROVE  DeskTypeOK' /\ InventoryRowsTyped'
<1> USE DEF InventoryRowsTyped
<1>1. PICK s \in Sessions :
        /\ \/ OpenInventorySession(s)
           \/ \E a \in Assets, status \in ResultStatuses : RecordInventoryResult(s, a, status)
           \/ \E m \in Managers : CloseInventorySession(s, m)
        /\ demoSession' \in {demoSession, s}
  BY InventoryCallIs
<1>2. assetStatus' = assetStatus
  BY <1>1 DEF OpenInventorySession, RecordInventoryResult, RecordWrites, CloseInventorySession,
              CloseWrites
<1>3. AuditTypeOK' => DeskTypeOK'
  BY <1>2 DEF DeskTypeOK, LedgerTypeOK, LoanTypeOK, IncidentTypeOK, loanVars
<1>4. CASE OpenInventorySession(s)
  BY <1>1, <1>3, <1>4 DEF OpenInventorySession, DeskTypeOK, AuditTypeOK
<1>5. ASSUME NEW a \in Assets, NEW status \in ResultStatuses, RecordInventoryResult(s, a, status)
      PROVE  DeskTypeOK' /\ InventoryRowsTyped'
  <2>1. AuditTypeOK'
    BY <1>5, LogActionType
    DEF RecordInventoryResult, RecordWrites, AuditActions, AssetCodes, DeskTypeOK
  <2>2. [result[s] EXCEPT ![a] = status] \in [Assets -> ResultStatuses \cup {"none"}]
    BY <1>5
  <2> QED BY <1>1, <1>3, <1>5, <2>1, <2>2 DEF RecordInventoryResult, RecordWrites
<1>6. ASSUME NEW m \in Managers, CloseInventorySession(s, m)
      PROVE  DeskTypeOK' /\ InventoryRowsTyped'
  <2>1. AuditTypeOK'
    BY <1>6, LogActionType
    DEF CloseInventorySession, CloseWrites, AuditActions, AssetCodes, DeskTypeOK
  <2> QED BY <1>1, <1>3, <1>6, <2>1 DEF CloseInventorySession, CloseWrites
<1> QED BY <1>1, <1>4, <1>5, <1>6

\* After the command the three loan tables still agree, as after every call.
LEMMA SeedMatchesRecords ==
  ASSUME DeskTypeOK, RecordsMatchRequests, Seed
  PROVE  RecordsMatchRequests'
<1>1. PICK lent, returned : LoansSeeded(lent, returned)
  BY SeedsLoans
<1> QED BY <1>1 DEF LoansSeeded, DemoRequests, RequestsOf, RecordsMatchRequests, DeskTypeOK, LoanTypeOK

\* The desk as the command leaves it.
LEMMA SeedMakesReady ==
  ASSUME DeskTypeOK, RecordsMatchRequests, Seed
  PROVE  DeskReady'
<1>1. \A a \in Assets : assetStatus'[a] = DemoStatus(a)
  BY DEF Seed
<1>2. PICK lent, returned : LoansSeeded(lent, returned)
  BY SeedsLoans
<1>3. \E r \in ActiveLoans(LoanedAsset)' : r.requester = DemoEmployee
  <2>1. PICK r \in DemoRequests(LoanedAsset) : r \in loanRecords' /\ r \notin returnRecords
    <3>1. CASE NeedsLoan
      <4>1. PICK r \in lent : TRUE
        BY <1>2, <3>1 DEF LoansSeeded
      <4>2. r \in DemoRequests(LoanedAsset) /\ r \in loanRecords' /\ requestStatus[r] = "absent"
        BY <1>2 DEF LoansSeeded
      <4> QED BY <4>2 DEF RecordsMatchRequests, DemoRequests, RequestsOf
    <3>2. CASE ~NeedsLoan
      BY <1>2, <3>2 DEF LoansSeeded, NeedsLoan, IsOnLoan
    <3> QED BY <3>1, <3>2
  <2>2. r \notin returned
    BY <1>2, DemoAssumption DEF LoansSeeded, DemoRequests, RequestsOf
  <2> QED BY <1>2, <2>1, <2>2 DEF LoansSeeded, ActiveLoans, IsOnLoan, DemoRequests, RequestsOf
<1>4. \E r \in DemoRequests(ReturnedAsset) : r \in returnRecords'
  BY <1>2 DEF LoansSeeded, NeedsHistory
<1>5. PICK reports : ReportsSeeded(reports)
  BY SeedsReports
<1>6. ASSUME NEW a \in DOMAIN DemoIncident
      PROVE  OpenReport(a, DemoIncident[a])'
  <2>1. CASE a \in MissingReports
    BY <1>5, <2>1 DEF ReportsSeeded, OpenReport, ReportsOf
  <2>2. CASE a \notin MissingReports
    <3>1. OpenReport(a, DemoIncident[a])
      BY <1>6, <2>2 DEF MissingReports
    <3> QED BY <1>5, <3>1 DEF ReportsSeeded, OpenReport, ReportsOf
  <2> QED BY <2>1, <2>2
<1> QED BY <1>1, <1>3, <1>4, <1>6 DEF DeskReady

\* The inventory as the command leaves it: it closes the session it works on with
\* the asset missing, and a closed one it finds keeps its results.
LEMMA SeedMakesInventory ==
  ASSUME InventoryRowsTyped, Seed,
         NeedsInventory \/ result[demoSession][ReturnedAsset] = "missing"
  PROVE  InventoryReady'
<1>1. PICK s \in Sessions : SeedInventory(s)
  BY DEF Seed
<1>2. ~NeedsInventory' /\ demoSession' \in Sessions
      /\ result'[demoSession'][ReturnedAsset] = "missing"
  <2>1. CASE NeedsInventory
    BY <1>1, <2>1, DemoAssumption DEF SeedInventory, InventoryRowsTyped, NeedsInventory
  <2>2. CASE ~NeedsInventory
    BY <1>1, <2>2 DEF SeedInventory, inventoryRows, InventoryRowsTyped, NeedsInventory
  <2> QED BY <2>1, <2>2
<1>3. ReturnedAsset \in Assets /\ assetStatus'[ReturnedAsset] = "in_stock"
  BY DemoStatuses, DemoAssumption DEF Seed
<1> QED BY <1>2, <1>3 DEF InventoryReady, Discrepancies

\* The command files no application for the asset that is counted, and shows it
\* in stock.
LEMMA SeedKeepsEligible ==
  ASSUME Seed, ~HasActiveRequest(CountedAsset, DemoEmployee)
  PROVE  LoanEligible(CountedAsset, DemoEmployee)'
<1>1. assetStatus'[CountedAsset] = "in_stock"
  BY DemoAssumption DEF Seed, DemoStatus
<1>2. PICK lent, returned : LoansSeeded(lent, returned)
  BY SeedsLoans
<1>3. \A r \in Requests : r.asset = CountedAsset => requestStatus'[r] = requestStatus[r]
  BY <1>2, DemoAssumption DEF LoansSeeded, DemoRequests, RequestsOf
<1> QED BY <1>1, <1>3 DEF LoanEligible, IsAvailableForLoan, HasActiveRequest, IsActive

\* An asset that the command has put out of circulation has the row for it.
LEMMA ReadyIsExplained ==
  ASSUME DeskReady
  PROVE  StatusExplained
<1>1. ASSUME NEW a \in Assets, assetStatus[a] = "on_loan"
      PROVE  ActiveLoans(a) # {}
  BY <1>1, DemoStatuses DEF DeskReady
<1>2. ASSUME NEW a \in Assets, NEW type \in IncidentTypes, assetStatus[a] = StatusOfType(type)
      PROVE  OpenReport(a, type)
  BY <1>2, DemoStatuses DEF DeskReady
<1> QED BY <1>1, <1>2 DEF StatusExplained

DemoInv ==
  /\ DeskTypeOK /\ InventoryRowsTyped
  /\ RecordsMatchRequests /\ StatusExplained

LEMMA DemoInvInit == ASSUME DemoInit PROVE DemoInv
<1>1. DeskInit /\ InventoryInit
  BY DEF DemoInit
<1>2. DeskTypeOK
  BY <1>1, DeskTypeInit
<1>3. RecordsMatchRequests
  BY <1>1 DEF DeskInit, LoanInit, RecordsMatchRequests
<1>4. StatusExplained
  BY <1>1, IncidentStatuses DEF DeskInit, LedgerInit, StatusExplained
<1>5. InventoryRowsTyped
  BY <1>1 DEF DemoInit, InventoryInit, InventoryRowsTyped
<1> QED BY <1>2, <1>3, <1>4, <1>5 DEF DemoInv

\* The calls of a step, with what each leaves alone.
LEMMA DemoCases ==
  ASSUME [DemoNext]_demoVars
  PROVE  \/ [DeskNext]_deskVars /\ UNCHANGED inventoryRows
         \/ InventoryCall /\ UNCHANGED <<loanVars, incidentStatus>>
         \/ Seed
BY DEF DemoNext, demoVars

LEMMA DemoInvStep ==
  ASSUME DemoInv, [DemoNext]_demoVars
  PROVE  DemoInv'
<1>1. CASE [DeskNext]_deskVars /\ UNCHANGED inventoryRows
  <2>1. InventoryRowsTyped'
    BY <1>1 DEF DemoInv, inventoryRows, InventoryRowsTyped
  <2> QED BY <1>1, <2>1, DeskTypeStep, RecordsMatchStep, StatusExplainedStep DEF DemoInv
<1>2. CASE InventoryCall /\ UNCHANGED <<loanVars, incidentStatus>>
  <2>1. DeskTypeOK' /\ InventoryRowsTyped'
    BY <1>2, InventoryCallKeepsTypes DEF DemoInv
  <2>2. PICK s \in Sessions :
          \/ OpenInventorySession(s)
          \/ \E a \in Assets, status \in ResultStatuses : RecordInventoryResult(s, a, status)
          \/ \E m \in Managers : CloseInventorySession(s, m)
    BY <1>2, InventoryCallIs
  <2>3. assetStatus' = assetStatus
    BY <2>2 DEF OpenInventorySession, RecordInventoryResult, RecordWrites, CloseInventorySession,
                CloseWrites
  <2>4. RecordsMatchRequests' /\ StatusExplained'
    BY <1>2, <2>3
    DEF DemoInv, loanVars, RecordsMatchRequests, StatusExplained, ActiveLoans, IsOnLoan,
        OpenReport, ReportsOf
  <2> QED BY <2>1, <2>4 DEF DemoInv
<1>3. CASE Seed
  <2>1. DeskTypeOK' /\ InventoryRowsTyped' /\ RecordsMatchRequests'
    BY <1>3, SeedKeepsTypes, SeedMatchesRecords DEF DemoInv
  <2>2. DeskReady'
    BY <1>3, SeedMakesReady DEF DemoInv
  <2>3. StatusExplained'
    BY <2>2, ReadyIsExplained, PTL
  <2> QED BY <2>1, <2>2, <2>3 DEF DemoInv
<1> QED BY <1>1, <1>2, <1>3, DemoCases

LEMMA DemoInvAlways == DemoSpec => []DemoInv
BY DemoInvInit, DemoInvStep, PTL DEF DemoSpec

\* The command explains the statuses it sets, so they stay explained.
THEOREM DemoStatusExplained == DemoSpec => []StatusExplained
<1>1. DemoInv => StatusExplained
  BY DEF DemoInv
<1> QED BY <1>1, DemoInvAlways, PTL

\* Whatever was done before, a command that succeeds leaves the desk ready, the
\* inventory unless a manager had closed the last session of the demo's name
\* without the missing asset, and LAPTOP-001 to be applied for unless the demo
\* employee's earlier application for it is active.
THEOREM SeedAlwaysRestores == DemoSpec => SeedRestoresDemo
<1>1. ASSUME DemoInv, Seed
      PROVE  /\ DeskReady'
             /\ NeedsInventory \/ result[demoSession][ReturnedAsset] = "missing" => InventoryReady'
             /\ ~HasActiveRequest(CountedAsset, DemoEmployee)
                  => LoanEligible(CountedAsset, DemoEmployee)'
  BY <1>1, SeedMakesReady, SeedMakesInventory, SeedKeepsEligible DEF DemoInv
<1>2. DemoInv =>
        [Seed =>
           /\ DeskReady'
           /\ NeedsInventory \/ result[demoSession][ReturnedAsset] = "missing" => InventoryReady'
           /\ ~HasActiveRequest(CountedAsset, DemoEmployee)
                => LoanEligible(CountedAsset, DemoEmployee)']_demoVars
  BY <1>1
<1> QED BY <1>2, DemoInvAlways, PTL DEF SeedRestoresDemo

\* On a ready demonstration the command changes no table and logs nothing.
THEOREM SeedingTwiceIsOnce == DemoSpec => SeedTwiceIsOnce
<1>1. ASSUME DemoInv, Seed, DeskReady, InventoryReady
      PROVE  UNCHANGED <<deskVars, inventoryRows>>
  <2> USE DEF DemoInv, DeskTypeOK
  <2>1. ~NeedsLoan /\ ~NeedsHistory
    BY <1>1 DEF DeskReady, NeedsLoan, NeedsHistory, ActiveLoans, DemoRequests, RequestsOf,
                RecordsMatchRequests, LoanTypeOK
  <2>2. MissingReports = {}
    BY <1>1 DEF DeskReady, MissingReports
  <2>3. ~NeedsInventory
    BY <1>1 DEF InventoryReady
  <2>4. UNCHANGED loanVars
    <3>1. PICK lent, returned : LoansSeeded(lent, returned)
      BY <1>1, SeedsLoans
    <3>2. lent = {} /\ returned = {}
      BY <2>1, <3>1 DEF LoansSeeded
    <3> QED BY <1>1, <3>1, <3>2 DEF LoansSeeded, LoanTypeOK, loanVars
  <2>5. UNCHANGED incidentStatus
    <3>1. PICK reports : ReportsSeeded(reports)
      BY <1>1, SeedsReports
    <3>2. reports = {}
      BY <2>2, <3>1 DEF ReportsSeeded
    <3> QED BY <1>1, <3>1, <3>2 DEF ReportsSeeded, IncidentTypeOK
  <2>6. UNCHANGED inventoryRows
    BY <1>1, <2>3 DEF Seed, SeedInventory
  <2>7. SeedEntries = {}
    BY <2>1, <2>2, <2>3 DEF SeedEntries
  <2>8. UNCHANGED auditLog
    <3>1. \A action \in AuditActions : auditLog[action] \in [AssetCodes -> Nat]
      BY <1>1 DEF AuditTypeOK
    <3>2. auditLog' = [action \in AuditActions |-> [code \in AssetCodes |-> auditLog[action][code] + 0]]
      BY <1>1, <2>7 DEF Seed
    <3>3. \A action \in AuditActions :
            [code \in AssetCodes |-> auditLog[action][code] + 0] = auditLog[action]
      BY <3>1
    <3> QED BY <1>1, <3>2, <3>3 DEF AuditTypeOK
  <2>9. UNCHANGED assetStatus
    BY <1>1 DEF Seed, DeskReady, LedgerTypeOK
  <2> QED BY <2>4, <2>5, <2>6, <2>8, <2>9 DEF deskVars
<1>2. DemoInv => [Seed /\ DeskReady /\ InventoryReady => UNCHANGED <<deskVars, inventoryRows>>]_demoVars
  BY <1>1
<1> QED BY <1>2, DemoInvAlways, PTL DEF SeedTwiceIsOnce

\* Neither the calls nor the command touch a session that is closed.
THEOREM ClosedAlwaysFinal == DemoSpec => ClosedSessionsFinal
<1>1. ASSUME DemoInv, [DemoNext]_demoVars, NEW s \in Sessions, sessionStatus[s] = "closed"
      PROVE  /\ sessionStatus'[s] = "closed" /\ closedBy'[s] = closedBy[s]
             /\ result'[s] = result[s]
  <2> USE DEF DemoInv, InventoryRowsTyped
  <2>1. CASE UNCHANGED inventoryRows
    BY <1>1, <2>1 DEF inventoryRows
  <2>2. CASE InventoryCall
    BY <1>1, <2>2
    DEF InventoryCall, OpenInventorySession, RecordInventoryResult, RecordWrites,
        CloseInventorySession, CloseWrites
  <2>3. CASE Seed
    <3>1. CASE NeedsInventory
      <4>1. PICK q \in Sessions : SeedInventory(q)
        BY <2>3 DEF Seed
      <4>2. s # q
        BY <1>1, <3>1, <4>1 DEF NeedsInventory, SeedInventory
      <4> QED BY <1>1, <3>1, <4>1, <4>2 DEF SeedInventory
    <3>2. CASE ~NeedsInventory
      BY <2>1, <2>3, <3>2 DEF Seed, SeedInventory
    <3> QED BY <3>1, <3>2
  <2> QED BY <1>1, <2>1, <2>2, <2>3, DemoCases
<1>2. DemoInv /\ [DemoNext]_demoVars =>
        [\A s \in Sessions : sessionStatus[s] = "closed" =>
           /\ sessionStatus'[s] = "closed" /\ closedBy'[s] = closedBy[s]
           /\ result'[s] = result[s]]_inventoryVars
  BY <1>1
<1> QED BY <1>2, DemoInvAlways, PTL DEF DemoSpec, ClosedSessionsFinal

-----------------------------------------------------------------------------
(* The audit log accounts for the inventory.                                *)

ClosedSessions == { s \in Sessions : sessionStatus[s] = "closed" }
SessionsWithResult(a) == { s \in Sessions : result[s][a] # "none" }

\* Entries about the inventory: n more for the sessions closed, and one more for
\* the results of each asset of S.
InventoryLogged(n, S) ==
  /\ Logged("inventory_closed", NoAsset)' = Logged("inventory_closed", NoAsset) + n
  /\ \A a \in Assets : Logged("inventory_recorded", a)' =
                       Logged("inventory_recorded", a) + IF a \in S THEN 1 ELSE 0

LEMMA LoggedIsNat ==
  ASSUME AuditTypeOK
  PROVE  /\ Logged("inventory_closed", NoAsset) \in Nat
         /\ \A a \in Assets : Logged("inventory_recorded", a) \in Nat
<1>1. {"inventory_closed", "inventory_recorded"} \subseteq AuditActions
      /\ NoAsset \in AssetCodes /\ Assets \subseteq AssetCodes
  BY DEF AuditActions, AssetCodes
<1>2. \A action \in AuditActions : auditLog[action] \in [AssetCodes -> Nat]
  BY DEF AuditTypeOK
<1> QED BY <1>1, <1>2 DEF Logged

LEMMA InventoryEntry ==
  ASSUME AuditTypeOK, NEW action \in AuditActions, NEW code \in AssetCodes,
         LogAction(action, code),
         action = "inventory_closed" => code = NoAsset,
         action = "inventory_recorded" => code \in Assets
  PROVE  InventoryLogged(IF action = "inventory_closed" THEN 1 ELSE 0,
                         IF action = "inventory_recorded" THEN {code} ELSE {})
<1>1. /\ {"inventory_closed", "inventory_recorded"} \subseteq AuditActions
      /\ NoAsset \in AssetCodes /\ Assets \subseteq AssetCodes
  BY DEF AuditActions, AssetCodes
<1>2. \A act \in AuditActions, c \in AssetCodes :
        Logged(act, c) \in Nat /\
        Logged(act, c)' = IF act = action /\ c = code THEN Logged(act, c) + 1 ELSE Logged(act, c)
  <2>1. \A act \in AuditActions : auditLog[act] \in [AssetCodes -> Nat]
    BY DEF AuditTypeOK
  <2>2. \A act \in AuditActions :
          auditLog'[act] = IF act = action THEN [auditLog[act] EXCEPT ![code] = auditLog[act][code] + 1]
                                           ELSE auditLog[act]
    BY DEF LogAction, AuditTypeOK
  <2> QED BY <2>1, <2>2 DEF Logged
<1>3. Logged("inventory_closed", NoAsset)' =
        Logged("inventory_closed", NoAsset) + IF action = "inventory_closed" THEN 1 ELSE 0
  BY <1>1, <1>2
<1>4. ASSUME NEW a \in Assets
      PROVE  Logged("inventory_recorded", a)' = Logged("inventory_recorded", a) +
               IF a \in IF action = "inventory_recorded" THEN {code} ELSE {} THEN 1 ELSE 0
  <2>1. CASE action = "inventory_recorded"
    BY <1>1, <1>2, <2>1
  <2>2. CASE action # "inventory_recorded"
    BY <1>1, <1>2, <2>2
  <2> QED BY <2>1, <2>2
<1> QED BY <1>3, <1>4 DEF InventoryLogged

\* Calls at the desk write no entry about the inventory.
LEMMA DeskLogsNoInventory ==
  ASSUME DeskTypeOK, [DeskNext]_deskVars
  PROVE  InventoryLogged(0, {})
<1>1. ASSUME NEW action \in AuditActions \ {"inventory_closed", "inventory_recorded"},
             NEW code \in AssetCodes, LogAction(action, code)
      PROVE  InventoryLogged(0, {})
  BY <1>1, InventoryEntry DEF DeskTypeOK
<1>2. ASSUME NEW r \in Requests, LoanStep(r)
      PROVE  InventoryLogged(0, {})
  <2>1. r.asset \in AssetCodes
    BY DEF Requests, AssetCodes
  <2>2. \E action \in {"loan_requested", "loan_approved", "loan_rejected", "return_requested",
                       "return_confirmed"} : LogAction(action, r.asset)
    BY <1>2 DEF LoanStep, CreateLoanRequest, CreateWrites, ApproveLoanRequest, ApproveWrites,
                RejectLoanRequest, RejectWrites, RequestReturn, RequestReturnWrites,
                ConfirmReturn, ConfirmWrites
  <2> QED BY <1>1, <2>1, <2>2 DEF AuditActions
<1>3. ASSUME NEW i \in IncidentReports, IncidentStep(i)
      PROVE  InventoryLogged(0, {})
  <2>1. i.asset \in AssetCodes
    BY DEF IncidentReports, AssetCodes
  <2>2. \E action \in {"incident_reported", "incident_resolved"} : LogAction(action, i.asset)
    BY <1>3 DEF IncidentStep, ReportIncident, ReportWrites, ResolveIncident, ResolveWrites
  <2> QED BY <1>1, <2>1, <2>2 DEF AuditActions
<1>4. CASE UNCHANGED deskVars
  BY <1>4, LoggedIsNat DEF deskVars, InventoryLogged, Logged, DeskTypeOK
<1> QED BY <1>2, <1>3, <1>4 DEF DeskNext

LEMMA SeedLogsInventory ==
  ASSUME DeskTypeOK, Seed
  PROVE  InventoryLogged(IF NeedsInventory THEN 1 ELSE 0,
                         IF NeedsInventory THEN {CountedAsset, ReturnedAsset} ELSE {})
<1>1. /\ {"inventory_closed", "inventory_recorded"} \subseteq AuditActions
      /\ NoAsset \in AssetCodes /\ Assets \subseteq AssetCodes /\ NoAsset \notin Assets
  BY AuditAssumption DEF AuditActions, AssetCodes
<1>2. \A act \in AuditActions, c \in AssetCodes :
        Logged(act, c)' = Logged(act, c) + IF <<act, c>> \in SeedEntries THEN 1 ELSE 0
  BY DEF Seed, Logged
<1>3. <<"inventory_closed", NoAsset>> \in SeedEntries <=> NeedsInventory
  BY DEF SeedEntries
<1>4. \A a \in Assets : <<"inventory_recorded", a>> \in SeedEntries <=>
                         NeedsInventory /\ a \in {CountedAsset, ReturnedAsset}
  BY <1>1 DEF SeedEntries
<1>5. Logged("inventory_closed", NoAsset)' =
        Logged("inventory_closed", NoAsset) + IF NeedsInventory THEN 1 ELSE 0
  BY <1>1, <1>2, <1>3
<1>6. \A a \in Assets : Logged("inventory_recorded", a)' = Logged("inventory_recorded", a) +
        IF a \in IF NeedsInventory THEN {CountedAsset, ReturnedAsset} ELSE {} THEN 1 ELSE 0
  <2> HIDE DEF NeedsInventory
  <2> QED BY <1>1, <1>2, <1>4
<1> QED BY <1>5, <1>6 DEF InventoryLogged

\* The rows that n and S stand for, all of session s.
RowsWritten(n, S, s) ==
  /\ ClosedSessions' = IF n = 1 THEN ClosedSessions \cup {s} ELSE ClosedSessions
  /\ n = 1 => s \notin ClosedSessions
  /\ \A a \in Assets : SessionsWithResult(a)' =
                       IF a \in S THEN SessionsWithResult(a) \cup {s} ELSE SessionsWithResult(a)

LEMMA EntriesFollowRows ==
  ASSUME AuditTypeOK, InventoryAuditComplete, NEW n \in {0, 1}, NEW S, NEW s \in Sessions,
         InventoryLogged(n, S), RowsWritten(n, S, s)
  PROVE  InventoryAuditComplete'
<1>1. \A T \in SUBSET Sessions :
        /\ IsFiniteSet(T) /\ Cardinality(T) \in Nat
        /\ Cardinality(T \cup {s}) = IF s \in T THEN Cardinality(T) ELSE Cardinality(T) + 1
  BY InventoryAssumption, FS_Subset, FS_CardinalityType, FS_AddElement
<1>2. ClosedSessions \in SUBSET Sessions /\ \A a \in Assets : SessionsWithResult(a) \in SUBSET Sessions
  BY DEF ClosedSessions, SessionsWithResult
<1>3. /\ Logged("inventory_closed", NoAsset) = Cardinality(ClosedSessions)
      /\ \A a \in Assets : Logged("inventory_recorded", a) >= Cardinality(SessionsWithResult(a))
  BY DEF InventoryAuditComplete, ClosedSessions, SessionsWithResult
<1>4. Logged("inventory_closed", NoAsset)' = Cardinality(ClosedSessions')
  BY <1>1, <1>2, <1>3 DEF InventoryLogged, RowsWritten
<1>5. ASSUME NEW a \in Assets
      PROVE  Logged("inventory_recorded", a)' >= Cardinality(SessionsWithResult(a)')
  <2> DEFINE T == SessionsWithResult(a)
             logged == Logged("inventory_recorded", a)
  <2>1. Cardinality(T) \in Nat /\ logged \in Nat /\ logged >= Cardinality(T)
    BY <1>1, <1>2, <1>3, LoggedIsNat
  <2>2. Cardinality(T \cup {s}) <= Cardinality(T) + 1
    <3>1. Cardinality(T \cup {s}) = IF s \in T THEN Cardinality(T) ELSE Cardinality(T) + 1
      BY <1>1, <1>2
    <3> HIDE DEF T
    <3> QED BY <2>1, <3>1
  <2>3. Cardinality(T \cup {s}) \in Nat
    BY <1>1, <1>2, <2>1
  <2>4. logged' = logged + IF a \in S THEN 1 ELSE 0
    BY DEF InventoryLogged
  <2>5. T' = IF a \in S THEN T \cup {s} ELSE T
    BY DEF RowsWritten
  <2>6. CASE a \in S
    <3>1. logged' = logged + 1 /\ Cardinality(T') = Cardinality(T \cup {s})
      BY <2>4, <2>5, <2>6
    <3> QED BY <2>1, <2>2, <2>3, <3>1
  <2>7. CASE a \notin S
    <3>1. logged' = logged + 0 /\ Cardinality(T') = Cardinality(T)
      BY <2>4, <2>5, <2>7
    <3> QED BY <2>1, <3>1
  <2> QED BY <2>6, <2>7
<1> QED BY <1>4, <1>5 DEF InventoryAuditComplete, ClosedSessions, SessionsWithResult

\* A step that writes no row of the inventory and no entry about it.
LEMMA NoRowsNoEntries ==
  ASSUME AuditTypeOK, InventoryAuditComplete, InventoryLogged(0, {}), UNCHANGED inventoryRows
  PROVE  InventoryAuditComplete'
<1>1. Logged("inventory_closed", NoAsset)' = Logged("inventory_closed", NoAsset)
      /\ \A a \in Assets : Logged("inventory_recorded", a)' = Logged("inventory_recorded", a)
  BY LoggedIsNat DEF InventoryLogged
<1> QED BY <1>1 DEF InventoryAuditComplete, inventoryRows

LEMMA InventoryAuditStep ==
  ASSUME DemoInv, InventoryAuditComplete, [DemoNext]_demoVars
  PROVE  InventoryAuditComplete'
<1> USE DEF DemoInv, InventoryRowsTyped
<1>a. AuditTypeOK /\ {CountedAsset, ReturnedAsset} \subseteq Assets
  BY DemoAssumption DEF DeskTypeOK
<1>1. CASE [DeskNext]_deskVars /\ UNCHANGED inventoryRows
  <2>1. InventoryLogged(0, {})
    BY <1>1, DeskLogsNoInventory
  <2> QED BY <1>1, <1>a, <2>1, NoRowsNoEntries
<1>2. CASE InventoryCall
  <2>1. PICK s \in Sessions :
          \/ OpenInventorySession(s)
          \/ \E a \in Assets, status \in ResultStatuses : RecordInventoryResult(s, a, status)
          \/ \E m \in Managers : CloseInventorySession(s, m)
    BY <1>2, InventoryCallIs
  <2>2. CASE OpenInventorySession(s)
    <3>1. InventoryLogged(0, {})
      BY <1>a, <2>2, LoggedIsNat DEF OpenInventorySession, InventoryLogged, Logged
    <3>2. RowsWritten(0, {}, s)
      BY <2>2 DEF OpenInventorySession, RowsWritten, ClosedSessions, SessionsWithResult
    <3> QED BY <1>a, <3>1, <3>2, EntriesFollowRows
  <2>3. ASSUME NEW a \in Assets, NEW status \in ResultStatuses, RecordInventoryResult(s, a, status)
        PROVE  InventoryAuditComplete'
    <3>1. InventoryLogged(0, {a})
      <4>1. LogAction("inventory_recorded", a) /\ a \in AssetCodes
            /\ "inventory_recorded" \in AuditActions
        BY <2>3 DEF RecordInventoryResult, RecordWrites, AssetCodes, AuditActions
      <4> QED BY <1>a, <4>1, InventoryEntry
    <3>2. RowsWritten(0, {a}, s)
      <4>1. \A q \in Sessions, b \in Assets :
              result'[q][b] = IF q = s /\ b = a THEN status ELSE result[q][b]
        BY <2>3 DEF RecordInventoryResult, RecordWrites
      <4>2. status # "none" /\ sessionStatus' = sessionStatus
        BY <2>3 DEF ResultStatuses, RecordInventoryResult, RecordWrites
      <4>3. ClosedSessions' = ClosedSessions
        BY <4>2 DEF ClosedSessions
      <4>4. SessionsWithResult(a)' = SessionsWithResult(a) \cup {s}
        BY <4>1, <4>2 DEF SessionsWithResult
      <4>5. \A b \in Assets \ {a} : SessionsWithResult(b)' = SessionsWithResult(b)
        BY <4>1 DEF SessionsWithResult
      <4> QED BY <4>3, <4>4, <4>5 DEF RowsWritten
    <3> QED BY <1>a, <3>1, <3>2, EntriesFollowRows
  <2>4. ASSUME NEW m \in Managers, CloseInventorySession(s, m)
        PROVE  InventoryAuditComplete'
    <3>1. InventoryLogged(1, {})
      <4>1. LogAction("inventory_closed", NoAsset) /\ NoAsset \in AssetCodes
            /\ "inventory_closed" \in AuditActions
        BY <2>4 DEF CloseInventorySession, CloseWrites, AssetCodes, AuditActions
      <4> QED BY <1>a, <4>1, InventoryEntry
    <3>2. RowsWritten(1, {}, s)
      BY <2>4 DEF CloseInventorySession, CloseWrites, RowsWritten, ClosedSessions, SessionsWithResult
    <3> QED BY <1>a, <3>1, <3>2, EntriesFollowRows
  <2> QED BY <2>1, <2>2, <2>3, <2>4
<1>3. CASE Seed
  <2> DEFINE n == IF NeedsInventory THEN 1 ELSE 0
             S == IF NeedsInventory THEN {CountedAsset, ReturnedAsset} ELSE {}
  <2>1. InventoryLogged(n, S)
    BY <1>3, SeedLogsInventory
  <2>2. CASE NeedsInventory
    <3>0. PICK s \in Sessions : SeedInventory(s)
      BY <1>3 DEF Seed
    <3>1. \A q \in Sessions : sessionStatus'[q] = IF q = s THEN "closed" ELSE sessionStatus[q]
      BY <2>2, <3>0 DEF SeedInventory
    <3>2. ClosedSessions' = ClosedSessions \cup {s} /\ s \notin ClosedSessions
      BY <2>2, <3>0, <3>1 DEF ClosedSessions, NeedsInventory, SeedInventory
    <3>3. \A q \in Sessions, b \in Assets :
            result'[q][b] = IF q = s /\ b = ReturnedAsset THEN "missing"
                            ELSE IF q = s /\ b = CountedAsset THEN "confirmed"
                            ELSE result[q][b]
      BY <1>a, <2>2, <3>0 DEF SeedInventory
    <3>4. \A b \in {CountedAsset, ReturnedAsset} :
            SessionsWithResult(b)' = SessionsWithResult(b) \cup {s}
      BY <1>a, <3>3 DEF SessionsWithResult
    <3>5. \A b \in Assets \ {CountedAsset, ReturnedAsset} :
            SessionsWithResult(b)' = SessionsWithResult(b)
      BY <3>3 DEF SessionsWithResult
    <3>6. RowsWritten(1, {CountedAsset, ReturnedAsset}, s)
      BY <3>2, <3>4, <3>5 DEF RowsWritten
    <3>7. InventoryLogged(1, {CountedAsset, ReturnedAsset})
      BY <2>1, <2>2
    <3> QED BY <1>a, <3>6, <3>7, EntriesFollowRows
  <2>3. CASE ~NeedsInventory
    <3>1. InventoryLogged(0, {})
      BY <2>1, <2>3
    <3>2. UNCHANGED inventoryRows
      BY <1>3, <2>3 DEF Seed, SeedInventory
    <3> QED BY <1>a, <3>1, <3>2, NoRowsNoEntries
  <2> QED BY <2>2, <2>3
<1> QED BY <1>1, <1>2, <1>3, DemoCases

\* No closing and no recording is missing from the audit log, none is left over
\* from a closing that did not happen; the command's own are among them.
THEOREM InventoryAuditAlwaysComplete == DemoSpec => []InventoryAuditComplete
<1>1. DemoInit => InventoryAuditComplete
  <2> SUFFICES ASSUME DemoInit PROVE InventoryAuditComplete
    OBVIOUS
  <2>1. { s \in Sessions : sessionStatus[s] = "closed" } = {}
        /\ \A a \in Assets : { s \in Sessions : result[s][a] # "none" } = {}
    BY DEF DemoInit, InventoryInit
  <2>2. Logged("inventory_closed", NoAsset) = 0
        /\ \A a \in Assets : Logged("inventory_recorded", a) = 0
    BY DEF DemoInit, InventoryInit, AuditInit, Logged, AuditActions, AssetCodes
  <2>3. Cardinality({}) = 0 /\ 0 >= 0
    BY FS_EmptySet
  <2>4. /\ Cardinality({ s \in Sessions : sessionStatus[s] = "closed" }) = 0
        /\ \A a \in Assets : Cardinality({ s \in Sessions : result[s][a] # "none" }) = 0
    BY <2>1, <2>3, Zenon
  <2> QED BY <2>2, <2>3, <2>4 DEF InventoryAuditComplete
<1> QED BY <1>1, InventoryAuditStep, DemoInvAlways, PTL DEF DemoSpec
=============================================================================
