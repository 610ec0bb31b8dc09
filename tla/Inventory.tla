----------------------------- MODULE Inventory -----------------------------
(* Inventory sessions and their results (inventory/models.py) and the       *)
(* service functions that change them (inventory/services.py), one request  *)
(* at a time.  Guards are kept apart from writes; InventoryServer reuses    *)
(* the writes.                                                              *)
EXTENDS AuditLog

CONSTANTS
  Sessions,          \* the inventory sessions that may be opened
  Managers,          \* the users that may run an inventory
  MaxRecordings      \* bound: how often the result of an asset is recorded

ASSUME InventoryAssumption ==
  /\ IsFiniteSet(Sessions) /\ IsFiniteSet(Managers)
  /\ MaxRecordings \in Nat
  /\ Nobody \notin Managers

VARIABLES
  sessionStatus,     \* InventorySession.status, "absent" before the INSERT
  closedBy,          \* InventorySession.closed_by
  result             \* InventoryResult.status per session and asset

inventoryVars == <<assetStatus, auditLog, sessionStatus, closedBy, result>>

ResultStatuses == {"confirmed", "missing"}

InventoryTypeOK ==
  /\ LedgerTypeOK /\ AuditTypeOK
  /\ sessionStatus \in [Sessions -> {"absent", "open", "closed"}]
  /\ closedBy \in [Sessions -> Managers \cup {Nobody}]
  /\ result \in [Sessions -> [Assets -> ResultStatuses \cup {"none"}]]

InventoryInit ==
  /\ LedgerInit /\ AuditInit
  /\ sessionStatus = [s \in Sessions |-> "absent"]
  /\ closedBy = [s \in Sessions |-> Nobody]
  /\ result = [s \in Sessions |-> [a \in Assets |-> "none"]]

\* open_inventory_session: a bare INSERT, the one write that is not logged.
OpenInventorySession(s) ==
  /\ sessionStatus[s] = "absent"
  /\ sessionStatus' = [sessionStatus EXCEPT ![s] = "open"]
  /\ UNCHANGED <<assetStatus, auditLog, closedBy, result>>

\* update_or_create keeps one row per session and asset, the latest status.
RecordWrites(s, a, status) ==
  /\ Logged("inventory_recorded", a) < MaxRecordings
  /\ result' = [result EXCEPT ![s][a] = status]
  /\ LogAction("inventory_recorded", a)
  /\ UNCHANGED <<assetStatus, sessionStatus, closedBy>>

\* Mutated form: the call of log_action is missing.
CloseUnlogged(s, m) ==
  /\ sessionStatus' = [sessionStatus EXCEPT ![s] = "closed"]
  /\ closedBy' = [closedBy EXCEPT ![s] = m]
  /\ UNCHANGED <<assetStatus, auditLog, result>>

\* Mutated form: closed_by is not among the saved fields.
CloseAnonymously(s, m) ==
  /\ sessionStatus' = [sessionStatus EXCEPT ![s] = "closed"]
  /\ LogAction("inventory_closed", NoAsset)
  /\ UNCHANGED <<assetStatus, closedBy, result>>

\* Mutated form: a status that is not one of the choices.
CloseAsDone(s, m) ==
  /\ sessionStatus' = [sessionStatus EXCEPT ![s] = "done"]
  /\ closedBy' = [closedBy EXCEPT ![s] = m]
  /\ LogAction("inventory_closed", NoAsset)
  /\ UNCHANGED <<assetStatus, result>>

CloseWrites(s, m) ==
  /\ sessionStatus' = [sessionStatus EXCEPT ![s] = "closed"]
  /\ closedBy' = [closedBy EXCEPT ![s] = m]
  /\ LogAction("inventory_closed", NoAsset)
  /\ UNCHANGED <<assetStatus, result>>

RecordInventoryResult(s, a, status) ==
  /\ sessionStatus[s] = "open"
  /\ RecordWrites(s, a, status)

\* Mutated form: the session may be closed already.
CloseAgain(s, m) ==
  /\ sessionStatus[s] # "absent"
  /\ CloseWrites(s, m)

CloseInventorySession(s, m) ==
  /\ sessionStatus[s] = "open"
  /\ CloseWrites(s, m)

InventoryNext ==
  \E s \in Sessions :
    \/ OpenInventorySession(s)
    \/ \E a \in Assets, status \in ResultStatuses : RecordInventoryResult(s, a, status)
    \/ \E m \in Managers : CloseInventorySession(s, m)

InventorySpec == InventoryInit /\ [][InventoryNext]_inventoryVars

\* get_discrepancies: assets that were not found although they are in stock.
\* The asset's status is the one at the time of the query, also for a session
\* that was closed long ago.
Discrepancies(s) ==
  { a \in Assets : result[s][a] = "missing" /\ assetStatus[a] = "in_stock" }

-----------------------------------------------------------------------------
(* Properties.                                                              *)

\* "No result can be entered into a closed session", "This session is already
\* closed": what was found in a session is settled when it is closed, it is
\* closed once, and the manager recorded as having closed it stays the one.
ClosedSessionsFinal ==
  [][\A s \in Sessions : sessionStatus[s] = "closed" =>
       /\ sessionStatus'[s] = "closed" /\ closedBy'[s] = closedBy[s]
       /\ result'[s] = result[s]]_inventoryVars

\* The audit log accounts for the inventory: one entry per session closed, and
\* at least one per result that a session shows for an asset.
InventoryAuditComplete ==
  /\ Logged("inventory_closed", NoAsset) =
       Cardinality({ s \in Sessions : sessionStatus[s] = "closed" })
  /\ \A a \in Assets :
       Logged("inventory_recorded", a) >=
         Cardinality({ s \in Sessions : result[s][a] # "none" })
=============================================================================
