------------------------------ MODULE AuditLog ------------------------------
(* The audit log (auditlogs/models.py, auditlogs/services.py).  Entries are *)
(* only ever inserted.  An entry names its action and the asset_code it is  *)
(* about; free text (object_repr, extra, actor) is left out, so the log is  *)
(* the number of entries per action and asset code.                         *)
EXTENDS AssetLedger

VARIABLE auditLog

AuditActions ==
  { "loan_requested", "loan_approved", "loan_rejected",
    "return_requested", "return_confirmed",
    "incident_reported", "incident_resolved",
    "inventory_recorded", "inventory_closed" }

\* log_action(asset_code="") : an entry that is about no asset.
NoAsset == "no asset"

ASSUME AuditAssumption == NoAsset \notin Assets

\* The value of a user column that is null.
Nobody == "nobody"

AssetCodes == Assets \cup {NoAsset}

AuditTypeOK == auditLog \in [AuditActions -> [AssetCodes -> Nat]]

AuditInit == auditLog = [action \in AuditActions |-> [code \in AssetCodes |-> 0]]

\* log_action: one more entry for this action and asset code.
LogAction(action, code) ==
  auditLog' = [auditLog EXCEPT ![action][code] = @ + 1]

\* The number of entries a reader of the log finds for an action on an asset.
Logged(action, code) == auditLog[action][code]
=============================================================================
