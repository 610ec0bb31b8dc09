---------------------------- MODULE AssetLedger ----------------------------
(* The status column of the asset table (assets/models.py).  Every other    *)
(* component reads it, and the loan and incident services write it.  The    *)
(* assets app itself never changes it: its views only list and show assets. *)
EXTENDS Naturals, FiniteSets

CONSTANT Assets          \* the registered assets (asset_code is unique)

ASSUME AssetsAssumption == IsFiniteSet(Assets)

VARIABLE assetStatus     \* Asset.status of every asset

AssetStatuses == {"in_stock", "on_loan", "in_repair", "lost", "retired"}

LedgerTypeOK == assetStatus \in [Assets -> AssetStatuses]

\* A newly registered asset takes the default of the status field.
LedgerInit == assetStatus = [a \in Assets |-> "in_stock"]

\* Asset.is_available_for_loan
IsAvailableForLoan(a) == assetStatus[a] = "in_stock"

\* asset.status = s; asset.save(update_fields=["status", ...]): the UPDATE is
\* blind, it does not look at the status the row has by then.
SaveStatus(a, s) == assetStatus' = [assetStatus EXCEPT ![a] = s]
=============================================================================
