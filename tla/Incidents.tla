----------------------------- MODULE Incidents -----------------------------
(* Incident reports (incidents/models.py) and the two service functions     *)
(* that change them (incidents/services.py).  As in module Loans, the guard *)
(* of each function is kept apart from its writes.                          *)
EXTENDS AuditLog

CONSTANT IncidentSlots   \* how many reports of a type an asset may collect

ASSUME IncidentsAssumption == IsFiniteSet(IncidentSlots)

IncidentTypes == {"breakdown", "lost", "retired"}

\* A row of the incident table, identified by the columns fixed on INSERT.
IncidentReports == [asset: Assets, type: IncidentTypes, slot: IncidentSlots]

VARIABLE incidentStatus  \* IncidentReport.status, "absent" before the INSERT

IncidentTypeOK ==
  incidentStatus \in [IncidentReports -> {"absent", "open", "resolved"}]

IncidentInit == incidentStatus = [i \in IncidentReports |-> "absent"]

\* Mutated form: the incident type is saved as the asset's status.
TypeAsStatus(type) == type

\* status_map of report_incident: a breakdown means in_repair, a loss means
\* lost, a retirement means retired.
StatusOfType(type) == IF type = "breakdown" THEN "in_repair" ELSE type

\* The guards of report_incident, on the asset status the caller has read.
ReportAllowed(type, status) ==
  /\ status # "retired"
  /\ ~(status = "lost" /\ type = "lost")

\* The guards of resolve_incident, on the incident status the caller has read.
ResolveAllowed(i, status) ==
  /\ status = "open"
  /\ i.type = "breakdown"

ReportWrites(i) ==
  /\ incidentStatus[i] = "absent"
  /\ incidentStatus' = [incidentStatus EXCEPT ![i] = "open"]
  /\ SaveStatus(i.asset, StatusOfType(i.type))
  /\ LogAction("incident_reported", i.asset)

\* Mutated form: the call of log_action is missing.
ResolveUnlogged(i) ==
  /\ incidentStatus' = [incidentStatus EXCEPT ![i] = "resolved"]
  /\ SaveStatus(i.asset, "in_stock")
  /\ UNCHANGED auditLog

\* The asset goes back to stock whatever its status is by now.
ResolveWrites(i) ==
  /\ incidentStatus' = [incidentStatus EXCEPT ![i] = "resolved"]
  /\ SaveStatus(i.asset, "in_stock")
  /\ LogAction("incident_resolved", i.asset)

ReportIncident(i) ==
  /\ ReportAllowed(i.type, assetStatus[i.asset])
  /\ ReportWrites(i)

ResolveIncident(i) ==
  /\ ResolveAllowed(i, incidentStatus[i])
  /\ ResolveWrites(i)

IncidentStep(i) == ReportIncident(i) \/ ResolveIncident(i)

-----------------------------------------------------------------------------
(* Properties.                                                              *)

ReportsOf(a) == { i \in IncidentReports : i.asset = a }

Filed(i) == incidentStatus[i] # "absent"

RepairsOf(a) == { i \in ReportsOf(a) : incidentStatus[i] = "resolved" }

\* The audit log accounts for every incident row: one entry per report of the
\* asset, and one more per report that was resolved.
IncidentAuditComplete ==
  \A a \in Assets :
    /\ Logged("incident_reported", a) =
         Cardinality({ i \in ReportsOf(a) : Filed(i) })
    /\ Logged("incident_resolved", a) = Cardinality(RepairsOf(a))
=============================================================================
