-------------------------- MODULE InventoryServer --------------------------
(* The inventory as it is served: the view loads the session, the service   *)
(* checks the loaded status, and the writes follow in a transaction that    *)
(* does not look at the session again.                                      *)
EXTENDS Inventory

CONSTANT Workers

VARIABLE task

inventoryServerVars == <<inventoryVars, task>>

Idle == [op |-> "idle"]

Tasks ==
  {Idle}
    \cup [op: {"record"}, session: Sessions, asset: Assets, status: ResultStatuses]
    \cup [op: {"close"}, session: Sessions, manager: Managers]

InventoryServerTypeOK == InventoryTypeOK /\ task \in [Workers -> Tasks]

InventoryServerInit == InventoryInit /\ task = [w \in Workers |-> Idle]

\* Mutated form: the loaded session's status is not checked.
LoadAnySession(w, t) ==
  /\ task[w] = Idle
  /\ sessionStatus[t.session] # "absent"
  /\ Logged("inventory_closed", NoAsset) < 3
  /\ task' = [task EXCEPT ![w] = t]
  /\ UNCHANGED inventoryVars

\* InventoryResultInputView and InventorySessionCloseView load the session.
LoadSession(w, t) ==
  /\ task[w] = Idle
  /\ sessionStatus[t.session] = "open"
  /\ task' = [task EXCEPT ![w] = t]
  /\ UNCHANGED inventoryVars

Finish(w) == task' = [task EXCEPT ![w] = Idle]

\* InventorySessionCreateView: there is nothing to load.
ServeOpen(s) == OpenInventorySession(s) /\ UNCHANGED task

CommitRecord(w) ==
  /\ task[w].op = "record"
  /\ RecordWrites(task[w].session, task[w].asset, task[w].status)
  /\ Finish(w)

CommitClose(w) ==
  /\ task[w].op = "close"
  /\ CloseWrites(task[w].session, task[w].manager)
  /\ Finish(w)

\* The transaction fails and rolls back.
Abort(w) == task[w] # Idle /\ Finish(w) /\ UNCHANGED inventoryVars

InventoryServerNext ==
  \/ \E s \in Sessions : ServeOpen(s)
  \/ \E w \in Workers :
       \/ \E t \in Tasks \ {Idle} : LoadSession(w, t)
       \/ CommitRecord(w)
       \/ CommitClose(w)
       \/ Abort(w)

InventoryServerSpec ==
  InventoryServerInit /\ [][InventoryServerNext]_inventoryServerVars

-----------------------------------------------------------------------------
(* Properties.                                                              *)

\* With a single worker the server does exactly what the services do when
\* they are called one after the other.
InventoryServedSerially == InventorySpec

\* A session that is closed and that no request still works on is settled: no
\* later request gets through to it, however many are served.  Only requests
\* that had loaded the session before it was closed can still change it.
Settled(s) ==
  /\ sessionStatus[s] = "closed"
  /\ \A w \in Workers : task[w] # Idle => task[w].session # s

SettledSessionsFinal ==
  [][\A s \in Sessions : Settled(s) =>
       Settled(s)' /\ closedBy'[s] = closedBy[s] /\ result'[s] = result[s]]_inventoryServerVars

\* When requests overlap, results still only exist in sessions that were
\* opened, a session that somebody has closed is closed, and every closing and
\* every result shown is accounted for in the audit log.
InventoryAccounted ==
  /\ \A s \in Sessions : closedBy[s] # Nobody <=> sessionStatus[s] = "closed"
  /\ \A s \in Sessions, a \in Assets :
       result[s][a] # "none" => sessionStatus[s] # "absent"
  /\ Logged("inventory_closed", NoAsset) >=
       Cardinality({ s \in Sessions : sessionStatus[s] = "closed" })
  /\ \A a \in Assets :
       Logged("inventory_recorded", a) >=
         Cardinality({ s \in Sessions : result[s][a] # "none" })
=============================================================================
