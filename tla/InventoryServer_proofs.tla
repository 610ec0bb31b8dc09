----------------------- MODULE InventoryServer_proofs -----------------------
(* What the inventory guarantees for any number of sessions, assets and     *)
(* workers.                                                                 *)
EXTENDS InventoryServer, FiniteSetTheorems, TLAPS

-----------------------------------------------------------------------------
(* Type correctness.                                                        *)

LEMMA InventoryLogType ==
  ASSUME AuditTypeOK, NEW action \in AuditActions, NEW code \in AssetCodes,
         LogAction(action, code)
  PROVE  /\ AuditTypeOK'
         /\ Logged(action, code)' = Logged(action, code) + 1
         /\ \A act \in AuditActions, c \in AssetCodes :
              act # action \/ c # code => Logged(act, c)' = Logged(act, c)
<1>1. auditLog[action] \in [AssetCodes -> Nat]
  BY DEF AuditTypeOK
<1>2. [auditLog[action] EXCEPT ![code] = @ + 1] \in [AssetCodes -> Nat]
  BY <1>1
<1> QED
  BY <1>1, <1>2 DEF AuditTypeOK, LogAction, Logged

\* What a task remembers.
LEMMA TaskData ==
  ASSUME InventoryServerTypeOK, NEW w \in Workers
  PROVE  /\ task[w] # Idle => task[w].session \in Sessions
         /\ task[w].op = "record" =>
              task[w] # Idle /\ task[w].asset \in Assets /\ task[w].status \in ResultStatuses
         /\ task[w].op = "close" => task[w] # Idle /\ task[w].manager \in Managers
BY DEF InventoryServerTypeOK, Tasks, Idle

LEMMA InventoryTypeStep ==
  ASSUME InventoryServerTypeOK, [InventoryServerNext]_inventoryServerVars
  PROVE  InventoryServerTypeOK'
<1> USE DEF InventoryServerTypeOK, InventoryTypeOK
<1>1. ASSUME NEW s \in Sessions, ServeOpen(s)
      PROVE  InventoryServerTypeOK'
  BY <1>1 DEF ServeOpen, OpenInventorySession, LedgerTypeOK, AuditTypeOK
<1>2. ASSUME NEW w \in Workers, NEW t \in Tasks \ {Idle}, LoadSession(w, t)
      PROVE  InventoryServerTypeOK'
  BY <1>2 DEF LoadSession, inventoryVars, LedgerTypeOK, AuditTypeOK
<1>3. ASSUME NEW w \in Workers, CommitRecord(w)
      PROVE  InventoryServerTypeOK'
  <2> DEFINE s == task[w].session
             a == task[w].asset
  <2>1. s \in Sessions /\ a \in Assets /\ task[w].status \in ResultStatuses
    BY <1>3, TaskData DEF CommitRecord
  <2>2. AuditTypeOK'
    BY <1>3, <2>1, InventoryLogType DEF CommitRecord, RecordWrites, AuditActions, AssetCodes
  <2>3. result' \in [Sessions -> [Assets -> ResultStatuses \cup {"none"}]]
    <3>1. result[s] \in [Assets -> ResultStatuses \cup {"none"}]
      BY <2>1
    <3>2. [result[s] EXCEPT ![a] = task[w].status] \in [Assets -> ResultStatuses \cup {"none"}]
      BY <2>1, <3>1
    <3> QED BY <1>3, <2>1, <3>2 DEF CommitRecord, RecordWrites
  <2> QED BY <1>3, <2>2, <2>3 DEF CommitRecord, RecordWrites, Finish, Tasks, LedgerTypeOK
<1>4. ASSUME NEW w \in Workers, CommitClose(w)
      PROVE  InventoryServerTypeOK'
  <2>1. task[w].session \in Sessions /\ task[w].manager \in Managers
    BY <1>4, TaskData DEF CommitClose
  <2>2. AuditTypeOK'
    BY <1>4, <2>1, InventoryLogType DEF CommitClose, CloseWrites, AuditActions, AssetCodes
  <2> QED BY <1>4, <2>1, <2>2 DEF CommitClose, CloseWrites, Finish, Tasks, LedgerTypeOK
<1>5. ASSUME NEW w \in Workers, Abort(w)
      PROVE  InventoryServerTypeOK'
  BY <1>5 DEF Abort, Finish, Tasks, inventoryVars, LedgerTypeOK, AuditTypeOK
<1>6. CASE UNCHANGED inventoryServerVars
  BY <1>6 DEF inventoryServerVars, inventoryVars, LedgerTypeOK, AuditTypeOK
<1> QED
  BY <1>1, <1>2, <1>3, <1>4, <1>5, <1>6 DEF InventoryServerNext

\* The tables of the inventory stay well typed, whatever requests overlap.
THEOREM InventoryTypeCorrect == InventoryServerSpec => []InventoryServerTypeOK
<1>1. InventoryServerInit => InventoryServerTypeOK
  BY DEF InventoryServerInit, InventoryInit, LedgerInit, AuditInit, InventoryServerTypeOK,
         InventoryTypeOK, LedgerTypeOK, AuditTypeOK, AssetStatuses, Tasks
<1> QED BY <1>1, InventoryTypeStep, PTL DEF InventoryServerSpec

-----------------------------------------------------------------------------
(* Settled sessions.                                                        *)

\* A session that is closed and that no request still works on stays as it is,
\* however many workers serve requests.
THEOREM SettledStaysSettled == InventoryServerSpec => SettledSessionsFinal
<1>1. ASSUME InventoryServerTypeOK, [InventoryServerNext]_inventoryServerVars,
             NEW s \in Sessions, Settled(s)
      PROVE  Settled(s)' /\ closedBy'[s] = closedBy[s] /\ result'[s] = result[s]
  <2> USE DEF Settled, InventoryServerTypeOK, InventoryTypeOK
  <2>1. ASSUME NEW r \in Sessions, ServeOpen(r)
        PROVE  Settled(s)' /\ closedBy'[s] = closedBy[s] /\ result'[s] = result[s]
    BY <1>1, <2>1 DEF ServeOpen, OpenInventorySession
  <2>2. ASSUME NEW w \in Workers, NEW t \in Tasks \ {Idle}, LoadSession(w, t)
        PROVE  Settled(s)' /\ closedBy'[s] = closedBy[s] /\ result'[s] = result[s]
    BY <1>1, <2>2 DEF LoadSession, inventoryVars
  <2>3. ASSUME NEW w \in Workers, CommitRecord(w)
        PROVE  Settled(s)' /\ closedBy'[s] = closedBy[s] /\ result'[s] = result[s]
    <3>1. task[w].session # s
      BY <1>1, <2>3, TaskData DEF CommitRecord
    <3> QED BY <1>1, <2>3, <3>1 DEF CommitRecord, RecordWrites, Finish
  <2>4. ASSUME NEW w \in Workers, CommitClose(w)
        PROVE  Settled(s)' /\ closedBy'[s] = closedBy[s] /\ result'[s] = result[s]
    <3>1. task[w].session # s
      BY <1>1, <2>4, TaskData DEF CommitClose
    <3> QED BY <1>1, <2>4, <3>1 DEF CommitClose, CloseWrites, Finish
  <2>5. ASSUME NEW w \in Workers, Abort(w)
        PROVE  Settled(s)' /\ closedBy'[s] = closedBy[s] /\ result'[s] = result[s]
    BY <1>1, <2>5 DEF Abort, Finish, inventoryVars
  <2>6. CASE UNCHANGED inventoryServerVars
    BY <1>1, <2>6 DEF inventoryServerVars, inventoryVars
  <2> QED
    BY <1>1, <2>1, <2>2, <2>3, <2>4, <2>5, <2>6 DEF InventoryServerNext
<1>2. InventoryServerTypeOK /\ [InventoryServerNext]_inventoryServerVars =>
        [\A s \in Sessions : Settled(s) =>
           Settled(s)' /\ closedBy'[s] = closedBy[s] /\ result'[s] = result[s]]_inventoryServerVars
  BY <1>1
<1> QED
  BY <1>2, InventoryTypeCorrect, PTL DEF InventoryServerSpec, SettledSessionsFinal

-----------------------------------------------------------------------------
(* The audit log accounts for the sessions and their results.               *)

\* The rows that InventoryAccounted counts.
ClosedSessions == { s \in Sessions : sessionStatus[s] = "closed" }
SessionsWithResult(a) == { s \in Sessions : result[s][a] # "none" }

\* A session that a task works on has been opened.
TasksOnOpened ==
  \A w \in Workers : task[w] # Idle => sessionStatus[task[w].session] # "absent"

\* What a step may do to a set of rows, so that entries stay at least as many.
LEMMA OneMoreRow ==
  ASSUME NEW S \in SUBSET Sessions, NEW s \in Sessions, NEW n \in Nat, Cardinality(S) <= n
  PROVE  Cardinality(S \cup {s}) <= n + 1
<1>1. IsFiniteSet(S)
  BY InventoryAssumption, FS_Subset
<1>2. Cardinality(S) \in Nat
  BY <1>1, FS_CardinalityType
<1>3. Cardinality(S \cup {s}) = IF s \in S THEN Cardinality(S) ELSE Cardinality(S) + 1
  BY <1>1, FS_AddElement
<1> QED BY <1>2, <1>3

LEMMA AccountedStep ==
  ASSUME InventoryServerTypeOK, TasksOnOpened, InventoryAccounted,
         [InventoryServerNext]_inventoryServerVars
  PROVE  InventoryAccounted' /\ TasksOnOpened'
<1> USE DEF InventoryServerTypeOK, InventoryTypeOK
<1>0. /\ InventoryAccounted <=>
           /\ \A s \in Sessions : closedBy[s] # Nobody <=> sessionStatus[s] = "closed"
           /\ \A s \in Sessions, a \in Assets :
                result[s][a] # "none" => sessionStatus[s] # "absent"
           /\ Logged("inventory_closed", NoAsset) >= Cardinality(ClosedSessions)
           /\ \A a \in Assets :
                Logged("inventory_recorded", a) >= Cardinality(SessionsWithResult(a))
      /\ \A action \in AuditActions, code \in AssetCodes : Logged(action, code) \in Nat
      /\ {"inventory_closed", "inventory_recorded"} \subseteq AuditActions
      /\ NoAsset \in AssetCodes /\ Assets \subseteq AssetCodes
  BY DEF InventoryAccounted, ClosedSessions, SessionsWithResult, Logged, AuditTypeOK,
         AuditActions, AssetCodes
<1>a. InventoryAccounted' <=>
        /\ \A s \in Sessions : closedBy'[s] # Nobody <=> sessionStatus'[s] = "closed"
        /\ \A s \in Sessions, a \in Assets :
             result'[s][a] # "none" => sessionStatus'[s] # "absent"
        /\ Logged("inventory_closed", NoAsset)' >= Cardinality(ClosedSessions')
        /\ \A a \in Assets :
             Logged("inventory_recorded", a)' >= Cardinality(SessionsWithResult(a)')
  BY DEF InventoryAccounted, ClosedSessions, SessionsWithResult
<1>1. ASSUME NEW r \in Sessions, ServeOpen(r)
      PROVE  InventoryAccounted' /\ TasksOnOpened'
  <2>1. ClosedSessions' = ClosedSessions /\ \A a \in Assets : SessionsWithResult(a)' = SessionsWithResult(a)
    BY <1>1 DEF ServeOpen, OpenInventorySession, ClosedSessions, SessionsWithResult
  <2>2. TasksOnOpened'
    BY <1>1, TaskData DEF ServeOpen, OpenInventorySession, TasksOnOpened
  <2> QED BY <1>0, <1>a, <1>1, <2>1, <2>2 DEF ServeOpen, OpenInventorySession, Logged
<1>2. ASSUME NEW w \in Workers, CommitRecord(w)
      PROVE  InventoryAccounted' /\ TasksOnOpened'
  <2>1. PICK s \in Sessions, b \in Assets :
          task[w].session = s /\ task[w].asset = b /\ task[w] # Idle
    BY <1>2, TaskData DEF CommitRecord
  <2>2. /\ Logged("inventory_recorded", b)' = Logged("inventory_recorded", b) + 1
        /\ \A a \in Assets \ {b} : Logged("inventory_recorded", a)' = Logged("inventory_recorded", a)
        /\ Logged("inventory_closed", NoAsset)' = Logged("inventory_closed", NoAsset)
    BY <1>0, <1>2, <2>1, InventoryLogType DEF CommitRecord, RecordWrites
  <2>3. /\ ClosedSessions' = ClosedSessions
        /\ SessionsWithResult(b)' = SessionsWithResult(b) \cup {s}
        /\ \A a \in Assets \ {b} : SessionsWithResult(a)' = SessionsWithResult(a)
    <3>1. task[w].status # "none"
      BY <1>2, TaskData DEF CommitRecord, ResultStatuses
    <3>2. \A q \in Sessions, a \in Assets :
            result'[q][a] = IF q = s /\ a = b THEN task[w].status ELSE result[q][a]
      BY <1>2, <2>1 DEF CommitRecord, RecordWrites
    <3>3. SessionsWithResult(b)' = SessionsWithResult(b) \cup {s}
      BY <2>1, <3>1, <3>2 DEF SessionsWithResult
    <3>4. \A a \in Assets \ {b} : SessionsWithResult(a)' = SessionsWithResult(a)
      BY <3>2 DEF SessionsWithResult
    <3> QED BY <1>2, <3>3, <3>4 DEF CommitRecord, RecordWrites, ClosedSessions
  <2>4. Cardinality(SessionsWithResult(b)') <= Logged("inventory_recorded", b) + 1
    <3>1. SessionsWithResult(b) \in SUBSET Sessions
      BY DEF SessionsWithResult
    <3>2. Cardinality(SessionsWithResult(b)) <= Logged("inventory_recorded", b)
          /\ Logged("inventory_recorded", b) \in Nat
      BY <1>0, <2>1 DEF AssetCodes
    <3>3. Cardinality(SessionsWithResult(b) \cup {s}) <= Logged("inventory_recorded", b) + 1
      BY <2>1, <3>1, <3>2, OneMoreRow
    <3> QED BY <2>3, <3>3
  <2>5. \A q \in Sessions, a \in Assets : result'[q][a] # "none" => sessionStatus'[q] # "absent"
    BY <1>0, <1>2, <2>1 DEF CommitRecord, RecordWrites, TasksOnOpened
  <2>6. TasksOnOpened'
    BY <1>2 DEF CommitRecord, RecordWrites, Finish, TasksOnOpened
  <2>7. \A a \in Assets : Logged("inventory_recorded", a)' >= Cardinality(SessionsWithResult(a)')
    BY <1>0, <2>1, <2>2, <2>3, <2>4
  <2> QED BY <1>0, <1>a, <1>2, <2>2, <2>3, <2>5, <2>6, <2>7 DEF CommitRecord, RecordWrites
<1>3. ASSUME NEW w \in Workers, CommitClose(w)
      PROVE  InventoryAccounted' /\ TasksOnOpened'
  <2>1. PICK s \in Sessions, m \in Managers :
          task[w].session = s /\ task[w].manager = m /\ m # Nobody
    BY <1>3, TaskData, InventoryAssumption DEF CommitClose
  <2>2. /\ Logged("inventory_closed", NoAsset)' = Logged("inventory_closed", NoAsset) + 1
        /\ \A a \in Assets : Logged("inventory_recorded", a)' = Logged("inventory_recorded", a)
    BY <1>0, <1>3, InventoryLogType DEF CommitClose, CloseWrites
  <2>3. /\ ClosedSessions' = ClosedSessions \cup {s}
        /\ \A a \in Assets : SessionsWithResult(a)' = SessionsWithResult(a)
    BY <1>3, <2>1 DEF CommitClose, CloseWrites, ClosedSessions, SessionsWithResult
  <2>4. Cardinality(ClosedSessions') <= Logged("inventory_closed", NoAsset) + 1
    <3>1. ClosedSessions \in SUBSET Sessions
      BY DEF ClosedSessions
    <3>2. IsFiniteSet(ClosedSessions)
      BY <3>1, InventoryAssumption, FS_Subset
    <3>3. Cardinality(ClosedSessions) <= Logged("inventory_closed", NoAsset)
          /\ Logged("inventory_closed", NoAsset) \in Nat
      BY <1>0, <3>2, FS_CardinalityType
    <3> QED BY <2>1, <2>3, <3>1, <3>3, OneMoreRow
  <2>5. TasksOnOpened'
    BY <1>3, TaskData DEF CommitClose, CloseWrites, Finish, TasksOnOpened
  <2>6. \A q \in Sessions : closedBy'[q] # Nobody <=> sessionStatus'[q] = "closed"
    BY <1>0, <1>3, <2>1 DEF CommitClose, CloseWrites
  <2>7. \A q \in Sessions, a \in Assets : result'[q][a] # "none" => sessionStatus'[q] # "absent"
    BY <1>0, <1>3, <2>1 DEF CommitClose, CloseWrites
  <2>8. Logged("inventory_closed", NoAsset)' >= Cardinality(ClosedSessions')
    BY <1>0, <2>2, <2>4
  <2> QED BY <1>0, <1>a, <2>2, <2>3, <2>5, <2>6, <2>7, <2>8
<1>4. ASSUME UNCHANGED inventoryVars, TasksOnOpened'
      PROVE  InventoryAccounted' /\ TasksOnOpened'
  BY <1>4 DEF inventoryVars, InventoryAccounted, Logged
<1>5. ASSUME NEW w \in Workers, NEW t \in Tasks \ {Idle}, LoadSession(w, t)
      PROVE  TasksOnOpened'
  BY <1>5 DEF LoadSession, inventoryVars, TasksOnOpened
<1>6. ASSUME NEW w \in Workers, Abort(w)
      PROVE  TasksOnOpened'
  BY <1>6 DEF Abort, Finish, inventoryVars, TasksOnOpened
<1>7. CASE UNCHANGED inventoryServerVars
  BY <1>4, <1>7 DEF inventoryServerVars, inventoryVars, TasksOnOpened
<1> QED
  BY <1>1, <1>2, <1>3, <1>4, <1>5, <1>6, <1>7
  DEF InventoryServerNext, LoadSession, Abort

\* However requests overlap, whoever closed a session is recorded, results
\* belong to sessions that were opened, and the audit log misses nothing.
THEOREM InventoryAlwaysAccounted == InventoryServerSpec => []InventoryAccounted
<1>1. InventoryServerInit => InventoryAccounted /\ TasksOnOpened
  <2> SUFFICES ASSUME InventoryServerInit PROVE InventoryAccounted /\ TasksOnOpened
    OBVIOUS
  <2>1. { s \in Sessions : sessionStatus[s] = "closed" } = {}
        /\ \A a \in Assets : { s \in Sessions : result[s][a] # "none" } = {}
    BY DEF InventoryServerInit, InventoryInit
  <2>2. Logged("inventory_closed", NoAsset) = 0
        /\ \A a \in Assets : Logged("inventory_recorded", a) = 0
    BY DEF InventoryServerInit, InventoryInit, AuditInit, Logged, AuditActions, AssetCodes
  <2> QED
    BY <2>1, <2>2, FS_EmptySet
    DEF InventoryServerInit, InventoryInit, InventoryAccounted, TasksOnOpened
<1> QED
  BY <1>1, AccountedStep, InventoryTypeCorrect, PTL DEF InventoryServerSpec

-----------------------------------------------------------------------------
(* One worker.                                                              *)

\* The session of every request under way is still open.
LoadedStillOpen ==
  \A w \in Workers : task[w] # Idle => sessionStatus[task[w].session] = "open"

LEMMA OneWorkerStep ==
  ASSUME \A v, w \in Workers : v = w,
         InventoryServerTypeOK, LoadedStillOpen, [InventoryServerNext]_inventoryServerVars
  PROVE  LoadedStillOpen' /\ [InventoryNext]_inventoryVars
<1> USE DEF InventoryServerTypeOK, InventoryTypeOK
<1>1. ASSUME NEW s \in Sessions, ServeOpen(s)
      PROVE  LoadedStillOpen' /\ [InventoryNext]_inventoryVars
  BY <1>1, TaskData
  DEF ServeOpen, OpenInventorySession, LoadedStillOpen, InventoryNext
<1>2. ASSUME NEW w \in Workers, NEW t \in Tasks \ {Idle}, LoadSession(w, t)
      PROVE  LoadedStillOpen' /\ [InventoryNext]_inventoryVars
  BY <1>2 DEF LoadSession, inventoryVars, LoadedStillOpen
<1>3. ASSUME NEW w \in Workers, CommitRecord(w)
      PROVE  LoadedStillOpen' /\ [InventoryNext]_inventoryVars
  <2>1. RecordInventoryResult(task[w].session, task[w].asset, task[w].status)
    BY <1>3, TaskData DEF CommitRecord, LoadedStillOpen, RecordInventoryResult
  <2>2. LoadedStillOpen'
    BY <1>3 DEF CommitRecord, RecordWrites, Finish, LoadedStillOpen
  <2> QED BY <1>3, <2>1, <2>2, TaskData DEF CommitRecord, InventoryNext
<1>4. ASSUME NEW w \in Workers, CommitClose(w)
      PROVE  LoadedStillOpen' /\ [InventoryNext]_inventoryVars
  <2>1. CloseInventorySession(task[w].session, task[w].manager)
    BY <1>4, TaskData DEF CommitClose, LoadedStillOpen, CloseInventorySession
  <2>2. LoadedStillOpen'
    BY <1>4 DEF CommitClose, Finish, LoadedStillOpen
  <2> QED BY <1>4, <2>1, <2>2, TaskData DEF CommitClose, InventoryNext
<1>5. ASSUME NEW w \in Workers, Abort(w)
      PROVE  LoadedStillOpen' /\ [InventoryNext]_inventoryVars
  BY <1>5 DEF Abort, Finish, inventoryVars, LoadedStillOpen
<1>6. CASE UNCHANGED inventoryServerVars
  BY <1>6 DEF inventoryServerVars, inventoryVars, LoadedStillOpen
<1> QED
  BY <1>1, <1>2, <1>3, <1>4, <1>5, <1>6 DEF InventoryServerNext

\* With a single worker the served inventory implements the inventory that
\* serves one call at a time.
THEOREM OneWorkerCountsSerially ==
  ASSUME \A v, w \in Workers : v = w
  PROVE  InventoryServerSpec => InventoryServedSerially
<1>1. InventoryServerInit => LoadedStillOpen /\ InventoryInit
  BY DEF InventoryServerInit, LoadedStillOpen
<1> QED
  BY <1>1, OneWorkerStep, InventoryTypeCorrect, PTL
  DEF InventoryServerSpec, InventoryServedSerially, InventorySpec

\* With a single worker nothing is recorded in a closed session, and no session
\* is closed twice.
THEOREM OneWorkerClosesForGood ==
  ASSUME \A v, w \in Workers : v = w
  PROVE  InventoryServerSpec => ClosedSessionsFinal
<1>1. InventoryServerInit => LoadedStillOpen
  BY DEF InventoryServerInit, LoadedStillOpen
<1>2. ASSUME InventoryServerTypeOK, [InventoryNext]_inventoryVars,
             NEW s \in Sessions, sessionStatus[s] = "closed"
      PROVE  /\ sessionStatus'[s] = "closed" /\ closedBy'[s] = closedBy[s]
             /\ result'[s] = result[s]
  BY <1>2
  DEF InventoryServerTypeOK, InventoryTypeOK, InventoryNext, OpenInventorySession,
      RecordInventoryResult, RecordWrites, CloseInventorySession, CloseWrites, inventoryVars
<1>3. InventoryServerTypeOK /\ [InventoryNext]_inventoryVars =>
        [\A s \in Sessions : sessionStatus[s] = "closed" =>
           /\ sessionStatus'[s] = "closed" /\ closedBy'[s] = closedBy[s]
           /\ result'[s] = result[s]]_inventoryVars
  BY <1>2
<1> QED
  BY <1>1, <1>3, OneWorkerStep, InventoryTypeCorrect, PTL
  DEF InventoryServerSpec, ClosedSessionsFinal
=============================================================================
