------------------------ MODULE AccountSessions_proofs ------------------------
(* What the session keys guarantee, for any number of browsers, subjects,   *)
(* keys and workers, and any number of requests that fail half way.         *)
EXTENDS AccountSessions, TLAPS

-----------------------------------------------------------------------------
(* Where a request is in its program.                                       *)

LoggedIn(t) == (t.op = "handover" /\ t.next > 1) \/ (t.op = "switch" /\ t.next > 3)
HasEnded(t) == (t.op \in {"handover", "switch"} /\ t.next > 2) \/ (t.op = "logout" /\ t.next > 1)

\* The session is still the one that the request came with.
Untouched(t) == (t.op \in {"handover", "switch"} /\ t.next = 1) \/ (t.op = "logout" /\ t.next < 3)

\* It is gone, and no other has been started.
Flushed(t) == (t.op = "switch" /\ t.next \in {2, 3}) \/ (t.op = "logout" /\ t.next = 3)

LastCall(t) ==
  \/ t.op = "handover" /\ t.next = 4
  \/ t.op = "switch" /\ t.next = 5
  \/ t.op = "logout" /\ t.next = 3

-----------------------------------------------------------------------------
(* The inductive invariants.                                                *)

\* The types, and that a request signs in to an account that exists.
TypeInv ==
  /\ AccountSessionsTypeOK
  /\ \A w \in Workers : task[w] # Idle /\ task[w].op # "logout" => task[w].subject \in accounts

\* What is known of the session of request t: a session with a user has its
\* row, unless login has just drawn its key.
SessionOK(t) ==
  /\ LoggedIn(t) => t.user = t.subject
  /\ t.key # NoKey => t.user \in Subjects
  /\ t.key # NoKey /\ row[t.key] # NoRow => row[t.key].account = t.user
  /\ t.key # NoKey /\ row[t.key] = NoRow => LoggedIn(t) /\ ~LastCall(t)
  /\ t.previous # NoKey => row[t.previous] # NoRow /\ store[t.previous] # Anonymous
  /\ t.previous # NoKey => t.key = t.previous \/ store[t.previous] = Gone
  /\ Untouched(t) => t.key = t.previous
  /\ Flushed(t) => t.key = NoKey /\ t.user = Nobody

\* A key stands for one account in the store, in its row and in every request
\* that works on it; a key without a row is known to one request only.
KeysInv ==
  /\ \A b \in Browsers : cookie[b] # NoKey => row[cookie[b]] # NoRow /\ store[cookie[b]] # Anonymous
  /\ \A k \in Keys : store[k] \in Subjects => row[k] # NoRow /\ row[k].account = store[k]
  /\ \A w \in Workers : task[w] # Idle => SessionOK(task[w])
  /\ \A v, w \in Workers :
       v # w /\ task[v] # Idle /\ task[w] # Idle /\ task[w].key # NoKey /\ row[task[w].key] = NoRow
         => task[v].key # task[w].key

\* A request that has ended the row of its session and will open it again or
\* delete the session.
WillSettle(t, k) ==
  /\ t # Idle /\ t.key = k
  /\ (t.op = "handover" /\ t.next = 3) \/ (t.op = "logout" /\ t.next = 2)

TrackedInv ==
  crashes = 0 =>
    \A k \in Keys :
      store[k] # Gone /\ row[k] # NoRow => row[k].open \/ \E w \in Workers : WillSettle(task[w], k)

\* A browser holds the session of the row, or it has lapsed.
Held(k) == store[k] = row[k].account /\ (k \in lapsed \/ \E b \in Browsers : cookie[b] = k)

\* What holds of request t when it is the only one under way.
AloneOK(t) ==
  /\ t.key # NoKey => store[t.key] # Gone
  /\ cookie[t.browser] \in {NoKey, t.previous} \cup lapsed \/ store[cookie[t.browser]] = Gone
  /\ ~t.sent => cookie[t.browser] = NoKey
  /\ HasEnded(t) /\ t.previous # NoKey /\ row[t.previous].open => t.key = t.previous /\ LastCall(t)

\* Request t is about to hand out key k, or to end its row.
Pending(t, k) ==
  /\ t # Idle
  /\ (t.key = k /\ LastCall(t)) \/ (t.previous = k /\ ~HasEnded(t))

\* An open row of a session that no browser holds, and that has not lapsed, is the
\* business of the request under way.
OneAtATime ==
  /\ \A v, w \in Workers : task[v] # Idle /\ task[w] # Idle => v = w
  /\ \A w \in Workers : task[w] # Idle => AloneOK(task[w])
  /\ \A k \in Keys : row[k].open => Held(k) \/ \E w \in Workers : Pending(task[w], k)

HeldInv == crashes = 0 /\ ~overlapped => OneAtATime

-----------------------------------------------------------------------------
(* Requests and rows as records.                                            *)

LEMMA TaskFields ==
  ASSUME NEW t \in Tasks, t # Idle
  PROVE  /\ t \in [op: {t.op}, next: 1..Len(Program[t.op]), browser: Browsers, sent: BOOLEAN,
                   key: Keys \cup {NoKey}, previous: Keys \cup {NoKey},
                   user: Subjects \cup {Nobody}, subject: Subjects \cup {Nobody}]
         /\ t.op \in {"handover", "switch", "logout"}
         /\ t.op = "handover" => t.next \in 1..4
         /\ t.op = "switch" => t.next \in 1..5
         /\ t.op = "logout" => t.next \in 1..3
<1>1. PICK op \in DOMAIN Program :
        t \in [op: {op}, next: 1..Len(Program[op]), browser: Browsers, sent: BOOLEAN,
              key: Keys \cup {NoKey}, previous: Keys \cup {NoKey},
              user: Subjects \cup {Nobody}, subject: Subjects \cup {Nobody}]
  BY DEF Tasks
<1>2. t.op = op
  BY <1>1
<1>3. op \in {"handover", "switch", "logout"}
  BY DEF Program
<1>4. /\ op = "handover" => Len(Program[op]) = 4
      /\ op = "switch" => Len(Program[op]) = 5
      /\ op = "logout" => Len(Program[op]) = 3
  BY DEF Program
<1>5. t.next \in 1..Len(Program[op])
  BY <1>1
<1> QED BY <1>1, <1>2, <1>3, <1>4, <1>5

LEMMA TaskIs ==
  ASSUME NEW op \in DOMAIN Program,
         NEW t \in [op: {op}, next: 1..Len(Program[op]), browser: Browsers, sent: BOOLEAN,
                   key: Keys \cup {NoKey}, previous: Keys \cup {NoKey},
                   user: Subjects \cup {Nobody}, subject: Subjects \cup {Nobody}]
  PROVE  t \in Tasks /\ t # Idle
<1>1. t.op # "idle"
  BY DEF Program
<1> QED BY <1>1 DEF Tasks, Idle

\* The place in its program tells which call a request makes next.
LEMMA Places ==
  ASSUME NEW w \in Workers, task[w] \in Tasks, task[w] # Idle
  PROVE  /\ At(w, "login") <=> \/ task[w].op = "handover" /\ task[w].next = 1
                               \/ task[w].op = "switch" /\ task[w].next = 3
         /\ At(w, "end") <=> \/ task[w].op = "handover" /\ task[w].next = 2
                             \/ task[w].op = "switch" /\ task[w].next = 2
                             \/ task[w].op = "logout" /\ task[w].next = 1
         /\ At(w, "sync") <=> \/ task[w].op = "handover" /\ task[w].next = 3
                              \/ task[w].op = "switch" /\ task[w].next = 4
         /\ At(w, "flush") <=> \/ task[w].op = "switch" /\ task[w].next = 1
                               \/ task[w].op = "logout" /\ task[w].next = 2
         /\ At(w, "respond") <=> LastCall(task[w])
<1> DEFINE t == task[w]
<1>1. t.op = "handover" \/ t.op = "switch" \/ t.op = "logout"
  BY TaskFields
<1>2. CASE t.op = "handover"
  <2>1. t.next = 1 \/ t.next = 2 \/ t.next = 3 \/ t.next = 4
    BY <1>2, TaskFields
  <2>2. Program[t.op] = <<"login", "end", "sync", "respond">>
    BY <1>2 DEF Program
  <2> QED BY <1>2, <2>1, <2>2 DEF At, LastCall
<1>3. CASE t.op = "switch"
  <2>1. t.next = 1 \/ t.next = 2 \/ t.next = 3 \/ t.next = 4 \/ t.next = 5
    BY <1>3, TaskFields
  <2>2. Program[t.op] = <<"flush", "end", "login", "sync", "respond">>
    BY <1>3 DEF Program
  <2> QED BY <1>3, <2>1, <2>2 DEF At, LastCall
<1>4. CASE t.op = "logout"
  <2>1. t.next = 1 \/ t.next = 2 \/ t.next = 3
    BY <1>4, TaskFields
  <2>2. Program[t.op] = <<"end", "flush", "respond">>
    BY <1>4 DEF Program
  <2> QED BY <1>4, <2>1, <2>2 DEF At, LastCall
<1> QED BY <1>1, <1>2, <1>3, <1>4

\* u is request t after its next call, with the session (k, s).
Moved(t, u, k, s) ==
  /\ u \in Tasks /\ u # Idle
  /\ u.op = t.op /\ u.next = t.next + 1
  /\ u.browser = t.browser /\ u.sent = t.sent /\ u.subject = t.subject
  /\ u.previous = t.previous /\ u.key = k /\ u.user = s

LEMMA DoneMoves ==
  ASSUME NEW t \in Tasks, t # Idle, ~LastCall(t),
         NEW k \in Keys \cup {NoKey}, NEW s \in Subjects \cup {Nobody}
  PROVE  /\ Moved(t, Done(t), t.key, t.user)
         /\ Moved(t, [Done(t) EXCEPT !.key = k], k, t.user)
         /\ Moved(t, [Done(t) EXCEPT !.key = k, !.user = s], k, s)
<1> DEFINE R == [op: {t.op}, next: 1..Len(Program[t.op]), browser: Browsers, sent: BOOLEAN,
                 key: Keys \cup {NoKey}, previous: Keys \cup {NoKey},
                 user: Subjects \cup {Nobody}, subject: Subjects \cup {Nobody}]
<1>1. t \in R /\ t.op \in DOMAIN Program
  BY TaskFields DEF Program
<1>2. t.next + 1 \in 1..Len(Program[t.op])
  BY TaskFields DEF LastCall, Program
<1>3. /\ Done(t) \in R
      /\ [Done(t) EXCEPT !.key = k] \in R
      /\ [Done(t) EXCEPT !.key = k, !.user = s] \in R
  BY <1>1, <1>2 DEF Done
<1>4. Done(t) \in Tasks /\ Done(t) # Idle
  BY <1>1, <1>3, TaskIs
<1>5. [Done(t) EXCEPT !.key = k] \in Tasks /\ [Done(t) EXCEPT !.key = k] # Idle
  BY <1>1, <1>3, TaskIs
<1>6. [Done(t) EXCEPT !.key = k, !.user = s] \in Tasks
      /\ [Done(t) EXCEPT !.key = k, !.user = s] # Idle
  BY <1>1, <1>3, TaskIs
<1> QED BY <1>1, <1>4, <1>5, <1>6 DEF Moved, Done

\* The three ways of login, for a request that becomes u.
LoginWays(t, u) ==
  \/ /\ Moved(t, u, t.key, t.user) /\ t.user = t.subject
     /\ UNCHANGED store
  \/ /\ Moved(t, u, NoKey, t.subject) /\ t.user \notin {t.subject, Nobody}
     /\ store' = FlushedStore(t.key)
  \/ \E k \in Keys : /\ Moved(t, u, k, t.subject) /\ t.user = Nobody /\ Fresh(k)
                     /\ store' = [FlushedStore(t.key) EXCEPT ![k] = Anonymous]

LEMMA LoginMoves ==
  ASSUME NEW w \in Workers, task[w] \in Tasks, task[w] # Idle, ~LastCall(task[w]), Login(w)
  PROVE  \E u : task' = [task EXCEPT ![w] = u] /\ LoginWays(task[w], u)
<1> DEFINE t == task[w]
<1>1. t.key \in Keys \cup {NoKey} /\ t.subject \in Subjects \cup {Nobody}
  BY TaskFields
<1>2. CASE t.user = t.subject /\ task' = [task EXCEPT ![w] = Done(t)] /\ UNCHANGED store
  <2>1. Moved(t, Done(t), t.key, t.user)
    BY <1>1, DoneMoves
  <2> QED BY <1>2, <2>1 DEF LoginWays
<1>3. CASE /\ t.user \notin {t.subject, Nobody}
           /\ store' = FlushedStore(t.key)
           /\ task' = [task EXCEPT ![w] = [Done(t) EXCEPT !.key = NoKey, !.user = t.subject]]
  <2>1. Moved(t, [Done(t) EXCEPT !.key = NoKey, !.user = t.subject], NoKey, t.subject)
    BY <1>1, DoneMoves
  <2> QED BY <1>3, <2>1 DEF LoginWays
<1>4. ASSUME t.user = Nobody, NEW k \in Keys, Fresh(k),
             store' = [FlushedStore(t.key) EXCEPT ![k] = Anonymous],
             task' = [task EXCEPT ![w] = [Done(t) EXCEPT !.key = k, !.user = t.subject]]
      PROVE  \E u : task' = [task EXCEPT ![w] = u] /\ LoginWays(t, u)
  <2>1. Moved(t, [Done(t) EXCEPT !.key = k, !.user = t.subject], k, t.subject)
    BY <1>1, DoneMoves
  <2> QED BY <1>4, <2>1 DEF LoginWays
<1> QED BY <1>2, <1>3, <1>4 DEF Login

LEMMA ClosedRow ==
  ASSUME NEW A, NEW r \in [account: A, open: BOOLEAN], NEW q, q = [r EXCEPT !.open = FALSE]
  PROVE  q = [account |-> r.account, open |-> FALSE]
OBVIOUS

\* A key has a row exactly if the row names an account.
LEMMA RowFields ==
  ASSUME AccountSessionsTypeOK, NEW k \in Keys
  PROVE  /\ row[k] \in [account: accounts \cup {Nobody}, open: BOOLEAN]
         /\ row[k] = NoRow => row[k].account = Nobody /\ ~row[k].open
         /\ row[k] # NoRow => row[k].account \in accounts /\ row[k].account \in Subjects
<1>1. row[k] \in {NoRow} \cup [account: accounts, open: BOOLEAN]
  BY DEF AccountSessionsTypeOK
<1>2. accounts \subseteq Subjects /\ Nobody \notin Subjects
  BY SessionsAssumption DEF AccountSessionsTypeOK
<1>3. CASE row[k] = NoRow
  BY <1>2, <1>3 DEF NoRow
<1>4. CASE row[k] # NoRow
  BY <1>1, <1>2, <1>4
<1> QED BY <1>3, <1>4

-----------------------------------------------------------------------------
(* What each call does to its request and to the rows.                      *)

LEMMA FlushFacts ==
  ASSUME TypeInv, NEW w \in Workers, Flush(w)
  PROVE  LET t == task[w] IN
         /\ t \in Tasks /\ t # Idle /\ ~LastCall(t)
         /\ (t.op = "switch" /\ t.next = 1) \/ (t.op = "logout" /\ t.next = 2)
         /\ \E u : /\ Moved(t, u, NoKey, Nobody)
                  /\ task' = [task EXCEPT ![w] = u] /\ task'[w] = u
         /\ \A k \in Keys : store'[k] = IF k = t.key THEN Gone ELSE store[k]
         /\ UNCHANGED <<accounts, cookie, lapsed, row, crashes, overlapped>>
<1> DEFINE t == task[w]
<1>1. t \in Tasks /\ t # Idle
  BY DEF Flush, At, TypeInv, AccountSessionsTypeOK
<1>2. (t.op = "switch" /\ t.next = 1) \/ (t.op = "logout" /\ t.next = 2)
  BY <1>1, Places DEF Flush
<1>3. ~LastCall(t)
  BY <1>2 DEF LastCall
<1>4. Moved(t, [Done(t) EXCEPT !.key = NoKey, !.user = Nobody], NoKey, Nobody)
  BY <1>1, <1>3, DoneMoves
<1>5. \E u : /\ Moved(t, u, NoKey, Nobody)
            /\ task' = [task EXCEPT ![w] = u] /\ task'[w] = u
  BY <1>4 DEF Flush, TypeInv, AccountSessionsTypeOK
<1>6. \A k \in Keys : store'[k] = IF k = t.key THEN Gone ELSE store[k]
  BY DEF Flush, FlushedStore
<1> QED BY <1>1, <1>2, <1>3, <1>5, <1>6 DEF Flush

\* Ending a row leaves the account that it names.
LEMMA EndFacts ==
  ASSUME TypeInv, NEW w \in Workers, EndPrevious(w)
  PROVE  LET t == task[w] IN
         /\ t \in Tasks /\ t # Idle /\ ~LastCall(t)
         /\ (t.op \in {"handover", "switch"} /\ t.next = 2) \/ (t.op = "logout" /\ t.next = 1)
         /\ \E u : /\ Moved(t, u, t.key, t.user)
                  /\ task' = [task EXCEPT ![w] = u] /\ task'[w] = u
         /\ \A k \in Keys :
              /\ row'[k].account = row[k].account
              /\ row[k] = NoRow <=> row'[k] = NoRow
              /\ k # t.previous => row'[k] = row[k]
              /\ k = t.previous => ~row'[k].open
         /\ UNCHANGED <<accounts, cookie, lapsed, store, crashes, overlapped>>
<1> DEFINE t == task[w]
<1>1. t \in Tasks /\ t # Idle
  BY DEF EndPrevious, At, TypeInv, AccountSessionsTypeOK
<1>2. (t.op \in {"handover", "switch"} /\ t.next = 2) \/ (t.op = "logout" /\ t.next = 1)
  BY <1>1, Places DEF EndPrevious
<1>3. ~LastCall(t) /\ t.key \in Keys \cup {NoKey} /\ t.user \in Subjects \cup {Nobody}
  BY <1>1, <1>2, TaskFields DEF LastCall
<1>4. Moved(t, Done(t), t.key, t.user)
  BY <1>1, <1>3, DoneMoves
<1>5. \E u : /\ Moved(t, u, t.key, t.user)
            /\ task' = [task EXCEPT ![w] = u] /\ task'[w] = u
  BY <1>4 DEF EndPrevious, TypeInv, AccountSessionsTypeOK
<1>6. ASSUME NEW k \in Keys
      PROVE  /\ row'[k].account = row[k].account
             /\ row[k] = NoRow <=> row'[k] = NoRow
             /\ k # t.previous => row'[k] = row[k]
             /\ k = t.previous => ~row'[k].open
  <2>1. CASE k # t.previous
    BY <2>1 DEF EndPrevious
  <2>2. CASE k = t.previous
    <3>1. row'[k] = [row[k] EXCEPT !.open = FALSE]
      BY <2>2 DEF EndPrevious
    <3>2. row[k] \in [account: accounts \cup {Nobody}, open: BOOLEAN]
      BY RowFields DEF TypeInv
    <3>3. row'[k] = [account |-> row[k].account, open |-> FALSE]
      BY <3>1, <3>2, ClosedRow
    <3>4. row[k] # NoRow => row[k].account # Nobody
      BY RowFields, SessionsAssumption DEF TypeInv
    <3>5. row'[k] = NoRow => row[k] = NoRow
      BY <3>3, <3>4 DEF NoRow
    <3>6. row[k] = NoRow => row'[k] = NoRow
      BY <3>3 DEF NoRow
    <3> QED BY <2>2, <3>3, <3>5, <3>6
  <2> QED BY <2>1, <2>2
<1> QED BY <1>1, <1>2, <1>3, <1>5, <1>6 DEF EndPrevious

\* The row that sync_account_session writes is that of a key that is new, or of
\* the session that the request works on.
LEMMA SyncFacts ==
  ASSUME TypeInv, NEW w \in Workers, Sync(w)
  PROVE  LET t == task[w] IN
         /\ t \in Tasks /\ t # Idle /\ ~LastCall(t)
         /\ (t.op = "handover" /\ t.next = 3) \/ (t.op = "switch" /\ t.next = 4)
         /\ t.subject \in accounts /\ t.subject \in Subjects
         /\ \E k, u :
              /\ k \in Keys
              /\ Moved(t, u, k, t.user)
              /\ task' = [task EXCEPT ![w] = u] /\ task'[w] = u
              /\ t.key = NoKey => store'[k] = t.subject /\ Fresh(k)
              /\ t.key # NoKey => store'[k] = store[k] /\ k = t.key
              /\ row'[k] = [account |-> t.subject, open |-> TRUE]
              /\ \A j \in Keys \ {k} : row'[j] = row[j] /\ store'[j] = store[j]
         /\ UNCHANGED <<accounts, cookie, lapsed, crashes, overlapped>>
<1> DEFINE t == task[w]
<1>1. t \in Tasks /\ t # Idle
  BY DEF Sync, At, TypeInv, AccountSessionsTypeOK
<1>2. (t.op = "handover" /\ t.next = 3) \/ (t.op = "switch" /\ t.next = 4)
  BY <1>1, Places DEF Sync
<1>3. ~LastCall(t) /\ t.user \in Subjects \cup {Nobody} /\ t.subject \in accounts /\ t.subject \in Subjects
  BY <1>1, <1>2, TaskFields DEF LastCall, TypeInv, AccountSessionsTypeOK
<1>4. PICK k \in Keys :
        /\ IF t.key = NoKey THEN Fresh(k) /\ store' = [store EXCEPT ![k] = t.subject]
                            ELSE k = t.key /\ UNCHANGED store
        /\ row' = SyncRow(t, k)
        /\ task' = [task EXCEPT ![w] = [Done(t) EXCEPT !.key = k]]
  BY DEF Sync
<1>5. PICK u : u = [Done(t) EXCEPT !.key = k] /\ Moved(t, u, k, t.user)
  BY <1>1, <1>3, DoneMoves
<1>6. task' = [task EXCEPT ![w] = u] /\ task'[w] = u
  BY <1>4, <1>5 DEF TypeInv, AccountSessionsTypeOK
<1>7. /\ row'[k] = [account |-> t.subject, open |-> TRUE]
      /\ \A j \in Keys \ {k} : row'[j] = row[j]
  BY <1>4 DEF SyncRow, TypeInv, AccountSessionsTypeOK
<1>8. /\ \A j \in Keys \ {k} : store'[j] = store[j]
      /\ t.key = NoKey => store'[k] = t.subject /\ Fresh(k)
      /\ t.key # NoKey => store'[k] = store[k] /\ k = t.key
  BY <1>4 DEF TypeInv, AccountSessionsTypeOK
<1> QED BY <1>1, <1>2, <1>3, <1>5, <1>6, <1>7, <1>8 DEF Sync

-----------------------------------------------------------------------------
(* Keys keep their account.                                                 *)

\* No step gives the row of a key to another account, and none brings the session
\* of a key with a row back once it is gone.
KeysKept ==
  \A k \in Keys : row[k] # NoRow =>
    /\ row'[k] # NoRow /\ row'[k].account = row[k].account
    /\ store[k] # Anonymous => store'[k] # Anonymous
    /\ store[k] = Gone => store'[k] = Gone

\* Then what is known of the other requests stays true.
LEMMA OthersKept ==
  ASSUME TypeInv, KeysKept, NEW v \in Workers, task[v] # Idle, SessionOK(task[v]),
         task'[v] = task[v],
         task[v].key # NoKey /\ row[task[v].key] = NoRow => row'[task[v].key] = NoRow
  PROVE  SessionOK(task[v])'
<1>1. task[v].key \in Keys \cup {NoKey} /\ task[v].previous \in Keys \cup {NoKey}
  BY TaskFields DEF TypeInv, AccountSessionsTypeOK
<1> QED BY <1>1 DEF KeysKept, SessionOK, LoggedIn, Untouched, Flushed, LastCall

\* What worker w has to make sure of when its request becomes u.
StepKeepsKeys(w, u) ==
  /\ task' = [task EXCEPT ![w] = u]
  /\ KeysKept
  /\ \A b \in Browsers : cookie'[b] # cookie[b] /\ cookie'[b] # NoKey =>
       row'[cookie'[b]] # NoRow /\ store'[cookie'[b]] # Anonymous
  /\ \A k \in Keys : store'[k] \in Subjects => row'[k] # NoRow /\ row'[k].account = store'[k]
  /\ u # Idle => SessionOK(task[w])'
  /\ \A v \in Workers \ {w} :
       task[v] # Idle /\ task[v].key # NoKey =>
         /\ row[task[v].key] = NoRow => row'[task[v].key] = NoRow
         /\ u # Idle /\ u.key = task[v].key => row'[u.key] # NoRow

LEMMA KeysStep ==
  ASSUME TypeInv, KeysInv, NEW w \in Workers, NEW u, StepKeepsKeys(w, u)
  PROVE  KeysInv'
<1> USE DEF StepKeepsKeys
<1>1. task'[w] = u /\ \A v \in Workers \ {w} : task'[v] = task[v]
  BY DEF TypeInv, AccountSessionsTypeOK
<1>2. \A v \in Workers : task'[v] # Idle => SessionOK(task[v])'
  BY <1>1, OthersKept DEF KeysInv
<1>3. \A b \in Browsers : cookie[b] \in Keys \cup {NoKey}
  BY DEF TypeInv, AccountSessionsTypeOK
<1>4. \A b \in Browsers : cookie'[b] # NoKey => row'[cookie'[b]] # NoRow /\ store'[cookie'[b]] # Anonymous
  <2> SUFFICES ASSUME NEW b \in Browsers, cookie'[b] = cookie[b], cookie[b] # NoKey
               PROVE  row'[cookie[b]] # NoRow /\ store'[cookie[b]] # Anonymous
    OBVIOUS
  <2>1. cookie[b] \in Keys /\ row[cookie[b]] # NoRow /\ store[cookie[b]] # Anonymous
    BY <1>3 DEF KeysInv
  <2> QED BY <2>1 DEF KeysKept
<1>5. ASSUME NEW x \in Workers, NEW y \in Workers, x # y, task'[x] # Idle, task'[y] # Idle,
             task'[y].key # NoKey, row'[task'[y].key] = NoRow
      PROVE  task'[x].key # task'[y].key
  <2>0. \A v \in Workers : task[v] # Idle => task[v].key \in Keys \cup {NoKey}
    BY TaskFields DEF TypeInv, AccountSessionsTypeOK
  <2>1. CASE y = w
    BY <1>1, <1>5, <2>1
  <2>2. CASE x = w
    BY <1>1, <1>5, <2>2
  <2>3. CASE x # w /\ y # w
    <3>1. row[task[y].key] = NoRow
      BY <1>1, <1>5, <2>0, <2>3 DEF KeysKept
    <3> QED BY <1>1, <1>5, <2>3, <3>1 DEF KeysInv
  <2> QED BY <2>1, <2>2, <2>3
<1> QED BY <1>2, <1>4, <1>5 DEF KeysInv

\* A step that leaves store and rows alone keeps the keys.
LEMMA SameKeysKept ==
  ASSUME UNCHANGED <<store, row>>
  PROVE  KeysKept
BY DEF KeysKept

LEMMA ArriveKeys ==
  ASSUME TypeInv, KeysInv, NEW w \in Workers, NEW op \in DOMAIN Program, NEW b \in Browsers,
         NEW s \in Subjects \cup {Nobody}, Arrive(w, op, b, s)
  PROVE  KeysKept /\ KeysInv'
<1> DEFINE u == [op |-> op, next |-> 1, browser |-> b, sent |-> cookie[b] # NoKey,
                 key |-> LoadedKey(b), previous |-> LoadedKey(b),
                 user |-> LoadedUser(b), subject |-> s]
<1>1. KeysKept
  BY SameKeysKept DEF Arrive
<1>2. LoadedKey(b) # NoKey =>
        /\ LoadedKey(b) = cookie[b] /\ LoadedKey(b) \in Keys
        /\ store[LoadedKey(b)] # Anonymous /\ store[LoadedKey(b)] \in Subjects
        /\ LoadedUser(b) = store[LoadedKey(b)]
        /\ row[LoadedKey(b)] # NoRow /\ row[LoadedKey(b)].account = store[LoadedKey(b)]
  BY DEF LoadedKey, LoadedUser, KeysInv, TypeInv, AccountSessionsTypeOK
<1>3. op \in {"handover", "switch", "logout"}
  BY DEF Program
<1>4. task'[w] = u /\ task' = [task EXCEPT ![w] = u] /\ UNCHANGED <<store, row, cookie>>
  BY DEF Arrive, TypeInv, AccountSessionsTypeOK
<1>5. /\ task'[w].op = op /\ task'[w].next = 1 /\ task'[w].key = LoadedKey(b)
      /\ task'[w].previous = LoadedKey(b) /\ task'[w].user = LoadedUser(b)
  BY <1>4
<1>6. SessionOK(task[w])'
  BY <1>2, <1>3, <1>4, <1>5 DEF SessionOK, LoggedIn, Untouched, Flushed, LastCall
<1>7. u.key # NoKey => row'[u.key] # NoRow
  BY <1>2, <1>4
<1> HIDE DEF u
<1>8. \A k \in Keys : store'[k] \in Subjects => row'[k] # NoRow /\ row'[k].account = store'[k]
  BY <1>4 DEF KeysInv
<1>9. /\ \A c \in Browsers : cookie'[c] = cookie[c]
      /\ \A k : row'[k] = row[k]
  BY <1>4
<1>10. StepKeepsKeys(w, u)
  BY <1>1, <1>4, <1>6, <1>7, <1>8, <1>9 DEF StepKeepsKeys
<1> QED BY <1>1, <1>10, KeysStep

\* login: the session is kept, or given up for the next call, or a new one.
LEMMA LoginKeys ==
  ASSUME TypeInv, KeysInv, NEW w \in Workers, Login(w)
  PROVE  KeysKept /\ KeysInv'
<1> DEFINE t == task[w]
<1>a. t \in Tasks /\ t # Idle /\ SessionOK(t)
  BY DEF Login, At, KeysInv, TypeInv, AccountSessionsTypeOK
<1>b. (t.op = "handover" /\ t.next = 1) \/ (t.op = "switch" /\ t.next = 3)
  BY <1>a, Places DEF Login
<1>c. t.key \in Keys \cup {NoKey} /\ t.subject \in Subjects /\ t.user \in Subjects \cup {Nobody}
  BY <1>a, <1>b, TaskFields DEF TypeInv, AccountSessionsTypeOK
<1>d. ~LastCall(t) /\ ~LoggedIn(t)
  BY <1>a, <1>b DEF LastCall, LoggedIn
<1>e. t.key # NoKey => row[t.key] # NoRow
  BY <1>a, <1>d DEF SessionOK
<1>f. UNCHANGED <<accounts, cookie, row>>
  BY DEF Login
<1>g. \A k \in Keys : store[k] \in Subjects => row[k] # NoRow /\ row[k].account = store[k]
  BY DEF KeysInv
<1>1. CASE t.user = t.subject /\ task' = [task EXCEPT ![w] = Done(t)] /\ UNCHANGED store
  <2>1. PICK u : u = Done(t) /\ Moved(t, u, t.key, t.user)
    BY <1>a, <1>c, <1>d, DoneMoves
  <2>2. task' = [task EXCEPT ![w] = u] /\ task'[w] = u
    BY <1>1, <2>1 DEF TypeInv, AccountSessionsTypeOK
  <2>3. SessionOK(task[w])'
    BY <1>1, <1>a, <1>b, <1>e, <1>f, <2>1, <2>2
    DEF Moved, SessionOK, LoggedIn, Untouched, Flushed, LastCall
  <2>4. KeysKept
    BY <1>1, <1>f, SameKeysKept
  <2>5. StepKeepsKeys(w, u)
    BY <1>1, <1>e, <1>f, <1>g, <2>1, <2>2, <2>3, <2>4 DEF Moved, StepKeepsKeys
  <2> QED BY <2>4, <2>5, KeysStep
<1>2. CASE /\ t.user \notin {t.subject, Nobody}
           /\ store' = FlushedStore(t.key)
           /\ task' = [task EXCEPT ![w] = [Done(t) EXCEPT !.key = NoKey, !.user = t.subject]]
  <2>1. PICK u : u = [Done(t) EXCEPT !.key = NoKey, !.user = t.subject]
                   /\ Moved(t, u, NoKey, t.subject)
    BY <1>a, <1>c, <1>d, DoneMoves
  <2>2. task' = [task EXCEPT ![w] = u] /\ task'[w] = u
    BY <1>2, <2>1 DEF TypeInv, AccountSessionsTypeOK
  <2>3. \A k \in Keys : store'[k] = IF k = t.key THEN Gone ELSE store[k]
    BY <1>2 DEF FlushedStore
  <2>4. Gone # Anonymous /\ Gone \notin Subjects
    BY SessionsAssumption DEF Gone, Anonymous
  <2>5. KeysKept
    BY <1>f, <2>3, <2>4 DEF KeysKept
  <2>6. t.previous \in Keys \cup {NoKey}
    BY <1>a, TaskFields
  <2>7. SessionOK(task[w])'
    BY <1>2, <1>a, <1>b, <1>d, <1>f, <2>1, <2>2, <2>3, <2>4, <2>6
    DEF Moved, SessionOK, LoggedIn, Untouched, Flushed, LastCall
  <2>8. \A k \in Keys : store'[k] \in Subjects => row'[k] # NoRow /\ row'[k].account = store'[k]
    BY <1>f, <1>g, <2>3, <2>4
  <2>9. StepKeepsKeys(w, u)
    BY <1>f, <2>1, <2>2, <2>5, <2>7, <2>8 DEF Moved, StepKeepsKeys
  <2> QED BY <2>5, <2>9, KeysStep
<1>3. ASSUME t.user = Nobody, NEW k \in Keys, Fresh(k),
             store' = [FlushedStore(t.key) EXCEPT ![k] = Anonymous],
             task' = [task EXCEPT ![w] = [Done(t) EXCEPT !.key = k, !.user = t.subject]]
      PROVE  KeysKept /\ KeysInv'
  <2>1. PICK u : u = [Done(t) EXCEPT !.key = k, !.user = t.subject]
                   /\ Moved(t, u, k, t.subject)
    BY <1>a, <1>c, <1>d, DoneMoves
  <2>2. task' = [task EXCEPT ![w] = u] /\ task'[w] = u
    BY <1>3, <2>1 DEF TypeInv, AccountSessionsTypeOK
  <2>3. t.key = NoKey
    BY <1>3, <1>a, SessionsAssumption DEF SessionOK
  <2>4. \A j \in Keys : store'[j] = IF j = k THEN Anonymous ELSE store[j]
    BY <1>3, <2>3, SessionsAssumption DEF FlushedStore
  <2>5. Gone # Anonymous /\ Anonymous \notin Subjects /\ NoKey \notin Keys
    BY SessionsAssumption DEF Gone, Anonymous
  <2>6. row[k] = NoRow /\ \A v \in Workers : task[v] # Idle => task[v].key # k
    BY <1>3 DEF Fresh
  <2>7. KeysKept
    BY <1>f, <2>4, <2>6 DEF KeysKept
  <2>8. t.previous \in Keys \cup {NoKey}
    BY <1>a, TaskFields
  <2>9. SessionOK(task[w])'
    BY <1>a, <1>b, <1>c, <1>f, <2>1, <2>2, <2>4, <2>5, <2>6, <2>8, <2>3
    DEF Moved, SessionOK, LoggedIn, Untouched, Flushed, LastCall
  <2>10. \A j \in Keys : store'[j] \in Subjects => row'[j] # NoRow /\ row'[j].account = store'[j]
    BY <1>f, <1>g, <2>4, <2>5
  <2>11. StepKeepsKeys(w, u)
    BY <1>f, <2>1, <2>2, <2>5, <2>6, <2>7, <2>9, <2>10 DEF Moved, StepKeepsKeys
  <2> QED BY <2>7, <2>11, KeysStep
<1> QED BY <1>1, <1>2, <1>3 DEF Login

LEMMA FlushKeys ==
  ASSUME TypeInv, KeysInv, NEW w \in Workers, Flush(w)
  PROVE  KeysKept /\ KeysInv'
<1> DEFINE t == task[w]
<1>1. /\ t \in Tasks /\ t # Idle
      /\ (t.op = "switch" /\ t.next = 1) \/ (t.op = "logout" /\ t.next = 2)
      /\ \A k \in Keys : store'[k] = IF k = t.key THEN Gone ELSE store[k]
      /\ UNCHANGED <<accounts, cookie, row>>
  BY FlushFacts
<1>2. PICK u : Moved(t, u, NoKey, Nobody) /\ task' = [task EXCEPT ![w] = u] /\ task'[w] = u
  BY FlushFacts
<1>3. SessionOK(t) /\ t.previous \in Keys \cup {NoKey}
  BY <1>1, TaskFields DEF KeysInv
<1>4. Gone # Anonymous /\ Gone \notin Subjects
  BY SessionsAssumption DEF Gone, Anonymous
<1>5. KeysKept
  BY <1>1, <1>4 DEF KeysKept
<1>6. SessionOK(task[w])'
  BY <1>1, <1>2, <1>3, <1>4 DEF Moved, SessionOK, LoggedIn, Untouched, Flushed, LastCall
<1>7. StepKeepsKeys(w, u)
  BY <1>1, <1>2, <1>4, <1>5, <1>6 DEF Moved, KeysInv, StepKeepsKeys
<1> QED BY <1>5, <1>7, KeysStep

LEMMA EndPreviousKeys ==
  ASSUME TypeInv, KeysInv, NEW w \in Workers, EndPrevious(w)
  PROVE  KeysKept /\ KeysInv'
<1> DEFINE t == task[w]
<1>1. /\ t \in Tasks /\ t # Idle
      /\ (t.op \in {"handover", "switch"} /\ t.next = 2) \/ (t.op = "logout" /\ t.next = 1)
      /\ UNCHANGED <<accounts, cookie, store>>
  BY EndFacts
<1>2. \A k \in Keys :
        /\ row'[k].account = row[k].account
        /\ row[k] = NoRow <=> row'[k] = NoRow
  BY EndFacts
<1>3. PICK u : Moved(t, u, t.key, t.user) /\ task' = [task EXCEPT ![w] = u] /\ task'[w] = u
  BY EndFacts
<1>4. SessionOK(t) /\ t.previous \in Keys \cup {NoKey} /\ t.key \in Keys \cup {NoKey}
  BY <1>1, TaskFields DEF KeysInv
<1>5. KeysKept
  BY <1>1, <1>2 DEF KeysKept
<1>6. SessionOK(task[w])'
  BY <1>1, <1>2, <1>3, <1>4 DEF Moved, SessionOK, LoggedIn, Untouched, Flushed, LastCall
<1>7. \A v \in Workers : task[v] # Idle => task[v].key \in Keys \cup {NoKey}
  BY TaskFields DEF TypeInv, AccountSessionsTypeOK
<1>8. \A k \in Keys : store'[k] \in Subjects => row'[k] # NoRow /\ row'[k].account = store'[k]
  BY <1>1, <1>2 DEF KeysInv
<1>9. \A v \in Workers \ {w} :
        task[v] # Idle /\ task[v].key # NoKey =>
          /\ row[task[v].key] = NoRow => row'[task[v].key] = NoRow
          /\ u.key = task[v].key => row'[u.key] # NoRow
  BY <1>1, <1>2, <1>3, <1>7 DEF Moved, KeysInv
<1>10. StepKeepsKeys(w, u)
  BY <1>1, <1>3, <1>5, <1>6, <1>8, <1>9 DEF StepKeepsKeys
<1> QED BY <1>5, <1>10, KeysStep

\* The row that sync_account_session writes is that of the request's user.
LEMMA SyncKeys ==
  ASSUME TypeInv, KeysInv, NEW w \in Workers, Sync(w)
  PROVE  KeysKept /\ KeysInv'
<1> DEFINE t == task[w]
<1>1. /\ t \in Tasks /\ t # Idle /\ ~LastCall(t) /\ t.subject \in Subjects
      /\ (t.op = "handover" /\ t.next = 3) \/ (t.op = "switch" /\ t.next = 4)
      /\ UNCHANGED <<accounts, cookie>>
  BY SyncFacts
<1>2. PICK k, u :
        /\ k \in Keys
        /\ Moved(t, u, k, t.user)
        /\ task' = [task EXCEPT ![w] = u] /\ task'[w] = u
        /\ t.key = NoKey => store'[k] = t.subject /\ Fresh(k)
        /\ t.key # NoKey => store'[k] = store[k] /\ k = t.key
        /\ row'[k] = [account |-> t.subject, open |-> TRUE]
        /\ \A j \in Keys \ {k} : row'[j] = row[j] /\ store'[j] = store[j]
  BY SyncFacts
<1>3. SessionOK(t) /\ t.previous \in Keys \cup {NoKey} /\ t.key \in Keys \cup {NoKey}
  BY <1>1, TaskFields DEF KeysInv
<1>4. t.user = t.subject /\ (row[k] # NoRow => row[k].account = t.subject /\ t.key = k)
  BY <1>1, <1>2, <1>3 DEF Fresh, SessionOK, LoggedIn
<1>5. row'[k] # NoRow /\ row'[k].account = t.subject
  BY <1>1, <1>2, SessionsAssumption DEF NoRow
<1>6. t.subject # Anonymous /\ NoKey \notin Keys
  BY <1>1, SessionsAssumption
<1>7. KeysKept
  BY <1>2, <1>4, <1>5, <1>6 DEF KeysKept, Fresh
<1>8. row[k] = NoRow => \A v \in Workers \ {w} : task[v] # Idle => task[v].key # k
  BY <1>1, <1>2, <1>6 DEF Fresh, KeysInv
<1>9. \A j \in Keys : store'[j] \in Subjects => row'[j] # NoRow /\ row'[j].account = store'[j]
  BY <1>2, <1>4, <1>5 DEF KeysInv
<1>10. /\ t.previous # NoKey => row[t.previous] # NoRow /\ store[t.previous] # Anonymous
       /\ t.previous # NoKey => t.key = t.previous \/ store[t.previous] = Gone
  BY <1>3 DEF SessionOK
<1>11. SessionOK(task[w])'
  BY <1>1, <1>2, <1>3, <1>4, <1>5, <1>6, <1>10
  DEF Moved, SessionOK, LoggedIn, Untouched, Flushed, LastCall, Fresh
<1>12. \A v \in Workers : task[v] # Idle => task[v].key \in Keys \cup {NoKey}
  BY TaskFields DEF TypeInv, AccountSessionsTypeOK
<1>13. StepKeepsKeys(w, u)
  BY <1>1, <1>2, <1>5, <1>7, <1>8, <1>9, <1>11, <1>12 DEF Moved, StepKeepsKeys
<1> QED BY <1>7, <1>13, KeysStep

\* The response stores the user under the key that the row gives to that user.
LEMMA RespondKeys ==
  ASSUME TypeInv, KeysInv, NEW w \in Workers, Respond(w)
  PROVE  KeysKept /\ KeysInv'
<1> DEFINE t == task[w]
<1>1. t \in Tasks /\ t # Idle /\ SessionOK(t)
  BY DEF Respond, At, KeysInv, TypeInv, AccountSessionsTypeOK
<1>2. LastCall(t) /\ t.key \in Keys \cup {NoKey}
  BY <1>1, Places, TaskFields DEF Respond
<1>3. t.key # NoKey => t.user \in Subjects /\ row[t.key] # NoRow /\ row[t.key].account = t.user
  BY <1>1, <1>2 DEF SessionOK
<1>4. task' = [task EXCEPT ![w] = Idle] /\ UNCHANGED <<accounts, row>>
  BY DEF Respond
<1>5. /\ \A b \in Browsers : cookie'[b] = cookie[b] \/ cookie'[b] = NoKey
                              \/ (cookie'[b] = t.key /\ store'[t.key] = t.user)
      /\ \A k \in Keys : store'[k] = store[k] \/ (k = t.key /\ store[k] # Gone /\ store'[k] = t.user)
  <2>1. CASE /\ cookie' = IF t.sent THEN [cookie EXCEPT ![t.browser] = NoKey] ELSE cookie
             /\ UNCHANGED store
    <3>1. \A b \in Browsers : cookie'[b] = cookie[b] \/ cookie'[b] = NoKey
      BY <2>1 DEF TypeInv, AccountSessionsTypeOK
    <3> QED BY <2>1, <3>1
  <2>2. CASE UNCHANGED <<store, cookie>>
    BY <2>2
  <2>3. CASE /\ t.key # NoKey /\ store[t.key] # Gone
             /\ store' = [store EXCEPT ![t.key] = t.user]
             /\ cookie' = [cookie EXCEPT ![t.browser] = t.key]
    BY <1>2, <2>3 DEF TypeInv, AccountSessionsTypeOK
  <2> QED BY <2>1, <2>2, <2>3 DEF Respond
<1>6. Anonymous \notin Subjects /\ NoKey \notin Keys
  BY SessionsAssumption
<1>7. KeysKept
  BY <1>3, <1>4, <1>5, <1>6 DEF KeysKept
<1>8. StepKeepsKeys(w, Idle)
  BY <1>2, <1>3, <1>4, <1>5, <1>6, <1>7 DEF KeysInv, StepKeepsKeys
<1> QED BY <1>7, <1>8, KeysStep

LEMMA CrashKeys ==
  ASSUME TypeInv, KeysInv, NEW w \in Workers, Crash(w)
  PROVE  KeysKept /\ KeysInv'
<1>1. task' = [task EXCEPT ![w] = Idle] /\ UNCHANGED <<store, row, cookie>>
  BY DEF Crash
<1>2. KeysKept
  BY <1>1, SameKeysKept
<1>3. StepKeepsKeys(w, Idle)
  BY <1>1, <1>2 DEF KeysInv, StepKeepsKeys
<1> QED BY <1>2, <1>3, KeysStep

LEMMA KeysAlwaysStep ==
  ASSUME TypeInv, KeysInv, [AccountSessionsNext]_vars
  PROVE  KeysKept /\ KeysInv'
<1>1. ASSUME NEW w \in Workers, NEW b \in Browsers, NEW s \in Subjects,
             Handover(w, b, s) \/ DemoSwitch(w, b, s)
      PROVE  KeysKept /\ KeysInv'
  BY <1>1, ArriveKeys DEF Handover, DemoSwitch, Program
<1>2. ASSUME NEW w \in Workers, NEW b \in Browsers, Logout(w, b)
      PROVE  KeysKept /\ KeysInv'
  BY <1>2, ArriveKeys DEF Logout, Program
<1>3. CASE UNCHANGED <<store, cookie, row, task>>
  BY <1>3, SameKeysKept DEF KeysInv, SessionOK, LoggedIn, Untouched, Flushed, LastCall
<1>4. ASSUME NEW b \in Browsers, LoseCookie(b)
      PROVE  KeysKept /\ KeysInv'
  <2>1. UNCHANGED <<store, row, task>>
    BY <1>4 DEF LoseCookie
  <2>2. \A c \in Browsers : cookie'[c] # NoKey => cookie'[c] = cookie[c]
    BY <1>4 DEF LoseCookie, TypeInv, AccountSessionsTypeOK
  <2> QED
    BY <2>1, <2>2, SameKeysKept DEF KeysInv, SessionOK, LoggedIn, Untouched, Flushed, LastCall
<1> QED
  BY <1>1, <1>2, <1>3, <1>4, LoginKeys, FlushKeys, EndPreviousKeys, SyncKeys, RespondKeys, CrashKeys
  DEF AccountSessionsNext, Serve, Expire, vars

-----------------------------------------------------------------------------
(* Type correctness.  That a response stores a subject follows from what is *)
(* known of keys, so the types are only inductive together with KeysInv.    *)

\* The request of worker w becomes u; accounts only grow.
LEMMA TaskType ==
  ASSUME TypeInv, NEW w \in Workers, NEW u \in Tasks,
         task' = [task EXCEPT ![w] = u], accounts \subseteq accounts',
         u # Idle /\ u.op # "logout" => u.subject \in accounts'
  PROVE  /\ task' \in [Workers -> Tasks]
         /\ \A v \in Workers : task'[v] # Idle /\ task'[v].op # "logout" => task'[v].subject \in accounts'
BY DEF TypeInv, AccountSessionsTypeOK

LEMMA RowType ==
  ASSUME AccountSessionsTypeOK, accounts \subseteq accounts', UNCHANGED row
  PROVE  row' \in [Keys -> {NoRow} \cup [account: accounts', open: BOOLEAN]]
<1> SUFFICES ASSUME NEW k \in Keys
             PROVE  row[k] \in {NoRow} \cup [account: accounts', open: BOOLEAN]
  BY DEF AccountSessionsTypeOK
<1>1. row[k] \in {NoRow} \cup [account: accounts, open: BOOLEAN]
  BY DEF AccountSessionsTypeOK
<1> QED BY <1>1

LEMMA ArriveType ==
  ASSUME TypeInv, NEW w \in Workers, NEW op \in DOMAIN Program, NEW b \in Browsers,
         NEW s \in Subjects \cup {Nobody}, Arrive(w, op, b, s),
         accounts \subseteq accounts', accounts' \subseteq Subjects,
         op # "logout" => s \in accounts'
  PROVE  TypeInv'
<1> DEFINE u == [op |-> op, next |-> 1, browser |-> b, sent |-> cookie[b] # NoKey,
                 key |-> LoadedKey(b), previous |-> LoadedKey(b),
                 user |-> LoadedUser(b), subject |-> s]
<1>1. LoadedKey(b) \in Keys \cup {NoKey} /\ LoadedUser(b) \in Subjects \cup {Nobody}
  BY DEF LoadedKey, LoadedUser
<1>2. 1 \in 1..Len(Program[op])
  BY DEF Program
<1>3. u \in Tasks /\ u # Idle
  BY <1>1, <1>2, TaskIs
<1>4. task' = [task EXCEPT ![w] = u] /\ UNCHANGED <<store, cookie, lapsed, row, crashes>>
  BY DEF Arrive
<1>5. overlapped' \in BOOLEAN
  BY DEF Arrive
<1>6. u.op = op /\ u.subject = s
  OBVIOUS
<1> HIDE DEF u
<1>7. /\ task' \in [Workers -> Tasks]
      /\ \A v \in Workers : task'[v] # Idle /\ task'[v].op # "logout" => task'[v].subject \in accounts'
  BY <1>3, <1>4, <1>6, TaskType
<1>8. row' \in [Keys -> {NoRow} \cup [account: accounts', open: BOOLEAN]]
  BY <1>4, RowType DEF TypeInv
<1> QED BY <1>4, <1>5, <1>7, <1>8 DEF TypeInv, AccountSessionsTypeOK

\* The calls of a request: accounts stay, and the request becomes u.
LEMMA CallType ==
  ASSUME TypeInv, NEW w \in Workers, NEW u \in Tasks, task' = [task EXCEPT ![w] = u],
         u # Idle => task[w] # Idle /\ u.op = task[w].op /\ u.subject = task[w].subject,
         UNCHANGED <<accounts, overlapped>>, crashes' \in 0..MaxCrashes,
         store' \in [Keys -> Subjects \cup {Gone, Anonymous}],
         cookie' \in [Browsers -> Keys \cup {NoKey}], lapsed' \subseteq Keys,
         row' \in [Keys -> {NoRow} \cup [account: accounts, open: BOOLEAN]]
  PROVE  TypeInv'
<1>1. u # Idle /\ u.op # "logout" => u.subject \in accounts'
  BY DEF TypeInv
<1>2. /\ task' \in [Workers -> Tasks]
      /\ \A v \in Workers : task'[v] # Idle /\ task'[v].op # "logout" => task'[v].subject \in accounts'
  BY <1>1, TaskType
<1> QED BY <1>2 DEF TypeInv, AccountSessionsTypeOK

LEMMA TypeStep ==
  ASSUME TypeInv, KeysInv, [AccountSessionsNext]_vars
  PROVE  TypeInv'
<1>a. /\ \A v \in Workers : task[v] \in Tasks
      /\ store \in [Keys -> Subjects \cup {Gone, Anonymous}]
      /\ cookie \in [Browsers -> Keys \cup {NoKey}]
      /\ row \in [Keys -> {NoRow} \cup [account: accounts, open: BOOLEAN]]
      /\ crashes \in 0..MaxCrashes /\ accounts \subseteq Subjects /\ lapsed \subseteq Keys
  BY DEF TypeInv, AccountSessionsTypeOK
<1>b. \A k : FlushedStore(k) \in [Keys -> Subjects \cup {Gone, Anonymous}]
  BY <1>a DEF FlushedStore
<1>1. ASSUME NEW w \in Workers, NEW b \in Browsers, NEW s \in Subjects,
             Handover(w, b, s) \/ DemoSwitch(w, b, s)
      PROVE  TypeInv'
  BY <1>a, <1>1, ArriveType DEF Handover, DemoSwitch, Program
<1>2. ASSUME NEW w \in Workers, NEW b \in Browsers, Logout(w, b)
      PROVE  TypeInv'
  BY <1>a, <1>2, ArriveType DEF Logout, Program
<1>3. ASSUME NEW w \in Workers, Login(w)
      PROVE  TypeInv'
  <2> DEFINE t == task[w]
  <2>1. t \in Tasks /\ t # Idle /\ ~LastCall(t) /\ t.key \in Keys \cup {NoKey}
        /\ t.user \in Subjects \cup {Nobody} /\ t.subject \in Subjects \cup {Nobody}
    BY <1>a, <1>3, Places, TaskFields DEF Login, At, LastCall
  <2>2. UNCHANGED <<accounts, cookie, lapsed, row, crashes, overlapped>>
    BY <1>3 DEF Login
  <2>3. PICK u : task' = [task EXCEPT ![w] = u] /\ LoginWays(t, u)
    BY <1>3, <2>1, LoginMoves
  <2>4. u \in Tasks /\ u # Idle /\ u.op = t.op /\ u.subject = t.subject
    BY <2>3 DEF LoginWays, Moved
  <2>5. \A k \in Keys : [FlushedStore(t.key) EXCEPT ![k] = Anonymous]
                          \in [Keys -> Subjects \cup {Gone, Anonymous}]
    BY <1>b
  <2>6. store' \in [Keys -> Subjects \cup {Gone, Anonymous}]
    BY <1>a, <1>b, <2>3, <2>5 DEF LoginWays
  <2> QED BY <1>a, <2>1, <2>2, <2>3, <2>4, <2>6, CallType
<1>4. ASSUME NEW w \in Workers, Flush(w)
      PROVE  TypeInv'
  <2> DEFINE t == task[w]
  <2>1. t \in Tasks /\ t # Idle /\ ~LastCall(t)
    BY <1>a, <1>4, Places DEF Flush, At, LastCall
  <2>2. PICK u : task' = [task EXCEPT ![w] = u] /\ Moved(t, u, NoKey, Nobody)
    BY <1>4, <2>1, DoneMoves DEF Flush
  <2>3. UNCHANGED <<accounts, cookie, lapsed, row, crashes, overlapped>> /\ store' = FlushedStore(t.key)
    BY <1>4 DEF Flush
  <2> QED BY <1>a, <1>b, <2>1, <2>2, <2>3, CallType DEF Moved
<1>5. ASSUME NEW w \in Workers, EndPrevious(w)
      PROVE  TypeInv'
  <2> DEFINE t == task[w]
  <2>1. t \in Tasks /\ t # Idle /\ ~LastCall(t)
    BY <1>a, <1>5, Places DEF EndPrevious, At, LastCall
  <2>2. PICK u : task' = [task EXCEPT ![w] = u] /\ Moved(t, u, t.key, t.user)
    BY <1>5, <2>1, DoneMoves, TaskFields DEF EndPrevious
  <2>3. UNCHANGED <<accounts, cookie, lapsed, store, crashes, overlapped>>
    BY <1>5 DEF EndPrevious
  <2>4. ASSUME NEW k \in Keys
        PROVE  [row[k] EXCEPT !.open = FALSE] \in {NoRow} \cup [account: accounts, open: BOOLEAN]
    <3>1. CASE row[k] = NoRow
      <4>1. row[k] \in [account: accounts \cup {Nobody}, open: BOOLEAN] /\ row[k].account = Nobody
        BY <3>1, RowFields DEF TypeInv
      <4>2. [row[k] EXCEPT !.open = FALSE] = [account |-> row[k].account, open |-> FALSE]
        BY <4>1, ClosedRow
      <4> QED BY <4>1, <4>2 DEF NoRow
    <3>2. CASE row[k] \in [account: accounts, open: BOOLEAN]
      <4>1. [row[k] EXCEPT !.open = FALSE] \in [account: accounts, open: BOOLEAN]
        BY <3>2
      <4> QED BY <4>1
    <3> QED BY <1>a, <3>1, <3>2
  <2>5. row' \in [Keys -> {NoRow} \cup [account: accounts, open: BOOLEAN]]
    BY <1>a, <1>5, <2>4 DEF EndPrevious
  <2> QED BY <1>a, <2>1, <2>2, <2>3, <2>5, CallType DEF Moved
<1>6. ASSUME NEW w \in Workers, Sync(w)
      PROVE  TypeInv'
  <2> DEFINE t == task[w]
  <2>1. t \in Tasks /\ t # Idle /\ ~LastCall(t) /\ t.op # "logout"
    BY <1>a, <1>6, Places DEF Sync, At, LastCall
  <2>2. t.subject \in accounts /\ t.user \in Subjects \cup {Nobody}
    BY <2>1, TaskFields DEF TypeInv
  <2>3. PICK k \in Keys :
          /\ store' = store \/ store' = [store EXCEPT ![k] = t.subject]
          /\ row' = SyncRow(t, k)
          /\ task' = [task EXCEPT ![w] = [Done(t) EXCEPT !.key = k]]
    BY <1>6 DEF Sync
  <2>4. PICK u : task' = [task EXCEPT ![w] = u] /\ Moved(t, u, k, t.user)
    BY <2>1, <2>2, <2>3, DoneMoves
  <2>5. row' \in [Keys -> {NoRow} \cup [account: accounts, open: BOOLEAN]]
    BY <1>a, <2>2, <2>3 DEF SyncRow
  <2>6. store' \in [Keys -> Subjects \cup {Gone, Anonymous}]
    BY <1>a, <2>2, <2>3
  <2>7. UNCHANGED <<accounts, cookie, lapsed, crashes, overlapped>>
    BY <1>6 DEF Sync
  <2> QED BY <1>a, <2>1, <2>4, <2>5, <2>6, <2>7, CallType DEF Moved
<1>7. ASSUME NEW w \in Workers, Respond(w)
      PROVE  TypeInv'
  <2> DEFINE t == task[w]
  <2>1. t \in Tasks /\ t # Idle /\ t.key \in Keys \cup {NoKey} /\ (t.key # NoKey => t.user \in Subjects)
    BY <1>a, <1>7, TaskFields DEF Respond, At, KeysInv, SessionOK
  <2>2. task' = [task EXCEPT ![w] = Idle] /\ UNCHANGED <<accounts, row, crashes, overlapped>>
        /\ Idle \in Tasks
    BY <1>7 DEF Respond, Tasks
  <2>3. /\ store' \in [Keys -> Subjects \cup {Gone, Anonymous}]
        /\ cookie' \in [Browsers -> Keys \cup {NoKey}]
        /\ lapsed' \subseteq Keys
    BY <1>a, <1>7, <2>1 DEF Respond
  <2> QED BY <1>a, <2>2, <2>3, CallType
<1>8. ASSUME NEW w \in Workers, Crash(w)
      PROVE  TypeInv'
  <2>1. task' = [task EXCEPT ![w] = Idle] /\ UNCHANGED <<accounts, store, cookie, lapsed, row, overlapped>>
        /\ Idle \in Tasks
    BY <1>8 DEF Crash, Tasks
  <2>2. crashes' \in 0..MaxCrashes
    BY <1>a, <1>8, SessionsAssumption DEF Crash
  <2> QED BY <1>a, <2>1, <2>2, CallType
<1>9. CASE UNCHANGED vars
  BY <1>9 DEF vars, TypeInv, AccountSessionsTypeOK
<1>10. ASSUME NEW k \in Keys, Expire(k)
       PROVE  TypeInv'
  BY <1>10 DEF Expire, TypeInv, AccountSessionsTypeOK
<1>11. ASSUME NEW b \in Browsers, LoseCookie(b)
       PROVE  TypeInv'
  <2>1. cookie' \in [Browsers -> Keys \cup {NoKey}] /\ lapsed' \subseteq Keys
    BY <1>a, <1>11 DEF LoseCookie
  <2> QED BY <1>11, <2>1 DEF LoseCookie, TypeInv, AccountSessionsTypeOK
<1> QED
  BY <1>1, <1>2, <1>3, <1>4, <1>5, <1>6, <1>7, <1>8, <1>9, <1>10, <1>11
  DEF AccountSessionsNext, Serve

LEMMA KeysInitially ==
  ASSUME AccountSessionsInit
  PROVE  TypeInv /\ KeysInv
<1>1. Idle \in Tasks
  BY DEF Tasks
<1>2. /\ accounts \subseteq Subjects
      /\ store \in [Keys -> Subjects \cup {Gone, Anonymous}]
      /\ cookie \in [Browsers -> Keys \cup {NoKey}] /\ lapsed \subseteq Keys
      /\ task \in [Workers -> Tasks] /\ \A w \in Workers : task[w] = Idle
      /\ overlapped \in BOOLEAN
  BY <1>1 DEF AccountSessionsInit
<1>3. crashes \in 0..MaxCrashes
  BY SessionsAssumption DEF AccountSessionsInit
<1>4. row \in [Keys -> {NoRow} \cup [account: accounts, open: BOOLEAN]]
  BY DEF AccountSessionsInit
<1>5. TypeInv
  BY <1>2, <1>3, <1>4 DEF TypeInv, AccountSessionsTypeOK
<1>6. KeysInv
  BY SessionsAssumption DEF AccountSessionsInit, KeysInv
<1> QED BY <1>5, <1>6

LEMMA KeysAlways == AccountSessionsSpec => [](TypeInv /\ KeysInv)
BY KeysInitially, TypeStep, KeysAlwaysStep, PTL DEF AccountSessionsSpec

\* Tables, cookies and requests stay well typed; in particular the row of a
\* session refers to an account that exists.
THEOREM SessionsTypeCorrect == AccountSessionsSpec => []AccountSessionsTypeOK
BY KeysAlways, PTL DEF TypeInv

\* A session key belongs to one account for good, in its row and in the store,
\* however many requests overlap and fail.
THEOREM KeysKeepAccounts == AccountSessionsSpec => KeyKeepsAccount
<1> DEFINE Kept == \A k \in Keys :
             /\ row[k] # NoRow => row'[k].account = row[k].account
             /\ row[k] # NoRow /\ store'[k] \in Subjects => store'[k] = row[k].account
<1>1. ASSUME TypeInv, KeysInv, [AccountSessionsNext]_vars
      PROVE  Kept
  <2>1. KeysKept /\ KeysInv'
    BY <1>1, KeysAlwaysStep
  <2> QED BY <2>1 DEF KeysKept, KeysInv
<1> QED BY <1>1, KeysAlways, PTL DEF AccountSessionsSpec, KeyKeepsAccount

-----------------------------------------------------------------------------
(* Nobody is signed in unnoticed.                                           *)

LEMMA TrackedStep ==
  ASSUME TypeInv, TrackedInv, NEW w \in Workers, NEW u, task' = [task EXCEPT ![w] = u],
         crashes' = crashes,
         \A k \in Keys : store'[k] # Gone /\ row'[k] # NoRow =>
           \/ row'[k].open \/ WillSettle(u, k)
           \/ ~row[k].open /\ store[k] # Gone /\ row[k] # NoRow /\ ~WillSettle(task[w], k)
  PROVE  TrackedInv'
<1>1. task'[w] = u /\ \A v \in Workers \ {w} : task'[v] = task[v]
  BY DEF TypeInv, AccountSessionsTypeOK
<1>2. ASSUME crashes = 0, NEW k \in Keys, store'[k] # Gone, row'[k] # NoRow, ~row'[k].open
      PROVE  \E v \in Workers : WillSettle(task'[v], k)
  <2>1. CASE WillSettle(u, k)
    BY <1>1, <2>1
  <2>2. CASE ~row[k].open /\ store[k] # Gone /\ row[k] # NoRow /\ ~WillSettle(task[w], k)
    <3>1. PICK v \in Workers : WillSettle(task[v], k)
      BY <1>2, <2>2 DEF TrackedInv
    <3> QED BY <1>1, <2>2, <3>1
  <2> QED BY <1>2, <2>1, <2>2
<1> QED BY <1>2 DEF TrackedInv, WillSettle

\* A call that ends no row and brings no session back, of a request that has no
\* ended row to settle or deletes its session.
LEMMA TrackedCall ==
  ASSUME TypeInv, TrackedInv, NEW w \in Workers, NEW u, task' = [task EXCEPT ![w] = u],
         crashes' = crashes,
         \A k \in Keys : store'[k] # Gone /\ row'[k] # NoRow /\ ~row'[k].open =>
           row'[k] = row[k] /\ store[k] # Gone /\ ~WillSettle(task[w], k)
  PROVE  TrackedInv'
BY TrackedStep

LEMMA TrackedAlwaysStep ==
  ASSUME TypeInv, KeysInv, TrackedInv, [AccountSessionsNext]_vars
  PROVE  TrackedInv'
<1>a. NoKey \notin Keys /\ \A k \in Keys : row[k] = NoRow => ~row[k].open
  BY RowFields, SessionsAssumption DEF TypeInv
<1>1. ASSUME NEW w \in Workers, NEW op \in DOMAIN Program, NEW b \in Browsers,
             NEW s \in Subjects \cup {Nobody}, Arrive(w, op, b, s)
      PROVE  TrackedInv'
  BY <1>1, TrackedCall DEF Arrive, WillSettle
<1>2. ASSUME NEW w \in Workers, Login(w)
      PROVE  TrackedInv'
  <2> DEFINE t == task[w]
  <2>1. t \in Tasks /\ t # Idle
        /\ ((t.op = "handover" /\ t.next = 1) \/ (t.op = "switch" /\ t.next = 3))
    BY <1>2, Places DEF Login, At, TypeInv, AccountSessionsTypeOK
  <2>2. PICK u : task' = [task EXCEPT ![w] = u] /\ LoginWays(t, u)
    BY <1>2, <2>1, LoginMoves DEF LastCall
  <2>3. ASSUME NEW k \in Keys, store'[k] # Gone, row'[k] # NoRow
        PROVE  store[k] # Gone
    <3>1. CASE UNCHANGED store
      BY <2>3, <3>1
    <3>2. CASE store' = FlushedStore(t.key)
      BY <2>3, <3>2 DEF FlushedStore
    <3>3. ASSUME NEW j \in Keys, Fresh(j), store' = [FlushedStore(t.key) EXCEPT ![j] = Anonymous]
          PROVE  store[k] # Gone
      <4>1. k # j
        BY <1>2, <2>3, <3>3 DEF Login, Fresh
      <4>2. store'[k] = FlushedStore(t.key)[k]
        BY <3>3, <4>1 DEF FlushedStore
      <4> QED BY <2>3, <4>2 DEF FlushedStore
    <3> QED BY <2>2, <3>1, <3>2, <3>3 DEF LoginWays
  <2>4. \A k : ~WillSettle(t, k)
    BY <2>1 DEF WillSettle
  <2>5. row' = row /\ crashes' = crashes
    BY <1>2 DEF Login
  <2> QED BY <2>2, <2>3, <2>4, <2>5, TrackedCall
<1>3. ASSUME NEW w \in Workers, Flush(w)
      PROVE  TrackedInv'
  <2>1. PICK u : task' = [task EXCEPT ![w] = u]
    BY <1>3, FlushFacts
  <2>2. /\ \A k \in Keys : store'[k] = IF k = task[w].key THEN Gone ELSE store[k]
        /\ row' = row /\ crashes' = crashes
    BY <1>3, FlushFacts
  <2>3. \A k \in Keys : store'[k] # Gone => store[k] # Gone /\ ~WillSettle(task[w], k)
    BY <2>2 DEF WillSettle
  <2> QED BY <2>1, <2>2, <2>3, TrackedCall
<1>4. ASSUME NEW w \in Workers, EndPrevious(w)
      PROVE  TrackedInv'
  <2> DEFINE t == task[w]
  <2>1. /\ t \in Tasks /\ t # Idle
        /\ (t.op \in {"handover", "switch"} /\ t.next = 2) \/ (t.op = "logout" /\ t.next = 1)
        /\ UNCHANGED <<store, crashes>>
    BY <1>4, EndFacts
  <2>2. PICK u : Moved(t, u, t.key, t.user) /\ task' = [task EXCEPT ![w] = u]
    BY <1>4, EndFacts
  <2>3. \A k \in Keys : (row[k] = NoRow <=> row'[k] = NoRow) /\ (k # t.previous => row'[k] = row[k])
    BY <1>4, EndFacts
  <2>4. \A k : ~WillSettle(t, k)
    BY <2>1 DEF WillSettle
  <2>5. ASSUME NEW k \in Keys, store[k] # Gone, k = t.previous
        PROVE  WillSettle(u, k)
    <3>1. t.key = k /\ ~Flushed(t)
      BY <1>a, <2>1, <2>5 DEF KeysInv, SessionOK
    <3> QED BY <2>1, <2>2, <3>1 DEF Moved, WillSettle, Flushed
  <2> QED BY <2>1, <2>2, <2>3, <2>4, <2>5, TrackedStep
<1>5. ASSUME NEW w \in Workers, Sync(w)
      PROVE  TrackedInv'
  <2> DEFINE t == task[w]
  <2>1. PICK k, u :
          /\ k \in Keys
          /\ task' = [task EXCEPT ![w] = u]
          /\ t.key # NoKey => k = t.key
          /\ row'[k] = [account |-> t.subject, open |-> TRUE]
          /\ \A j \in Keys \ {k} : row'[j] = row[j] /\ store'[j] = store[j]
    BY <1>5, SyncFacts
  <2>2. \A j \in Keys \ {k} : ~WillSettle(t, j)
    BY <1>a, <2>1 DEF WillSettle
  <2>3. row'[k].open
    BY <2>1
  <2>4. crashes' = crashes
    BY <1>5, SyncFacts
  <2> QED BY <2>1, <2>2, <2>3, <2>4, TrackedCall
<1>6. ASSUME NEW w \in Workers, Respond(w)
      PROVE  TrackedInv'
  <2>1. LastCall(task[w]) /\ task[w].key \in Keys \cup {NoKey}
    BY <1>6, Places, TaskFields DEF Respond, At, TypeInv, AccountSessionsTypeOK
  <2>2. task' = [task EXCEPT ![w] = Idle] /\ row' = row /\ crashes' = crashes
    BY <1>6 DEF Respond
  <2>3. \A k \in Keys : store'[k] # Gone => store[k] # Gone
    BY <1>6, <2>1 DEF Respond, TypeInv, AccountSessionsTypeOK
  <2>4. \A k : ~WillSettle(task[w], k)
    BY <2>1 DEF LastCall, WillSettle
  <2> QED BY <2>2, <2>3, <2>4, TrackedCall
<1>7. ASSUME NEW w \in Workers, Crash(w)
      PROVE  TrackedInv'
  BY <1>7 DEF Crash, TrackedInv, TypeInv, AccountSessionsTypeOK
<1>8. CASE UNCHANGED <<store, row, task, crashes>>
  BY <1>8 DEF TrackedInv, WillSettle
<1>9. ASSUME NEW w \in Workers, NEW b \in Browsers, NEW s \in Subjects,
             Handover(w, b, s) \/ DemoSwitch(w, b, s)
      PROVE  TrackedInv'
  BY <1>1, <1>9 DEF Handover, DemoSwitch, Program
<1>10. ASSUME NEW w \in Workers, NEW b \in Browsers, Logout(w, b)
       PROVE  TrackedInv'
  BY <1>1, <1>10 DEF Logout, Program
<1> QED
  BY <1>2, <1>3, <1>4, <1>5, <1>6, <1>7, <1>8, <1>9, <1>10
  DEF AccountSessionsNext, Serve, Expire, LoseCookie, vars

\* As long as no request fails half way, a session with a user that no request
\* works on has an open row of that user's account.
THEOREM SignInsAlwaysTracked == AccountSessionsSpec => []SignInsTracked
<1>1. AccountSessionsInit => TrackedInv
  BY DEF AccountSessionsInit, TrackedInv
<1>2. ASSUME TypeInv, KeysInv, TrackedInv
      PROVE  SignInsTracked
  <2> SUFFICES ASSUME crashes = 0, NEW k \in Keys, store[k] \in Subjects, ~Busy(k)
               PROVE  row[k] = [account |-> store[k], open |-> TRUE]
    BY DEF SignInsTracked
  <2>1. store[k] # Gone /\ row[k] # NoRow /\ row[k].account = store[k]
    BY <1>2, SessionsAssumption DEF KeysInv
  <2>2. \A w \in Workers : ~WillSettle(task[w], k)
    BY DEF Busy, WillSettle
  <2>3. row[k].open
    BY <1>2, <2>1, <2>2 DEF TrackedInv
  <2>4. row[k] \in [account: accounts \cup {Nobody}, open: BOOLEAN]
    BY <1>2, RowFields DEF TypeInv
  <2> QED BY <2>1, <2>3, <2>4
<1>3. AccountSessionsSpec => []TrackedInv
  BY <1>1, KeysAlways, TrackedAlwaysStep, PTL DEF AccountSessionsSpec
<1> QED BY <1>2, <1>3, KeysAlways, PTL

-----------------------------------------------------------------------------
(* Every open row is of a session that a browser holds or that has lapsed,   *)
(* when requests do not overlap.                                            *)

\* What worker w has to make sure of when its request becomes u.
StepKeepsHeld(w, u) ==
  /\ task' = [task EXCEPT ![w] = u]
  /\ \A v \in Workers \ {w} : task[v] = Idle
  /\ u # Idle => AloneOK(task[w])'
  /\ \A k \in Keys : row'[k].open => Held(k)' \/ Pending(u, k)

LEMMA HeldStep ==
  ASSUME TypeInv, NEW w \in Workers, NEW u, StepKeepsHeld(w, u)
  PROVE  HeldInv'
<1>1. task'[w] = u /\ \A v \in Workers \ {w} : task'[v] = Idle
  BY DEF StepKeepsHeld, TypeInv, AccountSessionsTypeOK
<1>2. \A v \in Workers : task'[v] # Idle => AloneOK(task[v])'
  BY <1>1 DEF StepKeepsHeld
<1>3. \A k \in Keys : row'[k].open => Held(k)' \/ Pending(task'[w], k)
  BY <1>1 DEF StepKeepsHeld
<1>4. \A v, x \in Workers : task'[v] # Idle /\ task'[x] # Idle => v = x
  BY <1>1
<1>5. ASSUME NEW k \in Keys, row'[k].open
      PROVE  Held(k)' \/ \E v \in Workers : Pending(task[v], k)'
  BY <1>3, <1>5 DEF Pending, HasEnded, LastCall
<1> QED BY <1>2, <1>4, <1>5 DEF HeldInv, OneAtATime

\* A call of the only request under way: it is alone, and the rows that are open
\* are held or its own.
LEMMA Alone ==
  ASSUME OneAtATime, NEW w \in Workers, task[w] # Idle
  PROVE  /\ \A v \in Workers \ {w} : task[v] = Idle
         /\ AloneOK(task[w])
         /\ \A k \in Keys : row[k].open => Held(k) \/ Pending(task[w], k)
BY DEF OneAtATime, Pending

LEMMA ArriveHeld ==
  ASSUME TypeInv, OneAtATime, NEW w \in Workers, NEW op \in DOMAIN Program, NEW b \in Browsers,
         NEW s \in Subjects \cup {Nobody}, Arrive(w, op, b, s), ~overlapped'
  PROVE  HeldInv'
<1> DEFINE u == [op |-> op, next |-> 1, browser |-> b, sent |-> cookie[b] # NoKey,
                 key |-> LoadedKey(b), previous |-> LoadedKey(b),
                 user |-> LoadedUser(b), subject |-> s]
<1>1. task' = [task EXCEPT ![w] = u] /\ task'[w] = u /\ UNCHANGED <<store, cookie, lapsed, row>>
  BY DEF Arrive, TypeInv, AccountSessionsTypeOK
<1>2. \A v \in Workers : task[v] = Idle
  BY DEF Arrive
<1>3. /\ task'[w].key = LoadedKey(b) /\ task'[w].previous = LoadedKey(b)
      /\ task'[w].browser = b /\ task'[w].sent = (cookie[b] # NoKey)
      /\ task'[w].next = 1
  BY <1>1
<1>4. cookie[b] \in {NoKey, LoadedKey(b)} \cup lapsed \/ store[cookie[b]] = Gone
  BY DEF LoadedKey, TypeInv, AccountSessionsTypeOK
<1>5. LoadedKey(b) # NoKey => store[LoadedKey(b)] # Gone
  BY DEF LoadedKey
<1> HIDE DEF u
<1>6. ~HasEnded(task[w])'
  BY <1>3 DEF HasEnded
<1>7. ~task'[w].sent => cookie[b] = NoKey
  BY <1>3
<1>8. AloneOK(task[w])'
  BY <1>1, <1>3, <1>4, <1>5, <1>6, <1>7 DEF AloneOK
<1>9. \A k \in Keys : row'[k].open => Held(k)'
  BY <1>1, <1>2 DEF OneAtATime, Pending, Held
<1>10. StepKeepsHeld(w, u)
  BY <1>1, <1>2, <1>8, <1>9 DEF StepKeepsHeld
<1> QED BY <1>10, HeldStep

LEMMA LoginHeld ==
  ASSUME TypeInv, KeysInv, OneAtATime, NEW w \in Workers, Login(w)
  PROVE  HeldInv'
<1> DEFINE t == task[w]
<1>1. /\ t \in Tasks /\ t # Idle /\ SessionOK(t)
      /\ (t.op = "handover" /\ t.next = 1) \/ (t.op = "switch" /\ t.next = 3)
      /\ UNCHANGED <<cookie, lapsed, row>>
  BY Places DEF Login, At, KeysInv, TypeInv, AccountSessionsTypeOK
<1>2. PICK u : task' = [task EXCEPT ![w] = u] /\ LoginWays(t, u)
  BY <1>1, LoginMoves DEF LastCall
<1>3. /\ \A v \in Workers \ {w} : task[v] = Idle
      /\ AloneOK(t)
      /\ \A k \in Keys : row[k].open => Held(k) \/ Pending(t, k)
  BY <1>1, Alone
<1>4. /\ t.previous \in Keys \cup {NoKey} /\ t.key \in Keys \cup {NoKey} /\ t.browser \in Browsers
      /\ cookie[t.browser] \in Keys \cup {NoKey}
  BY <1>1, TaskFields DEF TypeInv, AccountSessionsTypeOK
<1>5. task'[w] = u /\ u # Idle /\ u.op = t.op /\ u.next = t.next + 1 /\ u.browser = t.browser
      /\ u.sent = t.sent /\ u.previous = t.previous
  BY <1>2 DEF LoginWays, Moved, TypeInv, AccountSessionsTypeOK
<1>6. NoKey \notin Keys /\ Gone # Anonymous
  BY SessionsAssumption DEF Gone, Anonymous
\* The row of the previous session is ended by now, or will be.
<1>7. HasEnded(u) /\ t.previous # NoKey => ~row[t.previous].open
  BY <1>1, <1>3, <1>5 DEF AloneOK, HasEnded, LastCall
<1>8. \A k \in Keys : Pending(t, k) => t.previous = k /\ Pending(u, k)
  BY <1>1, <1>5 DEF Pending, HasEnded, LastCall
<1>9. CASE Moved(t, u, t.key, t.user) /\ UNCHANGED store
  <2>1. AloneOK(task[w])'
    BY <1>1, <1>3, <1>5, <1>7, <1>9 DEF AloneOK, Moved, HasEnded, LastCall
  <2>2. \A k \in Keys : row'[k].open => Held(k)' \/ Pending(u, k)
    BY <1>1, <1>3, <1>8, <1>9 DEF Held
  <2> QED BY <1>2, <1>3, <2>1, <2>2, HeldStep DEF StepKeepsHeld
<1>10. CASE /\ Moved(t, u, NoKey, t.subject) /\ t.user \notin {t.subject, Nobody}
            /\ store' = FlushedStore(t.key)
  <2>1. \A k \in Keys : store'[k] = IF k = t.key THEN Gone ELSE store[k]
    BY <1>10 DEF FlushedStore
  <2>2. AloneOK(task[w])'
    BY <1>1, <1>3, <1>4, <1>5, <1>7, <1>10, <2>1 DEF AloneOK, Moved, HasEnded, LastCall
  <2>3. t.key = t.previous /\ ~HasEnded(u)
    BY <1>1, <1>5, <1>10 DEF SessionOK, Untouched, Flushed, HasEnded
  <2>4. \A k \in Keys : row'[k].open => Held(k)' \/ Pending(u, k)
    BY <1>1, <1>3, <1>5, <1>8, <2>1, <2>3 DEF Held, Pending
  <2> QED BY <1>2, <1>3, <2>2, <2>4, HeldStep DEF StepKeepsHeld
<1>11. ASSUME NEW j \in Keys, Moved(t, u, j, t.subject), t.user = Nobody, Fresh(j),
              store' = [FlushedStore(t.key) EXCEPT ![j] = Anonymous]
       PROVE  HeldInv'
  <2>1. t.key = NoKey
    BY <1>1, <1>11, SessionsAssumption DEF SessionOK
  <2>2. \A k \in Keys : store'[k] = IF k = j THEN Anonymous ELSE store[k]
    BY <1>6, <1>11, <2>1 DEF FlushedStore
  <2>3. cookie[t.browser] # j /\ t.previous # j /\ ~row[j].open
    BY <1>1, <1>4, <1>11, RowFields DEF Fresh, TypeInv
  <2>4. AloneOK(task[w])'
    BY <1>1, <1>3, <1>4, <1>5, <1>6, <1>7, <1>11, <2>2, <2>3 DEF AloneOK, Moved, HasEnded, LastCall
  <2>5. \A k \in Keys : row'[k].open => Held(k)' \/ Pending(u, k)
    BY <1>1, <1>3, <1>8, <2>2, <2>3 DEF Held
  <2> QED BY <1>2, <1>3, <2>4, <2>5, HeldStep DEF StepKeepsHeld
<1> QED BY <1>2, <1>9, <1>10, <1>11 DEF LoginWays

LEMMA FlushHeld ==
  ASSUME TypeInv, KeysInv, OneAtATime, NEW w \in Workers, Flush(w)
  PROVE  HeldInv'
<1> DEFINE t == task[w]
<1>1. /\ t \in Tasks /\ t # Idle /\ SessionOK(t)
      /\ (t.op = "switch" /\ t.next = 1) \/ (t.op = "logout" /\ t.next = 2)
      /\ \A k \in Keys : store'[k] = IF k = t.key THEN Gone ELSE store[k]
      /\ UNCHANGED <<cookie, lapsed, row>>
  BY FlushFacts DEF KeysInv
<1>2. PICK u : Moved(t, u, NoKey, Nobody) /\ task' = [task EXCEPT ![w] = u] /\ task'[w] = u
  BY FlushFacts
<1>3. /\ \A v \in Workers \ {w} : task[v] = Idle
      /\ AloneOK(t)
      /\ \A k \in Keys : row[k].open => Held(k) \/ Pending(t, k)
  BY <1>1, Alone
<1>4. /\ t.previous \in Keys \cup {NoKey} /\ t.key = t.previous
      /\ cookie[t.browser] \in Keys \cup {NoKey}
  BY <1>1, TaskFields DEF SessionOK, Untouched, TypeInv, AccountSessionsTypeOK
<1>5. HasEnded(u) => HasEnded(t) /\ ~LastCall(t)
  BY <1>1, <1>2 DEF Moved, HasEnded, LastCall
<1>6. HasEnded(u) /\ t.previous # NoKey => ~row[t.previous].open
  BY <1>3, <1>5 DEF AloneOK
<1>7. AloneOK(task[w])'
  BY <1>1, <1>2, <1>3, <1>4, <1>6 DEF AloneOK, Moved, HasEnded, LastCall
<1>8. NoKey \notin Keys
  BY SessionsAssumption
<1>9. \A k \in Keys : Pending(t, k) /\ row[k].open => Pending(u, k)
  BY <1>1, <1>2, <1>6, <1>8 DEF Moved, Pending, HasEnded, LastCall
<1>10. \A k \in Keys : row'[k].open => Held(k)' \/ Pending(u, k)
  BY <1>1, <1>2, <1>3, <1>4, <1>6, <1>8, <1>9 DEF Held, Moved, Pending
<1> QED BY <1>2, <1>3, <1>7, <1>10, HeldStep DEF StepKeepsHeld

LEMMA EndHeld ==
  ASSUME TypeInv, KeysInv, OneAtATime, NEW w \in Workers, EndPrevious(w)
  PROVE  HeldInv'
<1> DEFINE t == task[w]
<1>1. /\ t \in Tasks /\ t # Idle /\ ~LastCall(t)
      /\ UNCHANGED <<cookie, lapsed, store>>
  BY EndFacts
<1>2. \A k \in Keys :
        /\ row'[k].account = row[k].account
        /\ k # t.previous => row'[k] = row[k]
        /\ k = t.previous => ~row'[k].open
  BY EndFacts
<1>3. PICK u : Moved(t, u, t.key, t.user) /\ task' = [task EXCEPT ![w] = u] /\ task'[w] = u
  BY EndFacts
<1>4. /\ \A v \in Workers \ {w} : task[v] = Idle
      /\ AloneOK(t)
      /\ \A k \in Keys : row[k].open => Held(k) \/ Pending(t, k)
  BY <1>1, Alone
<1>5. t.previous \in Keys \cup {NoKey}
  BY <1>1, TaskFields
<1>6. AloneOK(task[w])'
  BY <1>1, <1>2, <1>3, <1>4, <1>5 DEF AloneOK, Moved
<1>7. \A k \in Keys : row'[k].open => Held(k)'
  BY <1>1, <1>2, <1>4 DEF Held, Pending
<1> QED BY <1>3, <1>4, <1>6, <1>7, HeldStep DEF StepKeepsHeld

LEMMA SyncHeld ==
  ASSUME TypeInv, KeysInv, OneAtATime, NEW w \in Workers, Sync(w)
  PROVE  HeldInv'
<1> DEFINE t == task[w]
<1>1. /\ t \in Tasks /\ t # Idle /\ ~LastCall(t) /\ t.subject \in Subjects
      /\ (t.op = "handover" /\ t.next = 3) \/ (t.op = "switch" /\ t.next = 4)
      /\ UNCHANGED <<cookie, lapsed>>
  BY SyncFacts
<1>2. PICK k, u :
        /\ k \in Keys
        /\ Moved(t, u, k, t.user)
        /\ task' = [task EXCEPT ![w] = u] /\ task'[w] = u
        /\ t.key = NoKey => store'[k] = t.subject /\ Fresh(k)
        /\ t.key # NoKey => store'[k] = store[k] /\ k = t.key
        /\ row'[k] = [account |-> t.subject, open |-> TRUE]
        /\ \A j \in Keys \ {k} : row'[j] = row[j] /\ store'[j] = store[j]
  BY SyncFacts
<1>3. /\ \A v \in Workers \ {w} : task[v] = Idle
      /\ AloneOK(t)
      /\ \A j \in Keys : row[j].open => Held(j) \/ Pending(t, j)
  BY <1>1, Alone
<1>4. /\ t.previous \in Keys \cup {NoKey} /\ t.browser \in Browsers
      /\ cookie[t.browser] \in Keys \cup {NoKey}
  BY <1>1, TaskFields DEF TypeInv, AccountSessionsTypeOK
<1>5. HasEnded(t) /\ LastCall(u)
  BY <1>1, <1>2 DEF Moved, HasEnded, LastCall
<1>6. t.subject # Gone /\ NoKey \notin Keys
  BY <1>1, SessionsAssumption
<1>7. store'[k] # Gone
  BY <1>2, <1>3, <1>6 DEF AloneOK
<1>8. \A j \in Keys : store[j] = Gone /\ store'[j] # Gone => j = k /\ Fresh(k)
  BY <1>2
<1>9. t.previous # NoKey => ~row[t.previous].open
  BY <1>1, <1>3, <1>5 DEF AloneOK
<1>10. cookie[t.browser] \in {NoKey, t.previous} \cup lapsed \/ store'[cookie[t.browser]] = Gone
  BY <1>3, <1>4, <1>8 DEF AloneOK, Fresh
<1>11. t.previous # NoKey /\ row'[t.previous].open => t.previous = k
  BY <1>2, <1>4, <1>9
<1>12. AloneOK(task[w])'
  BY <1>1, <1>2, <1>3, <1>5, <1>7, <1>10, <1>11 DEF AloneOK, Moved
<1>13. \A j \in Keys \ {k} : row'[j].open => Held(j)'
  BY <1>1, <1>2, <1>3, <1>5 DEF Held, Pending
<1>14. Pending(u, k)
  BY <1>2, <1>5 DEF Moved, Pending
<1> QED BY <1>2, <1>3, <1>12, <1>13, <1>14, HeldStep DEF StepKeepsHeld

LEMMA RespondHeld ==
  ASSUME TypeInv, KeysInv, OneAtATime, NEW w \in Workers, Respond(w)
  PROVE  HeldInv'
<1> DEFINE t == task[w]
<1>1. t \in Tasks /\ t # Idle /\ SessionOK(t)
  BY DEF Respond, At, KeysInv, TypeInv, AccountSessionsTypeOK
<1>2. /\ LastCall(t) /\ HasEnded(t) /\ t.browser \in Browsers
      /\ t.key \in Keys \cup {NoKey} /\ t.previous \in Keys \cup {NoKey}
      /\ cookie[t.browser] \in Keys \cup {NoKey}
  <2>1. LastCall(t)
    BY <1>1, Places DEF Respond
  <2> QED BY <1>1, <2>1, TaskFields DEF LastCall, HasEnded, TypeInv, AccountSessionsTypeOK
<1>3. /\ \A v \in Workers \ {w} : task[v] = Idle
      /\ AloneOK(t)
      /\ \A k \in Keys : row[k].open => Held(k) \/ Pending(t, k)
  BY <1>1, Alone
<1>4. task' = [task EXCEPT ![w] = Idle] /\ row' = row
  BY DEF Respond
<1>5. NoKey \notin Keys /\ \A k \in Keys : row[k].open => row[k].account # Gone
  BY RowFields, SessionsAssumption DEF TypeInv
\* The browser of the request holds no other open row than that of the response,
\* except that of a session that has lapsed.
<1>6. ASSUME NEW k \in Keys, row[k].open, k # t.key
      PROVE  Held(k) /\ (k \in lapsed \/ cookie[t.browser] # k)
  <2>1. Held(k)
    BY <1>2, <1>3, <1>6 DEF Pending
  <2> QED BY <1>2, <1>3, <1>5, <1>6, <2>1 DEF Held, AloneOK
<1>7. CASE /\ t.key = NoKey
           /\ cookie' = IF t.sent THEN [cookie EXCEPT ![t.browser] = NoKey] ELSE cookie
           /\ UNCHANGED <<store, lapsed>>
  <2>1. \A b \in Browsers : b # t.browser => cookie'[b] = cookie[b]
    BY <1>7 DEF TypeInv, AccountSessionsTypeOK
  <2>2. \A k \in Keys : row'[k].open => Held(k)'
    BY <1>4, <1>5, <1>6, <1>7, <2>1 DEF Held
  <2> QED BY <1>3, <1>4, <2>2, HeldStep DEF StepKeepsHeld
<1>8. CASE t.key # NoKey /\ store[t.key] = Gone
  BY <1>3, <1>8 DEF AloneOK
<1>9. CASE /\ t.key # NoKey /\ store[t.key] # Gone
           /\ store' = [store EXCEPT ![t.key] = t.user]
           /\ cookie' = [cookie EXCEPT ![t.browser] = t.key]
           /\ lapsed' = lapsed \ {t.key}
  <2>1. /\ \A b \in Browsers : b # t.browser => cookie'[b] = cookie[b]
        /\ cookie'[t.browser] = t.key
        /\ store'[t.key] = t.user
        /\ \A k \in Keys : k # t.key => store'[k] = store[k]
        /\ \A k \in Keys : k # t.key /\ k \in lapsed => k \in lapsed'
    BY <1>2, <1>9 DEF TypeInv, AccountSessionsTypeOK
  <2>2. row[t.key].account = t.user
    BY <1>1, <1>2, <1>9 DEF SessionOK
  <2>3. \A k \in Keys : row'[k].open => Held(k)'
    BY <1>2, <1>4, <1>6, <2>1, <2>2 DEF Held
  <2> QED BY <1>3, <1>4, <2>3, HeldStep DEF StepKeepsHeld
<1> QED BY <1>7, <1>8, <1>9 DEF Respond

LEMMA HeldAlwaysStep ==
  ASSUME TypeInv, KeysInv, HeldInv, [AccountSessionsNext]_vars
  PROVE  HeldInv'
<1>1. SUFFICES ASSUME crashes' = 0, ~overlapped'
               PROVE  HeldInv'
  BY DEF HeldInv
<1>2. CASE UNCHANGED vars
  BY <1>2 DEF vars, HeldInv, OneAtATime, AloneOK, Held, Pending
<1>3. ASSUME NEW k \in Keys, Expire(k)
      PROVE  HeldInv'
  <2>1. lapsed \subseteq lapsed' /\ UNCHANGED <<store, cookie, row, task, crashes, overlapped>>
    BY <1>3 DEF Expire
  <2> QED BY <2>1 DEF HeldInv, OneAtATime, AloneOK, Held, Pending, HasEnded, LastCall
<1>4. ASSUME NEW b \in Browsers, LoseCookie(b)
      PROVE  HeldInv'
  <2>1. UNCHANGED <<store, row, task, crashes, overlapped>>
    BY <1>4 DEF LoseCookie
  <2>2. OneAtATime
    BY <1>1, <2>1 DEF HeldInv
  <2>3. /\ \A c \in Browsers : cookie'[c] = cookie[c] \/ (c = b /\ cookie'[c] = NoKey)
        /\ lapsed' = lapsed \cup {cookie[b]}
    BY <1>4 DEF LoseCookie, TypeInv, AccountSessionsTypeOK
  <2>4. ASSUME NEW k \in Keys, Held(k)
        PROVE  Held(k)'
    BY <2>1, <2>3, <2>4 DEF Held
  <2>5. ASSUME NEW w \in Workers, task[w] # Idle
        PROVE  AloneOK(task[w])'
    <3>1. task[w].browser \in Browsers /\ AloneOK(task[w])
      BY <2>2, <2>5, TaskFields DEF OneAtATime, TypeInv, AccountSessionsTypeOK
    <3> QED BY <2>1, <2>3, <3>1 DEF AloneOK, HasEnded, LastCall
  <2>6. \A k \in Keys : row'[k].open => Held(k)' \/ \E w \in Workers : Pending(task[w], k)'
    BY <2>1, <2>2, <2>4 DEF OneAtATime, Pending, HasEnded, LastCall
  <2> QED BY <2>1, <2>2, <2>5, <2>6 DEF HeldInv, OneAtATime
<1>5. CASE \E w \in Workers : Serve(w)
  <2>1. crashes = 0
    <3>1. crashes \in Nat
      BY DEF TypeInv, AccountSessionsTypeOK
    <3>2. crashes' = crashes \/ crashes' = crashes + 1
      BY <1>5 DEF Serve, Handover, DemoSwitch, Logout, Arrive, Login, Flush,
        EndPrevious, Sync, Respond, Crash
    <3> QED BY <1>1, <3>1, <3>2
  <2>2. ~overlapped
    BY <1>1, <1>5 DEF Serve, Handover, DemoSwitch, Logout, Arrive, Login, Flush,
      EndPrevious, Sync, Respond, Crash
  <2>3. OneAtATime
    BY <2>1, <2>2 DEF HeldInv
  <2>4. ASSUME NEW w \in Workers, NEW b \in Browsers, NEW s \in Subjects,
               Handover(w, b, s) \/ DemoSwitch(w, b, s)
        PROVE  HeldInv'
    BY <1>1, <2>3, <2>4, ArriveHeld DEF Handover, DemoSwitch, Program
  <2>5. ASSUME NEW w \in Workers, NEW b \in Browsers, Logout(w, b)
        PROVE  HeldInv'
    BY <1>1, <2>3, <2>5, ArriveHeld DEF Logout, Program
  <2>6. ASSUME NEW w \in Workers, Crash(w)
        PROVE  FALSE
    BY <1>1, <2>1, <2>6 DEF Crash
  <2> QED
    BY <1>5, <2>3, <2>4, <2>5, <2>6, LoginHeld, FlushHeld, EndHeld, SyncHeld, RespondHeld DEF Serve
<1> QED BY <1>2, <1>3, <1>4, <1>5 DEF AccountSessionsNext

\* As long as requests come one at a time and none fails half way, every open row
\* is of a session that some browser holds, or that has expired or whose cookie was
\* lost: signing in again, switching and signing out end the row of the session that
\* they replace.
THEOREM OpenRowsAlwaysHeld == AccountSessionsSpec => []OpenRowsHeld
<1>1. AccountSessionsInit => HeldInv
  BY DEF AccountSessionsInit, HeldInv, OneAtATime, NoRow
<1>2. HeldInv => OpenRowsHeld
  BY DEF HeldInv, OneAtATime, OpenRowsHeld, Held, Pending, Busy
<1>3. AccountSessionsSpec => []HeldInv
  BY <1>1, KeysAlways, HeldAlwaysStep, PTL DEF AccountSessionsSpec
<1> QED BY <1>2, <1>3, PTL
=============================================================================
