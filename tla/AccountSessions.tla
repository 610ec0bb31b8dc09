--------------------------- MODULE AccountSessions ---------------------------
(* Signing in and out (accounts/views.py).  A request carries the browser's *)
(* session cookie; three tables are written on the way to the response: the *)
(* Django session store, which holds who is logged in under a session key,  *)
(* the accounts, and the AccountSession rows that track each key.  Every    *)
(* statement of a view commits on its own, so the steps of requests that    *)
(* overlap interleave, and a worker that fails leaves what it has done.     *)
(*                                                                          *)
(* Timestamps are left out: a row is open (ended_at is null) or ended.  So  *)
(* are the Django admin's own login form and the seed command, whose new    *)
(* passwords end the sessions of the demo users.                            *)
EXTENDS Naturals, Sequences, FiniteSets

CONSTANTS
  Browsers,        \* cookie jars
  Subjects,        \* portal users, by portal_subject
  DemoSubjects,    \* DEMO_SWITCH_SUBJECTS; empty unless AUTH_MODE is dev-header
  Keys,            \* bound: the session keys that may be drawn
  Workers,         \* the threads or processes that serve requests
  MaxCrashes,      \* bound: how many requests may fail half way
  MaxLapsed        \* bound: how many sessions may have lapsed at a time

Nobody == "nobody"
NoKey == "no key"
Gone == "gone"              \* no row in the session store
Anonymous == "anonymous"    \* a row in the session store without a user

ASSUME SessionsAssumption ==
  /\ IsFiniteSet(Keys) /\ DemoSubjects \subseteq Subjects
  /\ NoKey \notin Keys /\ MaxCrashes \in Nat /\ MaxLapsed \in Nat
  /\ {Nobody, Gone, Anonymous} \cap Subjects = {}

VARIABLES
  accounts,        \* subjects that have an Account
  store,           \* django_session: what is stored under each key
  cookie,          \* the session key each browser sends
  lapsed,          \* keys whose session has expired or whose cookie was lost
  row,             \* AccountSession: the row of each key
  task,            \* what each worker is doing
  crashes,         \* how many requests have failed half way
  overlapped       \* history: whether two requests were ever under way together

vars == <<accounts, store, cookie, lapsed, row, task, crashes, overlapped>>

NoRow == [account |-> Nobody, open |-> FALSE]
Idle == [op |-> "idle"]

\* Mutated forms: the handover ends the previous session last; the demo switch
\* does not end it at all.
EndLast ==
  [ handover |-> <<"login", "sync", "end", "respond">>,
    switch   |-> <<"flush", "end", "login", "sync", "respond">>,
    logout   |-> <<"end", "flush", "respond">> ]

SwitchWithoutEnd ==
  [ handover |-> <<"login", "end", "sync", "respond">>,
    switch   |-> <<"flush", "login", "sync", "respond">>,
    logout   |-> <<"end", "flush", "respond">> ]

\* The calls that handover_view, demo_switch_view and logout_view make, in
\* their order, and the session middleware's work on the response.
Program ==
  [ handover |-> <<"login", "end", "sync", "respond">>,
    switch   |-> <<"flush", "end", "login", "sync", "respond">>,
    logout   |-> <<"end", "flush", "respond">> ]

\* next is the place in the program of the call to be made, key and user are what
\* request.session holds by now, previous is the key it had when the view started,
\* sent says that the browser sent a cookie.
Tasks ==
  {Idle} \cup
    UNION { [op: {op}, next: 1..Len(Program[op]), browser: Browsers, sent: BOOLEAN,
             key: Keys \cup {NoKey}, previous: Keys \cup {NoKey},
             user: Subjects \cup {Nobody}, subject: Subjects \cup {Nobody}]
          : op \in DOMAIN Program }

\* The account of a row is a foreign key: it refers to an account that exists.
AccountSessionsTypeOK ==
  /\ accounts \subseteq Subjects
  /\ store \in [Keys -> Subjects \cup {Gone, Anonymous}]
  /\ cookie \in [Browsers -> Keys \cup {NoKey}]
  /\ lapsed \subseteq Keys
  /\ row \in [Keys -> {NoRow} \cup [account: accounts, open: BOOLEAN]]
  /\ task \in [Workers -> Tasks]
  /\ crashes \in 0..MaxCrashes
  /\ overlapped \in BOOLEAN

AccountSessionsInit ==
  /\ accounts = {}
  /\ store = [k \in Keys |-> Gone]
  /\ cookie = [b \in Browsers |-> NoKey]
  /\ lapsed = {}
  /\ row = [k \in Keys |-> NoRow]
  /\ task = [w \in Workers |-> Idle]
  /\ crashes = 0
  /\ overlapped = FALSE

-----------------------------------------------------------------------------
(* A request arrives.                                                       *)

\* The authentication middleware loads the session of the cookie; a key that
\* the store does not have, or whose session has expired, is dropped.
LoadedKey(b) ==
  IF cookie[b] \in Keys \ lapsed /\ store[cookie[b]] # Gone THEN cookie[b] ELSE NoKey

LoadedUser(b) ==
  IF LoadedKey(b) # NoKey /\ store[LoadedKey(b)] \in Subjects
  THEN store[LoadedKey(b)] ELSE Nobody

Arrive(w, op, b, s) ==
  /\ task[w] = Idle
  /\ task' = [task EXCEPT ![w] =
                [op |-> op, next |-> 1, browser |-> b, sent |-> cookie[b] # NoKey,
                 key |-> LoadedKey(b), previous |-> LoadedKey(b),
                 user |-> LoadedUser(b), subject |-> s]]
  /\ overlapped' = (overlapped \/ \E v \in Workers : task[v] # Idle)
  /\ UNCHANGED <<store, cookie, lapsed, row, crashes>>

\* handover_view with the identity of s: establish_account_session commits
\* before anything else is written.
Handover(w, b, s) ==
  /\ Arrive(w, "handover", b, s)
  /\ accounts' = accounts \cup {s}

\* Mutated form: the account is not looked up.
SwitchToAnybody(w, b, s) ==
  /\ s \in DemoSubjects
  /\ Arrive(w, "switch", b, s)
  /\ UNCHANGED accounts

\* demo_switch_view: a demo account that exists.
DemoSwitch(w, b, s) ==
  /\ s \in DemoSubjects \cap accounts
  /\ Arrive(w, "switch", b, s)
  /\ UNCHANGED accounts

\* logout_view
Logout(w, b) ==
  /\ Arrive(w, "logout", b, Nobody)
  /\ UNCHANGED accounts

-----------------------------------------------------------------------------
(* The steps of a request.                                                  *)

At(w, call) == task[w] # Idle /\ Program[task[w].op][task[w].next] = call

Done(t) == [t EXCEPT !.next = @ + 1]

\* A session key that has never been used: keys are random and do not repeat.
Fresh(k) ==
  /\ store[k] = Gone /\ row[k] = NoRow
  /\ \A b \in Browsers : cookie[b] # k
  /\ \A w \in Workers : task[w] # Idle => k \notin {task[w].key, task[w].previous}

\* request.session.flush: the stored session is deleted, the key forgotten.
FlushedStore(k) == [j \in Keys |-> IF j = k THEN Gone ELSE store[j]]

\* login: the same user keeps the session, a session of another user is
\* flushed, and without a user the session gets a new key (cycle_key).
Login(w) ==
  LET t == task[w] IN
  /\ At(w, "login")
  /\ \/ /\ t.user = t.subject
        /\ task' = [task EXCEPT ![w] = Done(t)]
        /\ UNCHANGED store
     \/ /\ t.user \notin {t.subject, Nobody}
        /\ store' = FlushedStore(t.key)
        /\ task' = [task EXCEPT ![w] = [Done(t) EXCEPT !.key = NoKey, !.user = t.subject]]
     \/ /\ t.user = Nobody
        /\ \E k \in Keys :
             /\ Fresh(k)
             /\ store' = [FlushedStore(t.key) EXCEPT ![k] = Anonymous]
             /\ task' = [task EXCEPT ![w] = [Done(t) EXCEPT !.key = k, !.user = t.subject]]
  /\ UNCHANGED <<accounts, cookie, lapsed, row, crashes, overlapped>>

\* logout
Flush(w) ==
  /\ At(w, "flush")
  /\ store' = FlushedStore(task[w].key)
  /\ task' = [task EXCEPT ![w] = [Done(task[w]) EXCEPT !.key = NoKey, !.user = Nobody]]
  /\ UNCHANGED <<accounts, cookie, lapsed, row, crashes, overlapped>>

\* end_account_session(previous_session_key): an UPDATE of the open row, if any.
EndPrevious(w) ==
  /\ At(w, "end")
  /\ row' = [k \in Keys |-> IF k = task[w].previous THEN [row[k] EXCEPT !.open = FALSE] ELSE row[k]]
  /\ task' = [task EXCEPT ![w] = Done(task[w])]
  /\ UNCHANGED <<accounts, store, cookie, lapsed, crashes, overlapped>>

\* Mutated form: the row of the key that the request came with is updated.
SyncRowOfRequest(t, k) ==
  IF t.previous = NoKey THEN [row EXCEPT ![k] = [account |-> t.subject, open |-> TRUE]]
                        ELSE [row EXCEPT ![t.previous] = [account |-> t.subject, open |-> TRUE]]

\* update_or_create by session_key; an ended row is opened again.
SyncRow(t, k) == [row EXCEPT ![k] = [account |-> t.subject, open |-> TRUE]]

\* sync_account_session: a session without a key is saved first to get one.
Sync(w) ==
  LET t == task[w] IN
  /\ At(w, "sync")
  /\ \E k \in Keys :
       /\ IF t.key = NoKey THEN Fresh(k) /\ store' = [store EXCEPT ![k] = t.subject]
                           ELSE k = t.key /\ UNCHANGED store
       /\ row' = SyncRow(t, k)
       /\ task' = [task EXCEPT ![w] = [Done(t) EXCEPT !.key = k]]
  /\ UNCHANGED <<accounts, cookie, lapsed, crashes, overlapped>>

\* The session middleware saves the session and sets the cookie, both with their
\* full age again; it answers with an error if the session has been deleted
\* meanwhile.  After a logout it deletes the cookie that was sent.
Respond(w) ==
  LET t == task[w] IN
  /\ At(w, "respond")
  /\ \/ /\ t.key = NoKey
        /\ cookie' = IF t.sent THEN [cookie EXCEPT ![t.browser] = NoKey] ELSE cookie
        /\ UNCHANGED <<store, lapsed>>
     \/ /\ t.key # NoKey /\ store[t.key] = Gone
        /\ UNCHANGED <<store, cookie, lapsed>>
     \/ /\ t.key # NoKey /\ store[t.key] # Gone
        /\ store' = [store EXCEPT ![t.key] = t.user]
        /\ cookie' = [cookie EXCEPT ![t.browser] = t.key]
        /\ lapsed' = lapsed \ {t.key}
  /\ task' = [task EXCEPT ![w] = Idle]
  /\ UNCHANGED <<accounts, row, crashes, overlapped>>

\* The worker dies or the view raises: the session is not saved, no cookie is
\* set, and what was committed stays.
Crash(w) ==
  /\ crashes < MaxCrashes
  /\ task[w] # Idle
  /\ crashes' = crashes + 1
  /\ task' = [task EXCEPT ![w] = Idle]
  /\ UNCHANGED <<accounts, store, cookie, lapsed, row, overlapped>>

\* A session comes of age (SESSION_COOKIE_AGE).  Its rows stay where they are:
\* nobody is told.
Expire(k) ==
  /\ store[k] # Gone /\ k \notin lapsed
  /\ Cardinality(lapsed) < MaxLapsed
  /\ lapsed' = lapsed \cup {k}
  /\ UNCHANGED <<accounts, store, cookie, row, task, crashes, overlapped>>

\* A browser drops its cookie, which comes of age too, or is deleted.
LoseCookie(b) ==
  /\ cookie[b] # NoKey
  /\ Cardinality(lapsed) < MaxLapsed
  /\ cookie' = [cookie EXCEPT ![b] = NoKey]
  /\ lapsed' = lapsed \cup {cookie[b]}
  /\ UNCHANGED <<accounts, store, row, task, crashes, overlapped>>

Serve(w) ==
  \/ \E b \in Browsers, s \in Subjects : Handover(w, b, s) \/ DemoSwitch(w, b, s)
  \/ \E b \in Browsers : Logout(w, b)
  \/ Login(w)
  \/ Flush(w)
  \/ EndPrevious(w)
  \/ Sync(w)
  \/ Respond(w)
  \/ Crash(w)

AccountSessionsNext ==
  \/ \E w \in Workers : Serve(w)
  \/ \E k \in Keys : Expire(k)
  \/ \E b \in Browsers : LoseCookie(b)

AccountSessionsSpec == AccountSessionsInit /\ [][AccountSessionsNext]_vars

-----------------------------------------------------------------------------
(* Properties.                                                              *)

\* A request under way works on the session.
Busy(k) == \E w \in Workers : task[w] # Idle /\ k \in {task[w].key, task[w].previous}

\* A session key belongs to one account for good: neither the row that tracks
\* it nor the session stored under it ever passes to another account, however
\* sign-ins of different users in one browser overlap or fail.
KeyKeepsAccount ==
  [][\A k \in Keys :
       /\ row[k] # NoRow => row'[k].account = row[k].account
       /\ row[k] # NoRow /\ store'[k] \in Subjects => store'[k] = row[k].account]_vars

\* The views sign nobody in unnoticed: a session with a user has an open row of that
\* user's account, as long as no request failed half way.  (A handover of the
\* same user ends the row and opens it again, in two statements.)
SignInsTracked ==
  crashes = 0 =>
    \A k \in Keys :
      store[k] \in Subjects /\ ~Busy(k) => row[k] = [account |-> store[k], open |-> TRUE]

\* When requests neither overlap nor fail, an open row is of a session that is
\* stored for that account, and a browser holds it unless it has lapsed: signing
\* in again, switching and signing out end the row of the session they replace
\* (test_logout_ends_local_account_session).  A session that expires or whose
\* cookie is lost leaves its row open for good, since no request knows its key
\* any more; no other row is left.
OpenRowsHeld ==
  crashes = 0 /\ ~overlapped =>
    \A k \in Keys :
      row[k].open /\ ~Busy(k) =>
        /\ store[k] = row[k].account
        /\ k \in lapsed \/ \E b \in Browsers : cookie[b] = k
=============================================================================
