------------------------------ MODULE JwksCache ------------------------------
(* The module-level cache of JWKS clients (accounts/services.py): a         *)
(* dictionary per process, filled under a double-checked lock by the        *)
(* threads of that process.  PORTAL_JWKS_URL does not change while a        *)
(* process runs, so one entry stands for the dictionary.  A client is named *)
(* after the worker that built it.                                          *)
EXTENDS Naturals

CONSTANTS
  Workers,         \* the threads that serve requests
  Processes,       \* the server processes
  ProcessOf        \* the process of each worker

NoClient == "no client"
NoHolder == "no holder"

ASSUME JwksAssumption ==
  /\ ProcessOf \in [Workers -> Processes]
  /\ {NoClient, NoHolder} \cap Workers = {}

VARIABLES
  client,          \* _jwks_clients[jwks_url] in each process
  lockHolder       \* who holds _jwks_lock in each process

jwksVars == <<client, lockHolder>>

JwksTypeOK ==
  /\ client \in [Processes -> Workers \cup {NoClient}]
  /\ lockHolder \in [Processes -> Workers \cup {NoHolder}]

JwksInit ==
  /\ client = [p \in Processes |-> NoClient]
  /\ lockHolder = [p \in Processes |-> NoHolder]

Cached(w) == client[ProcessOf[w]] # NoClient

\* with _jwks_lock: the thread waits while another one holds it.
AcquireLock(w) ==
  /\ lockHolder[ProcessOf[w]] = NoHolder
  /\ lockHolder' = [lockHolder EXCEPT ![ProcessOf[w]] = w]
  /\ UNCHANGED client

\* Mutated form: the second look at the dictionary is left out.
FillWithoutLooking(w) ==
  /\ client' = [client EXCEPT ![ProcessOf[w]] = w]
  /\ lockHolder' = [lockHolder EXCEPT ![ProcessOf[w]] = NoHolder]

\* Mutated form: the client that was built is not stored.
FillNothing(w) ==
  /\ lockHolder' = [lockHolder EXCEPT ![ProcessOf[w]] = NoHolder]
  /\ UNCHANGED client

\* Mutated form: the lock is only released if there is nothing to build.
FillKeepingLock(w) ==
  /\ client' = [client EXCEPT ![ProcessOf[w]] = IF Cached(w) THEN @ ELSE w]
  /\ lockHolder' = [lockHolder EXCEPT ![ProcessOf[w]] = IF Cached(w) THEN NoHolder ELSE @]

\* The body of the with statement: a client is built unless there is one by
\* now (the constructor does no I/O), and the lock is released.
FillCache(w) ==
  /\ client' = [client EXCEPT ![ProcessOf[w]] = IF Cached(w) THEN @ ELSE w]
  /\ lockHolder' = [lockHolder EXCEPT ![ProcessOf[w]] = NoHolder]

\* A process that is restarted starts with an empty dictionary.
ForgetClient(p) ==
  /\ client' = [client EXCEPT ![p] = NoClient]
  /\ lockHolder' = [lockHolder EXCEPT ![p] = NoHolder]
=============================================================================
