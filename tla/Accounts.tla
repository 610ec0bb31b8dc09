------------------------------ MODULE Accounts ------------------------------
(* Accounts and their roles (accounts/models.py): the committed rows, and   *)
(* the statements that a transaction makes on them.  Two transactions do    *)
(* this: establish_account_session, for one identity, and the accounts part *)
(* of the demo seed command, for the two demo users.  A transaction sees    *)
(* committed rows and its own writes (PostgreSQL, READ COMMITTED); its      *)
(* writes hold locks until it ends.                                         *)
(*                                                                          *)
(* An account and its user are one-to-one and written together, so they are *)
(* one row here, whose key is the portal_subject.  The username of the user *)
(* is built from the subject, except that the demo users have names of      *)
(* their own.                                                               *)
EXTENDS Naturals, SequencesExt

CONSTANTS
  Subjects,        \* portal users, by portal_subject
  RoleCodes        \* the role codes that identities assert

VARIABLES
  owner,           \* which username each account's user has
  appRoles,        \* AppRole rows, by code
  granted          \* rows of accounts_account_roles

accountVars == <<owner, appRoles, granted>>

Owners == {"none", "portal", "demo"}

AccountsTypeOK ==
  /\ owner \in [Subjects -> Owners]
  /\ appRoles \subseteq RoleCodes
  /\ granted \subseteq Subjects \X RoleCodes

AccountsInit ==
  /\ owner = [s \in Subjects |-> "none"]
  /\ appRoles = {}
  /\ granted = {}

RolesOf(s) == { c \in RoleCodes : <<s, c>> \in granted }

-----------------------------------------------------------------------------
(* A transaction t: by names the username it would create an account under, *)
(* identities are those it asserts in order, i and j the identity and the   *)
(* role it has come to.  locked are the accounts it has written, inserted   *)
(* the new ones among them, created the new roles, and removed and added    *)
(* the rows of accounts_account_roles it has deleted and inserted.          *)

Begin(by, identities) ==
  [by |-> by, identities |-> identities, i |-> 1, j |-> 1, step |-> "select",
   locked |-> {}, inserted |-> {}, created |-> {}, removed |-> {}, added |-> {}]

Subject(t) == t.identities[t.i].subject
Roles(t) == t.identities[t.i].roles

\* The handover looks the account up by portal_subject, the seed command by
\* the user with the demo name.
Found(t) == IF t.by = "demo" THEN owner[Subject(t)] = "demo" ELSE owner[Subject(t)] # "none"

\* The locks that t holds and the one that its next statement takes: of an
\* account row that is updated or inserted, or of a role that is inserted.
Held(t) == t.locked \cup t.created

Needed(t) ==
  CASE t.step \in {"update", "insert"} -> {Subject(t)}
    [] t.step = "create_role" -> {Roles(t)[t.j]}
    [] OTHER -> {}

Select(t) == [t EXCEPT !.step = IF Found(t) THEN "update" ELSE "insert"]

\* Mutated form: nothing is saved, so nothing is locked, if no column changes.
UpdateIfChanged(t) == [t EXCEPT !.step = "role", !.j = 1]

\* user.save and account.save
Update(t) == [t EXCEPT !.locked = @ \cup {Subject(t)}, !.step = "role", !.j = 1]

\* Mutated form: portal_subject is not unique.
InsertableTwice(t) == TRUE

\* User.objects.create and Account.objects.create are an IntegrityError if a
\* row with the unique portal_subject has been committed: by another handover
\* since the SELECT, or because the account has a user that the seed command
\* did not create.
Insertable(t) == owner[Subject(t)] = "none"

Insert(t) ==
  [t EXCEPT !.locked = @ \cup {Subject(t)}, !.inserted = @ \cup {Subject(t)},
            !.step = "role", !.j = 1]

\* get_or_create of a role: a SELECT, and an INSERT if it finds nothing.
GetRole(t) ==
  IF t.j > Len(Roles(t)) THEN [t EXCEPT !.step = "set_roles"]
  ELSE IF Roles(t)[t.j] \in appRoles \cup t.created THEN [t EXCEPT !.j = @ + 1]
  ELSE [t EXCEPT !.step = "create_role"]

\* The INSERT breaks the unique code if another transaction has committed the
\* role meanwhile; get_or_create rolls back to its savepoint and finds it.
CreateRole(t) ==
  [t EXCEPT !.created = @ \cup ({Roles(t)[t.j]} \ appRoles), !.step = "role", !.j = @ + 1]

\* account.roles.set: what the account has is read; the roles that are not
\* asserted are deleted and those that are missing are inserted.
SetRoles(t) ==
  LET s == Subject(t)
      asserted == ToSet(Roles(t))
  IN [t EXCEPT !.removed = @ \cup {s} \X (RolesOf(s) \ asserted),
               !.added = @ \cup {s} \X (asserted \ RolesOf(s)),
               !.step = IF t.i = Len(t.identities) THEN "commit" ELSE "select",
               !.i = IF t.i = Len(t.identities) THEN @ ELSE @ + 1]

\* Everything that t has written appears.
CommitWrites(t) ==
  /\ owner' = [s \in Subjects |-> IF s \in t.inserted THEN t.by ELSE owner[s]]
  /\ appRoles' = appRoles \cup t.created
  /\ granted' = (granted \ t.removed) \cup t.added
=============================================================================
