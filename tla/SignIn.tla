-------------------------------- MODULE SignIn --------------------------------
(* The way of one browser from a page to the answer: the login and role     *)
(* checks in front of the views, the redirect to handover_view, the portal's *)
(* login, which sends the browser back to the page it came from, and the    *)
(* demo switch.  The portal is external; it is modelled by what the         *)
(* redirects rely on.  Roles are also written by the command load_demo_seed *)
(* and in the Django admin.                                                 *)
EXTENDS PortalIdentity

CONSTANTS
  Subjects,        \* portal users, by portal_subject
  DemoEmployee, DemoAdmin,
                   \* the subjects that load_demo_seed makes accounts for
  DemoSubjects,    \* DEMO_SWITCH_SUBJECTS
  Claims,          \* what the portal may assert about whoever logs in there
  EditedRoles,     \* bound: the sets of codes chosen in the Django admin
  MaxLapses,       \* bound: how often a token, session or portal login ends
  MaxText          \* bound: the length of the role texts compared

NoToken == [token |-> "absent"]
Expired == [token |-> "expired"]       \* or not a token at all
Unknown == [token |-> "rejected"]      \* no identity
Nobody == "nobody"
Seeded == {DemoEmployee, DemoAdmin}

Pages == {"home", "assets", "my_loans", "loan_admin", "approve", "audit_log"}

\* The checks of the views' mixins and the methods of the views.
LoginRequired(page) == page # "home"
ManagersOnly(page) == page \in {"loan_admin", "approve", "audit_log"}
PostOnly(page) == page = "approve"
Fallback(page) == IF page \in {"loan_admin", "approve"} THEN "my_loans" ELSE "assets"

\* What a browser shows in the end.
OtherAnswers == {"not_allowed", "unauthorized", "forbidden", "bad_request", "portal_form"}
Answers == Pages \cup Hosts \cup OtherAnswers

ASSUME SignInAssumption ==
  /\ Hosts \cap (Pages \cup OtherAnswers) = {}
  /\ MaxLapses \in Nat /\ MaxText \in Nat
  /\ \A codes \in EditedRoles : \A code \in codes : Len(code) \in 1..MaxCode
  /\ Nobody \notin Subjects /\ Seeded \cup DemoSubjects \subseteq Subjects
  /\ \A c \in Claims : c.subject \in Subjects /\ RoleTexts(c) \subseteq Seq(Characters)

VARIABLES
  settings,        \* AUTH_MODE, and whether PORTAL_LOGIN_URL is set
  at,              \* the request the browser makes next, or what it shows
  asked,           \* history: what the user asked for
  portalToken,     \* portal_token cookie; in dev-header mode the X-Portal headers
  otherCookie,     \* another cookie of PORTAL_COOKIE_NAMES
  portalUser,      \* a user is logged in at the portal
  claims,          \* what the portal asserts about that user at present
  session,         \* whose session of this application the browser has
  createdBy,       \* what has made each subject's account, if anything
  roles,           \* the role codes of each subject's account
  granted,         \* history: the roles last written for it, as they are spelled
  keysUp,          \* the portal's keys can be fetched
  lapses

signInVars == <<settings, at, asked, portalToken, otherCookie, portalUser, claims,
                session, createdBy, roles, granted, keysUp, lapses>>

portalVars == <<portalToken, otherCookie, portalUser, claims>>
tableVars == <<createdBy, roles, granted>>
accountVars == <<session, tableVars>>
givenVars == <<settings, keysUp, lapses>>

Request(to, method) == [kind |-> "page", to |-> to, method |-> method]
Get(to) == IF to \in Pages THEN Request(to, "GET") ELSE [kind |-> "shown", to |-> to]
GetHandover(to) == [kind |-> "handover", to |-> to]
GetPortal(to) == [kind |-> "portal", to |-> to]
Show(answer) == [kind |-> "shown", to |-> answer]

\* A portal login form remembers where to send the browser back to.
PortalForm(to) == [kind |-> "shown", to |-> "portal_form", back |-> to]

Shown == at.kind = "shown"

SignInTypeOK ==
  /\ settings \in [mode: {"portal", "dev-header"}, login: BOOLEAN]
  /\ at \in [kind: {"page"}, to: Pages, method: {"GET", "POST"}]
       \cup [kind: {"handover", "portal"}, to: Pages \cup AllowedHosts]
       \cup [kind: {"shown"}, to: Answers]
       \cup [kind: {"shown"}, to: {"portal_form"}, back: Pages \cup AllowedHosts]
  /\ asked \in Pages \cup Hosts
  /\ portalToken \in Claims \cup {NoToken, Expired}
  /\ otherCookie \in {NoToken, Expired}
  /\ claims \in Claims /\ session \in Subjects \cup {Nobody}
  /\ portalUser \in BOOLEAN /\ keysUp \in BOOLEAN
  /\ createdBy \in [Subjects -> {Nobody, "handover", "seed"}]
  /\ \A s \in Subjects : \A code \in roles[s] : Len(code) \in 1..MaxCode
  /\ lapses \in 0..MaxLapses

SignInInit ==
  /\ settings \in [mode: {"portal", "dev-header"}, login: BOOLEAN]
  /\ at = Show("home") /\ asked = "home"
  /\ portalToken = NoToken /\ portalUser = FALSE
  /\ otherCookie \in {NoToken, Expired}
  /\ claims \in Claims /\ session = Nobody
  /\ createdBy = [s \in Subjects |-> Nobody]
  /\ roles = [s \in Subjects |-> {}] /\ granted = roles
  /\ keysUp = TRUE /\ lapses = 0

-----------------------------------------------------------------------------
(* The user.                                                                *)

\* Follows a link to a page, or submits the form of an approval.
Visit(page) ==
  /\ Shown
  /\ at' = Request(page, IF PostOnly(page) THEN "POST" ELSE "GET") /\ asked' = page
  /\ UNCHANGED <<portalVars, accountVars, givenVars>>

\* Follows a link to /auth/handover?returnTo=...
VisitHandover(raw) ==
  /\ Shown
  /\ at' = GetHandover(SanitizeReturnTo(raw, Pages)) /\ asked' = raw
  /\ UNCHANGED <<portalVars, accountVars, givenVars>>

\* logout_view, with a returnTo: the session ends, the portal's token stays.
LogOut(raw) ==
  /\ Shown
  /\ session' = Nobody
  /\ at' = Get(SanitizeReturnTo(raw, Pages)) /\ asked' = raw
  /\ UNCHANGED <<portalVars, tableVars, givenVars>>

\* demo_switch_view: in dev-header mode, one of DEMO_SWITCH_SUBJECTS that has an
\* account is signed in, whoever made the account; its roles stay as they are.
SwitchAnswer(s, raw) ==
  IF settings.mode # "dev-header" THEN Show("forbidden")
  ELSE IF s \notin DemoSubjects \/ createdBy[s] = Nobody THEN Show("bad_request")
  ELSE Get(SanitizeReturnTo(raw, Pages))

DemoSwitch(s, raw) ==
  /\ Shown /\ at' = SwitchAnswer(s, raw) /\ asked' = raw
  /\ session' = IF settings.mode = "dev-header" /\ s \in DemoSubjects /\ createdBy[s] # Nobody
                THEN s ELSE session
  /\ UNCHANGED <<portalVars, tableVars, givenVars>>

\* Fills in the portal's login form.
LogInAtPortal ==
  /\ at.to = "portal_form"
  /\ portalUser' = TRUE
  /\ at' = GetPortal(at.back)
  /\ UNCHANGED <<asked, portalToken, otherCookie, claims, accountVars, givenVars>>

-----------------------------------------------------------------------------
(* The application.                                                         *)

HasManagerRole(s) == roles[s] \cap ManageCodes # {}

CanManage == session # Nobody /\ HasManagerRole(session)

\* Mutated form: the login check does not pass on the page that was asked for.
LoginRedirectHome(page) == GetHandover("home")

\* PortalLoginRequiredMixin: to the handover, and back to the same page.
LoginRedirect(page) == GetHandover(page)

\* The checks in front of a view, in their order, and the view's answer.
PageAnswer ==
  IF LoginRequired(at.to) /\ session = Nobody THEN LoginRedirect(at.to)
  ELSE IF ManagersOnly(at.to) /\ ~CanManage THEN Get(Fallback(at.to))
  ELSE IF PostOnly(at.to) /\ at.method = "GET" THEN Show("not_allowed")
  ELSE Show(at.to)

ServePage ==
  /\ at.kind = "page" /\ at' = PageAnswer
  /\ UNCHANGED <<asked, portalVars, accountVars, givenVars>>

\* Mutated form: the last cookie that is present is used.
LastCookie == FirstPresent(<<otherCookie, portalToken>>, NoToken)

\* portal_token is the first of PORTAL_COOKIE_NAMES.
Token == FirstPresent(<<portalToken, otherCookie>>, NoToken)

\* resolve_portal_identity: verified claims with a subject and an e-mail address.
Identity ==
  IF settings.mode = "portal"
  THEN IF Token \in Claims /\ keysUp /\ Token.email THEN Token ELSE Unknown
  ELSE IF portalToken \in Claims /\ portalToken.email THEN portalToken ELSE Unknown

\* Mutated form: roles are added to those that the account has.
AddedRoles(identity) == roles[identity.subject] \cup CodesOf(identity)

\* sync_account_roles with the roles of the identity.
SyncedRoles(identity) == CodesOf(identity)

\* handover_view: with an identity the user is signed in and sent back; without
\* one to the portal's login page, or answered 401 if there is none.
HandoverAnswer ==
  IF Identity # Unknown THEN Get(at.to)
  ELSE IF settings.login THEN GetPortal(at.to) ELSE Show("unauthorized")

ServeHandover ==
  /\ at.kind = "handover" /\ at' = HandoverAnswer
  /\ \/ /\ Identity # Unknown
        /\ session' = Identity.subject
        /\ createdBy' = [createdBy EXCEPT ![Identity.subject] = IF @ = Nobody THEN "handover" ELSE @]
        /\ roles' = [roles EXCEPT ![Identity.subject] = SyncedRoles(Identity)]
        /\ granted' = [granted EXCEPT ![Identity.subject] = Spellings(Identity)]
     \/ Identity = Unknown /\ UNCHANGED accountVars
  /\ UNCHANGED <<asked, portalVars, givenVars>>

\* The portal's login page sends a user who is logged in back with a token,
\* which only portal mode reads.
PortalAnswer == IF portalUser THEN Get(at.to) ELSE PortalForm(at.to)

ServePortal ==
  /\ at.kind = "portal" /\ at' = PortalAnswer
  /\ portalToken' = IF portalUser /\ settings.mode = "portal" THEN claims ELSE portalToken
  /\ UNCHANGED <<asked, otherCookie, portalUser, claims, accountVars, givenVars>>

-----------------------------------------------------------------------------
(* The rest of the world.                                                   *)

Lapse ==
  /\ lapses < MaxLapses
  /\ lapses' = lapses + 1
  /\ \/ /\ settings.mode = "portal" /\ portalToken \in Claims /\ portalToken' = Expired
        /\ UNCHANGED <<portalUser, session>>
     \/ /\ portalUser /\ portalUser' = FALSE
        /\ UNCHANGED <<portalToken, session>>
     \/ /\ session # Nobody /\ session' = Nobody
        /\ UNCHANGED <<portalToken, portalUser>>
  /\ UNCHANGED <<settings, at, asked, otherCookie, claims, tableVars, keysUp>>

\* The portal's record of the user changes, or, with nobody logged in there, who
\* will; a token keeps what it was issued with.
ChangeClaims ==
  /\ Shown
  /\ claims' \in Claims
  /\ portalUser => claims'.subject = claims.subject
  /\ UNCHANGED <<at, asked, portalToken, otherCookie, portalUser, accountVars, givenVars>>

\* In dev-header mode the client sends headers as it likes.
SendHeaders ==
  /\ Shown /\ settings.mode = "dev-header"
  /\ portalToken' \in Claims \cup {NoToken}
  /\ UNCHANGED <<at, asked, otherCookie, portalUser, claims, accountVars, givenVars>>

\* ensure_user of load_demo_seed: the roles of the demo users are set, and a new
\* password ends their sessions.  An account that a handover has made for one of
\* their subjects makes the whole command fail, since the subject is unique.
SeedRoles(s) == IF s = DemoAdmin THEN { <<"a", "-", "a">> } ELSE {}

Seed ==
  /\ \A s \in Seeded : createdBy[s] # "handover"
  /\ createdBy' = [s \in Subjects |-> IF s \in Seeded THEN "seed" ELSE createdBy[s]]
  /\ roles' = [s \in Subjects |-> IF s \in Seeded THEN SeedRoles(s) ELSE roles[s]]
  /\ granted' = [s \in Subjects |-> IF s \in Seeded THEN SeedRoles(s) ELSE granted[s]]
  /\ IF session \in Seeded
     THEN lapses < MaxLapses /\ lapses' = lapses + 1 /\ session' = Nobody
     ELSE UNCHANGED <<session, lapses>>
  /\ UNCHANGED <<settings, at, asked, portalVars, keysUp>>

\* AccountAdmin: a superuser chooses the roles of an account.
EditRoles(s, codes) ==
  /\ createdBy[s] # Nobody
  /\ roles' = [roles EXCEPT ![s] = codes]
  /\ granted' = [granted EXCEPT ![s] = codes]
  /\ UNCHANGED <<at, asked, portalVars, session, createdBy, givenVars>>

SwitchKeys ==
  /\ keysUp' = ~keysUp
  /\ UNCHANGED <<settings, at, asked, portalVars, accountVars, lapses>>

Follow == ServePage \/ ServeHandover \/ ServePortal

SignInNext ==
  \/ Follow
  \/ \E page \in Pages : Visit(page)
  \/ \E raw \in Pages \cup Hosts : VisitHandover(raw) \/ LogOut(raw)
  \/ \E s \in Subjects, raw \in Pages \cup Hosts : DemoSwitch(s, raw)
  \/ LogInAtPortal \/ Lapse \/ ChangeClaims \/ SendHeaders \/ SwitchKeys
  \/ Seed
  \/ \E s \in Subjects, codes \in EditedRoles : EditRoles(s, codes)

\* The answer to the browser's request, which leads to the next one.
Answer ==
  CASE at.kind = "page" -> PageAnswer
    [] at.kind = "handover" -> HandoverAnswer
    [] at.kind = "portal" -> PortalAnswer

\* The browser follows every redirect and every request is answered; nothing
\* makes the user act.  While there is a request, only Follow changes at.
SignInSpec == SignInInit /\ [][SignInNext]_signInVars /\ WF_at(~Shown /\ at' = Answer)

-----------------------------------------------------------------------------
(* Properties.                                                              *)

\* What the user asked for, without the addresses that nobody is sent to.
Wanted == IF asked \in Hosts \ AllowedHosts THEN "home" ELSE asked

OnTheWayTo(to) == to = Wanted \/ (ManagersOnly(Wanted) /\ to = Fallback(Wanted))

\* Whatever expires on the way, the redirects through the handover and the
\* portal never lose or replace what the user asked for: each request, and the
\* form at which the portal stops, leads there or to the page that managers'
\* pages fall back to, and an answer is that page, or an error for its reason.
\* A form submitted without a session comes back as a GET (accounts/mixins.py,
\* handover_view, demo_switch_view, sanitize_return_to).
AnswerFitsRequest ==
  CASE ~Shown                  -> OnTheWayTo(at.to)
    [] at.to = "portal_form"   -> settings.login /\ OnTheWayTo(at.back)
    [] at.to = "unauthorized"  -> ~settings.login
    [] at.to = "not_allowed"   -> PostOnly(Wanted)
    [] at.to = "forbidden"     -> settings.mode # "dev-header"
    [] at.to = "bad_request"   -> settings.mode = "dev-header"
    [] OTHER                   -> OnTheWayTo(at.to)

\* Whoever is signed in, by a handover or by the demo switch, may manage exactly
\* if asset-admin or sysadmin is among the roles last written for the account, in
\* any case and with any separators: those of its last handover, or what the seed
\* command or an administrator has set since.  A role that the portal has taken
\* away ends with the account's next handover, not before (sync_account_roles,
\* ensure_user, read by can_manage_loans and the like).
ManagersAsAsserted ==
  \A s \in Subjects : HasManagerRole(s) <=> granted[s] \cap ManageCodes # {}

\* If in the end the portal's keys can be fetched, the portal asserts an e-mail
\* address, and a login at the portal is of use (dev-header mode does not read
\* its tokens), every request ends with something to show: the redirects
\* between page, handover and portal do not go on for ever.
HandoverCanWork ==
  keysUp /\ claims.email /\ (settings.mode = "portal" \/ ~settings.login)

EveryRequestAnswered == <>[]HandoverCanWork => []<>Shown

\* Whatever role texts of up to MaxText characters a handover asserts, the codes
\* are as their reference says: the words of the text in lower case with one
\* hyphen between two of them, cut to MaxCode, which may leave a hyphen at the
\* end (normalize_role_code).  They depend on no state, so TLC compares them in
\* the initial states only.
RoleCodesMeetReference ==
  SignInInit =>
    \A n \in 0..MaxText : \A text \in [1..n -> Characters] :
      NormalizeRoleCode(text) = Cut(Spelling(text))
=============================================================================
