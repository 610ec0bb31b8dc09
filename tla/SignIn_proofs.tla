---------------------------- MODULE SignIn_proofs ----------------------------
(* The redirects lead to what was asked for, for any hosts, any claims and  *)
(* any number of tokens, sessions and portal logins that end on the way; a  *)
(* role text of any length makes the code that is its spelling; and an      *)
(* account manages by the roles that it was last given.                     *)
EXTENDS SignIn, FiniteSetTheorems, SequenceTheorems, WellFoundedInduction, TLAPS

\* Redirect targets are pages or allowed hosts, which are different things.
Targets == Pages \cup AllowedHosts

\* The requests on the way to a target, and the pages that show it or stop there.
Leading(to) ==
  \/ at = GetHandover(to)
  \/ to \in Pages /\ (at = Request(to, "GET") \/ at = Request(to, "POST"))
  \/ at = Show(to)
  \/ settings.login /\ (at = GetPortal(to) \/ at = PortalForm(to))

\* The strengthening of AnswerFitsRequest: the browser is on the way to a target
\* that fits, or has been told why not.
OnTheWay ==
  \/ \E to \in Targets : OnTheWayTo(to) /\ Leading(to)
  \/ at = Show("unauthorized") /\ ~settings.login
  \/ at = Show("not_allowed") /\ PostOnly(Wanted)
  \/ at = Show("forbidden") /\ settings.mode # "dev-header"
  \/ at = Show("bad_request") /\ settings.mode = "dev-header"

LEMMA TargetsApart ==
  ASSUME NEW to \in Targets
  PROVE  to \notin OtherAnswers
BY SignInAssumption, PortalAssumption DEF Targets, OtherAnswers, Pages

LEMMA PagesAreNoHosts == ASSUME NEW page \in Pages PROVE page \notin Hosts
BY SignInAssumption

\* A target that fits before a step that leaves what was asked for fits after it.
LEMMA StillOnTheWay ==
  ASSUME NEW to, OnTheWayTo(to), asked' = asked
  PROVE  OnTheWayTo(to)'
BY DEF OnTheWayTo, Wanted

LEMMA FitsFromWay ==
  ASSUME OnTheWay
  PROVE  AnswerFitsRequest
<1>1. ASSUME NEW to \in Targets, OnTheWayTo(to), Leading(to)
      PROVE  AnswerFitsRequest
  <2>1. CASE at = PortalForm(to) /\ settings.login
    <3>1. Shown /\ at.to = "portal_form" /\ at.back = to
      BY <2>1 DEF PortalForm, Shown
    <3> QED BY <1>1, <2>1, <3>1 DEF AnswerFitsRequest
  <2>2. CASE at = Show(to)
    <3>1. Shown /\ at.to = to
      BY <2>2 DEF Show, Shown
    <3> QED BY <1>1, <3>1, TargetsApart DEF AnswerFitsRequest, OtherAnswers
  <2>3. CASE at.kind # "shown" /\ at.to = to
    BY <1>1, <2>3, TargetsApart DEF AnswerFitsRequest, OtherAnswers, Shown
  <2>4. at = GetHandover(to) \/ at = GetPortal(to) \/ at = Request(to, "GET")
          \/ at = Request(to, "POST") => at.kind # "shown" /\ at.to = to
    BY DEF GetHandover, GetPortal, Request
  <2> QED BY <1>1, <2>1, <2>2, <2>3, <2>4 DEF Leading
<1>2. CASE at = Show("unauthorized") /\ ~settings.login
  <2>1. Shown /\ at.to = "unauthorized"
    BY <1>2 DEF Show, Shown
  <2> QED BY <1>2, <2>1 DEF AnswerFitsRequest
<1>3. CASE at = Show("not_allowed") /\ PostOnly(Wanted)
  <2>1. Shown /\ at.to = "not_allowed"
    BY <1>3 DEF Show, Shown
  <2> QED BY <1>3, <2>1 DEF AnswerFitsRequest
<1>4. CASE at = Show("forbidden") /\ settings.mode # "dev-header"
  <2>1. Shown /\ at.to = "forbidden"
    BY <1>4 DEF Show, Shown
  <2> QED BY <1>4, <2>1 DEF AnswerFitsRequest
<1>5. CASE at = Show("bad_request") /\ settings.mode = "dev-header"
  <2>1. Shown /\ at.to = "bad_request"
    BY <1>5 DEF Show, Shown
  <2> QED BY <1>5, <2>1 DEF AnswerFitsRequest
<1> QED BY <1>1, <1>2, <1>3, <1>4, <1>5 DEF OnTheWay

\* Getting a target leads to it: as a request for a page or as an answer.
LEMMA GetLeads ==
  ASSUME NEW to \in Targets, at' = Get(to), OnTheWayTo(to)'
  PROVE  OnTheWay'
<1>1. Leading(to)'
  BY DEF Get, Leading, Show, Request
<1> QED BY <1>1 DEF OnTheWay, Targets

\* What a user asks for is a target once foreign hosts are taken out.
LEMMA SanitizedTarget ==
  ASSUME NEW raw \in Pages \cup Hosts, asked' = raw
  PROVE  /\ SanitizeReturnTo(raw, Pages) \in Targets
         /\ OnTheWayTo(SanitizeReturnTo(raw, Pages))'
<1>1. CASE raw \in Pages
  BY <1>1, PagesAreNoHosts DEF SanitizeReturnTo, Targets, OnTheWayTo, Wanted
<1>2. CASE raw \in Hosts
  <2>1. raw \notin Pages
    BY <1>2, PagesAreNoHosts
  <2> QED BY <1>2, <2>1 DEF SanitizeReturnTo, Targets, OnTheWayTo, Wanted, Pages
<1> QED BY <1>1, <1>2

\* A request is on the way to its target; an answer is no request.
LEMMA RequestLeads ==
  ASSUME OnTheWay, ~Shown
  PROVE  /\ at.to \in Targets /\ OnTheWayTo(at.to)
         /\ (at.kind = "page" => at.to \in Pages)
         /\ (at.kind = "portal" => settings.login)
<1>1. \A answer : at # Show(answer) /\ at # PortalForm(answer)
  BY DEF Show, PortalForm, Shown
<1>2. PICK to \in Targets : OnTheWayTo(to) /\ Leading(to)
  BY <1>1 DEF OnTheWay
<1>3. at.to = to
  BY <1>1, <1>2 DEF Leading, GetHandover, GetPortal, Request
<1>4. at.kind = "page" => to \in Pages
  BY <1>1, <1>2 DEF Leading, GetHandover, GetPortal
<1>5. at.kind = "portal" => settings.login
  BY <1>1, <1>2 DEF Leading, GetHandover, Request
<1> QED BY <1>2, <1>3, <1>4, <1>5

LEMMA WayStep ==
  ASSUME OnTheWay, [SignInNext]_signInVars
  PROVE  OnTheWay'
<1>1. ASSUME NEW page \in Pages, Visit(page)
      PROVE  OnTheWay'
  <2>1. asked' = page /\ (at' = Request(page, "GET") \/ at' = Request(page, "POST"))
    BY <1>1 DEF Visit
  <2>2. OnTheWayTo(page)'
    BY <2>1, PagesAreNoHosts DEF OnTheWayTo, Wanted
  <2>3. Leading(page)'
    BY <2>1 DEF Leading, Request
  <2> QED BY <2>2, <2>3 DEF OnTheWay, Targets
<1>2. ASSUME NEW raw \in Pages \cup Hosts, VisitHandover(raw)
      PROVE  OnTheWay'
  <2> DEFINE to == SanitizeReturnTo(raw, Pages)
  <2>1. asked' = raw /\ at' = GetHandover(to)
    BY <1>2 DEF VisitHandover
  <2>2. to \in Targets /\ OnTheWayTo(to)'
    BY <2>1, SanitizedTarget
  <2>3. Leading(to)'
    BY <2>1 DEF Leading, GetHandover
  <2> QED BY <2>2, <2>3 DEF OnTheWay, Targets
<1>3. ASSUME NEW raw \in Pages \cup Hosts, LogOut(raw)
      PROVE  OnTheWay'
  <2>1. asked' = raw /\ at' = Get(SanitizeReturnTo(raw, Pages))
    BY <1>3 DEF LogOut
  <2> QED BY <2>1, SanitizedTarget, GetLeads
<1>4. CASE LogInAtPortal
  <2>1. at.to = "portal_form" /\ at' = GetPortal(at.back) /\ asked' = asked
    BY <1>4 DEF LogInAtPortal
  <2>2. \A answer \in OtherAnswers \ {"portal_form"} : at # Show(answer)
    BY <2>1 DEF Show
  <2>3. PICK to \in Targets : OnTheWayTo(to) /\ Leading(to)
    BY <2>2 DEF OnTheWay, OtherAnswers
  <2>4. at.back = to
    BY <2>1, <2>3, TargetsApart DEF OtherAnswers, Leading, GetHandover, GetPortal, Request, Show, PortalForm
  <2>5. settings.login /\ settings' = settings
    BY <1>4, <2>1, <2>3, TargetsApart
    DEF OtherAnswers, LogInAtPortal, Leading, GetHandover, Request, Show, givenVars
  <2>6. Leading(to)'
    BY <2>1, <2>4, <2>5 DEF Leading, GetPortal
  <2> QED BY <2>1, <2>3, <2>6, StillOnTheWay DEF OnTheWay, Targets
<1>5. CASE ServePage
  <2>1. at.kind = "page" /\ asked' = asked
    BY <1>5 DEF ServePage
  <2> DEFINE page == at.to
  <2>2. page \in Pages /\ OnTheWayTo(page)
    BY <2>1, RequestLeads DEF Shown
  <2>3. CASE at' = GetHandover(page)
    BY <2>1, <2>2, <2>3, StillOnTheWay DEF OnTheWay, Leading, Targets
  <2>4. CASE ManagersOnly(page) /\ at' = Get(Fallback(page))
    <3>1. OnTheWayTo(Fallback(page)) /\ Fallback(page) \in Targets
      BY <2>2, <2>4 DEF OnTheWayTo, ManagersOnly, Fallback, Targets, Pages
    <3> QED BY <2>1, <2>4, <3>1, StillOnTheWay, GetLeads
  <2>5. CASE PostOnly(page) /\ at' = Show("not_allowed")
    <3>1. page = Wanted
      BY <2>2, <2>5 DEF OnTheWayTo, PostOnly, Fallback
    <3>2. PostOnly(Wanted)'
      BY <2>1, <2>5, <3>1 DEF Wanted
    <3> QED BY <2>5, <3>2 DEF OnTheWay, Show
  <2>6. CASE at' = Show(page)
    BY <2>1, <2>2, <2>6, StillOnTheWay DEF OnTheWay, Leading, Targets
  <2> QED BY <1>5, <2>3, <2>4, <2>5, <2>6 DEF ServePage, PageAnswer, LoginRedirect
<1>6. CASE ServeHandover
  <2>1. at.kind = "handover" /\ asked' = asked /\ settings' = settings
    BY <1>6 DEF ServeHandover, givenVars
  <2>2. PICK to \in Targets : to = at.to /\ OnTheWayTo(to)
    BY <2>1, RequestLeads DEF Shown
  <2>3. OnTheWayTo(to)'
    BY <2>1, <2>2, StillOnTheWay
  <2>4. CASE at' = Get(to)
    BY <2>3, <2>4, GetLeads
  <2>5. CASE settings.login /\ at' = GetPortal(to)
    BY <2>1, <2>3, <2>5 DEF OnTheWay, Leading, Targets
  <2>6. CASE ~settings.login /\ at' = Show("unauthorized")
    BY <2>1, <2>6 DEF OnTheWay, Show
  <2> QED BY <1>6, <2>2, <2>4, <2>5, <2>6 DEF ServeHandover, HandoverAnswer
<1>7. CASE ServePortal
  <2>1. at.kind = "portal" /\ asked' = asked /\ settings' = settings
    BY <1>7 DEF ServePortal, givenVars
  <2>2. PICK to \in Targets : to = at.to /\ OnTheWayTo(to)
    BY <2>1, RequestLeads DEF Shown
  <2>3. OnTheWayTo(to)'
    BY <2>1, <2>2, StillOnTheWay
  <2>4. CASE at' = Get(to)
    BY <2>3, <2>4, GetLeads
  <2>5. CASE at' = PortalForm(to)
    <3>1. settings.login
      BY <2>1, RequestLeads DEF Shown
    <3> QED BY <2>1, <2>3, <2>5, <3>1 DEF OnTheWay, Leading, Targets
  <2> QED BY <1>7, <2>2, <2>4, <2>5 DEF ServePortal, PortalAnswer
<1>8. CASE UNCHANGED <<settings, at, asked>>
  BY <1>8 DEF OnTheWay, Leading, OnTheWayTo, Wanted
<1>9. ASSUME NEW s \in Subjects, NEW raw \in Pages \cup Hosts, DemoSwitch(s, raw)
      PROVE  OnTheWay'
  <2>1. asked' = raw /\ settings' = settings /\ at' = SwitchAnswer(s, raw)
    BY <1>9 DEF DemoSwitch, givenVars
  <2>2. CASE at' = Get(SanitizeReturnTo(raw, Pages))
    BY <2>1, <2>2, SanitizedTarget, GetLeads
  <2>3. CASE settings.mode # "dev-header" /\ at' = Show("forbidden")
    BY <2>1, <2>3 DEF OnTheWay, Show
  <2>4. CASE settings.mode = "dev-header" /\ at' = Show("bad_request")
    BY <2>1, <2>4 DEF OnTheWay, Show
  <2> QED BY <2>1, <2>2, <2>3, <2>4 DEF SwitchAnswer
<1> QED
  BY <1>1, <1>2, <1>3, <1>4, <1>5, <1>6, <1>7, <1>8, <1>9
  DEF SignInNext, Follow, Lapse, ChangeClaims, SendHeaders, SwitchKeys, Seed, EditRoles,
      signInVars, givenVars

\* Whatever ends on the way, a browser is only ever led to what its user asked
\* for, and is told so if it cannot have it.
THEOREM AnswersFitRequests == SignInSpec => []AnswerFitsRequest
<1>1. SignInInit => OnTheWay
  BY PagesAreNoHosts
  DEF SignInInit, OnTheWay, OnTheWayTo, Wanted, Leading, Targets, Pages
<1>2. OnTheWay /\ [SignInNext]_signInVars => OnTheWay'
  BY WayStep
<1>3. OnTheWay => AnswerFitsRequest
  BY FitsFromWay
<1> QED BY <1>1, <1>2, <1>3, PTL DEF SignInSpec

\* A request is left only by the application's or the portal's answer, so the
\* fairness of SignInSpec is that of Follow.
LEMMA OnlyAnswersMove ==
  ASSUME OnTheWay, [SignInNext]_signInVars, ~Shown, at' # at
  PROVE  Follow /\ at' = Answer
<1>1. ~LogInAtPortal
  <2>1. at.to # "portal_form"
    BY RequestLeads, TargetsApart DEF OtherAnswers
  <2> QED BY <2>1 DEF LogInAtPortal
<1>2. Follow
  BY <1>1
  DEF SignInNext, Visit, VisitHandover, LogOut, DemoSwitch, Lapse, ChangeClaims, SendHeaders,
      SwitchKeys, Seed, EditRoles, signInVars
<1> QED BY <1>2 DEF Follow, ServePage, ServeHandover, ServePortal, Answer

-----------------------------------------------------------------------------
(* Counting the members of a set of places.                                 *)

Count(S, n) == Cardinality({ k \in S : k <= n })

LEMMA LeastPlace ==
  ASSUME NEW S, S \subseteq Nat, S # {}
  PROVE  \E m \in S : \A k \in S : m <= k
<1>1. \A x, y \in Nat : y < x => <<y, x>> \in OpToRel(<, Nat)
  BY DEF OpToRel
<1>2. PICK R : IsWellFoundedOn(R, Nat) /\ \A x, y \in Nat : y < x => <<y, x>> \in R
  BY <1>1, NatLessThanWellFounded
<1>3. PICK m \in S : \A y \in S : ~ (<<y, m>> \in R)
  BY <1>2, WFMin
<1>4. \A k \in S : ~(k < m)
  BY <1>2, <1>3
<1> QED BY <1>4

\* The first and the last of some places.
LEMMA Extremes ==
  ASSUME NEW N \in Nat, NEW S, S \subseteq 1..N, S # {}
  PROVE  \E a, b \in S : \A k \in S : a <= k /\ k <= b
<1>1. PICK a \in S : \A k \in S : a <= k
  <2>1. S \subseteq Nat
    OBVIOUS
  <2> QED BY <2>1, LeastPlace
<1>2. PICK c \in { N - k : k \in S } : \A d \in { N - k : k \in S } : c <= d
  <2>1. { N - k : k \in S } \subseteq Nat /\ { N - k : k \in S } # {}
    OBVIOUS
  <2> QED BY <2>1, LeastPlace
<1>3. PICK b \in S : c = N - b
  BY <1>2
<1>4. \A k \in S : N - b <= N - k
  BY <1>2, <1>3
<1>5. \A k \in S : k <= b
  BY <1>4
<1> QED BY <1>1, <1>5

ArePlaces(S) == \A k \in S : k \in Nat /\ 1 <= k

LEMMA FinitelyMany ==
  ASSUME NEW S, ArePlaces(S), NEW n \in Nat
  PROVE  IsFiniteSet({ k \in S : k <= n })
<1>1. \A k \in { k \in S : k <= n } : k \in 1..n
  BY DEF ArePlaces
<1>2. { k \in S : k <= n } \in SUBSET (1..n)
  BY <1>1
<1>3. IsFiniteSet(1..n)
  BY FS_Interval
<1> QED BY <1>2, <1>3, FS_Subset

LEMMA CountStep ==
  ASSUME NEW S, ArePlaces(S), NEW n \in Nat
  PROVE  /\ Count(S, n) \in Nat
         /\ Count(S, n + 1) = IF n + 1 \in S THEN Count(S, n) + 1 ELSE Count(S, n)
<1> DEFINE T == { k \in S : k <= n }
<1>1. IsFiniteSet(T)
  BY FinitelyMany
<1>2. \A k \in S : k <= n + 1 <=> k <= n \/ k = n + 1
  BY DEF ArePlaces
<1>3. { k \in S : k <= n + 1 } = IF n + 1 \in S THEN T \cup {n + 1} ELSE T
  BY <1>2
<1>4. n + 1 \notin T
  OBVIOUS
<1>5. Cardinality(T) \in Nat
  BY <1>1, FS_CardinalityType
<1>6. Cardinality(T \cup {n + 1}) = Cardinality(T) + 1
  BY <1>1, <1>4, FS_AddElement
<1> QED BY <1>3, <1>5, <1>6 DEF Count

\* Nothing is counted up to d if no place is that low.
LEMMA CountNone ==
  ASSUME NEW S, ArePlaces(S), NEW d \in Nat, \A k \in 1..d : k \notin S
  PROVE  Count(S, d) = 0
<1>1. \A k \in S : ~(k <= d)
  BY DEF ArePlaces
<1>2. { k \in S : k <= d } = {}
  BY <1>1
<1> QED BY <1>2, FS_EmptySet DEF Count

LEMMA CountMonotonic ==
  ASSUME NEW S, ArePlaces(S), NEW m \in Nat, NEW n \in Nat, m <= n
  PROVE  Count(S, m) <= Count(S, n)
<1>1. \A k \in S : k <= m => k <= n
  BY DEF ArePlaces
<1>2. { k \in S : k <= m } \in SUBSET { k \in S : k <= n }
  BY <1>1
<1> QED BY <1>2, FinitelyMany, FS_Subset DEF Count

\* Members are counted one by one.
LEMMA CountApart ==
  ASSUME NEW S, ArePlaces(S), NEW i \in Nat, NEW j \in S, i < j
  PROVE  Count(S, i) < Count(S, j)
<1>1. j - 1 \in Nat /\ i <= j - 1 /\ (j - 1) + 1 = j
  BY DEF ArePlaces
<1>2. Count(S, j) = Count(S, j - 1) + 1
  BY <1>1, CountStep
<1>3. Count(S, i) <= Count(S, j - 1)
  BY <1>1, CountMonotonic
<1>4. Count(S, i) \in Nat /\ Count(S, j - 1) \in Nat
  BY <1>1, CountStep
<1> QED BY <1>2, <1>3, <1>4

LEMMA CountUnique ==
  ASSUME NEW S, ArePlaces(S), NEW i \in S, NEW j \in S, Count(S, j) = Count(S, i)
  PROVE  j = i
<1>1. i \in Nat /\ j \in Nat
  BY DEF ArePlaces
<1>2. Count(S, i) \in Nat /\ Count(S, j) \in Nat
  BY <1>1, CountStep
<1>3. ~(i < j) /\ ~(j < i)
  BY <1>1, <1>2, CountApart
<1> QED BY <1>1, <1>3

LEMMA CountReached ==
  ASSUME NEW S, ArePlaces(S), NEW N \in Nat, NEW n \in 1..Count(S, N)
  PROVE  \E i \in S : i <= N /\ Count(S, i) = n
<1>1. Count(S, N) \in Nat /\ Count(S, 0) = 0
  BY CountStep, CountNone
<1>2. PICK i \in { k \in Nat : n <= Count(S, k) } : \A k \in { l \in Nat : n <= Count(S, l) } : i <= k
  <2>1. N \in { k \in Nat : n <= Count(S, k) }
    BY <1>1
  <2> QED BY <2>1, LeastPlace
<1>3. i \in Nat \ {0} /\ i <= N
  BY <1>1, <1>2
<1>4. i - 1 \in Nat /\ (i - 1) + 1 = i /\ ~(n <= Count(S, i - 1))
  BY <1>2, <1>3
<1>5. Count(S, i - 1) \in Nat
  BY <1>4, CountStep
<1>6. Count(S, i) = IF i \in S THEN Count(S, i - 1) + 1 ELSE Count(S, i - 1)
  BY <1>4, CountStep
<1> QED BY <1>2, <1>3, <1>4, <1>5, <1>6

\* Counting is not changed by moving the places.
Moved(S, T, d, n) ==
  /\ ArePlaces(S) /\ ArePlaces(T) /\ d \in Nat /\ n \in Nat
  /\ \A i \in 1..d : i \notin T
  /\ \A i \in 1..n : i \in S <=> i + d \in T

LEMMA CountMoved ==
  ASSUME NEW S, NEW T, NEW d, NEW n, Moved(S, T, d, n)
  PROVE  \A i \in 0..n : Count(S, i) = Count(T, i + d)
<1> USE DEF Moved
<1> DEFINE Wrong == { i \in 0..n : Count(S, i) # Count(T, i + d) }
<1> SUFFICES ASSUME Wrong # {} PROVE FALSE
  OBVIOUS
<1>1. PICK i \in Wrong : \A k \in Wrong : i <= k
  <2>1. Wrong \subseteq Nat
    OBVIOUS
  <2> QED BY <2>1, LeastPlace
<1>2. i # 0
  BY <1>1, CountNone
<1>3. i - 1 \in 0..n /\ i - 1 \in Nat /\ (i - 1) + 1 = i /\ (i - 1) + d \in Nat /\ ((i - 1) + d) + 1 = i + d
  BY <1>1, <1>2
<1>4. Count(S, i - 1) = Count(T, (i - 1) + d)
  BY <1>1, <1>3
<1>5. Count(S, i) = IF i \in S THEN Count(S, i - 1) + 1 ELSE Count(S, i - 1)
  BY <1>3, CountStep
<1>6. Count(T, i + d) = IF i + d \in T THEN Count(T, (i - 1) + d) + 1 ELSE Count(T, (i - 1) + d)
  BY <1>3, CountStep
<1>7. i \in S <=> i + d \in T
  BY <1>1, <1>2
<1> QED BY <1>1, <1>4, <1>5, <1>6, <1>7

-----------------------------------------------------------------------------
(* Role codes.                                                              *)

\* Of a text x whose characters are lower case: the letters, the letters with
\* which words start, and the characters that re.sub keeps or replaces.
LettersOf(x) == { i \in DOMAIN x : x[i] \in Letters }
StartsOf(x) == { i \in LettersOf(x) : i = 1 \/ i - 1 \notin LettersOf(x) }
KeptOf(x) == { i \in DOMAIN x : x[i] \in Letters \/ i = 1 \/ x[i - 1] \in Letters }

\* The place of letter i in the spelling, and the spelling.
Place(x, i) == Count(LettersOf(x), i) + Count(StartsOf(x), i) - 1
PlacesOf(x) == { Place(x, i) : i \in LettersOf(x) }
Spelled(x) ==
  [n \in 1..Max(PlacesOf(x) \cup {0}) |->
     IF n \in PlacesOf(x) THEN x[CHOOSE i \in LettersOf(x) : Place(x, i) = n] ELSE "-"]

LoweredText(text) == [i \in DOMAIN text |-> Lower(text[i])]

\* x has N characters.
Long(x, N) == N \in Nat /\ x = [i \in 1..N |-> x[i]]

LEMMA SpellingIsSpelled ==
  ASSUME NEW text
  PROVE  Spelling(text) = Spelled(LoweredText(text))
BY DEF Spelling, Spelled, LoweredText, LettersOf, StartsOf, PlacesOf, Place, Count

LEMMA HaveLetters ==
  ASSUME NEW N, NEW x, Long(x, N)
  PROVE  /\ DOMAIN x = 1..N
         /\ ArePlaces(LettersOf(x)) /\ ArePlaces(StartsOf(x)) /\ ArePlaces(KeptOf(x))
<1>1. DOMAIN x = 1..N
  BY DEF Long
<1>2. \A i \in 1..N : i \in Nat /\ 1 <= i
  BY DEF Long
<1> QED BY <1>1, <1>2 DEF LettersOf, StartsOf, KeptOf, ArePlaces

\* The first and the last letter of x.
LetterEnds(x, first, last) ==
  /\ first \in LettersOf(x) /\ last \in LettersOf(x)
  /\ \A i \in LettersOf(x) : first <= i /\ i <= last

LEMMA HaveEnds ==
  ASSUME NEW N, NEW x, Long(x, N), LettersOf(x) # {}
  PROVE  \E first, last : LetterEnds(x, first, last)
<1>1. LettersOf(x) \subseteq 1..N /\ N \in Nat
  BY DEF LettersOf, Long
<1>2. \E a, b \in LettersOf(x) : \A k \in LettersOf(x) : a <= k /\ k <= b
  BY <1>1, Extremes
<1> QED BY <1>2 DEF LetterEnds

\* Letters have places of their own, in their order, the first one place 1.
LEMMA PlacesApart ==
  ASSUME NEW N, NEW x, Long(x, N), NEW first, NEW last, LetterEnds(x, first, last)
  PROVE  /\ Place(x, first) = 1
         /\ \A i \in 1..N : Place(x, i) \in Int
         /\ \A i, j \in LettersOf(x) : i < j => Place(x, i) < Place(x, j)
<1> DEFINE L == LettersOf(x)
           S == StartsOf(x)
<1>1. ArePlaces(L) /\ ArePlaces(S) /\ \A i \in L : i \in 1..N /\ i \in Nat
  <2>1. \A i \in 1..N : i \in Nat
    BY DEF Long
  <2> QED BY <2>1, HaveLetters DEF LettersOf
<1>2. \A i \in 1..N : Count(L, i) \in Nat /\ Count(S, i) \in Nat
  BY <1>1, CountStep DEF Long
<1>3. \A i, j \in L : i < j => Count(L, i) < Count(L, j) /\ Count(S, i) <= Count(S, j)
  BY <1>1, CountApart, CountMonotonic
<1>4. first \in Nat /\ first - 1 \in Nat /\ (first - 1) + 1 = first
  BY <1>1 DEF LetterEnds
<1>5. \A k \in 1..(first - 1) : k \notin L /\ k \notin S
  BY <1>4 DEF LetterEnds, StartsOf
<1>6. Count(L, first - 1) = 0 /\ Count(S, first - 1) = 0
  BY <1>1, <1>4, <1>5, CountNone
<1>7. first \in L /\ first \in S
  <2>1. first - 1 \notin L
    BY <1>1, <1>4 DEF LetterEnds
  <2> QED BY <2>1 DEF LetterEnds, StartsOf
<1>8. Count(L, first) = 1
  BY <1>1, <1>4, <1>6, <1>7, CountStep
<1>9. Count(S, first) = 1
  BY <1>1, <1>4, <1>6, <1>7, CountStep
<1>10. Place(x, first) = 1
  BY <1>8, <1>9 DEF Place
<1>11. \A i \in 1..N : Place(x, i) \in Int
  BY <1>2 DEF Place
<1>12. \A i, j \in L : i < j => Place(x, i) < Place(x, j)
  BY <1>1, <1>2, <1>3 DEF Place
<1> QED BY <1>10, <1>11, <1>12

\* z has the letters of x at their places, and hyphens between the words.
IsSpelled(z, x, last) ==
  /\ z = [n \in 1..Place(x, last) |-> z[n]]
  /\ \A i \in LettersOf(x) : Place(x, i) \in 1..Place(x, last) /\ z[Place(x, i)] = x[i]
  /\ \A n \in (1..Place(x, last)) \ PlacesOf(x) : z[n] = "-"

LEMMA SpelledOnce ==
  ASSUME NEW x, NEW last, NEW y, NEW z, IsSpelled(y, x, last), IsSpelled(z, x, last)
  PROVE  y = z
<1>1. \A n \in 1..Place(x, last) : y[n] = z[n]
  BY DEF IsSpelled, PlacesOf
<1> QED BY <1>1 DEF IsSpelled

LEMMA SpelledIsSpelled ==
  ASSUME NEW N, NEW x, Long(x, N), NEW first, NEW last, LetterEnds(x, first, last)
  PROVE  IsSpelled(Spelled(x), x, last)
<1>1. \A i \in LettersOf(x) : i \in 1..N /\ Place(x, i) \in Int
  BY PlacesApart DEF LettersOf, Long
<1>2. ASSUME NEW i \in LettersOf(x)
      PROVE  1 <= Place(x, i) /\ Place(x, i) <= Place(x, last)
  <2>1. first \in Nat /\ i \in Nat /\ last \in Nat /\ first <= i /\ i <= last
    BY <1>1, <1>2 DEF LetterEnds, Long
  <2>2. first \in LettersOf(x) /\ last \in LettersOf(x) /\ Place(x, first) = 1
    BY PlacesApart DEF LetterEnds
  <2>3. first < i => Place(x, first) < Place(x, i)
    BY <1>2, <2>2, PlacesApart
  <2>4. i < last => Place(x, i) < Place(x, last)
    BY <1>2, <2>2, PlacesApart
  <2>5. Place(x, i) \in Int /\ Place(x, last) \in Int
    BY <1>1, <1>2, <2>2
  <2>6. 1 <= Place(x, i)
    BY <2>1, <2>2, <2>3, <2>5
  <2>7. Place(x, i) <= Place(x, last)
    BY <2>1, <2>4, <2>5
  <2> QED BY <2>6, <2>7
<1>3. Max(PlacesOf(x) \cup {0}) = Place(x, last)
  <2> DEFINE m == Place(x, last)
  <2>1. m \in PlacesOf(x) /\ \A n \in PlacesOf(x) \cup {0} : n \in Int /\ m >= n
    BY <1>1, <1>2 DEF LetterEnds, PlacesOf
  <2> QED BY <2>1 DEF Max
<1>4. \A i \in LettersOf(x) : (CHOOSE j \in LettersOf(x) : Place(x, j) = Place(x, i)) = i
  <2>1. \A i, j \in LettersOf(x) : Place(x, j) = Place(x, i) => j = i
    BY <1>1, PlacesApart
  <2> QED BY <2>1
<1>5. \A i \in LettersOf(x) : Place(x, i) \in 1..Place(x, last) /\ Place(x, i) \in PlacesOf(x)
  BY <1>1, <1>2 DEF PlacesOf, LetterEnds
<1>6. Spelled(x) = [n \in 1..Place(x, last) |->
                      IF n \in PlacesOf(x) THEN x[CHOOSE i \in LettersOf(x) : Place(x, i) = n]
                                           ELSE "-"]
  BY <1>3 DEF Spelled
<1>7. \A i \in LettersOf(x) : Spelled(x)[Place(x, i)] = x[i]
  BY <1>4, <1>5, <1>6, Zenon
<1>8. \A n \in (1..Place(x, last)) \ PlacesOf(x) : Spelled(x)[n] = "-"
  BY <1>6
<1>9. Spelled(x) = [n \in 1..Place(x, last) |-> Spelled(x)[n]]
  BY <1>6
<1> QED BY <1>5, <1>7, <1>8, <1>9 DEF IsSpelled

\* Elements keep their order.
LEMMA Picked ==
  ASSUME NEW N \in Nat, NEW x, NEW P, ArePlaces(P), \A k \in P : k <= N
  PROVE  /\ AtPlaces(x, P) = [n \in 1..Count(P, N) |-> AtPlaces(x, P)[n]]
         /\ Count(P, N) \in Nat
         /\ \A i \in P : Count(P, i) \in 1..Count(P, N) /\ AtPlaces(x, P)[Count(P, i)] = x[i]
<1>1. { k \in P : k <= N } = P
  OBVIOUS
<1>2. AtPlaces(x, P) = [n \in 1..Count(P, N) |-> x[CHOOSE i \in P : Count(P, i) = n]]
  BY <1>1 DEF AtPlaces, Count
<1>3. Count(P, N) \in Nat
  BY CountStep
<1>4. ASSUME NEW i \in P
      PROVE  Count(P, i) \in 1..Count(P, N)
  <2>1. i \in Nat /\ i <= N /\ 0 < i
    BY DEF ArePlaces
  <2>2. Count(P, i) \in Nat /\ Count(P, 0) \in Nat
    BY <2>1, CountStep
  <2>3. Count(P, 0) < Count(P, i)
    BY <2>1, CountApart
  <2>4. Count(P, i) <= Count(P, N)
    BY <2>1, CountMonotonic
  <2> QED BY <1>3, <2>2, <2>3, <2>4
<1>5. \A i \in P : (CHOOSE j \in P : Count(P, j) = Count(P, i)) = i
  BY CountUnique
<1>6. ASSUME NEW i \in P
      PROVE  AtPlaces(x, P)[Count(P, i)] = x[i]
  <2>1. AtPlaces(x, P)[Count(P, i)] = x[CHOOSE j \in P : Count(P, j) = Count(P, i)]
    BY <1>2, <1>4, Zenon
  <2> QED BY <1>5, <2>1, Zenon
<1>7. AtPlaces(x, P) = [n \in 1..Count(P, N) |-> AtPlaces(x, P)[n]]
  BY <1>2
<1> QED BY <1>3, <1>4, <1>6, <1>7

\* Nothing is left, or what is between the first and the last other character.
LEMMA StripNothing ==
  ASSUME NEW N, NEW y, Long(y, N), NEW c, \A i \in 1..N : y[i] = c
  PROVE  StripOf(y, c) = <<>>
<1>1. DOMAIN y = 1..N
  BY DEF Long
<1>2. { i \in DOMAIN y : y[i] # c } = {}
  BY <1>1
<1> QED BY <1>2 DEF StripOf

Between(z, y, a, b) ==
  z = [n \in 1..(b - a + 1) |-> z[n]] /\ \A n \in 1..(b - a + 1) : z[n] = y[n + a - 1]

LEMMA StripBetween ==
  ASSUME NEW N, NEW y, Long(y, N), NEW c, NEW a \in 1..N, NEW b \in 1..N, y[a] # c, y[b] # c,
         \A i \in 1..N : y[i] # c => a <= i /\ i <= b
  PROVE  Between(StripOf(y, c), y, a, b)
<1> DEFINE kept == { i \in DOMAIN y : y[i] # c }
           S == { y[i] : i \in 1..N }
<1>1. DOMAIN y = 1..N /\ N \in Nat
  BY DEF Long
<1>2. a \in kept /\ b \in kept /\ \A i \in kept : i \in Int /\ a <= i /\ i <= b
  BY <1>1
<1>3. Min(kept) = a /\ Max(kept) = b
  <2>1. \A k \in kept : (\A i \in kept : k =< i) => k = a
    BY <1>2
  <2>2. \A k \in kept : (\A i \in kept : k >= i) => k = b
    BY <1>2
  <2>3. (\A i \in kept : a =< i) /\ (\A i \in kept : b >= i)
    BY <1>2
  <2> HIDE DEF kept
  <2>4. Min(kept) = a
    BY <1>2, <2>1, <2>3 DEF Min
  <2>5. Max(kept) = b
    BY <1>2, <2>2, <2>3 DEF Max
  <2> QED BY <2>4, <2>5
<1>4. StripOf(y, c) = SubSeq(y, a, b)
  BY <1>2, <1>3 DEF StripOf
<1>5. a \in Int /\ b \in Int /\ a <= b /\ \A i \in a..b : y[i] \in S
  BY <1>1, <1>2
<1> HIDE DEF S
<1>6. /\ SubSeq(y, a, b) \in Seq(S)
      /\ Len(SubSeq(y, a, b)) = b - a + 1
      /\ \A n \in 1..(b - a + 1) : SubSeq(y, a, b)[n] = y[a + n - 1]
  BY <1>5, SubSeqProperties
<1>7. SubSeq(y, a, b) = [n \in 1..(b - a + 1) |-> SubSeq(y, a, b)[n]]
  BY <1>6
<1>8. \A n \in 1..(b - a + 1) : SubSeq(y, a, b)[n] = y[n + a - 1]
  BY <1>5, <1>6
<1> QED BY <1>4, <1>7, <1>8 DEF Between

\* A letter is as far from the first one in the hyphenated text as in the
\* spelling; of the characters between two words only the first is kept.
LEMMA RanksArePlaces ==
  ASSUME NEW N, NEW x, Long(x, N), NEW first, NEW last, LetterEnds(x, first, last),
         NEW i \in LettersOf(x)
  PROVE  Count(KeptOf(x), i) - Count(KeptOf(x), first) + 1 = Place(x, i)
<1> DEFINE L == LettersOf(x)
           S == StartsOf(x)
           K == KeptOf(x)
           Right(k) == Count(K, k) - Count(K, first) + 1 = IF k \in L THEN Place(x, k) ELSE Place(x, k) + 1
           Wrong == { k \in first..N : ~Right(k) }
<1>1. ArePlaces(L) /\ ArePlaces(S) /\ ArePlaces(K) /\ DOMAIN x = 1..N /\ N \in Nat
  BY HaveLetters DEF Long
<1>2. first \in 1..N /\ first \in L
  BY <1>1 DEF LetterEnds, LettersOf
<1>3. \A k \in 1..N : Count(L, k) \in Nat /\ Count(S, k) \in Nat /\ Count(K, k) \in Nat
  <2>1. \A k \in 1..N : k \in Nat
    BY <1>1
  <2> HIDE DEF L, S, K
  <2> QED BY <1>1, <2>1, CountStep
<1>4. Right(first)
  BY <1>2, <1>3, PlacesApart
<1>5. ASSUME NEW k \in first..N, k # first, Right(k - 1)
      PROVE  Right(k)
  <2>1. k - 1 \in Nat /\ k - 1 \in 1..N /\ k \in 1..N /\ (k - 1) + 1 = k /\ k # 1
    BY <1>1, <1>2, <1>5
  <2>2. k \in K <=> k \in L \/ k - 1 \in L
    BY <1>1, <2>1 DEF KeptOf, LettersOf
  <2>3. k \in S <=> k \in L /\ k - 1 \notin L
    BY <2>1 DEF StartsOf
  <2> DEFINE Steps(T) == Count(T, k) = IF k \in T THEN Count(T, k - 1) + 1 ELSE Count(T, k - 1)
  <2>4. ASSUME NEW T, ArePlaces(T) PROVE Steps(T)
    <3>1. PICK m \in Nat : m = k - 1 /\ m + 1 = k
      BY <2>1
    <3>2. Count(T, m + 1) = IF m + 1 \in T THEN Count(T, m) + 1 ELSE Count(T, m)
      BY <2>4, CountStep
    <3> QED BY <3>1, <3>2
  <2>5. Steps(L) /\ Steps(S) /\ Steps(K)
    BY <1>1, <2>4
  <2>7. Place(x, k) = Count(L, k) + Count(S, k) - 1 /\ Place(x, k - 1) = Count(L, k - 1) + Count(S, k - 1) - 1
    BY DEF Place
  <2>8. /\ Count(L, k - 1) \in Nat /\ Count(S, k - 1) \in Nat /\ Count(K, k - 1) \in Nat
        /\ Count(K, first) \in Nat
    BY <1>2, <1>3, <2>1
  <2> HIDE DEF L, S, K
  <2> QED BY <1>5, <2>2, <2>3, <2>5, <2>7, <2>8
<1>6. Wrong = {}
  <2> SUFFICES ASSUME Wrong # {} PROVE FALSE
    OBVIOUS
  <2>1. \A k \in first..N : k \in Nat
    BY <1>1, <1>2
  <2>2. PICK k \in Wrong : \A l \in Wrong : k <= l
    BY <2>1, LeastPlace
  <2>3. k # first /\ k \in first..N /\ ~Right(k)
    BY <1>4, <2>2
  <2>4. k - 1 \in first..N /\ ~(k <= k - 1)
    BY <1>1, <1>2, <2>3
  <2>5. Right(k - 1)
    BY <2>2, <2>4
  <2> QED BY <1>5, <2>3, <2>5
<1>7. i \in first..N
  BY <1>1, <1>2 DEF LetterEnds, LettersOf
<1> QED BY <1>6, <1>7

\* What re.sub leaves of x.
LEMMA HyphenatedRuns ==
  ASSUME NEW N, NEW x, Long(x, N)
  PROVE  /\ Long(HyphenateRuns(x), Count(KeptOf(x), N))
         /\ \A i \in KeptOf(x) : /\ Count(KeptOf(x), i) \in 1..Count(KeptOf(x), N)
                                /\ HyphenateRuns(x)[Count(KeptOf(x), i)]
                                     = IF i \in LettersOf(x) THEN x[i] ELSE "-"
         /\ \A n \in 1..Count(KeptOf(x), N) :
              \E i \in KeptOf(x) : Count(KeptOf(x), i) = n
<1> DEFINE h == HyphenEach(x)
           K == KeptOf(x)
           y == AtPlaces(h, K)
<1>1. N \in Nat /\ DOMAIN x = 1..N /\ ArePlaces(K) /\ \A i \in K : i \in 1..N /\ i <= N
  <2>1. \A i \in 1..N : i <= N
    BY DEF Long
  <2> QED BY <2>1, HaveLetters DEF Long, KeptOf
<1>2. HyphenateRuns(x) = y
  BY DEF HyphenateRuns, KeptOf
<1>3. \A i \in K : h[i] = IF i \in LettersOf(x) THEN x[i] ELSE "-"
  BY <1>1 DEF HyphenEach, LettersOf
<1> HIDE DEF h, K
<1>4. /\ y = [n \in 1..Count(K, N) |-> y[n]]
      /\ Count(K, N) \in Nat
      /\ \A i \in K : Count(K, i) \in 1..Count(K, N) /\ y[Count(K, i)] = h[i]
  BY <1>1, Picked
<1>5. \A n \in 1..Count(K, N) : \E i \in K : Count(K, i) = n
  BY <1>1, CountReached
<1> HIDE DEF y
<1>6. Long(y, Count(K, N))
  BY <1>4 DEF Long
<1> QED BY <1>2, <1>3, <1>4, <1>5, <1>6 DEF K

LEMMA NoLetters ==
  ASSUME NEW x, LettersOf(x) = {}
  PROVE  Spelled(x) = <<>>
<1>1. PlacesOf(x) = {}
  BY DEF PlacesOf
<1>2. Max({0}) = 0
  BY DEF Max
<1> QED BY <1>1, <1>2 DEF Spelled

\* Stripping the hyphens at the ends leaves the spelling.
LEMMA StrippedIsSpelled ==
  ASSUME NEW N, NEW x, Long(x, N)
  PROVE  StripOf(HyphenateRuns(x), "-") = Spelled(x)
<1> DEFINE L == LettersOf(x)
           K == KeptOf(x)
           M == Count(K, N)
<1>1. PICK y : /\ y = HyphenateRuns(x) /\ Long(y, M)
               /\ \A i \in K : Count(K, i) \in 1..M
                              /\ y[Count(K, i)] = IF i \in L THEN x[i] ELSE "-"
               /\ \A n \in 1..M : \E i \in K : Count(K, i) = n
  BY HyphenatedRuns
<1>2. L \subseteq K /\ \A i \in L : x[i] # "-"
  BY DEF LettersOf, KeptOf, Letters
<1>3. CASE L = {}
  <2>1. \A n \in 1..M : y[n] = "-"
    BY <1>1, <1>3
  <2>2. StripOf(y, "-") = <<>>
    BY <1>1, <2>1, StripNothing
  <2> QED BY <1>1, <1>3, <2>2, NoLetters
<1>4. CASE L # {}
  <2>1. PICK first, last : LetterEnds(x, first, last)
    BY <1>4, HaveEnds
  <2> DEFINE a == Count(K, first)
             b == Count(K, last)
  <2>2. first \in L /\ last \in L /\ \A i \in L : first <= i /\ i <= last
    BY <2>1 DEF LetterEnds
  <2>3. ArePlaces(K) /\ \A i \in K : i \in Nat
    BY HaveLetters DEF ArePlaces
  <2>4. a \in 1..M /\ b \in 1..M /\ y[a] # "-" /\ y[b] # "-"
    BY <1>1, <1>2, <2>2
  <2>5. \A i \in L : a <= Count(K, i) /\ Count(K, i) <= b
    BY <1>2, <2>2, <2>3, CountMonotonic
  <2>6. \A n \in 1..M : y[n] # "-" => a <= n /\ n <= b
    BY <1>1, <2>5
  <2>7. PICK z : z = StripOf(y, "-") /\ Between(z, y, a, b)
    <3>1. Long(y, M)
      BY <1>1
    <3> HIDE DEF M, a, b
    <3> QED BY <2>4, <2>6, <3>1, StripBetween
  <2>8. z = [n \in 1..(b - a + 1) |-> z[n]] /\ \A n \in 1..(b - a + 1) : z[n] = y[n + a - 1]
    BY <2>7 DEF Between
  <2>9. \A i \in L : Count(K, i) - a + 1 = Place(x, i)
    BY <2>1, RanksArePlaces
  <2>10. M \in Nat /\ \A n \in 1..M : n \in Nat
    BY <1>1 DEF Long
  <2>11. b - a + 1 = Place(x, last) /\ z = [n \in 1..Place(x, last) |-> z[n]]
    BY <2>2, <2>8, <2>9
  <2>12. ASSUME NEW i \in L
         PROVE  Place(x, i) \in 1..Place(x, last) /\ z[Place(x, i)] = x[i]
    <3> DEFINE n == Count(K, i)
    <3>1. n \in 1..M /\ y[n] = x[i] /\ a <= n /\ n <= b /\ Place(x, i) = n - a + 1
      BY <1>1, <1>2, <2>5, <2>9
    <3> HIDE DEF n
    <3>2. Place(x, i) \in 1..(b - a + 1) /\ Place(x, i) + a - 1 = n
      BY <2>4, <2>10, <3>1
    <3>3. z[Place(x, i)] = y[Place(x, i) + a - 1]
      BY <2>8, <3>2
    <3> QED BY <2>11, <3>1, <3>2, <3>3
  <2>13. ASSUME NEW n \in 1..Place(x, last), n \notin PlacesOf(x)
         PROVE  z[n] = "-"
    <3>1. n + a - 1 \in 1..M /\ ((n + a - 1) - a) + 1 = n /\ z[n] = y[n + a - 1]
      BY <2>4, <2>8, <2>10, <2>11
    <3>2. PICK i \in K : Count(K, i) = n + a - 1
      BY <1>1, <3>1
    <3>3. i \notin L
      <4> SUFFICES ASSUME i \in L PROVE FALSE
      OBVIOUS
    <4>1. Place(x, i) = Count(K, i) - a + 1
      BY <2>9
    <4>2. Place(x, i) = ((n + a - 1) - a) + 1
      BY <3>2, <4>1
    <4>3. Place(x, i) = n
      BY <3>1, <4>2
    <4> QED BY <2>13, <4>3 DEF PlacesOf
    <3> QED BY <1>1, <3>1, <3>2, <3>3
  <2>14. IsSpelled(z, x, last)
    BY <2>11, <2>12, <2>13 DEF IsSpelled
  <2>15. IsSpelled(Spelled(x), x, last)
    BY <2>1, SpelledIsSpelled
  <2> QED BY <1>1, <2>7, <2>14, <2>15, SpelledOnce
<1> QED BY <1>3, <1>4

\* u is what x has from place d + 1 on, and has all its letters.
Inside(u, W, x, N, d) ==
  /\ Long(u, W) /\ Long(x, N) /\ d \in Nat /\ W + d <= N
  /\ \A i \in 1..W : u[i] = x[i + d]
  /\ \A i \in LettersOf(x) : d < i /\ i <= W + d

\* A text is spelled like the part of it that has the letters.
LEMMA SpelledInside ==
  ASSUME NEW u, NEW W, NEW x, NEW N, NEW d, Inside(u, W, x, N, d)
  PROVE  Spelled(u) = Spelled(x)
<1> DEFINE Lu == LettersOf(u)
           Lx == LettersOf(x)
           Su == StartsOf(u)
           Sx == StartsOf(x)
<1>1. /\ Long(u, W) /\ Long(x, N) /\ W \in Nat /\ N \in Nat /\ d \in Nat
      /\ DOMAIN u = 1..W /\ DOMAIN x = 1..N
      /\ ArePlaces(Lu) /\ ArePlaces(Su) /\ ArePlaces(Lx) /\ ArePlaces(Sx)
  BY HaveLetters DEF Inside, Long
<1>2. \A i \in 1..W : i + d \in 1..N /\ u[i] = x[i + d]
  BY <1>1 DEF Inside
<1>3. \A i \in 1..W : i \in Lu <=> i + d \in Lx
  BY <1>1, <1>2 DEF LettersOf
<1>4. \A i \in Lx : i \in 1..N /\ i - d \in 1..W /\ (i - d) + d = i /\ i - d \in Lu
  <2>1. \A i \in Lx : i \in 1..N /\ i - d \in 1..W /\ (i - d) + d = i
    BY <1>1 DEF Inside, LettersOf
  <2> QED BY <1>3, <2>1
<1>5. \A i \in 1..d : i \notin Lx /\ i \notin Sx
  BY <1>1 DEF Inside, StartsOf
<1>6. ASSUME NEW i \in 1..W
      PROVE  i \in Su <=> i + d \in Sx
  <2>1. i = 1 /\ i \in Lu => i \in Su
    BY DEF StartsOf
  <2>2. i = 1 /\ i + d \in Lx => i + d \in Sx
    <3>1. i = 1 => (i + d = 1) \/ ((i + d) - 1 = d /\ d \in 1..d)
      BY <1>1
    <3> QED BY <1>5, <3>1 DEF StartsOf
  <2>3. i # 1 => i - 1 \in 1..W /\ (i - 1) + d = (i + d) - 1 /\ i + d # 1
    BY <1>1
  <2>4. i # 1 => (i - 1 \in Lu <=> (i + d) - 1 \in Lx)
    BY <1>3, <2>3
  <2>5. i # 1 => (i \in Su <=> i + d \in Sx)
    BY <1>3, <2>3, <2>4 DEF StartsOf
  <2>6. (i \in Su => i \in Lu) /\ (i + d \in Sx => i + d \in Lx)
    BY DEF StartsOf
  <2> QED BY <1>3, <2>1, <2>2, <2>5, <2>6
<1>7. \A i \in 0..W : Count(Lu, i) = Count(Lx, i + d)
  <2>1. Moved(Lu, Lx, d, W)
    BY <1>1, <1>3, <1>5 DEF Moved
  <2> QED BY <2>1, CountMoved
<1>8. \A i \in 0..W : Count(Su, i) = Count(Sx, i + d)
  <2>1. Moved(Su, Sx, d, W)
    BY <1>1, <1>5, <1>6 DEF Moved
  <2> QED BY <2>1, CountMoved
<1>9. \A i \in 1..W : Place(u, i) = Place(x, i + d)
  BY <1>7, <1>8 DEF Place
<1>10. CASE Lx = {}
  <2>1. Lu = {}
    BY <1>1, <1>3, <1>10 DEF LettersOf
  <2> QED BY <1>10, <2>1, NoLetters
<1>11. CASE Lx # {}
  <2>1. PICK first, last : LetterEnds(x, first, last)
    BY <1>1, <1>11, HaveEnds
  <2>2. first \in Lx /\ last \in Lx /\ \A i \in Lx : first <= i /\ i <= last
    BY <2>1 DEF LetterEnds
  <2>3. PICK f, l : f = first - d /\ l = last - d
    OBVIOUS
  <2>4. f \in Lu /\ l \in Lu /\ l \in 1..W /\ l + d = last
    BY <1>4, <2>2, <2>3
  <2>5. \A i \in Lu : f <= i /\ i <= l
    <3>1. \A i \in Lu : i \in 1..W /\ i + d \in Lx
      BY <1>1, <1>3 DEF LettersOf
    <3>2. first \in 1..N /\ last \in 1..N
      BY <1>4, <2>2
    <3> QED BY <1>1, <2>2, <2>3, <3>1, <3>2
  <2>6. LetterEnds(u, f, l)
    BY <2>4, <2>5 DEF LetterEnds
  <2>7. PICK z : z = Spelled(u) /\ IsSpelled(z, u, l)
    BY <1>1, <2>6, SpelledIsSpelled
  <2>8. Place(x, last) = Place(u, l)
    BY <1>9, <2>4
  <2>9. \A i \in Lx : i - d \in Lu /\ Place(x, i) = Place(u, i - d) /\ x[i] = u[i - d]
    BY <1>2, <1>4, <1>9
  <2>10. \A i \in Lx : Place(x, i) \in 1..Place(x, last) /\ z[Place(x, i)] = x[i]
    BY <2>7, <2>8, <2>9 DEF IsSpelled
  <2>11. \A n \in PlacesOf(u) : n \in PlacesOf(x)
    <3>1. \A i \in Lu : i \in 1..W /\ i + d \in Lx /\ Place(u, i) = Place(x, i + d)
      BY <1>1, <1>3, <1>9 DEF LettersOf
    <3> QED BY <3>1 DEF PlacesOf
  <2>12. \A n \in (1..Place(x, last)) \ PlacesOf(x) : z[n] = "-"
    BY <2>7, <2>8, <2>11 DEF IsSpelled
  <2>13. z = [n \in 1..Place(x, last) |-> z[n]]
    BY <2>7, <2>8 DEF IsSpelled
  <2>14. IsSpelled(z, x, last)
    BY <2>10, <2>12, <2>13 DEF IsSpelled
  <2> QED BY <1>1, <2>1, <2>7, <2>14, SpelledIsSpelled, SpelledOnce
<1> QED BY <1>10, <1>11

\* The role code of every text is its spelling, cut to MaxCode: no blanks at the
\* ends, runs of separators or capitals make another one (normalize_role_code).
THEOREM RoleCodesAsSpelled ==
  ASSUME NEW N, NEW text, Long(text, N)
  PROVE  NormalizeRoleCode(text) = Cut(Spelling(text))
<1> DEFINE x == LoweredText(text)
           s == StripOf(text, " ")
           u == LoweredText(s)
           Inner == { i \in 1..N : text[i] # " " }
<1>1. N \in Nat /\ DOMAIN text = 1..N
  BY DEF Long
<1>2. Long(x, N) /\ \A i \in 1..N : x[i] = Lower(text[i])
  BY <1>1 DEF Long, LoweredText
<1>3. \A i \in LettersOf(x) : i \in Inner
  BY <1>1, <1>2 DEF LettersOf, LoweredText, Lower, Letters
<1>4. \E W, d : Inside(u, W, x, N, d)
  <2>1. CASE Inner = {}
    <3>1. s = <<>>
      BY <1>1, <2>1, StripNothing
    <3> HIDE DEF s
    <3>2. DOMAIN s = 1..0
      BY <3>1
    <3>3. Long(u, 0)
      BY <3>2 DEF LoweredText, Long
    <3>4. \A i \in LettersOf(x) : FALSE
      BY <1>3, <2>1
    <3> HIDE DEF x, u
    <3>5. Inside(u, 0, x, N, 0)
      BY <1>1, <1>2, <3>3, <3>4 DEF Inside
    <3> QED BY <3>5
  <2>2. CASE Inner # {}
    <3>1. PICK a, b : a \in Inner /\ b \in Inner /\ \A k \in Inner : a <= k /\ k <= b
      <4>1. Inner \subseteq 1..N
        OBVIOUS
      <4> QED BY <1>1, <2>2, <4>1, Extremes
    <3>2. a \in 1..N /\ b \in 1..N /\ a <= b
      BY <3>1
    <3>3. Between(s, text, a, b)
      <4>1. text[a] # " " /\ text[b] # " " /\ \A i \in 1..N : text[i] # " " => a <= i /\ i <= b
        BY <3>1
      <4> QED BY <3>2, <4>1, StripBetween
    <3>4. PICK W, d : W = b - a + 1 /\ d = a - 1
      OBVIOUS
    <3>5. DOMAIN s = 1..W /\ \A i \in 1..W : s[i] = text[i + d]
      BY <3>3, <3>4 DEF Between
    <3>6. W \in Nat /\ d \in Nat /\ W + d = b /\ W + d <= N
      <4>1. a \in Int /\ b \in Int /\ 1 <= a /\ a <= b /\ b <= N
        BY <1>1, <3>2
      <4> QED BY <3>4, <4>1
    <3>9. \A i \in 1..W : i + d \in 1..N
      BY <1>1, <3>6
    <3>10. \A i \in LettersOf(x) : d < i /\ i <= W + d
      <4>1. \A i \in LettersOf(x) : i \in 1..N /\ a <= i /\ i <= b
        BY <1>3, <3>1
      <4> HIDE DEF x
      <4> QED BY <1>1, <3>2, <3>4, <3>6, <4>1
    <3> HIDE DEF s
    <3>7. Long(u, W) /\ \A i \in 1..W : u[i] = Lower(text[i + d])
      BY <3>5, <3>6 DEF LoweredText, Long
    <3> HIDE DEF x, u
    <3>8. Inside(u, W, x, N, d)
      BY <1>2, <3>6, <3>7, <3>9, <3>10 DEF Inside
    <3> QED BY <3>8
  <2> QED BY <2>1, <2>2
<1>5. PICK W, d : Inside(u, W, x, N, d)
  BY <1>4
<1>6. StripOf(HyphenateRuns(u), "-") = Spelled(u)
  BY <1>5, StrippedIsSpelled DEF Inside
<1>7. Spelled(u) = Spelled(x)
  BY <1>5, SpelledInside
<1>8. NormalizeRoleCode(text) = Cut(StripOf(HyphenateRuns(u), "-"))
  BY DEF NormalizeRoleCode, LoweredText
<1> QED BY <1>6, <1>7, <1>8, SpellingIsSpelled

\* The reference holds for texts of any length, whatever MaxText is.
THEOREM RoleCodesAlwaysMeetReference == SignInSpec => []RoleCodesMeetReference
<1>1. RoleCodesMeetReference
  <2> SUFFICES ASSUME NEW n \in 0..MaxText, NEW text \in [1..n -> Characters]
               PROVE  NormalizeRoleCode(text) = Cut(Spelling(text))
    BY DEF RoleCodesMeetReference
  <2>1. Long(text, n)
    BY SignInAssumption DEF Long
  <2> QED BY <2>1, RoleCodesAsSpelled
<1> QED BY <1>1, PTL

-----------------------------------------------------------------------------
(* The account's roles, and the types.                                      *)

LEMMA SpelledIsLong ==
  ASSUME NEW N, NEW x, Long(x, N)
  PROVE  \E M : Long(Spelled(x), M)
<1>1. CASE LettersOf(x) = {}
  <2>1. Spelled(x) = <<>>
    BY <1>1, NoLetters
  <2>2. Long(<<>>, 0)
    BY DEF Long
  <2> QED BY <2>1, <2>2
<1>2. CASE LettersOf(x) # {}
  <2>1. PICK first, last : LetterEnds(x, first, last)
    BY <1>2, HaveEnds
  <2>2. IsSpelled(Spelled(x), x, last)
    BY <2>1, SpelledIsSpelled
  <2>3. Place(x, last) \in Int /\ Place(x, last) \in 1..Place(x, last)
    <3>1. last \in LettersOf(x) /\ last \in 1..N
      BY <2>1 DEF LetterEnds, LettersOf, Long
    <3> QED BY <2>1, <2>2, <3>1, PlacesApart DEF IsSpelled
  <2>4. Long(Spelled(x), Place(x, last))
    BY <2>2, <2>3 DEF IsSpelled, Long
  <2> QED BY <2>4
<1> QED BY <1>1, <1>2

\* A text that is not too long is not changed, another one has MaxCode characters.
LEMMA CutLength ==
  ASSUME NEW M, NEW y, Long(y, M)
  PROVE  /\ M <= MaxCode => Cut(y) = y
         /\ M > MaxCode => Len(Cut(y)) = MaxCode
         /\ Len(y) = M
<1> DEFINE S == { y[i] : i \in 1..M }
           m == Min({M, MaxCode})
<1>1. M \in Nat /\ MaxCode \in Nat /\ Len(y) = M /\ \A i \in 1..M : y[i] \in S
  BY PortalAssumption DEF Long
<1>2. m = IF M <= MaxCode THEN M ELSE MaxCode
  <2>1. \A k \in {M, MaxCode} : k \in Int
    BY <1>1
  <2>2. M <= MaxCode => \A k \in {M, MaxCode} : (\A l \in {M, MaxCode} : k =< l) <=> k = M
    BY <1>1
  <2>3. ~(M <= MaxCode) => \A k \in {M, MaxCode} : (\A l \in {M, MaxCode} : k =< l) <=> k = MaxCode
    BY <1>1
  <2> QED BY <2>2, <2>3 DEF Min
<1>3. Cut(y) = SubSeq(y, 1, m) /\ m \in Nat /\ m <= M
  BY <1>1, <1>2 DEF Cut
<1>4. \A i \in 1..m : y[i] \in S
  BY <1>1, <1>3
<1> HIDE DEF S, m
<1>5. /\ SubSeq(y, 1, m) \in Seq(S) /\ Len(SubSeq(y, 1, m)) = m
      /\ \A i \in 1..m : SubSeq(y, 1, m)[i] = y[i]
  BY <1>3, <1>4, SubSeqProperties
<1>6. M <= MaxCode => SubSeq(y, 1, m) = y
  BY <1>1, <1>2, <1>5 DEF Long
<1> QED BY <1>1, <1>2, <1>3, <1>5, <1>6

\* What TLC compares for a few texts, as a fact about the codes of an account.
LEMMA RoleCode ==
  ASSUME NEW text \in Seq(Characters)
  PROVE  /\ NormalizeRoleCode(text) # <<>> => Len(NormalizeRoleCode(text)) \in 1..MaxCode
         /\ NormalizeRoleCode(text) \in ManageCodes <=> Spelling(text) \in ManageCodes
<1>1. Long(text, Len(text)) /\ Long(LoweredText(text), Len(text))
  BY DEF Long, LoweredText
<1>2. PICK M, y : y = Spelling(text) /\ Long(y, M)
  BY <1>1, SpelledIsLong, SpellingIsSpelled
<1>3. NormalizeRoleCode(text) = Cut(y)
  BY <1>1, <1>2, RoleCodesAsSpelled
<1>4. M \in Nat /\ MaxCode \in Nat /\ MaxCode >= 1
  BY <1>2, PortalAssumption DEF Long
<1>5. CASE M <= MaxCode
  <2>1. Cut(y) = y /\ Len(y) = M
    BY <1>2, <1>5, CutLength
  <2>2. M = 0 => y = <<>>
    BY <1>2 DEF Long
  <2> QED BY <1>2, <1>3, <1>4, <1>5, <2>1, <2>2
<1>6. CASE M > MaxCode
  <2>1. Len(Cut(y)) = MaxCode /\ Len(y) = M
    BY <1>2, <1>6, CutLength
  <2>2. Cut(y) \notin ManageCodes /\ y \notin ManageCodes
    BY <1>4, <1>6, <2>1, ManageCodesAssumption
  <2> QED BY <1>2, <1>3, <1>4, <2>1, <2>2
<1> QED BY <1>4, <1>5, <1>6

LEMMA IdentityIsAsserted == Identity # Unknown => Identity \in Claims
BY DEF Identity

\* The strengthening of ManagersAsAsserted: an account has the codes that were
\* last written and no others, and none is empty or longer than MaxCode.
AsGranted(codes, spellings) ==
  /\ \A code \in codes : Len(code) \in 1..MaxCode
  /\ codes \cap ManageCodes # {} <=> spellings \cap ManageCodes # {}

RolesAsGranted ==
  /\ DOMAIN roles = Subjects /\ DOMAIN granted = Subjects
  /\ \A s \in Subjects : AsGranted(roles[s], granted[s])

LEMMA HandoverGrants ==
  ASSUME NEW c \in Claims
  PROVE  AsGranted(CodesOf(c), Spellings(c))
<1>1. \A text \in RoleTexts(c) :
        /\ NormalizeRoleCode(text) # <<>> => Len(NormalizeRoleCode(text)) \in 1..MaxCode
        /\ NormalizeRoleCode(text) \in ManageCodes <=> Spelling(text) \in ManageCodes
  BY SignInAssumption, RoleCode
<1>2. <<>> \notin ManageCodes
  BY DEF ManageCodes
<1> QED BY <1>1, <1>2 DEF CodesOf, Spellings, AsGranted

LEMMA SeedGrants ==
  ASSUME NEW s
  PROVE  AsGranted(SeedRoles(s), SeedRoles(s))
<1>1. Len(<<"a", "-", "a">>) = 3 /\ <<"a", "-", "a">> \in ManageCodes
  BY DEF ManageCodes
<1>2. 3 \in 1..MaxCode
  BY <1>1, PortalAssumption, ManageCodesAssumption
<1> QED BY <1>1, <1>2 DEF SeedRoles, AsGranted

\* The account of subject s is written, and no other one.
LEMMA OneWritten ==
  ASSUME RolesAsGranted, NEW s \in Subjects, NEW codes, NEW spellings,
         AsGranted(codes, spellings),
         roles' = [roles EXCEPT ![s] = codes], granted' = [granted EXCEPT ![s] = spellings]
  PROVE  RolesAsGranted'
<1>1. ASSUME NEW t \in Subjects
      PROVE  AsGranted(roles'[t], granted'[t])
  BY <1>1 DEF RolesAsGranted
<1> QED BY <1>1 DEF RolesAsGranted, AsGranted

LEMMA RolesStep ==
  ASSUME RolesAsGranted, [SignInNext]_signInVars
  PROVE  RolesAsGranted'
<1>1. CASE ServeHandover
  <2>1. CASE UNCHANGED accountVars
    BY <2>1 DEF RolesAsGranted, AsGranted, accountVars, tableVars
  <2>2. CASE /\ Identity # Unknown
             /\ roles' = [roles EXCEPT ![Identity.subject] = SyncedRoles(Identity)]
             /\ granted' = [granted EXCEPT ![Identity.subject] = Spellings(Identity)]
    <3>1. Identity \in Claims /\ Identity.subject \in Subjects
      BY <2>2, IdentityIsAsserted, SignInAssumption
    <3>2. AsGranted(SyncedRoles(Identity), Spellings(Identity))
      BY <3>1, HandoverGrants DEF SyncedRoles
    <3> HIDE DEF AsGranted
    <3> QED BY <2>2, <3>1, <3>2, OneWritten
  <2> QED BY <1>1, <2>1, <2>2 DEF ServeHandover
<1>2. CASE Seed
  <2>1. ASSUME NEW s \in Subjects
        PROVE  AsGranted(roles'[s], granted'[s])
    BY <1>2, <2>1, SeedGrants DEF Seed, RolesAsGranted
  <2> QED BY <1>2, <2>1 DEF Seed, RolesAsGranted, AsGranted
<1>3. ASSUME NEW s \in Subjects, NEW codes \in EditedRoles, EditRoles(s, codes)
      PROVE  RolesAsGranted'
  <2>1. AsGranted(codes, codes)
    BY SignInAssumption DEF AsGranted
  <2> QED BY <1>3, <2>1, OneWritten DEF EditRoles
<1>4. CASE UNCHANGED <<roles, granted>>
  BY <1>4 DEF RolesAsGranted, AsGranted
<1> QED
  BY <1>1, <1>2, <1>3, <1>4
  DEF SignInNext, Follow, ServePage, ServePortal, Visit, VisitHandover, LogOut, DemoSwitch,
      LogInAtPortal, Lapse, ChangeClaims, SendHeaders, SwitchKeys, signInVars, accountVars, tableVars

LEMMA RolesAlwaysAsGranted == SignInSpec => []RolesAsGranted
<1>1. SignInInit => RolesAsGranted
  BY DEF SignInInit, RolesAsGranted, AsGranted
<1> QED BY <1>1, RolesStep, PTL DEF SignInSpec

\* Whatever the portal asserts, in whatever spelling and of any length, an account
\* manages exactly if its last handover asserted a manager's role, or the seed
\* command or an administrator has given it one since.
THEOREM ManagersAlwaysAsAsserted == SignInSpec => []ManagersAsAsserted
<1>1. RolesAsGranted => ManagersAsAsserted
  BY DEF RolesAsGranted, AsGranted, ManagersAsAsserted, HasManagerRole
<1> QED BY <1>1, RolesAlwaysAsGranted, PTL

\* The types that need no other invariant; those of the requests and of the roles
\* follow from where the browser is and from what was last written.
RestTyped ==
  /\ settings \in [mode: {"portal", "dev-header"}, login: BOOLEAN]
  /\ asked \in Pages \cup Hosts
  /\ portalToken \in Claims \cup {NoToken, Expired}
  /\ otherCookie \in {NoToken, Expired}
  /\ claims \in Claims
  /\ portalUser \in BOOLEAN /\ keysUp \in BOOLEAN
  /\ session \in Subjects \cup {Nobody}
  /\ createdBy \in [Subjects -> {Nobody, "handover", "seed"}]
  /\ lapses \in 0..MaxLapses

LEMMA RestStep ==
  ASSUME RestTyped, [SignInNext]_signInVars
  PROVE  RestTyped'
<1> USE DEF RestTyped
<1>1. ASSUME NEW page \in Pages, Visit(page)
      PROVE  RestTyped'
  BY <1>1 DEF Visit, portalVars, accountVars, tableVars, givenVars
<1>2. ASSUME NEW raw \in Pages \cup Hosts, VisitHandover(raw) \/ LogOut(raw)
      PROVE  RestTyped'
  BY <1>2 DEF VisitHandover, LogOut, portalVars, accountVars, tableVars, givenVars
<1>3. CASE LogInAtPortal
  BY <1>3 DEF LogInAtPortal, accountVars, tableVars, givenVars
<1>4. CASE ServePage
  BY <1>4 DEF ServePage, portalVars, accountVars, tableVars, givenVars
<1>5. CASE ServeHandover
  <2>1. Identity # Unknown => Identity.subject \in Subjects
    BY IdentityIsAsserted, SignInAssumption
  <2> QED BY <1>5, <2>1 DEF ServeHandover, portalVars, accountVars, tableVars, givenVars
<1>6. CASE ServePortal
  BY <1>6 DEF ServePortal, accountVars, tableVars, givenVars
<1>7. CASE Lapse
  <2>1. lapses' \in 0..MaxLapses
    BY <1>7, SignInAssumption DEF Lapse
  <2>2. /\ portalToken' \in {portalToken, Expired} /\ portalUser' \in BOOLEAN
        /\ session' \in Subjects \cup {Nobody}
    BY <1>7 DEF Lapse
  <2> QED BY <1>7, <2>1, <2>2 DEF Lapse, tableVars
<1>8. CASE ChangeClaims \/ SendHeaders
  BY <1>8 DEF ChangeClaims, SendHeaders, accountVars, tableVars, givenVars
<1>9. CASE SwitchKeys
  BY <1>9 DEF SwitchKeys, portalVars, accountVars, tableVars
<1>10. CASE UNCHANGED signInVars
  BY <1>10 DEF signInVars
<1>11. ASSUME NEW s \in Subjects, NEW raw \in Pages \cup Hosts, DemoSwitch(s, raw)
       PROVE  RestTyped'
  BY <1>11 DEF DemoSwitch, portalVars, tableVars, givenVars
<1>12. CASE Seed
  <2>1. lapses' \in 0..MaxLapses /\ session' \in Subjects \cup {Nobody}
    BY <1>12, SignInAssumption DEF Seed
  <2> QED BY <1>12, <2>1 DEF Seed, portalVars
<1>13. ASSUME NEW s \in Subjects, NEW codes, EditRoles(s, codes)
       PROVE  RestTyped'
  BY <1>13 DEF EditRoles, portalVars, givenVars
<1> QED
  BY <1>1, <1>2, <1>3, <1>4, <1>5, <1>6, <1>7, <1>8, <1>9, <1>10, <1>11, <1>12, <1>13
  DEF SignInNext, Follow

LEMMA RequestTyped ==
  ASSUME OnTheWay
  PROVE  at \in [kind: {"page"}, to: Pages, method: {"GET", "POST"}]
               \cup [kind: {"handover", "portal"}, to: Pages \cup AllowedHosts]
               \cup [kind: {"shown"}, to: Answers]
               \cup [kind: {"shown"}, to: {"portal_form"}, back: Pages \cup AllowedHosts]
<1>1. Targets \subseteq Answers
  BY PortalAssumption DEF Targets, Answers
<1>2. ASSUME NEW to \in Targets
      PROVE  /\ GetHandover(to) \in [kind: {"handover", "portal"}, to: Pages \cup AllowedHosts]
             /\ GetPortal(to) \in [kind: {"handover", "portal"}, to: Pages \cup AllowedHosts]
             /\ Show(to) \in [kind: {"shown"}, to: Answers]
             /\ PortalForm(to) \in [kind: {"shown"}, to: {"portal_form"}, back: Pages \cup AllowedHosts]
  BY <1>1 DEF GetHandover, GetPortal, Show, PortalForm, Targets
<1>3. \A to \in Pages, method \in {"GET", "POST"} :
        Request(to, method) \in [kind: {"page"}, to: Pages, method: {"GET", "POST"}]
  BY DEF Request
<1>4. \A answer \in OtherAnswers : Show(answer) \in [kind: {"shown"}, to: Answers]
  BY DEF Show, Answers
<1>5. {"unauthorized", "not_allowed", "forbidden", "bad_request"} \subseteq OtherAnswers
  BY DEF OtherAnswers
<1>6. CASE \E answer \in {"unauthorized", "not_allowed", "forbidden", "bad_request"} : at = Show(answer)
  BY <1>4, <1>5, <1>6
<1>7. ASSUME NEW to \in Targets, Leading(to)
      PROVE  \/ at \in [kind: {"page"}, to: Pages, method: {"GET", "POST"}]
             \/ at \in [kind: {"handover", "portal"}, to: Pages \cup AllowedHosts]
             \/ at \in [kind: {"shown"}, to: Answers]
             \/ at \in [kind: {"shown"}, to: {"portal_form"}, back: Pages \cup AllowedHosts]
  BY <1>2, <1>3, <1>7 DEF Leading
<1> QED BY <1>6, <1>7 DEF OnTheWay

\* The types; roles are never empty texts nor longer than MaxCode.
THEOREM SignInTypeCorrect == SignInSpec => []SignInTypeOK
<1>1. SignInInit => OnTheWay /\ RestTyped
  <2>1. SignInInit => OnTheWay
    BY PagesAreNoHosts
    DEF SignInInit, OnTheWay, OnTheWayTo, Wanted, Leading, Targets, Pages
  <2>2. SignInInit => RestTyped
    <3>1. "home" \in Pages /\ 0 \in 0..MaxLapses
      BY SignInAssumption DEF Pages
    <3> QED BY <3>1 DEF SignInInit, RestTyped
  <2> QED BY <2>1, <2>2
<1>2. (OnTheWay /\ RestTyped) /\ [SignInNext]_signInVars => (OnTheWay /\ RestTyped)'
  BY WayStep, RestStep
<1>3. OnTheWay /\ RestTyped /\ RolesAsGranted => SignInTypeOK
  BY RequestTyped DEF SignInTypeOK, RestTyped, RolesAsGranted, AsGranted
<1> QED BY <1>1, <1>2, <1>3, RolesAlwaysAsGranted, PTL DEF SignInSpec
=============================================================================
