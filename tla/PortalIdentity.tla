---------------------------- MODULE PortalIdentity ----------------------------
(* What the portal asserts about a user, and what accounts/services.py makes *)
(* of it: the choice of the token among the cookies, the role codes from    *)
(* claims or headers, and where a browser may be sent back to.  A role text *)
(* is a sequence of characters; two letters, one of them also as a capital, *)
(* a blank and a hyphen are enough to tell the cases of normalize_role_code *)
(* apart.                                                                   *)
EXTENDS Naturals, SequencesExt

CONSTANTS
  MaxCode,         \* the length role codes are cut to (50)
  Hosts,           \* other sites
  AllowedHosts     \* PORTAL_ALLOWED_RETURN_TO_HOSTS

ASSUME PortalAssumption == MaxCode \in Nat \ {0} /\ AllowedHosts \subseteq Hosts

Letters == {"a", "s"}
Characters == Letters \cup {"A", " ", "-"}
Lower(c) == IF c = "A" THEN "a" ELSE c

\* asset-admin and sysadmin, with one letter per word
ManageCodes == { <<"a", "-", "a">>, <<"s">> }

\* 50 characters are more than asset-admin has, so no other code is cut to it.
ASSUME ManageCodesAssumption == \A code \in ManageCodes : Len(code) < MaxCode

\* x without the characters c at its ends
StripOf(x, c) ==
  LET kept == { i \in DOMAIN x : x[i] # c }
  IN IF kept = {} THEN <<>> ELSE SubSeq(x, Min(kept), Max(kept))

Cut(x) == SubSeq(x, 1, Min({Len(x), MaxCode}))

\* Every character that is not a letter becomes a hyphen; also a mutated form.
HyphenEach(x) == [i \in DOMAIN x |-> IF x[i] \in Letters THEN x[i] ELSE "-"]

\* The elements of x at these places, in their order.
AtPlaces(x, places) ==
  LET rank(i) == Cardinality({ k \in places : k <= i })
  IN [n \in 1..Cardinality(places) |-> x[CHOOSE i \in places : rank(i) = n]]

\* re.sub: every run of characters that are not letters becomes one hyphen.
HyphenateRuns(x) ==
  AtPlaces(HyphenEach(x),
           { i \in DOMAIN x : x[i] \in Letters \/ i = 1 \/ x[i - 1] \in Letters })

NormalizeRoleCode(text) ==
  LET stripped == StripOf(text, " ")
  IN Cut(StripOf(HyphenateRuns([i \in DOMAIN stripped |-> Lower(stripped[i])]), "-"))

\* A token's role and roles claims; the X-Portal-Roles header lists the same
\* texts between commas.
RoleTexts(claims) == {claims.role} \cup claims.roles

\* The codes that are not empty.
CodesOf(claims) == { NormalizeRoleCode(text) : text \in RoleTexts(claims) } \ {<<>>}

\* What a request with these cookies, listed in the order of
\* PORTAL_COOKIE_NAMES, is verified with: the first that is not empty.
FirstPresent(cookies, absent) ==
  LET present == SelectSeq(cookies, LAMBDA cookie : cookie # absent)
  IN IF present = <<>> THEN absent ELSE Head(present)

\* Mutated form: any host is accepted.
SanitizeNothing(raw, pages) == IF raw \in pages \cup Hosts THEN raw ELSE "home"

\* A path of this site or an address on an allowed host is kept; no returnTo,
\* a relative path, another scheme or another host becomes the home page.
SanitizeReturnTo(raw, pages) == IF raw \in pages \cup AllowedHosts THEN raw ELSE "home"

-----------------------------------------------------------------------------
(* What a role code should be, said without the steps that compute it.      *)

\* The words of text are its maximal runs of letters.  In its spelling, every
\* letter comes after the letters before it and one hyphen per earlier word.
Spelling(text) ==
  LET x == [i \in DOMAIN text |-> Lower(text[i])]
      letters == { i \in DOMAIN x : x[i] \in Letters }
      starts == { i \in letters : i = 1 \/ i - 1 \notin letters }
      place(i) == Cardinality({ k \in letters : k <= i })
                    + Cardinality({ k \in starts : k <= i }) - 1
      places == { place(i) : i \in letters }
  IN [n \in 1..Max(places \cup {0}) |->
        IF n \in places THEN x[CHOOSE i \in letters : place(i) = n] ELSE "-"]

Spellings(claims) == { Spelling(text) : text \in RoleTexts(claims) }
=============================================================================
