------------------------------ MODULE Fixtures ------------------------------
(***************************************************************************)
(* The answers the repository itself makes: the golden vectors             *)
(* (mock_authority/scripts/generate-fixtures.mts) and the dev wallet of    *)
(* the demo store (demo/src/server.ts and dev/dev-wallet.js), each with    *)
(* the outcome it is said to have.                                         *)
(***************************************************************************)
EXTENDS Answers

CONSTANT Page  \* the origin of the site's pages

(* An authority's certificates are good for a while around Now, and a      *)
(* credential is good from now on.                                         *)
Anchor(authority) == IacaCert(authority, Now, Now + 9)

Current == [from |-> Now, to |-> Now + 9]
Lapsed == [from |-> 0, to |-> Now - 1]

Mint(authority, docType, ageOver, claims, window) ==
  IssueMdl(authority, DsCert(authority, Now, Now + 9), docType, ageOver, claims, window)

NoClaims == [a \in {} |-> "true"]

---------------------------------------------------------------------------

ChangeFirst(token, document) ==
  [mdoc |-> [i \in DOMAIN token.mdoc |-> IF i = 1 THEN document ELSE token.mdoc[i]]]

TamperIssuerAuthSignature(token) ==
  ChangeFirst(token, [token.mdoc[1] EXCEPT !.card.signedWith = KeyOf("nobody", "ds")])

ShowFamilyName(token, name) == ChangeFirst(token, [token.mdoc[1] EXCEPT !.family_name = name])

FlipDisclosedFamilyName(token) == ShowFamilyName(token, "Xoe")

Vector(vpToken, origin, nonce, expected) ==
  [vpToken |-> vpToken, expectedOrigin |-> origin, nonce |-> nonce, expected |-> expected]

(* All for the age of 21.                                                  *)
Vectors ==
  LET over(window) == Mint("good", "mDL", {18, 21}, NoClaims, window)
      present(card, disclose) == Present(<<card>>, 1, Page, disclose)
      ctx(token, expected) == Vector(token, Page, 1, expected)
      valid == present(over(Current), {21})
  IN  { ctx(valid, "verified"),
        ctx(TamperIssuerAuthSignature(valid), "malformed"),
        ctx(FlipDisclosedFamilyName(ShowFamilyName(valid, "Doe")), "malformed"),
        ctx(present(over(Lapsed), {21}), "expired"),
        Vector(valid, Origin("elsewhere", 0), 1, "replay"),
        Vector(valid, Page, 2, "replay"),
        ctx(present(Mint("evil", "mDL", {18, 21}, NoClaims, Current), {21}), "untrusted_issuer"),
        ctx(present(Mint("good", "mDL", {18}, [a \in {21} |-> "false"], Current), {21}),
            "predicate_false"),
        ctx(present(Mint("good", "mDL", {18}, NoClaims, Current), {18}), "predicate_unavailable") }

---------------------------------------------------------------------------
(* How the demo store comes by its readers: files is none, or one record   *)
(* of the key and the certificates kept on disk.                           *)

LoadGoogleConfig(enabled, files) ==
  IF ~ enabled THEN {}
  ELSE IF files = {} THEN {CreateGoogleReader("shop")}
  ELSE {ReaderFromPem(f.key, f.chain) : f \in files}

LoadAppleConfig(files) == {ReaderFromPem(f.key, f.chain) : f \in files}

(* POST /dev-wallet/present.                                               *)

Scenario == {"over", "under", "absent", "untrusted"}

(* What the scenarios promise (dev-wallet.js:36-40).                       *)
Hint(scenario) ==
  CASE scenario = "over" -> "verified"
    [] scenario = "under" -> "predicate_false"
    [] scenario = "absent" -> "predicate_unavailable"
    [] scenario = "untrusted" -> "untrusted_issuer"

TestId(scenario, minAge) ==
  CASE scenario = "under" ->
         Mint("test", "mDL", {}, [a \in {minAge} |-> "false"], Current)
    [] scenario = "absent" -> Mint("test", "mDL", {13}, NoClaims, Current)
    [] scenario = "untrusted" -> Mint("untrusted", "mDL", {minAge}, NoClaims, Current)
    [] OTHER -> Mint("test", "mDL", {minAge}, NoClaims, Current)

(* The absent age is any but 13.                                           *)
Disclosed(scenario, minAge) == IF scenario = "absent" THEN {13} ELSE {minAge}

DevWalletPresent(site, scenario, c) ==
  Present(<<TestId(scenario, c.minAge)>>, c.nonce, SiteOrigin(site),
          Disclosed(scenario, c.minAge))

(* The dev wallet posts the token with no protocol.                        *)
DevBody(vpToken) == Body("none", Text(vpToken), Nothing)
=============================================================================
