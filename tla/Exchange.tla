------------------------------ MODULE Exchange ------------------------------
(***************************************************************************)
(* One age check from the request to the outcome, with what is on the wire *)
(* in between: the site hands out its requests, a wallet answers one of    *)
(* them for the page it sees, the answer may be altered on the way or come *)
(* late, in any wrapping a browser gives it, and the site concludes.       *)
(* Sessions and concurrent requests are left to Middleware, whose          *)
(* VerificationOutcome this module justifies.                              *)
(***************************************************************************)
EXTENDS Fixtures, FiniteSets

CONSTANTS
  Site,           \* the configurations of a site to check
  Cards,          \* the sequences of credentials wallets answer with
  MaxChallenges   \* bound on the challenges minted

ASSUME ExchangeAssumption == MaxChallenges \in Nat /\ 21 \in Age

(* The pages are the site's own, whatever slashes its configuration has;   *)
(* one reader at most is configured for each wallet, and its key goes with *)
(* its certificates.                                                       *)
ASSUME SiteAssumption ==
  /\ Page = Origin(Page.address, 0)
  /\ \A s \in Site :
       /\ s.origin = Origin(Page.address, s.origin.slashes)
       /\ IsFiniteSet(s.trustAnchors)
       /\ \A reader, other \in s.google : reader = other
       /\ \A reader \in s.google \cup s.apple :
            reader.certChain # << >> => reader.certChain[1].key = reader.privateKey

Credential ==
  [ docType: DocTypes, x5chain: Seq(CertificateRecord) \ {<< >>}, signedWith: KeyRecord,
    elements: [Age -> Disclosure], family_name: STRING, window: [from: Nat, to: Nat],
    signed: Nat ]

(* A signature that was tampered with is by a key no certificate is for.   *)
ASSUME CardsAssumption ==
  \A cards \in Cards :
    /\ cards \in Seq(Credential)
    /\ \A i \in DOMAIN cards : cards[i].x5chain[1].key # KeyOf("nobody", "ds")

VARIABLES
  site,      \* its configuration
  minted,    \* how many challenges there have been
  pending,   \* the challenge in flight at the site, none or one
  requests,  \* what the page has last been handed
  answer,    \* what a wallet has answered last, none or one
  consents,  \* history: the challenges a fit holder answered, to this site
  outcome    \* the site's last outcome, "none" while a challenge is in flight

vars == <<site, minted, pending, requests, answer, consents, outcome>>

Init ==
  /\ site \in Site
  /\ minted = 0
  /\ pending = {} /\ requests = << >> /\ answer = {} /\ consents = {}
  /\ outcome = "none"

QuestionOf(nonce, minAge) == [nonce |-> nonce, minAge |-> minAge]

(* A credential that bears out the age: in date, signed by a signer whose  *)
(* certificate was good then and at the end of a valid path from an anchor *)
(* of the site, and it says so.                                            *)
Fit(card, minAge) ==
  LET signer == card.x5chain[1]
  IN  /\ card.signedWith = signer.key
      /\ signer.from <= card.signed /\ card.signed <= signer.to
      /\ InDate(card.window)
      /\ card.docType \in AgeDocTypes
      /\ card.elements[minAge] = "true"
      /\ \E path \in Ways(card.x5chain, site.trustAnchors) :
           ValidPath(path, signer, site.trustAnchors)

---------------------------------------------------------------------------

(* GET /pavel/request.  If a request cannot be built the handler throws,   *)
(* and nothing is minted.                                                  *)
Ask(minAge) ==
  /\ minted < MaxChallenges
  /\ LET c == Challenge(site, minted + 1, minAge)
     IN  /\ requests' \in Requests(site, c)
         /\ pending' = {c}
  /\ minted' = minted + 1
  /\ outcome' = "none"
  /\ UNCHANGED <<site, answer, consents>>

(* What the page has been handed asks this (its plain entry says it).      *)
Handed ==
  LET data == requests[Len(requests) - 1].data
  IN  QuestionOf(data.nonce, CHOOSE a \in data.credentials[1].claims : TRUE)

Consented(cards, origin, q) ==
  consents' = IF origin = Page /\ cards # << >> /\ Fit(cards[1], q.minAge)
                THEN consents \cup {q} ELSE consents

(* A wallet answers the i-th entry handed, for the page it sees.           *)
Release(i, cards, origin) ==
  /\ i \in DOMAIN requests
  /\ \E content \in Respond(requests[i], cards, origin) :
       answer' = {[ protocol |-> requests[i].protocol, question |-> Handed,
                    ours |-> origin = Page, cards |-> cards, disclosed |-> {Handed.minAge},
                    altered |-> "no", content |-> content ]}
  /\ Consented(cards, origin, Handed)
  /\ UNCHANGED <<site, minted, pending, requests, outcome>>

(* The dev wallet answers the challenge in flight.                         *)
DevWallet(scenario) ==
  /\ \E c \in pending :
       /\ answer' = {[ protocol |-> Unsigned, question |-> QuestionOf(c.nonce, c.minAge),
                       ours |-> TRUE, cards |-> <<TestId(scenario, c.minAge)>>,
                       disclosed |-> Disclosed(scenario, c.minAge), altered |-> "no",
                       content |-> DevWalletPresent(site, scenario, c) ]}
       /\ Consented(<<TestId(scenario, c.minAge)>>, Page, QuestionOf(c.nonce, c.minAge))
  /\ UNCHANGED <<site, minted, pending, requests, outcome>>

(* Changes on the way: of the issuer's signature or of the age shown, as   *)
(* the golden vectors make them, or of all there is.                       *)
FlipDisclosedAge(token) ==
  ChangeFirst(token, [token.mdoc[1] EXCEPT !.shows = [a \in Age |-> "true"]])

Change(token, how) ==
  CASE how = "no" -> token
    [] how = "signature" -> TamperIssuerAuthSignature(token)
    [] how = "age" -> FlipDisclosedAge(token)
    [] how = "garbled" -> [word |-> "garbled"]

Alter(how) ==
  /\ \E a \in answer :
       /\ a.altered = "no"
       /\ how # "garbled" => a.protocol = Unsigned /\ a.cards # << >>
       /\ answer' = {[a EXCEPT !.altered = how, !.content = Change(a.content, how)]}
  /\ UNCHANGED <<site, minted, pending, requests, consents, outcome>>

(* The wrappings a browser may hand an answer over in                      *)
(* (client/test/request-age-proof.test.ts, parseEncryptedResponse).        *)
Wrappings(a) ==
  LET token == Text(a.content)
      list == [list |-> <<token>>]
      vp(value) == Object("vp_token", value)
  IN  IF a.protocol = Unsigned
        THEN { token, vp(token), vp(list), vp(Object("age_check", list)),
               vp(Object("other", token)), Text([json |-> vp(Object("age_check", list))]) }
        ELSE {token} \cup {Object(Envelope[i], token) : i \in DOMAIN Envelope}

ClientBodies(a) == UNION {VerifyBody(a.protocol, data) : data \in Wrappings(a)}

(* An answer posted under the name of a protocol it is not of, or as the   *)
(* vp_token it is not.                                                     *)
MislabelledBodies(a) ==
  {Body(p, Nothing, Text(a.content)) : p \in {Google, Iso} \ {a.protocol}}
    \cup (IF a.protocol = Unsigned THEN {} ELSE {DevBody(a.content)})

(* The pages post what the client or the dev wallet makes of an answer; a  *)
(* body without a protocol is taken by what it carries.                    *)
Bodies ==
  {Body("none", Nothing, Nothing)}
    \cup UNION {ClientBodies(a) \cup MislabelledBodies(a) \cup
                 {DevBody(a.content), Body("none", Nothing, Text(a.content))} : a \in answer}

Post(body) ==
  /\ outcome' = IF pending = {} THEN "replay"
                ELSE Verify(site, CHOOSE c \in pending : TRUE, body)
  /\ pending' = {}
  /\ UNCHANGED <<site, minted, requests, answer, consents>>

Next ==
  \/ \E minAge \in Age : Ask(minAge)
  \/ \E i \in 1 .. 3, cards \in Cards, origin \in {Page, Origin("elsewhere", 0)} :
       Release(i, cards, origin)
  \/ \E scenario \in Scenario : DevWallet(scenario)
  \/ \E how \in {"signature", "age", "garbled"} : Alter(how)
  \/ \E body \in Bodies : Post(body)

Spec == Init /\ [][Next]_vars

---------------------------------------------------------------------------

TypeOK ==
  /\ site \in Site
  /\ minted \in 0 .. MaxChallenges
  /\ pending \subseteq {Challenge(site, n, a) : n \in 1 .. minted, a \in Age}
  /\ requests = << >> \/ Len(requests) = 2 + Cardinality(site.google)
  /\ consents \subseteq [nonce: 1 .. minted, minAge: Age]
  /\ outcome \in Outcomes \cup {"none"}
  /\ pending # {} => outcome = "none"

(* Whatever protocol, wrapping, alteration or delay, an age check only     *)
(* concludes "verified" if a fit holder consented to this very challenge   *)
(* on this site (pavel.ts:172, session-transcript.ts:6-9).                 *)
Check == INSTANCE AgeCheck WITH
  Question <- [nonce: 1 .. MaxChallenges, minAge: Age],
  Answer <- Outcomes,
  asked <- {QuestionOf(c.nonce, c.minAge) : c \in pending}

ImplementsAgeCheck == Check!Spec

(* Why: requests are those of the challenge in flight, if there is one...  *)
RequestsInv ==
  /\ pending # {} => requests # << >>
  /\ requests # << >> =>
       /\ minted > 0
       /\ \E minAge \in Age : LET c == Challenge(site, minted, minAge)
                             IN  requests \in Requests(site, c) /\ pending \subseteq {c}

(* ... and an answer is what a wallet makes of its question, but for what  *)
(* happened on the way.                                                    *)
Genuine(protocol, cards, origin, nonce, disclosed) ==
  CASE protocol = Unsigned -> {Present(cards, nonce, origin, disclosed)}
    [] protocol = Google -> {PresentGoogle(cards, origin, nonce, Key("google", nonce), disclosed)}
    [] protocol = Iso ->
         PresentIso(cards, EncryptionInfo(Key("nonce", nonce), Key("iso", nonce)), origin, disclosed)

TestCards == {<<TestId(scenario, minAge)>> : scenario \in Scenario, minAge \in Age}

Written(a) ==
  /\ a.protocol \in {Unsigned, Google, Iso}
  /\ a.cards \in Cards \cup TestCards
  /\ a.disclosed \in {{a.question.minAge}, {13}}
  /\ a.altered \in {"no", "signature", "age", "garbled"}
  /\ a.altered \in {"signature", "age"} => a.protocol = Unsigned /\ a.cards # << >>
  /\ \E origin \in {Page, Origin("elsewhere", 0)} :
       \E content \in Genuine(a.protocol, a.cards, origin, a.question.nonce, a.disclosed) :
         a = [ protocol |-> a.protocol, question |-> a.question, ours |-> origin = Page,
               cards |-> a.cards, disclosed |-> a.disclosed, altered |-> a.altered,
               content |-> Change(content, a.altered) ]

AnswerInv ==
  \A a \in answer :
    /\ Written(a)
    /\ a.protocol = Google => site.google # {}
    /\ a.question \in [nonce: 1 .. minted, minAge: Age]
    /\ \A c \in pending : a.question.nonce = c.nonce => a.question.minAge = c.minAge
    /\ a.ours /\ a.cards # << >> /\ Fit(a.cards[1], a.question.minAge) => a.question \in consents

(* The other way round: the prompt, unaltered answer of a fit holder is    *)
(* accepted over every protocol and in every wrapping, however the origin  *)
(* was configured (pavel.ts:50-52, dc-api.ts:75-81), if the issuer's chain *)
(* is straight: sent whole, up to the anchor, with one possible issuer for *)
(* each certificate on it.                                                 *)
StraightFrom(card) ==
  \E p \in SentPaths(card.x5chain, site.trustAnchors) :
    Straight(p, card.x5chain, site.trustAnchors)

HonestAnswerAccepted ==
  \A c \in pending, a \in answer :
    /\ a.question = QuestionOf(c.nonce, c.minAge) /\ a.ours /\ a.altered = "no"
    /\ c.minAge \in a.disclosed
    /\ a.cards # << >>
    /\ \A i \in DOMAIN a.cards : Fit(a.cards[i], c.minAge) /\ StraightFrom(a.cards[i])
    => \A data \in Wrappings(a) :
         \E body \in VerifyBody(a.protocol, data) : Verify(site, c, body) = "verified"

(* What Ceremony takes for the outcome of a presentation is what comes out *)
(* of the wire: with the transcripts, keys and envelopes abstracted to     *)
(* "this challenge" and "this site".  Under another protocol's name an     *)
(* answer is malformed.                                                    *)
Presentation(a) ==
  LET token == DeviceResponse(a.cards, a.disclosed, "its own")
      documents == IF a.altered = "garbled" THEN << >> ELSE Change(token, a.altered).mdoc
      reports == UNION {Reports(documents[i], "its own", site.trustAnchors) : i \in DOMAIN documents}
  IN  [ protocol |-> a.protocol, nonce |-> a.question.nonce, ours |-> a.ours,
        card |-> [ response |-> [Decoded(documents) EXCEPT !.decodes = a.altered # "garbled"],
                   verdict |-> ClassifyAssessments(reports, FALSE) ] ]

AsTheCeremonyHasIt ==
  \A c \in pending, a \in answer :
    /\ \A body \in ClientBodies(a) :
         Verify(site, c, body) =
           VerificationOutcome(Presentation(a), QuestionOf(c.nonce, c.minAge))
    /\ \A body \in MislabelledBodies(a) : Verify(site, c, body) = "malformed"

(* A wallet that insists on signed requests gets one it can check: by the  *)
(* reader's own certificate, for the origin of the page, over exactly what *)
(* was sent (iso-reader-auth.ts:17-18, pavel.ts:79-81).                    *)
SignedRequestsAnswerable ==
  \A i \in DOMAIN requests :
    /\ requests[i].protocol = Iso /\ site.apple # {} => AppleAnswers(requests[i].data, Page)
    /\ requests[i].protocol = Google => GoogleAnswers(requests[i].data, Page)

(* What the examples suppose of a site: that it trusts the authorities     *)
(* that are meant to be good, by one certificate each, and none that is    *)
(* not.                                                                    *)
TestAuthoritiesTrusted ==
  /\ Page # Origin("elsewhere", 0)
  /\ \A s \in Site :
       /\ {Anchor("good"), Anchor("test")} \subseteq s.trustAnchors
       /\ \A anchor \in s.trustAnchors :
            /\ anchor.key.owner \notin {"evil", "untrusted"}
            /\ anchor.key.owner \in {"good", "test"} => anchor = Anchor(anchor.key.owner)

(* The golden vectors have the outcomes they are stored with               *)
(* (core/test/fixtures).                                                   *)
VectorsAsStated ==
  \A v \in Vectors :
    VerifyPresentation(v.vpToken, v.nonce, v.expectedOrigin, 21, site.trustAnchors) = v.expected

(* A scenario of the dev wallet has the outcome it announces, with one     *)
(* exception: the ID that lacks the age asked for has that of 13, and is   *)
(* verified when 13 is what was asked (dev-wallet.js:36-40 against         *)
(* server.ts:121-124).                                                     *)
DevWalletAsHinted ==
  \A c \in pending, s \in Scenario :
    Verify(site, c, DevBody(DevWalletPresent(site, s, c))) =
      IF s = "absent" /\ c.minAge = 13 THEN "verified" ELSE Hint(s)
=============================================================================
