------------------------------ MODULE Outcome ------------------------------
(***************************************************************************)
(* The pure part of pavel-core: how the checks the mdoc library reports    *)
(* become verdicts (verify-shared.ts) and how the verdicts become the one  *)
(* outcome an age check answers with (pipeline.ts).                        *)
(*                                                                         *)
(* A check's text matters only for which ISSUER_CHECKS entry it contains,  *)
(* so a report is [status, category, check] with check the name of that    *)
(* entry; any other text stands for a check the mapping does not know.     *)
(***************************************************************************)
EXTENDS Naturals

CONSTANT Age            \* the minimum ages in play, within 1 .. 120

ASSUME AgeAssumption == Age \subseteq 1 .. 120

Outcomes == {"verified", "predicate_false", "predicate_unavailable",
             "untrusted_issuer", "expired", "replay", "malformed"}

(* What the first document says of one age_over_NN element. *)
Disclosure == {"absent", "true", "false", "nonBoolean"}

AgeDocTypes == {"mDL", "idPass"}
DocTypes == AgeDocTypes \cup {"otherType", "none"}

TrustChecks == {"trustChain", "certificateValid", "countryName"}
ValidityChecks == {"msoValidNow", "msoSignedInCertValidity"}
IssuerChecks == TrustChecks \cup {"signature"} \cup ValidityChecks

Passed(reports, category) ==
  \E r \in reports : r.status = "PASSED" /\ r.category = category
Failed(reports, category) ==
  \E r \in reports : r.status = "FAILED" /\ r.category = category

PassedIn(reports, category) ==
  Passed(reports, category) /\ ~ Failed(reports, category)

IssuerReports(reports, check) ==
  {r \in reports : r.category = "ISSUER_AUTH" /\ r.check = check}

(* Variant: a failed report does not outweigh a passed one.                *)
IssuerPassedOnce(reports, check) == Passed(IssuerReports(reports, check), "ISSUER_AUTH")

IssuerPassed(reports, check) ==
  PassedIn(IssuerReports(reports, check), "ISSUER_AUTH")

UnknownIssuerFailure(reports) ==
  \E r \in reports : /\ r.status = "FAILED"
                     /\ r.category = "ISSUER_AUTH"
                     /\ r.check \notin IssuerChecks

NothingFailed(reports) == \A r \in reports : r.status # "FAILED"

(* Variants of how a throw weighs: not at all; or joined to the reports    *)
(* with the wrong connective.                                              *)
ClassifyIgnoringThrow(reports, threw) ==
  [ issuerTrusted  |-> /\ \A c \in TrustChecks : IssuerPassed(reports, c)
                       /\ ~ UnknownIssuerFailure(reports),
    authentic      |-> /\ IssuerPassed(reports, "signature")
                       /\ ~ Failed(reports, "DATA_INTEGRITY")
                       /\ ~ Failed(reports, "DOCUMENT_FORMAT"),
    withinValidity |-> \A c \in ValidityChecks : IssuerPassed(reports, c),
    deviceBound    |-> PassedIn(reports, "DEVICE_AUTH") ]

ClassifyThrewOrNothingFailed(reports, threw) ==
  [ClassifyIgnoringThrow(reports, threw) EXCEPT
     !.authentic = @ /\ ~ (threw \/ NothingFailed(reports))]

ClassifyAssessments(reports, threw) ==
  [ issuerTrusted  |-> /\ \A c \in TrustChecks : IssuerPassed(reports, c)
                       /\ ~ UnknownIssuerFailure(reports),
    authentic      |-> /\ IssuerPassed(reports, "signature")
                       /\ ~ Failed(reports, "DATA_INTEGRITY")
                       /\ ~ Failed(reports, "DOCUMENT_FORMAT")
                       /\ ~ (threw /\ NothingFailed(reports)),
    withinValidity |-> \A c \in ValidityChecks : IssuerPassed(reports, c),
    deviceBound    |-> PassedIn(reports, "DEVICE_AUTH") ]

Verdicts == [issuerTrusted: BOOLEAN, authentic: BOOLEAN,
             withinValidity: BOOLEAN, deviceBound: BOOLEAN]
NoVerdict == [issuerTrusted |-> FALSE, authentic |-> FALSE,
              withinValidity |-> FALSE, deviceBound |-> FALSE]

(* What was sent: whether it decrypts and decodes, and then what its first *)
(* document is and discloses ("readable": getPrettyClaims did not throw).  *)
Response == [decodes: BOOLEAN, docType: DocTypes, readable: BOOLEAN,
             elements: [Age -> Disclosure]]

(* Variant of Says: what is not said is taken for no.                      *)
SaysNoIfSilent(response, age) ==
  IF response.readable /\ response.elements[age] = "true" THEN "true" ELSE "false"

Says(response, age) ==
  IF response.readable /\ response.elements[age] \in {"true", "false"}
    THEN response.elements[age] ELSE "absent"

ExtractAgeClaims(response) == [a \in Age |-> Says(response, a)]

NotDecoded == [decoded |-> FALSE, docType |-> "none", verdict |-> NoVerdict,
               ageClaims |-> [a \in Age |-> "absent"]]

RawVerification(response, verdict) ==
  IF response.decodes
    THEN [decoded |-> TRUE, docType |-> response.docType, verdict |-> verdict,
          ageClaims |-> ExtractAgeClaims(response)]
    ELSE NotDecoded

(* Variants: validity before trust; the claim itself as the answer.        *)
ValidityFirst(raw, minAge) ==
  IF ~ raw.decoded \/ raw.docType \notin AgeDocTypes THEN "malformed"
  ELSE IF ~ raw.verdict.withinValidity THEN "expired"
  ELSE IF ~ raw.verdict.issuerTrusted THEN "untrusted_issuer"
  ELSE IF ~ raw.verdict.authentic THEN "malformed"
  ELSE IF ~ raw.verdict.deviceBound THEN "replay"
  ELSE IF raw.ageClaims[minAge] = "true" THEN "verified" ELSE "predicate_false"

ClaimAsOutcome(raw, minAge) ==
  IF raw.decoded THEN raw.ageClaims[minAge] ELSE "malformed"

(* The order is the precedence: the first failing test names the outcome.  *)
OutcomeFor(raw, minAge) ==
  IF ~ raw.decoded \/ raw.docType \notin AgeDocTypes THEN "malformed"
  ELSE IF ~ raw.verdict.issuerTrusted THEN "untrusted_issuer"
  ELSE IF ~ raw.verdict.authentic THEN "malformed"
  ELSE IF ~ raw.verdict.withinValidity THEN "expired"
  ELSE IF ~ raw.verdict.deviceBound THEN "replay"
  ELSE IF raw.ageClaims[minAge] = "absent" THEN "predicate_unavailable"
  ELSE IF raw.ageClaims[minAge] = "false" THEN "predicate_false"
  ELSE "verified"

---------------------------------------------------------------------------
(* The protocols, and what verification makes of a presentation p against  *)
(* the challenge t.  An encrypted protocol's response opens only with its  *)
(* own challenge's key, an ISO one only for the origin it was sealed to;   *)
(* otherwise the device signature carries both bindings.                   *)

Unsigned == "openid4vp-v1-unsigned"
Google == "openid4vp-v1-signed"
Iso == "org-iso-mdoc"

Opens(p, t) ==
  /\ p.protocol \in {Google, Iso} => p.nonce = t.nonce
  /\ p.protocol = Iso => p.ours

(* Variant of VerificationOutcome: bound to the site but not the challenge.*)
OutcomeUnbound(p, t) ==
  LET verdict == [p.card.verdict EXCEPT !.deviceBound = @ /\ p.ours]
      raw == IF Opens(p, t) THEN RawVerification(p.card.response, verdict) ELSE NotDecoded
  IN  OutcomeFor(raw, t.minAge)

VerificationOutcome(p, t) ==
  LET bound == p.nonce = t.nonce /\ p.ours
      verdict == [p.card.verdict EXCEPT !.deviceBound = @ /\ bound]
      raw == IF Opens(p, t) THEN RawVerification(p.card.response, verdict) ELSE NotDecoded
  IN  OutcomeFor(raw, t.minAge)
=============================================================================
