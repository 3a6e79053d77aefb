-------------------------- MODULE VerificationProofs --------------------------
(***************************************************************************)
(* Proofs about Verification, for any set of ages, presentations and       *)
(* reports the library may make, the ones the mapping does not know too.   *)
(***************************************************************************)
EXTENDS Verification, TLAPS

(* The answer in hand is the one its presentation and reports call for.    *)
Called == OutcomeFor(RawVerification(response, ClassifyAssessments(assessments, threw)), minAge)

Explained ==
  /\ phase # "answered" => outcome = "none"
  /\ phase = "checking" => response.decodes
  /\ phase = "answered" => outcome = Called

(* Every outcome's meaning, read off the chain of tests.                   *)
LEMMA OutcomeMeaning ==
  ASSUME NEW p \in Response, NEW reports, NEW t \in BOOLEAN, NEW a \in Age
  PROVE  LET v == ClassifyAssessments(reports, t)
             o == OutcomeFor(RawVerification(p, v), a)
         IN  /\ o \in Outcomes
             /\ o # "malformed" => p.decodes /\ p.docType \in AgeDocTypes
             /\ o \notin {"malformed", "untrusted_issuer"} => v.issuerTrusted /\ v.authentic
             /\ o = "verified" => /\ v.withinValidity /\ v.deviceBound
                                  /\ p.elements[a] = "true"
<1> DEFINE v == ClassifyAssessments(reports, t)
           raw == RawVerification(p, v)
           o == OutcomeFor(raw, a)
<1>1. o \in Outcomes
  BY DEF OutcomeFor, Outcomes
<1>2. o # "malformed" => raw.decoded /\ raw.docType \in AgeDocTypes
  BY DEF OutcomeFor
<1>3. raw.decoded => /\ p.decodes /\ raw.docType = p.docType /\ raw.verdict = v
                     /\ raw.ageClaims = ExtractAgeClaims(p)
  <2> HIDE DEF v
  <2> QED
    BY DEF RawVerification, NotDecoded
<1>4. /\ o \notin {"malformed", "untrusted_issuer"} =>
           raw.verdict.issuerTrusted /\ raw.verdict.authentic
      /\ o = "verified" => /\ raw.verdict.withinValidity /\ raw.verdict.deviceBound
                           /\ raw.ageClaims[a] \notin {"absent", "false"}
  <2> HIDE DEF raw
  <2> QED
    BY DEF OutcomeFor
<1>5. ExtractAgeClaims(p)[a] \notin {"absent", "false"} => p.elements[a] = "true"
  BY DEF ExtractAgeClaims, Says
<1> HIDE DEF raw, v
<1>6. o \notin {"malformed", "untrusted_issuer"} => v.issuerTrusted /\ v.authentic
  BY <1>2, <1>3, <1>4
<1>7. o = "verified" => v.withinValidity /\ v.deviceBound /\ p.elements[a] = "true"
  BY <1>2, <1>3, <1>4, <1>5
<1>8. o # "malformed" => p.decodes /\ p.docType \in AgeDocTypes
  BY <1>2, <1>3
<1> QED
  BY <1>1, <1>6, <1>7, <1>8 DEF o, raw, v

LEMMA BlankType == Blank \in Response
<1>1. [a \in Age |-> "absent"] \in [Age -> Disclosure]
  BY DEF Disclosure
<1> QED
  BY <1>1 DEF Blank, Response, DocTypes

(* Every variable keeps its type; the answer is one of the outcomes.       *)
THEOREM VerificationTypeCorrect == Spec => []TypeOK
<1>1. Init => TypeOK
  BY BlankType DEF Init, TypeOK
<1>2. TypeOK /\ [Next]_vars => TypeOK'
  <2> SUFFICES ASSUME TypeOK, [Next]_vars PROVE TypeOK'
    OBVIOUS
  <2>1. ASSUME NEW p \in Presentation, NEW a \in Age, Present(p, a) PROVE TypeOK'
    BY <2>1, PresentationAssumption DEF TypeOK, Present
  <2>2. ASSUME NEW p \in Presentation, NEW a \in Age, PresentUndecodable(p, a) PROVE TypeOK'
    <3>1. outcome' \in Outcomes
      BY <2>2 DEF PresentUndecodable, OutcomeFor, Outcomes
    <3> QED
      BY <2>2, <3>1, PresentationAssumption DEF TypeOK, PresentUndecodable
  <2>3. ASSUME NEW r \in Report, OnCheck(r) PROVE TypeOK'
    BY <2>3 DEF TypeOK, OnCheck
  <2>4. CASE LibraryReturns \/ LibraryThrows
    <3>1. PICK t \in BOOLEAN : Conclude(t)
      BY <2>4 DEF LibraryReturns, LibraryThrows
    <3>2. outcome' \in Outcomes
      BY <3>1 DEF Conclude, OutcomeFor, Outcomes
    <3> QED
      BY <3>1, <3>2 DEF TypeOK, Conclude
  <2>5. CASE Answer
    BY <2>5, BlankType DEF TypeOK, Answer
  <2>6. CASE UNCHANGED vars
    BY <2>6 DEF TypeOK, vars
  <2> QED
    BY <2>1, <2>2, <2>3, <2>4, <2>5, <2>6 DEF Next
<1> QED
  BY <1>1, <1>2, PTL DEF Spec

LEMMA ExplainedInvariant == Spec => []Explained
<1>1. Init => Explained
  BY DEF Init, Explained
<1>2. Explained /\ [Next]_vars => Explained'
  <2> SUFFICES ASSUME Explained, [Next]_vars PROVE Explained'
    OBVIOUS
  <2>1. ASSUME NEW p \in Presentation, NEW a \in Age, Present(p, a) PROVE Explained'
    BY <2>1 DEF Explained, Present
  <2>2. ASSUME NEW p \in Presentation, NEW a \in Age, PresentUndecodable(p, a) PROVE Explained'
    <3>1. outcome' = Called'
      BY <2>2 DEF PresentUndecodable, Called, RawVerification, OutcomeFor, NotDecoded
    <3> QED
      BY <2>2, <3>1 DEF PresentUndecodable, Explained
  <2>3. ASSUME NEW r \in Report, OnCheck(r) PROVE Explained'
    BY <2>3 DEF Explained, OnCheck
  <2>4. CASE LibraryReturns \/ LibraryThrows
    <3>1. PICK t \in BOOLEAN : Conclude(t)
      BY <2>4 DEF LibraryReturns, LibraryThrows
    <3>2. outcome' = Called'
      BY <3>1 DEF Conclude, Called
    <3> QED
      BY <3>1, <3>2 DEF Explained, Conclude
  <2>5. CASE Answer
    BY <2>5 DEF Explained, Answer
  <2>6. CASE UNCHANGED vars
    BY <2>6 DEF Explained, Called, vars
  <2> QED
    BY <2>1, <2>2, <2>3, <2>4, <2>5, <2>6 DEF Next
<1> QED
  BY <1>1, <1>2, PTL DEF Spec

(* Once answered, the answer means what OutcomeMeaning says of it.         *)
LEMMA AnswerMeaning ==
  ASSUME TypeOK, Explained, phase = "answered"
  PROVE  LET v == ClassifyAssessments(assessments, threw)
         IN  /\ outcome # "malformed" => response.decodes /\ response.docType \in AgeDocTypes
             /\ outcome \notin {"malformed", "untrusted_issuer"} =>
                  v.issuerTrusted /\ v.authentic
             /\ outcome = "verified" => /\ v.withinValidity /\ v.deviceBound
                                        /\ response.elements[minAge] = "true"
BY OutcomeMeaning DEF TypeOK, Explained, Called

(* Accepted only when every check was positively reported and none failed  *)
(* (verify-shared.ts:67), whatever else the library reports.               *)
THEOREM AcceptanceFailsClosed == Spec => []FailClosed
<1>1. TypeOK /\ Explained => FailClosed
  <2> SUFFICES ASSUME TypeOK, Explained, outcome = "verified" PROVE FailClosed
    BY DEF FailClosed
  <2> DEFINE v == ClassifyAssessments(assessments, threw)
  <2>1. phase = "answered"
    BY DEF Explained
  <2>2. /\ response.decodes /\ response.docType \in AgeDocTypes
        /\ response.elements[minAge] = "true"
        /\ v.issuerTrusted /\ v.authentic /\ v.withinValidity /\ v.deviceBound
    BY <2>1, AnswerMeaning
  <2>3. /\ \A c \in IssuerChecks : IssuerPassed(assessments, c)
        /\ ~ UnknownIssuerFailure(assessments)
        /\ ~ Failed(assessments, "DATA_INTEGRITY") /\ ~ Failed(assessments, "DOCUMENT_FORMAT")
        /\ PassedIn(assessments, "DEVICE_AUTH")
    BY <2>2 DEF ClassifyAssessments, IssuerChecks
  <2>4. \A c \in IssuerChecks :
          \E r \in assessments : /\ r.status = "PASSED"
                                 /\ r.category = "ISSUER_AUTH"
                                 /\ r.check = c
    BY <2>3 DEF IssuerPassed, PassedIn, IssuerReports, Passed
  <2>5. ~ Failed(assessments, "ISSUER_AUTH")
    BY <2>3 DEF IssuerPassed, PassedIn, IssuerReports, Failed, UnknownIssuerFailure
  <2> QED
    BY <2>2, <2>3, <2>4, <2>5 DEF FailClosed, PassedIn, WeighedCategories
<1> QED
  BY VerificationTypeCorrect, ExplainedInvariant, <1>1, PTL

(* Validity, replay and age are said only of a credential whose chain and  *)
(* signature were established (pipeline.ts:4).                             *)
THEOREM DisclosureInOrder == Spec => []VerdictsDiscloseInOrder
<1>1. TypeOK /\ Explained => VerdictsDiscloseInOrder
  <2> SUFFICES ASSUME TypeOK, Explained,
                      outcome \in {"expired", "replay", "predicate_unavailable",
                                   "predicate_false", "verified"}
               PROVE  \A c \in TrustChecks \cup {"signature"} : IssuerPassed(assessments, c)
    BY DEF VerdictsDiscloseInOrder
  <2>1. phase = "answered"
    BY DEF Explained
  <2>2. /\ ClassifyAssessments(assessments, threw).issuerTrusted
        /\ ClassifyAssessments(assessments, threw).authentic
    BY <2>1, AnswerMeaning
  <2> QED
    BY <2>2 DEF ClassifyAssessments
<1> QED
  BY VerificationTypeCorrect, ExplainedInvariant, <1>1, PTL

(* A throw no report explains ends in a rejection of the credential itself *)
(* (verify-shared.ts:98).                                                  *)
THEOREM UnexplainedThrowsRejected == Spec => []UnexplainedThrowRejected
<1>1. TypeOK /\ Explained => UnexplainedThrowRejected
  <2> SUFFICES ASSUME TypeOK, Explained, phase = "answered", threw, NothingFailed(assessments)
               PROVE  outcome \in {"malformed", "untrusted_issuer"}
    BY DEF UnexplainedThrowRejected
  <2>1. ~ ClassifyAssessments(assessments, threw).authentic
    BY DEF ClassifyAssessments
  <2> QED
    BY <2>1, AnswerMeaning
<1> QED
  BY VerificationTypeCorrect, ExplainedInvariant, <1>1, PTL

(* A failed report takes nothing away from what one that passed could give,*)
(* so whatever is accepted with it would be accepted without it, unless it *)
(* is the first to fail and so explains a throw.                           *)
LEMMA VerdictsWithoutFailure ==
  ASSUME NEW reports, NEW f, f.status = "FAILED", NEW t \in BOOLEAN,
         ~ (t /\ NothingFailed(reports)),
         LET v == ClassifyAssessments(reports \cup {f}, t)
         IN  v.issuerTrusted /\ v.authentic /\ v.withinValidity /\ v.deviceBound
  PROVE  ClassifyAssessments(reports, t) = ClassifyAssessments(reports \cup {f}, t)
<1> DEFINE more == reports \cup {f}
<1>1. ASSUME NEW category PROVE /\ Passed(more, category) <=> Passed(reports, category)
                                /\ Failed(reports, category) => Failed(more, category)
  BY DEF Passed, Failed
<1>2. ASSUME NEW c PROVE IssuerPassed(more, c) => IssuerPassed(reports, c)
  BY DEF IssuerPassed, PassedIn, IssuerReports, Passed, Failed
<1>3. UnknownIssuerFailure(reports) => UnknownIssuerFailure(more)
  BY DEF UnknownIssuerFailure
<1>4. /\ \A c \in TrustChecks : IssuerPassed(more, c)
      /\ \A c \in ValidityChecks : IssuerPassed(more, c)
      /\ IssuerPassed(more, "signature")
      /\ ~ UnknownIssuerFailure(more)
      /\ ~ Failed(more, "DATA_INTEGRITY") /\ ~ Failed(more, "DOCUMENT_FORMAT")
      /\ PassedIn(more, "DEVICE_AUTH")
  BY DEF ClassifyAssessments
<1>5. PassedIn(reports, "DEVICE_AUTH")
  BY <1>1, <1>4 DEF PassedIn
<1> DEFINE AllTrue == [issuerTrusted |-> TRUE, authentic |-> TRUE,
                       withinValidity |-> TRUE, deviceBound |-> TRUE]
<1>6. ClassifyAssessments(more, t) = AllTrue
  <2>1. ~ NothingFailed(more)
    BY DEF NothingFailed
  <2> HIDE DEF more
  <2> QED
    BY <1>4, <2>1 DEF ClassifyAssessments
<1>7. ClassifyAssessments(reports, t) = AllTrue
  BY <1>1, <1>2, <1>3, <1>4, <1>5 DEF ClassifyAssessments
<1> QED
  BY <1>6, <1>7

(* And a failure of a kind that is looked at ends acceptance, throw or not.*)
LEMMA WeighedFailureRejects ==
  ASSUME NEW reports, NEW f \in reports, f.status = "FAILED", f.category \in WeighedCategories,
         NEW t \in BOOLEAN,
         LET v == ClassifyAssessments(reports, t)
         IN  v.issuerTrusted /\ v.authentic /\ v.withinValidity /\ v.deviceBound
  PROVE  FALSE
<1>1. /\ \A c \in IssuerChecks : IssuerPassed(reports, c)
      /\ ~ UnknownIssuerFailure(reports)
      /\ ~ Failed(reports, "DATA_INTEGRITY") /\ ~ Failed(reports, "DOCUMENT_FORMAT")
      /\ PassedIn(reports, "DEVICE_AUTH")
  BY DEF ClassifyAssessments, IssuerChecks
<1>2. ~ Failed(reports, "ISSUER_AUTH")
  BY <1>1 DEF IssuerPassed, PassedIn, IssuerReports, Failed, UnknownIssuerFailure
<1> QED
  BY <1>1, <1>2 DEF WeighedCategories, Failed, PassedIn

(* One more failure turns a rejection into an acceptance in one case only: *)
(* the library throws, nothing else had failed, and the mapping does not   *)
(* look at failures of that kind (verify-shared.ts:98-99), for any reports *)
(* before it and whether the library throws or returns.                    *)
THEOREM FailuresHelpOnlyToExplain == Spec => FailureHelpsOnlyToExplain
<1> DEFINE Helps(r, t) == /\ OnCheck(r) /\ r.status = "FAILED"
                          /\ ~ WouldAccept(assessments, t) /\ WouldAccept(assessments, t)'
           Only == \A r \in Report, t \in BOOLEAN :
                     Helps(r, t) => ExplainsThrow(r, assessments, t)
<1>1. TypeOK => Only
  <2> SUFFICES ASSUME TypeOK, NEW r \in Report, NEW t \in BOOLEAN, Helps(r, t)
               PROVE  ExplainsThrow(r, assessments, t)
    OBVIOUS
  <2> DEFINE more == assessments \cup {r}
             v == ClassifyAssessments(more, t)
  <2>1. assessments' = more /\ UNCHANGED <<response, minAge>>
    BY DEF OnCheck
  <2>2. OutcomeFor(RawVerification(response, v), minAge) = "verified"
    BY <2>1 DEF WouldAccept
  <2>3. v.issuerTrusted /\ v.authentic /\ v.withinValidity /\ v.deviceBound
    BY <2>2, OutcomeMeaning DEF TypeOK
  <2>4. t /\ NothingFailed(assessments)
    <3> SUFFICES ASSUME ~ (t /\ NothingFailed(assessments)) PROVE FALSE
      OBVIOUS
    <3>1. ClassifyAssessments(assessments, t) = v
      BY <2>3, VerdictsWithoutFailure
    <3> QED
      BY <2>2, <3>1 DEF WouldAccept
  <2>5. r.category \notin WeighedCategories
    BY <2>3, WeighedFailureRejects
  <2> QED
    BY <2>4, <2>5 DEF ExplainsThrow
<1>2. TypeOK => [Only]_vars
  BY <1>1
<1> QED
  BY VerificationTypeCorrect, <1>2, PTL DEF FailureHelpsOnlyToExplain
=============================================================================
