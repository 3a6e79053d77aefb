--------------------------- MODULE Verification ---------------------------
(***************************************************************************)
(* One verifier working through presentations (verifyPresentation, and the *)
(* ISO and Google paths, which share verifyDecodedResponse).  The mdoc     *)
(* library runs the checks and reports them one at a time through onCheck; *)
(* it may report any of them, skip any of them, and throw at any point.    *)
(***************************************************************************)
EXTENDS Outcome

CONSTANTS
  Presentation, \* what may be sent in for verification
  Report        \* the check reports the library may make

ASSUME PresentationAssumption == Presentation \subseteq Response

ASSUME ReportAssumption ==
  Report \subseteq [status: {"PASSED", "FAILED"}, category: STRING, check: STRING]

VARIABLES
  phase,        \* "idle", "checking", or "answered"
  response,     \* the presentation in hand
  minAge,       \* the age it must prove
  assessments,  \* the reports collected by onCheck
  threw,        \* did verifyDeviceResponse throw
  outcome       \* the answer given, "none" until then

vars == <<phase, response, minAge, assessments, threw, outcome>>

Blank == [decodes |-> FALSE, docType |-> "none", readable |-> FALSE,
          elements |-> [a \in Age |-> "absent"]]

Init ==
  /\ phase = "idle"
  /\ response = Blank
  /\ minAge \in Age
  /\ assessments = {}
  /\ threw = FALSE
  /\ outcome = "none"

(* A presentation arrives.  One that decodes goes to the library.          *)
Present(p, a) ==
  /\ phase = "idle"
  /\ p.decodes
  /\ phase' = "checking"
  /\ response' = p
  /\ minAge' = a
  /\ UNCHANGED <<assessments, threw, outcome>>

(* One that does not decode is answered at once, with no check run.        *)
PresentUndecodable(p, a) ==
  /\ phase = "idle"
  /\ ~ p.decodes
  /\ phase' = "answered"
  /\ response' = p
  /\ minAge' = a
  /\ outcome' = OutcomeFor(RawVerification(p, NoVerdict), a)
  /\ UNCHANGED <<assessments, threw>>

OnCheck(r) ==
  /\ phase = "checking"
  /\ r \notin assessments
  /\ assessments' = assessments \cup {r}
  /\ UNCHANGED <<phase, response, minAge, threw, outcome>>

Conclude(t) ==
  /\ phase = "checking"
  /\ phase' = "answered"
  /\ threw' = t
  /\ outcome' = OutcomeFor(RawVerification(response,
                                           ClassifyAssessments(assessments, t)),
                           minAge)
  /\ UNCHANGED <<response, minAge, assessments>>

LibraryReturns == Conclude(FALSE)
LibraryThrows == Conclude(TRUE)

(* The answer is sent; the verifier keeps nothing of the presentation.     *)
Answer ==
  /\ phase = "answered"
  /\ phase' = "idle"
  /\ response' = Blank
  /\ assessments' = {}
  /\ threw' = FALSE
  /\ outcome' = "none"
  /\ UNCHANGED minAge

Next ==
  \/ \E p \in Presentation, a \in Age : Present(p, a) \/ PresentUndecodable(p, a)
  \/ \E r \in Report : OnCheck(r)
  \/ LibraryReturns
  \/ LibraryThrows
  \/ Answer

Spec == Init /\ [][Next]_vars

---------------------------------------------------------------------------

TypeOK ==
  /\ phase \in {"idle", "checking", "answered"}
  /\ response \in Response
  /\ minAge \in Age
  /\ assessments \subseteq Report
  /\ threw \in BOOLEAN
  /\ outcome \in Outcomes \cup {"none"}

(* The kinds of check whose failure is looked at (verify-shared.ts:76-97). *)
WeighedCategories == {"ISSUER_AUTH", "DEVICE_AUTH", "DATA_INTEGRITY", "DOCUMENT_FORMAT"}

(* Fail-closed (verify-shared.ts:67): a presentation is accepted only when *)
(* it decoded into an age document that discloses the age asked for as     *)
(* true, when each of the six issuer checks and a device check were        *)
(* positively reported, and when no check of the four kinds failed.        *)
FailClosed ==
  outcome = "verified" =>
    /\ response.decodes /\ response.docType \in AgeDocTypes
    /\ response.elements[minAge] = "true"
    /\ \A c \in IssuerChecks :
         \E r \in assessments : /\ r.status = "PASSED"
                                /\ r.category = "ISSUER_AUTH"
                                /\ r.check = c
    /\ Passed(assessments, "DEVICE_AUTH")
    /\ \A k \in WeighedCategories : ~ Failed(assessments, k)

(* Precedence (pipeline.ts:4): what an answer may tell about a credential. *)
(* Whether it was too old, forwarded, or under age is only ever said of a  *)
(* credential whose issuer chain and signature were both established.      *)
VerdictsDiscloseInOrder ==
  outcome \in {"expired", "replay", "predicate_unavailable", "predicate_false", "verified"} =>
    \A c \in TrustChecks \cup {"signature"} :
      IssuerPassed(assessments, c)

(* An unexplained throw never ends in acceptance (verify-shared.ts:98):    *)
(* if the library threw and everything reported had passed, the answer is  *)
(* one of the two that reject the credential itself.                       *)
UnexplainedThrowRejected ==
  phase = "answered" /\ threw /\ NothingFailed(assessments) =>
    outcome \in {"malformed", "untrusted_issuer"}

(* What one more failure can do, were the library to stop here, returning  *)
(* or throwing: it takes acceptance away or changes nothing, but for one   *)
(* case.  After a throw that nothing reported explains, a failure of a kind*)
(* the mapping does not weigh passes for the explanation, and the answer   *)
(* goes from rejection to acceptance (verify-shared.ts:98-99, against core *)
(* README:79, "or reports a failure PAVEL doesn't recognize").             *)
WouldAccept(reports, t) ==
  OutcomeFor(RawVerification(response, ClassifyAssessments(reports, t)), minAge) = "verified"

ExplainsThrow(r, reports, t) ==
  t /\ NothingFailed(reports) /\ r.category \notin WeighedCategories

FailureHelpsOnlyToExplain ==
  [][\A r \in Report, t \in BOOLEAN :
       /\ OnCheck(r) /\ r.status = "FAILED"
       /\ ~ WouldAccept(assessments, t) /\ WouldAccept(assessments, t)'
       => ExplainsThrow(r, assessments, t)]_vars

---------------------------------------------------------------------------
(* What the package README says of the library's reports: "If the          *)
(* underlying library skips a check [...] the answer is rejected, not      *)
(* accepted" (core README:79).                                             *)
SkippedCheckRejected ==
  outcome = "verified" =>
    \A k \in {"ISSUER_AUTH", "DEVICE_AUTH", "DATA_INTEGRITY"} : Passed(assessments, k)
=============================================================================
