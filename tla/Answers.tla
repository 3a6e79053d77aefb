------------------------------ MODULE Answers ------------------------------
(***************************************************************************)
(* From a wallet's answer to the outcome: what the client makes of it      *)
(* (client/src/dc-api.ts, index.ts), how POST /pavel/verify routes it, and *)
(* the three verifiers of core.                                            *)
(***************************************************************************)
EXTENDS Presentations

Nothing == [undefined |-> "undefined"]
Object(name, value) == [object |-> << <<name, value>> >>]

Elements(value) ==
  IF Is("list", value) THEN value.list
  ELSE IF Is("object", value) THEN [i \in DOMAIN value.object |-> value.object[i][2]]
  ELSE << >>

IsText(value) == Is("text", value)

(* The text of the first of the values that is one, if any is.             *)
FirstText(values) ==
  {values[i].text : i \in Least({i \in DOMAIN values : IsText(values[i])})}

---------------------------------------------------------------------------
(* The client.  Base64url text is left as it is; JSON text is dug into.    *)

Base64Url(content) == ~ Is("jwe", content) /\ ~ Is("json", content)

AsTokenString(value) ==
  IF IsText(value) THEN {value.text}
  ELSE IF Is("list", value) THEN FirstText(value.list) ELSE {}

(* First the values as they are, then what is under the credential's id,   *)
(* then what is under any other.                                           *)
Candidates(container, credentialId) ==
  << AsTokenString(container),
     UNION {AsTokenString(v) : v \in Field(container, <<credentialId>>)} >>
    \o [i \in DOMAIN Elements(container) |-> AsTokenString(Elements(container)[i])]

DigVpToken(value, credentialId) ==
  LET inner == Field(value, <<"vp_token">>)
      candidates == Candidates(IF inner = {} THEN value ELSE CHOOSE v \in inner : TRUE,
                               credentialId)
  IN  UNION {candidates[i] : i \in Least({i \in DOMAIN candidates : candidates[i] # {}})}

ExtractVpToken(data, credentialId) ==
  IF ~ IsText(data) THEN DigVpToken(data, credentialId)
  ELSE IF Is("json", data.text) THEN DigVpToken(data.text.json, credentialId)
  ELSE IF Base64Url(data.text) THEN {data.text} ELSE {}

(* The body of POST /pavel/verify; none if the answer cannot be read.      *)
Body(protocol, vpToken, response) ==
  [protocol |-> protocol, vp_token |-> vpToken, response |-> response]

VerifyBody(protocol, data) ==
  IF protocol \in {Iso, Google} THEN {Body(protocol, Nothing, data)}
  ELSE {Body(protocol, Text(token), Nothing) : token \in ExtractVpToken(data, "age_check")}

---------------------------------------------------------------------------
(* The shared verifier.  The library checks every document and reports     *)
(* every check, passed or failed; the issuer's chain is validated as in    *)
(* IssuerChain.                                                            *)

Report(ok, category, check) ==
  [status |-> IF ok THEN "PASSED" ELSE "FAILED", category |-> category, check |-> check]

RecogniseIssuer(card, anchors) == Recognised(card.x5chain, anchors)

Reports(document, transcript, anchors) ==
  LET card == document.card
      signer == card.x5chain[1]
      unchanged == /\ document.family_name \in {"absent", card.family_name}
                   /\ \A a \in Age : document.shows[a] \in {"absent", card.elements[a]}
  IN  { Report(RecogniseIssuer(card, anchors), "ISSUER_AUTH", "trustChain"),
        Report(InDate(signer), "ISSUER_AUTH", "certificateValid"),
        Report(TRUE, "ISSUER_AUTH", "countryName"),
        Report(card.signedWith = signer.key, "ISSUER_AUTH", "signature"),
        Report(InDate(card.window), "ISSUER_AUTH", "msoValidNow"),
        Report(signer.from <= card.signed /\ card.signed <= signer.to,
               "ISSUER_AUTH", "msoSignedInCertValidity"),
        Report(unchanged, "DATA_INTEGRITY", "digests"),
        Report(document.boundTo = transcript, "DEVICE_AUTH", "signature") }

(* Document type and claims are those of the first document.               *)
Decoded(documents) ==
  [ decodes |-> TRUE, readable |-> TRUE,
    docType |-> IF documents = << >> THEN "none" ELSE documents[1].card.docType,
    elements |-> IF documents = << >> THEN [a \in Age |-> "absent"] ELSE documents[1].shows ]

VerifyDecodedResponse(documents, transcript, anchors) ==
  RawVerification(Decoded(documents),
    ClassifyAssessments(UNION {Reports(documents[i], transcript, anchors)
                                : i \in DOMAIN documents}, FALSE))

(* DeviceResponse.decode                                                   *)
DecodeResponse(content) == IF Is("mdoc", content) THEN {content.mdoc} ELSE {}

OutcomeOf(decoded, transcript, anchors, minAge) ==
  IF decoded = {} THEN OutcomeFor(NotDecoded, minAge)
  ELSE LET documents == CHOOSE d \in decoded : TRUE
       IN  OutcomeFor(VerifyDecodedResponse(documents, transcript, anchors), minAge)

---------------------------------------------------------------------------
(* The three ways in.                                                      *)

(* verifyPresentation with the backend of createOwfMdocBackend             *)
VerifyPresentation(vpToken, nonce, origin, minAge, anchors) ==
  OutcomeOf(DecodeResponse(vpToken), DcApiTranscript(origin, nonce, {}), anchors, minAge)

Envelope == <<"response", "Response", "data", "vp_token">>

(* The text of an encrypted answer, itself or in a field of its wrapper.   *)
Unwrap(data) ==
  IF IsText(data) THEN {data.text}
  ELSE {v.text : v \in {v \in Field(data, Envelope) : IsText(v)}}

ParseEncryptedResponse(data) ==
  UNION { LET params == Params(content.cbor)
          IN  {[enc |-> e.bytes, ciphertext |-> c.bytes]
                : e \in {e \in Field(params, <<"enc">>) : Is("bytes", e)},
                  c \in {c \in Field(params, <<"cipherText", "ciphertext", "cipher_text">>)
                           : Is("bytes", c)}}
           : content \in {content \in Unwrap(data) : Is("cbor", content)} }

(* Variant of HpkeOpen: the transcript is not bound.                       *)
HpkeOpenUnbound(key, sealed, info) ==
  IF sealed.enc.encapsulatedFor = key /\ sealed.ciphertext.sealedFor = key
    THEN {sealed.ciphertext.plaintext} ELSE {}

HpkeOpen(key, sealed, info) ==
  IF /\ sealed.enc.encapsulatedFor = key
     /\ sealed.ciphertext.sealedFor = key
     /\ sealed.ciphertext.info = info
    THEN {sealed.ciphertext.plaintext} ELSE {}

VerifyIsoMdocPresentation(data, c, origin, anchors) ==
  LET transcript == IsoTranscript(origin, c.isoInfo)
      opened == UNION {HpkeOpen(c.isoKey, sealed, transcript) : sealed \in ParseEncryptedResponse(data)}
  IN  OutcomeOf(UNION {DecodeResponse(plaintext) : plaintext \in opened}, transcript, anchors, c.minAge)

ExtractJweCompact(data) == {content \in Unwrap(data) : Is("jwe", content)}

ExtractMdocFromVpToken(vpToken) ==
  IF IsText(vpToken) THEN {vpToken.text}
  ELSE IF Elements(vpToken) = << >> THEN {}
  ELSE LET first == Elements(vpToken)[1]
       IN  IF IsText(first) THEN {first.text}
           ELSE IF Is("list", first) THEN FirstText(SubSeq(first.list, 1, 1)) ELSE {}

VerifyGooglePresentation(data, c, key, origin, anchors) ==
  LET payloads == {content.jwe.plaintext
                    : content \in {content \in ExtractJweCompact(data) : content.jwe.to = key}}
      mdocs == UNION {ExtractMdocFromVpToken(v)
                       : v \in UNION {Field(p.json, <<"vp_token">>)
                                       : p \in {p \in payloads : Is("json", p)}}}
  IN  OutcomeOf(UNION {DecodeResponse(mdoc) : mdoc \in mdocs},
                DcApiTranscript(origin, c.nonce, {key}), anchors, c.minAge)

(* POST /pavel/verify on a challenge in flight.                            *)
Verify(site, c, body) ==
  LET origin == SiteOrigin(site)
      isIso == body.protocol # Google /\ (body.protocol = Iso \/ body.response # Nothing)
  IN  IF body.protocol = Google
        THEN IF c.googleKey = {} THEN "malformed"
             ELSE LET key == CHOOSE k \in c.googleKey : TRUE
                  IN  VerifyGooglePresentation(body.response, c, key, origin, site.trustAnchors)
      ELSE IF isIso THEN VerifyIsoMdocPresentation(body.response, c, origin, site.trustAnchors)
      ELSE IF ~ IsText(body.vp_token) THEN "malformed"
      ELSE VerifyPresentation(body.vp_token.text, c.nonce, origin, c.minAge, site.trustAnchors)
=============================================================================
