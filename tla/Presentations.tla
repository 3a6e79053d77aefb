--------------------------- MODULE Presentations ---------------------------
(***************************************************************************)
(* What a wallet answers with (mock_authority/src/wallet.ts, the sealing   *)
(* half of core/src/iso-mdoc.ts and hpke.ts): documents that show the      *)
(* elements asked for and whose device signature covers the transcript,    *)
(* sealed for the protocols that encrypt.  A wallet knows of the challenge *)
(* only what its request says.                                             *)
(***************************************************************************)
EXTENDS Requests

Document(issued, disclose, transcript) ==
  [ card |-> issued, family_name |-> "absent", boundTo |-> transcript,
    shows |-> [a \in Age |-> IF a \in disclose THEN issued.elements[a] ELSE "absent"] ]

DeviceResponse(cards, disclose, transcript) ==
  [mdoc |-> [i \in DOMAIN cards |-> Document(cards[i], disclose, transcript)]]

Present(cards, nonce, origin, disclose) ==
  DeviceResponse(cards, disclose, DcApiTranscript(origin, nonce, {}))

---------------------------------------------------------------------------
(* ISO 18013-7: HPKE to the key in the EncryptionInfo, the transcript as   *)
(* info.  Sealing stands for itself: the bytes say what was sealed how.    *)

HpkeSeal(key, info, plaintext) ==
  [ enc |-> Bytes([encapsulatedFor |-> key]),
    ciphertext |-> Bytes([sealedFor |-> key, info |-> info, plaintext |-> plaintext]) ]

(* The params of ["dcapi", params], or those of a bare map.                *)
Params(value) == IF Is("list", value) /\ Len(value.list) >= 2 THEN value.list[2] ELSE value

Least(numbers) == {k \in numbers : \A m \in numbers : k <= m}

(* getField: the first of the names the map has.                           *)
Pairs(value) == IF Is("object", value) THEN value.object ELSE << >>

At(value, name) == {i \in DOMAIN Pairs(value) : Pairs(value)[i][1] = name}

Field(value, names) ==
  LET named == {k \in DOMAIN names : At(value, names[k]) # {}}
  IN  {Pairs(value)[i][2] : i \in UNION {At(value, names[k]) : k \in Least(named)}}

RecipientPublicKey(info) ==
  UNION { {x.bytes : x \in {x \in Field(coseKey, <<"-2">>) : Is("bytes", x)}}
           : coseKey \in Field(Params(info.cbor), <<"recipientPublicKey">>) }

SealIsoMdocResponse(plaintext, info, origin) ==
  {[cbor |-> [list |-> << Word("dcapi"),
     [object |-> << <<"enc", s.enc>>, <<"cipherText", s.ciphertext>> >>] >>]]
    : s \in {HpkeSeal(key, IsoTranscript(origin, info), plaintext)
              : key \in RecipientPublicKey(info)}}

PresentIso(cards, info, origin, disclose) ==
  SealIsoMdocResponse(DeviceResponse(cards, disclose, IsoTranscript(origin, info)), info, origin)

---------------------------------------------------------------------------
(* Google: a JWE to the key in the request, whose thumbprint the           *)
(* transcript carries.                                                     *)

PresentGoogle(cards, origin, nonce, key, disclose) ==
  LET response == DeviceResponse(cards, disclose, DcApiTranscript(origin, nonce, {key}))
      vpToken == [object |-> << <<"age_check", [list |-> <<Text(response)>>]>> >>]
  IN  [jwe |-> [to |-> key, plaintext |-> [json |-> [object |-> << <<"vp_token", vpToken>> >>]]]]

---------------------------------------------------------------------------
(* A wallet's answer to one entry of the requests, from a page at origin:  *)
(* it discloses what is asked.                                             *)
Respond(request, cards, origin) ==
  CASE request.protocol = Unsigned ->
         {Present(cards, request.data.nonce, origin, request.data.credentials[1].claims)}
    [] request.protocol = Google ->
         LET payload == request.data.payload
         IN  {PresentGoogle(cards, origin, payload.nonce, payload.key, payload.credentials[1].claims)}
    [] request.protocol = Iso ->
         PresentIso(cards, request.data.encryptionInfo, origin,
                    request.data.deviceRequest.docRequests[1].itemsRequest.claims)

(* What wallets with real IDs ask of a request before they answer it       *)
(* (iso-reader-auth.ts:2, google-openid4vp.ts:4): that the site's reader   *)
(* signed what was sent, for the origin of the page.                       *)
SignedBy(signatures, payload) ==
  \E s \in signatures :
    s.x5chain # << >> /\ s.signature = [by |-> s.x5chain[1].key, over |-> payload]

AppleAnswers(data, origin) ==
  LET transcript == IsoTranscript(origin, data.encryptionInfo)
      request == data.deviceRequest
      items(i) == request.docRequests[i].itemsRequest
  IN  /\ request.version = "1.1"
      /\ SignedBy(request.readerAuthAll,
           ReaderAuthentication("ReaderAuthenticationAll", transcript,
                                [i \in DOMAIN request.docRequests |-> items(i)]))
      /\ \A i \in DOMAIN request.docRequests :
           SignedBy(request.docRequests[i].readerAuth,
             ReaderAuthentication("ReaderAuthentication", transcript, <<items(i)>>))

GoogleAnswers(data, origin) ==
  /\ data.x5c # << >>
  /\ data.signedWith = data.x5c[1].key
  /\ data.payload.client_id = data.x5c[1]
  /\ \E i \in DOMAIN data.payload.expected_origins : data.payload.expected_origins[i] = origin
=============================================================================
