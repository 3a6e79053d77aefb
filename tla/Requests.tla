------------------------------ MODULE Requests ------------------------------
(***************************************************************************)
(* What the site hands to wallets (core/src/request.ts, iso-mdoc.ts,       *)
(* iso-reader-auth.ts, google-openid4vp.ts, and GET /pavel/request): three *)
(* requests for one age, each binding the answer to it in its own way.     *)
(*                                                                         *)
(* JSON and CBOR values are records of one field: [text |-> content],      *)
(* [bytes |-> content], [list |-> sequence], [object |-> <<name, value>>   *)
(* pairs in their order].  A string's or byte string's content is again a  *)
(* record of one field naming what it encodes: [cbor |-> value],           *)
(* [json |-> value], [mdoc |-> documents], [jwe |-> ...], or just a        *)
(* [word |-> ...].  An operator for code that may throw returns the set of *)
(* its result, empty if it throws.                                         *)
(***************************************************************************)
EXTENDS Authority, SequencesExt

Text(content) == [text |-> content]
Bytes(content) == [bytes |-> content]
Word(w) == [text |-> [word |-> w]]
Is(kind, value) == kind \in DOMAIN value

(* A web origin as configured: its address and how many slashes end it.    *)
Origin(address, slashes) == [address |-> address, slashes |-> slashes]

(* Variant of SiteOrigin: as configured.                                   *)
SiteOriginAsGiven(site) == site.origin

SiteOrigin(site) == [site.origin EXCEPT !.slashes = 0]

(* The transcripts a device signature covers.  thumbprint is none, or that *)
(* of the key the answer is to be encrypted with.                          *)
DcApiTranscript(origin, nonce, thumbprint) ==
  [handover |-> "OpenID4VPDCAPIHandover", origin |-> origin, nonce |-> nonce,
   thumbprint |-> thumbprint]

IsoTranscript(origin, info) == [handover |-> "dcapi", origin |-> origin, info |-> info]

---------------------------------------------------------------------------
(* Plain OpenID4VP.                                                        *)

CredentialQuery(docType, minAge) == [docType |-> docType, claims |-> {minAge}]

BuildAgeRequest(minAge, nonce, origin) ==
  [response_mode |-> "dc_api", nonce |-> nonce,
   credentials |-> <<CredentialQuery("mDL", minAge)>>, expected_origin |-> origin]

---------------------------------------------------------------------------
(* Readers: a signing key and its certificates, the leaf first.            *)

ReaderFromPem(key, chain) == [privateKey |-> key, certChain |-> chain]

CreateGoogleReader(owner) ==
  LET key == KeyOf(owner, "reader")
  IN  ReaderFromPem(key, <<[ subject |-> owner, issuer |-> owner, key |-> key,
                             signedWith |-> key, ca |-> FALSE, usage |-> "digitalSignature",
                             from |-> Now, to |-> Now + 1 ]>>)

(* Google's: a JWT signed with the reader's key, which asks for a driver's *)
(* licence or an ID Pass.  The hash in client_id stands for what it is of. *)
BuildGoogleAgeRequest(minAge, nonce, origin, reader, key) ==
  {[ payload |-> [ response_mode |-> "dc_api.jwt", client_id |-> leaf, nonce |-> nonce,
                   expected_origins |-> <<origin>>,
                   credentials |-> << CredentialQuery("mDL", minAge),
                                      CredentialQuery("idPass", minAge) >>,
                   credential_sets |-> << <<1>>, <<2>> >>,
                   key |-> key ],
     x5c |-> reader.certChain, signedWith |-> reader.privateKey ]
    : leaf \in {reader.certChain[i] : i \in DOMAIN reader.certChain \cap {1}}}

---------------------------------------------------------------------------
(* ISO 18013-7.                                                            *)

CoseKey(key) == [object |-> << <<"-2", Bytes(key)>>, <<"-3", Bytes(key)>> >>]

EncryptionInfo(nonce, key) ==
  [cbor |-> [list |-> << Word("dcapi"),
    [object |-> << <<"nonce", Bytes(nonce)>>, <<"recipientPublicKey", CoseKey(key)>> >>] >>]]

(* Variant of CoseSign1Detached: the chain the other way round.            *)
CoseSign1RootFirst(reader, payload) ==
  [x5chain |-> Reverse(reader.certChain),
   signature |-> [by |-> reader.privateKey, over |-> payload]]

CoseSign1Detached(reader, payload) ==
  [x5chain |-> reader.certChain, signature |-> [by |-> reader.privateKey, over |-> payload]]

ReaderAuthentication(context, transcript, items) ==
  [context |-> context, transcript |-> transcript, items |-> items]

(* Each document request is signed, and all of them together.              *)
SignIsoDeviceRequest(deviceRequest, transcript, reader) ==
  LET items(i) == deviceRequest.docRequests[i].itemsRequest
      all == [i \in DOMAIN deviceRequest.docRequests |-> items(i)]
      sign(context, covered) ==
        {CoseSign1Detached(reader, ReaderAuthentication(context, transcript, covered))}
  IN  IF reader.certChain = << >> THEN {}
      ELSE {[ version |-> "1.1", readerAuthAll |-> sign("ReaderAuthenticationAll", all),
              docRequests |-> [i \in DOMAIN all |->
                [ itemsRequest |-> items(i),
                  readerAuth |-> sign("ReaderAuthentication", <<items(i)>>) ]] ]}

(* readers has the identity to sign with, if there is one.                 *)
BuildIsoMdocAgeRequest(minAge, info, readers, origin) ==
  LET unsigned == [ version |-> "1.0", readerAuthAll |-> {},
                    docRequests |-> <<[ itemsRequest |-> CredentialQuery("mDL", minAge),
                                        readerAuth |-> {} ]>> ]
      requests == IF readers = {} THEN {unsigned}
                  ELSE UNION {SignIsoDeviceRequest(unsigned, IsoTranscript(origin, info), reader)
                               : reader \in readers}
  IN  {[deviceRequest |-> request, encryptionInfo |-> info] : request \in requests}

---------------------------------------------------------------------------
(* GET /pavel/request.  A site has an origin, the readers configured for   *)
(* Google and for Apple, and its trust anchors.                            *)

Key(use, n) == [use |-> use, of |-> n]

(* What the n-th challenge puts in the session; its nonces and keys are    *)
(* its own.                                                                *)
Challenge(site, n, minAge) ==
  [ nonce |-> n, minAge |-> minAge,
    isoKey |-> Key("iso", n), isoInfo |-> EncryptionInfo(Key("nonce", n), Key("iso", n)),
    googleKey |-> {Key("google", n) : reader \in site.google} ]

Requests(site, c) ==
  LET iso == BuildIsoMdocAgeRequest(c.minAge, c.isoInfo, site.apple, SiteOrigin(site))
      google == UNION {BuildGoogleAgeRequest(c.minAge, c.nonce, SiteOrigin(site), reader, key)
                        : reader \in site.google, key \in c.googleKey}
      entries(protocol, data) == [protocol |-> protocol, data |-> data]
      first == IF site.google = {} THEN {<< >>} ELSE {<<entries(Google, g)>> : g \in google}
  IN  {f \o << entries(Unsigned, BuildAgeRequest(c.minAge, c.nonce, SiteOrigin(site))),
               entries(Iso, i) >> : f \in first, i \in iso}
=============================================================================
