----------------------------- MODULE Authority -----------------------------
(***************************************************************************)
(* Certificates, and the credentials an issuing authority signs with them: *)
(* what the repository's mock authority makes (mock_authority/src/         *)
(* authority.ts), which stands for any issuer.  Keys are symbolic: a       *)
(* signature is the name of the key it was made with, so that only the     *)
(* holder of the key can have made it.                                     *)
(***************************************************************************)
EXTENDS Outcome, SequencesExt, FiniteSets

CONSTANT Now  \* the date of verification

ASSUME NowAssumption == Now \in Nat

KeyUsages == {"absent", "keyCertSign", "digitalSignature"}

(* Variant of InDate: neither end included.                                *)
InDateExclusive(window) == window.from < Now /\ Now < window.to

(* A certificate is valid from one date to another, both included.  usage  *)
(* "absent" is a certificate without the keyUsage extension.               *)
InDate(window) == window.from <= Now /\ Now <= window.to

KeyRecord == [owner: STRING, role: STRING]

CertificateRecord ==
  [subject: STRING, issuer: STRING, key: KeyRecord, signedWith: KeyRecord, ca: BOOLEAN,
   usage: KeyUsages, from: Nat, to: Nat]

SelfSigned(cert) == cert.signedWith = cert.key /\ cert.issuer = cert.subject

(* Variant of CanIssue: whoever has the key usage may issue.               *)
CanIssueByUsage(cert) == cert.usage # "digitalSignature"

(* assertCanIssueCertificates                                              *)
CanIssue(cert) == cert.ca /\ cert.usage \in {"absent", "keyCertSign"}

Issued(cert, by) == cert.issuer = by.subject /\ cert.signedWith = by.key

(* What a path from a trusted certificate down to a document signer's is:  *)
(* every certificate in date, the anchor included, every one but the last  *)
(* an authority's that may sign certificates, and signed by the one above. *)
Linked(p) == \A i \in 2 .. Len(p) : Issued(p[i], p[i - 1])

ValidPath(p, signer, anchors) ==
  /\ Len(p) >= 1
  /\ p[1] \in anchors
  /\ p[Len(p)] = signer
  /\ \A i \in 1 .. Len(p) : p[i].from <= Now /\ Now <= p[i].to
  /\ \A i \in 1 .. Len(p) - 1 : p[i].ca /\ p[i].usage \in {"absent", "keyCertSign"}
  /\ Linked(p)

---------------------------------------------------------------------------
(* verifyCertificateChain on the certificates an issuer sent along, the    *)
(* signer's own first, and those the site trusts.                          *)

Pool(chain, anchors) == ToSet(chain) \cup anchors

Issuers(cert, pool) == IF SelfSigned(cert) THEN {} ELSE {c \in pool : Issued(cert, c)}

(* The paths that end in the signer and otherwise consist of issuers at    *)
(* hand; none without a circle is longer.                                  *)
Ways(chain, anchors) ==
  LET pool == Pool(chain, anchors)
      issuers == UNION {Issuers(c, pool) : c \in pool}
  IN  {above \o <<chain[1]>> : above \in
         UNION {[1 .. n -> issuers] : n \in 0 .. Len(chain) + Cardinality(anchors) - 1}}

(* The path the builder climbs to where it ends, which it never does in a  *)
(* circle.  Of several that may have issued a certificate it takes one,    *)
(* and never another instead; which one is left open.                      *)
IssuerTaken(cert, pool) == CHOOSE c \in Issuers(cert, pool) : TRUE

Climbed(p, pool) ==
  /\ Issuers(p[1], pool) = {}
  /\ \A i \in 2 .. Len(p) : Issuers(p[i], pool) # {} /\ p[i - 1] = IssuerTaken(p[i], pool)

(* Variant of AnchorOf: the lowest.                                        *)
LowestAnchorOf(p, anchors) ==
  {i \in DOMAIN p : p[i] \in anchors /\ \A j \in i + 1 .. Len(p) : p[j] \notin anchors}

(* The highest trusted certificate, if there is one: the path is cut there.*)
AnchorOf(p, anchors) ==
  {i \in DOMAIN p : p[i] \in anchors /\ \A j \in 1 .. i - 1 : p[j] \notin anchors}

Recognised(chain, anchors) ==
  \E p \in Ways(chain, anchors) :
    /\ Climbed(p, Pool(chain, anchors))
    /\ Len(p) >= Len(chain)
    /\ \E i \in AnchorOf(p, anchors) :
         \A j \in i .. Len(p) : InDate(p[j]) /\ (j < Len(p) => CanIssue(p[j]))

(* A straight path: what was sent is a valid path, or all of it but its    *)
(* anchor, and no certificate at hand but the one above it could have      *)
(* issued any on the path.                                                 *)
SentPaths(chain, anchors) ==
  {Reverse(chain)} \cup {<<c>> \o Reverse(chain) : c \in Pool(chain, anchors)}

Straight(p, chain, anchors) ==
  /\ ValidPath(p, chain[1], anchors)
  /\ \A i \in 2 .. Len(p) : Issuers(p[i], Pool(chain, anchors)) = {p[i - 1]}
  /\ Issuers(p[1], Pool(chain, anchors)) = {}

---------------------------------------------------------------------------
(* MockAuthority.create.  All its authorities bear the same names and      *)
(* differ in their keys only.                                              *)

KeyOf(authority, role) == [owner |-> authority, role |-> role]

IacaCert(authority, from, to) ==
  [ subject |-> "IACA", issuer |-> "IACA",
    key |-> KeyOf(authority, "iaca"), signedWith |-> KeyOf(authority, "iaca"),
    ca |-> TRUE, usage |-> "keyCertSign", from |-> from, to |-> to ]

DsCert(authority, from, to) ==
  [ subject |-> "Document Signer", issuer |-> "IACA",
    key |-> KeyOf(authority, "ds"), signedWith |-> KeyOf(authority, "iaca"),
    ca |-> FALSE, usage |-> "digitalSignature", from |-> from, to |-> to ]

(* issueMdl: the ages signed as true, overridden by further claims, bound  *)
(* to a device key made for the credential.                                *)
IssueMdl(authority, cert, docType, ageOver, claims, window) ==
  [ docType |-> docType, x5chain |-> <<cert>>, signedWith |-> KeyOf(authority, "ds"),
    elements |-> [a \in Age |-> IF a \in DOMAIN claims THEN claims[a]
                                ELSE IF a \in ageOver THEN "true" ELSE "absent"],
    family_name |-> "Doe", window |-> window, signed |-> Now ]
=============================================================================
