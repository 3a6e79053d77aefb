---------------------------- MODULE IssuerChain ----------------------------
(***************************************************************************)
(* Validation of an issuer's certificate chain (core/src/mdoc-context.ts,  *)
(* verifyCertificateChain): a path is built upwards from the document      *)
(* signer's certificate, cut at the trust anchor, and walked down again.   *)
(*                                                                         *)
(* The builder (@peculiar/x509) is external: of the certificates at hand   *)
(* it takes one that names and verifies as the issuer, if there is one.    *)
(* The walk verifies each link once more, which changes nothing.           *)
(***************************************************************************)
EXTENDS Authority

CONSTANTS
  Certificate,  \* the certificates there are
  X5Chain,      \* the chains issuers may send along, the signer's own first
  AnchorSet     \* the sets of anchors (trustAnchors) a site may be given

ASSUME IssuerChainAssumption ==
  /\ Certificate \subseteq CertificateRecord
  /\ X5Chain \subseteq Seq(Certificate)
  /\ AnchorSet \subseteq SUBSET Certificate

VARIABLES
  stage,    \* "idle", "building", "walking", "accepted" or "rejected"
  x5chain,  \* the chain to validate
  trusted,  \* trustedCertificates
  path,     \* parsedChain, the highest certificate first
  checked   \* how far down the path the walk has come

chainVars == <<stage, x5chain, trusted, path, checked>>

Init ==
  /\ stage = "idle"
  /\ x5chain = << >>
  /\ trusted = {}
  /\ path = << >>
  /\ checked = 0

AtHand == Pool(x5chain, trusted)

IssuersOf(cert) == Issuers(cert, AtHand)

Reject == stage' = "rejected" /\ UNCHANGED <<x5chain, trusted, path, checked>>

---------------------------------------------------------------------------

Start(chain, anchors) ==
  /\ stage = "idle"
  /\ x5chain' = chain
  /\ trusted' = anchors
  /\ IF chain = << >> THEN stage' = "rejected" /\ UNCHANGED path
                      ELSE stage' = "building" /\ path' = <<chain[1]>>
  /\ UNCHANGED checked

FindIssuer(cert) ==
  /\ stage = "building"
  /\ cert \in IssuersOf(path[1])
  /\ cert \notin ToSet(path)
  /\ path' = <<cert>> \o path
  /\ UNCHANGED <<stage, x5chain, trusted, checked>>

(* The path would run in a circle: the builder throws.                     *)
RejectCircular ==
  /\ stage = "building"
  /\ IssuersOf(path[1]) \cap ToSet(path) # {}
  /\ Reject

Built == stage = "building" /\ IssuersOf(path[1]) = {}

TrustedAt == {i \in DOMAIN path : path[i] \in trusted}

RejectUnanchored ==
  /\ Built
  /\ Len(path) < Len(x5chain) \/ TrustedAt = {}
  /\ Reject

(* The path is cut above the highest trusted certificate.                  *)
Anchor ==
  /\ Built
  /\ Len(path) >= Len(x5chain)
  /\ \E i \in TrustedAt :
       /\ \A j \in TrustedAt : i <= j
       /\ path' = SubSeq(path, i, Len(path))
  /\ stage' = "walking"
  /\ UNCHANGED <<x5chain, trusted, checked>>

Walking == stage = "walking" /\ checked < Len(path)

Fit(i) ==
  /\ InDate(path[i])
  /\ i < Len(path) => CanIssue(path[i])

(* Variant of Descend: the loop runs one past the end.                     *)
DescendPastEnd ==
  /\ stage = "walking" /\ checked <= Len(path)
  /\ checked < Len(path) => Fit(checked + 1)
  /\ checked' = checked + 1
  /\ UNCHANGED <<stage, x5chain, trusted, path>>

Descend ==
  /\ Walking
  /\ Fit(checked + 1)
  /\ checked' = checked + 1
  /\ UNCHANGED <<stage, x5chain, trusted, path>>

RejectUnfit ==
  /\ Walking
  /\ ~ Fit(checked + 1)
  /\ Reject

Accept ==
  /\ stage = "walking" /\ checked = Len(path)
  /\ stage' = "accepted"
  /\ UNCHANGED <<x5chain, trusted, path, checked>>

(* The caller takes the answer; another chain may follow.                  *)
Report ==
  /\ stage \in {"accepted", "rejected"}
  /\ stage' = "idle" /\ x5chain' = << >> /\ trusted' = {} /\ path' = << >> /\ checked' = 0

Next ==
  \/ \E chain \in X5Chain, anchors \in AnchorSet : Start(chain, anchors)
  \/ \E cert \in Certificate : FindIssuer(cert)
  \/ RejectCircular \/ RejectUnanchored \/ Anchor
  \/ Descend \/ RejectUnfit \/ Accept \/ Report

Spec == Init /\ [][Next]_chainVars

---------------------------------------------------------------------------

TypeOK ==
  /\ stage \in {"idle", "building", "walking", "accepted", "rejected"}
  /\ x5chain \in Seq(Certificate)
  /\ trusted \in SUBSET Certificate
  /\ path \in Seq(Certificate)
  /\ checked \in 0 .. Len(path)
  /\ stage \in {"idle", "building"} => checked = 0

(* A chain is accepted only along a valid path, whatever certificates came *)
(* along, in whatever order, cross-signed or not (mdoc-context.ts:76).     *)
AcceptedAlongValidPath ==
  stage = "accepted" => ValidPath(path, x5chain[1], trusted)

(* Why it holds: while the path is built it is linked and ends in the      *)
(* signer; once cut it starts at an anchor and is fit as far as walked.    *)
PathInv ==
  /\ stage \in {"building", "walking", "accepted"} =>
       /\ x5chain # << >> /\ Len(path) >= 1
       /\ path[Len(path)] = x5chain[1]
       /\ Linked(path)
  /\ stage \in {"walking", "accepted"} =>
       /\ path[1] \in trusted
       /\ \A i \in 1 .. checked : InDate(path[i]) /\ (i < Len(path) => CanIssue(path[i]))
  /\ stage = "accepted" => checked = Len(path)

(* A straight chain is never turned away: if the certificates sent are a   *)
(* valid path's, or all of it but its anchor, and no certificate at hand   *)
(* but the one above it could have issued any on the path; dates that      *)
(* begin or end today included (mdoc-context-chain.test.ts:57 and 63,      *)
(* mdoc-context.ts:104-107).                                              *)
StraightPaths == {p \in SentPaths(x5chain, trusted) : Straight(p, x5chain, trusted)}

StraightChainAccepted ==
  stage = "rejected" /\ x5chain # << >> => StraightPaths = {}

(* Why: the builder has no choice but to climb that very path, to its top, *)
(* where the anchor is, so that nothing is cut off (mdoc-context.ts:94).   *)
StraightInv ==
  x5chain # << >> =>
    \A p \in StraightPaths :
      /\ stage # "rejected"
      /\ stage = "building" =>
           \E k \in 1 .. Len(p) : path = SubSeq(p, k, Len(p))
      /\ stage = "walking" => path = p

(* The validation as Answers has it, in one operator, comes to the answer  *)
(* the steps come to, wherever no certificate at hand has two possible     *)
(* issuers.                                                                *)
AsRecognised ==
  x5chain # << >> /\ (\A c \in AtHand : Cardinality(IssuersOf(c)) <= 1) =>
    /\ stage = "accepted" => Recognised(x5chain, trusted)
    /\ stage = "rejected" => ~ Recognised(x5chain, trusted)
=============================================================================
