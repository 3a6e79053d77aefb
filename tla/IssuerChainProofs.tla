------------------------- MODULE IssuerChainProofs -------------------------
(***************************************************************************)
(* That a chain is accepted along a valid path only, and a straight one    *)
(* always, for any certificates, any chains and any anchors.               *)
(***************************************************************************)
EXTENDS IssuerChain, WellFoundedInduction, TLAPS

LEMMA CertificatesTyped ==
  /\ \A chain \in X5Chain : chain \in Seq(Certificate)
  /\ \A anchors \in AnchorSet : anchors \in SUBSET Certificate
  /\ \A c \in Certificate : c.usage \in KeyUsages
  BY IssuerChainAssumption DEF CertificateRecord

LEMMA TypeInit == Init => TypeOK
  BY DEF Init, TypeOK

LEMMA TypeStep == TypeOK /\ [Next]_chainVars => TypeOK'
<1> SUFFICES ASSUME TypeOK, [Next]_chainVars PROVE TypeOK'
  OBVIOUS
<1> USE DEF TypeOK
<1>1. ASSUME NEW chain \in X5Chain, NEW anchors \in AnchorSet, Start(chain, anchors)
      PROVE  TypeOK'
  <2>1. chain \in Seq(Certificate) /\ anchors \in SUBSET Certificate
    BY CertificatesTyped
  <2>2. CASE chain = << >>
    BY <1>1, <2>1, <2>2 DEF Start
  <2>3. CASE chain # << >>
    <3>1. chain[1] \in Certificate
      BY <2>1, <2>3
    <3>2. path' = <<chain[1]>> /\ stage' = "building" /\ x5chain' = chain /\ trusted' = anchors
      BY <1>1, <2>3 DEF Start
    <3>3. path' \in Seq(Certificate) /\ Len(path') = 1
      BY <3>1, <3>2
    <3>4. checked' = 0
      BY <1>1 DEF Start
    <3> QED
      BY <2>1, <3>2, <3>3, <3>4
  <2> QED
    BY <2>2, <2>3
<1>2. ASSUME NEW cert \in Certificate, FindIssuer(cert)
      PROVE  TypeOK'
  <2>1. path' \in Seq(Certificate) /\ Len(path') = Len(path) + 1
    BY <1>2 DEF FindIssuer
  <2>2. checked' = 0 /\ stage' = "building" /\ UNCHANGED <<x5chain, trusted>>
    BY <1>2 DEF FindIssuer
  <2> QED
    BY <2>1, <2>2
<1>3. ASSUME RejectCircular \/ RejectUnanchored \/ RejectUnfit
      PROVE  TypeOK'
  BY <1>3 DEF RejectCircular, RejectUnanchored, RejectUnfit, Reject
<1>4. ASSUME Anchor PROVE TypeOK'
  BY <1>4 DEF Anchor, Built, TrustedAt
<1>5. ASSUME Descend PROVE TypeOK'
  BY <1>5 DEF Descend, Walking
<1>6. ASSUME Accept PROVE TypeOK'
  BY <1>6 DEF Accept
<1>7. ASSUME Report PROVE TypeOK'
  <2>1. x5chain' = << >> /\ path' = << >> /\ trusted' = {} /\ checked' = 0 /\ stage' = "idle"
    BY <1>7 DEF Report
  <2> QED
    BY <2>1
<1>8. CASE UNCHANGED chainVars
  BY <1>8 DEF chainVars
<1> QED
  BY <1>1, <1>2, <1>3, <1>4, <1>5, <1>6, <1>7, <1>8 DEF Next

---------------------------------------------------------------------------
(* The types of the validation's state.                                    *)
THEOREM ChainTypeCorrect == Spec => []TypeOK
  BY TypeInit, TypeStep, PTL DEF Spec

---------------------------------------------------------------------------
(* Putting an issuer on top keeps a path linked, as cutting it does.       *)
LEMMA LinkedOnTop ==
  ASSUME NEW p \in Seq(Certificate), Len(p) >= 1, Linked(p),
         NEW c \in Certificate, Issued(p[1], c)
  PROVE  LET q == <<c>> \o p
         IN  Linked(q) /\ Len(q) = Len(p) + 1 /\ q[Len(q)] = p[Len(p)]
<1> DEFINE q == <<c>> \o p
<1>1. Len(q) = Len(p) + 1 /\ q[1] = c
  OBVIOUS
<1>2. \A i \in 2 .. Len(q) : q[i] = p[i - 1]
  OBVIOUS
<1>3. ASSUME NEW i \in 2 .. Len(q) PROVE Issued(q[i], q[i - 1])
  <2>1. CASE i = 2
    <3>1. q[i] = p[1] /\ q[i - 1] = c
      BY <1>1, <1>2, <2>1
    <3> QED
      BY <3>1
  <2>2. CASE i # 2
    <3>1. i - 1 \in 2 .. Len(p) /\ i - 1 \in 2 .. Len(q)
      BY <1>1, <2>2
    <3>2. q[i] = p[i - 1] /\ q[i - 1] = p[(i - 1) - 1]
      BY <1>2, <3>1
    <3> QED
      BY <3>1, <3>2 DEF Linked
  <2> QED
    BY <2>1, <2>2
<1>4. q[Len(q)] = p[Len(p)]
  BY <1>1, <1>2
<1> QED
  BY <1>1, <1>3, <1>4 DEF Linked

LEMMA LinkedBelow ==
  ASSUME NEW p \in Seq(Certificate), Linked(p), NEW k \in 1 .. Len(p)
  PROVE  LET q == SubSeq(p, k, Len(p))
         IN  /\ Linked(q) /\ Len(q) >= 1
             /\ q[1] = p[k] /\ q[Len(q)] = p[Len(p)]
<1> DEFINE q == SubSeq(p, k, Len(p))
<1>1. Len(q) = Len(p) - k + 1
  OBVIOUS
<1>2. \A i \in 1 .. Len(q) : q[i] = p[k + i - 1]
  OBVIOUS
<1>3. ASSUME NEW i \in 2 .. Len(q) PROVE Issued(q[i], q[i - 1])
  <2>1. q[i] = p[k + i - 1] /\ q[i - 1] = p[(k + i - 1) - 1]
    BY <1>1, <1>2
  <2>2. k + i - 1 \in 2 .. Len(p)
    BY <1>1
  <2> QED
    BY <2>1, <2>2 DEF Linked
<1>4. q[1] = p[k] /\ q[Len(q)] = p[Len(p)]
  <2>1. Len(q) \in Nat /\ 1 \in 1 .. Len(q) /\ Len(q) \in 1 .. Len(q)
    BY <1>1
  <2>2. k + 1 - 1 = k /\ k + Len(q) - 1 = Len(p)
    BY <1>1
  <2>3. q[1] = p[k + 1 - 1] /\ q[Len(q)] = p[k + Len(q) - 1]
    BY <1>2, <2>1
  <2> QED
    BY <2>2, <2>3
<1> QED
  BY <1>1, <1>3, <1>4 DEF Linked

LEMMA PathStep == TypeOK /\ PathInv /\ [Next]_chainVars => PathInv'
<1> SUFFICES ASSUME TypeOK, PathInv, [Next]_chainVars PROVE PathInv'
  OBVIOUS
<1>1. ASSUME NEW chain \in X5Chain, NEW anchors \in AnchorSet, Start(chain, anchors)
      PROVE  PathInv'
  <2>1. CASE chain = << >>
    BY <1>1, <2>1 DEF Start, PathInv
  <2>2. CASE chain # << >>
    <3>1. x5chain' = chain /\ stage' = "building" /\ path' = <<chain[1]>>
      BY <1>1, <2>2 DEF Start
    <3> QED
      BY <2>2, <3>1 DEF PathInv, Linked
  <2> QED
    BY <2>1, <2>2
<1>2. ASSUME NEW cert \in Certificate, FindIssuer(cert) PROVE PathInv'
  <2>1. Issued(path[1], cert)
    BY <1>2 DEF FindIssuer, IssuersOf, Issuers
  <2>2. path \in Seq(Certificate) /\ Len(path) >= 1 /\ Linked(path)
    BY <1>2 DEF FindIssuer, PathInv, TypeOK
  <2>3. path' = <<cert>> \o path /\ stage' = "building" /\ x5chain' = x5chain
    BY <1>2 DEF FindIssuer
  <2>4. Linked(path') /\ Len(path') = Len(path) + 1 /\ path'[Len(path')] = path[Len(path)]
    BY <2>1, <2>2, <2>3, LinkedOnTop
  <2>5. Len(path') >= 1
    BY <2>2, <2>4
  <2> QED
    BY <1>2, <2>3, <2>4, <2>5 DEF PathInv, FindIssuer, Linked
<1>3. ASSUME RejectCircular \/ RejectUnanchored \/ RejectUnfit PROVE PathInv'
  BY <1>3 DEF RejectCircular, RejectUnanchored, RejectUnfit, Reject, PathInv
<1>4. ASSUME Anchor PROVE PathInv'
  <2>1. PICK k \in TrustedAt : path' = SubSeq(path, k, Len(path))
    BY <1>4 DEF Anchor
  <2>2. k \in 1 .. Len(path) /\ path[k] \in trusted /\ path \in Seq(Certificate) /\ Linked(path)
    BY <1>4 DEF TrustedAt, TypeOK, PathInv, Anchor, Built
  <2>3. Linked(path') /\ Len(path') >= 1 /\ path'[1] = path[k]
        /\ path'[Len(path')] = path[Len(path)]
    BY <2>1, <2>2, LinkedBelow
  <2>4. checked' = 0 /\ stage' = "walking" /\ UNCHANGED <<x5chain, trusted>>
    BY <1>4 DEF Anchor, Built, TypeOK
  <2>5. path[Len(path)] = x5chain[1] /\ x5chain # << >>
    BY <1>4 DEF Anchor, Built, PathInv
  <2> QED
    BY <2>2, <2>3, <2>4, <2>5 DEF PathInv, Linked
<1>5. ASSUME Descend PROVE PathInv'
  BY <1>5 DEF Descend, Walking, Fit, PathInv, TypeOK, Linked, InDate, CanIssue
<1>6. ASSUME Accept PROVE PathInv'
  BY <1>6 DEF Accept, PathInv, Linked
<1>7. ASSUME Report PROVE PathInv'
  BY <1>7 DEF Report, PathInv
<1>8. CASE UNCHANGED chainVars
  BY <1>8 DEF chainVars, PathInv, Linked
<1> QED
  BY <1>1, <1>2, <1>3, <1>4, <1>5, <1>6, <1>7, <1>8 DEF Next

(* The inductive invariant: a path being built is linked and ends in the   *)
(* signer; one being walked starts at an anchor and is fit so far.         *)
THEOREM PathsSound == Spec => []PathInv
<1>1. Init => PathInv
  BY DEF Init, PathInv
<1> QED
  BY <1>1, TypeInit, TypeStep, PathStep, PTL DEF Spec

LEMMA PathInvImplies == TypeOK /\ PathInv => AcceptedAlongValidPath
<1> SUFFICES ASSUME TypeOK, PathInv, stage = "accepted"
             PROVE  ValidPath(path, x5chain[1], trusted)
  BY DEF AcceptedAlongValidPath
<1>1. \A i \in 1 .. Len(path) : InDate(path[i]) /\ (i < Len(path) => CanIssue(path[i]))
  BY DEF PathInv
<1>2. \A i \in 1 .. Len(path) - 1 : path[i].ca /\ path[i].usage \in {"absent", "keyCertSign"}
  BY <1>1 DEF CanIssue, TypeOK
<1> QED
  BY <1>1, <1>2 DEF PathInv, ValidPath, InDate

(* A chain is accepted along a valid path only (mdoc-context.ts:76-116).   *)
THEOREM AcceptedPathsValid == Spec => []AcceptedAlongValidPath
  BY ChainTypeCorrect, PathsSound, PathInvImplies, PTL

---------------------------------------------------------------------------
(* What is needed of paths that admit one way up only: nothing occurs      *)
(* twice on them, for going up from both places would go on for ever.      *)

LEMMA LeastNumber ==
  ASSUME NEW T \in SUBSET Nat, T # {}
  PROVE  \E n \in T : \A m \in T : n <= m
<1> DEFINE R == OpToRel(<, Nat)
<1>1. \A m, n \in Nat : m < n => <<m, n>> \in R
  BY DEF OpToRel
<1>2. IsWellFoundedOn(R, Nat)
  BY NatLessThanWellFounded
<1> HIDE DEF R
<1>3. PICK n \in T : \A m \in T : <<m, n>> \notin R
  BY <1>2, WFMin
<1>4. ASSUME NEW m \in T PROVE n <= m
  <2>1. ~ (m < n) /\ m \in Nat /\ n \in Nat
    BY <1>1, <1>3
  <2> QED
    BY <2>1
<1> QED
  BY <1>4

LEMMA StraightNeverRepeats ==
  ASSUME NEW p \in Seq(Certificate), Straight(p, x5chain, trusted),
         NEW i \in 1 .. Len(p), NEW j \in 1 .. Len(p), i < j
  PROVE  p[i] # p[j]
<1> SUFFICES ASSUME p[i] = p[j] PROVE FALSE
  OBVIOUS
<1> DEFINE T == {k \in 1 .. Len(p) : \E l \in 1 .. Len(p) : k < l /\ p[k] = p[l]}
<1>1. T \in SUBSET Nat /\ T # {}
  OBVIOUS
<1>2. PICK k \in T : \A m \in T : k <= m
  BY <1>1, LeastNumber
<1>3. PICK l \in 1 .. Len(p) : k < l /\ p[k] = p[l]
  BY <1>2
<1>4. k \in 1 .. Len(p) /\ l \in 2 .. Len(p)
  BY <1>2, <1>3
<1> HIDE DEF T
<1>5. IssuersOf(p[l]) = {p[l - 1]}
  BY <1>4 DEF Straight, IssuersOf, AtHand
<1>6. CASE k = 1
  BY <1>3, <1>5, <1>6 DEF Straight, IssuersOf, AtHand
<1>7. CASE k # 1
  <2>1. k \in 2 .. Len(p)
    BY <1>4, <1>7
  <2>2. p[k - 1] = p[l - 1]
    BY <1>3, <1>5, <2>1 DEF Straight, IssuersOf, AtHand
  <2>3. k - 1 \in 1 .. Len(p) /\ l - 1 \in 1 .. Len(p) /\ k - 1 < l - 1
    BY <1>3, <1>4, <2>1
  <2>4. k - 1 \in T
    BY <2>2, <2>3 DEF T
  <2> QED
    BY <1>2, <1>4, <2>4
<1> QED
  BY <1>6, <1>7

(* The paths that a chain could be straight along are no shorter than it.  *)
LEMMA SentPathType ==
  ASSUME NEW chain \in Seq(Certificate), NEW anchors \in SUBSET Certificate,
         NEW p \in {Reverse(chain)}
                     \cup {<<c>> \o Reverse(chain) : c \in ToSet(chain) \cup anchors}
  PROVE  p \in Seq(Certificate) /\ Len(p) >= Len(chain)
<1> DEFINE back == Reverse(chain)
<1>1. back \in Seq(Certificate) /\ Len(back) = Len(chain)
  BY DEF Reverse
<1> HIDE DEF back
<1>2. CASE p = back
  BY <1>1, <1>2
<1>3. ASSUME NEW c \in ToSet(chain) \cup anchors, p = <<c>> \o back
      PROVE  p \in Seq(Certificate) /\ Len(p) >= Len(chain)
  <2>1. c \in Certificate /\ Len(chain) \in Nat
    BY DEF ToSet
  <2>2. <<c>> \in Seq(Certificate) /\ Len(<<c>>) = 1
    BY <2>1
  <2> QED
    BY <1>1, <1>3, <2>1, <2>2
<1> QED
  BY <1>2, <1>3 DEF back

(* A suffix of a path starts where it was cut, and grows upwards.          *)
LEMMA Suffix ==
  ASSUME NEW p \in Seq(Certificate), NEW k \in 1 .. Len(p)
  PROVE  LET q == SubSeq(p, k, Len(p))
         IN  /\ q[1] = p[k]
             /\ \A i \in 1 .. Len(q) : \E j \in k .. Len(p) : q[i] = p[j]
             /\ k > 1 => <<p[k - 1]>> \o q = SubSeq(p, k - 1, Len(p))
<1> DEFINE q == SubSeq(p, k, Len(p))
<1>1. Len(q) = Len(p) - k + 1 /\ q \in Seq(Certificate)
  OBVIOUS
<1>2. \A i \in 1 .. Len(q) : q[i] = p[k + i - 1]
  OBVIOUS
<1>3. q[1] = p[k]
  BY <1>1, <1>2
<1>4. ASSUME NEW i \in 1 .. Len(q) PROVE \E j \in k .. Len(p) : q[i] = p[j]
  <2>1. k + i - 1 \in k .. Len(p)
    BY <1>1
  <2> QED
    BY <1>2, <2>1
<1>5. ASSUME k > 1 PROVE <<p[k - 1]>> \o q = SubSeq(p, k - 1, Len(p))
  <2> DEFINE r == SubSeq(p, k - 1, Len(p))
             t == <<p[k - 1]>> \o q
  <2>1. k - 1 \in 1 .. Len(p) /\ p[k - 1] \in Certificate
    BY <1>5
  <2>2. Len(r) = Len(p) - k + 2 /\ r \in Seq(Certificate)
    BY <2>1
  <2>3. \A i \in 1 .. Len(r) : r[i] = p[(k - 1) + i - 1]
    BY <2>1
  <2>4. Len(t) = Len(p) - k + 2 /\ t \in Seq(Certificate)
    BY <1>1, <2>1
  <2>5. t[1] = p[k - 1] /\ \A i \in 2 .. Len(t) : t[i] = q[i - 1]
    BY <1>1, <2>1
  <2>6. ASSUME NEW i \in 1 .. Len(t) PROVE t[i] = r[i]
    <3>1. CASE i = 1
      BY <2>2, <2>3, <2>4, <2>5, <3>1
    <3>2. CASE i # 1
      <4>1. i - 1 \in 1 .. Len(q) /\ i \in 2 .. Len(t) /\ i \in 1 .. Len(r)
        BY <1>1, <2>2, <2>4, <3>2
      <4>2. t[i] = p[k + (i - 1) - 1] /\ r[i] = p[(k - 1) + i - 1]
        BY <1>2, <2>3, <2>5, <4>1
      <4> QED
        BY <4>1, <4>2
    <3> QED
      BY <3>1, <3>2
  <2> QED
    BY <2>2, <2>4, <2>6
<1> QED
  BY <1>3, <1>4, <1>5

(* A straight path offers exactly one way up, none of it behind, and none  *)
(* from its top.                                                           *)
LEMMA OneWayUp ==
  ASSUME TypeOK, NEW p \in Seq(Certificate), Straight(p, x5chain, trusted),
         NEW k \in 1 .. Len(p), path = SubSeq(p, k, Len(p))
  PROVE  /\ k = 1 => IssuersOf(path[1]) = {}
         /\ k > 1 => IssuersOf(path[1]) = {p[k - 1]} /\ p[k - 1] \notin ToSet(path)
<1>1. path[1] = p[k] /\ path \in Seq(Certificate)
  BY Suffix
<1>2. ASSUME k = 1 PROVE IssuersOf(path[1]) = {}
  BY <1>1, <1>2 DEF Straight, IssuersOf, AtHand
<1>3. ASSUME k > 1 PROVE IssuersOf(path[1]) = {p[k - 1]} /\ p[k - 1] \notin ToSet(path)
  <2>1. k \in 2 .. Len(p)
    BY <1>3
  <2>2. IssuersOf(path[1]) = {p[k - 1]}
    BY <1>1, <2>1 DEF Straight, IssuersOf, AtHand
  <2>3. \A j \in k .. Len(p) : p[k - 1] # p[j]
    <3> SUFFICES ASSUME NEW j \in k .. Len(p) PROVE p[k - 1] # p[j]
      OBVIOUS
    <3>1. k - 1 \in 1 .. Len(p) /\ j \in 1 .. Len(p) /\ k - 1 < j
      BY <2>1
    <3> QED
      BY <3>1, StraightNeverRepeats
  <2>4. \A i \in 1 .. Len(path) : \E j \in k .. Len(p) : path[i] = p[j]
    BY Suffix
  <2> QED
    BY <1>1, <2>2, <2>3, <2>4 DEF ToSet
<1> QED
  BY <1>2, <1>3

LEMMA StraightStart ==
  ASSUME NEW chain \in X5Chain, NEW anchors \in AnchorSet, Start(chain, anchors), chain # << >>,
         NEW p \in StraightPaths'
  PROVE  stage' = "building" /\ \E k \in 1 .. Len(p) : path' = SubSeq(p, k, Len(p))
<1>1. x5chain' = chain /\ trusted' = anchors /\ stage' = "building" /\ path' = <<chain[1]>>
  BY DEF Start
<1>2. p \in Seq(Certificate)
  <2>1. chain \in Seq(Certificate) /\ anchors \in SUBSET Certificate
    BY CertificatesTyped
  <2>2. p \in {Reverse(chain)} \cup {<<c>> \o Reverse(chain) : c \in ToSet(chain) \cup anchors}
    BY <1>1 DEF StraightPaths, SentPaths, Pool
  <2> QED
    BY <2>1, <2>2, SentPathType
<1>3. Len(p) >= 1 /\ p[Len(p)] = chain[1]
  BY <1>1 DEF StraightPaths, Straight, ValidPath
<1>4. SubSeq(p, Len(p), Len(p)) = <<p[Len(p)]>>
  <2> DEFINE n == Len(p)
             q == SubSeq(p, n, n)
             t == <<p[n]>>
  <2>1. n \in 1 .. Len(p) /\ p[n] \in Certificate
    BY <1>2, <1>3
  <2>2. Len(q) = 1 /\ q \in Seq(Certificate) /\ q[1] = p[n]
    BY <1>2, <2>1
  <2>3. Len(t) = 1 /\ t \in Seq(Certificate) /\ t[1] = p[n]
    BY <2>1
  <2>4. \A i \in 1 .. Len(q) : q[i] = t[i]
    BY <2>2, <2>3
  <2> HIDE DEF q, t
  <2>5. q = t
    BY <2>2, <2>3, <2>4
  <2> QED
    BY <2>5 DEF q, t
<1>5. Len(p) \in 1 .. Len(p)
  BY <1>2, <1>3
<1> QED
  BY <1>1, <1>3, <1>4, <1>5

LEMMA StraightStep ==
  TypeOK /\ PathInv /\ StraightInv /\ [Next]_chainVars => StraightInv'
<1> SUFFICES ASSUME TypeOK, PathInv, StraightInv, [Next]_chainVars, x5chain' # << >>,
                    NEW p \in StraightPaths'
             PROVE  /\ stage' # "rejected"
                    /\ stage' = "building" =>
                         \E k \in 1 .. Len(p) : path' = SubSeq(p, k, Len(p))
                    /\ stage' = "walking" => path' = p
  BY DEF StraightInv
<1>1. ASSUME NEW chain \in X5Chain, NEW anchors \in AnchorSet, Start(chain, anchors)
      PROVE  /\ stage' = "building"
             /\ \E k \in 1 .. Len(p) : path' = SubSeq(p, k, Len(p))
  <2>1. chain # << >>
    BY <1>1 DEF Start
  <2> QED
    BY <1>1, <2>1, StraightStart
<1>2. CASE Report
  BY <1>2 DEF Report
<1>3. CASE UNCHANGED <<x5chain, trusted>>
  <2>1. p \in StraightPaths /\ x5chain # << >>
    BY <1>3 DEF StraightPaths
  <2>2. /\ stage # "rejected"
        /\ stage = "building" => \E k \in 1 .. Len(p) : path = SubSeq(p, k, Len(p))
        /\ stage = "walking" => path = p
    BY <2>1 DEF StraightInv
  <2>3. p \in Seq(Certificate) /\ Len(p) >= Len(x5chain) /\ Len(p) >= 1
    <3>1. p \in {Reverse(x5chain)}
                  \cup {<<c>> \o Reverse(x5chain) : c \in ToSet(x5chain) \cup trusted}
      BY <2>1 DEF StraightPaths, SentPaths, Pool
    <3> QED
      BY <2>1, <3>1, SentPathType DEF TypeOK, StraightPaths, Straight, ValidPath
  <2>4. stage = "building" =>
          \E k \in 1 .. Len(p) :
            /\ path = SubSeq(p, k, Len(p))
            /\ k = 1 => IssuersOf(path[1]) = {}
            /\ k > 1 => IssuersOf(path[1]) = {p[k - 1]} /\ p[k - 1] \notin ToSet(path)
    BY <2>1, <2>2, <2>3, OneWayUp DEF StraightPaths
  <2>5. Built => path = p
    <3> SUFFICES ASSUME Built PROVE path = p
      OBVIOUS
    <3>1. PICK k \in 1 .. Len(p) :
            path = SubSeq(p, k, Len(p)) /\ (k > 1 => IssuersOf(path[1]) = {p[k - 1]})
      BY <2>4 DEF Built
    <3>2. IssuersOf(path[1]) = {}
      BY DEF Built
    <3>3. ~ (k > 1)
      BY <3>1, <3>2, Zenon
    <3>4. k = 1
      BY <2>3, <3>3
    <3> QED
      BY <2>3, <3>1, <3>4
  <2>6. /\ p[1] \in trusted
        /\ \A i \in 1 .. Len(p) : InDate(p[i])
        /\ \A i \in 1 .. Len(p) - 1 : p[i].ca /\ p[i].usage \in {"absent", "keyCertSign"}
    BY <2>1 DEF StraightPaths, Straight, ValidPath, InDate
  <2>7. ASSUME NEW cert \in Certificate, FindIssuer(cert)
        PROVE  stage' = "building" /\ \E k \in 1 .. Len(p) : path' = SubSeq(p, k, Len(p))
    <3>1. PICK k \in 1 .. Len(p) :
            /\ path = SubSeq(p, k, Len(p))
            /\ k = 1 => IssuersOf(path[1]) = {}
            /\ k > 1 => IssuersOf(path[1]) = {p[k - 1]}
      BY <2>4, <2>7 DEF FindIssuer
    <3>2. k > 1 /\ cert = p[k - 1]
      BY <2>7, <3>1 DEF FindIssuer
    <3>3. path' = SubSeq(p, k - 1, Len(p)) /\ k - 1 \in 1 .. Len(p)
      BY <2>3, <2>7, <3>1, <3>2, Suffix DEF FindIssuer
    <3> QED
      BY <2>7, <3>3 DEF FindIssuer
  <2>8. ~ RejectCircular
    <3> SUFFICES ASSUME RejectCircular PROVE FALSE
      OBVIOUS
    <3>1. PICK k \in 1 .. Len(p) :
            /\ k = 1 => IssuersOf(path[1]) = {}
            /\ k > 1 => IssuersOf(path[1]) = {p[k - 1]} /\ p[k - 1] \notin ToSet(path)
      BY <2>4 DEF RejectCircular
    <3> QED
      BY <3>1 DEF RejectCircular
  <2>9. ~ RejectUnanchored
    <3> SUFFICES ASSUME RejectUnanchored PROVE FALSE
      OBVIOUS
    <3>1. path = p
      BY <2>5 DEF RejectUnanchored
    <3>2. 1 \in TrustedAt
      BY <2>3, <2>6, <3>1 DEF TrustedAt
    <3>3. ~ (Len(path) < Len(x5chain))
      BY <2>3, <3>1 DEF TypeOK
    <3> QED
      BY <3>2, <3>3 DEF RejectUnanchored
  <2>10. ASSUME Anchor PROVE stage' = "walking" /\ path' = p
    <3>1. path = p
      BY <2>5, <2>10 DEF Anchor
    <3>2. 1 \in TrustedAt
      BY <2>3, <2>6, <3>1 DEF TrustedAt
    <3>3. PICK i \in TrustedAt : i <= 1 /\ path' = SubSeq(path, i, Len(path))
      BY <2>10, <3>2 DEF Anchor
    <3>4. i = 1
      BY <2>3, <3>1, <3>3 DEF TrustedAt
    <3> QED
      BY <2>3, <2>10, <3>1, <3>3, <3>4 DEF Anchor
  <2>11. ~ RejectUnfit
    <3> SUFFICES ASSUME RejectUnfit PROVE FALSE
      OBVIOUS
    <3>1. path = p /\ checked + 1 \in 1 .. Len(p)
      BY <2>2, <2>3 DEF RejectUnfit, Walking, TypeOK
    <3>2. InDate(p[checked + 1])
      BY <2>6, <3>1
    <3>3. checked + 1 < Len(p) => CanIssue(p[checked + 1])
      <4> SUFFICES ASSUME checked + 1 < Len(p) PROVE CanIssue(p[checked + 1])
        OBVIOUS
      <4>1. checked + 1 \in 1 .. Len(p) - 1
        BY <2>3, <3>1
      <4>2. p[checked + 1] \in Certificate
        BY <2>3, <3>1
      <4> QED
        BY <2>6, <4>1, <4>2, CertificatesTyped DEF CanIssue, KeyUsages
    <3> QED
      BY <3>1, <3>2, <3>3 DEF RejectUnfit, Fit
  <2>12. CASE Descend \/ Accept \/ UNCHANGED chainVars
    BY <2>2, <2>12 DEF Descend, Walking, Accept, chainVars
  <2>13. ASSUME NEW chain \in X5Chain, NEW anchors \in AnchorSet, Start(chain, anchors)
         PROVE  /\ stage' = "building"
                /\ \E k \in 1 .. Len(p) : path' = SubSeq(p, k, Len(p))
    BY <1>1, <2>13
  <2> QED
    BY <1>2, <2>7, <2>8, <2>9, <2>10, <2>11, <2>12, <2>13 DEF Next
<1>4. UNCHANGED <<x5chain, trusted>> \/ Report
        \/ \E chain \in X5Chain, anchors \in AnchorSet : Start(chain, anchors)
  BY DEF Next, FindIssuer, RejectCircular, RejectUnanchored, RejectUnfit, Reject, Anchor,
         Descend, Accept, chainVars
<1> QED
  BY <1>1, <1>2, <1>3, <1>4

(* The builder has no choice along a straight chain, so its path is the    *)
(* chain's own, to the top (mdoc-context.ts:84-94).                        *)
THEOREM StraightPathsTaken == Spec => []StraightInv
<1>1. Init => StraightInv
  BY DEF Init, StraightInv
<1> QED
  BY <1>1, ChainTypeCorrect, PathsSound, StraightStep, PTL DEF Spec

(* No straight chain is ever turned away (mdoc-context-chain.test.ts:57).  *)
THEOREM StraightChainsAccepted == Spec => []StraightChainAccepted
<1>1. StraightInv => StraightChainAccepted
  BY DEF StraightInv, StraightChainAccepted
<1> QED
  BY <1>1, StraightPathsTaken, PTL
=============================================================================
