--------------------------- MODULE ExchangeProofs ---------------------------
(***************************************************************************)
(* That an age check over the wire keeps what AgeCheck promises, for any   *)
(* site, any wallets and any number of challenges.                         *)
(***************************************************************************)
EXTENDS Exchange, SequenceTheorems, FiniteSetTheorems, TLAPS

---------------------------------------------------------------------------
(* What it means that an issuer is recognised.                             *)

(* The members of Ways.                                                    *)
LEMMA WaysAre ==
  ASSUME NEW chain, NEW anchors, NEW p \in Ways(chain, anchors)
  PROVE  \E n \in Nat :
           /\ n <= Len(chain) + Cardinality(anchors) - 1
           /\ Len(p) = n + 1 /\ DOMAIN p = 1 .. n + 1 /\ p[n + 1] = chain[1]
           /\ \A i \in 1 .. n : \E c \in Pool(chain, anchors) : p[i] \in Issuers(c, Pool(chain, anchors))
<1> DEFINE pool == Pool(chain, anchors)
           issuers == UNION {Issuers(c, pool) : c \in pool}
           signer == chain[1]
<1>0. PICK n \in 0 .. Len(chain) + Cardinality(anchors) - 1 :
        \E above \in [1 .. n -> issuers] : p = above \o <<signer>>
  BY DEF Ways
<1>1. PICK above \in [1 .. n -> issuers] : p = above \o <<signer>>
  BY <1>0
<1>2. n \in Nat /\ n <= Len(chain) + Cardinality(anchors) - 1
  BY <1>1
<1> HIDE DEF issuers, signer
<1>3. above \in Seq(issuers) /\ Len(above) = n
  BY <1>1, <1>2
<1>4. Len(p) = n + 1 /\ DOMAIN p = 1 .. n + 1 /\ p[n + 1] = signer /\ \A i \in 1 .. n : p[i] = above[i]
  BY <1>1, <1>2, <1>3
<1>5. \A i \in 1 .. n : above[i] \in issuers
  BY <1>1
<1>6. \A i \in 1 .. n : \E c \in pool : p[i] \in Issuers(c, pool)
  BY <1>4, <1>5 DEF issuers
<1> QED
  BY <1>2, <1>4, <1>6 DEF signer

LEMMA IsWay ==
  ASSUME NEW chain, NEW anchors, NEW n \in Nat, n <= Len(chain) + Cardinality(anchors) - 1,
         Len(chain) + Cardinality(anchors) - 1 \in Int,
         NEW S, NEW p \in Seq(S), Len(p) = n + 1, p[n + 1] = chain[1],
         \A i \in 1 .. n : \E c \in Pool(chain, anchors) : p[i] \in Issuers(c, Pool(chain, anchors))
  PROVE  p \in Ways(chain, anchors)
<1> DEFINE pool == Pool(chain, anchors)
           issuers == UNION {Issuers(c, pool) : c \in pool}
           signer == chain[1]
           above == [i \in 1 .. n |-> p[i]]
<1>1. \A i \in 1 .. n : p[i] \in issuers
  OBVIOUS
<1> HIDE DEF issuers
<1>2. above \in [1 .. n -> issuers]
  BY <1>1
<1>3. n \in 0 .. Len(chain) + Cardinality(anchors) - 1
  OBVIOUS
<1>4. above \in Seq(issuers) /\ Len(above) = n
  BY <1>2
<1>5. p = above \o <<signer>>
  <2> DEFINE q == above \o <<signer>>
  <2>1. Len(q) = n + 1 /\ DOMAIN q = 1 .. n + 1 /\ q[n + 1] = signer /\ \A i \in 1 .. n : q[i] = above[i]
    BY <1>4
    <2>3. \A i \in 1 .. n : above[i] = p[i]
    OBVIOUS
  <2> HIDE DEF q, above
  <2>4. \A i \in 1 .. Len(p) : p[i] = q[i]
    BY <2>1, <2>3
  <2> HIDE DEF pool
  <2>2. q \in Seq(issuers \cup {signer})
    BY <1>4 DEF q
  <2>5. p = q
    BY <2>1, <2>2, <2>4
  <2> QED
    BY <2>5 DEF q
<1> HIDE DEF above
<1> QED
  BY <1>2, <1>3, <1>5 DEF Ways, issuers

(* The links of a climbed path.                                            *)
LEMMA ClimbedIs ==
  ASSUME NEW p, NEW pool, Climbed(p, pool), NEW i \in 2 .. Len(p)
  PROVE  p[i - 1] \in Issuers(p[i], pool) /\ Issued(p[i], p[i - 1])
<1>1. Issuers(p[i], pool) # {} /\ p[i - 1] = IssuerTaken(p[i], pool)
  BY DEF Climbed
<1>2. p[i - 1] \in Issuers(p[i], pool)
  BY <1>1 DEF IssuerTaken
<1> QED
  BY <1>2 DEF Issuers

(* A recognised chain has a valid path: the climbed one from the anchor.   *)
LEMMA RecognisedIsValid ==
  ASSUME NEW chain, NEW anchors, Recognised(chain, anchors), Len(chain) + Cardinality(anchors) - 1 \in Int
  PROVE  \E q \in Ways(chain, anchors) : ValidPath(q, chain[1], anchors)
<1> DEFINE pool == Pool(chain, anchors)
           signer == chain[1]
<1>0. PICK p \in Ways(chain, anchors) :
        /\ Climbed(p, pool)
        /\ \E k \in AnchorOf(p, anchors) :
             \A j \in k .. Len(p) : InDate(p[j]) /\ (j < Len(p) => CanIssue(p[j]))
  BY DEF Recognised
<1>1. PICK k \in AnchorOf(p, anchors) :
        /\ Climbed(p, pool)
        /\ \A j \in k .. Len(p) : InDate(p[j]) /\ (j < Len(p) => CanIssue(p[j]))
  BY <1>0
<1>2. PICK n \in Nat :
        /\ n <= Len(chain) + Cardinality(anchors) - 1
        /\ Len(p) = n + 1 /\ DOMAIN p = 1 .. n + 1 /\ p[n + 1] = signer
        /\ \A i \in 1 .. n : \E c \in pool : p[i] \in Issuers(c, pool)
  BY WaysAre
<1>3. k \in 1 .. n + 1 /\ p[k] \in anchors
  BY <1>1, <1>2 DEF AnchorOf
<1> DEFINE m == n + 1 - k
           q == [i \in 1 .. m + 1 |-> p[k + i - 1]]
<1>4. /\ m \in Nat /\ m <= n /\ k + (m + 1) - 1 = n + 1
      /\ \A i \in 1 .. m : k + i - 1 \in 1 .. n /\ k + i - 1 \in k .. n
      /\ \A i \in 2 .. m + 1 : k + i - 1 \in 2 .. n + 1 /\ (k + i - 1) - 1 = k + (i - 1) - 1
      /\ \A i \in 1 .. m + 1 : k + i - 1 \in k .. n + 1
  BY <1>3
<1>5. \A i \in 1 .. m + 1 : q[i] = p[k + i - 1]
  OBVIOUS
<1>6. q[m + 1] = signer /\ q[1] \in anchors
  <2>1. m + 1 \in 1 .. m + 1 /\ 1 \in 1 .. m + 1 /\ k + 1 - 1 = k
    BY <1>3, <1>4
  <2> QED
    BY <1>2, <1>3, <1>4, <2>1
<1>7. \A i \in 1 .. m : \E c \in pool : q[i] \in Issuers(c, pool)
  <2> SUFFICES ASSUME NEW i \in 1 .. m PROVE \E c \in pool : q[i] \in Issuers(c, pool)
    OBVIOUS
  <2>1. i \in 1 .. m + 1 /\ k + i - 1 \in 1 .. n
    BY <1>4
  <2> QED
    BY <1>2, <1>5, <2>1
<1>8. Len(q) = m + 1 /\ DOMAIN q = 1 .. m + 1
  BY <1>4
<1>9. \A i \in 2 .. m + 1 : Issued(q[i], q[i - 1])
  <2> SUFFICES ASSUME NEW i \in 2 .. m + 1 PROVE Issued(q[i], q[i - 1])
    OBVIOUS
  <2>1. i \in 1 .. m + 1 /\ i - 1 \in 1 .. m + 1 /\ k + i - 1 \in 2 .. Len(p)
    BY <1>2, <1>4
  <2>2. Issued(p[k + i - 1], p[(k + i - 1) - 1])
    BY <1>1, <2>1, ClimbedIs
  <2>3. q[i] = p[k + i - 1] /\ q[i - 1] = p[k + (i - 1) - 1] /\ (k + i - 1) - 1 = k + (i - 1) - 1
    BY <1>4, <1>5, <2>1
  <2> QED
    BY <2>2, <2>3
<1>10. \A i \in 1 .. m + 1 : InDate(q[i]) /\ (i < m + 1 => CanIssue(q[i]))
  <2> SUFFICES ASSUME NEW i \in 1 .. m + 1 PROVE InDate(q[i]) /\ (i < m + 1 => CanIssue(q[i]))
    OBVIOUS
  <2>1. k + i - 1 \in k .. Len(p) /\ q[i] = p[k + i - 1] /\ (i < m + 1 => k + i - 1 < Len(p))
    BY <1>2, <1>3, <1>4, <1>5
  <2> QED
    BY <1>1, <2>1
<1> HIDE DEF q, m, signer
<1>11. q \in Seq(pool \cup {signer})
  <2>1. \A i \in 1 .. m + 1 : q[i] \in pool \cup {signer}
    <3>1. \A i \in 1 .. m : q[i] \in pool
      BY <1>7 DEF Issuers
    <3>2. \A i \in 1 .. m + 1 : i \in 1 .. m \/ i = m + 1
      BY <1>4
    <3> QED
      BY <1>6, <3>1, <3>2
  <2>2. q = [i \in 1 .. m + 1 |-> q[i]]
    BY DEF q
  <2> DEFINE T == pool \cup {signer}
  <2> HIDE DEF T
  <2>3. q \in [1 .. m + 1 -> T] /\ m + 1 \in Nat
    BY <1>4, <2>1, <2>2 DEF T
  <2>4. q \in Seq(T)
    BY <2>3
  <2> QED
    BY <2>4 DEF T
<1>12. q \in Ways(chain, anchors)
  <2>1. m <= Len(chain) + Cardinality(anchors) - 1
    BY <1>2, <1>4
  <2> HIDE DEF pool
  <2> QED
    BY <1>4, <1>6, <1>7, <1>8, <1>11, <2>1, IsWay DEF signer, pool
<1>13. ValidPath(q, signer, anchors)
  <2>1. 1 \in 1 .. m + 1 /\ Len(q) = m + 1 /\ m + 1 - 1 = m
    BY <1>4, <1>8
  <2>2. \A i \in 1 .. m : i \in 1 .. m + 1 /\ i < m + 1
    BY <1>4
  <2>3. Linked(q)
    BY <1>9, <2>1 DEF Linked
  <2>4. \A i \in 1 .. Len(q) : q[i].from <= Now /\ Now <= q[i].to
    BY <1>10, <2>1 DEF InDate
  <2>5. \A i \in 1 .. Len(q) - 1 : q[i].ca /\ q[i].usage \in {"absent", "keyCertSign"}
    BY <1>10, <2>1, <2>2 DEF CanIssue
  <2>6. Len(q) >= 1 /\ q[1] \in anchors /\ q[Len(q)] = signer
    BY <1>4, <1>6, <2>1
  <2> QED
    BY <2>3, <2>4, <2>5, <2>6 DEF ValidPath
<1> QED
  BY <1>12, <1>13 DEF signer

(* A chain with a straight path is recognised.                             *)
LEMMA StraightIsRecognised ==
  ASSUME NEW S, NEW chain \in Seq(S), chain # << >>, NEW anchors, IsFiniteSet(anchors),
         NEW p \in SentPaths(chain, anchors), Straight(p, chain, anchors)
  PROVE  p \in Ways(chain, anchors) /\ Recognised(chain, anchors)
<1> DEFINE pool == Pool(chain, anchors)
           l == Len(chain)
<1>1. l \in Nat /\ l >= 1 /\ Cardinality(anchors) \in Nat
  BY FS_CardinalityType
<1>2. /\ ValidPath(p, chain[1], anchors) /\ Issuers(p[1], pool) = {}
      /\ \A i \in 2 .. Len(p) : Issuers(p[i], pool) = {p[i - 1]}
  BY DEF Straight
<1>3. anchors # {} /\ Cardinality(anchors) >= 1
  <2>1. p[1] \in anchors
    BY <1>2 DEF ValidPath
  <2> QED
    BY <1>1, <2>1, FS_EmptySet
<1> DEFINE back == Reverse(chain)
<1>4. back \in Seq(pool) /\ Len(back) = l
  <2>1. \A i \in 1 .. l : chain[i] \in pool
    BY DEF Pool, ToSet
  <2>2. back = [i \in 1 .. l |-> chain[(l - i) + 1]]
    BY DEF Reverse
  <2>3. \A i \in 1 .. l : (l - i) + 1 \in 1 .. l
    BY <1>1
  <2> HIDE DEF l, pool, back
  <2> QED
    BY <1>1, <2>1, <2>2, <2>3
<1> HIDE DEF back, l
<1>5. p \in Seq(pool) /\ Len(p) \in {l, l + 1}
  <2>1. CASE p = back
    BY <1>4, <2>1
  <2>2. ASSUME NEW c \in pool, p = <<c>> \o back PROVE p \in Seq(pool) /\ Len(p) = l + 1
    BY <1>1, <1>4, <2>2
  <2> QED
    BY <2>1, <2>2 DEF SentPaths, back
<1>6. \A i \in 1 .. Len(p) - 1 : \E c \in pool : p[i] \in Issuers(c, pool)
  <2> SUFFICES ASSUME NEW i \in 1 .. Len(p) - 1 PROVE \E c \in pool : p[i] \in Issuers(c, pool)
    OBVIOUS
  <2> HIDE DEF pool
  <2>1. i + 1 \in 2 .. Len(p) /\ (i + 1) - 1 = i /\ i + 1 \in 1 .. Len(p)
    BY <1>5
  <2>2. Issuers(p[i + 1], pool) = {p[i]}
    BY <1>2, <2>1
  <2>3. p[i + 1] \in pool
    BY <1>5, <2>1
  <2> QED
    BY <2>2, <2>3
<1>7. p \in Ways(chain, anchors)
  <2> DEFINE n == Len(p) - 1
  <2>1. n \in Nat /\ Len(p) = n + 1 /\ n <= Len(chain) + Cardinality(anchors) - 1
    BY <1>1, <1>3, <1>5 DEF l
  <2>2. p[n + 1] = chain[1]
    BY <1>2, <2>1 DEF ValidPath
  <2>3. Len(chain) + Cardinality(anchors) - 1 \in Int
    BY <1>1 DEF l
  <2> HIDE DEF pool
  <2>4. \A i \in 1 .. n : \E c \in pool : p[i] \in Issuers(c, pool)
    BY <1>6
  <2> HIDE DEF n
  <2> QED
    BY <1>5, <2>1, <2>2, <2>3, <2>4, IsWay DEF pool
<1>8. Climbed(p, pool)
  <2>1. \A i \in 2 .. Len(p) : Issuers(p[i], pool) # {} /\ p[i - 1] = IssuerTaken(p[i], pool)
    BY <1>2 DEF IssuerTaken
  <2> QED
    BY <1>2, <2>1 DEF Climbed
<1>9. 1 \in AnchorOf(p, anchors)
  <2>1. 1 \in DOMAIN p /\ p[1] \in anchors /\ 1 .. 1 - 1 = {}
    BY <1>1, <1>2, <1>5 DEF ValidPath
  <2> QED
    BY <2>1 DEF AnchorOf
<1>10. \A j \in 1 .. Len(p) : InDate(p[j]) /\ (j < Len(p) => CanIssue(p[j]))
  <2>1. \A j \in 1 .. Len(p) : j < Len(p) => j \in 1 .. Len(p) - 1
    BY <1>5
  <2> QED
    BY <1>2, <2>1 DEF ValidPath, InDate, CanIssue
<1>11. Len(p) >= Len(chain)
  BY <1>1, <1>5 DEF l
<1> HIDE DEF pool
<1> QED
  BY <1>7, <1>8, <1>9, <1>10, <1>11 DEF Recognised, pool

---------------------------------------------------------------------------
(* What a verified outcome means for the first document.                   *)

(* The verdicts are all good, and the claim is.                            *)
LEMMA VerifiedVerdicts ==
  ASSUME NEW raw, NEW minAge, OutcomeFor(raw, minAge) = "verified"
  PROVE  /\ raw.decoded /\ raw.docType \in AgeDocTypes
         /\ raw.verdict.issuerTrusted /\ raw.verdict.authentic
         /\ raw.verdict.withinValidity /\ raw.verdict.deviceBound
         /\ raw.ageClaims[minAge] \notin {"absent", "false"}
BY DEF OutcomeFor

AllReports(docs, transcript, anchors) ==
  UNION {Reports(docs[i], transcript, anchors) : i \in DOMAIN docs}

VerdictOn(docs, here, anchors) == ClassifyAssessments(AllReports(docs, here, anchors), FALSE)

AllGood(verdict) ==
  verdict.issuerTrusted /\ verdict.authentic /\ verdict.withinValidity /\ verdict.deviceBound

(* What the library checks of one document, and what it reports of it: of  *)
(* every check one report, which says whether it passed.                   *)
Unchanged(d) ==
  /\ d.family_name \in {"absent", d.card.family_name}
  /\ \A a \in Age : d.shows[a] \in {"absent", d.card.elements[a]}

SignedInTime(card) == card.x5chain[1].from <= card.signed /\ card.signed <= card.x5chain[1].to

(* Whether a document passes a check.                                      *)
IssuerPasses(card, anchors, check) ==
  CASE check = "trustChain" -> RecogniseIssuer(card, anchors)
    [] check = "certificateValid" -> InDate(card.x5chain[1])
    [] check = "countryName" -> TRUE
    [] check = "signature" -> card.signedWith = card.x5chain[1].key
    [] check = "msoValidNow" -> InDate(card.window)
    [] check = "msoSignedInCertValidity" -> SignedInTime(card)

CheckPasses(d, here, anchors, category, check) ==
  CASE category = "ISSUER_AUTH" -> IssuerPasses(d.card, anchors, check)
    [] category = "DATA_INTEGRITY" -> Unchanged(d)
    [] category = "DEVICE_AUTH" -> d.boundTo = here

IsCheck(category, check) ==
  \/ category = "ISSUER_AUTH" /\ check \in IssuerChecks
  \/ category = "DATA_INTEGRITY" /\ check = "digests"
  \/ category = "DEVICE_AUTH" /\ check = "signature"

LEMMA EveryCheck ==
  ASSUME NEW d, NEW here, NEW anchors
  PROVE  /\ \A r \in Reports(d, here, anchors) :
              /\ IsCheck(r.category, r.check)
              /\ r.status = IF CheckPasses(d, here, anchors, r.category, r.check) THEN "PASSED" ELSE "FAILED"
         /\ \A category, check : IsCheck(category, check) =>
              Report(CheckPasses(d, here, anchors, category, check), category, check)
                \in Reports(d, here, anchors)
<1> DEFINE card == d.card
           p1 == RecogniseIssuer(card, anchors)
           p2 == InDate(card.x5chain[1])
           p4 == card.signedWith = card.x5chain[1].key
           p5 == InDate(card.window)
           p6 == SignedInTime(card)
           p7 == Unchanged(d)
           p8 == d.boundTo = here
           issuer(ok, check) == Report(ok, "ISSUER_AUTH", check)
<1>1. /\ IssuerPasses(card, anchors, "trustChain") = p1
      /\ IssuerPasses(card, anchors, "certificateValid") = p2
      /\ IssuerPasses(card, anchors, "countryName") = TRUE
      /\ IssuerPasses(card, anchors, "signature") = p4
      /\ IssuerPasses(card, anchors, "msoValidNow") = p5
      /\ IssuerPasses(card, anchors, "msoSignedInCertValidity") = p6
  BY DEF IssuerPasses, RecogniseIssuer, InDate, SignedInTime
<1>2. /\ \A check : CheckPasses(d, here, anchors, "ISSUER_AUTH", check) = IssuerPasses(card, anchors, check)
      /\ CheckPasses(d, here, anchors, "DATA_INTEGRITY", "digests") = p7
      /\ CheckPasses(d, here, anchors, "DEVICE_AUTH", "signature") = p8
  BY DEF CheckPasses, Unchanged
<1>3. Reports(d, here, anchors) =
        { issuer(p1, "trustChain"), issuer(p2, "certificateValid"), issuer(TRUE, "countryName"),
          issuer(p4, "signature"), issuer(p5, "msoValidNow"), issuer(p6, "msoSignedInCertValidity"),
          Report(p7, "DATA_INTEGRITY", "digests"), Report(p8, "DEVICE_AUTH", "signature") }
  BY DEF Reports, Unchanged, SignedInTime
<1> HIDE DEF p1, p2, p4, p5, p6, p7, p8
<1>4. IssuerChecks = {"trustChain", "certificateValid", "countryName", "signature", "msoValidNow",
                      "msoSignedInCertValidity"}
  BY DEF IssuerChecks, TrustChecks, ValidityChecks
<1>5. \A ok, category, check :
           /\ Report(ok, category, check).status = IF ok THEN "PASSED" ELSE "FAILED"
           /\ Report(ok, category, check).category = category
           /\ Report(ok, category, check).check = check
  BY DEF Report
<1>6. ASSUME NEW r \in Reports(d, here, anchors)
      PROVE  /\ IsCheck(r.category, r.check)
             /\ r.status = IF CheckPasses(d, here, anchors, r.category, r.check) THEN "PASSED" ELSE "FAILED"
  <2> DEFINE Of(ok, category, check) ==
               /\ IsCheck(category, check) /\ ok = CheckPasses(d, here, anchors, category, check)
               /\ r = Report(ok, category, check)
  <2>1. \E category, check : Of(CheckPasses(d, here, anchors, category, check), category, check)
    <3>1. CASE r = issuer(p1, "trustChain")
      BY <1>1, <1>2, <1>4, <3>1 DEF IsCheck
    <3>2. CASE r = issuer(p2, "certificateValid")
      BY <1>1, <1>2, <1>4, <3>2 DEF IsCheck
    <3>3. CASE r = issuer(TRUE, "countryName")
      BY <1>1, <1>2, <1>4, <3>3 DEF IsCheck
    <3>4. CASE r = issuer(p4, "signature")
      BY <1>1, <1>2, <1>4, <3>4 DEF IsCheck
    <3>5. CASE r = issuer(p5, "msoValidNow")
      BY <1>1, <1>2, <1>4, <3>5 DEF IsCheck
    <3>6. CASE r = issuer(p6, "msoSignedInCertValidity")
      BY <1>1, <1>2, <1>4, <3>6 DEF IsCheck
    <3>7. CASE r = Report(p7, "DATA_INTEGRITY", "digests")
      BY <1>2, <3>7 DEF IsCheck
    <3>8. CASE r = Report(p8, "DEVICE_AUTH", "signature")
      BY <1>2, <3>8 DEF IsCheck
    <3> QED
      BY <1>3, <1>6, <3>1, <3>2, <3>3, <3>4, <3>5, <3>6, <3>7, <3>8
  <2> QED
    BY <1>5, <2>1
<1>7. ASSUME NEW category, NEW check, IsCheck(category, check)
      PROVE  Report(CheckPasses(d, here, anchors, category, check), category, check)
                \in Reports(d, here, anchors)
  BY <1>1, <1>2, <1>3, <1>4, <1>7 DEF IsCheck
<1> QED
  BY <1>6, <1>7

(* What the verdicts on a response are: each is what certain checks find,  *)
(* of all its documents (verify-shared.ts:71-103), so that no document can *)
(* lend another what it lacks, and none is excused.                        *)
THEOREM VerdictsOfAll ==
  ASSUME NEW docs, DOMAIN docs # {}, NEW here, NEW anchors
  PROVE  LET v == VerdictOn(docs, here, anchors)
         IN  /\ v \in Verdicts
             /\ v.issuerTrusted <=> \A i \in DOMAIN docs :
                  RecogniseIssuer(docs[i].card, anchors) /\ InDate(docs[i].card.x5chain[1])
             /\ v.authentic <=> \A i \in DOMAIN docs :
                  docs[i].card.signedWith = docs[i].card.x5chain[1].key /\ Unchanged(docs[i])
             /\ v.withinValidity <=> \A i \in DOMAIN docs :
                  InDate(docs[i].card.window) /\ SignedInTime(docs[i].card)
             /\ v.deviceBound <=> \A i \in DOMAIN docs : docs[i].boundTo = here
<1> DEFINE R == AllReports(docs, here, anchors)
           v == ClassifyAssessments(R, FALSE)
           ok(i, category, check) == CheckPasses(docs[i], here, anchors, category, check)
<1>1. \A r \in R : /\ IsCheck(r.category, r.check)
                   /\ \E i \in DOMAIN docs :
                        r.status = IF ok(i, r.category, r.check) THEN "PASSED" ELSE "FAILED"
  BY EveryCheck DEF AllReports
<1>2. \A i \in DOMAIN docs : \A category, check :
        IsCheck(category, check) =>
          \E r \in R : /\ r.category = category /\ r.check = check
                       /\ r.status = IF ok(i, category, check) THEN "PASSED" ELSE "FAILED"
  <2>1. \A p, category, check :
           /\ Report(p, category, check).status = IF p THEN "PASSED" ELSE "FAILED"
           /\ Report(p, category, check).category = category
           /\ Report(p, category, check).check = check
    BY DEF Report
  <2> SUFFICES ASSUME NEW i \in DOMAIN docs, NEW category, NEW check, IsCheck(category, check)
               PROVE  \E r \in R : /\ r.category = category /\ r.check = check
                                   /\ r.status = IF ok(i, category, check) THEN "PASSED" ELSE "FAILED"
    OBVIOUS
  <2>2. Report(ok(i, category, check), category, check) \in R
    BY EveryCheck DEF AllReports
  <2> HIDE DEF ok, R
  <2> QED
    BY <2>1, <2>2
<1> HIDE DEF R, ok
<1>3. \A check \in IssuerChecks :
        IssuerPassed(R, check) <=> \A i \in DOMAIN docs : ok(i, "ISSUER_AUTH", check)
  BY <1>1, <1>2 DEF IsCheck, IssuerPassed, IssuerReports, PassedIn, Passed, Failed
<1>4. /\ PassedIn(R, "DEVICE_AUTH") <=> \A i \in DOMAIN docs : ok(i, "DEVICE_AUTH", "signature")
      /\ Failed(R, "DATA_INTEGRITY") <=> \E i \in DOMAIN docs : ~ ok(i, "DATA_INTEGRITY", "digests")
      /\ ~ Failed(R, "DOCUMENT_FORMAT") /\ ~ UnknownIssuerFailure(R)
  BY <1>1, <1>2 DEF IsCheck, PassedIn, Passed, Failed, UnknownIssuerFailure
<1>5. v \in Verdicts
  BY DEF ClassifyAssessments, Verdicts, PassedIn
<1>6. /\ v.issuerTrusted <=> \A c \in TrustChecks : IssuerPassed(R, c)
      /\ v.authentic <=> IssuerPassed(R, "signature") /\ ~ Failed(R, "DATA_INTEGRITY")
      /\ v.withinValidity <=> \A c \in ValidityChecks : IssuerPassed(R, c)
      /\ v.deviceBound <=> PassedIn(R, "DEVICE_AUTH")
  BY <1>4 DEF ClassifyAssessments
<1>7. \A i \in DOMAIN docs :
        /\ ok(i, "ISSUER_AUTH", "trustChain") <=> RecogniseIssuer(docs[i].card, anchors)
        /\ ok(i, "ISSUER_AUTH", "certificateValid") <=> InDate(docs[i].card.x5chain[1])
        /\ ok(i, "ISSUER_AUTH", "countryName")
        /\ ok(i, "ISSUER_AUTH", "signature") <=> docs[i].card.signedWith = docs[i].card.x5chain[1].key
        /\ ok(i, "ISSUER_AUTH", "msoValidNow") <=> InDate(docs[i].card.window)
        /\ ok(i, "ISSUER_AUTH", "msoSignedInCertValidity") <=> SignedInTime(docs[i].card)
        /\ ok(i, "DATA_INTEGRITY", "digests") <=> Unchanged(docs[i])
        /\ ok(i, "DEVICE_AUTH", "signature") <=> docs[i].boundTo = here
  BY DEF ok, CheckPasses, IssuerPasses
<1> HIDE DEF v
<1> QED
  BY <1>3, <1>4, <1>5, <1>6, <1>7 DEF VerdictOn, v, R, IssuerChecks, TrustChecks, ValidityChecks

AllPassed(d, here, anchors) ==
  /\ RecogniseIssuer(d.card, anchors) /\ InDate(d.card.x5chain[1])
  /\ d.card.signedWith = d.card.x5chain[1].key /\ Unchanged(d)
  /\ InDate(d.card.window) /\ SignedInTime(d.card)
  /\ d.boundTo = here

(* So the verdicts are all good just if every check of every document      *)
(* passes.                                                                 *)
LEMMA GoodIsAllPassed ==
  ASSUME NEW docs, DOMAIN docs # {}, NEW here, NEW anchors
  PROVE  AllGood(VerdictOn(docs, here, anchors)) <=>
           \A i \in DOMAIN docs : AllPassed(docs[i], here, anchors)
<1> DEFINE v == VerdictOn(docs, here, anchors)
<1>1. /\ v.issuerTrusted <=> \A i \in DOMAIN docs :
           RecogniseIssuer(docs[i].card, anchors) /\ InDate(docs[i].card.x5chain[1])
      /\ v.authentic <=> \A i \in DOMAIN docs :
           docs[i].card.signedWith = docs[i].card.x5chain[1].key /\ Unchanged(docs[i])
      /\ v.withinValidity <=> \A i \in DOMAIN docs :
           InDate(docs[i].card.window) /\ SignedInTime(docs[i].card)
      /\ v.deviceBound <=> \A i \in DOMAIN docs : docs[i].boundTo = here
  BY VerdictsOfAll
<1> HIDE DEF v
<1>2. AllGood(v) <=> \A i \in DOMAIN docs : AllPassed(docs[i], here, anchors)
  BY <1>1 DEF AllGood, AllPassed
<1> QED
  BY <1>2 DEF v

(* So the first document is of a fit holder, and made for this transcript. *)
LEMMA VerifiedMeans ==
  ASSUME NEW docs, docs # << >> => 1 \in DOMAIN docs /\ Len(docs[1].card.x5chain) \in Nat,
         IsFiniteSet(site.trustAnchors), NEW transcript, NEW minAge \in Age,
         OutcomeFor(VerifyDecodedResponse(docs, transcript, site.trustAnchors), minAge) = "verified"
  PROVE  docs # << >> /\ docs[1].boundTo = transcript /\ Fit(docs[1].card, minAge)
<1> DEFINE anchors == site.trustAnchors
           v == VerdictOn(docs, transcript, anchors)
           raw == VerifyDecodedResponse(docs, transcript, anchors)
<1>1. raw = [decoded |-> TRUE, docType |-> Decoded(docs).docType, verdict |-> v,
             ageClaims |-> ExtractAgeClaims(Decoded(docs))]
  BY DEF VerifyDecodedResponse, RawVerification, Decoded, VerdictOn, AllReports
<1>2. /\ raw.docType \in AgeDocTypes /\ AllGood(raw.verdict)
      /\ raw.ageClaims[minAge] \notin {"absent", "false"}
  BY VerifiedVerdicts DEF AllGood
<1> HIDE DEF raw
<1>3. docs # << >> /\ docs[1].card.docType \in AgeDocTypes
  BY <1>1, <1>2 DEF Decoded, AgeDocTypes
<1>4. AllPassed(docs[1], transcript, anchors)
  BY <1>1, <1>2, <1>3, GoodIsAllPassed
<1>5. docs[1].card.elements[minAge] = "true"
  <2>1. Says(Decoded(docs), minAge) \notin {"absent", "false"}
    BY <1>1, <1>2 DEF ExtractAgeClaims
  <2>2. docs[1].shows[minAge] = "true"
    BY <1>3, <2>1 DEF Says, Decoded
  <2> QED
    BY <1>4, <2>2 DEF AllPassed, Unchanged
<1>6. \E path \in Ways(docs[1].card.x5chain, anchors) :
        ValidPath(path, docs[1].card.x5chain[1], anchors)
  <2>1. Len(docs[1].card.x5chain) + Cardinality(anchors) - 1 \in Int
    BY <1>3, FS_CardinalityType
  <2> QED
    BY <1>4, <2>1, RecognisedIsValid DEF AllPassed, RecogniseIssuer
<1> QED
  BY <1>3, <1>4, <1>5, <1>6 DEF Fit, AllPassed, SignedInTime

---------------------------------------------------------------------------
(* What a field of a JSON or CBOR value is.                                *)

(* A name that only one pair has, among names no other of which has any.   *)
LEMMA FieldIs ==
  ASSUME NEW value, NEW names, NEW k \in DOMAIN names, k \in Nat, NEW i,
         At(value, names[k]) = {i},
         \A m \in DOMAIN names : m # k => At(value, names[m]) = {}
  PROVE  Field(value, names) = {Pairs(value)[i][2]}
<1> DEFINE named == {m \in DOMAIN names : At(value, names[m]) # {}}
<1>1. named = {k}
  OBVIOUS
<1>2. Least(named) = {k}
  BY <1>1 DEF Least
<1>3. Field(value, names) = {Pairs(value)[j][2] : j \in UNION {At(value, names[m]) : m \in Least(named)}}
  BY DEF Field
<1> HIDE DEF named
<1>4. UNION {At(value, names[m]) : m \in Least(named)} = {i}
  BY <1>2
<1> QED
  BY <1>3, <1>4

LEMMA NoField ==
  ASSUME NEW value, NEW names, \A m \in DOMAIN names : At(value, names[m]) = {}
  PROVE  Field(value, names) = {}
BY DEF Field, Least

LEMMA PairsOfTwo ==
  ASSUME NEW m, NEW n, m # n, NEW v, NEW w
  PROVE  LET value == [object |-> << <<m, v>>, <<n, w>> >>]
         IN  /\ At(value, m) = {1} /\ Pairs(value)[1][2] = v
             /\ At(value, n) = {2} /\ Pairs(value)[2][2] = w
             /\ \A name : name # m /\ name # n => At(value, name) = {}
<1> DEFINE value == [object |-> << <<m, v>>, <<n, w>> >>]
<1>1. Pairs(value) = << <<m, v>>, <<n, w>> >>
  BY DEF Pairs, Is
<1> HIDE DEF value
<1>2. DOMAIN Pairs(value) = {1, 2} /\ Pairs(value)[1] = <<m, v>> /\ Pairs(value)[2] = <<n, w>>
  BY <1>1
<1>3. \A i, name : i \in At(value, name) <=> (i = 1 /\ name = m) \/ (i = 2 /\ name = n)
  BY <1>2 DEF At
<1>4. At(value, m) = {1} /\ At(value, n) = {2}
  BY <1>3
<1>5. \A name : name # m /\ name # n => At(value, name) = {}
  BY <1>3
<1> QED
  BY <1>2, <1>4, <1>5 DEF value

LEMMA PairsOfOne ==
  ASSUME NEW m, NEW v
  PROVE  /\ At(Object(m, v), m) = {1} /\ Pairs(Object(m, v))[1][2] = v
         /\ \A name : name # m => At(Object(m, v), name) = {}
         /\ Elements(Object(m, v)) = <<v>>
<1> DEFINE value == Object(m, v)
<1>1. Is("object", value) /\ value.object = << <<m, v>> >> /\ ~ Is("list", value)
  BY DEF Object, Is
<1> HIDE DEF value
<1>2. DOMAIN Pairs(value) = {1} /\ Pairs(value)[1] = <<m, v>> /\ Pairs(value) = value.object
  BY <1>1 DEF Pairs
<1>3. \A i, name : i \in At(value, name) <=> (i = 1 /\ name = m)
  BY <1>2 DEF At
<1>4. At(value, m) = {1} /\ \A name : name # m => At(value, name) = {}
  BY <1>3
<1>5. Elements(value) = [i \in {1} |-> v]
  BY <1>1, <1>2 DEF Elements
<1>6. [i \in {1} |-> v] = <<v>>
  OBVIOUS
<1> QED
  BY <1>2, <1>4, <1>5, <1>6 DEF value

LEMMA OneName ==
  ASSUME NEW value, NEW name, NEW i, At(value, name) = {i}
  PROVE  Field(value, <<name>>) = {Pairs(value)[i][2]}
<1>1. DOMAIN <<name>> = {1} /\ <<name>>[1] = name
  OBVIOUS
<1> DEFINE names == <<name>>
<1> HIDE DEF names
<1>2. \A m \in DOMAIN names : m # 1 => At(value, names[m]) = {}
  BY <1>1 DEF names
<1>3. 1 \in DOMAIN names /\ names[1] = name
  BY <1>1 DEF names
<1>4. Field(value, names) = {Pairs(value)[i][2]}
  BY <1>2, <1>3, FieldIs
<1> QED
  BY <1>4 DEF names

LEMMA KeyInInfo ==
  ASSUME NEW nonce, NEW key
  PROVE  RecipientPublicKey(EncryptionInfo(nonce, key)) = {key}
<1> DEFINE info == EncryptionInfo(nonce, key)
           params == [object |-> << <<"nonce", Bytes(nonce)>>, <<"recipientPublicKey", CoseKey(key)>> >>]
<1>1. Params(info.cbor) = params
  <2> DEFINE l == << Word("dcapi"), params >>
  <2>1. info.cbor = [list |-> l]
    BY DEF EncryptionInfo
  <2>2. Len(l) = 2 /\ l[2] = params
    OBVIOUS
  <2> HIDE DEF l, params, info
  <2> QED
    BY <2>1, <2>2 DEF Params, Is
<1>2. Field(params, <<"recipientPublicKey">>) = {CoseKey(key)}
  <2> HIDE DEF params
  <2>1. At(params, "recipientPublicKey") = {2} /\ Pairs(params)[2][2] = CoseKey(key)
    BY PairsOfTwo DEF params
  <2> QED
    BY <2>1, OneName
<1>3. Field(CoseKey(key), <<"-2">>) = {Bytes(key)}
  <2>1. At(CoseKey(key), "-2") = {1} /\ Pairs(CoseKey(key))[1][2] = Bytes(key)
    BY PairsOfTwo DEF CoseKey
  <2> QED
    BY <2>1, OneName
<1>4. Is("bytes", Bytes(key)) /\ Bytes(key).bytes = key
  BY DEF Is, Bytes
<1>5. {x.bytes : x \in {x \in Field(CoseKey(key), <<"-2">>) : Is("bytes", x)}} = {key}
  <2> HIDE DEF params, info
  <2>1. {x \in {Bytes(key)} : Is("bytes", x)} = {Bytes(key)}
    BY <1>4
  <2> QED
    BY <1>3, <1>4, <2>1
<1> HIDE DEF params, info
<1>6. RecipientPublicKey(info) = UNION {{x.bytes : x \in {x \in Field(coseKey, <<"-2">>) : Is("bytes", x)}}
           : coseKey \in {CoseKey(key)}}
  BY <1>1, <1>2 DEF RecipientPublicKey
<1>7. RecipientPublicKey(info) = {x.bytes : x \in {x \in Field(CoseKey(key), <<"-2">>) : Is("bytes", x)}}
  BY <1>6
<1> QED
  BY <1>5, <1>7 DEF info

---------------------------------------------------------------------------
(* The text in a wrapping, and the three kinds of content there are.       *)

LEMMA TextIsText ==
  ASSUME NEW content
  PROVE  IsText(Text(content)) /\ Text(content).text = content
BY DEF IsText, Is, Text

LEMMA UnwrapsText ==
  ASSUME NEW content
  PROVE  Unwrap(Text(content)) = {content}
BY TextIsText DEF Unwrap

LEMMA UnwrapsEnvelope ==
  ASSUME NEW content, NEW i \in DOMAIN Envelope
  PROVE  Unwrap(Object(Envelope[i], Text(content))) = {content}
<1> DEFINE data == Object(Envelope[i], Text(content))
<1>1. ~ IsText(data)
  BY DEF Object, IsText, Is
<1>2. /\ DOMAIN Envelope = 1 .. 4
      /\ \A j, k \in 1 .. 4 : j # k => Envelope[j] # Envelope[k]
  BY DEF Envelope
<1>3. /\ At(data, Envelope[i]) = {1} /\ Pairs(data)[1][2] = Text(content)
      /\ \A name : name # Envelope[i] => At(data, name) = {}
  BY PairsOfOne
<1> HIDE DEF data
<1>4. Field(data, Envelope) = {Text(content)}
  <2>1. \A m \in DOMAIN Envelope : m # i => At(data, Envelope[m]) = {}
    BY <1>2, <1>3
  <2> QED
    BY <1>2, <1>3, <2>1, FieldIs
<1>5. {v \in {Text(content)} : IsText(v)} = {Text(content)}
  BY TextIsText
<1> QED
  BY <1>1, <1>4, <1>5, TextIsText DEF Unwrap, data

LEMMA UnwrapsNothing ==
  Unwrap(Nothing) = {}
<1>1. ~ IsText(Nothing) /\ Pairs(Nothing) = << >>
  BY DEF Nothing, IsText, Is, Pairs
<1>2. \A name : At(Nothing, name) = {}
  BY <1>1 DEF At
<1>3. Field(Nothing, Envelope) = {}
  BY <1>2, NoField
<1> QED
  BY <1>1, <1>3 DEF Unwrap

IsoAnswer(sealed) ==
  [cbor |-> [list |-> << Word("dcapi"),
    [object |-> << <<"enc", sealed.enc>>, <<"cipherText", sealed.ciphertext>> >>] >>]]

GoogleAnswer(key, response) ==
  [jwe |-> [to |-> key, plaintext |-> [json |-> Object("vp_token",
     Object("age_check", [list |-> <<Text(response)>>]))]]]

LEMMA IsoContent ==
  ASSUME NEW cards, NEW origin, NEW disclose, NEW nonce, NEW key
  PROVE  PresentIso(cards, EncryptionInfo(nonce, key), origin, disclose) =
           {IsoAnswer(HpkeSeal(key, IsoTranscript(origin, EncryptionInfo(nonce, key)),
                               DeviceResponse(cards, disclose,
                                              IsoTranscript(origin, EncryptionInfo(nonce, key)))))}
<1> DEFINE info == EncryptionInfo(nonce, key)
           t == IsoTranscript(origin, info)
           plain == DeviceResponse(cards, disclose, t)
<1>1. RecipientPublicKey(info) = {key}
  BY KeyInInfo
<1> HIDE DEF info, plain
<1>2. {HpkeSeal(k, t, plain) : k \in RecipientPublicKey(info)} = {HpkeSeal(key, t, plain)}
  BY <1>1
<1> HIDE DEF t
<1>3. SealIsoMdocResponse(plain, info, origin) = {IsoAnswer(s) : s \in {HpkeSeal(key, t, plain)}}
  BY <1>2 DEF SealIsoMdocResponse, IsoAnswer, t
<1>4. SealIsoMdocResponse(plain, info, origin) = {IsoAnswer(HpkeSeal(key, t, plain))}
  BY <1>3
<1> QED
  BY <1>4 DEF PresentIso, plain, info, t

LEMMA GoogleContent ==
  ASSUME NEW cards, NEW origin, NEW nonce, NEW key, NEW disclose
  PROVE  PresentGoogle(cards, origin, nonce, key, disclose) =
           GoogleAnswer(key, DeviceResponse(cards, disclose, DcApiTranscript(origin, nonce, {key})))
BY DEF PresentGoogle, GoogleAnswer, Object

LEMMA KindsDiffer ==
  /\ \A docs : /\ Is("mdoc", [mdoc |-> docs])
               /\ ~ Is("cbor", [mdoc |-> docs]) /\ ~ Is("jwe", [mdoc |-> docs])
               /\ ~ Is("json", [mdoc |-> docs])
  /\ \A s : /\ Is("cbor", IsoAnswer(s))
            /\ ~ Is("mdoc", IsoAnswer(s)) /\ ~ Is("jwe", IsoAnswer(s))
  /\ \A k, r : /\ Is("jwe", GoogleAnswer(k, r))
               /\ ~ Is("mdoc", GoogleAnswer(k, r)) /\ ~ Is("cbor", GoogleAnswer(k, r))
  /\ \A w : /\ ~ Is("mdoc", [word |-> w]) /\ ~ Is("cbor", [word |-> w])
            /\ ~ Is("jwe", [word |-> w]) /\ ~ Is("json", [word |-> w])
BY DEF Is, IsoAnswer, GoogleAnswer

---------------------------------------------------------------------------
(* What each of the three verifiers makes of one content.                  *)

LEMMA NoneDecoded ==
  ASSUME NEW transcript, NEW anchors, NEW minAge
  PROVE  OutcomeOf({}, transcript, anchors, minAge) = "malformed"
BY DEF OutcomeOf, OutcomeFor, NotDecoded

LEMMA OneDecoded ==
  ASSUME NEW docs, NEW transcript, NEW anchors, NEW minAge
  PROVE  OutcomeOf({docs}, transcript, anchors, minAge) =
           OutcomeFor(VerifyDecodedResponse(docs, transcript, anchors), minAge)
<1>1. {docs} # {} /\ (CHOOSE d \in {docs} : TRUE) = docs
  OBVIOUS
<1> QED
  BY <1>1 DEF OutcomeOf

LEMMA PlainOutcome ==
  ASSUME NEW docs, NEW nonce, NEW origin, NEW minAge, NEW anchors
  PROVE  VerifyPresentation([mdoc |-> docs], nonce, origin, minAge, anchors) =
           OutcomeFor(VerifyDecodedResponse(docs, DcApiTranscript(origin, nonce, {}), anchors), minAge)
<1>1. DecodeResponse([mdoc |-> docs]) = {docs}
  BY KindsDiffer DEF DecodeResponse
<1> QED
  BY <1>1, OneDecoded DEF VerifyPresentation

LEMMA PlainMalformed ==
  ASSUME NEW content, ~ Is("mdoc", content),
         NEW nonce, NEW origin, NEW minAge, NEW anchors
  PROVE  VerifyPresentation(content, nonce, origin, minAge, anchors) = "malformed"
BY NoneDecoded DEF VerifyPresentation, DecodeResponse

LEMMA IsoParsed ==
  ASSUME NEW data, NEW e, NEW s,
         Unwrap(data) = {IsoAnswer([enc |-> Bytes(e), ciphertext |-> Bytes(s)])}
  PROVE  ParseEncryptedResponse(data) = {[enc |-> e, ciphertext |-> s]}
<1> DEFINE params == [object |-> << <<"enc", Bytes(e)>>, <<"cipherText", Bytes(s)>> >>]
           l == << Word("dcapi"), params >>
           content == IsoAnswer([enc |-> Bytes(e), ciphertext |-> Bytes(s)])
           texts == <<"cipherText", "ciphertext", "cipher_text">>
           encs == {x \in Field(params, <<"enc">>) : Is("bytes", x)}
           ciphers == {x \in Field(params, texts) : Is("bytes", x)}
<1>1. content.cbor = [list |-> l]
  BY DEF IsoAnswer
<1>2. Len(l) = 2 /\ l[2] = params
  OBVIOUS
<1>3. At(params, "enc") = {1} /\ Pairs(params)[1][2] = Bytes(e)
      /\ At(params, "cipherText") = {2} /\ Pairs(params)[2][2] = Bytes(s)
      /\ \A name : name # "enc" /\ name # "cipherText" => At(params, name) = {}
  BY PairsOfTwo
<1>4. DOMAIN texts = 1 .. 3 /\ texts[1] = "cipherText" /\ texts[2] = "ciphertext"
      /\ texts[3] = "cipher_text"
  OBVIOUS
<1>5. \A x : Is("bytes", Bytes(x)) /\ Bytes(x).bytes = x
  BY DEF Is, Bytes
<1>6. Is("cbor", content)
  BY KindsDiffer
<1> HIDE DEF l, params, content, texts
<1>7. Params(content.cbor) = params
  BY <1>1, <1>2 DEF Params, Is
<1>8. Field(params, <<"enc">>) = {Bytes(e)}
  BY <1>3, OneName
<1>9. Field(params, texts) = {Bytes(s)}
  BY <1>3, <1>4, FieldIs
<1>10. encs = {Bytes(e)} /\ ciphers = {Bytes(s)}
  BY <1>5, <1>8, <1>9
<1>11. {x \in Unwrap(data) : Is("cbor", x)} = {content}
  BY <1>6 DEF content
<1> DEFINE Parsed(x) ==
             {[enc |-> a.bytes, ciphertext |-> b.bytes]
               : a \in {a \in Field(Params(x.cbor), <<"enc">>) : Is("bytes", a)},
                 b \in {b \in Field(Params(x.cbor), <<"cipherText", "ciphertext", "cipher_text">>)
                          : Is("bytes", b)}}
<1>12. ParseEncryptedResponse(data) = UNION {Parsed(x) : x \in {x \in Unwrap(data) : Is("cbor", x)}}
  BY DEF ParseEncryptedResponse
<1>13. Parsed(content) = {[enc |-> a.bytes, ciphertext |-> b.bytes] : a \in encs, b \in ciphers}
  BY <1>7 DEF texts
<1>14. Parsed(content) = {[enc |-> e, ciphertext |-> s]}
  <2> HIDE DEF encs, ciphers, Parsed
  <2> QED
    BY <1>5, <1>10, <1>13
<1> HIDE DEF Parsed
<1>15. UNION {Parsed(x) : x \in {content}} = Parsed(content)
  OBVIOUS
<1> QED
  BY <1>11, <1>12, <1>14, <1>15

LEMMA IsoOutcome ==
  ASSUME NEW data, NEW docs, NEW key, NEW t, NEW c, NEW origin, NEW anchors,
         Unwrap(data) = {IsoAnswer(HpkeSeal(key, t, [mdoc |-> docs]))}
  PROVE  VerifyIsoMdocPresentation(data, c, origin, anchors) =
           IF c.isoKey = key /\ t = IsoTranscript(origin, c.isoInfo)
             THEN OutcomeFor(VerifyDecodedResponse(docs, t, anchors), c.minAge)
             ELSE "malformed"
<1> DEFINE enc == [encapsulatedFor |-> key]
           text == [sealedFor |-> key, info |-> t, plaintext |-> [mdoc |-> docs]]
           sealed == [enc |-> enc, ciphertext |-> text]
           transcript == IsoTranscript(origin, c.isoInfo)
           opened == UNION {HpkeOpen(c.isoKey, x, transcript) : x \in ParseEncryptedResponse(data)}
           decoded == UNION {DecodeResponse(p) : p \in opened}
<1>1. ParseEncryptedResponse(data) = {sealed}
  <2>1. HpkeSeal(key, t, [mdoc |-> docs]) = [enc |-> Bytes(enc), ciphertext |-> Bytes(text)]
    BY DEF HpkeSeal
  <2> HIDE DEF enc, text
  <2> QED
    BY <2>1, IsoParsed
<1>2. HpkeOpen(c.isoKey, sealed, transcript) =
        IF c.isoKey = key /\ t = transcript THEN {[mdoc |-> docs]} ELSE {}
  BY DEF HpkeOpen
<1> HIDE DEF sealed, transcript
<1>3. opened = HpkeOpen(c.isoKey, sealed, transcript)
  BY <1>1
<1>4. VerifyIsoMdocPresentation(data, c, origin, anchors) = OutcomeOf(decoded, transcript, anchors, c.minAge)
  BY DEF VerifyIsoMdocPresentation, transcript
<1> HIDE DEF opened
<1>5. CASE c.isoKey = key /\ t = transcript
  <2>1. opened = {[mdoc |-> docs]}
    BY <1>2, <1>3, <1>5
  <2>2. DecodeResponse([mdoc |-> docs]) = {docs}
    BY KindsDiffer DEF DecodeResponse
  <2>3. decoded = {docs}
    BY <2>1, <2>2
  <2> QED
    BY <1>4, <1>5, <2>3, OneDecoded DEF transcript
<1>6. CASE ~ (c.isoKey = key /\ t = transcript)
  <2>1. decoded = {}
    BY <1>2, <1>3, <1>6
  <2> QED
    BY <1>4, <1>6, <2>1, NoneDecoded DEF transcript
<1> QED
  BY <1>5, <1>6

LEMMA IsoMalformed ==
  ASSUME NEW data, \A content \in Unwrap(data) : ~ Is("cbor", content),
         NEW c, NEW origin, NEW anchors
  PROVE  VerifyIsoMdocPresentation(data, c, origin, anchors) = "malformed"
<1>1. ParseEncryptedResponse(data) = {}
  BY DEF ParseEncryptedResponse
<1> DEFINE opened == UNION {HpkeOpen(c.isoKey, x, IsoTranscript(origin, c.isoInfo))
                              : x \in ParseEncryptedResponse(data)}
           decoded == UNION {DecodeResponse(p) : p \in opened}
<1>2. opened = {}
  BY <1>1
<1> HIDE DEF opened
<1>3. decoded = {}
  BY <1>2
<1> QED
  BY <1>3, NoneDecoded DEF VerifyIsoMdocPresentation, opened

GoogleTranscript(origin, nonce, key) == DcApiTranscript(origin, nonce, {key})

LEMMA GoogleOutcome ==
  ASSUME NEW data, NEW docs, NEW to, NEW key, NEW c, NEW origin, NEW anchors,
         Unwrap(data) = {GoogleAnswer(to, [mdoc |-> docs])}
  PROVE  VerifyGooglePresentation(data, c, key, origin, anchors) =
           IF to = key
             THEN OutcomeFor(VerifyDecodedResponse(docs, GoogleTranscript(origin, c.nonce, key),
                                                   anchors), c.minAge)
             ELSE "malformed"
<1> DEFINE content == GoogleAnswer(to, [mdoc |-> docs])
           inner == [list |-> <<Text([mdoc |-> docs])>>]
           vpToken == Object("age_check", inner)
           plain == [json |-> Object("vp_token", vpToken)]
           payloads == {x.jwe.plaintext : x \in {x \in ExtractJweCompact(data) : x.jwe.to = key}}
           readable == {p \in payloads : Is("json", p)}
           tokens == UNION {Field(p.json, <<"vp_token">>) : p \in readable}
           mdocs == UNION {ExtractMdocFromVpToken(v) : v \in tokens}
           decoded == UNION {DecodeResponse(m) : m \in mdocs}
           transcript == GoogleTranscript(origin, c.nonce, key)
<1>1. VerifyGooglePresentation(data, c, key, origin, anchors) =
        OutcomeOf(decoded, transcript, anchors, c.minAge)
  BY DEF VerifyGooglePresentation, GoogleTranscript
<1>2. content.jwe.to = to /\ content.jwe.plaintext = plain
  BY DEF GoogleAnswer
<1>3. Is("json", plain) /\ plain.json = Object("vp_token", vpToken)
  BY DEF Is
<1>4. Field(Object("vp_token", vpToken), <<"vp_token">>) = {vpToken}
  BY PairsOfOne, OneName
<1>5. Is("jwe", content)
  BY KindsDiffer
<1>6. ExtractMdocFromVpToken(vpToken) = {[mdoc |-> docs]}
  <2>1. ~ IsText(vpToken)
    BY DEF IsText, Is, Object
  <2>2. Elements(vpToken) = <<inner>>
    BY PairsOfOne
  <2>3. <<inner>> # << >> /\ <<inner>>[1] = inner
    OBVIOUS
  <2>4. ~ IsText(inner) /\ Is("list", inner) /\ inner.list = <<Text([mdoc |-> docs])>>
    BY DEF IsText, Is
  <2>5. SubSeq(inner.list, 1, 1) = inner.list
    <3> DEFINE text == Text([mdoc |-> docs])
    <3> HIDE DEF text
    <3>1. SubSeq(<<text>>, 1, 1) = <<text>>
      <4> DEFINE s == <<text>>
      <4>1. s \in Seq({text}) /\ Len(s) = 1 /\ s[1] = text
        OBVIOUS
      <4> HIDE DEF s
      <4> DEFINE r == SubSeq(s, 1, 1)
      <4>2. r \in Seq({text}) /\ Len(r) = 1 /\ r[1] = s[1]
        BY <4>1
      <4> HIDE DEF r
      <4>3. \A u, v \in Seq({text}) :
              Len(u) = 1 /\ Len(v) = 1 /\ u[1] = v[1] => u = v
        OBVIOUS
      <4>4. r = s
        BY <4>1, <4>2, <4>3
      <4> QED
        BY <4>4 DEF r, s
    <3> QED
      BY <2>4, <3>1 DEF text
  <2>6. FirstText(inner.list) = {[mdoc |-> docs]}
    <3> DEFINE values == inner.list
               those == {i \in DOMAIN values : IsText(values[i])}
    <3>1. DOMAIN values = {1} /\ values[1] = Text([mdoc |-> docs])
      BY <2>4
    <3> HIDE DEF values
    <3>2. those = {1}
      BY <3>1, TextIsText
    <3>3. Least(those) = {1}
      BY <3>2 DEF Least
    <3>4. FirstText(values) = {values[i].text : i \in Least(those)}
      BY DEF FirstText
    <3> HIDE DEF those
    <3>5. FirstText(values) = {values[1].text}
      BY <3>3, <3>4
    <3> QED
      BY <3>1, <3>5, TextIsText DEF values
  <2> HIDE DEF inner, vpToken
  <2> QED
    BY <2>1, <2>2, <2>3, <2>4, <2>5, <2>6 DEF ExtractMdocFromVpToken
<1>7. DecodeResponse([mdoc |-> docs]) = {docs}
  BY KindsDiffer DEF DecodeResponse
<1>8. ExtractJweCompact(data) = {content}
  BY <1>5 DEF ExtractJweCompact
<1> HIDE DEF content, vpToken, plain
<1>9. payloads = IF to = key THEN {plain} ELSE {}
  BY <1>2, <1>8
<1> HIDE DEF payloads
<1>10. CASE to = key
  <2>1. readable = {plain}
    BY <1>3, <1>9, <1>10
  <2> HIDE DEF readable
  <2>2. tokens = {vpToken}
    BY <1>3, <1>4, <2>1
  <2> HIDE DEF tokens
  <2>3. mdocs = {[mdoc |-> docs]}
    BY <1>6, <2>2
  <2> HIDE DEF mdocs
  <2>4. decoded = {docs}
    BY <1>7, <2>3
  <2> QED
    BY <1>1, <1>10, <2>4, OneDecoded
<1>11. CASE to # key
  <2>1. readable = {}
    BY <1>9, <1>11
  <2> HIDE DEF readable
  <2>2. tokens = {}
    BY <2>1
  <2> HIDE DEF tokens
  <2>3. decoded = {}
    BY <2>2
  <2> QED
    BY <1>1, <1>11, <2>3, NoneDecoded
<1> QED
  BY <1>10, <1>11

LEMMA GoogleMalformed ==
  ASSUME NEW data, \A content \in Unwrap(data) : ~ Is("jwe", content),
         NEW key, NEW c, NEW origin, NEW anchors
  PROVE  VerifyGooglePresentation(data, c, key, origin, anchors) = "malformed"
<1> DEFINE payloads == {x.jwe.plaintext : x \in {x \in ExtractJweCompact(data) : x.jwe.to = key}}
           tokens == UNION {Field(p.json, <<"vp_token">>) : p \in {p \in payloads : Is("json", p)}}
           mdocs == UNION {ExtractMdocFromVpToken(v) : v \in tokens}
           decoded == UNION {DecodeResponse(m) : m \in mdocs}
<1>1. ExtractJweCompact(data) = {}
  BY DEF ExtractJweCompact
<1>2. payloads = {}
  BY <1>1
<1>3. VerifyGooglePresentation(data, c, key, origin, anchors) =
        OutcomeOf(decoded, DcApiTranscript(origin, c.nonce, {key}), anchors, c.minAge)
  BY DEF VerifyGooglePresentation
<1> HIDE DEF payloads
<1>4. tokens = {}
  BY <1>2
<1> HIDE DEF tokens
<1>5. decoded = {}
  BY <1>4
<1> QED
  BY <1>3, <1>5, NoneDecoded

---------------------------------------------------------------------------
(* What the client finds in the wrappings a browser may use.               *)

LEMMA FirstOfOne ==
  ASSUME NEW content
  PROVE  FirstText(<<Text(content)>>) = {content}
<1> DEFINE values == <<Text(content)>>
           those == {i \in DOMAIN values : IsText(values[i])}
<1>1. DOMAIN values = {1} /\ values[1] = Text(content)
  OBVIOUS
<1> HIDE DEF values
<1>2. those = {1}
  BY <1>1, TextIsText
<1>3. Least(those) = {1}
  BY <1>2 DEF Least
<1>4. FirstText(values) = {values[i].text : i \in Least(those)}
  BY DEF FirstText
<1> HIDE DEF those
<1>5. FirstText(values) = {values[1].text}
  BY <1>3, <1>4
<1> QED
  BY <1>1, <1>5, TextIsText DEF values

Best(candidates) ==
  UNION {candidates[i] : i \in Least({i \in DOMAIN candidates : candidates[i] # {}})}

LEMMA BestIs ==
  ASSUME NEW s, NEW n \in {1, 2, 3}, DOMAIN s \subseteq Nat \ {0}, n \in DOMAIN s, s[n] # {},
         \A m \in DOMAIN s : m < n => s[m] = {}
  PROVE  Best(s) = s[n]
<1> DEFINE those == {i \in DOMAIN s : s[i] # {}}
<1>1. n \in those /\ \A m \in those : n <= m
  OBVIOUS
<1>2. those \subseteq Nat
  OBVIOUS
<1> HIDE DEF those
<1>3. Least(those) = {n}
  <2>1. n \in Least(those)
    BY <1>1 DEF Least
  <2>2. \A k \in Least(those) : k \in Nat /\ k <= n /\ n <= k
    BY <1>1, <1>2 DEF Least
  <2>3. \A k \in Least(those) : k = n
    BY <2>2
  <2> QED
    BY <2>1, <2>3
<1>4. Best(s) = UNION {s[i] : i \in Least(those)}
  BY DEF Best, those
<1> QED
  BY <1>3, <1>4

(* What is dug out of a value is dug out of its vp_token.                  *)
LEMMA DugOut ==
  ASSUME NEW container, NEW id
  PROVE  DigVpToken(Object("vp_token", container), id) = Best(Candidates(container, id))
<1>1. Field(Object("vp_token", container), <<"vp_token">>) = {container}
  BY PairsOfOne, OneName
<1> DEFINE inner == Field(Object("vp_token", container), <<"vp_token">>)
           found == IF inner = {} THEN Object("vp_token", container)
                    ELSE CHOOSE v \in inner : TRUE
<1>2. found = container
  <2> HIDE DEF inner
  <2>1. inner = {container}
    BY <1>1 DEF inner
  <2> QED
    BY <2>1
<1>3. DigVpToken(Object("vp_token", container), id) = Best(Candidates(found, id))
  BY DEF DigVpToken, Best
<1> HIDE DEF found
<1> QED
  BY <1>2, <1>3

Under(container, id) == UNION {AsTokenString(v) : v \in Field(container, <<id>>)}

LEMMA CandidatesAre ==
  ASSUME NEW container, NEW id, NEW n \in Nat, DOMAIN Elements(container) = 1 .. n
  PROVE  LET s == Candidates(container, id)
         IN  /\ DOMAIN s = 1 .. n + 2
             /\ s[1] = AsTokenString(container)
             /\ s[2] = Under(container, id)
             /\ \A i \in 1 .. n : s[i + 2] = AsTokenString(Elements(container)[i])
<1> DEFINE u == AsTokenString(container)
           w == UNION {AsTokenString(v) : v \in Field(container, <<id>>)}
           f == [i \in DOMAIN Elements(container) |-> AsTokenString(Elements(container)[i])]
<1>1. DOMAIN f = 1 .. n /\ \A i \in 1 .. n : f[i] = AsTokenString(Elements(container)[i])
  OBVIOUS
<1>2. Candidates(container, id) = <<u, w>> \o f
  BY DEF Candidates
<1> HIDE DEF u, w, f
<1>3. f \in Seq({f[i] : i \in 1 .. n}) /\ Len(f) = n
  <2>1. f = [i \in 1 .. n |-> f[i]]
    <3> DEFINE g == [i \in 1 .. n |-> f[i]]
    <3>1. f = [i \in DOMAIN Elements(container) |-> AsTokenString(Elements(container)[i])]
      BY DEF f
    <3>2. DOMAIN f = DOMAIN g /\ \A i \in DOMAIN f : f[i] = g[i]
      BY <1>1
    <3> QED
      BY <3>1, <3>2
  <2> QED
    BY <1>1, <2>1
<1>4. <<u, w>> \in Seq({u, w}) /\ Len(<<u, w>>) = 2
  OBVIOUS
<1>5. LET s == <<u, w>> \o f
      IN  /\ DOMAIN s = 1 .. n + 2 /\ s[1] = u /\ s[2] = w
          /\ \A i \in 1 .. n : s[i + 2] = f[i]
  <2> DEFINE A == {u, w} \cup {f[i] : i \in 1 .. n}
             p == <<u, w>>
  <2>1. p \in Seq(A) /\ f \in Seq(A) /\ Len(p) = 2 /\ p[1] = u /\ p[2] = w
    BY <1>3, <1>4
  <2> HIDE DEF A, p
  <2>0. /\ p \o f \in Seq(A) /\ Len(p \o f) = Len(p) + Len(f)
        /\ \A i \in 1 .. Len(p) + Len(f) : (p \o f)[i] = IF i <= Len(p) THEN p[i] ELSE f[i - Len(p)]
    BY <2>1, ConcatProperties, Zenon
  <2>2. /\ p \o f \in Seq(A) /\ Len(p \o f) = 2 + n
        /\ \A i \in 1 .. 2 + n : (p \o f)[i] = IF i <= 2 THEN p[i] ELSE f[i - 2]
    BY <1>3, <2>1, <2>0
  <2>3. DOMAIN (p \o f) = 1 .. n + 2
    BY <2>2
  <2>4. (p \o f)[1] = u /\ (p \o f)[2] = w /\ \A i \in 1 .. n : (p \o f)[i + 2] = f[i]
    BY <2>1, <2>2
  <2> QED
    BY <2>3, <2>4 DEF p
<1> QED
  BY <1>1, <1>2, <1>5 DEF u, w, Under

LEMMA DugFirst ==
  ASSUME NEW container, NEW id, NEW n \in Nat, DOMAIN Elements(container) = 1 .. n,
         AsTokenString(container) # {}
  PROVE  DigVpToken(Object("vp_token", container), id) = AsTokenString(container)
<1> DEFINE s == Candidates(container, id)
<1>1. DOMAIN s = 1 .. n + 2 /\ s[1] = AsTokenString(container)
  BY CandidatesAre
<1> HIDE DEF s
<1>2. Best(s) = s[1]
  BY <1>1, BestIs
<1> QED
  BY <1>1, <1>2, DugOut DEF s

(* Not in the value itself, but under the only name it has.                *)
LEMMA DugSecond ==
  ASSUME NEW name, NEW v, NEW id, AsTokenString(v) # {}
  PROVE  DigVpToken(Object("vp_token", Object(name, v)), id) = AsTokenString(v)
<1> DEFINE container == Object(name, v)
           s == Candidates(container, id)
<1>1. AsTokenString(container) = {}
  BY DEF AsTokenString, IsText, Is, Object
<1>2. Elements(container) = <<v>> /\ DOMAIN <<v>> = 1 .. 1 /\ <<v>>[1] = v
  BY PairsOfOne
<1>3. /\ At(container, name) = {1} /\ Pairs(container)[1][2] = v
      /\ name # id => At(container, id) = {}
  BY PairsOfOne
<1> HIDE DEF container
<1>4. /\ DOMAIN s = 1 .. 1 + 2 /\ s[1] = {}
      /\ s[2] = Under(container, id)
      /\ s[1 + 2] = AsTokenString(v)
  <2> DEFINE n == 1
  <2>1. DOMAIN Elements(container) = 1 .. n /\ Elements(container)[1] = v /\ n \in Nat
    BY <1>2
  <2> HIDE DEF n
  <2>2. /\ DOMAIN s = 1 .. n + 2 /\ s[1] = AsTokenString(container)
        /\ s[2] = Under(container, id)
        /\ \A i \in 1 .. n : s[i + 2] = AsTokenString(Elements(container)[i])
    BY <2>1, CandidatesAre
  <2> HIDE DEF s
  <2>3. n = 1
    BY DEF n
  <2> QED
    BY <1>1, <2>1, <2>2, <2>3
<1> HIDE DEF s
<1>5. Best(s) = AsTokenString(v)
  <2>1. CASE name = id
    <3>1. Field(container, <<id>>) = {v}
      BY <1>3, <2>1, OneName
    <3>2. s[2] = AsTokenString(v)
      BY <1>4, <3>1 DEF Under
    <3> QED
      BY <1>4, <3>2, BestIs
  <2>2. CASE name # id
    <3>1. \A m \in DOMAIN <<id>> : At(container, <<id>>[m]) = {}
      BY <1>3, <2>2
    <3>2. Field(container, <<id>>) = {}
      BY <3>1, NoField
    <3>3. s[2] = {} /\ s[3] = AsTokenString(v)
      BY <1>4, <3>2 DEF Under
    <3> QED
      BY <1>4, <3>3, BestIs
  <2> QED
    BY <2>1, <2>2
<1> QED
  BY <1>5, DugOut DEF s, container

LEMMA TokenStrings ==
  ASSUME NEW content
  PROVE  /\ AsTokenString(Text(content)) = {content}
         /\ AsTokenString([list |-> <<Text(content)>>]) = {content}
         /\ Elements(Text(content)) = << >>
         /\ Elements([list |-> <<Text(content)>>]) = <<Text(content)>>
<1>1. ~ IsText([list |-> <<Text(content)>>])
  BY DEF IsText, Is
<1>2. AsTokenString([list |-> <<Text(content)>>]) = {content}
  BY <1>1, FirstOfOne DEF AsTokenString, Is
<1>3. AsTokenString(Text(content)) = {content}
  BY TextIsText DEF AsTokenString
<1> QED
  BY <1>2, <1>3 DEF Elements, Is, Text

PlainWrappings(content) ==
  LET token == Text(content)
      list == [list |-> <<token>>]
      vp(value) == Object("vp_token", value)
  IN  { token, vp(token), vp(list), vp(Object("age_check", list)),
        vp(Object("other", token)), Text([json |-> vp(Object("age_check", list))]) }

LEMMA Extracted ==
  ASSUME NEW content, ~ Is("jwe", content), ~ Is("json", content),
         NEW data \in PlainWrappings(content)
  PROVE  ExtractVpToken(data, "age_check") = {content}
<1> DEFINE token == Text(content)
           list == [list |-> <<token>>]
           vp(value) == Object("vp_token", value)
<1>1. /\ AsTokenString(token) = {content} /\ AsTokenString(list) = {content}
      /\ DOMAIN Elements(token) = 1 .. 0 /\ DOMAIN Elements(list) = 1 .. 1
  BY TokenStrings
<1>2. /\ DigVpToken(vp(token), "age_check") = {content}
      /\ DigVpToken(vp(list), "age_check") = {content}
      /\ DigVpToken(vp(Object("age_check", list)), "age_check") = {content}
      /\ DigVpToken(vp(Object("other", token)), "age_check") = {content}
  <2> HIDE DEF token, list
  <2>1. DigVpToken(vp(token), "age_check") = {content}
    BY <1>1, DugFirst
  <2>2. DigVpToken(vp(list), "age_check") = {content}
    BY <1>1, DugFirst
  <2>3. DigVpToken(vp(Object("age_check", list)), "age_check") = {content}
    BY <1>1, DugSecond
  <2>4. DigVpToken(vp(Object("other", token)), "age_check") = {content}
    BY <1>1, DugSecond
  <2> QED
    BY <2>1, <2>2, <2>3, <2>4
<1>3. \A value : ~ IsText(vp(value))
  BY DEF IsText, Is, Object
<1>4. ExtractVpToken(token, "age_check") = {content}
  BY TextIsText DEF ExtractVpToken, Base64Url
<1>5. \A value : ExtractVpToken(vp(value), "age_check") = DigVpToken(vp(value), "age_check")
  BY <1>3 DEF ExtractVpToken
<1>6. ExtractVpToken(Text([json |-> vp(Object("age_check", list))]), "age_check") = {content}
  <2> DEFINE j == [json |-> vp(Object("age_check", list))]
  <2>1. Is("json", j) /\ j.json = vp(Object("age_check", list))
    BY DEF Is
  <2> HIDE DEF j, vp, list
  <2>2. ExtractVpToken(Text(j), "age_check") = DigVpToken(j.json, "age_check")
    BY <2>1, TextIsText DEF ExtractVpToken
  <2> QED
    BY <1>2, <2>1, <2>2 DEF j
<1>7. data \in {token, vp(token), vp(list), vp(Object("age_check", list)),
                vp(Object("other", token)), Text([json |-> vp(Object("age_check", list))])}
  BY DEF PlainWrappings
<1> HIDE DEF token, list, vp
<1> QED
  BY <1>2, <1>4, <1>5, <1>6, <1>7

---------------------------------------------------------------------------
(* What is in an answer, and what the site makes of it on each way in.     *)

(* The transcript an answer's documents are made for.                      *)
BoundTo(protocol, origin, nonce) ==
  CASE protocol = Unsigned -> DcApiTranscript(origin, nonce, {})
    [] protocol = Google -> DcApiTranscript(origin, nonce, {Key("google", nonce)})
    [] protocol = Iso -> IsoTranscript(origin, EncryptionInfo(Key("nonce", nonce), Key("iso", nonce)))

Shown(protocol, cards, origin, nonce, disclosed) ==
  DeviceResponse(cards, disclosed, BoundTo(protocol, origin, nonce))

LEMMA PagesAreOwn == \A s \in Site : SiteOrigin(s) = Page
<1> SUFFICES ASSUME NEW s \in Site PROVE SiteOrigin(s) = Page
  OBVIOUS
<1>1. /\ s.origin = [address |-> Page.address, slashes |-> s.origin.slashes]
      /\ Page = [address |-> Page.address, slashes |-> 0]
  BY SiteAssumption DEF Origin
<1>2. [s.origin EXCEPT !.slashes = 0] = [address |-> Page.address, slashes |-> 0]
  <2> DEFINE k == s.origin.slashes
             o == [address |-> Page.address, slashes |-> k]
  <2>1. s.origin = o
    BY <1>1
  <2> HIDE DEF k
  <2>2. [o EXCEPT !.slashes = 0] = [address |-> Page.address, slashes |-> 0]
    OBVIOUS
  <2> QED
    BY <2>1, <2>2
<1> QED
  BY <1>1, <1>2 DEF SiteOrigin

LEMMA Protocols ==
  Unsigned # Google /\ Google # Iso /\ Unsigned # Iso /\ "none" \notin {Unsigned, Google, Iso}
BY DEF Unsigned, Google, Iso

LEMMA GenuineIs ==
  ASSUME NEW cards, NEW origin, NEW nonce, NEW disclosed
  PROVE  /\ Genuine(Unsigned, cards, origin, nonce, disclosed) = {Shown(Unsigned, cards, origin, nonce, disclosed)}
         /\ Genuine(Google, cards, origin, nonce, disclosed) =
              {GoogleAnswer(Key("google", nonce), Shown(Google, cards, origin, nonce, disclosed))}
         /\ Genuine(Iso, cards, origin, nonce, disclosed) =
              {IsoAnswer(HpkeSeal(Key("iso", nonce), BoundTo(Iso, origin, nonce),
                                  Shown(Iso, cards, origin, nonce, disclosed)))}
<1>1. Genuine(Unsigned, cards, origin, nonce, disclosed) = {Shown(Unsigned, cards, origin, nonce, disclosed)}
  BY Protocols DEF Genuine, Shown, BoundTo, Present
<1>2. Genuine(Google, cards, origin, nonce, disclosed) =
        {GoogleAnswer(Key("google", nonce), Shown(Google, cards, origin, nonce, disclosed))}
  BY Protocols, GoogleContent DEF Genuine, Shown, BoundTo
<1>3. Genuine(Iso, cards, origin, nonce, disclosed) =
        PresentIso(cards, EncryptionInfo(Key("nonce", nonce), Key("iso", nonce)), origin, disclosed)
  BY Protocols DEF Genuine
<1>4. BoundTo(Iso, origin, nonce) =
        IsoTranscript(origin, EncryptionInfo(Key("nonce", nonce), Key("iso", nonce)))
  BY Protocols DEF BoundTo
<1> QED
  BY <1>1, <1>2, <1>3, <1>4, IsoContent DEF Shown

LEMMA TranscriptsDiffer ==
  ASSUME NEW protocol \in {Unsigned, Google, Iso}, NEW origin, NEW page, NEW n, NEW m,
         BoundTo(protocol, origin, n) = BoundTo(protocol, page, m)
  PROVE  origin = page /\ (protocol # Iso => n = m)
<1>1. CASE protocol = Unsigned
  BY <1>1, Protocols DEF BoundTo, DcApiTranscript
<1>2. CASE protocol = Google
  BY <1>2, Protocols DEF BoundTo, DcApiTranscript
<1>3. CASE protocol = Iso
  BY <1>3, Protocols DEF BoundTo, IsoTranscript
<1> QED
  BY <1>1, <1>2, <1>3

(* The documents of an answer, as altered.                                 *)
Documents(a, origin) == Change(Shown(a.protocol, a.cards, origin, a.question.nonce, a.disclosed), a.altered).mdoc

LEMMA ChangedIs ==
  ASSUME NEW docs, NEW how \in {"no", "signature", "age"}
  PROVE  /\ Change([mdoc |-> docs], how) = [mdoc |-> Change([mdoc |-> docs], how).mdoc]
         /\ DOMAIN Change([mdoc |-> docs], how).mdoc = DOMAIN docs
         /\ \A i \in DOMAIN docs : i # 1 => Change([mdoc |-> docs], how).mdoc[i] = docs[i]
BY DEF Change, TamperIssuerAuthSignature, FlipDisclosedAge, ChangeFirst

LEMMA NotChanged ==
  ASSUME NEW content
  PROVE  Change(content, "no") = content /\ Change(content, "garbled") = [word |-> "garbled"]
BY DEF Change

(* What AnswerInv says of the contents of an answer.                       *)
Made(a, origin) ==
  /\ a.protocol \in {Unsigned, Google, Iso}
  /\ a.altered \in {"no", "signature", "age", "garbled"}
  /\ a.altered \in {"signature", "age"} => a.protocol = Unsigned /\ a.cards # << >>
  /\ \E content \in Genuine(a.protocol, a.cards, origin, a.question.nonce, a.disclosed) :
       a.content = Change(content, a.altered)

LEMMA ContentsAre ==
  ASSUME NEW a, NEW origin, Made(a, origin)
  PROVE  LET docs == Documents(a, origin)
             n == a.question.nonce
         IN  /\ a.altered = "garbled" => a.content = [word |-> "garbled"]
             /\ a.altered # "garbled" =>
                  /\ a.protocol = Unsigned => a.content = [mdoc |-> docs]
                  /\ a.protocol = Google => a.content = GoogleAnswer(Key("google", n), [mdoc |-> docs])
                  /\ a.protocol = Iso =>
                       a.content = IsoAnswer(HpkeSeal(Key("iso", n), BoundTo(Iso, origin, n),
                                                      [mdoc |-> docs]))
<1> DEFINE shown == Shown(a.protocol, a.cards, origin, a.question.nonce, a.disclosed)
           docs == Documents(a, origin)
           n == a.question.nonce
<1>1. PICK content \in Genuine(a.protocol, a.cards, origin, a.question.nonce, a.disclosed) :
        a.content = Change(content, a.altered)
  BY DEF Made
<1>2. /\ a.protocol = Unsigned => content = shown
      /\ a.protocol = Google => content = GoogleAnswer(Key("google", n), shown)
      /\ a.protocol = Iso => content = IsoAnswer(HpkeSeal(Key("iso", n), BoundTo(Iso, origin, n), shown))
  BY <1>1, GenuineIs
<1>3. shown = [mdoc |-> shown.mdoc]
  BY DEF Shown, DeviceResponse
<1>4. docs = Change(shown, a.altered).mdoc
  BY DEF Documents
<1>5. a.altered = "garbled" => a.content = [word |-> "garbled"]
  BY <1>1, NotChanged
<1>6. a.altered = "no" => a.content = content /\ shown = [mdoc |-> docs]
  BY <1>1, <1>3, <1>4, NotChanged
<1>7. a.altered \in {"signature", "age"} => a.protocol = Unsigned /\ a.content = [mdoc |-> docs]
  <2> SUFFICES ASSUME a.altered \in {"signature", "age"}
               PROVE  a.protocol = Unsigned /\ a.content = [mdoc |-> docs]
    OBVIOUS
  <2>1. a.protocol = Unsigned
    BY DEF Made
  <2>2. a.content = Change(shown, a.altered)
    BY <1>1, <1>2, <2>1
  <2> HIDE DEF shown
  <2>3. Change([mdoc |-> shown.mdoc], a.altered) = [mdoc |-> Change([mdoc |-> shown.mdoc], a.altered).mdoc]
    BY ChangedIs
  <2> HIDE DEF docs
  <2> QED
    BY <1>3, <1>4, <2>1, <2>2, <2>3
<1>8. a.altered \in {"no", "signature", "age", "garbled"}
  BY DEF Made
<1> HIDE DEF shown, docs
<1>9. CASE a.altered = "no"
  BY <1>2, <1>6, <1>9 DEF docs
<1>10. CASE a.altered \in {"signature", "age"}
  BY <1>7, <1>10, Protocols DEF docs
<1> QED
  BY <1>5, <1>8, <1>9, <1>10 DEF docs

LEMMA NothingIsNoText ==
  ASSUME NEW content
  PROVE  Text(content) # Nothing /\ ~ IsText(Nothing)
<1>1. ~ IsText(Nothing) /\ IsText(Text(content))
  BY DEF Nothing, Text, IsText, Is
<1> QED
  BY <1>1

LEMMA KindOf ==
  ASSUME NEW a, NEW origin, Made(a, origin)
  PROVE  /\ Is("mdoc", a.content) <=> a.protocol = Unsigned /\ a.altered # "garbled"
         /\ Is("cbor", a.content) <=> a.protocol = Iso /\ a.altered # "garbled"
         /\ Is("jwe", a.content) <=> a.protocol = Google /\ a.altered # "garbled"
         /\ ~ Is("json", a.content) \/ a.protocol # Unsigned
<1>1. CASE a.altered = "garbled"
  <2>1. a.content = [word |-> "garbled"]
    BY <1>1, ContentsAre
  <2> QED
    BY <1>1, <2>1, KindsDiffer
<1>2. CASE a.altered # "garbled" /\ a.protocol = Unsigned
  <2>1. a.content = [mdoc |-> Documents(a, origin)]
    BY <1>2, ContentsAre
  <2> QED
    BY <1>2, <2>1, KindsDiffer, Protocols
<1>3. CASE a.altered # "garbled" /\ a.protocol = Google
  <2>1. PICK k, r : a.content = GoogleAnswer(k, r)
    BY <1>3, ContentsAre
  <2> QED
    BY <1>3, <2>1, KindsDiffer, Protocols
<1>4. CASE a.altered # "garbled" /\ a.protocol = Iso
  <2>1. PICK s : a.content = IsoAnswer(s)
    BY <1>4, ContentsAre
  <2> QED
    BY <1>4, <2>1, KindsDiffer, Protocols
<1> QED
  BY <1>1, <1>2, <1>3, <1>4 DEF Made

(* A presentation of documents made for this challenge on this site.       *)
Concluded(docs, protocol, c) ==
  OutcomeFor(VerifyDecodedResponse(docs, BoundTo(protocol, Page, c.nonce), site.trustAnchors), c.minAge)

LEMMA PlainWay ==
  ASSUME NEW a, NEW origin, Made(a, origin), NEW c, SiteOrigin(site) = Page,
         NEW p \in {Unsigned, "none"}
  PROVE  Verify(site, c, Body(p, Text(a.content), Nothing)) =
           IF a.protocol = Unsigned /\ a.altered # "garbled"
             THEN Concluded(Documents(a, origin), Unsigned, c) ELSE "malformed"
<1> DEFINE body == Body(p, Text(a.content), Nothing)
<1>1. /\ body.protocol # Google /\ body.protocol # Iso /\ body.response = Nothing
      /\ IsText(body.vp_token) /\ body.vp_token.text = a.content
  BY Protocols, TextIsText DEF Body
<1>2. Verify(site, c, body) = VerifyPresentation(a.content, c.nonce, Page, c.minAge, site.trustAnchors)
  BY <1>1 DEF Verify
<1> HIDE DEF body
<1>3. CASE a.protocol = Unsigned /\ a.altered # "garbled"
  <2>1. a.content = [mdoc |-> Documents(a, origin)]
    BY <1>3, ContentsAre
  <2>2. BoundTo(Unsigned, Page, c.nonce) = DcApiTranscript(Page, c.nonce, {})
    BY Protocols DEF BoundTo
  <2> QED
    BY <1>2, <1>3, <2>1, <2>2, PlainOutcome DEF Concluded, body
<1>4. CASE ~ (a.protocol = Unsigned /\ a.altered # "garbled")
  <2>1. ~ Is("mdoc", a.content)
      BY <1>4, KindOf
  <2> QED
    BY <1>2, <1>4, <2>1, PlainMalformed DEF body
<1> QED
  BY <1>3, <1>4 DEF body

LEMMA IsoWay ==
  ASSUME NEW a, NEW origin, Made(a, origin), SiteOrigin(site) = Page,
         NEW n, NEW m, NEW data, Unwrap(data) = {a.content},
         NEW body, body.response = data, body.protocol = Iso \/ (body.protocol = "none" /\ data # Nothing)
  PROVE  LET c == Challenge(site, n, m)
         IN  Verify(site, c, body) =
               IF /\ a.protocol = Iso /\ a.altered # "garbled"
                  /\ a.question.nonce = n /\ origin = Page
                 THEN Concluded(Documents(a, origin), Iso, c) ELSE "malformed"
<1> DEFINE c == Challenge(site, n, m)
           k == a.question.nonce
           docs == Documents(a, origin)
           Goes == a.protocol = Iso /\ a.altered # "garbled" /\ k = n /\ origin = Page
<1>1. Verify(site, c, body) = VerifyIsoMdocPresentation(data, c, Page, site.trustAnchors)
  BY Protocols DEF Verify
<1>2. /\ c.isoKey = Key("iso", n) /\ c.nonce = n
      /\ IsoTranscript(Page, c.isoInfo) = BoundTo(Iso, Page, n)
  BY Protocols DEF Challenge, BoundTo
<1>3. CASE a.protocol = Iso /\ a.altered # "garbled"
  <2>1. a.content = IsoAnswer(HpkeSeal(Key("iso", k), BoundTo(Iso, origin, k), [mdoc |-> docs]))
    BY <1>3, ContentsAre
  <2> HIDE DEF docs, c
  <2>2. Unwrap(data) = {IsoAnswer(HpkeSeal(Key("iso", k), BoundTo(Iso, origin, k), [mdoc |-> docs]))}
    BY <2>1
  <2>3. VerifyIsoMdocPresentation(data, c, Page, site.trustAnchors) =
          IF c.isoKey = Key("iso", k) /\ BoundTo(Iso, origin, k) = IsoTranscript(Page, c.isoInfo)
            THEN OutcomeFor(VerifyDecodedResponse(docs, BoundTo(Iso, origin, k), site.trustAnchors), c.minAge)
            ELSE "malformed"
    BY <2>2, IsoOutcome
  <2>4. c.isoKey = Key("iso", k) <=> k = n
    BY <1>2 DEF Key
  <2>5. k = n => (BoundTo(Iso, origin, k) = IsoTranscript(Page, c.isoInfo) <=> origin = Page)
    BY <1>2, TranscriptsDiffer
  <2> QED
    BY <1>1, <1>2, <1>3, <2>3, <2>4, <2>5 DEF Concluded, docs, c
<1>4. CASE ~ (a.protocol = Iso /\ a.altered # "garbled")
  <2> HIDE DEF docs, c
  <2>1. ~ Is("cbor", a.content)
      BY <1>4, KindOf
  <2>2. \A content \in Unwrap(data) : ~ Is("cbor", content)
    BY <2>1
  <2> QED
    BY <1>1, <1>4, <2>2, IsoMalformed DEF c
<1> QED
  BY <1>3, <1>4

LEMMA GoogleWay ==
  ASSUME NEW a, NEW origin, Made(a, origin), SiteOrigin(site) = Page,
         NEW n, NEW m, NEW data, Unwrap(data) = {a.content},
         NEW body, body.response = data, body.protocol = Google
  PROVE  LET c == Challenge(site, n, m)
         IN  Verify(site, c, body) =
               IF /\ a.protocol = Google /\ a.altered # "garbled"
                  /\ a.question.nonce = n /\ site.google # {}
                 THEN Concluded(Documents(a, origin), Google, c) ELSE "malformed"
<1> DEFINE c == Challenge(site, n, m)
           k == a.question.nonce
           docs == Documents(a, origin)
<1>1. c.googleKey = IF site.google = {} THEN {} ELSE {Key("google", n)}
  <2>1. c.googleKey = {Key("google", n) : reader \in site.google}
    BY DEF Challenge
  <2> QED
    BY <2>1
<1>2. c.nonce = n /\ BoundTo(Google, Page, n) = GoogleTranscript(Page, c.nonce, Key("google", n))
  BY Protocols DEF Challenge, BoundTo, GoogleTranscript
<1> HIDE DEF c
<1>3. CASE site.google = {}
  <2>1. c.googleKey = {}
    BY <1>1, <1>3
  <2> QED
    BY <1>3, <2>1 DEF Verify, c
<1>4. CASE site.google # {}
  <2> DEFINE key == Key("google", n)
  <2>1. c.googleKey = {key}
    BY <1>1, <1>4
  <2> HIDE DEF key
  <2>2. Verify(site, c, body) = VerifyGooglePresentation(data, c, key, Page, site.trustAnchors)
    <3>1. c.googleKey # {} /\ (CHOOSE x \in c.googleKey : TRUE) = key
      BY <2>1
    <3> QED
      BY <3>1 DEF Verify
  <2>3. CASE a.protocol = Google /\ a.altered # "garbled"
    <3>1. a.content = GoogleAnswer(Key("google", k), [mdoc |-> docs])
      BY <2>3, ContentsAre
    <3> DEFINE to == Key("google", k)
    <3> HIDE DEF docs, to
    <3>4. Unwrap(data) = {GoogleAnswer(to, [mdoc |-> docs])}
      BY <3>1 DEF to
    <3>2. VerifyGooglePresentation(data, c, key, Page, site.trustAnchors) =
            IF to = key
              THEN OutcomeFor(VerifyDecodedResponse(docs, GoogleTranscript(Page, c.nonce, key),
                                                    site.trustAnchors), c.minAge)
              ELSE "malformed"
      BY <3>4, GoogleOutcome
    <3>3. to = key <=> k = n
      BY DEF Key, key, to
    <3> QED
      BY <1>2, <1>4, <2>2, <2>3, <3>2, <3>3 DEF Concluded, docs, key, c
  <2>4. CASE ~ (a.protocol = Google /\ a.altered # "garbled")
    <3>1. ~ Is("jwe", a.content)
      BY <2>4, KindOf
    <3>2. \A content \in Unwrap(data) : ~ Is("jwe", content)
      BY <3>1
    <3> QED
      BY <2>2, <2>4, <3>2, GoogleMalformed DEF c
  <2> QED
    BY <2>3, <2>4
<1> QED
  BY <1>3, <1>4 DEF c

(* A wrapping never hides what is in it: there is one body for it.         *)
LEMMA WrappedBody ==
  ASSUME NEW a, NEW origin, Made(a, origin), NEW data \in Wrappings(a)
  PROVE  /\ a.protocol = Unsigned =>
              VerifyBody(Unsigned, data) = {Body(Unsigned, Text(a.content), Nothing)}
         /\ a.protocol # Unsigned =>
              /\ VerifyBody(a.protocol, data) = {Body(a.protocol, Nothing, data)}
              /\ Unwrap(data) = {a.content}
<1>1. CASE a.protocol = Unsigned
  <2>1. data \in PlainWrappings(a.content)
    BY <1>1 DEF Wrappings, PlainWrappings
  <2>2. ~ Is("jwe", a.content) /\ ~ Is("json", a.content)
    BY <1>1, KindOf, Protocols
  <2>3. ExtractVpToken(data, "age_check") = {a.content}
    BY <2>1, <2>2, Extracted
  <2>4. VerifyBody(Unsigned, data) =
          {Body(Unsigned, Text(token), Nothing) : token \in ExtractVpToken(data, "age_check")}
    BY Protocols DEF VerifyBody
  <2>5. VerifyBody(Unsigned, data) = {Body(Unsigned, Text(token), Nothing) : token \in {a.content}}
    BY <2>3, <2>4
  <2> QED
    BY <1>1, <2>5
<1>2. CASE a.protocol # Unsigned
  <2>1. a.protocol \in {Iso, Google}
    BY <1>2 DEF Made
  <2>2. VerifyBody(a.protocol, data) = {Body(a.protocol, Nothing, data)}
    BY <2>1 DEF VerifyBody
  <2>3. data = Text(a.content) \/ \E i \in DOMAIN Envelope : data = Object(Envelope[i], Text(a.content))
    BY <1>2 DEF Wrappings
  <2>4. Unwrap(data) = {a.content}
    BY <2>3, UnwrapsText, UnwrapsEnvelope
  <2> QED
    BY <1>2, <2>2, <2>4
<1> QED
  BY <1>1, <1>2

(* Whether an answer is one that the way it comes in can open.             *)
Reaches(a, origin, nonce) ==
  /\ a.altered # "garbled"
  /\ a.protocol # Unsigned => a.question.nonce = nonce
  /\ a.protocol = Iso => origin = Page

LEMMA ClientOutcome ==
  ASSUME NEW a, NEW origin, Made(a, origin), SiteOrigin(site) = Page,
         a.protocol = Google => site.google # {},
         NEW n, NEW m, NEW body \in ClientBodies(a)
  PROVE  LET c == Challenge(site, n, m)
         IN  Verify(site, c, body) =
               IF Reaches(a, origin, n) THEN Concluded(Documents(a, origin), a.protocol, c)
               ELSE "malformed"
<1>1. PICK data \in Wrappings(a) : body \in VerifyBody(a.protocol, data)
  BY DEF ClientBodies
<1>2. CASE a.protocol = Unsigned
  <2>1. body = Body(Unsigned, Text(a.content), Nothing)
    BY <1>1, <1>2, WrappedBody
  <2> QED
    BY <1>2, <2>1, PlainWay, Protocols DEF Reaches
<1>3. CASE a.protocol # Unsigned
  <2>1. body = Body(a.protocol, Nothing, data) /\ Unwrap(data) = {a.content}
    BY <1>1, <1>3, WrappedBody
  <2>2. body.protocol = a.protocol /\ body.response = data
    BY <2>1 DEF Body
  <2>3. CASE a.protocol = Iso
    BY <2>1, <2>2, <2>3, IsoWay, Protocols DEF Reaches
  <2>4. CASE a.protocol = Google
    BY <2>1, <2>2, <2>4, GoogleWay, Protocols DEF Reaches
  <2> QED
    BY <1>3, <2>3, <2>4 DEF Made
<1> QED
  BY <1>2, <1>3

LEMMA MislabelledOutcome ==
  ASSUME NEW a, NEW origin, Made(a, origin), SiteOrigin(site) = Page,
         NEW n, NEW m, NEW body \in MislabelledBodies(a)
  PROVE  Verify(site, Challenge(site, n, m), body) = "malformed"
<1>1. CASE \E p \in {Google, Iso} \ {a.protocol} : body = Body(p, Nothing, Text(a.content))
  <2>1. PICK p \in {Google, Iso} \ {a.protocol} : body = Body(p, Nothing, Text(a.content))
    BY <1>1
  <2>2. body.protocol = p /\ body.response = Text(a.content) /\ Unwrap(Text(a.content)) = {a.content}
    BY <2>1, UnwrapsText DEF Body
  <2>3. CASE p = Iso
    BY <2>1, <2>2, <2>3, IsoWay
  <2>4. CASE p = Google
    BY <2>1, <2>2, <2>4, GoogleWay
  <2> QED
    BY <2>1, <2>3, <2>4
<1>2. CASE a.protocol # Unsigned /\ body = DevBody(a.content)
  BY <1>2, PlainWay DEF DevBody
<1> QED
  BY <1>1, <1>2 DEF MislabelledBodies

(* However a body is made of an answer, it concludes as malformed or by    *)
(* what the documents of the answer say.                                   *)
LEMMA BodyOutcome ==
  ASSUME NEW a \in answer, NEW origin, Made(a, origin), SiteOrigin(site) = Page,
         a.protocol = Google => site.google # {},
         NEW n, NEW m,
         NEW body \in ClientBodies(a) \cup MislabelledBodies(a) \cup
                        {DevBody(a.content), Body("none", Nothing, Text(a.content))}
  PROVE  LET c == Challenge(site, n, m)
         IN  \/ Verify(site, c, body) = "malformed"
             \/ /\ Reaches(a, origin, n)
                /\ Verify(site, c, body) = Concluded(Documents(a, origin), a.protocol, c)
<1>1. CASE body \in ClientBodies(a)
  BY <1>1, ClientOutcome
<1>2. CASE body \in MislabelledBodies(a)
  BY <1>2, MislabelledOutcome
<1>3. CASE body = DevBody(a.content)
  BY <1>3, PlainWay, Protocols DEF DevBody, Reaches
<1>4. CASE body = Body("none", Nothing, Text(a.content))
  <2>1. /\ body.protocol = "none" /\ body.response = Text(a.content)
        /\ Unwrap(Text(a.content)) = {a.content} /\ Text(a.content) # Nothing
    BY <1>4, UnwrapsText, NothingIsNoText DEF Body
  <2> QED
    BY <2>1, IsoWay, Protocols DEF Reaches
<1> QED
  BY <1>1, <1>2, <1>3, <1>4

LEMMA EmptyBody ==
  ASSUME NEW c
  PROVE  Verify(site, c, Body("none", Nothing, Nothing)) = "malformed"
BY Protocols, NothingIsNoText DEF Verify, Body

---------------------------------------------------------------------------
(* From the documents back to the cards they show.                         *)

(* Signed by name, by a signer whose certificate comes along.              *)
Signed(card) ==
  /\ {"x5chain", "signedWith"} \subseteq DOMAIN card
  /\ \E S : card.x5chain \in Seq(S) \ {<< >>}
  /\ card.x5chain[1].key # KeyOf("nobody", "ds")

LEMMA TestIdIs ==
  ASSUME NEW scenario, NEW minAge
  PROVE  Signed(TestId(scenario, minAge))
<1>1. PICK owner, ageOver, claims :
        /\ owner \in {"test", "untrusted"}
        /\ TestId(scenario, minAge) = Mint(owner, "mDL", ageOver, claims, Current)
  BY DEF TestId
<1> DEFINE card == Mint(owner, "mDL", ageOver, claims, Current)
<1>2. /\ {"x5chain", "signedWith"} \subseteq DOMAIN card
      /\ card.x5chain = <<DsCert(owner, Now, Now + 9)>>
  BY DEF Mint, IssueMdl
<1>3. DsCert(owner, Now, Now + 9).key = KeyOf(owner, "ds") /\ owner # "nobody"
  BY <1>1 DEF DsCert
<1>4. KeyOf(owner, "ds") # KeyOf("nobody", "ds")
  BY <1>3 DEF KeyOf
<1> HIDE DEF card
<1>5. /\ card.x5chain[1] = DsCert(owner, Now, Now + 9)
      /\ card.x5chain \in Seq({DsCert(owner, Now, Now + 9)}) \ {<< >>}
  BY <1>2
<1> QED
  BY <1>1, <1>2, <1>3, <1>4, <1>5 DEF Signed, card

LEMMA CardsSigned ==
  ASSUME NEW cards \in Cards \cup TestCards
  PROVE  /\ \E n \in Nat : DOMAIN cards = 1 .. n
         /\ cards # << >> <=> 1 \in DOMAIN cards
         /\ \A i \in DOMAIN cards : Signed(cards[i])
<1>1. CASE cards \in Cards
  <2>1. cards \in Seq(Credential) /\ \A i \in DOMAIN cards : cards[i].x5chain[1].key # KeyOf("nobody", "ds")
    BY <1>1, CardsAssumption
  <2>2. \A i \in DOMAIN cards : cards[i] \in Credential
    BY <2>1
  <2>3. \A card \in Credential : /\ {"x5chain", "signedWith"} \subseteq DOMAIN card
                                /\ card.x5chain \in Seq(CertificateRecord) \ {<< >>}
    BY DEF Credential
  <2> QED
    BY <2>1, <2>2, <2>3 DEF Signed
<1>2. CASE cards \in TestCards
  <2>1. PICK scenario \in Scenario, minAge \in Age : cards = <<TestId(scenario, minAge)>>
    BY <1>2 DEF TestCards
  <2> DEFINE card == TestId(scenario, minAge)
  <2>2. Signed(card)
    BY TestIdIs
  <2> HIDE DEF card
  <2>3. cards = <<card>>
    BY <2>1 DEF card
  <2> QED
    BY <2>2, <2>3
<1> QED
  BY <1>1, <1>2

Only(card, disclosed) == [y \in Age |-> IF y \in disclosed THEN card.elements[y] ELSE "absent"]
AllAges == [y \in Age |-> "true"]

(* The i-th document shows its card, but for what was altered.             *)
ShowsCard(d, a, i, t) ==
  /\ d.boundTo = t
  /\ d.family_name = "absent"
  /\ d.card.x5chain = a.cards[i].x5chain
  /\ IF i = 1 /\ a.altered = "signature" THEN d.card.signedWith = KeyOf("nobody", "ds")
                                         ELSE d.card = a.cards[i]
  /\ d.shows = IF i = 1 /\ a.altered = "age" THEN AllAges ELSE Only(a.cards[i], a.disclosed)

(* The card the i-th document of a response shows, and what it says of it, *)
(* with what was altered on the way.                                       *)
CardShown(cards, how, i) ==
  IF i = 1 /\ how = "signature" THEN [cards[1] EXCEPT !.signedWith = KeyOf("nobody", "ds")]
  ELSE cards[i]

AgesShown(cards, disclosed, how, i) ==
  IF i = 1 /\ how = "age" THEN AllAges ELSE Only(cards[i], disclosed)

Sent(cards, disclosed, how, t) == Change(DeviceResponse(cards, disclosed, t), how).mdoc

LEMMA SentIs ==
  ASSUME NEW cards, NEW disclosed, NEW t, NEW how \in {"no", "signature", "age"},
         how # "no" => 1 \in DOMAIN cards
  PROVE  /\ DOMAIN Sent(cards, disclosed, how, t) = DOMAIN cards
         /\ cards = << >> => Sent(cards, disclosed, how, t) = << >>
         /\ \A i \in DOMAIN cards :
              Sent(cards, disclosed, how, t)[i] =
                [ card |-> CardShown(cards, how, i), family_name |-> "absent", boundTo |-> t,
                  shows |-> AgesShown(cards, disclosed, how, i) ]
<1> DEFINE doc(i) == Document(cards[i], disclosed, t)
           docs == Sent(cards, disclosed, how, t)
           Right(i) == [ card |-> CardShown(cards, how, i), family_name |-> "absent", boundTo |-> t,
                         shows |-> AgesShown(cards, disclosed, how, i) ]
           response == DeviceResponse(cards, disclosed, t)
<1>1. /\ response = [mdoc |-> response.mdoc] /\ response.mdoc = [i \in DOMAIN cards |-> doc(i)]
  BY DEF DeviceResponse
<1>2. docs = Change(response, how).mdoc
  BY DEF Sent
<1>3. \A i \in DOMAIN cards :
        doc(i) = [ card |-> cards[i], family_name |-> "absent", boundTo |-> t,
                   shows |-> Only(cards[i], disclosed) ]
  <2> SUFFICES ASSUME NEW i \in DOMAIN cards
               PROVE  doc(i) = [ card |-> cards[i], family_name |-> "absent", boundTo |-> t,
                                 shows |-> Only(cards[i], disclosed) ]
    OBVIOUS
  <2>1. [y \in Age |-> IF y \in disclosed THEN cards[i].elements[y] ELSE "absent"]
          = Only(cards[i], disclosed)
    BY DEF Only
  <2> QED
    BY <2>1 DEF Document
<1> HIDE DEF doc, response
<1>4. cards = << >> => docs = << >>
  <2> SUFFICES ASSUME cards = << >> PROVE docs = << >>
    OBVIOUS
  <2>1. how = "no" \/ 1 \in DOMAIN << >>
    OBVIOUS
  <2>2. docs = [i \in DOMAIN << >> |-> doc(i)]
    BY <1>1, <1>2, <2>1, NotChanged
  <2> HIDE DEF docs
  <2> QED
    BY <2>2
<1>5. CASE how = "no"
  <2>1. docs = [i \in DOMAIN cards |-> doc(i)]
    BY <1>1, <1>2, <1>5, NotChanged
  <2> HIDE DEF docs
  <2>2. \A i \in DOMAIN cards : Right(i) = doc(i)
    BY <1>3, <1>5 DEF CardShown, AgesShown
  <2> QED
    BY <1>4, <2>1, <2>2 DEF docs
<1>6. CASE how = "signature"
  <2> DEFINE new == [response.mdoc[1] EXCEPT !.card.signedWith = KeyOf("nobody", "ds")]
             forged == [cards[1] EXCEPT !.signedWith = KeyOf("nobody", "ds")]
  <2>1. docs = [i \in DOMAIN cards |-> IF i = 1 THEN new ELSE doc(i)]
    BY <1>1, <1>2, <1>6 DEF Change, TamperIssuerAuthSignature, ChangeFirst
  <2>2. new = [doc(1) EXCEPT !.card = [doc(1).card EXCEPT !.signedWith = KeyOf("nobody", "ds")]]
    BY <1>1, <1>6
  <2>3. 1 \in DOMAIN cards /\ doc(1).card = cards[1]
    BY <1>3, <1>6
  <2>4. new = [doc(1) EXCEPT !.card = forged]
    BY <2>2, <2>3
  <2> HIDE DEF docs, new, forged
  <2>5. new = [ card |-> forged, family_name |-> "absent", boundTo |-> t,
                shows |-> Only(cards[1], disclosed) ]
    BY <1>3, <2>3, <2>4
  <2>6. \A i \in DOMAIN cards : docs[i] = Right(i)
    <3>1. Right(1) = new
      BY <1>6, <2>5 DEF CardShown, AgesShown, forged
    <3>2. \A i \in DOMAIN cards : i # 1 => Right(i) = doc(i)
      BY <1>3 DEF CardShown, AgesShown
    <3> QED
      BY <2>1, <2>3, <3>1, <3>2
  <2> QED
    BY <1>4, <2>1, <2>6 DEF docs
<1>7. CASE how = "age"
  <2> DEFINE new == [response.mdoc[1] EXCEPT !.shows = AllAges]
  <2>1. docs = [i \in DOMAIN cards |-> IF i = 1 THEN new ELSE doc(i)]
    BY <1>1, <1>2, <1>7 DEF Change, FlipDisclosedAge, ChangeFirst, AllAges
  <2>2. 1 \in DOMAIN cards /\ new = [doc(1) EXCEPT !.shows = AllAges]
    BY <1>1, <1>7
  <2> HIDE DEF docs, new
  <2>3. new = [ card |-> cards[1], family_name |-> "absent", boundTo |-> t, shows |-> AllAges ]
    BY <1>3, <2>2
  <2>4. \A i \in DOMAIN cards : docs[i] = Right(i)
    <3>1. Right(1) = new
      BY <1>7, <2>3 DEF CardShown, AgesShown
    <3>2. \A i \in DOMAIN cards : i # 1 => Right(i) = doc(i)
      BY <1>3 DEF CardShown, AgesShown
    <3> QED
      BY <2>1, <2>2, <3>1, <3>2
  <2> QED
    BY <1>4, <2>1, <2>4 DEF docs
<1> QED
  BY <1>5, <1>6, <1>7

LEMMA SentShows ==
  ASSUME NEW cards, NEW disclosed, NEW t, NEW how \in {"no", "signature", "age"},
         how # "no" => 1 \in DOMAIN cards
  PROVE  LET docs == Sent(cards, disclosed, how, t)
         IN  /\ DOMAIN docs = DOMAIN cards
             /\ cards = << >> => docs = << >>
             /\ \A i \in DOMAIN cards :
                  /\ docs[i].card = CardShown(cards, how, i) /\ docs[i].family_name = "absent"
                  /\ docs[i].boundTo = t /\ docs[i].shows = AgesShown(cards, disclosed, how, i)
<1> DEFINE docs == Sent(cards, disclosed, how, t)
<1> HIDE DEF docs
<1>1. ASSUME NEW i \in DOMAIN cards
      PROVE  /\ docs[i].card = CardShown(cards, how, i) /\ docs[i].family_name = "absent"
             /\ docs[i].boundTo = t /\ docs[i].shows = AgesShown(cards, disclosed, how, i)
  <2> DEFINE d == docs[i]
  <2>1. d = [ card |-> CardShown(cards, how, i), family_name |-> "absent", boundTo |-> t,
              shows |-> AgesShown(cards, disclosed, how, i) ]
    BY <1>1, SentIs DEF docs
  <2> HIDE DEF d
  <2>2. /\ d.card = CardShown(cards, how, i) /\ d.family_name = "absent"
        /\ d.boundTo = t /\ d.shows = AgesShown(cards, disclosed, how, i)
    BY <2>1
  <2> QED
    BY <2>2 DEF d
<1> QED
  BY <1>1, SentIs DEF docs

LEMMA DocumentsAre ==
  ASSUME NEW a, NEW origin, Made(a, origin), a.altered # "garbled",
         a.cards \in Cards \cup TestCards
  PROVE  /\ DOMAIN Documents(a, origin) = DOMAIN a.cards
         /\ a.cards = << >> => Documents(a, origin) = << >>
         /\ \A i \in DOMAIN a.cards :
              ShowsCard(Documents(a, origin)[i], a, i, BoundTo(a.protocol, origin, a.question.nonce))
<1> DEFINE t == BoundTo(a.protocol, origin, a.question.nonce)
           docs == Documents(a, origin)
           m == a.disclosed
<1>1. docs = Sent(a.cards, m, a.altered, t)
  BY DEF Documents, Shown, Sent
<1>2. /\ a.cards # << >> <=> 1 \in DOMAIN a.cards
      /\ \A i \in DOMAIN a.cards : {"x5chain", "signedWith"} \subseteq DOMAIN a.cards[i]
  BY CardsSigned DEF Signed
<1>3. a.altered \in {"no", "signature", "age"} /\ (a.altered # "no" => 1 \in DOMAIN a.cards)
  BY <1>2 DEF Made
<1> HIDE DEF t, docs, m
<1>4. /\ DOMAIN docs = DOMAIN a.cards /\ (a.cards = << >> => docs = << >>)
      /\ \A i \in DOMAIN a.cards :
           /\ docs[i].card = CardShown(a.cards, a.altered, i) /\ docs[i].family_name = "absent"
           /\ docs[i].boundTo = t /\ docs[i].shows = AgesShown(a.cards, m, a.altered, i)
  BY <1>1, <1>3, SentShows
<1>5. ASSUME NEW i \in DOMAIN a.cards PROVE ShowsCard(docs[i], a, i, t)
  <2>1. /\ docs[i].card = CardShown(a.cards, a.altered, i) /\ docs[i].family_name = "absent"
        /\ docs[i].boundTo = t /\ docs[i].shows = AgesShown(a.cards, m, a.altered, i)
    BY <1>4, <1>5
  <2>2. CASE i = 1 /\ a.altered = "signature"
    <3>1. docs[i].card = [a.cards[1] EXCEPT !.signedWith = KeyOf("nobody", "ds")]
      BY <2>1, <2>2 DEF CardShown
    <3>2. docs[i].card.x5chain = a.cards[i].x5chain /\ docs[i].card.signedWith = KeyOf("nobody", "ds")
      BY <1>2, <2>2, <3>1
    <3> QED
      BY <2>1, <2>2, <3>2 DEF ShowsCard, AgesShown, m
  <2>3. CASE ~ (i = 1 /\ a.altered = "signature")
    BY <2>1, <2>3 DEF ShowsCard, AgesShown, CardShown, m
  <2> QED
    BY <2>2, <2>3
<1> QED
  BY <1>4, <1>5 DEF docs, t

(* The heart of it: an answer that is found verified was made by a fit     *)
(* holder, on this site, for this very challenge.                          *)
LEMMA VerifiedIsEarned ==
  ASSUME NEW a, NEW origin, Made(a, origin), a.cards \in Cards \cup TestCards,
         NEW n, NEW m \in Age, Reaches(a, origin, n), IsFiniteSet(site.trustAnchors),
         Concluded(Documents(a, origin), a.protocol, Challenge(site, n, m)) = "verified"
  PROVE  /\ origin = Page /\ a.question.nonce = n
         /\ a.cards # << >> /\ Fit(a.cards[1], m)
<1> DEFINE docs == Documents(a, origin)
           t == BoundTo(a.protocol, Page, n)
           k == a.question.nonce
<1>1. OutcomeFor(VerifyDecodedResponse(docs, t, site.trustAnchors), m) = "verified"
  BY DEF Concluded, Challenge
<1>2. a.altered # "garbled"
  BY DEF Reaches
<1>3. /\ DOMAIN docs = DOMAIN a.cards
      /\ a.cards = << >> => docs = << >>
      /\ \A i \in DOMAIN a.cards : ShowsCard(docs[i], a, i, BoundTo(a.protocol, origin, k))
  BY <1>2, DocumentsAre
<1>4. a.cards # << >> => 1 \in DOMAIN a.cards
  BY CardsSigned
<1>5. 1 \in DOMAIN a.cards =>
           /\ docs[1].boundTo = BoundTo(a.protocol, origin, k)
           /\ docs[1].card.x5chain = a.cards[1].x5chain
           /\ docs[1].card = a.cards[1] \/ docs[1].card.signedWith = KeyOf("nobody", "ds")
  BY <1>3 DEF ShowsCard
<1>6. \A i \in DOMAIN a.cards : Signed(a.cards[i])
  BY CardsSigned
<1> HIDE DEF docs, t
<1>7. docs # << >> /\ docs[1].boundTo = t /\ Fit(docs[1].card, m)
  <2>1. docs # << >> => 1 \in DOMAIN docs /\ Len(docs[1].card.x5chain) \in Nat
    BY <1>3, <1>4, <1>5, <1>6 DEF Signed
  <2> QED
    BY <1>1, <2>1, VerifiedMeans
<1>8. a.cards # << >> /\ 1 \in DOMAIN a.cards
  BY <1>3, <1>4, <1>7
<1>9. docs[1].card.signedWith = docs[1].card.x5chain[1].key
  BY <1>7 DEF Fit
<1>10. docs[1].card.signedWith # KeyOf("nobody", "ds")
  BY <1>5, <1>6, <1>8, <1>9 DEF Signed
<1>11. Fit(a.cards[1], m)
  BY <1>5, <1>7, <1>8, <1>10
<1>12. BoundTo(a.protocol, origin, k) = BoundTo(a.protocol, Page, n)
  BY <1>5, <1>7, <1>8 DEF t
<1>13. origin = Page /\ (a.protocol # Iso => k = n)
  BY <1>12, TranscriptsDiffer DEF Made
<1>14. a.protocol # Unsigned => k = n
  BY DEF Reaches
<1> QED
  BY <1>8, <1>11, <1>13, <1>14, Protocols

---------------------------------------------------------------------------
(* What Ceremony takes for the outcome is the outcome.                     *)

(* Documents that differ only in what their device signatures cover get    *)
(* the same verdict but for the binding.                                   *)
SameBut(docs, t, own, s) ==
  /\ DOMAIN docs = DOMAIN own
  /\ \A i \in DOMAIN docs :
       /\ docs[i].card = own[i].card /\ docs[i].family_name = own[i].family_name
       /\ docs[i].shows = own[i].shows
       /\ docs[i].boundTo = t /\ own[i].boundTo = s

IfFor(verdict, t, here) == [verdict EXCEPT !.deviceBound = @ /\ t = here]

LEMMA SameVerdict ==
  ASSUME NEW docs, NEW t, NEW own, NEW s, SameBut(docs, t, own, s), NEW here, NEW anchors
  PROVE  VerdictOn(docs, here, anchors) = IfFor(VerdictOn(own, s, anchors), t, here)
<1> DEFINE V == VerdictOn(docs, here, anchors)
           W == VerdictOn(own, s, anchors)
<1>1. V \in Verdicts /\ W \in Verdicts
  BY DEF VerdictOn, ClassifyAssessments, Verdicts, PassedIn
<1>2. /\ V.issuerTrusted <=> W.issuerTrusted
      /\ V.authentic <=> W.authentic
      /\ V.withinValidity <=> W.withinValidity
      /\ V.deviceBound <=> W.deviceBound /\ t = here
  <2>1. CASE DOMAIN docs = {}
    <3>1. AllReports(docs, here, anchors) = {} /\ AllReports(own, s, anchors) = {}
      BY <2>1 DEF SameBut, AllReports
    <3>2. V = W /\ ~ W.deviceBound
      BY <3>1 DEF VerdictOn, ClassifyAssessments, PassedIn, Passed
    <3> QED
      BY <3>2
  <2>2. CASE DOMAIN docs # {}
    <3>1. /\ DOMAIN own = DOMAIN docs
          /\ \A i \in DOMAIN docs :
               /\ docs[i].card = own[i].card /\ docs[i].boundTo = t /\ own[i].boundTo = s
               /\ Unchanged(docs[i]) <=> Unchanged(own[i])
      BY DEF SameBut, Unchanged
    <3>2. /\ V.issuerTrusted <=> \A i \in DOMAIN docs :
               RecogniseIssuer(docs[i].card, anchors) /\ InDate(docs[i].card.x5chain[1])
          /\ V.authentic <=> \A i \in DOMAIN docs :
               docs[i].card.signedWith = docs[i].card.x5chain[1].key /\ Unchanged(docs[i])
          /\ V.withinValidity <=> \A i \in DOMAIN docs :
               InDate(docs[i].card.window) /\ SignedInTime(docs[i].card)
          /\ V.deviceBound <=> \A i \in DOMAIN docs : docs[i].boundTo = here
      BY <2>2, VerdictsOfAll
    <3>3. /\ W.issuerTrusted <=> \A i \in DOMAIN own :
               RecogniseIssuer(own[i].card, anchors) /\ InDate(own[i].card.x5chain[1])
          /\ W.authentic <=> \A i \in DOMAIN own :
               own[i].card.signedWith = own[i].card.x5chain[1].key /\ Unchanged(own[i])
          /\ W.withinValidity <=> \A i \in DOMAIN own :
               InDate(own[i].card.window) /\ SignedInTime(own[i].card)
          /\ W.deviceBound <=> \A i \in DOMAIN own : own[i].boundTo = s
      BY <2>2, <3>1, VerdictsOfAll
    <3> HIDE DEF V, W
    <3> QED
      BY <2>2, <3>1, <3>2, <3>3
  <2> QED
    BY <2>1, <2>2
<1> HIDE DEF V, W
<1>3. V = [W EXCEPT !.deviceBound = @ /\ t = here]
  BY <1>1, <1>2 DEF Verdicts
<1> QED
  BY <1>3 DEF V, W, IfFor

(* The documents of an answer as Presentation has them.                    *)
LEMMA PresentedAre ==
  ASSUME NEW a, NEW origin, Made(a, origin), a.altered # "garbled",
         a.cards \in Cards \cup TestCards, NEW s
  PROVE  LET docs == Documents(a, origin)
             own == Change(DeviceResponse(a.cards, a.disclosed, s), a.altered).mdoc
         IN  /\ SameBut(docs, BoundTo(a.protocol, origin, a.question.nonce), own, s)
             /\ Decoded(docs) = Decoded(own)
<1> DEFINE t == BoundTo(a.protocol, origin, a.question.nonce)
           docs == Documents(a, origin)
           m == a.disclosed
           cards == a.cards
           how == a.altered
           own == Sent(cards, m, how, s)
<1>1. docs = Sent(cards, m, how, t)
  BY DEF Documents, Shown, Sent
<1>2. Change(DeviceResponse(a.cards, a.disclosed, s), a.altered).mdoc = own
  BY DEF Sent
<1>3. /\ cards # << >> <=> 1 \in DOMAIN cards
      /\ how \in {"no", "signature", "age"} /\ (how # "no" => 1 \in DOMAIN cards)
  BY CardsSigned DEF Made
<1> HIDE DEF t, docs, m, cards, how, own
<1>4. /\ DOMAIN docs = DOMAIN cards /\ (cards = << >> => docs = << >>)
      /\ \A i \in DOMAIN cards :
           /\ docs[i].card = CardShown(cards, how, i) /\ docs[i].family_name = "absent"
           /\ docs[i].boundTo = t /\ docs[i].shows = AgesShown(cards, m, how, i)
  BY <1>1, <1>3, SentShows
<1>5. /\ DOMAIN own = DOMAIN cards /\ (cards = << >> => own = << >>)
      /\ \A i \in DOMAIN cards :
           /\ own[i].card = CardShown(cards, how, i) /\ own[i].family_name = "absent"
           /\ own[i].boundTo = s /\ own[i].shows = AgesShown(cards, m, how, i)
  BY <1>3, SentShows DEF own
<1>6. SameBut(docs, t, own, s)
  BY <1>4, <1>5 DEF SameBut
<1>7. Decoded(docs) = Decoded(own)
  <2>1. CASE cards = << >>
    BY <1>4, <1>5, <2>1
  <2>2. CASE cards # << >>
    <3>1. 1 \in DOMAIN cards /\ DOMAIN << >> = {}
      BY <1>3, <2>2
    <3>2. docs # << >> /\ own # << >>
      BY <1>4, <1>5, <3>1
    <3>3. docs[1].card = own[1].card /\ docs[1].shows = own[1].shows
      BY <1>4, <1>5, <3>1
    <3> QED
      BY <3>2, <3>3 DEF Decoded
  <2> QED
    BY <2>1, <2>2
<1> QED
  BY <1>2, <1>6, <1>7 DEF docs, t, own, cards, how, m

(* What Ceremony has for the outcome, in terms of the documents.           *)
LEMMA CeremonyOutcome ==
  ASSUME NEW a, NEW origin, Made(a, origin), a.ours <=> origin = Page,
         a.cards \in Cards \cup TestCards, NEW n, NEW m
  PROVE  VerificationOutcome(Presentation(a), QuestionOf(n, m)) =
           IF Reaches(a, origin, n) THEN Concluded(Documents(a, origin), a.protocol, Challenge(site, n, m))
           ELSE "malformed"
<1>0. PICK s : s = "its own"
  OBVIOUS
<1> DEFINE P == Presentation(a)
           q == QuestionOf(n, m)
           docs == Documents(a, origin)
           own == IF a.altered = "garbled" THEN << >>
                  ELSE Change(DeviceResponse(a.cards, a.disclosed, s), a.altered).mdoc
           anchors == site.trustAnchors
           W == VerdictOn(own, s, anchors)
           t == BoundTo(a.protocol, origin, a.question.nonce)
           here == BoundTo(a.protocol, Page, n)
           bound == a.question.nonce = n /\ a.ours
           verdict == [W EXCEPT !.deviceBound = @ /\ bound]
           response == [Decoded(own) EXCEPT !.decodes = a.altered # "garbled"]
           opens == /\ a.protocol \in {Google, Iso} => a.question.nonce = n
                    /\ a.protocol = Iso => a.ours
<1>1. P = [ protocol |-> a.protocol, nonce |-> a.question.nonce, ours |-> a.ours,
            card |-> [response |-> response, verdict |-> W] ]
  BY <1>0 DEF Presentation, AllReports, VerdictOn
<1>2. q.nonce = n /\ q.minAge = m
  BY DEF QuestionOf
<1> HIDE DEF own, response, W, q, P
<1>3. VerificationOutcome(P, q) =
        OutcomeFor(IF opens THEN RawVerification(response, verdict) ELSE NotDecoded, m)
  <2>1. /\ P.protocol = a.protocol /\ P.nonce = a.question.nonce /\ P.ours = a.ours
        /\ P.card.response = response /\ P.card.verdict = W
    BY <1>1
  <2>2. Opens(P, q) <=> opens
    BY <1>2, <2>1 DEF Opens
  <2> HIDE DEF opens
  <2> QED
    BY <1>2, <2>1, <2>2 DEF VerificationOutcome
<1>4. response.decodes = (a.altered # "garbled")
  BY DEF response, Decoded
<1>5. Reaches(a, origin, n) <=> opens /\ a.altered # "garbled"
  BY Protocols DEF Reaches, Made
<1>6. OutcomeFor(NotDecoded, m) = "malformed"
  BY DEF OutcomeFor, NotDecoded
<1>7. CASE ~ Reaches(a, origin, n)
  <2>1. (IF opens THEN RawVerification(response, verdict) ELSE NotDecoded) = NotDecoded
    <3> HIDE DEF opens, verdict
    <3> QED
      BY <1>4, <1>5, <1>7 DEF RawVerification
  <2> QED
    BY <1>3, <1>6, <1>7, <2>1 DEF P, q
<1>8. CASE Reaches(a, origin, n)
  <2>1. opens /\ a.altered # "garbled"
    BY <1>5, <1>8
  <2>2. SameBut(docs, t, own, s) /\ Decoded(docs) = Decoded(own)
    BY <2>1, PresentedAre DEF own
  <2>3. t = here <=> bound
    <3>1. bound => t = here
      OBVIOUS
    <3>2. t = here => origin = Page /\ (a.protocol # Iso => a.question.nonce = n)
      BY TranscriptsDiffer DEF Made
    <3>3. a.protocol = Iso => a.question.nonce = n
      BY <2>1
    <3> QED
      BY <3>1, <3>2, <3>3
  <2>4. response = Decoded(docs)
    <3> DEFINE d == Decoded(own)
    <3>1. d = [decodes |-> TRUE, readable |-> TRUE, docType |-> d.docType, elements |-> d.elements]
      BY DEF Decoded
    <3> HIDE DEF d
    <3>2. [d EXCEPT !.decodes = TRUE] = d
      BY <3>1
    <3> QED
      BY <2>1, <2>2, <3>2 DEF response, d
  <2>5. VerdictOn(docs, here, anchors) = verdict
    <3> HIDE DEF docs, t, here, bound, anchors
    <3>1. VerdictOn(docs, here, anchors) = IfFor(W, t, here)
      BY <2>2, SameVerdict DEF W
    <3> QED
      BY <2>3, <3>1 DEF IfFor
  <2>6. VerifyDecodedResponse(docs, here, anchors) = RawVerification(response, verdict)
    <3> HIDE DEF docs, here, verdict
    <3> QED
      BY <2>4, <2>5 DEF VerifyDecodedResponse, AllReports, VerdictOn
  <2>7. Concluded(docs, a.protocol, Challenge(site, n, m))
          = OutcomeFor(VerifyDecodedResponse(docs, here, anchors), m)
    BY DEF Concluded, Challenge
  <2> HIDE DEF docs, here, verdict, opens
  <2> QED
    BY <1>3, <1>8, <2>1, <2>6, <2>7 DEF P, q, docs
<1> QED
  BY <1>7, <1>8

---------------------------------------------------------------------------
(* And what it is for a fit holder.                                        *)

(* A fit holder's documents, made for this challenge on this site.         *)
LEMMA FitIsVerified ==
  ASSUME NEW a, Made(a, Page), a.altered = "no", a.cards \in Cards \cup TestCards, a.cards # << >>,
         NEW n, NEW m \in Age, a.question = QuestionOf(n, m), m \in a.disclosed,
         IsFiniteSet(site.trustAnchors),
         \A i \in DOMAIN a.cards : Fit(a.cards[i], m) /\ StraightFrom(a.cards[i])
  PROVE  Concluded(Documents(a, Page), a.protocol, Challenge(site, n, m)) = "verified"
<1> DEFINE docs == Documents(a, Page)
           here == BoundTo(a.protocol, Page, n)
           anchors == site.trustAnchors
           raw == VerifyDecodedResponse(docs, here, anchors)
<1>1. a.question.nonce = n /\ a.question.minAge = m
  BY DEF QuestionOf
<1>2. /\ DOMAIN docs = DOMAIN a.cards
      /\ \A i \in DOMAIN a.cards : ShowsCard(docs[i], a, i, here)
  BY <1>1, DocumentsAre
<1>3. 1 \in DOMAIN a.cards
  BY CardsSigned
<1> HIDE DEF docs, here, anchors
<1>4. \A i \in DOMAIN docs : /\ docs[i].boundTo = here /\ docs[i].family_name = "absent"
                             /\ docs[i].card = a.cards[i] /\ docs[i].shows = Only(a.cards[i], a.disclosed)
  BY <1>1, <1>2 DEF ShowsCard
<1>5. ASSUME NEW i \in DOMAIN docs PROVE AllPassed(docs[i], here, anchors)
  <2> DEFINE card == a.cards[i]
             signer == card.x5chain[1]
  <2>1. Fit(card, m) /\ StraightFrom(card) /\ Signed(card)
    BY <1>2, <1>5, CardsSigned
  <2> HIDE DEF card
  <2>2. PICK path \in SentPaths(card.x5chain, anchors) : Straight(path, card.x5chain, anchors)
    BY <2>1 DEF StraightFrom, anchors
  <2>3. path \in Ways(card.x5chain, anchors) /\ Recognised(card.x5chain, anchors)
    BY <2>1, <2>2, StraightIsRecognised DEF Signed, anchors
  <2>4. InDate(signer) /\ RecogniseIssuer(card, anchors)
    <3>1. Len(path) \in Nat
      BY <2>3, WaysAre
    <3> HIDE DEF signer
    <3>2. InDate(signer)
      BY <2>2, <3>1 DEF Straight, ValidPath, InDate, signer
    <3> QED
      BY <2>3, <3>2 DEF RecogniseIssuer
  <2>5. \A y \in Age : docs[i].shows[y] \in {"absent", card.elements[y]}
    <3>1. docs[i].shows = Only(card, a.disclosed)
      BY <1>4, <1>5 DEF card
    <3>2. \A y \in Age : Only(card, a.disclosed)[y] \in {"absent", card.elements[y]}
      BY DEF Only
    <3> QED
      BY <3>1, <3>2
  <2>6. docs[i].card = card /\ docs[i].boundTo = here /\ docs[i].family_name = "absent"
    BY <1>4, <1>5 DEF card
  <2> QED
    BY <2>1, <2>4, <2>5, <2>6 DEF AllPassed, Fit, Unchanged, SignedInTime
<1>6. AllGood(VerdictOn(docs, here, anchors))
  BY <1>2, <1>3, <1>5, GoodIsAllPassed
<1>7. docs # << >>
  <2>1. DOMAIN << >> = {}
    OBVIOUS
  <2> QED
    BY <1>2, <1>3, <2>1
<1>8. /\ docs[1].card.docType \in AgeDocTypes
      /\ docs[1].shows[m] = "true"
  <2>1. Fit(a.cards[1], m) /\ docs[1].card = a.cards[1] /\ docs[1].shows = Only(a.cards[1], a.disclosed)
    BY <1>2, <1>3, <1>4
  <2>2. Only(a.cards[1], a.disclosed)[m] = a.cards[1].elements[m]
    BY DEF Only
  <2> QED
    BY <2>1, <2>2 DEF Fit
<1>9. Says(Decoded(docs), m) = "true"
  BY <1>7, <1>8 DEF Says, Decoded
<1>10. raw = [decoded |-> TRUE, docType |-> docs[1].card.docType, verdict |-> VerdictOn(docs, here, anchors),
              ageClaims |-> ExtractAgeClaims(Decoded(docs))]
  BY <1>7 DEF VerifyDecodedResponse, RawVerification, Decoded, VerdictOn, AllReports
<1> HIDE DEF raw
<1>11. OutcomeFor(raw, m) = "verified"
  BY <1>6, <1>8, <1>9, <1>10 DEF OutcomeFor, AllGood, ExtractAgeClaims
<1>12. Concluded(docs, a.protocol, Challenge(site, n, m)) = OutcomeFor(raw, m)
  BY DEF Concluded, Challenge, raw, here, anchors
<1> QED
  BY <1>11, <1>12 DEF docs

---------------------------------------------------------------------------
(* What the repository's own examples come out as.                         *)

(* What is made of a response with one document: the first check it fails  *)
(* names the outcome, or else what it says of the age.                     *)
OneDocumentOutcome(d, here, anchors, minAge) ==
  IF d.card.docType \notin AgeDocTypes THEN "malformed"
  ELSE IF ~ (RecogniseIssuer(d.card, anchors) /\ InDate(d.card.x5chain[1])) THEN "untrusted_issuer"
  ELSE IF ~ (d.card.signedWith = d.card.x5chain[1].key /\ Unchanged(d)) THEN "malformed"
  ELSE IF ~ (InDate(d.card.window) /\ SignedInTime(d.card)) THEN "expired"
  ELSE IF d.boundTo # here THEN "replay"
  ELSE IF d.shows[minAge] = "true" THEN "verified"
  ELSE IF d.shows[minAge] = "false" THEN "predicate_false" ELSE "predicate_unavailable"

LEMMA OneDocument ==
  ASSUME NEW docs, DOMAIN docs = {1}, NEW nonce, NEW origin, NEW minAge \in Age, NEW anchors
  PROVE  VerifyPresentation([mdoc |-> docs], nonce, origin, minAge, anchors) =
           OneDocumentOutcome(docs[1], DcApiTranscript(origin, nonce, {}), anchors, minAge)
<1> DEFINE here == DcApiTranscript(origin, nonce, {})
           d == docs[1]
           v == VerdictOn(docs, here, anchors)
           raw == VerifyDecodedResponse(docs, here, anchors)
<1>1. VerifyPresentation([mdoc |-> docs], nonce, origin, minAge, anchors) = OutcomeFor(raw, minAge)
  BY PlainOutcome
<1>2. docs # << >>
  <2>1. DOMAIN << >> = {}
    OBVIOUS
  <2> QED
    BY <2>1
<1>3. raw = [decoded |-> TRUE, docType |-> d.card.docType, verdict |-> v,
             ageClaims |-> ExtractAgeClaims(Decoded(docs))]
  BY <1>2 DEF VerifyDecodedResponse, RawVerification, Decoded, VerdictOn, AllReports
<1>4. ExtractAgeClaims(Decoded(docs))[minAge] =
        IF d.shows[minAge] \in {"true", "false"} THEN d.shows[minAge] ELSE "absent"
  BY <1>2 DEF ExtractAgeClaims, Says, Decoded
<1>5. /\ v.issuerTrusted <=> RecogniseIssuer(d.card, anchors) /\ InDate(d.card.x5chain[1])
      /\ v.authentic <=> d.card.signedWith = d.card.x5chain[1].key /\ Unchanged(d)
      /\ v.withinValidity <=> InDate(d.card.window) /\ SignedInTime(d.card)
      /\ v.deviceBound <=> d.boundTo = here
  <2> HIDE DEF here
  <2>1. /\ v.issuerTrusted <=> \A i \in DOMAIN docs :
             RecogniseIssuer(docs[i].card, anchors) /\ InDate(docs[i].card.x5chain[1])
        /\ v.authentic <=> \A i \in DOMAIN docs :
             docs[i].card.signedWith = docs[i].card.x5chain[1].key /\ Unchanged(docs[i])
        /\ v.withinValidity <=> \A i \in DOMAIN docs :
             InDate(docs[i].card.window) /\ SignedInTime(docs[i].card)
        /\ v.deviceBound <=> \A i \in DOMAIN docs : docs[i].boundTo = here
    BY VerdictsOfAll
  <2> HIDE DEF v
  <2> QED
    BY <2>1
<1> DEFINE claims == ExtractAgeClaims(Decoded(docs))
<1> HIDE DEF d, v, here, raw, claims
<1>6. /\ raw.decoded /\ raw.docType = d.card.docType /\ raw.verdict = v
      /\ raw.ageClaims[minAge] = IF d.shows[minAge] \in {"true", "false"} THEN d.shows[minAge] ELSE "absent"
  BY <1>3, <1>4 DEF claims
<1> QED
  BY <1>1, <1>5, <1>6 DEF OutcomeFor, OneDocumentOutcome, d, here

(* A credential of an authority, signed when and as it should be: whether  *)
(* its issuer is recognised is whether the authority is an anchor.         *)
LEMMA MintIs ==
  ASSUME NEW authority, NEW docType, NEW ageOver, NEW claims, NEW window
  PROVE  LET card == Mint(authority, docType, ageOver, claims, window)
         IN  /\ card.docType = docType /\ card.window = window /\ card.family_name = "Doe"
             /\ \A a \in Age : card.elements[a] =
                  IF a \in DOMAIN claims THEN claims[a] ELSE IF a \in ageOver THEN "true" ELSE "absent"
             /\ card.x5chain = <<DsCert(authority, Now, Now + 9)>> /\ card.signed = Now
             /\ card.signedWith = card.x5chain[1].key
             /\ card.signedWith = KeyOf(authority, "ds")
             /\ InDate(card.x5chain[1]) /\ SignedInTime(card)
<1> DEFINE card == Mint(authority, docType, ageOver, claims, window)
           cert == DsCert(authority, Now, Now + 9)
<1>1. /\ card.docType = docType /\ card.window = window /\ card.family_name = "Doe"
      /\ card.x5chain = <<cert>> /\ card.signedWith = KeyOf(authority, "ds") /\ card.signed = Now
      /\ \A a \in Age : card.elements[a] =
           IF a \in DOMAIN claims THEN claims[a] ELSE IF a \in ageOver THEN "true" ELSE "absent"
  BY DEF Mint, IssueMdl
<1>2. cert.key = KeyOf(authority, "ds") /\ cert.from = Now /\ cert.to = Now + 9
  BY DEF DsCert
<1> HIDE DEF card, cert
<1>3. card.x5chain[1] = cert
  BY <1>1
<1>4. Now <= Now /\ Now <= Now + 9
  BY NowAssumption
<1>5. InDate(card.x5chain[1]) /\ SignedInTime(card)
  BY <1>1, <1>2, <1>3, <1>4 DEF InDate, SignedInTime
<1> QED
  BY <1>1, <1>2, <1>3, <1>5 DEF card, cert

(* Trusted by its one certificate.                                         *)
TrustedBy(authority, anchors) ==
  /\ Anchor(authority) \in anchors
  /\ \A anchor \in anchors : anchor.key.owner = authority => anchor = Anchor(authority)

LEMMA MintRecognised ==
  ASSUME NEW card, NEW authority, card.x5chain = <<DsCert(authority, Now, Now + 9)>>,
         NEW anchors, IsFiniteSet(anchors)
  PROVE  /\ TrustedBy(authority, anchors) => RecogniseIssuer(card, anchors)
         /\ (\A anchor \in anchors : anchor.key.owner # authority) => ~ RecogniseIssuer(card, anchors)
<1> DEFINE signer == DsCert(authority, Now, Now + 9)
           root == Anchor(authority)
           chain == <<signer>>
           pool == Pool(chain, anchors)
<1>1. card.x5chain = chain
  BY DEF signer
<1>2. /\ signer.key = KeyOf(authority, "ds") /\ signer.signedWith = KeyOf(authority, "iaca")
      /\ signer.issuer = "IACA" /\ signer.from = Now /\ signer.to = Now + 9
      /\ root.subject = "IACA" /\ root.key = KeyOf(authority, "iaca") /\ root.ca
      /\ root.issuer = "IACA" /\ root.signedWith = KeyOf(authority, "iaca")
      /\ root.usage = "keyCertSign" /\ root.from = Now /\ root.to = Now + 9
  BY DEF DsCert, Anchor, IacaCert
<1>3. /\ \A role : KeyOf(authority, role).owner = authority
      /\ KeyOf(authority, "ds") # KeyOf(authority, "iaca")
  BY DEF KeyOf
<1> HIDE DEF signer, root
<1>4. /\ Len(chain) = 1 /\ chain[1] = signer /\ chain # << >> /\ chain \in Seq({signer})
      /\ Reverse(chain) = <<signer>>
  <2>1. Len(chain) = 1 /\ chain[1] = signer /\ chain # << >> /\ chain \in Seq({signer})
    OBVIOUS
  <2>2. Reverse(chain) = [i \in 1 .. 1 |-> chain[(1 - i) + 1]]
    BY <2>1 DEF Reverse
  <2>3. \A i \in 1 .. 1 : chain[(1 - i) + 1] = signer
    BY <2>1
  <2>4. Reverse(chain) = [i \in 1 .. 1 |-> signer]
    BY <2>2, <2>3
  <2>5. [i \in 1 .. 1 |-> signer] = <<signer>>
    OBVIOUS
  <2> QED
    BY <2>1, <2>4, <2>5
<1>5. pool = {signer} \cup anchors
  <2>1. ToSet(chain) = {signer}
    BY DEF ToSet
  <2> QED
    BY <2>1 DEF Pool
<1>6. \A c \in pool : c \in Issuers(signer, pool) => c \in anchors /\ c.key = KeyOf(authority, "iaca")
  BY <1>2, <1>3, <1>5 DEF Issuers, Issued
<1> HIDE DEF chain, pool
<1>7. ASSUME TrustedBy(authority, anchors) PROVE RecogniseIssuer(card, anchors)
  <2> DEFINE p == <<root, signer>>
  <2>1. Len(p) = 2 /\ p[1] = root /\ p[2] = signer
    OBVIOUS
  <2>2. root \in pool /\ p = <<root>> \o Reverse(chain)
    BY <1>4, <1>5, <1>7 DEF TrustedBy, root
  <2> HIDE DEF p
  <2>3. p \in SentPaths(chain, anchors)
    BY <2>2 DEF SentPaths, pool
  <2>4. Linked(p)
    BY <1>2, <2>1 DEF Linked, Issued
  <2>5. ValidPath(p, signer, anchors)
    BY <1>2, <1>7, <2>1, <2>4, NowAssumption DEF ValidPath, TrustedBy, root
  <2>6. Issuers(signer, pool) = {root}
    <3>1. root \in Issuers(signer, pool)
      BY <1>2, <1>3, <2>2 DEF Issuers, Issued, SelfSigned
    <3>2. \A c \in Issuers(signer, pool) : c = root
      BY <1>3, <1>6, <1>7 DEF TrustedBy, root, Issuers
    <3> QED
      BY <3>1, <3>2
  <2>7. Issuers(root, pool) = {}
    BY <1>2 DEF Issuers, SelfSigned
  <2>8. Straight(p, chain, anchors)
    <3>1. \A i \in 2 .. Len(p) : i = 2 /\ p[i] = signer /\ p[i - 1] = root
      BY <2>1
    <3> QED
      BY <1>4, <2>1, <2>5, <2>6, <2>7, <3>1 DEF Straight, pool
  <2> QED
    BY <1>1, <1>4, <2>3, <2>8, StraightIsRecognised DEF RecogniseIssuer
<1>8. ASSUME \A anchor \in anchors : anchor.key.owner # authority, RecogniseIssuer(card, anchors)
      PROVE  FALSE
  <2>1. Len(chain) + Cardinality(anchors) - 1 \in Int
    BY <1>4, FS_CardinalityType
  <2>2. PICK path \in Ways(chain, anchors) : ValidPath(path, signer, anchors)
    BY <1>1, <1>4, <1>8, <2>1, RecognisedIsValid DEF RecogniseIssuer
  <2>3. PICK n \in Nat :
          /\ Len(path) = n + 1 /\ path[n + 1] = signer
          /\ \A i \in 1 .. n : \E c \in pool : path[i] \in Issuers(c, pool)
    BY <1>4, <2>2, WaysAre DEF pool
  <2>4. CASE n = 0
    <3>1. signer \in anchors
      BY <2>2, <2>3, <2>4 DEF ValidPath
    <3> QED
      BY <1>2, <1>3, <1>8, <3>1
  <2>5. CASE n # 0
    <3>1. n \in 1 .. n /\ n + 1 \in 2 .. Len(path) /\ (n + 1) - 1 = n
      BY <2>3, <2>5
    <3>2. path[n] \in pool
      BY <2>3, <3>1 DEF Issuers
    <3>3. Issued(signer, path[n])
      BY <2>2, <2>3, <3>1 DEF ValidPath, Linked
    <3>4. path[n] \in anchors /\ path[n].key = KeyOf(authority, "iaca")
      BY <1>2, <1>3, <1>5, <3>2, <3>3 DEF Issued
    <3> QED
      BY <1>3, <1>8, <3>4
  <2> QED
    BY <2>4, <2>5
<1> QED
  BY <1>7, <1>8

(* The outcome of a credential shown as issued, over the plain protocol.   *)
LEMMA ShownAsIssued ==
  ASSUME NEW card, NEW disclose, NEW nonce, NEW origin, NEW n, NEW page, NEW minAge \in Age, NEW anchors
  PROVE  VerifyPresentation(Present(<<card>>, nonce, origin, disclose), n, page, minAge, anchors) =
           OneDocumentOutcome(Document(card, disclose, DcApiTranscript(origin, nonce, {})),
                              DcApiTranscript(page, n, {}), anchors, minAge)
<1> DEFINE t == DcApiTranscript(origin, nonce, {})
           docs == [i \in DOMAIN <<card>> |-> Document(<<card>>[i], disclose, t)]
<1>1. Present(<<card>>, nonce, origin, disclose) = [mdoc |-> docs]
  BY DEF Present, DeviceResponse
<1>2. DOMAIN docs = {1} /\ docs[1] = Document(card, disclose, t)
  OBVIOUS
<1> HIDE DEF docs, t
<1> QED
  BY <1>1, <1>2, OneDocument DEF t

Claimed(ageOver, claims, a) ==
  IF a \in DOMAIN claims THEN claims[a] ELSE IF a \in ageOver THEN "true" ELSE "absent"

IssuedOutcome(window, t, here, shown) ==
  IF ~ InDate(window) THEN "expired"
  ELSE IF t # here THEN "replay"
  ELSE IF shown = "true" THEN "verified"
  ELSE IF shown = "false" THEN "predicate_false" ELSE "predicate_unavailable"

LEMMA MintShown ==
  ASSUME NEW authority, NEW ageOver, NEW claims, NEW window, NEW disclose, NEW t
  PROVE  LET card == Mint(authority, "mDL", ageOver, claims, window)
             d == Document(card, disclose, t)
         IN  /\ d.card = card /\ card.docType \in AgeDocTypes /\ card.window = window
             /\ card.signedWith = card.x5chain[1].key /\ InDate(card.x5chain[1])
             /\ SignedInTime(card) /\ Unchanged(d) /\ d.boundTo = t
             /\ \A a \in Age : d.shows[a] = IF a \in disclose THEN Claimed(ageOver, claims, a) ELSE "absent"
             /\ card.x5chain = <<DsCert(authority, Now, Now + 9)>>
<1> DEFINE card == Mint(authority, "mDL", ageOver, claims, window)
           d == Document(card, disclose, t)
<1>1. /\ d.card = card /\ d.family_name = "absent" /\ d.boundTo = t
      /\ \A a \in Age : d.shows[a] = IF a \in disclose THEN card.elements[a] ELSE "absent"
  BY DEF Document
<1>2. /\ card.docType = "mDL" /\ card.window = window /\ card.signedWith = card.x5chain[1].key
      /\ InDate(card.x5chain[1]) /\ SignedInTime(card)
      /\ \A a \in Age : card.elements[a] = Claimed(ageOver, claims, a)
      /\ card.x5chain = <<DsCert(authority, Now, Now + 9)>>
  BY MintIs DEF Claimed
<1>3. "mDL" \in AgeDocTypes
  BY DEF AgeDocTypes
<1> HIDE DEF card, d
<1>4. Unchanged(d)
  BY <1>1 DEF Unchanged
<1> QED
  BY <1>1, <1>2, <1>3, <1>4 DEF card, d

LEMMA NotTrusted ==
  ASSUME NEW authority, NEW ageOver, NEW claims, NEW window, NEW disclose,
         NEW nonce, NEW origin, NEW n, NEW page, NEW minAge \in Age, NEW anchors,
         IsFiniteSet(anchors), \A anchor \in anchors : anchor.key.owner # authority
  PROVE  LET card == Mint(authority, "mDL", ageOver, claims, window)
         IN  VerifyPresentation(Present(<<card>>, nonce, origin, disclose), n, page, minAge, anchors)
               = "untrusted_issuer"
<1> DEFINE card == Mint(authority, "mDL", ageOver, claims, window)
           t == DcApiTranscript(origin, nonce, {})
           d == Document(card, disclose, t)
<1>1. /\ d.card = card /\ card.docType \in AgeDocTypes
      /\ card.x5chain = <<DsCert(authority, Now, Now + 9)>>
  BY MintIs DEF Document, AgeDocTypes
<1>2. VerifyPresentation(Present(<<card>>, nonce, origin, disclose), n, page, minAge, anchors) =
        OneDocumentOutcome(d, DcApiTranscript(page, n, {}), anchors, minAge)
  BY ShownAsIssued
<1> HIDE DEF card, d
<1>3. ~ RecogniseIssuer(card, anchors)
  BY <1>1, MintRecognised
<1> QED
  BY <1>1, <1>2, <1>3 DEF OneDocumentOutcome, card

LEMMA Trusted ==
  ASSUME NEW authority, NEW ageOver, NEW claims, NEW window, NEW disclose,
         NEW nonce, NEW origin, NEW n, NEW page, NEW minAge \in Age, NEW anchors,
         IsFiniteSet(anchors), TrustedBy(authority, anchors)
  PROVE  LET card == Mint(authority, "mDL", ageOver, claims, window)
         IN  VerifyPresentation(Present(<<card>>, nonce, origin, disclose), n, page, minAge, anchors) =
               IssuedOutcome(window, DcApiTranscript(origin, nonce, {}), DcApiTranscript(page, n, {}),
                             IF minAge \in disclose THEN Claimed(ageOver, claims, minAge) ELSE "absent")
<1> DEFINE card == Mint(authority, "mDL", ageOver, claims, window)
           t == DcApiTranscript(origin, nonce, {})
           here == DcApiTranscript(page, n, {})
           d == Document(card, disclose, t)
           shown == IF minAge \in disclose THEN Claimed(ageOver, claims, minAge) ELSE "absent"
<1>1. /\ d.card = card /\ card.docType \in AgeDocTypes /\ card.window = window
      /\ card.signedWith = card.x5chain[1].key /\ InDate(card.x5chain[1])
      /\ SignedInTime(card) /\ Unchanged(d) /\ d.boundTo = t /\ d.shows[minAge] = shown
      /\ card.x5chain = <<DsCert(authority, Now, Now + 9)>>
  BY MintShown
<1>2. VerifyPresentation(Present(<<card>>, nonce, origin, disclose), n, page, minAge, anchors) =
        OneDocumentOutcome(d, here, anchors, minAge)
  BY ShownAsIssued
<1> HIDE DEF card, d, t, here, shown
<1>3. RecogniseIssuer(card, anchors)
  BY <1>1, MintRecognised
<1> QED
  BY <1>1, <1>2, <1>3 DEF OneDocumentOutcome, IssuedOutcome, card, t, here, shown

(* A document with a signature no key of the certificate made, or with a   *)
(* name that is not the one signed, is malformed.                          *)
LEMMA ChangedOnTheWay ==
  ASSUME NEW authority, authority # "nobody", NEW ageOver, NEW claims, NEW disclose,
         NEW nonce, NEW origin, NEW minAge \in Age, NEW anchors,
         IsFiniteSet(anchors), TrustedBy(authority, anchors)
  PROVE  LET token == Present(<<Mint(authority, "mDL", ageOver, claims, Current)>>, nonce, origin, disclose)
             judged(t) == VerifyPresentation(t, nonce, origin, minAge, anchors)
         IN  /\ judged(TamperIssuerAuthSignature(token)) = "malformed"
             /\ judged(FlipDisclosedFamilyName(ShowFamilyName(token, "Doe"))) = "malformed"
<1> DEFINE card == Mint(authority, "mDL", ageOver, claims, Current)
           t == DcApiTranscript(origin, nonce, {})
           d == Document(card, disclose, t)
           docs == [i \in DOMAIN <<card>> |-> Document(<<card>>[i], disclose, t)]
           token == Present(<<card>>, nonce, origin, disclose)
<1>1. token = [mdoc |-> docs]
  BY DEF Present, DeviceResponse
<1>2. DOMAIN docs = {1} /\ docs[1] = d
  OBVIOUS
<1>3. d = [card |-> card, family_name |-> "absent", boundTo |-> t, shows |-> d.shows]
  BY DEF Document
<1>4. card = [docType |-> "mDL", x5chain |-> card.x5chain, signedWith |-> card.signedWith,
              elements |-> card.elements, family_name |-> "Doe", window |-> card.window, signed |-> card.signed]
  BY DEF Mint, IssueMdl
<1>5. /\ card.docType = "mDL" /\ InDate(card.x5chain[1]) /\ RecogniseIssuer(card, anchors)
      /\ card.x5chain[1].key = KeyOf(authority, "ds") /\ card.family_name = "Doe"
  <2>1. /\ card.docType = "mDL" /\ InDate(card.x5chain[1]) /\ card.family_name = "Doe"
        /\ card.x5chain[1].key = KeyOf(authority, "ds")
        /\ card.x5chain = <<DsCert(authority, Now, Now + 9)>>
    BY MintIs
  <2> HIDE DEF card
  <2> QED
    BY <2>1, MintRecognised
<1>6. KeyOf("nobody", "ds") # KeyOf(authority, "ds")
  BY DEF KeyOf
<1>7. "mDL" \in AgeDocTypes
  BY DEF AgeDocTypes
<1> HIDE DEF card, t, d, docs, token
<1>8. \A e, response : response = [mdoc |-> [i \in {1} |-> response.mdoc[i]]] =>
        /\ ChangeFirst(response, e) = [mdoc |-> [i \in {1} |-> e]]
        /\ VerifyPresentation(ChangeFirst(response, e), nonce, origin, minAge, anchors) =
             OneDocumentOutcome(e, t, anchors, minAge)
  <2> SUFFICES ASSUME NEW e, NEW response, response = [mdoc |-> [i \in {1} |-> response.mdoc[i]]]
               PROVE  /\ ChangeFirst(response, e) = [mdoc |-> [i \in {1} |-> e]]
                      /\ VerifyPresentation(ChangeFirst(response, e), nonce, origin, minAge, anchors) =
                           OneDocumentOutcome(e, t, anchors, minAge)
    OBVIOUS
  <2> DEFINE own == response.mdoc
             one == [i \in {1} |-> e]
  <2>1. own = [i \in {1} |-> own[i]]
    OBVIOUS
  <2> HIDE DEF own
  <2>2. DOMAIN own = {1}
    BY <2>1
  <2>3. [i \in DOMAIN own |-> IF i = 1 THEN e ELSE own[i]] = one
    BY <2>2
  <2>4. DOMAIN one = {1} /\ one[1] = e
    OBVIOUS
  <2>5. ChangeFirst(response, e) = [mdoc |-> one]
    BY <2>3 DEF ChangeFirst, own
  <2> HIDE DEF one
  <2>6. VerifyPresentation([mdoc |-> one], nonce, origin, minAge, anchors) =
          OneDocumentOutcome(e, t, anchors, minAge)
    BY <2>4, OneDocument DEF t
  <2> QED
    BY <2>5, <2>6 DEF one
<1>9. token = [mdoc |-> [i \in {1} |-> token.mdoc[i]]] /\ token.mdoc[1] = d
  <2>1. token.mdoc = docs
    BY <1>1
  <2>2. docs = [i \in {1} |-> docs[i]]
    BY <1>2 DEF docs
  <2> QED
    BY <1>1, <1>2, <2>1, <2>2
<1>10. VerifyPresentation(TamperIssuerAuthSignature(token), nonce, origin, minAge, anchors) = "malformed"
  <2> DEFINE e == [d EXCEPT !.card.signedWith = KeyOf("nobody", "ds")]
  <2>1. e.card = [card EXCEPT !.signedWith = KeyOf("nobody", "ds")]
    BY <1>3
  <2>2. e.card.docType = card.docType /\ e.card.x5chain = card.x5chain /\ e.card.signedWith = KeyOf("nobody", "ds")
    BY <1>4, <2>1
  <2>3. TamperIssuerAuthSignature(token) = ChangeFirst(token, e)
    BY <1>9 DEF TamperIssuerAuthSignature
  <2> HIDE DEF e
  <2>4. RecogniseIssuer(e.card, anchors)
    BY <1>5, <2>2 DEF RecogniseIssuer
  <2>5. OneDocumentOutcome(e, t, anchors, minAge) = "malformed"
    BY <1>5, <1>6, <1>7, <2>2, <2>4 DEF OneDocumentOutcome
  <2> QED
    BY <1>8, <1>9, <2>3, <2>5
<1>11. VerifyPresentation(FlipDisclosedFamilyName(ShowFamilyName(token, "Doe")), nonce, origin, minAge, anchors)
         = "malformed"
  <2> DEFINE named == [d EXCEPT !.family_name = "Doe"]
             e == [named EXCEPT !.family_name = "Xoe"]
             response == ShowFamilyName(token, "Doe")
  <2>1. response = ChangeFirst(token, named)
    BY <1>9 DEF ShowFamilyName
  <2>2. named.card = card /\ named = [card |-> card, family_name |-> "Doe", boundTo |-> t, shows |-> d.shows]
    BY <1>3
  <2> HIDE DEF named, response
  <2>3. response = [mdoc |-> [i \in {1} |-> named]]
    BY <1>8, <1>9, <2>1
  <2>4. response = [mdoc |-> [i \in {1} |-> response.mdoc[i]]] /\ response.mdoc[1] = named
    BY <2>3
  <2>5. FlipDisclosedFamilyName(response) = ChangeFirst(response, e)
    BY <2>4 DEF FlipDisclosedFamilyName, ShowFamilyName
  <2>6. e.card = card /\ e.family_name = "Xoe"
    BY <2>2
  <2> HIDE DEF e
  <2>7. ~ Unchanged(e)
    BY <1>5, <2>6 DEF Unchanged
  <2>8. OneDocumentOutcome(e, t, anchors, minAge) = "malformed"
    BY <1>5, <1>7, <2>6, <2>7 DEF OneDocumentOutcome
  <2> QED
    BY <1>8, <2>4, <2>5, <2>8 DEF response
<1> QED
  BY <1>10, <1>11 DEF token, card

LEMMA Windows == InDate(Current) /\ ~ InDate(Lapsed)
BY NowAssumption DEF InDate, Current, Lapsed

---------------------------------------------------------------------------
(* The requests of a challenge, and what a wallet makes of them.           *)

Entry(protocol, data) == [protocol |-> protocol, data |-> data]

LEMMA TwoAfter ==
  ASSUME NEW x, NEW y, NEW z
  PROVE  /\ << >> \o <<y, z>> = <<y, z>>
         /\ <<x>> \o <<y, z>> = <<x, y, z>>
<1>1. << >> \o <<y, z>> = <<y, z>>
  OBVIOUS
<1>2. <<x>> \o <<y, z>> = <<x, y, z>>
  <2> DEFINE u == <<x>>
             v == <<y, z>>
             w == <<x, y, z>>
             S == {x, y, z}
  <2>1. /\ u \in Seq(S) /\ Len(u) = 1 /\ u[1] = x
        /\ v \in Seq(S) /\ Len(v) = 2 /\ v[1] = y /\ v[2] = z
        /\ w \in Seq(S) /\ Len(w) = 3 /\ w[1] = x /\ w[2] = y /\ w[3] = z
    OBVIOUS
  <2> HIDE DEF u, v, w, S
  <2>2. /\ u \o v \in Seq(S) /\ Len(u \o v) = Len(u) + Len(v)
        /\ \A i \in 1 .. Len(u) + Len(v) : (u \o v)[i] = IF i <= Len(u) THEN u[i] ELSE v[i - Len(u)]
    BY <2>1, ConcatProperties
  <2>3. Len(u \o v) = Len(w) /\ \A i \in 1 .. Len(u \o v) : (u \o v)[i] = w[i]
    BY <2>1, <2>2
  <2>4. u \o v = w
    BY <2>1, <2>2, <2>3, SeqEqual
  <2> QED
    BY <2>4 DEF u, v, w
<1> QED
  BY <1>1, <1>2

LEMMA RequestsAre ==
  ASSUME site \in Site, NEW n, NEW m, NEW r \in Requests(site, Challenge(site, n, m))
  PROVE  \E g, i :
           LET plain == Entry(Unsigned, BuildAgeRequest(m, n, Page))
               info == EncryptionInfo(Key("nonce", n), Key("iso", n))
           IN  /\ i \in BuildIsoMdocAgeRequest(m, info, site.apple, Page)
               /\ \/ /\ site.google = {} /\ Cardinality(site.google) = 0
                     /\ r = <<plain, Entry(Iso, i)>>
                  \/ /\ site.google # {} /\ Cardinality(site.google) = 1
                     /\ \E reader \in site.google :
                          g \in BuildGoogleAgeRequest(m, n, Page, reader, Key("google", n))
                     /\ r = <<Entry(Google, g), plain, Entry(Iso, i)>>
<1> DEFINE c == Challenge(site, n, m)
           plain == Entry(Unsigned, BuildAgeRequest(m, n, Page))
           info == EncryptionInfo(Key("nonce", n), Key("iso", n))
           iso == BuildIsoMdocAgeRequest(m, info, site.apple, Page)
           google == UNION {BuildGoogleAgeRequest(m, n, Page, reader, key)
                             : reader \in site.google, key \in c.googleKey}
           first == IF site.google = {} THEN {<< >>} ELSE {<<Entry(Google, g)>> : g \in google}
<1>1. /\ SiteOrigin(site) = Page
      /\ \A reader, other \in site.google : reader = other
  BY SiteAssumption, PagesAreOwn
<1>2. /\ c.minAge = m /\ c.nonce = n /\ c.isoInfo = info
      /\ c.googleKey = {Key("google", n) : reader \in site.google}
  BY DEF Challenge
<1> HIDE DEF c, info
<1>3. Requests(site, c) = {f \o <<plain, Entry(Iso, i)>> : f \in first, i \in iso}
  BY <1>1, <1>2 DEF Requests, Entry
<1>0. r \in Requests(site, c)
  BY DEF c
<1> HIDE DEF plain, iso, google, first
<1>4. PICK f \in first, i \in iso : r = f \o <<plain, Entry(Iso, i)>>
  <2> DEFINE tail(i) == <<plain, Entry(Iso, i)>>
  <2>1. Requests(site, c) = {f \o tail(i) : f \in first, i \in iso}
    BY <1>3
  <2> HIDE DEF tail
  <2>2. \E f \in first, i \in iso : r = f \o tail(i)
    BY <1>0, <2>1
  <2> QED
    BY <2>2 DEF tail
<1>5. CASE site.google = {}
  <2>1. r = <<plain, Entry(Iso, i)>>
    BY <1>4, <1>5, TwoAfter DEF first
  <2>2. Cardinality(site.google) = 0
    BY <1>5, FS_EmptySet
  <2> QED
    BY <1>4, <1>5, <2>1, <2>2 DEF plain, iso, info
<1>6. CASE site.google # {}
  <2>1. PICK g \in google : f = <<Entry(Google, g)>>
    BY <1>4, <1>6 DEF first
  <2>2. r = <<Entry(Google, g), plain, Entry(Iso, i)>>
    BY <1>4, <2>1, TwoAfter
  <2>3. PICK reader \in site.google : g \in BuildGoogleAgeRequest(m, n, Page, reader, Key("google", n))
    BY <1>2, <2>1 DEF google
  <2>4. site.google = {reader}
    BY <1>1, <2>3
  <2>5. Cardinality(site.google) = 1
    BY <2>4, FS_Singleton
  <2> QED
    BY <1>4, <1>6, <2>2, <2>3, <2>5 DEF plain, iso, info
<1> QED
  BY <1>5, <1>6

(* The document request of an ISO request is for the age, and with a       *)
(* reader it is signed so that a wallet which insists on that answers it.  *)
LEMMA IsoRequestIs ==
  ASSUME NEW m, NEW info, NEW readers, NEW i \in BuildIsoMdocAgeRequest(m, info, readers, Page),
         \A reader \in readers :
           reader.certChain # << >> => reader.certChain[1].key = reader.privateKey
  PROVE  /\ i.encryptionInfo = info
         /\ i.deviceRequest.docRequests[1].itemsRequest.claims = {m}
         /\ readers # {} => AppleAnswers(i, Page)
<1> DEFINE query == CredentialQuery("mDL", m)
           t == IsoTranscript(Page, info)
           unsigned == [ version |-> "1.0", readerAuthAll |-> {},
                         docRequests |-> <<[ itemsRequest |-> query, readerAuth |-> {} ]>> ]
           signed(reader) == SignIsoDeviceRequest(unsigned, t, reader)
           built == IF readers = {} THEN {unsigned} ELSE UNION {signed(reader) : reader \in readers}
<1>1. BuildIsoMdocAgeRequest(m, info, readers, Page) =
        {[deviceRequest |-> request, encryptionInfo |-> info] : request \in built}
  BY DEF BuildIsoMdocAgeRequest
<1>2. query.claims = {m}
  BY DEF CredentialQuery
<1>3. /\ DOMAIN unsigned.docRequests = {1} /\ unsigned.docRequests[1].itemsRequest = query
  OBVIOUS
<1> HIDE DEF query, t, built
<1>4. PICK request \in built : i = [deviceRequest |-> request, encryptionInfo |-> info]
  BY <1>1
<1>5. CASE readers = {}
  <2>1. request = unsigned
    BY <1>4, <1>5 DEF built
  <2> QED
    BY <1>2, <1>3, <1>4, <1>5, <2>1
<1>6. CASE readers # {}
  <2> HIDE DEF signed
  <2>1. PICK reader \in readers : request \in signed(reader)
    BY <1>4, <1>6 DEF built
  <2> DEFINE all == [j \in {1} |-> query]
             auth(context, covered) ==
               CoseSign1Detached(reader, ReaderAuthentication(context, t, covered))
  <2> HIDE DEF unsigned
  <2>2. [j \in DOMAIN unsigned.docRequests |-> unsigned.docRequests[j].itemsRequest] = all
    BY <1>3
  <2>3. /\ reader.certChain # << >>
        /\ request.version = "1.1"
        /\ request.readerAuthAll = {auth("ReaderAuthenticationAll", all)}
        /\ DOMAIN request.docRequests = {1}
        /\ request.docRequests[1].itemsRequest = query
        /\ request.docRequests[1].readerAuth = {auth("ReaderAuthentication", <<query>>)}
    BY <1>3, <2>1, <2>2 DEF signed, SignIsoDeviceRequest
  <2>4. reader.certChain[1].key = reader.privateKey
    BY <2>3
  <2>5. \A context, covered :
          SignedBy({auth(context, covered)}, ReaderAuthentication(context, t, covered))
    BY <2>3, <2>4 DEF SignedBy, CoseSign1Detached
  <2>6. [j \in DOMAIN request.docRequests |-> request.docRequests[j].itemsRequest] = all
    BY <2>3
  <2>7. i.deviceRequest = request /\ i.encryptionInfo = info
    BY <1>4
  <2> HIDE DEF auth, all
  <2>8. AppleAnswers(i, Page)
    <3>1. SignedBy(request.readerAuthAll, ReaderAuthentication("ReaderAuthenticationAll", t, all))
      BY <2>3, <2>5
    <3>2. \A j \in DOMAIN request.docRequests :
            SignedBy(request.docRequests[j].readerAuth,
                     ReaderAuthentication("ReaderAuthentication", t, <<request.docRequests[j].itemsRequest>>))
      BY <2>3, <2>5
    <3> QED
      BY <2>3, <2>6, <2>7, <3>1, <3>2 DEF AppleAnswers, t
  <2> QED
    BY <1>2, <1>6, <2>3, <2>7, <2>8
<1> QED
  BY <1>5, <1>6

LEMMA GoogleRequestIs ==
  ASSUME NEW m, NEW n, NEW reader, NEW key, NEW g \in BuildGoogleAgeRequest(m, n, Page, reader, key),
         reader.certChain # << >> => reader.certChain[1].key = reader.privateKey
  PROVE  /\ g.payload.nonce = n /\ g.payload.key = key /\ g.payload.credentials[1].claims = {m}
         /\ GoogleAnswers(g, Page)
<1>1. PICK leaf \in {reader.certChain[i] : i \in DOMAIN reader.certChain \cap {1}} :
        g = [ payload |-> [ response_mode |-> "dc_api.jwt", client_id |-> leaf, nonce |-> n,
                   expected_origins |-> <<Page>>,
                   credentials |-> << CredentialQuery("mDL", m), CredentialQuery("idPass", m) >>,
                   credential_sets |-> << <<1>>, <<2>> >>, key |-> key ],
              x5c |-> reader.certChain, signedWith |-> reader.privateKey ]
  BY DEF BuildGoogleAgeRequest
<1>2. 1 \in DOMAIN reader.certChain /\ leaf = reader.certChain[1] /\ reader.certChain # << >>
  BY <1>1
<1>3. /\ g.payload.nonce = n /\ g.payload.key = key /\ g.payload.client_id = leaf
      /\ g.payload.credentials[1] = CredentialQuery("mDL", m)
      /\ g.payload.expected_origins = <<Page>>
      /\ g.x5c = reader.certChain /\ g.signedWith = reader.privateKey
  BY <1>1
<1>4. 1 \in DOMAIN g.payload.expected_origins /\ g.payload.expected_origins[1] = Page
  BY <1>3
<1> QED
  BY <1>2, <1>3, <1>4 DEF GoogleAnswers, CredentialQuery

(* What is disclosed to a site that asks for this age.                     *)
AgeAlone(m) == {m}

LEMMA EntryResponds ==
  ASSUME NEW n, NEW m, NEW cards, NEW origin, NEW data
  PROVE  /\ data = BuildAgeRequest(m, n, Page) =>
              Respond(Entry(Unsigned, data), cards, origin) = Genuine(Unsigned, cards, origin, n, AgeAlone(m))
         /\ data.payload.nonce = n /\ data.payload.key = Key("google", n)
              /\ data.payload.credentials[1].claims = {m} =>
              Respond(Entry(Google, data), cards, origin) = Genuine(Google, cards, origin, n, AgeAlone(m))
         /\ data.encryptionInfo = EncryptionInfo(Key("nonce", n), Key("iso", n))
              /\ data.deviceRequest.docRequests[1].itemsRequest.claims = {m} =>
              Respond(Entry(Iso, data), cards, origin) = Genuine(Iso, cards, origin, n, AgeAlone(m))
<1>1. ASSUME data = BuildAgeRequest(m, n, Page)
      PROVE  Respond(Entry(Unsigned, data), cards, origin) = Genuine(Unsigned, cards, origin, n, AgeAlone(m))
  <2>1. /\ Entry(Unsigned, data).protocol = Unsigned /\ Entry(Unsigned, data).data = data
        /\ data.nonce = n /\ data.credentials[1].claims = {m}
    BY <1>1 DEF Entry, BuildAgeRequest, CredentialQuery
  <2> QED
    BY <2>1, Protocols DEF Respond, Genuine, AgeAlone
<1>2. ASSUME data.payload.nonce = n, data.payload.key = Key("google", n),
             data.payload.credentials[1].claims = {m}
      PROVE  Respond(Entry(Google, data), cards, origin) = Genuine(Google, cards, origin, n, AgeAlone(m))
  <2>1. Entry(Google, data).protocol = Google /\ Entry(Google, data).data = data
    BY DEF Entry
  <2> QED
    BY <1>2, <2>1, Protocols DEF Respond, Genuine, AgeAlone
<1>3. ASSUME data.encryptionInfo = EncryptionInfo(Key("nonce", n), Key("iso", n)),
             data.deviceRequest.docRequests[1].itemsRequest.claims = {m}
      PROVE  Respond(Entry(Iso, data), cards, origin) = Genuine(Iso, cards, origin, n, AgeAlone(m))
  <2>1. Entry(Iso, data).protocol = Iso /\ Entry(Iso, data).data = data
    BY DEF Entry
  <2> QED
    BY <1>3, <2>1, Protocols DEF Respond, Genuine, AgeAlone
<1> QED
  BY <1>1, <1>2, <1>3

LEMMA EntriesAre ==
  ASSUME site \in Site, NEW n, NEW m, NEW r \in Requests(site, Challenge(site, n, m))
  PROVE  /\ r # << >> /\ Len(r) = 2 + Cardinality(site.google)
         /\ r[Len(r) - 1].data = BuildAgeRequest(m, n, Page)
         /\ \A j \in DOMAIN r :
              /\ r[j].protocol \in {Unsigned, Google, Iso}
              /\ r[j].protocol = Google => site.google # {}
              /\ r[j].protocol = Google => GoogleAnswers(r[j].data, Page)
              /\ r[j].protocol = Iso /\ site.apple # {} => AppleAnswers(r[j].data, Page)
              /\ \A cards, origin :
                   Respond(r[j], cards, origin) = Genuine(r[j].protocol, cards, origin, n, AgeAlone(m))
<1> DEFINE plain == Entry(Unsigned, BuildAgeRequest(m, n, Page))
           info == EncryptionInfo(Key("nonce", n), Key("iso", n))
           Good(x) ==
              /\ x.protocol \in {Unsigned, Google, Iso}
              /\ x.protocol = Google => site.google # {}
              /\ x.protocol = Google => GoogleAnswers(x.data, Page)
              /\ x.protocol = Iso /\ site.apple # {} => AppleAnswers(x.data, Page)
              /\ \A cards, origin :
                   Respond(x, cards, origin) = Genuine(x.protocol, cards, origin, n, AgeAlone(m))
<1>1. PICK g, i :
        /\ i \in BuildIsoMdocAgeRequest(m, info, site.apple, Page)
        /\ \/ /\ site.google = {} /\ Cardinality(site.google) = 0
              /\ r = <<plain, Entry(Iso, i)>>
           \/ /\ site.google # {} /\ Cardinality(site.google) = 1
              /\ \E reader \in site.google :
                   g \in BuildGoogleAgeRequest(m, n, Page, reader, Key("google", n))
              /\ r = <<Entry(Google, g), plain, Entry(Iso, i)>>
  BY RequestsAre
<1>2. \A p, d : Entry(p, d).protocol = p /\ Entry(p, d).data = d
  BY DEF Entry
<1>3. \A reader \in site.google \cup site.apple :
        reader.certChain # << >> => reader.certChain[1].key = reader.privateKey
  BY SiteAssumption
<1>4. Good(plain)
  BY <1>2, EntryResponds, Protocols
<1>5. Good(Entry(Iso, i))
  <2>1. /\ i.encryptionInfo = info
        /\ i.deviceRequest.docRequests[1].itemsRequest.claims = {m}
        /\ site.apple # {} => AppleAnswers(i, Page)
    BY <1>1, <1>3, IsoRequestIs
  <2> QED
    BY <1>2, <2>1, EntryResponds, Protocols
<1>6. site.google # {} => Good(Entry(Google, g))
  <2> SUFFICES ASSUME site.google # {} PROVE Good(Entry(Google, g))
    OBVIOUS
  <2>1. PICK reader \in site.google : g \in BuildGoogleAgeRequest(m, n, Page, reader, Key("google", n))
    BY <1>1
  <2>2. /\ g.payload.nonce = n /\ g.payload.key = Key("google", n)
        /\ g.payload.credentials[1].claims = {m} /\ GoogleAnswers(g, Page)
    BY <1>3, <2>1, GoogleRequestIs
  <2> QED
    BY <1>2, <2>2, EntryResponds, Protocols
<1> HIDE DEF Good
<1>7. plain.data = BuildAgeRequest(m, n, Page)
  BY <1>2
<1> HIDE DEF plain
<1>8. CASE site.google = {}
  <2>1. r = <<plain, Entry(Iso, i)>> /\ Cardinality(site.google) = 0
    BY <1>1, <1>8
  <2> DEFINE y == Entry(Iso, i)
  <2> HIDE DEF y
  <2>2. r = <<plain, y>>
    BY <2>1 DEF y
  <2>3. r # << >> /\ Len(r) = 2 /\ r[1] = plain /\ DOMAIN r = {1, 2} /\ r[2] = y
    BY <2>2
  <2>4. \A j \in DOMAIN r : Good(r[j])
    BY <1>4, <1>5, <2>3 DEF y
  <2> QED
    BY <1>7, <2>1, <2>3, <2>4 DEF Good
<1>9. CASE site.google # {}
  <2>1. r = <<Entry(Google, g), plain, Entry(Iso, i)>> /\ Cardinality(site.google) = 1
    BY <1>1, <1>9
  <2> DEFINE x == Entry(Google, g)
             y == Entry(Iso, i)
  <2> HIDE DEF x, y
  <2>2. r = <<x, plain, y>>
    BY <2>1 DEF x, y
  <2>3. r # << >> /\ Len(r) = 3 /\ DOMAIN r = {1, 2, 3} /\ r[1] = x /\ r[2] = plain /\ r[3] = y
    BY <2>2
  <2>4. \A j \in DOMAIN r : Good(r[j])
    BY <1>4, <1>5, <1>6, <1>9, <2>3 DEF x, y
  <2> QED
    BY <1>7, <2>1, <2>3, <2>4 DEF Good
<1> QED
  BY <1>8, <1>9

---------------------------------------------------------------------------
(* The invariant.                                                          *)

LEMMA WrittenIsMade ==
  ASSUME NEW a, Written(a)
  PROVE  \E origin : Made(a, origin) /\ (a.ours <=> origin = Page)
<1>1. PICK origin, content :
        /\ content \in Genuine(a.protocol, a.cards, origin, a.question.nonce, a.disclosed)
        /\ a = [ protocol |-> a.protocol, question |-> a.question, ours |-> origin = Page,
                 cards |-> a.cards, disclosed |-> a.disclosed, altered |-> a.altered,
                 content |-> Change(content, a.altered) ]
  BY DEF Written
<1>2. a.ours = (origin = Page) /\ a.content = Change(content, a.altered)
  BY <1>1
<1> QED
  BY <1>1, <1>2 DEF Made, Written

LEMMA VerifyOutcomes ==
  ASSUME NEW c, NEW body
  PROVE  Verify(site, c, body) \in Outcomes
<1>1. \A raw, minAge : OutcomeFor(raw, minAge) \in Outcomes
  BY DEF OutcomeFor, Outcomes
<1>2. \A decoded, t, anchors, minAge : OutcomeOf(decoded, t, anchors, minAge) \in Outcomes
  BY <1>1 DEF OutcomeOf
<1>3. "malformed" \in Outcomes
  BY DEF Outcomes
<1>4. \A vp, nonce, origin, minAge, anchors : VerifyPresentation(vp, nonce, origin, minAge, anchors) \in Outcomes
  BY <1>2 DEF VerifyPresentation
<1>5. \A data, origin, anchors : VerifyIsoMdocPresentation(data, c, origin, anchors) \in Outcomes
  BY <1>2 DEF VerifyIsoMdocPresentation
<1>6. \A data, key, origin, anchors : VerifyGooglePresentation(data, c, key, origin, anchors) \in Outcomes
  BY <1>2 DEF VerifyGooglePresentation
<1> QED
  BY <1>3, <1>4, <1>5, <1>6 DEF Verify

ExchangeInv == TypeOK /\ RequestsInv /\ AnswerInv

LEMMA ChallengeFields ==
  ASSUME NEW s, NEW n, NEW m
  PROVE  Challenge(s, n, m).nonce = n /\ Challenge(s, n, m).minAge = m
BY DEF Challenge

LEMMA InitInv == Init => ExchangeInv
BY ExchangeAssumption DEF Init, ExchangeInv, TypeOK, RequestsInv, AnswerInv

LEMMA AskInv ==
  ASSUME ExchangeInv, NEW minAge \in Age, Ask(minAge)
  PROVE  ExchangeInv'
<1> DEFINE c == Challenge(site, minted + 1, minAge)
<1> USE DEF ExchangeInv
<1>1. /\ minted \in Nat /\ minted' = minted + 1 /\ minted' \in 0 .. MaxChallenges
      /\ pending' = {c} /\ requests' \in Requests(site, c)
      /\ outcome' = "none" /\ UNCHANGED <<site, answer, consents>>
  BY ExchangeAssumption DEF Ask, TypeOK
<1>2. c.nonce = minted + 1 /\ c.minAge = minAge
  BY ChallengeFields
<1>3. requests' # << >> /\ Len(requests') = 2 + Cardinality(site.google)
  BY <1>1, EntriesAre DEF TypeOK
<1>4. c \in {Challenge(site, n, a) : n \in 1 .. minted', a \in Age}
  BY <1>1
<1> HIDE DEF c
<1>5. TypeOK'
  <2>1. consents' \subseteq [nonce: 1 .. minted', minAge: Age]
    BY <1>1 DEF TypeOK
  <2> QED
    BY <1>1, <1>3, <1>4, <2>1 DEF TypeOK
<1>6. RequestsInv'
  <2>1. minted' > 0
    BY <1>1
  <2>2. LET d == Challenge(site', minted', minAge)
        IN  requests' \in Requests(site', d) /\ pending' \subseteq {d}
    BY <1>1 DEF c
  <2> QED
    BY <1>3, <2>1, <2>2 DEF RequestsInv
<1>7. AnswerInv'
  <2> SUFFICES ASSUME NEW a \in answer
               PROVE  /\ Written(a)
                      /\ a.protocol = Google => site.google # {}
                      /\ a.question \in [nonce: 1 .. minted', minAge: Age]
                      /\ \A d \in pending' : a.question.nonce = d.nonce => a.question.minAge = d.minAge
                      /\ a.ours /\ a.cards # << >> /\ Fit(a.cards[1], a.question.minAge)
                           => a.question \in consents
    BY <1>1 DEF AnswerInv, Fit
  <2>1. /\ Written(a) /\ (a.protocol = Google => site.google # {})
        /\ a.question \in [nonce: 1 .. minted, minAge: Age]
        /\ a.ours /\ a.cards # << >> /\ Fit(a.cards[1], a.question.minAge)
                           => a.question \in consents
    BY DEF AnswerInv
  <2>2. a.question \in [nonce: 1 .. minted', minAge: Age] /\ a.question.nonce # minted + 1
    BY <1>1, <2>1
  <2> QED
    BY <1>1, <1>2, <2>1, <2>2
<1> QED
  BY <1>5, <1>6, <1>7

(* Answering, by whatever wallet, is the same step.                        *)
Answering(protocol, cards, origin, q, disclosed) ==
  /\ disclosed \in {{q.minAge}, {13}}
  /\ \E content \in Genuine(protocol, cards, origin, q.nonce, disclosed) :
       answer' = {[ protocol |-> protocol, question |-> q, ours |-> origin = Page, cards |-> cards,
                    disclosed |-> disclosed, altered |-> "no", content |-> content ]}
  /\ Consented(cards, origin, q)
  /\ UNCHANGED <<site, minted, pending, requests, outcome>>

LEMMA AnswersInv ==
  ASSUME ExchangeInv,
         NEW protocol \in {Unsigned, Google, Iso}, protocol = Google => site.google # {},
         NEW cards \in Cards \cup TestCards, NEW origin \in {Page, Origin("elsewhere", 0)},
         NEW n \in 1 .. minted, NEW m \in Age,
         \A c \in pending : c.nonce = n => c.minAge = m,
         NEW disclosed, Answering(protocol, cards, origin, QuestionOf(n, m), disclosed)
  PROVE  ExchangeInv'
<1> DEFINE q == QuestionOf(n, m)
<1> USE DEF ExchangeInv
<1>1. q \in [nonce: 1 .. minted, minAge: Age] /\ q.nonce = n /\ q.minAge = m
  BY DEF QuestionOf
<1> HIDE DEF q
<1>2. UNCHANGED <<site, minted, pending, requests, outcome>>
  BY DEF Answering
<1>3. /\ consents \subseteq consents' /\ consents' \subseteq consents \cup {q}
      /\ origin = Page /\ cards # << >> /\ Fit(cards[1], m) => q \in consents'
  BY <1>1 DEF Answering, Consented, q
<1>4. PICK content \in Genuine(protocol, cards, origin, q.nonce, disclosed) :
        answer' = {[ protocol |-> protocol, question |-> q, ours |-> origin = Page, cards |-> cards,
                     disclosed |-> disclosed, altered |-> "no", content |-> content ]}
  BY DEF Answering, q
<1> DEFINE new == [ protocol |-> protocol, question |-> q, ours |-> origin = Page, cards |-> cards,
                    disclosed |-> disclosed, altered |-> "no", content |-> content ]
<1>5. /\ new.protocol = protocol /\ new.question = q /\ new.cards = cards /\ new.altered = "no"
      /\ new.disclosed = disclosed
      /\ new.ours <=> origin = Page
      /\ new = [ protocol |-> new.protocol, question |-> new.question, ours |-> origin = Page,
                 cards |-> new.cards, disclosed |-> new.disclosed, altered |-> new.altered,
                 content |-> Change(content, new.altered) ]
  BY NotChanged
<1> HIDE DEF new
<1>6. Written(new)
  <2>1. content \in Genuine(new.protocol, new.cards, origin, new.question.nonce, new.disclosed)
    BY <1>4, <1>5
  <2>2. new.disclosed \in {{new.question.minAge}, {13}}
    BY <1>5 DEF Answering, q
  <2> QED
    BY <1>5, <2>1, <2>2 DEF Written
<1>7. TypeOK'
  BY <1>1, <1>2, <1>3 DEF TypeOK
<1>8. RequestsInv'
  BY <1>2 DEF RequestsInv
<1>9. AnswerInv'
  <2>1. answer' = {new}
    BY <1>4 DEF new
  <2>2. /\ Written(new)
        /\ new.protocol = Google => site.google # {}
        /\ new.question \in [nonce: 1 .. minted, minAge: Age]
        /\ \A c \in pending : new.question.nonce = c.nonce => new.question.minAge = c.minAge
        /\ new.ours /\ new.cards # << >> /\ Fit(new.cards[1], new.question.minAge)
             => new.question \in consents'
    BY <1>1, <1>3, <1>5, <1>6
  <2> QED
    BY <1>2, <2>1, <2>2 DEF AnswerInv, Fit
<1> QED
  BY <1>7, <1>8, <1>9

LEMMA PendingIs ==
  ASSUME ExchangeInv, requests # << >>
  PROVE  \E m \in Age : /\ requests \in Requests(site, Challenge(site, minted, m))
                        /\ pending \subseteq {Challenge(site, minted, m)}
                        /\ minted \in 1 .. minted
                        /\ \A c \in pending : c.nonce = minted /\ c.minAge = m
<1>1. PICK m \in Age : /\ requests \in Requests(site, Challenge(site, minted, m))
                       /\ pending \subseteq {Challenge(site, minted, m)}
  BY DEF ExchangeInv, RequestsInv
<1>2. minted \in 1 .. minted
  BY ExchangeAssumption DEF ExchangeInv, RequestsInv, TypeOK
<1> QED
  BY <1>1, <1>2, ChallengeFields

LEMMA ReleaseAnswers ==
  ASSUME ExchangeInv, NEW i, NEW cards \in Cards, NEW origin \in {Page, Origin("elsewhere", 0)},
         Release(i, cards, origin)
  PROVE  \E protocol \in {Unsigned, Google, Iso}, m \in Age :
           /\ protocol = Google => site.google # {}
           /\ minted \in 1 .. minted
           /\ \A c \in pending : c.nonce = minted => c.minAge = m
           /\ Answering(protocol, cards, origin, QuestionOf(minted, m), AgeAlone(m))
<1>1. i \in DOMAIN requests /\ requests # << >>
  BY DEF Release
<1>2. PICK m \in Age : /\ requests \in Requests(site, Challenge(site, minted, m))
                       /\ minted \in 1 .. minted
                       /\ \A c \in pending : c.nonce = minted /\ c.minAge = m
  BY <1>1, PendingIs
<1>3. /\ requests[Len(requests) - 1].data = BuildAgeRequest(m, minted, Page)
      /\ requests[i].protocol \in {Unsigned, Google, Iso}
      /\ requests[i].protocol = Google => site.google # {}
      /\ Respond(requests[i], cards, origin) =
           Genuine(requests[i].protocol, cards, origin, minted, AgeAlone(m))
  BY <1>1, <1>2, EntriesAre DEF ExchangeInv, TypeOK
<1>4. Handed = QuestionOf(minted, m)
  <2> DEFINE data == requests[Len(requests) - 1].data
  <2>1. data.nonce = minted /\ data.credentials[1].claims = {m}
    BY <1>3 DEF BuildAgeRequest, CredentialQuery
  <2> HIDE DEF data
  <2>2. (CHOOSE a \in data.credentials[1].claims : TRUE) = m
    BY <2>1
  <2> QED
    BY <2>1, <2>2 DEF Handed, data
<1>5. QuestionOf(minted, m).nonce = minted /\ QuestionOf(minted, m).minAge = m
  BY DEF QuestionOf
<1>6. Answering(requests[i].protocol, cards, origin, QuestionOf(minted, m), AgeAlone(m))
  <2> DEFINE q == QuestionOf(minted, m)
  <2> HIDE DEF q
  <2>1. q.nonce = minted /\ q.minAge = m /\ Handed = q
    BY <1>4, <1>5 DEF q
  <2> QED
    BY <1>3, <2>1 DEF Release, Answering, AgeAlone, q
<1> QED
  BY <1>2, <1>3, <1>6

LEMMA DevWalletAnswers ==
  ASSUME ExchangeInv, NEW scenario \in Scenario, DevWallet(scenario)
  PROVE  \E m \in Age :
           /\ <<TestId(scenario, m)>> \in TestCards
           /\ minted \in 1 .. minted
           /\ \A c \in pending : c.nonce = minted => c.minAge = m
           /\ Answering(Unsigned, <<TestId(scenario, m)>>, Page, QuestionOf(minted, m), Disclosed(scenario, m))
<1>1. PICK c \in pending :
       /\ answer' = {[ protocol |-> Unsigned, question |-> QuestionOf(c.nonce, c.minAge),
                       ours |-> TRUE, cards |-> <<TestId(scenario, c.minAge)>>,
                       disclosed |-> Disclosed(scenario, c.minAge), altered |-> "no",
                       content |-> DevWalletPresent(site, scenario, c) ]}
       /\ Consented(<<TestId(scenario, c.minAge)>>, Page, QuestionOf(c.nonce, c.minAge))
  BY DEF DevWallet
<1>2. requests # << >>
  BY <1>1 DEF ExchangeInv, RequestsInv
<1>3. PICK m \in Age : /\ minted \in 1 .. minted
                       /\ \A d \in pending : d.nonce = minted /\ d.minAge = m
  BY <1>2, PendingIs
<1>4. c.nonce = minted /\ c.minAge = m
  BY <1>1, <1>3
<1> DEFINE cards == <<TestId(scenario, m)>>
           q == QuestionOf(minted, m)
           disclosed == Disclosed(scenario, m)
<1>5. cards \in TestCards
  BY DEF TestCards
<1>6. DevWalletPresent(site, scenario, c) \in Genuine(Unsigned, cards, Page, q.nonce, disclosed)
  <2>1. SiteOrigin(site) = Page
    BY PagesAreOwn DEF ExchangeInv, TypeOK
  <2>2. DevWalletPresent(site, scenario, c) = Present(cards, minted, Page, disclosed)
    BY <1>4, <2>1 DEF DevWalletPresent
  <2> HIDE DEF cards
  <2> QED
    BY <2>2, Protocols DEF Genuine, q, QuestionOf
<1>7. answer' = {[ protocol |-> Unsigned, question |-> q, ours |-> Page = Page, cards |-> cards,
                   disclosed |-> disclosed, altered |-> "no",
                   content |-> DevWalletPresent(site, scenario, c) ]}
  BY <1>1, <1>4
<1>8. Consented(cards, Page, q) /\ UNCHANGED <<site, minted, pending, requests, outcome>>
  BY <1>1, <1>4 DEF DevWallet
<1>9. disclosed \in {{q.minAge}, {13}}
  BY DEF Disclosed, QuestionOf
<1> HIDE DEF cards, q, disclosed
<1>10. Answering(Unsigned, cards, Page, q, disclosed)
  BY <1>6, <1>7, <1>8, <1>9 DEF Answering
<1> QED
  BY <1>3, <1>5, <1>10 DEF cards, q, disclosed

LEMMA AlterInv ==
  ASSUME ExchangeInv, NEW how \in {"signature", "age", "garbled"}, Alter(how)
  PROVE  ExchangeInv'
<1> USE DEF ExchangeInv
<1>1. PICK a \in answer :
       /\ a.altered = "no"
       /\ how # "garbled" => a.protocol = Unsigned /\ a.cards # << >>
       /\ answer' = {[a EXCEPT !.altered = how, !.content = Change(a.content, how)]}
  BY DEF Alter
<1>2. UNCHANGED <<site, minted, pending, requests, consents, outcome>>
  BY DEF Alter
<1>3. /\ Written(a)
      /\ a.protocol = Google => site.google # {}
      /\ a.question \in [nonce: 1 .. minted, minAge: Age]
      /\ \A c \in pending : a.question.nonce = c.nonce => a.question.minAge = c.minAge
      /\ a.ours /\ a.cards # << >> /\ Fit(a.cards[1], a.question.minAge) => a.question \in consents
  BY DEF AnswerInv
<1>0. PICK origin \in {Page, Origin("elsewhere", 0)} :
        \E content \in Genuine(a.protocol, a.cards, origin, a.question.nonce, a.disclosed) :
          a = [ protocol |-> a.protocol, question |-> a.question, ours |-> origin = Page,
                cards |-> a.cards, disclosed |-> a.disclosed, altered |-> a.altered,
                content |-> Change(content, a.altered) ]
  BY <1>3 DEF Written
<1>4. PICK content \in Genuine(a.protocol, a.cards, origin, a.question.nonce, a.disclosed) :
        a = [ protocol |-> a.protocol, question |-> a.question, ours |-> origin = Page,
              cards |-> a.cards, disclosed |-> a.disclosed, altered |-> a.altered,
              content |-> Change(content, a.altered) ]
  BY <1>0
<1> DEFINE new == [a EXCEPT !.altered = how, !.content = Change(a.content, how)]
<1>5. a.content = content
  <2>1. a.content = Change(content, a.altered)
    BY <1>4
  <2> QED
    BY <1>1, <2>1, NotChanged
<1>6. new = [ protocol |-> a.protocol, question |-> a.question, ours |-> a.ours,
              cards |-> a.cards, disclosed |-> a.disclosed, altered |-> how, content |-> Change(content, how) ]
  <2>1. a = [ protocol |-> a.protocol, question |-> a.question, ours |-> a.ours,
              cards |-> a.cards, disclosed |-> a.disclosed, altered |-> a.altered, content |-> a.content ]
    BY <1>4
  <2>2. new = [a EXCEPT !.altered = how, !.content = Change(content, how)]
    BY <1>5
  <2> DEFINE half == [a EXCEPT !.altered = how]
  <2>3. half = [ protocol |-> a.protocol, question |-> a.question, ours |-> a.ours,
                 cards |-> a.cards, disclosed |-> a.disclosed, altered |-> how, content |-> a.content ]
    BY <2>1
  <2>4. new = [half EXCEPT !.content = Change(content, how)]
    BY <2>2
  <2> HIDE DEF half
  <2> HIDE DEF new
  <2> QED
    BY <2>3, <2>4
<1>7. a.ours = (origin = Page)
  BY <1>4
<1> HIDE DEF new
<1>8. /\ new.protocol = a.protocol /\ new.question = a.question /\ new.cards = a.cards
      /\ new.disclosed = a.disclosed /\ new.altered = how /\ new.ours = a.ours
      /\ new = [ protocol |-> new.protocol, question |-> new.question, ours |-> origin = Page,
                 cards |-> new.cards, disclosed |-> new.disclosed, altered |-> new.altered,
                 content |-> Change(content, new.altered) ]
  BY <1>6, <1>7
<1>9. Written(new)
  <2>1. content \in Genuine(new.protocol, new.cards, origin, new.question.nonce, new.disclosed)
    BY <1>4, <1>8
  <2>2. \E o \in {Page, Origin("elsewhere", 0)} :
          \E x \in Genuine(new.protocol, new.cards, o, new.question.nonce, new.disclosed) :
            new = [ protocol |-> new.protocol, question |-> new.question, ours |-> o = Page,
                    cards |-> new.cards, disclosed |-> new.disclosed, altered |-> new.altered,
                    content |-> Change(x, new.altered) ]
    BY <1>4, <1>8, <2>1
  <2>3. /\ new.protocol \in {Unsigned, Google, Iso} /\ new.cards \in Cards \cup TestCards
        /\ new.disclosed \in {{new.question.minAge}, {13}}
        /\ new.altered \in {"no", "signature", "age", "garbled"}
        /\ new.altered \in {"signature", "age"} => new.protocol = Unsigned /\ new.cards # << >>
    BY <1>1, <1>3, <1>8 DEF Written
  <2> QED
    BY <2>2, <2>3 DEF Written
<1>10. AnswerInv'
  <2>1. answer' = {new}
    BY <1>1 DEF new
  <2>2. /\ Written(new)
        /\ new.protocol = Google => site.google # {}
        /\ new.question \in [nonce: 1 .. minted, minAge: Age]
        /\ \A c \in pending : new.question.nonce = c.nonce => new.question.minAge = c.minAge
        /\ new.ours /\ new.cards # << >> /\ Fit(new.cards[1], new.question.minAge)
             => new.question \in consents
    BY <1>3, <1>8, <1>9
  <2> QED
    BY <1>2, <2>1, <2>2 DEF AnswerInv, Fit
<1>11. TypeOK' /\ RequestsInv'
  BY <1>2 DEF TypeOK, RequestsInv
<1> QED
  BY <1>10, <1>11

LEMMA PostInv ==
  ASSUME ExchangeInv, NEW body, Post(body)
  PROVE  ExchangeInv'
<1> USE DEF ExchangeInv
<1>1. pending' = {} /\ UNCHANGED <<site, minted, requests, answer, consents>>
  BY DEF Post
<1>2. outcome' \in Outcomes
  <2>1. "replay" \in Outcomes
    BY DEF Outcomes
  <2> QED
    BY <2>1, VerifyOutcomes DEF Post
<1>3. TypeOK'
  BY <1>1, <1>2 DEF TypeOK
<1>4. RequestsInv'
  BY <1>1 DEF RequestsInv
<1>5. AnswerInv'
  BY <1>1 DEF AnswerInv, Fit
<1> QED
  BY <1>3, <1>4, <1>5

LEMMA StepInv ==
  ASSUME ExchangeInv, [Next]_vars
  PROVE  ExchangeInv'
<1>1. ASSUME NEW minAge \in Age, Ask(minAge) PROVE ExchangeInv'
  BY <1>1, AskInv
<1>2. ASSUME NEW i \in 1 .. 3, NEW cards \in Cards, NEW origin \in {Page, Origin("elsewhere", 0)},
             Release(i, cards, origin)
      PROVE  ExchangeInv'
  BY <1>2, ReleaseAnswers, AnswersInv
<1>3. ASSUME NEW scenario \in Scenario, DevWallet(scenario) PROVE ExchangeInv'
  <2>1. PICK m \in Age : /\ <<TestId(scenario, m)>> \in TestCards
                         /\ minted \in 1 .. minted
                         /\ \A c \in pending : c.nonce = minted => c.minAge = m
                         /\ Answering(Unsigned, <<TestId(scenario, m)>>, Page, QuestionOf(minted, m), Disclosed(scenario, m))
    BY <1>3, DevWalletAnswers
  <2>2. \A cards \in Cards \cup TestCards : \A disclosed :
          Answering(Unsigned, cards, Page, QuestionOf(minted, m), disclosed) => ExchangeInv'
    BY <2>1, AnswersInv, Protocols
  <2> QED
    BY <2>1, <2>2
<1>4. ASSUME NEW how \in {"signature", "age", "garbled"}, Alter(how) PROVE ExchangeInv'
  BY <1>4, AlterInv
<1>5. ASSUME NEW body \in Bodies, Post(body) PROVE ExchangeInv'
  BY <1>5, PostInv
<1>6. CASE UNCHANGED vars
  <2>1. TypeOK'
    BY <1>6 DEF vars, ExchangeInv, TypeOK
  <2>2. RequestsInv'
    BY <1>6 DEF vars, ExchangeInv, RequestsInv
  <2>3. AnswerInv'
    BY <1>6 DEF vars, ExchangeInv, AnswerInv, Fit
  <2> QED
    BY <2>1, <2>2, <2>3 DEF ExchangeInv
<1> QED
  BY <1>1, <1>2, <1>3, <1>4, <1>5, <1>6 DEF Next

LEMMA AlwaysInv == Spec => []ExchangeInv
BY InitInv, StepInv, PTL DEF Spec

(* At most one challenge is in flight, minted and answered in order, and   *)
(* the page has an entry for each way of asking (pavel.ts:43-76).          *)
THEOREM ExchangeTypeCorrect == Spec => []TypeOK
<1>1. ExchangeInv => TypeOK
  BY DEF ExchangeInv
<1> QED
  BY <1>1, AlwaysInv, PTL

(* Whatever is on its way back was made by a wallet from what the site     *)
(* handed out, or is garbled; and if the wallet saw our page and holds a   *)
(* fit credential, its holder consented to that question.                  *)
THEOREM AnswersGenuine == Spec => [](RequestsInv /\ AnswerInv)
<1>1. ExchangeInv => RequestsInv /\ AnswerInv
  BY DEF ExchangeInv
<1> QED
  BY <1>1, AlwaysInv, PTL

(* Every wallet that insists on signed requests gets one it can check, for *)
(* any site and however many ages there are (iso-reader-auth.ts:17-18,     *)
(* pavel.ts:79-81).                                                        *)
THEOREM SignedRequests == Spec => []SignedRequestsAnswerable
<1>1. ExchangeInv => SignedRequestsAnswerable
  <2> SUFFICES ASSUME ExchangeInv, NEW i \in DOMAIN requests
               PROVE  /\ requests[i].protocol = Iso /\ site.apple # {} => AppleAnswers(requests[i].data, Page)
                      /\ requests[i].protocol = Google => GoogleAnswers(requests[i].data, Page)
    BY DEF SignedRequestsAnswerable
  <2>1. PICK m \in Age : requests \in Requests(site, Challenge(site, minted, m))
    BY PendingIs
  <2> QED
    BY <2>1, EntriesAre DEF ExchangeInv, TypeOK
<1> QED
  BY <1>1, AlwaysInv, PTL

(* For any site, wallets and challenges, however an answer is wrapped, the *)
(* wire concludes what Ceremony and Middleware take for the outcome.       *)
THEOREM CeremonyIsRight == Spec => []AsTheCeremonyHasIt
<1>1. ExchangeInv => AsTheCeremonyHasIt
  <2> SUFFICES ASSUME ExchangeInv, NEW c \in pending, NEW a \in answer
               PROVE  /\ \A body \in ClientBodies(a) :
                           Verify(site, c, body) =
                             VerificationOutcome(Presentation(a), QuestionOf(c.nonce, c.minAge))
                      /\ \A body \in MislabelledBodies(a) : Verify(site, c, body) = "malformed"
    BY DEF AsTheCeremonyHasIt
  <2>0. requests # << >>
    BY DEF ExchangeInv, RequestsInv
  <2>1. PICK m \in Age : c = Challenge(site, minted, m)
    BY <2>0, PendingIs
  <2>2. c.nonce = minted /\ c.minAge = m
    BY <2>1, ChallengeFields
  <2>3. SiteOrigin(site) = Page
    BY PagesAreOwn DEF ExchangeInv, TypeOK
  <2>4. Written(a) /\ (a.protocol = Google => site.google # {})
    BY DEF ExchangeInv, AnswerInv
  <2>5. PICK origin : Made(a, origin) /\ (a.ours <=> origin = Page)
    BY <2>4, WrittenIsMade
  <2>6. a.cards \in Cards \cup TestCards
    BY <2>4 DEF Written
  <2>7. VerificationOutcome(Presentation(a), QuestionOf(minted, m)) =
          IF Reaches(a, origin, minted) THEN Concluded(Documents(a, origin), a.protocol, c) ELSE "malformed"
    BY <2>1, <2>5, <2>6, CeremonyOutcome
  <2>8. ASSUME NEW body \in ClientBodies(a)
        PROVE  Verify(site, c, body) =
                 IF Reaches(a, origin, minted) THEN Concluded(Documents(a, origin), a.protocol, c) ELSE "malformed"
    BY <2>1, <2>3, <2>4, <2>5, <2>8, ClientOutcome
  <2>9. ASSUME NEW body \in MislabelledBodies(a) PROVE Verify(site, c, body) = "malformed"
    BY <2>1, <2>3, <2>5, <2>9, MislabelledOutcome
  <2> QED
    BY <2>2, <2>7, <2>8, <2>9
<1> QED
  BY <1>1, AlwaysInv, PTL

(* For any site, wallet and challenge, whatever the browser wraps the      *)
(* answer in: the prompt, unaltered answer of a fit holder whose issuers'  *)
(* chains are straight is accepted (pavel.ts:50-52, dc-api.ts:75-81).      *)
THEOREM HonestAnswersAccepted == Spec => []HonestAnswerAccepted
<1>1. ExchangeInv => HonestAnswerAccepted
  <2> SUFFICES ASSUME ExchangeInv, NEW c \in pending, NEW a \in answer,
                      a.question = QuestionOf(c.nonce, c.minAge), a.ours, a.altered = "no",
                      c.minAge \in a.disclosed, a.cards # << >>,
                      \A i \in DOMAIN a.cards : Fit(a.cards[i], c.minAge) /\ StraightFrom(a.cards[i]),
                      NEW data \in Wrappings(a)
               PROVE  \E body \in VerifyBody(a.protocol, data) : Verify(site, c, body) = "verified"
    BY DEF HonestAnswerAccepted
  <2>0. requests # << >>
    BY DEF ExchangeInv, RequestsInv
  <2>1. PICK m \in Age : c = Challenge(site, minted, m)
    BY <2>0, PendingIs
  <2>2. c.nonce = minted /\ c.minAge = m
    BY <2>1, ChallengeFields
  <2>3. SiteOrigin(site) = Page
    BY PagesAreOwn DEF ExchangeInv, TypeOK
  <2>4. Written(a) /\ (a.protocol = Google => site.google # {})
    BY DEF ExchangeInv, AnswerInv
  <2>5. Made(a, Page)
    BY <2>4, WrittenIsMade
  <2>6. a.cards \in Cards \cup TestCards
    BY <2>4 DEF Written
  <2>7. PICK body : body \in VerifyBody(a.protocol, data)
    <3>1. /\ a.protocol = Unsigned => VerifyBody(Unsigned, data) = {Body(Unsigned, Text(a.content), Nothing)}
          /\ a.protocol # Unsigned => VerifyBody(a.protocol, data) = {Body(a.protocol, Nothing, data)}
      BY <2>5, WrappedBody
    <3> QED
      BY <3>1
  <2>8. body \in ClientBodies(a)
    BY <2>7 DEF ClientBodies
  <2>9. a.question.nonce = minted
    BY <2>2 DEF QuestionOf
  <2>10. Reaches(a, Page, minted)
    BY <2>9 DEF Reaches
  <2>11. Verify(site, c, body) = Concluded(Documents(a, Page), a.protocol, c)
    BY <2>1, <2>3, <2>4, <2>5, <2>8, <2>10, ClientOutcome
  <2>12. Concluded(Documents(a, Page), a.protocol, c) = "verified"
    <3>1. IsFiniteSet(site.trustAnchors)
      BY SiteAssumption DEF ExchangeInv, TypeOK
    <3> QED
      BY <2>1, <2>2, <2>5, <2>6, <3>1, FitIsVerified
  <2> QED
    BY <2>7, <2>11, <2>12
<1> QED
  BY <1>1, AlwaysInv, PTL

(* The golden vectors have the outcomes they are stored with, at any site  *)
(* that trusts the authority they are of, by its one certificate, and not  *)
(* the other one (core/test/fixtures).                                     *)
THEOREM GoldenVectors == TestAuthoritiesTrusted => (Spec => []VectorsAsStated)
<1> SUFFICES ASSUME TestAuthoritiesTrusted PROVE Spec => []VectorsAsStated
  OBVIOUS
<1>1. ExchangeInv => VectorsAsStated
  <2> SUFFICES ASSUME ExchangeInv
               PROVE  VectorsAsStated
    OBVIOUS
  <2> DEFINE anchors == site.trustAnchors
             elsewhere == Origin("elsewhere", 0)
             over(window) == Mint("good", "mDL", {18, 21}, NoClaims, window)
             under == Mint("good", "mDL", {18}, [a \in {21} |-> "false"], Current)
             silent == Mint("good", "mDL", {18}, NoClaims, Current)
             evil == Mint("evil", "mDL", {18, 21}, NoClaims, Current)
             present(card, disclose) == Present(<<card>>, 1, Page, disclose)
             ctx(token, expected) == Vector(token, Page, 1, expected)
             valid == present(over(Current), {21})
             AsStated(v) == VerifyPresentation(v.vpToken, v.nonce, v.expectedOrigin, 21, anchors) = v.expected
  <2>1. /\ TrustedBy("good", anchors) /\ \A anchor \in anchors : anchor.key.owner # "evil"
        /\ Page # elsewhere /\ IsFiniteSet(anchors)
    BY SiteAssumption DEF ExchangeInv, TypeOK, TestAuthoritiesTrusted, TrustedBy
  <2>2. 21 \in Age
    BY ExchangeAssumption
  <2>3. \A ageOver : Claimed(ageOver, NoClaims, 21) = IF 21 \in ageOver THEN "true" ELSE "absent"
    BY DEF Claimed, NoClaims
  <2>4. \A ageOver : Claimed(ageOver, [a \in {21} |-> "false"], 21) = "false"
    BY DEF Claimed
  <2>5. /\ DcApiTranscript(Page, 1, {}) # DcApiTranscript(elsewhere, 1, {})
        /\ DcApiTranscript(Page, 1, {}) # DcApiTranscript(Page, 2, {})
    BY <2>1 DEF DcApiTranscript
  <2>6. \A token, origin, nonce, expected :
          AsStated(Vector(token, origin, nonce, expected)) <=>
            VerifyPresentation(token, nonce, origin, 21, anchors) = expected
    BY DEF Vector
  <2> HIDE DEF anchors, AsStated, elsewhere
  <2>7. AsStated(ctx(valid, "verified"))
    BY <2>1, <2>2, <2>3, <2>6, Trusted, Windows DEF IssuedOutcome
  <2>8. /\ AsStated(ctx(TamperIssuerAuthSignature(valid), "malformed"))
        /\ AsStated(ctx(FlipDisclosedFamilyName(ShowFamilyName(valid, "Doe")), "malformed"))
    BY <2>1, <2>2, <2>6, ChangedOnTheWay
  <2>9. AsStated(ctx(present(over(Lapsed), {21}), "expired"))
    <3>1. \A t, here, shown : IssuedOutcome(Lapsed, t, here, shown) = "expired"
      BY Windows DEF IssuedOutcome
    <3>2. VerifyPresentation(present(over(Lapsed), {21}), 1, Page, 21, anchors) = "expired"
      BY <2>1, <2>2, <3>1, Trusted
    <3> QED
      BY <2>6, <3>2
  <2>10. /\ AsStated(Vector(valid, elsewhere, 1, "replay")) /\ AsStated(Vector(valid, Page, 2, "replay"))
    BY <2>1, <2>2, <2>5, <2>6, Trusted, Windows DEF IssuedOutcome
  <2>11. AsStated(ctx(present(evil, {21}), "untrusted_issuer"))
    <3>1. \A anchor \in anchors : anchor.key.owner # "evil"
      BY <2>1
    <3>2. VerifyPresentation(present(evil, {21}), 1, Page, 21, anchors) = "untrusted_issuer"
      BY <2>1, <2>2, <3>1, NotTrusted
    <3> QED
      BY <2>6, <3>2
  <2>12. AsStated(ctx(present(under, {21}), "predicate_false"))
    BY <2>1, <2>2, <2>4, <2>6, Trusted, Windows DEF IssuedOutcome
  <2>13. AsStated(ctx(present(silent, {18}), "predicate_unavailable"))
    BY <2>1, <2>2, <2>3, <2>6, Trusted, Windows DEF IssuedOutcome
  <2>14. Vectors = { ctx(valid, "verified"), ctx(TamperIssuerAuthSignature(valid), "malformed"),
                     ctx(FlipDisclosedFamilyName(ShowFamilyName(valid, "Doe")), "malformed"),
                     ctx(present(over(Lapsed), {21}), "expired"),
                     Vector(valid, elsewhere, 1, "replay"), Vector(valid, Page, 2, "replay"),
                     ctx(present(evil, {21}), "untrusted_issuer"),
                     ctx(present(under, {21}), "predicate_false"),
                     ctx(present(silent, {18}), "predicate_unavailable") }
    BY DEF Vectors, elsewhere
  <2> HIDE DEF valid, ctx, present, over, under, silent, evil
  <2>15. \A v \in Vectors : AsStated(v)
    BY <2>7, <2>8, <2>9, <2>10, <2>11, <2>12, <2>13, <2>14
  <2> QED
    BY <2>15 DEF VectorsAsStated, AsStated, anchors
<1> QED
  BY <1>1, AlwaysInv, PTL

(* Each scenario of the dev wallet comes out as it announces, however the  *)
(* site is configured otherwise, with one exception for the age of 13      *)
(* (dev-wallet.js:36-40, server.ts:121-124).                               *)
THEOREM DevWalletOutcomes == TestAuthoritiesTrusted => (Spec => []DevWalletAsHinted)
<1> SUFFICES ASSUME TestAuthoritiesTrusted PROVE Spec => []DevWalletAsHinted
  OBVIOUS
<1>1. ExchangeInv => DevWalletAsHinted
  <2> SUFFICES ASSUME ExchangeInv, NEW c \in pending, NEW s \in Scenario
               PROVE  Verify(site, c, DevBody(DevWalletPresent(site, s, c))) =
                        IF s = "absent" /\ c.minAge = 13 THEN "verified" ELSE Hint(s)
    BY DEF DevWalletAsHinted
  <2> DEFINE m == c.minAge
             anchors == site.trustAnchors
             card == TestId(s, m)
             no == [a \in {m} |-> "false"]
  <2>1. m \in Age
    <3>1. requests # << >>
      BY DEF ExchangeInv, RequestsInv
    <3> QED
      BY <3>1, PendingIs
  <2>2. SiteOrigin(site) = Page
    BY PagesAreOwn DEF ExchangeInv, TypeOK
  <2>3. Verify(site, c, DevBody(DevWalletPresent(site, s, c))) =
          VerifyPresentation(Present(<<card>>, c.nonce, Page, Disclosed(s, m)), c.nonce, Page, m, anchors)
    <3> DEFINE token == Present(<<card>>, c.nonce, Page, Disclosed(s, m))
    <3>1. DevWalletPresent(site, s, c) = token
      BY <2>2 DEF DevWalletPresent
    <3> HIDE DEF token
    <3>2. DevBody(token).protocol = "none" /\ DevBody(token).vp_token = Text(token)
          /\ DevBody(token).response = Nothing
      BY DEF DevBody, Body
    <3>3. IsText(Text(token)) /\ Text(token).text = token
      BY TextIsText
    <3>4. Verify(site, c, DevBody(token)) = VerifyPresentation(token, c.nonce, Page, m, anchors)
      BY <2>2, <3>2, <3>3, Protocols DEF Verify
    <3> QED
      BY <3>1, <3>4 DEF token
  <2>4. /\ TrustedBy("test", anchors) /\ \A anchor \in anchors : anchor.key.owner # "untrusted"
        /\ IsFiniteSet(anchors)
    BY SiteAssumption DEF ExchangeInv, TypeOK, TestAuthoritiesTrusted, TrustedBy
  <2> HIDE DEF m, anchors
  <2>5. \A ageOver : Claimed(ageOver, NoClaims, m) = IF m \in ageOver THEN "true" ELSE "absent"
    BY DEF Claimed, NoClaims
  <2>6. \A ageOver : Claimed(ageOver, no, m) = "false"
    BY DEF Claimed
  <2>7. m \in {m} /\ c.minAge = m /\ (s # "absent" => Disclosed(s, m) = {m})
    BY DEF Disclosed, m
  <2>8. CASE s = "over"
    <3>1. card = Mint("test", "mDL", {m}, NoClaims, Current) /\ Hint(s) = "verified"
      BY <2>8 DEF TestId, Hint
    <3> QED
      BY <2>1, <2>3, <2>4, <2>5, <2>7, <2>8, <3>1, Trusted, Windows DEF IssuedOutcome
  <2>9. CASE s = "under"
    <3>1. card = Mint("test", "mDL", {}, no, Current) /\ Hint(s) = "predicate_false"
      BY <2>9 DEF TestId, Hint
    <3> HIDE DEF no
    <3> QED
      BY <2>1, <2>3, <2>4, <2>6, <2>7, <2>9, <3>1, Trusted, Windows DEF IssuedOutcome
  <2>10. CASE s = "absent"
    <3>1. /\ card = Mint("test", "mDL", {13}, NoClaims, Current) /\ Hint(s) = "predicate_unavailable"
          /\ Disclosed(s, m) = {13} /\ (m \in {13} <=> m = 13)
      BY <2>10 DEF TestId, Hint, Disclosed
    <3> DEFINE shown == IF m \in {13} THEN Claimed({13}, NoClaims, m) ELSE "absent"
               t == DcApiTranscript(Page, c.nonce, {})
    <3>2. shown = IF m = 13 THEN "true" ELSE "absent"
      BY <2>5
    <3>3. VerifyPresentation(Present(<<Mint("test", "mDL", {13}, NoClaims, Current)>>, c.nonce, Page, {13}),
                             c.nonce, Page, m, anchors) = IssuedOutcome(Current, t, t, shown)
      BY <2>1, <2>4, Trusted
    <3> HIDE DEF card, shown, t
    <3>4. IssuedOutcome(Current, t, t, shown) = IF m = 13 THEN "verified" ELSE "predicate_unavailable"
      BY <3>2, Windows DEF IssuedOutcome
    <3> QED
      BY <2>3, <2>7, <2>10, <3>1, <3>3, <3>4
  <2>11. CASE s = "untrusted"
    <3>1. card = Mint("untrusted", "mDL", {m}, NoClaims, Current) /\ Hint(s) = "untrusted_issuer"
      BY <2>11 DEF TestId, Hint
    <3>2. \A anchor \in anchors : anchor.key.owner # "untrusted"
      BY <2>4
    <3> HIDE DEF card
    <3>3. VerifyPresentation(Present(<<Mint("untrusted", "mDL", {m}, NoClaims, Current)>>, c.nonce, Page, {m}),
                             c.nonce, Page, m, anchors) = "untrusted_issuer"
      BY <2>1, <2>4, <3>2, NotTrusted
    <3> QED
      BY <2>3, <2>7, <2>11, <3>1, <3>3
  <2> QED
    BY <2>8, <2>9, <2>10, <2>11 DEF Scenario
<1> QED
  BY <1>1, AlwaysInv, PTL

---------------------------------------------------------------------------
(* Step by step, it is an age check.                                       *)

Asked == {QuestionOf(c.nonce, c.minAge) : c \in pending}

LEMMA VerifiedConsented ==
  ASSUME ExchangeInv, NEW body \in Bodies, Post(body), outcome' = "verified"
  PROVE  Asked # {} /\ Asked \subseteq consents
<1>1. pending # {}
  BY DEF Post
<1>2. requests # << >>
  BY <1>1 DEF ExchangeInv, RequestsInv
<1>3. PICK m \in Age : /\ pending \subseteq {Challenge(site, minted, m)}
                       /\ minted \in 1 .. minted
  BY <1>2, PendingIs
<1> DEFINE c == Challenge(site, minted, m)
           q == QuestionOf(minted, m)
<1>4. pending = {c}
  BY <1>1, <1>3
<1>5. c.nonce = minted /\ c.minAge = m
  BY ChallengeFields
<1> HIDE DEF c
<1>6. Verify(site, c, body) = "verified"
  <2>1. (CHOOSE d \in pending : TRUE) = c
    BY <1>4
  <2> QED
    BY <1>1, <2>1 DEF Post
<1>7. SiteOrigin(site) = Page
  BY PagesAreOwn DEF ExchangeInv, TypeOK
<1>8. body # Body("none", Nothing, Nothing)
  BY <1>6, EmptyBody
<1>9. PICK a \in answer :
        body \in ClientBodies(a) \cup MislabelledBodies(a) \cup
                  {DevBody(a.content), Body("none", Nothing, Text(a.content))}
  BY <1>8 DEF Bodies
<1>10. /\ Written(a)
       /\ a.protocol = Google => site.google # {}
       /\ a.question \in [nonce: 1 .. minted, minAge: Age]
       /\ \A d \in pending : a.question.nonce = d.nonce => a.question.minAge = d.minAge
       /\ a.ours /\ a.cards # << >> /\ Fit(a.cards[1], a.question.minAge) => a.question \in consents
  BY DEF ExchangeInv, AnswerInv
<1>11. PICK origin : Made(a, origin) /\ (a.ours <=> origin = Page)
  BY <1>10, WrittenIsMade
<1>12. /\ Reaches(a, origin, minted)
       /\ Concluded(Documents(a, origin), a.protocol, c) = "verified"
  <2>1. \/ Verify(site, c, body) = "malformed"
        \/ /\ Reaches(a, origin, minted)
           /\ Verify(site, c, body) = Concluded(Documents(a, origin), a.protocol, c)
    BY <1>7, <1>9, <1>10, <1>11, BodyOutcome DEF c
  <2> QED
    BY <1>6, <2>1
<1>13. /\ origin = Page /\ a.question.nonce = minted
       /\ a.cards # << >> /\ Fit(a.cards[1], m)
  <2>1. IsFiniteSet(site.trustAnchors)
    BY SiteAssumption DEF ExchangeInv, TypeOK
  <2>2. a.cards \in Cards \cup TestCards
    BY <1>10 DEF Written
  <2> QED
    BY <1>11, <1>12, <2>1, <2>2, VerifiedIsEarned DEF c
<1>14. a.question.minAge = m
  BY <1>4, <1>5, <1>10, <1>13
<1>15. a.question = q
  BY <1>10, <1>13, <1>14 DEF QuestionOf
<1>16. q \in consents
  BY <1>10, <1>11, <1>13, <1>14, <1>15
<1>17. Asked = {q}
  BY <1>4, <1>5 DEF Asked, q
<1> QED
  BY <1>16, <1>17

LEMMA InitRefines == Init => Check!Init
BY DEF Init, Check!Init

LEMMA AskRefines ==
  ASSUME ExchangeInv, NEW minAge \in Age, Ask(minAge)
  PROVE  Check!Next
<1> DEFINE c == Challenge(site, minted + 1, minAge)
           q == QuestionOf(minted + 1, minAge)
<1>1. pending' = {c} /\ outcome' = "none" /\ UNCHANGED consents /\ minted < MaxChallenges
  BY DEF Ask
<1>2. c.nonce = minted + 1 /\ c.minAge = minAge
  BY ChallengeFields
<1> HIDE DEF c
<1>3. Asked' = {q}
  BY <1>1, <1>2 DEF Asked
<1>4. q \in [nonce: 1 .. MaxChallenges, minAge: Age]
  BY <1>1, ExchangeAssumption DEF ExchangeInv, TypeOK, QuestionOf
<1> HIDE DEF q
<1>5. Check!Ask(q)
  BY <1>1, <1>3 DEF Check!Ask, Asked
<1> QED
  BY <1>4, <1>5 DEF Check!Next

LEMMA AnswersRefine ==
  ASSUME ExchangeInv, NEW protocol, NEW cards, NEW origin, NEW n \in 1 .. minted, NEW m \in Age,
         NEW disclosed, Answering(protocol, cards, origin, QuestionOf(n, m), disclosed)
  PROVE  Check!Next \/ UNCHANGED Check!vars
<1> DEFINE q == QuestionOf(n, m)
<1>1. UNCHANGED <<pending, outcome>>
  BY DEF Answering
<1>2. q \in [nonce: 1 .. MaxChallenges, minAge: Age]
  BY ExchangeAssumption DEF ExchangeInv, TypeOK, QuestionOf
<1> HIDE DEF q
<1>3. consents' = consents \cup {q} \/ consents' = consents
  BY DEF Answering, Consented, q
<1>4. Asked' = Asked
  BY <1>1 DEF Asked
<1>5. CASE consents' = consents \cup {q}
  <2>1. Check!Consent(q)
    BY <1>1, <1>4, <1>5 DEF Check!Consent, Asked
  <2> QED
    BY <1>2, <2>1 DEF Check!Next
<1>6. CASE consents' = consents
  BY <1>1, <1>4, <1>6 DEF Check!vars, Asked
<1> QED
  BY <1>3, <1>5, <1>6

LEMMA PostRefines ==
  ASSUME ExchangeInv, NEW body \in Bodies, Post(body)
  PROVE  Check!Next
<1>1. pending' = {} /\ UNCHANGED consents
  BY DEF Post
<1>2. outcome' \in Outcomes
  <2>1. "replay" \in Outcomes
    BY DEF Outcomes
  <2> QED
    BY <2>1, VerifyOutcomes DEF Post
<1>3. Asked' = {}
  BY <1>1 DEF Asked
<1>4. outcome' = "verified" => Asked # {} /\ Asked \subseteq consents
  BY VerifiedConsented
<1>5. Check!Conclude(outcome')
  BY <1>1, <1>3, <1>4 DEF Check!Conclude, Asked
<1> QED
  BY <1>2, <1>5 DEF Check!Next

LEMMA StepRefines ==
  ASSUME ExchangeInv, [Next]_vars
  PROVE  Check!Next \/ UNCHANGED Check!vars
<1>1. ASSUME NEW minAge \in Age, Ask(minAge) PROVE Check!Next
  BY <1>1, AskRefines
<1>2. ASSUME NEW i \in 1 .. 3, NEW cards \in Cards, NEW origin \in {Page, Origin("elsewhere", 0)},
             Release(i, cards, origin)
      PROVE  Check!Next \/ UNCHANGED Check!vars
  BY <1>2, ReleaseAnswers, AnswersRefine
<1>3. ASSUME NEW scenario \in Scenario, DevWallet(scenario)
      PROVE  Check!Next \/ UNCHANGED Check!vars
  <2>1. PICK m \in Age : /\ minted \in 1 .. minted
                         /\ Answering(Unsigned, <<TestId(scenario, m)>>, Page, QuestionOf(minted, m), Disclosed(scenario, m))
    BY <1>3, DevWalletAnswers
  <2>2. \A cards, disclosed : Answering(Unsigned, cards, Page, QuestionOf(minted, m), disclosed)
                     => Check!Next \/ UNCHANGED Check!vars
    BY <2>1, AnswersRefine
  <2> QED
    BY <2>1, <2>2
<1>4. ASSUME NEW how, Alter(how) PROVE UNCHANGED Check!vars
  BY <1>4 DEF Alter, Check!vars
<1>5. ASSUME NEW body \in Bodies, Post(body) PROVE Check!Next
  BY <1>5, PostRefines
<1>6. CASE UNCHANGED vars
  BY <1>6 DEF vars, Check!vars
<1> QED
  BY <1>1, <1>2, <1>3, <1>4, <1>5, <1>6 DEF Next

(* Whatever protocol, wrapping, alteration or delay, an age check over the *)
(* wire concludes "verified" only if a fit holder consented to this very   *)
(* challenge on this site (pavel.ts:103-125, session-transcript.ts:6-9).   *)
THEOREM ExchangeIsAnAgeCheck == Spec => ImplementsAgeCheck
BY InitRefines, AlwaysInv, StepRefines, PTL DEF Spec, ImplementsAgeCheck, Check!Spec
=============================================================================
