---------------------------- MODULE BindingProofs ----------------------------
(***************************************************************************)
(* Proofs about what challenges and proofs are bound to, in session and in *)
(* time, and of what a gate lets through, for every value of the constants.*)
(***************************************************************************)
EXTENDS MiddlewareProofs

USE DEF sessionVars, gateVars, ceremonyVars

(* A step of r that mints and grants nothing, leaves the other requests    *)
(* alone, and puts whatever it stores or keeps where it belongs.           *)
Local(r) ==
  /\ UNCHANGED <<granted, minted>>
  /\ \A q \in Req \ {r} : /\ sid'[q] = sid[q] /\ session'[q] = session[q]
                          /\ ticket'[q] = ticket[q] /\ shown'[q] = shown[q]
                          /\ phase'[q] = phase[q]
  /\ FactAtHome(sid'[r], session'[r])
  /\ ChallengeAtHome(sid'[r], session'[r].pending)
  /\ ChallengeAtHome(sid'[r], ticket'[r])
  /\ \A s \in DOMAIN store' : /\ FactAtHome(s, store'[s])
                              /\ ChallengeAtHome(s, store'[s].pending)
  /\ InHand(r)'

LEMMA LocalKeepsBinding ==
  ASSUME BindingInv, NEW r \in Req, Local(r)
  PROVE  BindingInv'
<1>1. FactsAtHome' /\ SessionBound'
  <2>1. ASSUME NEW s \in DOMAIN store'
        PROVE  FactAtHome(s, store[s])' /\ ChallengeAtHome(s, store[s].pending)'
    BY DEF Local, FactAtHome, ChallengeAtHome
  <2>2. ASSUME NEW q \in Req
        PROVE  /\ FactAtHome(sid[q], session[q])'
               /\ ChallengeAtHome(sid[q], session[q].pending)'
               /\ ChallengeAtHome(sid[q], ticket[q])'
    <3>1. CASE q = r
      BY <3>1 DEF Local, FactAtHome, ChallengeAtHome
    <3>2. CASE q # r
      BY <3>2 DEF BindingInv, FactsAtHome, SessionBound, Local, FactAtHome, ChallengeAtHome
    <3> QED
      BY <3>1, <3>2
  <2> QED
    BY <2>1, <2>2 DEF FactsAtHome, SessionBound
<1>2. GrantsEarned'
  BY DEF BindingInv, GrantsEarned, Earned, Local
<1>3. \A q \in Req : InHand(q)'
  BY DEF BindingInv, InHand, Local
<1> QED
  BY <1>1, <1>2, <1>3 DEF BindingInv

(* Neither an empty session nor no challenge can be out of place.          *)
LEMMA NothingAtHome ==
  ASSUME NEW s
  PROVE  FactAtHome(s, EmptySession) /\ ChallengeAtHome(s, NoPending)
         /\ ChallengeAtHome(s, EmptySession.pending)
BY DEF FactAtHome, ChallengeAtHome, EmptySession, Unverified

LEMMA CopyAtHome ==
  ASSUME BindingInv, NEW r \in Req
  PROVE  /\ FactAtHome(sid[r], session[r])
         /\ ChallengeAtHome(sid[r], session[r].pending)
         /\ ChallengeAtHome(sid[r], ticket[r])
BY DEF BindingInv, FactsAtHome, SessionBound

LEMMA StoreAtHome ==
  ASSUME BindingInv, NEW s \in DOMAIN store
  PROVE  FactAtHome(s, store[s]) /\ ChallengeAtHome(s, store[s].pending)
BY DEF BindingInv, FactsAtHome, SessionBound

(* Answering without touching the fact.                                    *)
LEMMA RespondIsLocal ==
  ASSUME TypeOK, BindingInv, NEW r \in Req, NEW s, NEW answer, Respond(r, s, answer),
         s.pavel = session[r].pavel, ChallengeAtHome(sid[r], s.pending),
         UNCHANGED <<granted, minted>>,
         \/ UNCHANGED <<ticket, shown>> /\ ticket[r] = NoPending
         \/ ticket' = [ticket EXCEPT ![r] = NoPending] /\ shown' = [shown EXCEPT ![r] = {}]
  PROVE  Local(r)
<1>1. /\ session' = [session EXCEPT ![r] = s] /\ UNCHANGED <<store, sid>>
      /\ phase' = [phase EXCEPT ![r] = "responding"]
  BY DEF Respond, Write, Goto
<1>2. session'[r] = s /\ phase'[r] = "responding"
  BY <1>1 DEF TypeOK, SessionsTypeOK
<1>3. FactAtHome(sid'[r], session'[r])
  BY <1>1, <1>2, CopyAtHome DEF FactAtHome
<1>4. ChallengeAtHome(sid'[r], ticket'[r])
  BY <1>1, CopyAtHome, NothingAtHome DEF TypeOK, CeremonyTypeOK
<1>5. \A q \in Req \ {r} : /\ session'[q] = session[q] /\ ticket'[q] = ticket[q]
                           /\ shown'[q] = shown[q] /\ phase'[q] = phase[q]
  BY <1>1 DEF TypeOK, SessionsTypeOK, CeremonyTypeOK
<1>6. InHand(r)'
  BY <1>2 DEF InHand, TypeOK, CeremonyTypeOK
<1> QED
  BY <1>1, <1>2, <1>3, <1>4, <1>5, <1>6, StoreAtHome DEF Local

(* Going from one phase to another with everything left as it is.          *)
LEMMA MoveIsLocal ==
  ASSUME TypeOK, BindingInv, NEW r \in Req, NEW p, Goto(r, p),
         p \notin {"building", "signing", "verifying"}, ticket[r] = NoPending,
         UNCHANGED <<store, sid, session, ticket, shown, granted, minted>>
  PROVE  Local(r)
<1>1. phase'[r] = p /\ \A q \in Req \ {r} : phase'[q] = phase[q]
  BY DEF Goto, TypeOK, SessionsTypeOK
<1>2. InHand(r)'
  BY <1>1 DEF InHand
<1> QED
  BY <1>1, <1>2, CopyAtHome, StoreAtHome DEF Local

LEMMA ArriveIsLocal ==
  ASSUME TypeOK, BindingInv, NEW r \in Req, NEW s \in Sid, Resume(r, s) \/ Visit(r, s),
         UNCHANGED <<ticket, shown, granted, minted>>, ticket[r] = NoPending
  PROVE  Local(r)
<1>1. /\ sid' = [sid EXCEPT ![r] = s] /\ phase' = [phase EXCEPT ![r] = "loaded"]
      /\ UNCHANGED store
      /\ \/ s \in DOMAIN store /\ session' = [session EXCEPT ![r] = store[s]]
         \/ session' = [session EXCEPT ![r] = EmptySession]
  BY DEF Resume, Visit, Generate, Goto
<1>2. /\ sid'[r] = s /\ phase'[r] = "loaded"
      /\ (s \in DOMAIN store /\ session'[r] = store[s]) \/ session'[r] = EmptySession
      /\ \A q \in Req \ {r} : /\ sid'[q] = sid[q] /\ session'[q] = session[q]
                              /\ phase'[q] = phase[q]
  BY <1>1 DEF TypeOK, SessionsTypeOK
<1>3. FactAtHome(sid'[r], session'[r]) /\ ChallengeAtHome(sid'[r], session'[r].pending)
  BY <1>2, NothingAtHome, StoreAtHome
<1>4. InHand(r)'
  BY <1>2 DEF InHand
<1> QED
  BY <1>1, <1>2, <1>3, <1>4, NothingAtHome, StoreAtHome DEF Local

LEMMA SendIsLocal ==
  ASSUME TypeOK, BindingInv, NEW r \in Req, Send(r), UNCHANGED <<gateVars, ceremonyVars>>
  PROVE  Local(r)
<1>1. phase'[r] = "sent" /\ \A q \in Req \ {r} : phase'[q] = phase[q]
  BY DEF Send, Goto, TypeOK, SessionsTypeOK
<1>2. \A s \in DOMAIN store' : \/ s \in DOMAIN store /\ store'[s] = store[s]
                               \/ s = sid[r] /\ store'[s] = session[r]
  BY DEF Send, Save, Put
<1>3. \A s \in DOMAIN store' : /\ FactAtHome(s, store'[s])
                               /\ ChallengeAtHome(s, store'[s].pending)
  BY <1>2, CopyAtHome, StoreAtHome
<1>4. InHand(r)'
  BY <1>1 DEF InHand, BindingInv, Send
<1> QED
  BY <1>1, <1>3, <1>4, CopyAtHome DEF Local, Send

LEMMA SettleIsLocal ==
  ASSUME TypeOK, BindingInv, NEW r \in Req, Settle(r) \/ GoAway(r)
  PROVE  Local(r)
<1>1. /\ phase[r] = "sent" /\ phase' = [phase EXCEPT ![r] = "idle"]
      /\ sid' = [sid EXCEPT ![r] = NoSid] /\ session' = [session EXCEPT ![r] = EmptySession]
      /\ UNCHANGED ceremonyVars
  BY DEF Settle, GoAway, Finish, FinishSpend, FinishRelease, Disconnect, CloseGate, Close, End, Goto
<1>2. \/ UNCHANGED store
      \/ store' = Put(store, sid[r], [session[r] EXCEPT !.pavel = Unverified])
  BY DEF Settle, GoAway, Finish, FinishSpend, FinishRelease, Disconnect, Save
<1>3. ticket[r] = NoPending
  BY <1>1 DEF BindingInv, InHand
<1>4. /\ phase'[r] = "idle" /\ session'[r] = EmptySession /\ ticket'[r] = NoPending
      /\ \A q \in Req \ {r} : /\ sid'[q] = sid[q] /\ session'[q] = session[q]
                              /\ phase'[q] = phase[q]
  BY <1>1, <1>3 DEF TypeOK, SessionsTypeOK
<1>5. InHand(r)'
  BY <1>4 DEF InHand
<1>6. ASSUME NEW s \in DOMAIN store'
      PROVE  FactAtHome(s, store'[s]) /\ ChallengeAtHome(s, store'[s].pending)
  <2>1. CASE s \in DOMAIN store /\ store'[s] = store[s]
    BY <2>1, StoreAtHome
  <2>2. CASE s = sid[r] /\ store'[s] = [session[r] EXCEPT !.pavel = Unverified]
    <3>1. /\ store'[s].pavel = Unverified
          /\ store'[s].pending = session[r].pending
      BY <2>2 DEF TypeOK, SessionsTypeOK, Session
    <3> QED
      BY <2>2, <3>1, CopyAtHome DEF FactAtHome, Unverified
  <2> QED
    BY <1>2, <2>1, <2>2 DEF Put
<1> QED
  BY <1>1, <1>4, <1>5, <1>6, NothingAtHome DEF Local

(* Whatever a gate does, and the action behind it.                         *)
LEMMA GateIsLocal ==
  ASSUME TypeOK, BindingInv, NEW r \in Req, NEW a \in Age, UNCHANGED ceremonyVars,
         DenyUnproven(r, a) \/ Admit(r, a) \/ DenyClaimed(r, a) \/ Claim(r, a)
  PROVE  Local(r)
<1>1. phase[r] = "loaded" /\ ticket[r] = NoPending
  BY DEF DenyUnproven, Admit, DenyClaimed, Claim, BindingInv, InHand
<1>2. CASE Deny(r)
  BY <1>1, <1>2, RespondIsLocal, CopyAtHome DEF Deny
<1>3. CASE ~ Deny(r)
  BY <1>1, <1>3, MoveIsLocal DEF DenyUnproven, Admit, DenyClaimed, Claim
<1> QED
  BY <1>2, <1>3

LEMMA AppIsLocal ==
  ASSUME TypeOK, BindingInv, NEW r \in Req, NEW data \in App, UNCHANGED ceremonyVars,
         \E answer \in {"done", "failed"} :
           AppRequest(r, answer, data) \/ ActionResponds(r, answer, data)
  PROVE  Local(r)
<1> DEFINE s == [session[r] EXCEPT !.app = data]
<1>1. s.pavel = session[r].pavel /\ s.pending = session[r].pending
  BY DEF TypeOK, SessionsTypeOK, Session
<1>2. ticket[r] = NoPending
  BY DEF AppRequest, ActionResponds, BindingInv, InHand
<1>3. PICK answer \in {"done", "failed"} : Respond(r, s, answer)
  BY DEF AppRequest, ActionResponds
<1> HIDE DEF s
<1> QED
  BY <1>1, <1>2, <1>3, RespondIsLocal, CopyAtHome

(* Answers of the ceremony that are not an acceptance.                     *)
LEMMA RejectIsLocal ==
  ASSUME TypeOK, BindingInv, NEW r \in Req,
         \/ RejectMinAge(r) \/ RejectUnchallenged(r) \/ RejectExpired(r) \/ RejectBody(r)
         \/ VerifyThrows(r) \/ VerifyRejects(r)
  PROVE  Local(r)
<1>1. /\ Consumed(r).pavel = session[r].pavel
      /\ Consumed(r).pending = NoPending
  BY DEF Consumed, TypeOK, SessionsTypeOK, Session
<1>2. PICK s \in {session[r], Consumed(r)}, answer \in Core!Outcomes \cup {"invalid_min_age"} :
        RespondCeremony(r, s, answer) /\ UNCHANGED minted
  <2>1. {"replay", "expired", "malformed"} \subseteq Core!Outcomes
    BY DEF Core!Outcomes
  <2> QED
    BY <2>1, OutcomeType DEF RejectMinAge, RejectUnchallenged, RejectExpired, RejectBody,
                             VerifyThrows, VerifyRejects
<1>3. s.pavel = session[r].pavel /\ ChallengeAtHome(sid[r], s.pending)
  BY <1>1, CopyAtHome, NothingAtHome
<1> QED
  BY <1>2, <1>3, RespondIsLocal DEF RespondCeremony

(* Handing out the challenge in hand.                                      *)
LEMMA IssueIsLocal ==
  ASSUME TypeOK, BindingInv, NEW r \in Req, IssueUnsigned(r) \/ IssueWithGoogle(r)
  PROVE  Local(r)
<1>1. ticket[r] # NoPending
  BY DEF IssueUnsigned, IssueWithGoogle, BindingInv, InHand
<1>2. PICK t \in PendingRequest :
        Issue(r, t) /\ t.nonce = ticket[r].nonce /\ t.minAge = ticket[r].minAge
  <2>1. ticket[r] \in PendingRequest /\ now + NonceTTL \in Nat
    BY CeremonyAssumption DEF TypeOK, CeremonyTypeOK, SessionsTypeOK
  <2>2. [ticket[r] EXCEPT !.expiresAt = now + NonceTTL] \in
          {t \in PendingRequest : t.nonce = ticket[r].nonce /\ t.minAge = ticket[r].minAge}
    BY <2>1 DEF PendingRequest
  <2> QED
    BY <2>1, <2>2 DEF IssueUnsigned, IssueWithGoogle
<1>3. ChallengeAtHome(sid[r], t)
  BY <1>1, <1>2, CopyAtHome DEF ChallengeAtHome
<1> DEFINE s == [session[r] EXCEPT !.pending = t]
<1>4. s.pavel = session[r].pavel /\ s.pending = t
  BY DEF TypeOK, SessionsTypeOK, Session
<1>5. RespondCeremony(r, s, "done") /\ UNCHANGED minted
  BY <1>2 DEF Issue
<1> HIDE DEF s
<1> QED
  BY <1>3, <1>4, <1>5, RespondIsLocal DEF RespondCeremony

(* Only the ticket moves: time stamped before the Google request is        *)
(* awaited, or taken from the session to verify against.                   *)
LEMMA TicketIsLocal ==
  ASSUME TypeOK, BindingInv, NEW r \in Req,
         AwaitGoogle(r) \/ \E p \in Presentation : StartVerify(r, p)
  PROVE  Local(r)
<1>1. UNCHANGED <<store, sid, session, granted, minted>>
  BY DEF AwaitGoogle, StartVerify
<1>2. CASE AwaitGoogle(r)
  <2>1. ticket[r] # NoPending /\ ticket[r] \in PendingRequest
    BY <1>2 DEF AwaitGoogle, BindingInv, InHand, TypeOK, CeremonyTypeOK
  <2>2. /\ ticket'[r].nonce = ticket[r].nonce /\ ticket'[r].minAge = ticket[r].minAge
        /\ phase'[r] = "signing" /\ UNCHANGED shown
        /\ \A q \in Req \ {r} : ticket'[q] = ticket[q] /\ phase'[q] = phase[q]
    BY <1>2, <2>1 DEF AwaitGoogle, Goto, PendingRequest, TypeOK, CeremonyTypeOK, SessionsTypeOK
  <2>3. ChallengeAtHome(sid[r], ticket'[r])
    BY <2>1, <2>2, CopyAtHome DEF ChallengeAtHome
  <2>4. ticket'[r] # NoPending
    <3>1. ticket[r].nonce \in Nonce
      BY <2>1, CopyAtHome DEF ChallengeAtHome, TypeOK, CeremonyTypeOK
    <3> QED
      BY <2>2, <3>1, SessionsAssumption DEF NoPending
  <2>5. InHand(r)'
    BY <2>2, <2>4 DEF InHand
  <2> QED
    BY <1>1, <2>2, <2>3, <2>5, CopyAtHome, StoreAtHome DEF Local
<1>3. ASSUME NEW p \in Presentation, StartVerify(r, p) PROVE Local(r)
  <2>1. /\ ticket'[r] = session[r].pending /\ session[r].pending # NoPending
        /\ shown'[r] = {p} /\ phase'[r] = "verifying"
        /\ \A q \in Req \ {r} : /\ ticket'[q] = ticket[q] /\ phase'[q] = phase[q]
                                /\ shown'[q] = shown[q]
    BY <1>3 DEF StartVerify, Challenged, Goto, TypeOK, CeremonyTypeOK, SessionsTypeOK
  <2>2. InHand(r)'
    BY <2>1 DEF InHand
  <2> QED
    BY <1>1, <2>1, <2>2, CopyAtHome, StoreAtHome DEF Local
<1> QED
  BY <1>2, <1>3

(* The store failed: an empty session takes the place of the copy.         *)
LEMMA LossIsLocal ==
  ASSUME TypeOK, BindingInv, NEW r \in Req, NEW s \in Sid, VerifyLosesSession(r, s)
  PROVE  Local(r)
<1>1. /\ session'[r] = EmptySession /\ ticket'[r] = NoPending /\ phase'[r] = "responding"
      /\ \A q \in Req \ {r} : /\ sid'[q] = sid[q] /\ session'[q] = session[q]
                              /\ ticket'[q] = ticket[q] /\ shown'[q] = shown[q]
                              /\ phase'[q] = phase[q]
  BY DEF VerifyLosesSession, Regenerate, Generate, Goto, TypeOK, SessionsTypeOK, CeremonyTypeOK
<1>2. InHand(r)'
  BY <1>1 DEF InHand
<1> QED
  BY <1>1, <1>2, NothingAtHome, StoreAtHome DEF Local, VerifyLosesSession

(* A request that is not answered drops what it had in hand.               *)
LEMMA UnansweredIsLocal ==
  ASSUME TypeOK, BindingInv, NEW r \in Req, BuildRejects(r)
  PROVE  Local(r)
<1>1. /\ session'[r] = EmptySession /\ ticket'[r] = NoPending /\ phase'[r] = "unanswered"
      /\ \A q \in Req \ {r} : /\ sid'[q] = sid[q] /\ session'[q] = session[q]
                              /\ ticket'[q] = ticket[q] /\ phase'[q] = phase[q]
  BY DEF BuildRejects, End, Goto, TypeOK, SessionsTypeOK, CeremonyTypeOK
<1>2. UNCHANGED <<store, shown, granted, minted>>
  BY DEF BuildRejects
<1>3. InHand(r)'
  BY <1>1 DEF InHand
<1> QED
  BY <1>1, <1>2, <1>3, NothingAtHome, StoreAtHome DEF Local

LEMMA HangUpIsLocal ==
  ASSUME TypeOK, BindingInv, NEW r \in Req, StopWaiting(r)
  PROVE  Local(r)
<1>1. ticket[r] = NoPending
  BY DEF StopWaiting, HangUp, BindingInv, InHand
<1>2. UNCHANGED <<ticket, shown>>
  BY DEF StopWaiting, ceremonyVars
<1> QED
  BY <1>1, <1>2, MoveIsLocal DEF StopWaiting, HangUp, ceremonyVars

---------------------------------------------------------------------------
(* The steps that mint and grant.                                          *)

LEMMA MintKeepsBinding ==
  ASSUME TypeOK, BindingInv, NEW r \in Req, NEW n \in Nonce, NEW a \in Age, Mint(r, n, a)
  PROVE  BindingInv'
<1>1. /\ ticket'[r] = [nonce |-> n, minAge |-> a, expiresAt |-> 0]
      /\ phase'[r] = "building"
      /\ \A q \in Req \ {r} : ticket'[q] = ticket[q] /\ phase'[q] = phase[q]
      /\ UNCHANGED <<store, sid, session, shown, granted>>
  BY DEF Mint, Goto, TypeOK, SessionsTypeOK, CeremonyTypeOK
<1>2. /\ n \notin DOMAIN minted /\ DOMAIN minted' = DOMAIN minted \cup {n}
      /\ minted'[n] = [sid |-> sid[r], minAge |-> a]
      /\ \A m \in DOMAIN minted : minted'[m] = minted[m]
  BY DEF Mint, Put
<1>3. FactsAtHome'
  BY <1>1 DEF BindingInv, FactsAtHome, FactAtHome
<1>4. ASSUME NEW s, NEW t, ChallengeAtHome(s, t)
      PROVE  t # NoPending => t.nonce \in DOMAIN minted'
                              /\ minted'[t.nonce] = [sid |-> s, minAge |-> t.minAge]
  BY <1>2, <1>4 DEF ChallengeAtHome
<1>5. SessionBound'
  <2>1. \A s \in DOMAIN store : ChallengeAtHome(s, store[s].pending)'
    BY <1>1, <1>4 DEF BindingInv, SessionBound, ChallengeAtHome
  <2>2. ASSUME NEW q \in Req
        PROVE  ChallengeAtHome(sid[q], session[q].pending)' /\ ChallengeAtHome(sid[q], ticket[q])'
    <3>1. ChallengeAtHome(sid[q], session[q].pending)'
      <4> DEFINE t == session[q].pending
      <4>1. ChallengeAtHome(sid[q], t)
        BY CopyAtHome
      <4> HIDE DEF t
      <4>2. t # NoPending => /\ t.nonce \in DOMAIN minted'
                             /\ minted'[t.nonce] = [sid |-> sid[q], minAge |-> t.minAge]
        BY <1>4, <4>1
      <4>3. sid'[q] = sid[q] /\ t' = t
        BY <1>1 DEF t
      <4> QED
        BY <4>2, <4>3 DEF ChallengeAtHome, t
    <3>2. CASE q = r
      BY <1>1, <1>2, <3>1, <3>2 DEF ChallengeAtHome
    <3>3. CASE q # r
      BY <1>1, <1>4, <3>1, <3>3, CopyAtHome DEF ChallengeAtHome
    <3> QED
      BY <3>2, <3>3
  <2> QED
    BY <1>1, <2>1, <2>2 DEF SessionBound
<1>6. GrantsEarned'
  <2>1. ASSUME NEW p \in DOMAIN granted
        PROVE  Earned(p, granted[p].challenge.minAge)'
    <3>1. Earned(p, granted[p].challenge.minAge)
      BY DEF BindingInv, GrantsEarned
    <3>2. /\ granted[p].challenge.nonce \in DOMAIN minted
          /\ minted'[granted[p].challenge.nonce] = minted[granted[p].challenge.nonce]
      BY <1>2, <3>1 DEF Earned
    <3> QED
      BY <1>1, <1>2, <3>1, <3>2 DEF Earned
  <2> QED
    BY <1>1, <2>1 DEF BindingInv, GrantsEarned
<1>7. \A q \in Req : InHand(q)'
  <2>1. ticket'[r] # NoPending
    BY <1>1, SessionsAssumption DEF NoPending
  <2> QED
    BY <1>1, <2>1 DEF BindingInv, InHand
<1> QED
  BY <1>3, <1>5, <1>6, <1>7 DEF BindingInv

(* What an accepted presentation must be: bound to the challenge and to    *)
(* this site, cleared by every check, and saying "true" for the age.       *)
LEMMA OnlyGenuineVerifies ==
  ASSUME NEW p \in Presentation, NEW t, t.minAge \in Age, VerificationOutcome(p, t) = "verified"
  PROVE  /\ p.nonce = t.nonce /\ p.ours
         /\ p.card.response.elements[t.minAge] = "true"
         /\ \A v \in DOMAIN p.card.verdict : p.card.verdict[v]
<1> DEFINE bound == p.nonce = t.nonce /\ p.ours
           verdict == [p.card.verdict EXCEPT !.deviceBound = @ /\ bound]
           raw == IF Core!Opens(p, t) THEN Core!RawVerification(p.card.response, verdict)
                                 ELSE Core!NotDecoded
<1>1. p.card.response \in Core!Response /\ p.card.verdict \in Core!Verdicts
  BY CeremonyAssumption DEF Presentation
<1>2. Core!OutcomeFor(raw, t.minAge) = "verified"
  BY DEF VerificationOutcome, Core!VerificationOutcome
<1>3. /\ raw.decoded
      /\ raw.verdict.issuerTrusted /\ raw.verdict.authentic
      /\ raw.verdict.withinValidity /\ raw.verdict.deviceBound
      /\ raw.ageClaims[t.minAge] \notin {"absent", "false"}
  <2> HIDE DEF raw
  <2> QED
    BY <1>2 DEF Core!OutcomeFor
<1>4. raw = Core!RawVerification(p.card.response, verdict) /\ p.card.response.decodes
  BY <1>3 DEF Core!RawVerification, Core!NotDecoded
<1>5. raw.verdict = verdict /\ raw.ageClaims = Core!ExtractAgeClaims(p.card.response)
  <2> HIDE DEF raw, verdict
  <2> QED
    BY <1>4 DEF Core!RawVerification
<1>6. /\ p.card.verdict.issuerTrusted /\ p.card.verdict.authentic
      /\ p.card.verdict.withinValidity /\ p.card.verdict.deviceBound /\ bound
  <2> HIDE DEF raw
  <2> QED
    BY <1>1, <1>3, <1>5 DEF Core!Verdicts
<1>7. \A v \in DOMAIN p.card.verdict : p.card.verdict[v]
  BY <1>1, <1>6 DEF Core!Verdicts
<1>8. p.card.response.elements[t.minAge] = "true"
  <2> HIDE DEF raw
  <2> QED
    BY <1>3, <1>5 DEF Core!ExtractAgeClaims, Core!Says
<1> QED
  BY <1>6, <1>7, <1>8

(* The fact moves into a session that did not exist, and it was earned.    *)
LEMMA AcceptKeepsBinding ==
  ASSUME TypeOK, BindingInv, NEW r \in Req, NEW s \in Sid, NEW p \in Proof,
         VerifyAccepts(r, s, p)
  PROVE  BindingInv'
<1> DEFINE new == [sid |-> s, from |-> sid[r], challenge |-> ticket[r], shown |-> shown[r]]
           copy == [pavel |-> EligibilityFact(r, p), pending |-> NoPending,
                    app |-> session[r].app]
<1>1. /\ phase[r] = "verifying"
      /\ \A pr \in shown[r] : VerificationOutcome(pr, ticket[r]) = "verified"
  BY DEF VerifyAccepts, Grant, Accepted
<1>2. /\ p \notin DOMAIN granted /\ DOMAIN granted' = DOMAIN granted \cup {p}
      /\ granted'[p] = new /\ \A q \in DOMAIN granted : granted'[q] = granted[q]
      /\ UNCHANGED minted
  BY DEF VerifyAccepts, Grant, Put
<1>3. /\ sid'[r] = s /\ session'[r] = copy
      /\ ticket'[r] = NoPending /\ phase'[r] = "responding"
      /\ \A q \in Req \ {r} : /\ sid'[q] = sid[q] /\ session'[q] = session[q]
                              /\ ticket'[q] = ticket[q] /\ shown'[q] = shown[q]
                              /\ phase'[q] = phase[q]
  BY DEF VerifyAccepts, Regenerate, Generate, Goto, TypeOK, SessionsTypeOK, CeremonyTypeOK
<1>4. \A q \in DOMAIN store' : q \in DOMAIN store /\ store'[q] = store[q]
  BY DEF VerifyAccepts, Without, Restrict
<1>5. ticket[r] # NoPending /\ ChallengeAtHome(sid[r], ticket[r])
  BY <1>1, CopyAtHome DEF BindingInv, InHand
<1>6. ticket[r].nonce \in DOMAIN minted
      /\ minted[ticket[r].nonce] = [sid |-> sid[r], minAge |-> ticket[r].minAge]
  BY <1>5 DEF ChallengeAtHome
<1>7. ticket[r].minAge \in Age
  BY <1>6 DEF TypeOK, CeremonyTypeOK
<1>8. FactsAtHome'
  <2>1. \A q \in DOMAIN store' : FactAtHome(q, store[q])'
    BY <1>2, <1>4, StoreAtHome DEF FactAtHome
  <2>2. FactAtHome(sid[r], session[r])'
    BY <1>2, <1>3 DEF FactAtHome, EligibilityFact
  <2>3. \A q \in Req \ {r} : FactAtHome(sid[q], session[q])'
    BY <1>2, <1>3, CopyAtHome DEF FactAtHome
  <2> QED
    BY <2>1, <2>2, <2>3 DEF FactsAtHome
<1>9. SessionBound'
  <2>1. \A q \in DOMAIN store' : ChallengeAtHome(q, store[q].pending)'
    BY <1>2, <1>4, StoreAtHome DEF ChallengeAtHome
  <2>2. ChallengeAtHome(sid[r], session[r].pending)' /\ ChallengeAtHome(sid[r], ticket[r])'
    BY <1>3 DEF ChallengeAtHome
  <2>3. \A q \in Req \ {r} : /\ ChallengeAtHome(sid[q], session[q].pending)'
                             /\ ChallengeAtHome(sid[q], ticket[q])'
    BY <1>2, <1>3, CopyAtHome DEF ChallengeAtHome
  <2> QED
    BY <2>1, <2>2, <2>3 DEF SessionBound
<1>10. GrantsEarned'
  <2>1. PICK pr \in Presentation : shown[r] = {pr}
    BY <1>1 DEF BindingInv, InHand
  <2>2. /\ pr.nonce = ticket[r].nonce /\ pr.ours
        /\ pr.card.response.elements[ticket[r].minAge] = "true"
        /\ \A v \in DOMAIN pr.card.verdict : pr.card.verdict[v]
    BY <1>1, <1>7, <2>1, OnlyGenuineVerifies
  <2>3. /\ granted'[p].challenge = ticket[r] /\ granted'[p].from = sid[r]
        /\ granted'[p].shown = {pr}
    BY <1>2, <2>1
  <2>4. granted'[p].challenge.minAge \in Age
        /\ Earned(p, granted[p].challenge.minAge)'
    BY <1>2, <1>6, <1>7, <2>2, <2>3 DEF Earned
  <2>5. \A q \in DOMAIN granted : /\ granted'[q].challenge.minAge \in Age
                                  /\ Earned(q, granted[q].challenge.minAge)'
    BY <1>2 DEF BindingInv, GrantsEarned, Earned
  <2> QED
    BY <1>2, <2>4, <2>5 DEF GrantsEarned
<1>11. \A q \in Req : InHand(q)'
  BY <1>3 DEF BindingInv, InHand
<1> QED
  BY <1>8, <1>9, <1>10, <1>11 DEF BindingInv

---------------------------------------------------------------------------
(* The invariant, step by step.                                            *)

LEMMA InitBinding == Init => BindingInv
<1> SUFFICES ASSUME Init PROVE BindingInv
  OBVIOUS
<1>1. FactsAtHome /\ SessionBound
  <2>1. \A r \in Req : session[r] = EmptySession /\ ticket[r] = NoPending
    BY DEF Init, SessionsInit, CeremonyInit
  <2>2. DOMAIN store = {}
    BY DEF Init, SessionsInit
  <2> QED
    BY <2>1, <2>2, NothingAtHome DEF FactsAtHome, SessionBound
<1>2. GrantsEarned
  BY DEF Init, CeremonyInit, GrantsEarned
<1>3. \A r \in Req : InHand(r)
  BY DEF Init, SessionsInit, CeremonyInit, InHand
<1> QED
  BY <1>1, <1>2, <1>3 DEF BindingInv

LEMMA RestartKeepsBinding ==
  ASSUME BindingInv, Restart
  PROVE  BindingInv'
<1>1. \A r \in Req : /\ session'[r] = EmptySession /\ ticket'[r] = NoPending
                     /\ phase'[r] = "idle"
  BY DEF Restart
<1>2. UNCHANGED <<store, minted, granted>>
  BY DEF Restart
<1>3. FactsAtHome' /\ SessionBound'
  <2>1. \A s \in DOMAIN store : FactAtHome(s, store[s])' /\ ChallengeAtHome(s, store[s].pending)'
    BY <1>2, StoreAtHome DEF FactAtHome, ChallengeAtHome
  <2>2. \A r \in Req : /\ FactAtHome(sid[r], session[r])'
                       /\ ChallengeAtHome(sid[r], session[r].pending)'
                       /\ ChallengeAtHome(sid[r], ticket[r])'
    BY <1>1 DEF FactAtHome, ChallengeAtHome, EmptySession, Unverified
  <2> QED
    BY <1>2, <2>1, <2>2 DEF FactsAtHome, SessionBound
<1>4. GrantsEarned' /\ \A r \in Req : InHand(r)'
  BY <1>1, <1>2 DEF BindingInv, GrantsEarned, Earned, InHand
<1> QED
  BY <1>3, <1>4 DEF BindingInv

LEMMA NothingMoves ==
  ASSUME BindingInv,
         UNCHANGED <<store, phase, sid, session, ticket, shown, minted, granted>>
  PROVE  BindingInv'
BY DEF BindingInv, FactsAtHome, FactAtHome, SessionBound, ChallengeAtHome, GrantsEarned,
       Earned, InHand

LEMMA RouteKeepsBinding ==
  ASSUME TypeOK, BindingInv, NEW r \in Req, Route(r)
  PROVE  BindingInv'
<1>1. CASE \E answer \in {"done", "failed"}, data \in App :
             AppRequest(r, answer, data) /\ UNCHANGED <<gateVars, ceremonyVars>>
  BY <1>1, AppIsLocal, LocalKeepsBinding
<1>2. CASE \E a \in Age :
             /\ DenyUnproven(r, a) \/ Admit(r, a) \/ DenyClaimed(r, a) \/ Claim(r, a)
             /\ UNCHANGED ceremonyVars
  BY <1>2, GateIsLocal, LocalKeepsBinding
<1>3. CASE \E n \in Nonce, a \in Age : Mint(r, n, a)
  BY <1>3, MintKeepsBinding
<1>4. CASE \E p \in Presentation : StartVerify(r, p)
  BY <1>4, TicketIsLocal, LocalKeepsBinding
<1>5. CASE RejectMinAge(r) \/ RejectUnchallenged(r) \/ RejectExpired(r) \/ RejectBody(r)
  BY <1>5, RejectIsLocal, LocalKeepsBinding
<1> QED
  BY <1>1, <1>2, <1>3, <1>4, <1>5 DEF Route

LEMMA ProceedKeepsBinding ==
  ASSUME TypeOK, BindingInv, NEW r \in Req, Proceed(r)
  PROVE  BindingInv'
<1>1. CASE \E answer \in {"done", "failed"}, data \in App :
             ActionResponds(r, answer, data) /\ UNCHANGED ceremonyVars
  BY <1>1, AppIsLocal, LocalKeepsBinding
<1>2. CASE AwaitGoogle(r)
  BY <1>2, TicketIsLocal, LocalKeepsBinding
<1>3. CASE IssueUnsigned(r) \/ IssueWithGoogle(r)
  BY <1>3, IssueIsLocal, LocalKeepsBinding
<1>4. CASE VerifyThrows(r) \/ VerifyRejects(r)
  BY <1>4, RejectIsLocal, LocalKeepsBinding
<1>5. CASE \E s \in Sid : VerifyLosesSession(r, s)
  BY <1>5, LossIsLocal, LocalKeepsBinding
<1>6. CASE \E s \in Sid, p \in Proof : VerifyAccepts(r, s, p)
  BY <1>6, AcceptKeepsBinding
<1>7. CASE Send(r) /\ UNCHANGED <<gateVars, ceremonyVars>>
  BY <1>7, SendIsLocal, LocalKeepsBinding
<1>8. CASE BuildRejects(r)
  BY <1>8, UnansweredIsLocal, LocalKeepsBinding
<1> QED
  BY <1>1, <1>2, <1>3, <1>4, <1>5, <1>6, <1>7, <1>8 DEF Proceed

LEMMA NextKeepsBinding ==
  ASSUME TypeOK, BindingInv, [Next]_vars
  PROVE  BindingInv'
<1>1. ASSUME NEW r \in Req, RequestStep(r) PROVE BindingInv'
  <2>1. CASE Arrive(r)
    <3>1. PICK s \in Sid : Resume(r, s) \/ Visit(r, s)
      BY <2>1 DEF Arrive
    <3>2. ticket[r] = NoPending
      BY <3>1 DEF Resume, Visit, BindingInv, InHand
    <3> QED
      BY <2>1, <3>1, <3>2, ArriveIsLocal, LocalKeepsBinding DEF Arrive
  <2>2. CASE Settle(r) \/ GoAway(r)
    BY <2>2, SettleIsLocal, LocalKeepsBinding
  <2>3. CASE StopWaiting(r)
    BY <2>3, HangUpIsLocal, LocalKeepsBinding
  <2> QED
    BY <1>1, <2>1, <2>2, <2>3, RouteKeepsBinding, ProceedKeepsBinding DEF RequestStep
<1>2. CASE Tick
  BY <1>2, NothingMoves DEF Tick
<1>3. CASE UNCHANGED vars
  BY <1>3, NothingMoves DEF vars
<1> QED
  BY <1>1, <1>2, <1>3, RestartKeepsBinding DEF Next

(* Challenges and facts stay in their session and every grant was earned,  *)
(* in every reachable state (pavel.ts:172-183).                            *)
THEOREM BindingsHold == Spec => []BindingInv
<1>1. TypeOK /\ BindingInv /\ [Next]_vars => BindingInv'
  BY NextKeepsBinding
<1> QED
  BY InitBinding, TypeCorrect, <1>1, PTL DEF Spec

(* A proof lives only in the session generated for it (pavel.ts:176).      *)
THEOREM NoSessionFixation == Spec => []NoFixation
<1>1. BindingInv => NoFixation
  BY DEF BindingInv, FactsAtHome, FactAtHome, NoFixation, ProofAtHome
<1> QED
  BY BindingsHold, <1>1, PTL

(* A challenge never leaves the session it was minted in, nor changes the  *)
(* age it was minted for (core types.ts:28).                               *)
THEOREM ChallengesSessionBound == Spec => []SessionBound
<1>1. BindingInv => SessionBound
  BY DEF BindingInv
<1> QED
  BY BindingsHold, <1>1, PTL

(* Whoever a gate lets through has shown a genuine credential for at least *)
(* the gate's age, in answer to the session's own challenge (gate.ts:79).  *)
THEOREM GatesSound == Spec => GateSound
<1> DEFINE Sound == \A r \in Req, a \in Age :
                      Passes(r, a) =>
                        \E age \in Age : age >= a /\ Earned(ProofOf(r), age)
<1>1. BindingInv => Sound
  <2> SUFFICES ASSUME BindingInv, NEW r \in Req, NEW a \in Age, Passes(r, a)
               PROVE  \E age \in Age : age >= a /\ Earned(ProofOf(r), age)
    OBVIOUS
  <2>1. ProofOf(r) # NoProof /\ session[r].pavel.minAge >= a
    BY DEF Passes, Admit, Claim, Satisfied
  <2>2. /\ ProofOf(r) \in DOMAIN granted
        /\ granted[ProofOf(r)].challenge.minAge = session[r].pavel.minAge
    BY <2>1, CopyAtHome DEF FactAtHome, ProofOf
  <2> QED
    BY <2>1, <2>2 DEF BindingInv, GrantsEarned
<1>2. BindingInv => [Sound]_vars
  BY <1>1
<1> QED
  BY BindingsHold, <1>2, PTL DEF GateSound

(* A proof's home is new: no client knew the id before (pavel.ts:176).     *)
THEOREM HomesAreFresh == Spec => FreshHome
<1> DEFINE Fresh == \A p \in DOMAIN granted' :
                      p \notin DOMAIN granted => granted'[p].sid \notin issued
<1>1. [Next]_vars => Fresh
  <2> SUFFICES ASSUME [Next]_vars, NEW p \in DOMAIN granted', p \notin DOMAIN granted
               PROVE  granted'[p].sid \notin issued
    OBVIOUS
  <2>1. PICK r \in Req : Proceed(r)
    <3>0. granted' # granted
      OBVIOUS
    <3>1. PICK r \in Req : RequestStep(r)
      BY <3>0 DEF Next, Tick, Restart, vars
    <3>2. ~ Route(r)
      BY <3>0 DEF Route, Mint, StartVerify, RejectMinAge, RejectUnchallenged, RejectExpired,
                  RejectBody, RespondCeremony
    <3> QED
      BY <3>0, <3>1, <3>2 DEF RequestStep, Arrive, Settle, GoAway, StopWaiting, ceremonyVars
  <2>2. PICK s \in Sid, q \in Proof : VerifyAccepts(r, s, q)
    BY <2>1 DEF Proceed, ActionResponds, AwaitGoogle, IssueUnsigned, IssueWithGoogle, Issue,
                BuildRejects, VerifyThrows, VerifyRejects, RespondCeremony, VerifyLosesSession, Send
  <2>3. s \notin issued
    BY <2>2 DEF VerifyAccepts, Regenerate, Generate
  <2>4. p = q /\ granted'[q].sid = s
    BY <2>2 DEF VerifyAccepts, Grant, Put
  <2> QED
    BY <2>3, <2>4
<1>2. [Next]_vars => [Fresh]_vars
  BY <1>1
<1> QED
  BY <1>2, PTL DEF Spec, FreshHome

---------------------------------------------------------------------------
(* Challenges are answered in time.                                        *)

(* A step of r lets the others wait as they did, and leaves, arrives, goes *)
(* on with something other than verifying, or starts to verify in time.    *)
Punctual(r) ==
  /\ UNCHANGED now
  /\ \A q \in Req \ {r} : /\ phase'[q] = phase[q] /\ since'[q] = since[q]
                          /\ ticket'[q] = ticket[q]
  /\ \/ phase'[r] \in {"idle", "unanswered"}
     \/ phase'[r] = "loaded" /\ since'[r] = now
     \/ InFlight(r) /\ phase'[r] # "verifying" /\ since'[r] = since[r]
     \/ InFlight(r) /\ now <= ticket'[r].expiresAt /\ since'[r] = since[r]

LEMMA PunctualKeepsTime ==
  ASSUME TypeOK, TypeOK', NEW r \in Req, Punctual(r), \A q \in Req : InTime(q)
  PROVE  \A q \in Req : InTime(q)'
<1>1. ASSUME NEW q \in Req, q # r PROVE InTime(q)'
  BY <1>1 DEF Punctual, InTime, Timely, InFlight
<1>2. since[r] \in Nat /\ now \in Nat /\ RequestLimit \in Nat
  BY MiddlewareAssumption DEF TypeOK, SessionsTypeOK
<1>3. Timely(r)'
  BY <1>2 DEF Punctual, InTime, Timely, InFlight
<1>4. phase'[r] = "verifying" => since'[r] <= ticket'[r].expiresAt
  <2> SUFFICES ASSUME phase'[r] = "verifying" PROVE since'[r] <= ticket'[r].expiresAt
    OBVIOUS
  <2>1. InFlight(r) /\ now <= ticket'[r].expiresAt /\ since'[r] = since[r]
    BY DEF Punctual
  <2>2. ticket'[r].expiresAt \in Nat
    BY DEF TypeOK, CeremonyTypeOK, PendingRequest
  <2> QED
    BY <1>2, <2>1, <2>2 DEF InTime, Timely
<1> QED
  BY <1>1, <1>3, <1>4 DEF InTime

(* The one step that begins to verify has just looked at the challenge.    *)
LEMMA StartIsPunctual ==
  ASSUME TypeOK, NEW r \in Req, NEW p \in Presentation, StartVerify(r, p), UNCHANGED now
  PROVE  Punctual(r)
<1>1. ticket'[r] = session[r].pending
  BY DEF StartVerify, TypeOK, CeremonyTypeOK
<1>2. session[r].pending.expiresAt \in Nat /\ now \in Nat
  BY DEF TypeOK, SessionsTypeOK, Session, PendingRequest
<1>3. now <= ticket'[r].expiresAt
  BY <1>1, <1>2 DEF StartVerify, Expired
<1> QED
  BY <1>3 DEF StartVerify, Goto, TypeOK, SessionsTypeOK, CeremonyTypeOK, Punctual, InFlight

(* Every other step of a request at work goes to some other phase.         *)
LEMMA MoveIsPunctual ==
  ASSUME TypeOK, NEW r \in Req, NEW p, p # "verifying", InFlight(r), Goto(r, p),
         UNCHANGED <<since, now>>,
         UNCHANGED ticket \/ \E t : ticket' = [ticket EXCEPT ![r] = t]
  PROVE  Punctual(r)
BY DEF Goto, TypeOK, SessionsTypeOK, CeremonyTypeOK, Punctual

LEMMA StepIsPunctual ==
  ASSUME TypeOK, NEW r \in Req, RequestStep(r)
  PROVE  Punctual(r)
<1>0. UNCHANGED now
  BY DEF RequestStep
<1>1. CASE Arrive(r)
  BY <1>0, <1>1 DEF Arrive, Resume, Visit, Goto, TypeOK, SessionsTypeOK, Punctual
<1>2. CASE Route(r)
  <2>1. CASE \E p \in Presentation : StartVerify(r, p)
    BY <1>0, <2>1, StartIsPunctual
  <2>2. CASE \E n \in Nonce, a \in Age : Mint(r, n, a)
    BY <1>0, <2>2, MoveIsPunctual DEF Mint, InFlight
  <2>3. CASE \E a \in Age : /\ Admit(r, a) \/ Claim(r, a)
                            /\ UNCHANGED ceremonyVars
    BY <1>0, <2>3, MoveIsPunctual DEF Admit, Claim, InFlight
  <2>4. CASE \/ \E answer \in {"done", "failed"}, data \in App :
                  AppRequest(r, answer, data) /\ UNCHANGED ceremonyVars
             \/ \E a \in Age : (DenyUnproven(r, a) \/ DenyClaimed(r, a)) /\ UNCHANGED ceremonyVars
    BY <1>0, <2>4, MoveIsPunctual
       DEF AppRequest, DenyUnproven, DenyClaimed, Deny, Respond, InFlight
  <2>5. CASE RejectMinAge(r) \/ RejectUnchallenged(r) \/ RejectExpired(r) \/ RejectBody(r)
    BY <1>0, <2>5, MoveIsPunctual
       DEF RejectMinAge, RejectUnchallenged, RejectExpired, RejectBody, RespondCeremony,
           Respond, InFlight
  <2> QED
    BY <1>2, <2>1, <2>2, <2>3, <2>4, <2>5 DEF Route
<1>3. CASE Proceed(r)
  <2>1. CASE \E answer \in {"done", "failed"}, data \in App :
               ActionResponds(r, answer, data) /\ UNCHANGED ceremonyVars
    BY <1>0, <2>1, MoveIsPunctual DEF ActionResponds, Respond, InFlight
  <2>2. CASE AwaitGoogle(r)
    BY <1>0, <2>2, MoveIsPunctual DEF AwaitGoogle, InFlight
  <2>3. CASE IssueUnsigned(r) \/ IssueWithGoogle(r) \/ VerifyThrows(r) \/ VerifyRejects(r)
    BY <1>0, <2>3, MoveIsPunctual
       DEF IssueUnsigned, IssueWithGoogle, Issue, VerifyThrows, VerifyRejects,
           RespondCeremony, Respond, InFlight
  <2>4. CASE \E s \in Sid : VerifyLosesSession(r, s) \/ \E p \in Proof : VerifyAccepts(r, s, p)
    BY <1>0, <2>4, MoveIsPunctual
       DEF VerifyLosesSession, VerifyAccepts, Accepted, Grant, Regenerate, InFlight
  <2>5. CASE Send(r) /\ UNCHANGED <<gateVars, ceremonyVars>>
    BY <1>0, <2>5, MoveIsPunctual DEF Send, InFlight
  <2>6. CASE BuildRejects(r)
    BY <1>0, <2>6
       DEF BuildRejects, End, Goto, TypeOK, SessionsTypeOK, CeremonyTypeOK, Punctual
  <2> QED
    BY <1>3, <2>1, <2>2, <2>3, <2>4, <2>5, <2>6 DEF Proceed
<1>4. CASE Settle(r) \/ GoAway(r)
  <2>1. Close(r) /\ UNCHANGED ticket
    BY <1>4 DEF Settle, Finish, FinishSpend, FinishRelease, CloseGate, GoAway, Disconnect
  <2> QED
    BY <1>0, <2>1 DEF Close, End, Goto, TypeOK, SessionsTypeOK, Punctual
<1>5. CASE StopWaiting(r)
  BY <1>0, <1>5 DEF StopWaiting, HangUp, Goto, ceremonyVars, TypeOK, SessionsTypeOK, Punctual
<1> QED
  BY <1>1, <1>2, <1>3, <1>4, <1>5 DEF RequestStep

LEMMA NextKeepsTime ==
  ASSUME TypeOK, \A q \in Req : InTime(q), [Next]_vars
  PROVE  \A q \in Req : InTime(q)'
<1>1. CASE \E r \in Req : RequestStep(r)
  BY <1>1, StepIsPunctual, PunctualKeepsTime, NextType
<1>2. CASE Tick
  BY <1>2, MiddlewareAssumption DEF Tick, InTime, Timely, InFlight, TypeOK, SessionsTypeOK
<1>3. CASE Restart
  BY <1>3 DEF Restart, InTime, Timely, InFlight
<1>4. CASE UNCHANGED vars
  BY <1>4 DEF vars, InTime, Timely, InFlight
<1> QED
  BY <1>1, <1>2, <1>3, <1>4 DEF Next

(* Whatever else answers, answers something else than "verified".          *)
LEMMA OthersDoNotVerify ==
  ASSUME TypeOK, NEW r \in Req, NEW q \in Req, Verifies(r),
         \/ UNCHANGED reply
         \/ \E answer : answer # "verified" /\ reply' = [reply EXCEPT ![q] = answer]
  PROVE  FALSE
BY DEF Verifies, TypeOK, SessionsTypeOK

LEMMA OnlyVerifyingVerifies ==
  ASSUME TypeOK, [Next]_vars, NEW r \in Req, Verifies(r)
  PROVE  phase[r] = "verifying"
<1>1. PICK q \in Req : RequestStep(q)
  BY DEF Next, Tick, Restart, vars, Verifies
<1>2. CASE Arrive(q) \/ Settle(q) \/ GoAway(q) \/ StopWaiting(q)
  BY <1>2, OthersDoNotVerify
     DEF Arrive, Resume, Visit, Settle, Finish, FinishSpend, FinishRelease, GoAway, Disconnect,
         CloseGate, Close, End, StopWaiting, HangUp
<1>3. CASE Route(q)
  BY <1>3, OthersDoNotVerify
     DEF Route, AppRequest, DenyUnproven, DenyClaimed, Deny, Admit, Claim, Mint, StartVerify,
         RejectMinAge, RejectUnchallenged, RejectExpired, RejectBody, RespondCeremony, Respond
<1>4. CASE Proceed(q)
  <2>1. CASE \E s \in Sid, p \in Proof : VerifyAccepts(q, s, p)
    BY <2>1 DEF VerifyAccepts, Grant, Accepted, Verifies, TypeOK, SessionsTypeOK
  <2>2. CASE VerifyRejects(q)
    BY <2>2, OthersDoNotVerify DEF VerifyRejects, RespondCeremony, Respond
  <2>3. CASE ~ VerifyRejects(q) /\ \A s \in Sid, p \in Proof : ~ VerifyAccepts(q, s, p)
    BY <1>4, <2>3, OthersDoNotVerify
       DEF Proceed, ActionResponds, AwaitGoogle, IssueUnsigned, IssueWithGoogle, Issue,
           BuildRejects, End, VerifyThrows, RespondCeremony, Respond, VerifyLosesSession, Send
  <2> QED
    BY <2>1, <2>2, <2>3
<1> QED
  BY <1>1, <1>2, <1>3, <1>4 DEF RequestStep

(* A proof is granted only to a request that came while its challenge was  *)
(* alive, and so no later than the longest request after it expired        *)
(* (pavel.ts:112, where expiry is read before the verifier is awaited).    *)
THEOREM GrantsInTime == Spec => GrantedInTime
<1> DEFINE Punctually ==
      \A r \in Req : Verifies(r) => /\ since[r] <= ticket[r].expiresAt
                                    /\ now <= ticket[r].expiresAt + RequestLimit
<1>1. Init => \A r \in Req : InTime(r)
  BY DEF Init, SessionsInit, InTime, Timely, InFlight
<1>2. TypeOK /\ (\A r \in Req : InTime(r)) /\ [Next]_vars => Punctually
  <2> SUFFICES ASSUME TypeOK, \A q \in Req : InTime(q), [Next]_vars, NEW r \in Req, Verifies(r)
               PROVE  /\ since[r] <= ticket[r].expiresAt
                      /\ now <= ticket[r].expiresAt + RequestLimit
    OBVIOUS
  <2>1. phase[r] = "verifying"
    BY OnlyVerifyingVerifies
  <2>2. since[r] <= ticket[r].expiresAt /\ now <= since[r] + RequestLimit
    BY <2>1 DEF InTime, Timely, InFlight
  <2>3. /\ since[r] \in Nat /\ now \in Nat /\ ticket[r].expiresAt \in Nat
        /\ RequestLimit \in Nat
    BY MiddlewareAssumption DEF TypeOK, SessionsTypeOK, CeremonyTypeOK, PendingRequest
  <2> QED
    BY <2>2, <2>3
<1>3. TypeOK /\ (\A r \in Req : InTime(r)) /\ [Next]_vars
        => [Punctually]_vars /\ (\A r \in Req : InTime(r))'
  BY <1>2, NextKeepsTime
<1> QED
  BY <1>1, <1>3, TypeCorrect, PTL DEF Spec, GrantedInTime
=============================================================================
