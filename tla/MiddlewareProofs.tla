-------------------------- MODULE MiddlewareProofs --------------------------
(***************************************************************************)
(* Proofs about Middleware, for every set of requests, session ids,        *)
(* challenges, proofs and cards, and every value of the time limits.       *)
(***************************************************************************)
EXTENDS Middleware, TLAPS

USE DEF sessionVars, gateVars, ceremonyVars

(* Put and Without keep a partial function's keys and values where they    *)
(* belong.                                                                 *)
LEMMA PutType ==
  ASSUME NEW K, NEW V, NEW f, NEW k \in K, NEW v \in V,
         DOMAIN f \subseteq K, \A x \in DOMAIN f : f[x] \in V
  PROVE  /\ DOMAIN Put(f, k, v) \subseteq K
         /\ \A x \in DOMAIN Put(f, k, v) : Put(f, k, v)[x] \in V
BY DEF Put

LEMMA WithoutType ==
  ASSUME NEW K, NEW V, NEW f, NEW k,
         DOMAIN f \subseteq K, \A x \in DOMAIN f : f[x] \in V
  PROVE  /\ DOMAIN Without(f, k) \subseteq K
         /\ \A x \in DOMAIN Without(f, k) : Without(f, k)[x] \in V
BY DEF Without, Restrict

LEMMA EmptyTypes ==
  Unverified \in PavelSessionState /\ NoPending \in PendingRequest /\ EmptySession \in Session
BY SessionsAssumption DEF Unverified, NoPending, EmptySession, PavelSessionState,
                          PendingRequest, Session

LEMMA InitType == Init => TypeOK
<1> SUFFICES ASSUME Init PROVE TypeOK
  OBVIOUS
<1>1. SessionsTypeOK
  <2>1. DOMAIN store \subseteq Sid /\ \A s \in DOMAIN store : store[s] \in Session
    BY DEF Init, SessionsInit
  <2>2. phase \in [Req -> Phases]
    BY DEF Init, SessionsInit, Phases
  <2>3. session \in [Req -> Session]
    BY EmptyTypes DEF Init, SessionsInit
  <2>4. reply \in [Req -> Replies]
    BY DEF Init, SessionsInit, Replies
  <2>5. \A r \in Req : ~ InFlight(r)
    BY DEF Init, SessionsInit, InFlight
  <2> QED
    BY <2>1, <2>2, <2>3, <2>4, <2>5 DEF Init, SessionsInit, SessionsTypeOK
<1>2. GateTypeOK
  BY DEF Init, GateInit, GateTypeOK
<1>3. CeremonyTypeOK
  BY EmptyTypes DEF Init, CeremonyInit, CeremonyTypeOK
<1> QED
  BY <1>1, <1>2, <1>3 DEF Init, TypeOK

(* The steps the handlers share keep the session variables in their types. *)
LEMMA GotoType ==
  ASSUME SessionsTypeOK, NEW r \in Req, NEW p \in Phases, Goto(r, p)
  PROVE  phase' \in [Req -> Phases]
BY DEF SessionsTypeOK, Goto

LEMMA WriteType ==
  ASSUME SessionsTypeOK, NEW r \in Req, NEW s \in Session, Write(r, s)
  PROVE  session' \in [Req -> Session] /\ dirty' \in [Req -> BOOLEAN]
BY DEF SessionsTypeOK, Write

LEMMA RespondType ==
  ASSUME SessionsTypeOK, NEW r \in Req, NEW s \in Session, NEW answer \in Replies,
         InFlight(r), Respond(r, s, answer), UNCHANGED now
  PROVE  SessionsTypeOK'
<1>1. phase' \in [Req -> Phases]
  BY GotoType DEF Respond, Phases
<1>2. session' \in [Req -> Session] /\ dirty' \in [Req -> BOOLEAN]
  BY WriteType DEF Respond
<1>3. \A q \in Req : InFlight(q)' => sid'[q] \in Sid
  BY DEF Respond, Goto, InFlight, SessionsTypeOK
<1> QED
  BY <1>1, <1>2, <1>3 DEF Respond, SessionsTypeOK

LEMMA MoveType ==
  ASSUME SessionsTypeOK, NEW r \in Req, NEW p \in Phases, InFlight(r), Goto(r, p),
         UNCHANGED <<store, issued, sid, session, dirty, reply, since, now>>
  PROVE  SessionsTypeOK'
<1>1. \A q \in Req : InFlight(q)' => sid'[q] \in Sid
  BY DEF Goto, InFlight, SessionsTypeOK
<1> QED
  BY <1>1, GotoType DEF SessionsTypeOK

LEMMA EndType ==
  ASSUME SessionsTypeOK, NEW r \in Req, NEW p \in {"idle", "unanswered"}, End(r, p),
         UNCHANGED now,
         DOMAIN store' \subseteq Sid /\ \A s \in DOMAIN store' : store'[s] \in Session
  PROVE  SessionsTypeOK'
<1>1. phase' \in [Req -> Phases]
  BY GotoType DEF End, Phases
<1>2. reply' \in [Req -> Replies]
  BY DEF End, SessionsTypeOK, Replies
<1>3. \A q \in Req : InFlight(q)' => sid'[q] \in Sid
  BY DEF End, Goto, InFlight, SessionsTypeOK
<1> QED
  BY <1>1, <1>2, <1>3, EmptyTypes DEF End, SessionsTypeOK

LEMMA EditType ==
  ASSUME NEW s \in Session
  PROVE  /\ \A data \in App : [s EXCEPT !.app = data] \in Session
         /\ \A t \in PendingRequest : [s EXCEPT !.pending = t] \in Session
         /\ [s EXCEPT !.pavel = Unverified] \in Session
BY EmptyTypes DEF Session

LEMMA OutcomeType ==
  ASSUME NEW p, NEW t
  PROVE  VerificationOutcome(p, t) \in Core!Outcomes
BY DEF VerificationOutcome, Core!VerificationOutcome, Core!OutcomeFor, Core!Outcomes

---------------------------------------------------------------------------
(* Type correctness, one group of actions at a time.                       *)

LEMMA ArriveType ==
  ASSUME TypeOK, NEW r \in Req, Arrive(r), UNCHANGED <<now, restarts>>
  PROVE  TypeOK'
<1>1. GateTypeOK' /\ CeremonyTypeOK' /\ restarts' \in Nat
  BY DEF TypeOK, Arrive, GateTypeOK, CeremonyTypeOK
<1>2. PICK s \in Sid : Resume(r, s) \/ Visit(r, s)
  BY DEF Arrive
<1>3. phase' \in [Req -> Phases]
  BY <1>2, GotoType DEF TypeOK, Resume, Visit, Phases
<1>4. \A q \in Req : InFlight(q)' => sid'[q] \in Sid
  BY <1>2 DEF TypeOK, SessionsTypeOK, Resume, Visit, Generate, Goto, InFlight
<1>5. SessionsTypeOK'
  <2>1. CASE Resume(r, s)
    BY <1>3, <1>4, <2>1 DEF TypeOK, SessionsTypeOK, Resume
  <2>2. CASE Visit(r, s)
    BY <1>3, <1>4, <2>2, EmptyTypes, SessionsAssumption
       DEF TypeOK, SessionsTypeOK, Visit, Generate
  <2> QED
    BY <1>2, <2>1, <2>2
<1> QED
  BY <1>1, <1>5 DEF TypeOK

LEMMA PrunedType ==
  ASSUME TypeOK
  PROVE  /\ DOMAIN Pruned \subseteq DOMAIN claimedProofs
         /\ \A p \in DOMAIN Pruned : Pruned[p] = claimedProofs[p] /\ Pruned[p] \in Nat
BY DEF TypeOK, GateTypeOK, Pruned, Restrict

LEMMA GateStepType ==
  ASSUME TypeOK, NEW r \in Req, NEW a \in Age, UNCHANGED <<ceremonyVars, now, restarts>>,
         DenyUnproven(r, a) \/ Admit(r, a) \/ DenyClaimed(r, a) \/ Claim(r, a)
  PROVE  TypeOK'
<1>1. CeremonyTypeOK' /\ restarts' \in Nat
  BY DEF TypeOK, CeremonyTypeOK
<1>2. session[r] \in Session
  BY DEF TypeOK, SessionsTypeOK
<1>3. SessionsTypeOK'
  <2>0. InFlight(r)
    BY DEF InFlight, DenyUnproven, Admit, DenyClaimed, Claim
  <2>1. CASE Deny(r)
    BY <1>2, <2>0, <2>1, RespondType DEF Deny, Replies, TypeOK
  <2>2. CASE Goto(r, "acting") /\ UNCHANGED <<store, issued, sid, session, dirty, reply, since>>
    BY <2>0, <2>2, MoveType DEF TypeOK, Phases
  <2> QED
    BY <2>1, <2>2 DEF DenyUnproven, Admit, DenyClaimed, Claim
<1>4. GateTypeOK'
  <2>1. CASE UNCHANGED gateVars
    BY <2>1 DEF TypeOK, GateTypeOK
  <2>2. CASE DenyClaimed(r, a)
    BY <2>2, PrunedType DEF TypeOK, GateTypeOK, DenyClaimed
  <2>3. CASE Claim(r, a)
    <3>1. ProofOf(r) \in Proof
      BY <1>2, <2>3 DEF Claim, Satisfied, ProofOf, Session, PavelSessionState
    <3>2. now \in Nat
      BY DEF TypeOK, SessionsTypeOK
    <3>3. /\ DOMAIN claimedProofs' \subseteq Proof
          /\ \A p \in DOMAIN claimedProofs' : claimedProofs'[p] \in Nat
      BY <2>3, <3>1, <3>2, PrunedType, PutType DEF TypeOK, GateTypeOK, Claim, Put
    <3> QED
      BY <2>3, <3>1, <3>2, <3>3 DEF TypeOK, GateTypeOK, Claim
  <2> QED
    BY <2>1, <2>2, <2>3 DEF DenyUnproven, Admit
<1> QED
  BY <1>1, <1>3, <1>4 DEF TypeOK

LEMMA ActionType ==
  ASSUME TypeOK, NEW r \in Req, NEW answer \in {"done", "failed"}, NEW data \in App,
         ActionResponds(r, answer, data), UNCHANGED <<ceremonyVars, now, restarts>>
  PROVE  TypeOK'
<1>1. CeremonyTypeOK' /\ restarts' \in Nat
  BY DEF TypeOK, CeremonyTypeOK
<1>2. SessionsTypeOK'
  <2>1. [session[r] EXCEPT !.app = data] \in Session
    BY EditType DEF TypeOK, SessionsTypeOK
  <2> QED
    BY <2>1, RespondType DEF ActionResponds, Replies, TypeOK, InFlight
<1>3. GateTypeOK'
  <2>1. CASE UNCHANGED spentAt
    BY <2>1 DEF TypeOK, GateTypeOK, ActionResponds
  <2>2. CASE held[r] # NoProof /\ spentAt' = Put(spentAt, held[r], heldAt[r])
    <3>1. held[r] \in Proof /\ heldAt[r] \in Nat
      BY <2>2 DEF TypeOK, GateTypeOK
    <3>2. /\ DOMAIN spentAt' \subseteq Proof
          /\ \A p \in DOMAIN spentAt' : spentAt'[p] \in Nat
      BY <2>2, <3>1 DEF TypeOK, GateTypeOK, Put
    <3> QED
      BY <3>2 DEF TypeOK, GateTypeOK, ActionResponds
  <2> QED
    BY <2>1, <2>2 DEF ActionResponds
<1> QED
  BY <1>1, <1>2, <1>3 DEF TypeOK

LEMMA CloseGateType ==
  ASSUME TypeOK, NEW r \in Req, CloseGate(r), UNCHANGED <<ceremonyVars, now, restarts>>,
         DOMAIN store' \subseteq Sid /\ \A s \in DOMAIN store' : store'[s] \in Session,
         /\ DOMAIN claimedProofs' \subseteq Proof
         /\ \A p \in DOMAIN claimedProofs' : claimedProofs'[p] \in Nat
  PROVE  TypeOK'
<1>1. CeremonyTypeOK' /\ restarts' \in Nat
  BY DEF TypeOK, CeremonyTypeOK
<1>2. SessionsTypeOK'
  BY EndType DEF CloseGate, Close, TypeOK
<1>3. GateTypeOK'
  BY DEF TypeOK, GateTypeOK, CloseGate
<1> QED
  BY <1>1, <1>2, <1>3 DEF TypeOK

LEMMA SettleType ==
  ASSUME TypeOK, NEW r \in Req, Settle(r) \/ GoAway(r), UNCHANGED <<now, restarts>>
  PROVE  TypeOK'
<1>1. CASE FinishSpend(r) /\ UNCHANGED ceremonyVars
  <2>1. sid[r] \in Sid /\ [session[r] EXCEPT !.pavel = Unverified] \in Session
    BY <1>1, EditType DEF TypeOK, SessionsTypeOK, FinishSpend, InFlight
  <2>2. DOMAIN store' \subseteq Sid /\ \A s \in DOMAIN store' : store'[s] \in Session
    BY <1>1, <2>1 DEF FinishSpend, Save, Put, TypeOK, SessionsTypeOK
  <2> QED
    BY <1>1, <2>2, CloseGateType DEF FinishSpend, TypeOK, GateTypeOK
<1>2. CASE FinishRelease(r) /\ UNCHANGED ceremonyVars
  <2>1. /\ DOMAIN claimedProofs' \subseteq Proof
        /\ \A p \in DOMAIN claimedProofs' : claimedProofs'[p] \in Nat
    BY <1>2 DEF FinishRelease, Without, Restrict, TypeOK, GateTypeOK
  <2> QED
    BY <1>2, <2>1, CloseGateType DEF FinishRelease, TypeOK, SessionsTypeOK
<1>3. CASE (Finish(r) \/ Disconnect(r)) /\ UNCHANGED ceremonyVars
  BY <1>3, CloseGateType DEF Finish, Disconnect, TypeOK, SessionsTypeOK, GateTypeOK
<1> QED
  BY <1>1, <1>2, <1>3 DEF Settle, GoAway

LEMMA RespondCeremonyType ==
  ASSUME TypeOK, NEW r \in Req, NEW s \in Session, NEW answer \in Replies, InFlight(r),
         RespondCeremony(r, s, answer), UNCHANGED <<minted, gateVars, now, restarts>>
  PROVE  TypeOK'
<1>1. SessionsTypeOK'
  BY RespondType DEF RespondCeremony, TypeOK
<1>2. CeremonyTypeOK'
  BY EmptyTypes DEF RespondCeremony, TypeOK, CeremonyTypeOK
<1>3. GateTypeOK' /\ restarts' \in Nat
  BY DEF TypeOK, GateTypeOK
<1> QED
  BY <1>1, <1>2, <1>3 DEF TypeOK

LEMMA ConsumedType ==
  ASSUME TypeOK, NEW r \in Req
  PROVE  session[r] \in Session /\ Consumed(r) \in Session
BY EditType, EmptyTypes DEF TypeOK, SessionsTypeOK, Consumed

LEMMA RejectType ==
  ASSUME TypeOK, NEW r \in Req, UNCHANGED <<gateVars, now, restarts>>,
         \/ RejectMinAge(r) \/ RejectUnchallenged(r) \/ RejectExpired(r) \/ RejectBody(r)
         \/ VerifyThrows(r) \/ VerifyRejects(r)
  PROVE  TypeOK'
<1>1. InFlight(r)
  BY DEF RejectMinAge, RejectUnchallenged, RejectExpired, RejectBody, VerifyThrows,
         VerifyRejects, InFlight
<1>2. CASE VerifyRejects(r)
  <2>1. PICK p \in shown[r] : RespondCeremony(r, Consumed(r), VerificationOutcome(p, ticket[r]))
    BY <1>2 DEF VerifyRejects
  <2>2. VerificationOutcome(p, ticket[r]) \in Replies
    BY OutcomeType DEF Core!Outcomes, Replies
  <2> QED
    BY <1>1, <1>2, <2>1, <2>2, ConsumedType, RespondCeremonyType DEF VerifyRejects
<1>3. CASE ~ VerifyRejects(r)
  BY <1>1, <1>3, ConsumedType, RespondCeremonyType
     DEF RejectMinAge, RejectUnchallenged, RejectExpired, RejectBody, VerifyThrows, Replies
<1> QED
  BY <1>2, <1>3

LEMMA MintType ==
  ASSUME TypeOK, NEW r \in Req, NEW n \in Nonce, NEW a \in Age, Mint(r, n, a),
         UNCHANGED <<gateVars, now, restarts>>
  PROVE  TypeOK'
<1>1. SessionsTypeOK'
  BY MoveType DEF Mint, TypeOK, InFlight, Phases
<1>2. GateTypeOK' /\ restarts' \in Nat
  BY DEF TypeOK, GateTypeOK
<1>3. ticket' \in [Req -> PendingRequest]
  BY DEF Mint, TypeOK, CeremonyTypeOK, PendingRequest
<1>4. [sid |-> sid[r], minAge |-> a] \in [sid: Sid \cup {NoSid}, minAge: Age]
  BY DEF TypeOK, SessionsTypeOK
<1>5. /\ DOMAIN minted' \subseteq Nonce
      /\ \A m \in DOMAIN minted' : minted'[m] \in [sid: Sid \cup {NoSid}, minAge: Age]
  BY <1>4 DEF Mint, Put, TypeOK, CeremonyTypeOK
<1> QED
  BY <1>1, <1>2, <1>3, <1>5 DEF Mint, TypeOK, CeremonyTypeOK

LEMMA IssueType ==
  ASSUME TypeOK, NEW r \in Req, AwaitGoogle(r) \/ IssueUnsigned(r) \/ IssueWithGoogle(r),
         UNCHANGED <<gateVars, now, restarts>>
  PROVE  TypeOK'
<1>1. /\ ticket[r] \in PendingRequest
      /\ [ticket[r] EXCEPT !.expiresAt = now + NonceTTL] \in PendingRequest
  BY CeremonyAssumption DEF TypeOK, CeremonyTypeOK, SessionsTypeOK, PendingRequest
<1>2. InFlight(r)
  BY DEF AwaitGoogle, IssueUnsigned, IssueWithGoogle, InFlight
<1>3. CASE AwaitGoogle(r)
  <2>1. SessionsTypeOK'
    BY <1>2, <1>3, MoveType DEF AwaitGoogle, TypeOK, Phases
  <2>2. ticket' \in [Req -> PendingRequest]
    BY <1>1, <1>3 DEF AwaitGoogle, TypeOK, CeremonyTypeOK
  <2> QED
    BY <1>3, <2>1, <2>2 DEF AwaitGoogle, TypeOK, CeremonyTypeOK, GateTypeOK
<1>4. CASE IssueUnsigned(r) \/ IssueWithGoogle(r)
  <2>1. PICK t \in PendingRequest : Issue(r, t)
    BY <1>1, <1>4 DEF IssueUnsigned, IssueWithGoogle
  <2>2. [session[r] EXCEPT !.pending = t] \in Session
    BY EditType DEF TypeOK, SessionsTypeOK
  <2> QED
    BY <1>2, <2>1, <2>2, RespondCeremonyType DEF Issue, Replies
<1> QED
  BY <1>3, <1>4

LEMMA UnansweredType ==
  ASSUME TypeOK, NEW r \in Req, BuildRejects(r) \/ StopWaiting(r),
         UNCHANGED <<gateVars, now, restarts>>
  PROVE  TypeOK'
<1>1. GateTypeOK' /\ restarts' \in Nat
  BY DEF TypeOK, GateTypeOK
<1>2. CASE BuildRejects(r)
  <2>1. SessionsTypeOK'
    BY <1>2, EndType DEF BuildRejects, TypeOK, SessionsTypeOK
  <2>2. CeremonyTypeOK'
    BY <1>2, EmptyTypes DEF BuildRejects, TypeOK, CeremonyTypeOK
  <2> QED
    BY <1>1, <2>1, <2>2 DEF TypeOK
<1>3. CASE StopWaiting(r)
  <2>1. phase' \in [Req -> Phases]
    BY <1>3, GotoType DEF StopWaiting, HangUp, TypeOK, Phases
  <2>2. \A q \in Req : InFlight(q)' => sid'[q] \in Sid
    BY <1>3 DEF StopWaiting, HangUp, Goto, InFlight, TypeOK, SessionsTypeOK
  <2> QED
    BY <1>1, <1>3, <2>1, <2>2
       DEF StopWaiting, HangUp, TypeOK, SessionsTypeOK, CeremonyTypeOK
<1> QED
  BY <1>2, <1>3

LEMMA StartVerifyType ==
  ASSUME TypeOK, NEW r \in Req, NEW p \in Presentation, StartVerify(r, p),
         UNCHANGED <<gateVars, now, restarts>>
  PROVE  TypeOK'
<1>1. SessionsTypeOK'
  BY MoveType DEF StartVerify, TypeOK, InFlight, Phases
<1>2. session[r].pending \in PendingRequest
  BY DEF TypeOK, SessionsTypeOK, Session
<1> QED
  BY <1>1, <1>2 DEF StartVerify, TypeOK, CeremonyTypeOK, GateTypeOK

LEMMA AcceptType ==
  ASSUME TypeOK, NEW r \in Req, NEW s \in Sid, UNCHANGED <<gateVars, now, restarts>>,
         VerifyLosesSession(r, s) \/ \E p \in Proof : VerifyAccepts(r, s, p)
  PROVE  TypeOK'
<1>1. PICK data \in Session : Regenerate(r, s, data)
  <2>1. CASE VerifyLosesSession(r, s)
    BY <2>1, EmptyTypes DEF VerifyLosesSession
  <2>2. ASSUME NEW p \in Proof, VerifyAccepts(r, s, p) PROVE \E d \in Session : Regenerate(r, s, d)
    <3>1. session[r].app \in App /\ ticket[r].minAge \in Age \cup {0}
      BY DEF TypeOK, SessionsTypeOK, CeremonyTypeOK, Session, PendingRequest
    <3>2. [pavel |-> [minAge |-> ticket[r].minAge, proofId |-> p],
           pending |-> NoPending, app |-> session[r].app] \in Session
      BY <3>1, EmptyTypes DEF Session, PavelSessionState
    <3> QED
      BY <2>2, <3>2 DEF VerifyAccepts, EligibilityFact
  <2> QED
    BY <2>1, <2>2
<1>2. phase' \in [Req -> Phases]
  BY <1>1, GotoType DEF Regenerate, TypeOK, Phases
<1>3. /\ sid' \in [Req -> Sid \cup {NoSid}] /\ session' \in [Req -> Session]
      /\ dirty' \in [Req -> BOOLEAN]
  BY <1>1 DEF Regenerate, Generate, TypeOK, SessionsTypeOK
<1>4. \A q \in Req : InFlight(q)' => sid'[q] \in Sid
  BY <1>1 DEF Regenerate, Generate, Goto, InFlight, TypeOK, SessionsTypeOK
<1>5. reply' \in [Req -> Replies]
  BY DEF VerifyLosesSession, VerifyAccepts, Grant, Replies, TypeOK, SessionsTypeOK
<1>6. DOMAIN store' \subseteq Sid /\ \A t \in DOMAIN store' : store'[t] \in Session
  BY DEF VerifyLosesSession, VerifyAccepts, Without, Restrict, TypeOK, SessionsTypeOK
<1>7. SessionsTypeOK'
  BY <1>2, <1>3, <1>4, <1>5, <1>6
     DEF VerifyLosesSession, VerifyAccepts, Grant, TypeOK, SessionsTypeOK
<1>8. ticket' \in [Req -> PendingRequest] /\ shown' \in [Req -> SUBSET Presentation]
  BY <1>1, EmptyTypes DEF Regenerate, TypeOK, CeremonyTypeOK
<1>9. /\ DOMAIN granted' \subseteq Proof
      /\ \A p \in DOMAIN granted' :
           granted'[p] \in [sid: Sid, from: Sid \cup {NoSid}, challenge: PendingRequest,
                            shown: SUBSET Presentation]
  <2>1. CASE UNCHANGED granted
    BY <2>1 DEF TypeOK, CeremonyTypeOK
  <2>2. ASSUME NEW p \in Proof, VerifyAccepts(r, s, p) PROVE <1>9
    <3>1. [sid |-> s, from |-> sid[r], challenge |-> ticket[r], shown |-> shown[r]]
            \in [sid: Sid, from: Sid \cup {NoSid}, challenge: PendingRequest,
                 shown: SUBSET Presentation]
      BY DEF TypeOK, SessionsTypeOK, CeremonyTypeOK
    <3> QED
      BY <2>2, <3>1 DEF VerifyAccepts, Grant, Put, TypeOK, CeremonyTypeOK
  <2> QED
    BY <2>1, <2>2 DEF VerifyLosesSession
<1>10. CeremonyTypeOK'
  BY <1>8, <1>9 DEF VerifyLosesSession, VerifyAccepts, Grant, TypeOK, CeremonyTypeOK
<1> QED
  BY <1>7, <1>10 DEF TypeOK, GateTypeOK

LEMMA SendType ==
  ASSUME TypeOK, NEW r \in Req, Send(r), UNCHANGED <<gateVars, ceremonyVars, now, restarts>>
  PROVE  TypeOK'
<1>1. sid[r] \in Sid /\ session[r] \in Session
  BY DEF TypeOK, SessionsTypeOK, Send, InFlight
<1>2. /\ issued' \subseteq Sid
      /\ DOMAIN store' \subseteq Sid /\ \A s \in DOMAIN store' : store'[s] \in Session
  BY <1>1 DEF Send, Save, Put, TypeOK, SessionsTypeOK
<1>3. phase' \in [Req -> Phases]
  BY GotoType DEF Send, TypeOK, Phases
<1>4. \A q \in Req : InFlight(q)' => sid'[q] \in Sid
  BY <1>1 DEF Send, Goto, InFlight, TypeOK, SessionsTypeOK
<1> QED
  BY <1>2, <1>3, <1>4 DEF Send, TypeOK, SessionsTypeOK, GateTypeOK, CeremonyTypeOK

LEMMA AppType ==
  ASSUME TypeOK, NEW r \in Req, NEW answer \in {"done", "failed"}, NEW data \in App,
         AppRequest(r, answer, data),
         UNCHANGED <<gateVars, ceremonyVars, now, restarts>>
  PROVE  TypeOK'
<1>1. [session[r] EXCEPT !.app = data] \in Session
  BY EditType DEF TypeOK, SessionsTypeOK
<1>2. SessionsTypeOK'
  BY <1>1, RespondType DEF AppRequest, Replies, TypeOK, InFlight
<1> QED
  BY <1>2 DEF TypeOK, GateTypeOK, CeremonyTypeOK

LEMMA RestartType == TypeOK /\ Restart => TypeOK'
<1> SUFFICES ASSUME TypeOK, Restart PROVE TypeOK'
  OBVIOUS
<1>1. phase' \in [Req -> Phases] /\ reply' \in [Req -> Replies]
  BY DEF Restart, Phases, Replies
<1>2. \A q \in Req : ~ InFlight(q)'
  BY DEF Restart, InFlight
<1>3. SessionsTypeOK'
  BY <1>1, <1>2, EmptyTypes DEF Restart, TypeOK, SessionsTypeOK
<1>4. GateTypeOK'
  BY DEF Restart, TypeOK, GateTypeOK
<1>5. CeremonyTypeOK'
  BY EmptyTypes DEF Restart, TypeOK, CeremonyTypeOK
<1> QED
  BY <1>3, <1>4, <1>5 DEF Restart, TypeOK

LEMMA TickType == TypeOK /\ Tick => TypeOK'
BY DEF Tick, TypeOK, SessionsTypeOK, GateTypeOK, CeremonyTypeOK, InFlight

LEMMA NextType == TypeOK /\ [Next]_vars => TypeOK'
<1> SUFFICES ASSUME TypeOK, [Next]_vars PROVE TypeOK'
  OBVIOUS
<1>1. CASE Tick
  BY <1>1, TickType
<1>2. CASE Restart
  BY <1>2, RestartType
<1>3. ASSUME NEW r \in Req, RequestStep(r) PROVE TypeOK'
  <2>1. CASE Arrive(r)
    BY <1>3, <2>1, ArriveType DEF RequestStep
  <2>2. CASE Route(r)
    BY <1>3, <2>2, AppType, GateStepType, MintType, StartVerifyType, RejectType
       DEF RequestStep, Route
  <2>3. CASE Proceed(r)
    BY <1>3, <2>3, ActionType, IssueType, UnansweredType, RejectType, AcceptType, SendType
       DEF RequestStep, Proceed
  <2>4. CASE Settle(r) \/ GoAway(r)
    BY <1>3, <2>4, SettleType DEF RequestStep
  <2>5. CASE StopWaiting(r)
    BY <1>3, <2>5, UnansweredType DEF RequestStep, StopWaiting
  <2> QED
    BY <1>3, <2>1, <2>2, <2>3, <2>4, <2>5 DEF RequestStep
<1>4. CASE UNCHANGED vars
  BY <1>4 DEF vars, TypeOK, SessionsTypeOK, GateTypeOK, CeremonyTypeOK, InFlight
<1> QED
  BY <1>1, <1>2, <1>3, <1>4 DEF Next

(* Type correctness: sessions, the store, the claim map and every          *)
(* request's snapshots keep their shape, and a request in flight always    *)
(* works under a session id.                                               *)
THEOREM TypeCorrect == Spec => []TypeOK
<1> QED
  BY InitType, NextType, PTL DEF Spec

---------------------------------------------------------------------------
(* The one-shot gate.                                                      *)

(* A step of r that has nothing to do with the gate's claims.              *)
Quiet(r) ==
  /\ UNCHANGED <<claimedProofs, held, heldAt, spentAt, now>>
  /\ \A q \in Req \ {r} : /\ phase'[q] = phase[q] /\ reply'[q] = reply[q]
                          /\ since'[q] = since[q]
  /\ held[r] # NoProof => /\ phase[r] = "responding" /\ phase'[r] = "sent"
                          /\ reply'[r] = reply[r]
  /\ \/ InFlight(r) /\ since'[r] = since[r]
     \/ held[r] = NoProof /\ since'[r] = now
     \/ held[r] = NoProof /\ ~ InFlight(r)'

LEMMA QuietKeepsClaims ==
  ASSUME TypeOK, ClaimInv, NEW r \in Req, Quiet(r)
  PROVE  ClaimInv'
<1>1. ASSUME NEW q \in Req PROVE HeldClaim(q)' /\ Timely(q)'
  <2>1. CASE q = r
    BY <2>1, MiddlewareAssumption
       DEF Quiet, ClaimInv, HeldClaim, Timely, InFlight, TypeOK, SessionsTypeOK
  <2>2. CASE q # r
    BY <2>2 DEF Quiet, ClaimInv, HeldClaim, Timely, InFlight
  <2> QED
    BY <2>1, <2>2
<1>2. ASSUME NEW p \in DOMAIN spentAt' PROVE SpentClaim(p)'
  <2>1. p # NoProof
    BY SessionsAssumption DEF Quiet, TypeOK, GateTypeOK
  <2> QED
    BY <2>1 DEF Quiet, ClaimInv, SpentClaim
<1>3. ExclusiveClaim'
  BY DEF Quiet, ClaimInv, ExclusiveClaim
<1> QED
  BY <1>1, <1>2, <1>3 DEF ClaimInv

(* Whatever responds, moves on or arrives outside a one-shot gate is quiet.  *)
LEMMA RespondIsQuiet ==
  ASSUME TypeOK, ClaimInv, NEW r \in Req, NEW s, NEW answer,
         InFlight(r), phase[r] \notin {"acting", "responding", "sent"},
         Respond(r, s, answer), UNCHANGED <<gateVars, now>>
  PROVE  Quiet(r)
BY DEF TypeOK, SessionsTypeOK, ClaimInv, HeldClaim, Quiet, Respond, Goto

LEMMA MoveIsQuiet ==
  ASSUME TypeOK, ClaimInv, NEW r \in Req, NEW p,
         InFlight(r), phase[r] \notin {"acting", "responding", "sent"},
         Goto(r, p), UNCHANGED <<reply, since, gateVars, now>>
  PROVE  Quiet(r)
BY DEF TypeOK, SessionsTypeOK, ClaimInv, HeldClaim, Quiet, Goto

LEMMA ArriveIsQuiet ==
  ASSUME TypeOK, ClaimInv, NEW r \in Req, Arrive(r), UNCHANGED now
  PROVE  Quiet(r)
<1>1. PICK s \in Sid : Resume(r, s) \/ Visit(r, s)
  BY DEF Arrive
<1>2. held[r] = NoProof
  BY <1>1 DEF ClaimInv, HeldClaim, Resume, Visit
<1> QED
  BY <1>1, <1>2 DEF Arrive, TypeOK, SessionsTypeOK, Quiet, Resume, Visit, Goto

LEMMA SendIsQuiet ==
  ASSUME TypeOK, NEW r \in Req, Send(r), UNCHANGED <<gateVars, now>>
  PROVE  Quiet(r)
BY DEF Send, TypeOK, SessionsTypeOK, Quiet, Goto, InFlight

LEMMA AcceptIsQuiet ==
  ASSUME TypeOK, ClaimInv, NEW r \in Req, NEW s \in Sid, UNCHANGED <<gateVars, now>>,
         VerifyLosesSession(r, s) \/ \E p \in Proof : VerifyAccepts(r, s, p)
  PROVE  Quiet(r)
<1>1. /\ phase[r] = "verifying" /\ Goto(r, "responding") /\ UNCHANGED since
      /\ \E v : reply' = [reply EXCEPT ![r] = v]
  BY DEF VerifyLosesSession, VerifyAccepts, Grant, Accepted, Regenerate
<1> QED
  BY <1>1 DEF TypeOK, SessionsTypeOK, ClaimInv, HeldClaim, Quiet, Goto, InFlight

LEMMA RouteIsQuiet ==
  ASSUME TypeOK, ClaimInv, NEW r \in Req, Route(r), UNCHANGED <<gateVars, now>>,
         \A a \in Age : ~ Admit(r, a) /\ ~ DenyClaimed(r, a) /\ ~ Claim(r, a)
  PROVE  Quiet(r)
<1>1. phase[r] = "loaded" /\ InFlight(r)
  BY DEF Route, AppRequest, DenyUnproven, Mint, StartVerify, RejectMinAge,
         RejectUnchallenged, RejectExpired, RejectBody, InFlight
<1>2. \/ \E s, answer : Respond(r, s, answer)
      \/ \E p : Goto(r, p) /\ UNCHANGED <<reply, since>>
  BY DEF Route, AppRequest, DenyUnproven, Deny, Mint, StartVerify, RejectMinAge,
         RejectUnchallenged, RejectExpired, RejectBody, RespondCeremony
<1> QED
  BY <1>1, <1>2, RespondIsQuiet, MoveIsQuiet

LEMMA HandlerIsQuiet ==
  ASSUME TypeOK, ClaimInv, NEW r \in Req, UNCHANGED <<gateVars, now>>,
         \/ AwaitGoogle(r) \/ IssueUnsigned(r) \/ IssueWithGoogle(r)
         \/ VerifyThrows(r) \/ VerifyRejects(r)
  PROVE  Quiet(r)
<1>1. phase[r] \in {"building", "signing", "verifying"} /\ InFlight(r)
  BY DEF AwaitGoogle, IssueUnsigned, IssueWithGoogle, VerifyThrows, VerifyRejects, InFlight
<1>2. \/ \E s, answer : Respond(r, s, answer)
      \/ \E p : Goto(r, p) /\ UNCHANGED <<reply, since>>
  BY DEF AwaitGoogle, IssueUnsigned, IssueWithGoogle, Issue, VerifyThrows, VerifyRejects,
         RespondCeremony
<1> QED
  BY <1>1, <1>2, RespondIsQuiet, MoveIsQuiet

LEMMA UnansweredIsQuiet ==
  ASSUME TypeOK, ClaimInv, NEW r \in Req, UNCHANGED <<gateVars, now>>,
         BuildRejects(r) \/ StopWaiting(r)
  PROVE  Quiet(r)
<1>1. held[r] = NoProof
  BY DEF BuildRejects, StopWaiting, HangUp, ClaimInv, HeldClaim
<1>2. /\ phase'[r] \in {"idle", "unanswered"}
      /\ \A q \in Req \ {r} : phase'[q] = phase[q] /\ reply'[q] = reply[q]
                              /\ since'[q] = since[q]
  BY DEF BuildRejects, End, StopWaiting, HangUp, Goto, TypeOK, SessionsTypeOK
<1> QED
  BY <1>1, <1>2 DEF Quiet, InFlight

(* Admission by a plain gate.                                              *)
LEMMA AdmitKeepsClaims ==
  ASSUME TypeOK, ClaimInv, NEW r \in Req, NEW a \in Age, Admit(r, a), UNCHANGED now
  PROVE  ClaimInv'
<1>1. Quiet(r)
  BY MoveIsQuiet DEF Admit, InFlight
<1> QED
  BY <1>1, QuietKeepsClaims

(* Pruning lets go of no claim that a request still holds or that was      *)
(* spent within the TTL.                                                   *)
LEMMA PruningKeepsClaims ==
  ASSUME TypeOK, ClaimInv, RequestLimit <= ClaimTTL
  PROVE  /\ \A q \in Req : held[q] # NoProof =>
              held[q] \in DOMAIN Pruned /\ Pruned[held[q]] = heldAt[q]
         /\ \A p \in DOMAIN spentAt : now - spentAt[p] <= ClaimTTL =>
              p \in DOMAIN Pruned /\ Pruned[p] = spentAt[p]
<1>1. ASSUME NEW q \in Req, held[q] # NoProof
      PROVE  held[q] \in DOMAIN Pruned /\ Pruned[held[q]] = heldAt[q]
  <2>1. /\ held[q] \in DOMAIN claimedProofs /\ claimedProofs[held[q]] = heldAt[q]
        /\ since[q] <= heldAt[q] /\ InFlight(q)
    BY <1>1 DEF ClaimInv, HeldClaim, InFlight
  <2>2. now <= since[q] + RequestLimit
    BY <2>1 DEF ClaimInv, Timely
  <2>3. now - heldAt[q] <= ClaimTTL
    BY <2>1, <2>2, MiddlewareAssumption, GateAssumption DEF TypeOK, SessionsTypeOK, GateTypeOK
  <2> QED
    BY <2>1, <2>3 DEF Pruned, Restrict
<1>2. ASSUME NEW p \in DOMAIN spentAt, now - spentAt[p] <= ClaimTTL
      PROVE  p \in DOMAIN Pruned /\ Pruned[p] = spentAt[p]
  BY <1>2 DEF ClaimInv, SpentClaim, Pruned, Restrict
<1> QED
  BY <1>1, <1>2

LEMMA DenyClaimedKeepsClaims ==
  ASSUME TypeOK, ClaimInv, RequestLimit <= ClaimTTL,
         NEW r \in Req, NEW a \in Age, DenyClaimed(r, a), UNCHANGED now
  PROVE  ClaimInv'
<1>1. held[r] = NoProof
  BY DEF ClaimInv, HeldClaim, DenyClaimed
<1>2. /\ claimedProofs' = Pruned
      /\ UNCHANGED <<held, heldAt, spentAt, since>>
      /\ phase' = [phase EXCEPT ![r] = "responding"]
      /\ reply' = [reply EXCEPT ![r] = "age_verification_required"]
  BY DEF DenyClaimed, Deny, Respond, Goto
<1>3. ASSUME NEW q \in Req PROVE HeldClaim(q)' /\ Timely(q)'
  <2>1. CASE q = r
    BY <1>1, <1>2, <2>1 DEF ClaimInv, HeldClaim, Timely, InFlight, DenyClaimed
  <2>2. CASE q # r
    BY <1>2, <2>2, PruningKeepsClaims
       DEF ClaimInv, HeldClaim, Timely, InFlight, TypeOK, SessionsTypeOK
  <2> QED
    BY <2>1, <2>2
<1>4. ASSUME NEW p \in DOMAIN spentAt' PROVE SpentClaim(p)'
  <2>1. p # NoProof
    BY <1>2, SessionsAssumption DEF TypeOK, GateTypeOK
  <2> QED
    BY <1>1, <1>2, <2>1, PruningKeepsClaims DEF ClaimInv, SpentClaim, TypeOK, SessionsTypeOK
<1> QED
  BY <1>2, <1>3, <1>4 DEF ClaimInv, ExclusiveClaim

LEMMA ClaimKeepsClaims ==
  ASSUME TypeOK, ClaimInv, RequestLimit <= ClaimTTL,
         NEW r \in Req, NEW a \in Age, Claim(r, a), UNCHANGED now
  PROVE  ClaimInv'
<1> DEFINE p == ProofOf(r)
<1>1. p # NoProof /\ p \notin DOMAIN Pruned
  BY DEF Claim, Satisfied
<1>2. /\ claimedProofs' = Put(Pruned, p, now)
      /\ held' = [held EXCEPT ![r] = p] /\ heldAt' = [heldAt EXCEPT ![r] = now]
      /\ phase' = [phase EXCEPT ![r] = "acting"]
      /\ UNCHANGED <<spentAt, since, reply, now>>
  BY DEF Claim, Goto
<1>3. /\ p \in DOMAIN claimedProofs' /\ claimedProofs'[p] = now
      /\ \A x \in DOMAIN Pruned : x \in DOMAIN claimedProofs' /\ claimedProofs'[x] = Pruned[x]
  BY <1>1, <1>2 DEF Put
<1>4. \A q \in Req : held[q] # p
  BY <1>1, PruningKeepsClaims
<1>5. ASSUME NEW q \in Req PROVE HeldClaim(q)' /\ Timely(q)'
  <2>1. CASE q = r
    <3>1. Timely(r) /\ InFlight(r) /\ since[r] <= now
      BY DEF ClaimInv, Timely, InFlight, Claim
    <3>2. phase'[r] = "acting" /\ held'[r] = p /\ heldAt'[r] = now
      BY <1>2 DEF TypeOK, SessionsTypeOK, GateTypeOK
    <3> QED
      BY <1>2, <1>3, <2>1, <3>1, <3>2 DEF HeldClaim, Timely, InFlight
  <2>2. CASE q # r
    BY <1>2, <1>3, <2>2, PruningKeepsClaims
       DEF ClaimInv, HeldClaim, Timely, InFlight, TypeOK, SessionsTypeOK, GateTypeOK
  <2> QED
    BY <2>1, <2>2
<1>6. ASSUME NEW x \in DOMAIN spentAt', (now - spentAt[x] <= ClaimTTL)' PROVE
        /\ x \in DOMAIN claimedProofs' /\ claimedProofs'[x] = spentAt'[x]
        /\ \A q \in Req : held'[q] = x => phase'[q] # "acting" /\ reply'[q] = "done"
  <2>1. x \in DOMAIN Pruned /\ Pruned[x] = spentAt[x] /\ x # p
    BY <1>1, <1>2, <1>6, PruningKeepsClaims
  <2>2. \A q \in Req : held[q] = x => phase[q] # "acting" /\ reply[q] = "done"
    BY <1>2, <1>6 DEF ClaimInv, SpentClaim
  <2> QED
    BY <1>2, <1>3, <2>1, <2>2 DEF TypeOK, SessionsTypeOK, GateTypeOK
<1>7. ExclusiveClaim'
  BY <1>2, <1>4 DEF ClaimInv, ExclusiveClaim, TypeOK, GateTypeOK
<1> QED
  BY <1>5, <1>6, <1>7 DEF ClaimInv, SpentClaim

LEMMA ActionKeepsClaims ==
  ASSUME TypeOK, ClaimInv, NEW r \in Req, NEW answer \in {"done", "failed"}, NEW data \in App,
         ActionResponds(r, answer, data), UNCHANGED now
  PROVE  ClaimInv'
<1>1. /\ phase[r] = "acting" /\ InFlight(r)
      /\ phase' = [phase EXCEPT ![r] = "responding"]
      /\ reply' = [reply EXCEPT ![r] = answer]
      /\ UNCHANGED <<claimedProofs, held, heldAt, since>>
  BY DEF ActionResponds, Respond, Goto, InFlight
<1>2. /\ DOMAIN spentAt \subseteq DOMAIN spentAt'
      /\ answer = "done" /\ held[r] # NoProof => held[r] \in DOMAIN spentAt'
  BY DEF ActionResponds, Put
<1>3. ASSUME NEW q \in Req PROVE HeldClaim(q)' /\ Timely(q)'
  <2>1. CASE q = r
    BY <1>1, <1>2, <2>1 DEF ClaimInv, HeldClaim, Timely, InFlight, TypeOK, SessionsTypeOK
  <2>2. CASE q # r
    BY <1>1, <1>2, <2>2 DEF ClaimInv, HeldClaim, Timely, InFlight, TypeOK, SessionsTypeOK
  <2> QED
    BY <2>1, <2>2
<1>4. ASSUME NEW x \in DOMAIN spentAt', (now - spentAt[x] <= ClaimTTL)' PROVE
        /\ x \in DOMAIN claimedProofs' /\ claimedProofs'[x] = spentAt'[x]
        /\ \A q \in Req : held'[q] = x => phase'[q] # "acting" /\ reply'[q] = "done"
  <2>1. CASE answer = "done" /\ held[r] # NoProof /\ x = held[r]
    <3>1. spentAt'[x] = heldAt[r]
      BY <2>1 DEF ActionResponds, Put
    <3>2. x \in DOMAIN claimedProofs /\ claimedProofs[x] = heldAt[r]
      BY <2>1 DEF ClaimInv, HeldClaim
    <3>3. \A q \in Req : held[q] = x => q = r
      BY <2>1 DEF ClaimInv, ExclusiveClaim
    <3> QED
      BY <1>1, <2>1, <3>1, <3>2, <3>3 DEF TypeOK, SessionsTypeOK
  <2>2. CASE ~ (answer = "done" /\ held[r] # NoProof /\ x = held[r])
    <3>1. x \in DOMAIN spentAt /\ spentAt'[x] = spentAt[x]
      BY <2>2 DEF ActionResponds, Put
    <3>2. SpentClaim(x) /\ now - spentAt[x] <= ClaimTTL
      BY <1>4, <3>1 DEF ClaimInv
    <3>3. held[r] # x
      BY <1>1, <3>2 DEF SpentClaim
    <3> QED
      BY <1>1, <3>1, <3>2, <3>3 DEF SpentClaim, TypeOK, SessionsTypeOK
  <2> QED
    BY <2>1, <2>2
<1> QED
  BY <1>1, <1>3, <1>4 DEF ClaimInv, SpentClaim, ExclusiveClaim

(* The end of a request: it holds nothing any more.  Its claim stays, or   *)
(* is released because the action failed.                                  *)
LEMMA SettleKeepsClaims ==
  ASSUME TypeOK, ClaimInv, NEW r \in Req, Settle(r) \/ GoAway(r), UNCHANGED now
  PROVE  ClaimInv'
<1>1. /\ phase' = [phase EXCEPT ![r] = "idle"] /\ reply' = [reply EXCEPT ![r] = "none"]
      /\ held' = [held EXCEPT ![r] = NoProof] /\ heldAt' = [heldAt EXCEPT ![r] = 0]
      /\ since' = [since EXCEPT ![r] = 0] /\ UNCHANGED spentAt
  BY DEF Settle, GoAway, Finish, FinishSpend, FinishRelease, Disconnect, CloseGate, Close, End, Goto
<1>2. \/ UNCHANGED claimedProofs
      \/ /\ claimedProofs' = Without(claimedProofs, held[r])
         /\ held[r] # NoProof /\ reply[r] # "done"
  BY DEF Settle, GoAway, Finish, FinishSpend, FinishRelease, Disconnect
<1>3. \A x \in DOMAIN claimedProofs :
        x # held[r] \/ UNCHANGED claimedProofs =>
          x \in DOMAIN claimedProofs' /\ claimedProofs'[x] = claimedProofs[x]
  BY <1>2 DEF Without, Restrict
<1>4. ASSUME NEW q \in Req PROVE HeldClaim(q)' /\ Timely(q)'
  <2>1. CASE q = r
    BY <1>1, <2>1 DEF HeldClaim, Timely, InFlight, TypeOK, SessionsTypeOK, GateTypeOK
  <2>2. CASE q # r
    <3>1. /\ phase'[q] = phase[q] /\ reply'[q] = reply[q] /\ since'[q] = since[q]
          /\ held'[q] = held[q] /\ heldAt'[q] = heldAt[q]
      BY <1>1, <2>2 DEF TypeOK, SessionsTypeOK, GateTypeOK
    <3>2. held[q] # NoProof => held[q] # held[r]
      BY <2>2 DEF ClaimInv, ExclusiveClaim
    <3> QED
      BY <1>1, <1>3, <3>1, <3>2 DEF ClaimInv, HeldClaim, Timely, InFlight
  <2> QED
    BY <2>1, <2>2
<1>5. ASSUME NEW x \in DOMAIN spentAt' PROVE SpentClaim(x)'
  <2>0. x # NoProof /\ x \in DOMAIN spentAt
    BY <1>1, SessionsAssumption DEF TypeOK, GateTypeOK
  <2>1. SUFFICES ASSUME now - spentAt[x] <= ClaimTTL
        PROVE  /\ x \in DOMAIN claimedProofs' /\ claimedProofs'[x] = spentAt[x]
               /\ \A q \in Req : held'[q] = x => phase'[q] # "acting" /\ reply'[q] = "done"
    BY <1>1 DEF SpentClaim
  <2>2. /\ x \in DOMAIN claimedProofs /\ claimedProofs[x] = spentAt[x]
        /\ \A q \in Req : held[q] = x => phase[q] # "acting" /\ reply[q] = "done"
    BY <2>0, <2>1 DEF ClaimInv, SpentClaim
  <2> QED
    BY <1>1, <1>2, <1>3, <2>0, <2>2 DEF TypeOK, SessionsTypeOK, GateTypeOK
<1>6. ExclusiveClaim'
  BY <1>1 DEF ClaimInv, ExclusiveClaim, TypeOK, GateTypeOK
<1> QED
  BY <1>4, <1>5, <1>6 DEF ClaimInv

LEMMA TickKeepsClaims ==
  ASSUME TypeOK, ClaimInv, Tick
  PROVE  ClaimInv'
<1>1. \A q \in Req : HeldClaim(q)'
  BY DEF Tick, ClaimInv, HeldClaim
<1>2. \A q \in Req : Timely(q)'
  BY MiddlewareAssumption DEF Tick, ClaimInv, Timely, InFlight, TypeOK, SessionsTypeOK
<1>3. ASSUME NEW p \in DOMAIN spentAt' PROVE SpentClaim(p)'
  BY GateAssumption DEF Tick, ClaimInv, SpentClaim, TypeOK, SessionsTypeOK, GateTypeOK
<1> QED
  BY <1>1, <1>2, <1>3 DEF Tick, ClaimInv, ExclusiveClaim

LEMMA RestartKeepsClaims ==
  ASSUME Restart
  PROVE  ClaimInv'
BY DEF Restart, ClaimInv, HeldClaim, Timely, InFlight, SpentClaim, ExclusiveClaim

LEMMA InitClaims == Init => ClaimInv
BY DEF Init, SessionsInit, GateInit, ClaimInv, HeldClaim, Timely, InFlight, SpentClaim,
       ExclusiveClaim

LEMMA NextKeepsClaims ==
  ASSUME RequestLimit <= ClaimTTL, TypeOK, ClaimInv, [Next]_vars
  PROVE  ClaimInv'
<1>1. ASSUME NEW r \in Req, RequestStep(r) PROVE ClaimInv'
  <2>0. UNCHANGED now
    BY <1>1 DEF RequestStep
  <2>1. CASE Arrive(r)
    BY <2>0, <2>1, ArriveIsQuiet, QuietKeepsClaims
  <2>2. CASE Route(r)
    <3>1. ASSUME NEW a \in Age, Admit(r, a) \/ DenyClaimed(r, a) \/ Claim(r, a) PROVE ClaimInv'
      BY <2>0, <3>1, AdmitKeepsClaims, DenyClaimedKeepsClaims, ClaimKeepsClaims
    <3>2. CASE \A a \in Age : ~ Admit(r, a) /\ ~ DenyClaimed(r, a) /\ ~ Claim(r, a)
      <4>1. UNCHANGED gateVars
        BY <2>2, <3>2 DEF Route, DenyUnproven
      <4> QED
        BY <2>0, <2>2, <3>2, <4>1, RouteIsQuiet, QuietKeepsClaims
    <3> QED
      BY <3>1, <3>2
  <2>3. CASE Proceed(r)
    BY <2>0, <2>3, ActionKeepsClaims, HandlerIsQuiet, UnansweredIsQuiet, AcceptIsQuiet,
       SendIsQuiet, QuietKeepsClaims DEF Proceed
  <2>4. CASE Settle(r) \/ GoAway(r)
    BY <2>0, <2>4, SettleKeepsClaims
  <2>5. CASE StopWaiting(r)
    BY <2>0, <2>5, UnansweredIsQuiet, QuietKeepsClaims DEF StopWaiting
  <2> QED
    BY <1>1, <2>1, <2>2, <2>3, <2>4, <2>5 DEF RequestStep
<1>2. CASE UNCHANGED vars
  BY <1>2 DEF vars, ClaimInv, HeldClaim, Timely, InFlight, SpentClaim, ExclusiveClaim
<1> QED
  BY <1>1, <1>2, TickKeepsClaims, RestartKeepsClaims DEF Next

(* The claim map and the requests in flight agree, at every moment, about  *)
(* who holds what and what was spent, as long as no request outlives the   *)
(* TTL its claim has (gate.ts:15-60).                                      *)
THEOREM ClaimsConsistent ==
  ASSUME RequestLimit <= ClaimTTL
  PROVE  Spec => []ClaimInv
<1>1. ClaimInv /\ TypeOK /\ [Next]_vars => ClaimInv'
  BY NextKeepsClaims
<1> QED
  BY <1>1, InitClaims, TypeCorrect, PTL DEF Spec

(* However many requests carry the same proof, a one-shot gate has at most *)
(* one of them running on it.                                              *)
THEOREM OneShotExclusive ==
  ASSUME RequestLimit <= ClaimTTL
  PROVE  Spec => []ExclusiveClaim
<1>1. ClaimInv => ExclusiveClaim
  BY DEF ClaimInv
<1> QED
  BY <1>1, ClaimsConsistent, PTL

(* Only a claim takes a proof up.                                          *)
LEMMA ReclaimIsClaim ==
  ASSUME TypeOK, [Next]_vars, NEW p, p # NoProof, Reclaims(p)
  PROVE  \E q \in Req, a \in Age : Claim(q, a) /\ ProofOf(q) = p
<1>1. PICK r \in Req : held[r] # p /\ held'[r] = p
  BY DEF Reclaims
<1>2. ~ UNCHANGED held /\ ~ Tick /\ ~ Restart
  BY <1>1 DEF Tick, Restart
<1>3. PICK q \in Req : RequestStep(q)
  BY <1>2 DEF Next, vars
<1>4. CASE Arrive(q) \/ Proceed(q) \/ StopWaiting(q)
  BY <1>2, <1>4 DEF Arrive, Proceed, ActionResponds, StopWaiting
<1>5. CASE Settle(q) \/ GoAway(q)
  <2>1. held' = [held EXCEPT ![q] = NoProof]
    BY <1>5 DEF Settle, GoAway, Finish, FinishSpend, FinishRelease, Disconnect, CloseGate
  <2> QED
    BY <1>1, <2>1 DEF TypeOK, GateTypeOK
<1>6. CASE Route(q)
  <2>1. PICK a \in Age : Claim(q, a)
    BY <1>2, <1>6 DEF Route, DenyUnproven, Admit, DenyClaimed
  <2>2. ProofOf(q) = p
    BY <1>1, <2>1 DEF Claim, TypeOK, GateTypeOK
  <2> QED
    BY <2>1, <2>2
<1> QED
  BY <1>3, <1>4, <1>5, <1>6 DEF RequestStep

LEMMA SpentIsNotReclaimed ==
  ASSUME RequestLimit <= ClaimTTL, TypeOK, ClaimInv, [Next]_vars
  PROVE  \A p \in DOMAIN spentAt : Reclaims(p) => now - spentAt[p] > ClaimTTL
<1> SUFFICES ASSUME NEW p \in DOMAIN spentAt, Reclaims(p)
             PROVE  now - spentAt[p] > ClaimTTL
  OBVIOUS
<1>1. p # NoProof
  BY SessionsAssumption DEF TypeOK, GateTypeOK
<1>2. PICK q \in Req, a \in Age : Claim(q, a) /\ ProofOf(q) = p
  BY <1>1, ReclaimIsClaim
<1>3. p \notin DOMAIN Pruned
  BY <1>2 DEF Claim
<1>4. ~ (now - spentAt[p] <= ClaimTTL)
  BY <1>3, PruningKeepsClaims
<1> QED
  BY <1>4, GateAssumption DEF TypeOK, SessionsTypeOK, GateTypeOK

(* A proof an action succeeded with is not claimed again while its claim   *)
(* would have lasted, however stale the session a request carries          *)
(* (gate.ts:46-47).                                                        *)
THEOREM SpentStaysSpent ==
  ASSUME RequestLimit <= ClaimTTL
  PROVE  Spec => NoReuseWithinTTL
<1>1. TypeOK /\ ClaimInv /\ [Next]_vars =>
        [\A p \in DOMAIN spentAt : Reclaims(p) => now - spentAt[p] > ClaimTTL]_vars
  BY SpentIsNotReclaimed
<1> QED
  BY <1>1, TypeCorrect, ClaimsConsistent, PTL DEF Spec, NoReuseWithinTTL

(* Only these steps change who claims, holds or has spent what.            *)
LEMMA NextIsAccounted ==
  ASSUME ~ Disconnects, TypeOK, ClaimInv, ClaimAccountedFor, [Next]_vars
  PROVE  ClaimAccountedFor'
<1>1. CASE UNCHANGED <<claimedProofs, held, spentAt>>
  BY <1>1 DEF ClaimAccountedFor
<1>2. CASE Restart
  BY <1>2 DEF Restart, ClaimAccountedFor
<1>3. ASSUME NEW r \in Req, NEW a \in Age, DenyClaimed(r, a) PROVE ClaimAccountedFor'
  BY <1>3, PrunedType DEF DenyClaimed, ClaimAccountedFor
<1>4. ASSUME NEW r \in Req, NEW a \in Age, Claim(r, a) PROVE ClaimAccountedFor'
  <2>1. /\ held[r] = NoProof /\ held' = [held EXCEPT ![r] = ProofOf(r)]
        /\ DOMAIN claimedProofs' \subseteq DOMAIN claimedProofs \cup {ProofOf(r)}
        /\ UNCHANGED spentAt
    BY <1>4, PrunedType DEF Claim, Put, ClaimInv, HeldClaim
  <2>2. NoProof \notin DOMAIN claimedProofs
    BY SessionsAssumption DEF TypeOK, GateTypeOK
  <2> QED
    BY <2>1, <2>2 DEF ClaimAccountedFor, TypeOK, GateTypeOK
<1>5. ASSUME NEW r \in Req, NEW answer, NEW data, ActionResponds(r, answer, data)
      PROVE  ClaimAccountedFor'
  <2>1. DOMAIN spentAt \subseteq DOMAIN spentAt' /\ UNCHANGED <<claimedProofs, held>>
    BY <1>5 DEF ActionResponds, Put
  <2> QED
    BY <2>1 DEF ClaimAccountedFor
<1>6. ASSUME NEW r \in Req, Settle(r) PROVE ClaimAccountedFor'
  <2>1. /\ held' = [held EXCEPT ![r] = NoProof] /\ UNCHANGED spentAt
        /\ DOMAIN claimedProofs' \subseteq DOMAIN claimedProofs
    BY <1>6 DEF Settle, Finish, FinishSpend, FinishRelease, CloseGate, Without, Restrict
  <2>2. held[r] # NoProof => held[r] \in DOMAIN spentAt \/ held[r] \notin DOMAIN claimedProofs'
    <3>1. CASE FinishSpend(r)
      BY <3>1 DEF FinishSpend, ClaimInv, HeldClaim
    <3>2. CASE FinishRelease(r)
      BY <3>2 DEF FinishRelease, Without, Restrict
    <3> QED
      BY <1>6, <3>1, <3>2 DEF Settle, Finish
  <2>3. \A q \in Req : q # r => held'[q] = held[q]
    BY <2>1 DEF TypeOK, GateTypeOK
  <2>4. NoProof \notin DOMAIN claimedProofs
    BY SessionsAssumption DEF TypeOK, GateTypeOK
  <2> QED
    BY <2>1, <2>2, <2>3, <2>4 DEF ClaimAccountedFor
<1>7. ASSUME NEW r \in Req, Route(r) PROVE ClaimAccountedFor'
  BY <1>1, <1>3, <1>4, <1>7 DEF Route, DenyUnproven, Admit
<1>8. ASSUME NEW r \in Req, Arrive(r) \/ Proceed(r) \/ StopWaiting(r)
      PROVE  ClaimAccountedFor'
  BY <1>1, <1>5, <1>8 DEF Arrive, Proceed, StopWaiting
<1>9. \A r \in Req : ~ GoAway(r)
  BY DEF GoAway
<1> QED
  BY <1>1, <1>2, <1>6, <1>7, <1>8, <1>9 DEF Next, RequestStep, Tick, vars

(* While clients stay for their responses, a proof stays claimed only for  *)
(* a request in flight or for an action that succeeded (gate.ts:46-48).    *)
THEOREM ClaimsAccounted ==
  ASSUME RequestLimit <= ClaimTTL, ~ Disconnects
  PROVE  Spec => []ClaimAccountedFor
<1>1. Init => ClaimAccountedFor
  BY DEF Init, GateInit, ClaimAccountedFor
<1>2. TypeOK /\ ClaimInv /\ ClaimAccountedFor /\ [Next]_vars => ClaimAccountedFor'
  BY NextIsAccounted
<1> QED
  BY <1>1, <1>2, TypeCorrect, ClaimsConsistent, PTL DEF Spec
=============================================================================
