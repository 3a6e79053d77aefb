-------------------------- MODULE OneAtATimeProofs --------------------------
(***************************************************************************)
(* Proofs of what PAVEL promises a client that awaits each answer before   *)
(* it asks again, for every value of the constants.                        *)
(***************************************************************************)
EXTENDS BindingProofs

USE DEF sessionVars, gateVars, ceremonyVars

(* The steps of a request, by what they do to what these proofs are about. *)
Others(r) ==
  \A q \in Req \ {r} : /\ phase'[q] = phase[q] /\ sid'[q] = sid[q]
                       /\ session'[q] = session[q] /\ reply'[q] = reply[q]
                       /\ ticket'[q] = ticket[q] /\ held'[q] = held[q]
                       /\ dirty'[q] = dirty[q]

FreshId(r) == sid'[r] \notin issued /\ \A q \in Req : sid[q] # sid'[r]

Arriving(r) ==
  /\ phase[r] = "idle" /\ phase'[r] = "loaded"
  /\ UNCHANGED <<store, issued, reply, ticket, granted, held, spentAt>>
  /\ \E s \in Sid :
       /\ sid'[r] = s
       /\ \/ s \in DOMAIN store /\ session'[r] = store[s]
          \/ FreshId(r) /\ session'[r] = EmptySession

Advancing(r) ==
  /\ phase[r] \in {"loaded", "building"}
  /\ phase'[r] \in {"acting", "building", "signing", "verifying"}
  /\ UNCHANGED <<store, issued, sid, session, reply, granted, spentAt>>
  /\ \/ held'[r] = held[r]
     \/ /\ phase[r] = "loaded" /\ phase'[r] = "acting"
        /\ held'[r] = ProofOf(r) /\ ProofOf(r) # NoProof
  /\ \/ ticket'[r].nonce \in {ticket[r].nonce, session[r].pending.nonce}
     \/ ticket'[r].nonce \in Nonce \ DOMAIN minted

Answering(r) ==
  /\ phase[r] \in {"loaded", "building", "signing", "verifying"} /\ phase'[r] = "responding"
  /\ UNCHANGED <<store, issued, sid, granted, held, spentAt>>
  /\ ProofOf(r)' = ProofOf(r) /\ reply'[r] # "verified"
  /\ session'[r].pending.nonce \in {session[r].pending.nonce, ticket[r].nonce, NoNonce}
  /\ ticket'[r].nonce \in {ticket[r].nonce, NoNonce}

Acting(r) ==
  /\ phase[r] = "acting" /\ phase'[r] = "responding"
  /\ UNCHANGED <<store, issued, sid, ticket, granted, held>>
  /\ session'[r].pavel = session[r].pavel /\ session'[r].pending = session[r].pending
  /\ reply'[r] \in {"done", "failed"}
  /\ DOMAIN spentAt' = DOMAIN spentAt \cup
       {p \in {held[r]} : reply'[r] = "done" /\ p # NoProof}

Accepting(r) ==
  /\ phase[r] = "verifying" /\ phase'[r] = "responding"
  /\ UNCHANGED <<issued, held, spentAt>>
  /\ DOMAIN store' = DOMAIN store \ {sid[r]} /\ \A s \in DOMAIN store' : store'[s] = store[s]
  /\ FreshId(r) /\ dirty'[r]
  /\ session'[r].app = session[r].app /\ session'[r].pending = NoPending
  /\ ticket'[r] = NoPending
  /\ ProofOf(r)' \in Proof \ DOMAIN granted
  /\ DOMAIN granted' = DOMAIN granted \cup {ProofOf(r)'}
  /\ \A p \in DOMAIN granted : granted'[p] = granted[p]
  /\ granted'[ProofOf(r)'].challenge = ticket[r]

Losing(r) ==
  /\ phase[r] = "verifying" /\ phase'[r] = "responding"
  /\ UNCHANGED <<store, issued, granted, held, spentAt>>
  /\ FreshId(r) /\ session'[r] = EmptySession
  /\ ticket'[r] = NoPending /\ reply'[r] # "verified"

Sending(r) ==
  /\ phase[r] = "responding" /\ phase'[r] = "sent"
  /\ UNCHANGED <<sid, session, reply, ticket, granted, held, spentAt>>
  /\ issued \subseteq issued' /\ issued' \subseteq issued \cup {sid[r]}
  /\ \/ UNCHANGED store
     \/ store' = Put(store, sid[r], session[r]) /\ sid[r] \in issued'

Settling(r) ==
  /\ phase[r] = "sent" /\ phase'[r] = "idle"
  /\ UNCHANGED <<issued, ticket, granted, spentAt>>
  /\ sid'[r] = NoSid /\ session'[r] = EmptySession /\ reply'[r] = "none" /\ held'[r] = NoProof
  /\ LET spends == /\ held[r] # NoProof /\ reply[r] = "done" /\ ProofOf(r) = held[r]
                   /\ store' = Put(store, sid[r], [session[r] EXCEPT !.pavel = Unverified])
     IN  \/ spends
         \/ /\ UNCHANGED store
            /\ \/ StoreFails \/ Disconnects
               \/ held[r] = NoProof \/ reply[r] # "done" \/ ProofOf(r) # held[r]

Leaving(r) ==
  /\ UNCHANGED <<store, issued, granted, held, spentAt>>
  /\ \/ /\ phase[r] \in {"building", "signing"} /\ phase'[r] = "unanswered"
        /\ sid'[r] = NoSid /\ session'[r] = EmptySession /\ reply'[r] = "none"
        /\ ticket'[r] = NoPending
     \/ /\ phase[r] = "unanswered" /\ phase'[r] = "idle"
        /\ UNCHANGED <<sid, session, reply, ticket>>

Kinds(r) ==
  /\ Others(r)
  /\ \/ Arriving(r) \/ Advancing(r) \/ Answering(r) \/ Acting(r)
     \/ Accepting(r) \/ Losing(r) \/ Sending(r) \/ Settling(r) \/ Leaving(r)

LEMMA RespondIsAnswering ==
  ASSUME TypeOK, NEW r \in Req, NEW s, NEW answer, Respond(r, s, answer),
         phase[r] \in {"loaded", "building", "signing", "verifying"},
         s.pavel = session[r].pavel, answer # "verified",
         s.pending.nonce \in {session[r].pending.nonce, ticket[r].nonce, NoNonce},
         UNCHANGED <<granted, held, spentAt>>,
         ticket' = ticket \/ ticket' = [ticket EXCEPT ![r] = NoPending]
  PROVE  Others(r) /\ Answering(r)
<1>1. /\ session' = [session EXCEPT ![r] = s] /\ reply' = [reply EXCEPT ![r] = answer]
      /\ phase' = [phase EXCEPT ![r] = "responding"] /\ UNCHANGED <<store, issued, sid>>
      /\ \A q \in Req \ {r} : dirty'[q] = dirty[q]
  BY DEF Respond, Write, Goto, TypeOK, SessionsTypeOK
<1>2. /\ session'[r] = s /\ reply'[r] = answer /\ phase'[r] = "responding"
      /\ ticket'[r] \in {ticket[r], NoPending}
  BY <1>1 DEF TypeOK, SessionsTypeOK, CeremonyTypeOK
<1>3. Others(r)
  BY <1>1 DEF Others, TypeOK, SessionsTypeOK, CeremonyTypeOK
<1>4. ticket'[r].nonce \in {ticket[r].nonce, NoNonce} /\ ProofOf(r)' = ProofOf(r)
  BY <1>2 DEF NoPending, ProofOf
<1> QED
  BY <1>1, <1>2, <1>3, <1>4 DEF Answering

LEMMA ArriveKind ==
  ASSUME TypeOK, NEW r \in Req, Arrive(r)
  PROVE  Others(r) /\ Arriving(r)
<1>1. PICK s \in Sid : Resume(r, s) \/ Visit(r, s)
  BY DEF Arrive
<1>2. /\ sid' = [sid EXCEPT ![r] = s] /\ phase' = [phase EXCEPT ![r] = "loaded"]
      /\ UNCHANGED <<store, issued, reply, gateVars, ceremonyVars>> /\ phase[r] = "idle"
      /\ \/ s \in DOMAIN store /\ session' = [session EXCEPT ![r] = store[s]]
         \/ /\ s \notin issued /\ \A q \in Req : sid[q] # s
            /\ session' = [session EXCEPT ![r] = EmptySession]
      /\ \A q \in Req \ {r} : dirty'[q] = dirty[q]
  BY <1>1 DEF Arrive, Resume, Visit, Generate, Goto, TypeOK, SessionsTypeOK
<1> QED
  BY <1>2 DEF Others, Arriving, FreshId, TypeOK, SessionsTypeOK

LEMMA GateKind ==
  ASSUME TypeOK, NEW r \in Req, NEW a \in Age, UNCHANGED ceremonyVars,
         DenyUnproven(r, a) \/ Admit(r, a) \/ DenyClaimed(r, a) \/ Claim(r, a)
  PROVE  Kinds(r)
<1>1. phase[r] = "loaded" /\ UNCHANGED <<granted, ticket, spentAt>>
  BY DEF DenyUnproven, Admit, DenyClaimed, Claim
<1>2. CASE Deny(r) /\ UNCHANGED held
  BY <1>1, <1>2, RespondIsAnswering DEF Deny, Kinds
<1>3. CASE Admit(r, a) \/ Claim(r, a)
  <2>1. /\ phase' = [phase EXCEPT ![r] = "acting"]
        /\ UNCHANGED <<store, issued, sid, session, reply>>
        /\ \/ UNCHANGED held
           \/ held' = [held EXCEPT ![r] = ProofOf(r)] /\ ProofOf(r) # NoProof
        /\ UNCHANGED dirty
    BY <1>3 DEF Admit, Claim, Goto, Satisfied
  <2>2. /\ phase'[r] = "acting"
        /\ \/ held'[r] = held[r]
           \/ held'[r] = ProofOf(r) /\ ProofOf(r) # NoProof
    BY <2>1 DEF TypeOK, SessionsTypeOK, GateTypeOK
  <2>3. Others(r)
    BY <1>1, <2>1 DEF Others, TypeOK, SessionsTypeOK, GateTypeOK
  <2> QED
    BY <1>1, <2>1, <2>2, <2>3 DEF Advancing, Kinds
<1> QED
  BY <1>2, <1>3 DEF DenyUnproven, DenyClaimed

LEMMA AppKind ==
  ASSUME TypeOK, NEW r \in Req, NEW answer \in {"done", "failed"}, NEW data \in App,
         UNCHANGED ceremonyVars,
         \/ AppRequest(r, answer, data) /\ UNCHANGED gateVars
         \/ ActionResponds(r, answer, data)
  PROVE  Kinds(r)
<1> DEFINE s == [session[r] EXCEPT !.app = data]
<1>1. s.pavel = session[r].pavel /\ s.pending = session[r].pending
  BY DEF TypeOK, SessionsTypeOK, Session
<1>2. Respond(r, s, answer)
  BY DEF AppRequest, ActionResponds
<1> HIDE DEF s
<1>3. CASE AppRequest(r, answer, data) /\ UNCHANGED gateVars
  BY <1>1, <1>2, <1>3, RespondIsAnswering DEF AppRequest, Kinds
<1>4. CASE ActionResponds(r, answer, data)
  <2>1. /\ session' = [session EXCEPT ![r] = s] /\ reply' = [reply EXCEPT ![r] = answer]
        /\ phase' = [phase EXCEPT ![r] = "responding"]
        /\ UNCHANGED <<store, issued, sid, held>> /\ phase[r] = "acting"
        /\ \A q \in Req \ {r} : dirty'[q] = dirty[q]
    BY <1>2, <1>4 DEF Respond, Write, Goto, ActionResponds, TypeOK, SessionsTypeOK
  <2>2. /\ session'[r] = s /\ reply'[r] = answer /\ phase'[r] = "responding"
        /\ Others(r)
    BY <2>1 DEF Others, TypeOK, SessionsTypeOK
  <2>3. DOMAIN spentAt' = DOMAIN spentAt \cup
          {p \in {held[r]} : answer = "done" /\ p # NoProof}
    BY <1>4 DEF ActionResponds, Put
  <2> QED
    BY <1>1, <2>1, <2>2, <2>3 DEF Acting, Kinds
<1> QED
  BY <1>3, <1>4

LEMMA RejectKind ==
  ASSUME TypeOK, NEW r \in Req, UNCHANGED gateVars,
         \/ RejectMinAge(r) \/ RejectUnchallenged(r) \/ RejectExpired(r) \/ RejectBody(r)
         \/ VerifyThrows(r) \/ VerifyRejects(r)
  PROVE  Kinds(r)
<1>1. Consumed(r).pavel = session[r].pavel /\ Consumed(r).pending.nonce = NoNonce
  BY DEF Consumed, TypeOK, SessionsTypeOK, Session, NoPending
<1>2. phase[r] \in {"loaded", "verifying"}
  BY DEF RejectMinAge, RejectUnchallenged, RejectExpired, RejectBody, VerifyThrows, VerifyRejects
<1>3. PICK s, answer : /\ s \in {session[r], Consumed(r)}
                     /\ RespondCeremony(r, s, answer) /\ answer # "verified"
  BY DEF RejectMinAge, RejectUnchallenged, RejectExpired, RejectBody, VerifyThrows, VerifyRejects
<1>4. s.pavel = session[r].pavel /\ s.pending.nonce \in {session[r].pending.nonce, NoNonce}
  BY <1>1, <1>3
<1> QED
  BY <1>2, <1>3, <1>4, RespondIsAnswering DEF RespondCeremony, Kinds

LEMMA IssueKind ==
  ASSUME TypeOK, NEW r \in Req, UNCHANGED gateVars, IssueUnsigned(r) \/ IssueWithGoogle(r)
  PROVE  Kinds(r)
<1>1. PICK t : Issue(r, t) /\ t.nonce = ticket[r].nonce
  BY DEF IssueUnsigned, IssueWithGoogle, TypeOK, CeremonyTypeOK, PendingRequest
<1> DEFINE s == [session[r] EXCEPT !.pending = t]
<1>2. s.pavel = session[r].pavel /\ s.pending = t
  BY DEF TypeOK, SessionsTypeOK, Session
<1>3. RespondCeremony(r, s, "done")
  BY <1>1 DEF Issue
<1>4. phase[r] \in {"building", "signing"}
  BY DEF IssueUnsigned, IssueWithGoogle
<1> HIDE DEF s
<1> QED
  BY <1>1, <1>2, <1>3, <1>4, RespondIsAnswering DEF RespondCeremony, Kinds

LEMMA TicketKind ==
  ASSUME TypeOK, NEW r \in Req, UNCHANGED gateVars,
         \/ \E n \in Nonce, a \in Age : Mint(r, n, a)
         \/ AwaitGoogle(r)
         \/ \E p \in Presentation : StartVerify(r, p)
  PROVE  Kinds(r)
<1>1. /\ phase[r] \in {"loaded", "building"}
      /\ UNCHANGED <<store, issued, sid, session, dirty, reply, granted, held, spentAt>>
  BY DEF Mint, AwaitGoogle, StartVerify
<1>2. PICK t : /\ ticket' = [ticket EXCEPT ![r] = t]
               /\ \/ t.nonce \in {ticket[r].nonce, session[r].pending.nonce}
                  \/ t.nonce \in Nonce \ DOMAIN minted
  <2>1. CASE \E n \in Nonce, a \in Age : Mint(r, n, a)
    BY <2>1 DEF Mint
  <2>2. CASE AwaitGoogle(r)
    <3> DEFINE u == [ticket[r] EXCEPT !.expiresAt = now + NonceTTL]
    <3>1. u.nonce = ticket[r].nonce
      BY DEF TypeOK, CeremonyTypeOK, PendingRequest
    <3>2. ticket' = [ticket EXCEPT ![r] = u]
      BY <2>2 DEF AwaitGoogle
    <3> HIDE DEF u
    <3> QED
      BY <3>1, <3>2
  <2>3. CASE \E p \in Presentation : StartVerify(r, p)
    BY <2>3 DEF StartVerify
  <2> QED
    BY <2>1, <2>2, <2>3
<1>3. PICK p \in {"building", "signing", "verifying"} : phase' = [phase EXCEPT ![r] = p]
  BY DEF Mint, AwaitGoogle, StartVerify, Goto
<1>4. ticket'[r] = t /\ phase'[r] = p /\ Others(r)
  BY <1>1, <1>2, <1>3 DEF Others, TypeOK, SessionsTypeOK, CeremonyTypeOK
<1> QED
  BY <1>1, <1>2, <1>4 DEF Advancing, Kinds

LEMMA AcceptKind ==
  ASSUME TypeOK, NEW r \in Req, NEW s \in Sid, NEW p \in Proof, UNCHANGED gateVars,
         VerifyAccepts(r, s, p)
  PROVE  Kinds(r)
<1> DEFINE copy == [pavel |-> EligibilityFact(r, p), pending |-> NoPending,
                    app |-> session[r].app]
<1>1. /\ sid' = [sid EXCEPT ![r] = s] /\ session' = [session EXCEPT ![r] = copy]
      /\ phase' = [phase EXCEPT ![r] = "responding"]
      /\ ticket' = [ticket EXCEPT ![r] = NoPending]
      /\ reply' = [reply EXCEPT ![r] = "verified"]
      /\ phase[r] = "verifying" /\ s \notin issued /\ \A q \in Req : sid[q] # s
      /\ dirty' = [dirty EXCEPT ![r] = TRUE] /\ UNCHANGED <<issued, held, spentAt>>
  BY DEF VerifyAccepts, Grant, Accepted, Regenerate, Generate, Goto
<1>2. /\ sid'[r] = s /\ session'[r] = copy /\ phase'[r] = "responding"
      /\ ticket'[r] = NoPending /\ dirty'[r] /\ Others(r)
  BY <1>1 DEF Others, TypeOK, SessionsTypeOK, CeremonyTypeOK
<1>3. /\ p \in Proof \ DOMAIN granted /\ DOMAIN granted' = DOMAIN granted \cup {p}
      /\ \A x \in DOMAIN granted : granted'[x] = granted[x]
      /\ granted'[p].challenge = ticket[r]
  BY DEF VerifyAccepts, Grant, Put
<1>4. /\ DOMAIN store' = DOMAIN store \ {sid[r]}
      /\ \A x \in DOMAIN store' : store'[x] = store[x]
  BY DEF VerifyAccepts, Without, Restrict
<1>5. ProofOf(r)' = p
  BY <1>2 DEF ProofOf, EligibilityFact
<1> QED
  BY <1>1, <1>2, <1>3, <1>4, <1>5 DEF Accepting, FreshId, Kinds

LEMMA LossKind ==
  ASSUME TypeOK, NEW r \in Req, NEW s \in Sid, UNCHANGED gateVars, VerifyLosesSession(r, s)
  PROVE  Kinds(r)
<1>1. /\ sid' = [sid EXCEPT ![r] = s] /\ session' = [session EXCEPT ![r] = EmptySession]
      /\ phase' = [phase EXCEPT ![r] = "responding"]
      /\ ticket' = [ticket EXCEPT ![r] = NoPending]
      /\ reply' = [reply EXCEPT ![r] = "malformed"]
      /\ phase[r] = "verifying" /\ s \notin issued /\ \A q \in Req : sid[q] # s
      /\ dirty' = [dirty EXCEPT ![r] = TRUE]
      /\ UNCHANGED <<store, issued, granted, held, spentAt>>
  BY DEF VerifyLosesSession, Accepted, Regenerate, Generate, Goto
<1> QED
  BY <1>1 DEF Losing, FreshId, Kinds, Others, TypeOK, SessionsTypeOK, CeremonyTypeOK

LEMMA SendKind ==
  ASSUME TypeOK, NEW r \in Req, Send(r), UNCHANGED <<gateVars, ceremonyVars>>
  PROVE  Kinds(r)
<1>1. /\ phase' = [phase EXCEPT ![r] = "sent"] /\ phase[r] = "responding"
      /\ UNCHANGED <<sid, session, dirty, reply, ticket, granted, held, spentAt>>
  BY DEF Send, Goto
<1>2. \/ UNCHANGED store
      \/ store' = Put(store, sid[r], session[r]) /\ dirty[r]
  BY DEF Send, Save
<1>3. /\ issued \subseteq issued' /\ issued' \subseteq issued \cup {sid[r]}
      /\ dirty[r] => sid[r] \in issued'
  BY DEF Send
<1> QED
  BY <1>1, <1>2, <1>3 DEF Sending, Kinds, Others, TypeOK, SessionsTypeOK

LEMMA SettleKind ==
  ASSUME TypeOK, NEW r \in Req, Settle(r) \/ GoAway(r)
  PROVE  Kinds(r)
<1>1. /\ phase' = [phase EXCEPT ![r] = "idle"] /\ phase[r] = "sent"
      /\ sid' = [sid EXCEPT ![r] = NoSid] /\ session' = [session EXCEPT ![r] = EmptySession]
      /\ reply' = [reply EXCEPT ![r] = "none"] /\ held' = [held EXCEPT ![r] = NoProof]
      /\ dirty' = [dirty EXCEPT ![r] = FALSE]
      /\ UNCHANGED <<issued, ticket, granted, spentAt>>
  BY DEF Settle, GoAway, Finish, FinishSpend, FinishRelease, Disconnect, CloseGate, Close, End, Goto
<1>2. \/ /\ held[r] # NoProof /\ reply[r] = "done" /\ ProofOf(r) = held[r]
         /\ store' = Put(store, sid[r], [session[r] EXCEPT !.pavel = Unverified])
      \/ /\ UNCHANGED store
         /\ \/ StoreFails \/ Disconnects
            \/ held[r] = NoProof \/ reply[r] # "done" \/ ProofOf(r) # held[r]
  BY DEF Settle, GoAway, Finish, FinishSpend, FinishRelease, Disconnect, Save
<1>3. /\ phase'[r] = "idle" /\ sid'[r] = NoSid /\ session'[r] = EmptySession
      /\ reply'[r] = "none" /\ held'[r] = NoProof /\ Others(r)
  BY <1>1 DEF Others, TypeOK, SessionsTypeOK, GateTypeOK
<1> QED
  BY <1>1, <1>2, <1>3 DEF Settling, Kinds

LEMMA LeaveKind ==
  ASSUME TypeOK, NEW r \in Req, (BuildRejects(r) /\ UNCHANGED gateVars) \/ StopWaiting(r)
  PROVE  Kinds(r)
<1>1. CASE BuildRejects(r) /\ UNCHANGED gateVars
  BY <1>1 DEF BuildRejects, End, Goto, Leaving, Kinds, Others, TypeOK, SessionsTypeOK,
              CeremonyTypeOK
<1>2. CASE StopWaiting(r)
  BY <1>2 DEF StopWaiting, HangUp, Goto, Leaving, Kinds, Others, TypeOK, SessionsTypeOK
<1> QED
  BY <1>1, <1>2

LEMMA StepKind ==
  ASSUME TypeOK, NEW r \in Req, RequestStep(r)
  PROVE  Kinds(r)
<1>1. CASE Arrive(r)
  BY <1>1, ArriveKind DEF Kinds
<1>2. CASE Route(r)
  BY <1>2, AppKind, GateKind, TicketKind, RejectKind DEF Route
<1>3. CASE Proceed(r)
  <2>1. CASE \E answer \in {"done", "failed"}, data \in App :
               ActionResponds(r, answer, data) /\ UNCHANGED ceremonyVars
    BY <2>1, AppKind
  <2>2. CASE /\ \/ AwaitGoogle(r) \/ IssueUnsigned(r) \/ IssueWithGoogle(r)
                \/ VerifyThrows(r) \/ VerifyRejects(r)
             /\ UNCHANGED gateVars
    BY <2>2, TicketKind, IssueKind, RejectKind
  <2>3. CASE \E s \in Sid :
               /\ VerifyLosesSession(r, s) \/ \E p \in Proof : VerifyAccepts(r, s, p)
               /\ UNCHANGED gateVars
    BY <2>3, LossKind, AcceptKind
  <2>4. CASE BuildRejects(r) /\ UNCHANGED gateVars
    BY <2>4, LeaveKind
  <2> QED
    BY <1>3, <2>1, <2>2, <2>3, <2>4, SendKind DEF Proceed
<1>4. CASE Settle(r) \/ GoAway(r)
  BY <1>4, SettleKind
<1>5. CASE StopWaiting(r)
  BY <1>5, LeaveKind
<1> QED
  BY <1>1, <1>2, <1>3, <1>4, <1>5 DEF RequestStep

---------------------------------------------------------------------------
(* Where the copies stand.                                                 *)

(* A request in flight has its session to itself.                          *)
LEMMA Alone ==
  ASSUME TypeOK, OneAtATime, NEW r \in Req, InFlight(r), NEW q \in Req, q # r
  PROVE  sid[q] # sid[r]
BY DEF OneAtATime

LEMMA CarryStep ==
  ASSUME TypeOK, OneAtATime, CarryInv, NEW r \in Req, Kinds(r)
  PROVE  CarryInv'
<1>1. issued \subseteq issued' /\ DOMAIN store' \subseteq issued'
  <2>1. held[r] # NoProof => sid[r] \in issued
    BY DEF CarryInv, HoldsItsOwn
  <2> QED
    BY <2>1 DEF Kinds, Arriving, Advancing, Answering, Acting, Accepting, Losing, Sending,
                Settling, Leaving, CarryInv, Put
<1>2. ASSUME NEW q \in Req, q # r
      PROVE  CopyCurrent(q)' /\ KnownSid(q)' /\ HoldsItsOwn(q)'
  <2>1. /\ phase'[q] = phase[q] /\ sid'[q] = sid[q] /\ session'[q] = session[q]
        /\ held'[q] = held[q]
    BY <1>2 DEF Kinds, Others
  <2>2. InFlight(r) => sid[q] # sid[r]
    BY <1>2, Alone
  <2>3. sid[q] \in DOMAIN store' => sid[q] \in DOMAIN store /\ store'[sid[q]] = store[sid[q]]
    BY <2>2 DEF Kinds, InFlight, Arriving, Advancing, Answering, Acting, Accepting, Losing,
                Sending, Settling, Leaving, Put
  <2> QED
    BY <1>1, <2>1, <2>3 DEF CarryInv, CopyCurrent, KnownSid, HoldsItsOwn, ProofOf
<1>3. CopyCurrent(r)' /\ KnownSid(r)' /\ HoldsItsOwn(r)'
  <2>0. CopyCurrent(r) /\ KnownSid(r) /\ HoldsItsOwn(r) /\ DOMAIN store \subseteq issued
    BY DEF CarryInv
  <2>1. CASE Arriving(r)
    BY <2>0, <2>1 DEF Arriving, CopyCurrent, KnownSid, HoldsItsOwn, ProofOf, EmptySession,
                      Unverified, FreshId
  <2>2. CASE Advancing(r)
    BY <2>0, <2>2 DEF Advancing, CopyCurrent, KnownSid, HoldsItsOwn, ProofOf
  <2>3. CASE Answering(r) \/ Acting(r)
    BY <2>0, <2>3 DEF Answering, Acting, CopyCurrent, KnownSid, HoldsItsOwn, ProofOf
  <2>4. CASE Accepting(r) \/ Losing(r)
    BY <2>0, <2>4 DEF Accepting, Losing, CopyCurrent, KnownSid, HoldsItsOwn
  <2>5. CASE Sending(r) \/ Settling(r)
    BY <2>0, <2>5 DEF Sending, Settling, CopyCurrent, KnownSid, HoldsItsOwn, ProofOf
  <2>6. CASE Leaving(r)
    BY <2>0, <2>6 DEF Leaving, CopyCurrent, KnownSid, HoldsItsOwn
  <2> QED
    BY <2>1, <2>2, <2>3, <2>4, <2>5, <2>6 DEF Kinds
<1> QED
  BY <1>1, <1>2, <1>3 DEF CarryInv

(* The steps that are no request's.                                        *)
LEMMA IdleStep ==
  ASSUME CarryInv, Tick \/ UNCHANGED vars
  PROVE  CarryInv'
BY DEF Tick, vars, CarryInv, CopyCurrent, KnownSid, HoldsItsOwn, ProofOf

LEMMA RestartCarry ==
  ASSUME CarryInv, Restart
  PROVE  CarryInv'
BY DEF Restart, CarryInv, CopyCurrent, KnownSid, HoldsItsOwn

LEMMA InitCarry == Init => CarryInv /\ OneAtATime
BY DEF Init, SessionsInit, GateInit, CarryInv, CopyCurrent, KnownSid, HoldsItsOwn, OneAtATime,
       InFlight

LEMMA NextCarry ==
  ASSUME TypeOK, OneAtATime, CarryInv, [Next]_vars
  PROVE  CarryInv'
BY CarryStep, StepKind, IdleStep, RestartCarry DEF Next

(* A client that waits is a client, and it always waits.                   *)
LEMMA Waits == OneAtATimeSpec => Spec /\ []OneAtATime
<1>1. [Next /\ OneAtATime']_vars => [Next]_vars
  OBVIOUS
<1>2. OneAtATime /\ [Next /\ OneAtATime']_vars => OneAtATime'
  BY DEF vars, OneAtATime, InFlight
<1> QED
  BY <1>1, <1>2, InitCarry, PTL DEF OneAtATimeSpec, Spec

LEMMA CopiesStand == OneAtATimeSpec => []CarryInv
<1>1. TypeOK /\ OneAtATime /\ CarryInv /\ [Next]_vars => CarryInv'
  BY NextCarry
<1> QED
  BY <1>1, Waits, InitCarry, TypeCorrect, PTL DEF Spec

(* Only an acceptance answers "verified".                                  *)
LEMMA VerifiesIsAccepting ==
  ASSUME TypeOK, [Next]_vars, NEW r \in Req, Verifies(r)
  PROVE  Accepting(r)
<1>1. CASE Tick \/ UNCHANGED vars \/ Restart
  BY <1>1 DEF Tick, Restart, vars, Verifies
<1>2. ASSUME NEW q \in Req, RequestStep(q) PROVE Accepting(r)
  <2>1. Kinds(q)
    BY <1>2, StepKind
  <2>2. q = r
    BY <2>1 DEF Kinds, Others, Verifies
  <2> QED
    BY <2>1, <2>2 DEF Kinds, Arriving, Advancing, Answering, Acting, Losing, Sending, Settling,
                      Leaving, Verifies
<1> QED
  BY <1>1, <1>2 DEF Next

(* A verification carries over the application's data as its session holds *)
(* it at that moment (middleware README:91).                               *)
THEOREM AppDataSurvives == OneAtATimeSpec => AppDataCarried
<1> DEFINE Carries == \A r \in Req : Verifies(r) /\ sid[r] \in DOMAIN store =>
                        session'[r].app = store[sid[r]].app
<1>1. TypeOK /\ CarryInv /\ [Next]_vars => Carries
  <2> SUFFICES ASSUME TypeOK, CarryInv, [Next]_vars, NEW r \in Req, Verifies(r),
                      sid[r] \in DOMAIN store
               PROVE  session'[r].app = store[sid[r]].app
    OBVIOUS
  <2>1. Accepting(r)
    BY VerifiesIsAccepting
  <2> QED
    BY <2>1 DEF Accepting, CarryInv, CopyCurrent
<1>2. TypeOK /\ CarryInv /\ [Next]_vars => [Carries]_vars
  BY <1>1
<1> QED
  BY <1>2, Waits, CopiesStand, TypeCorrect, PTL DEF Spec, AppDataCarried

---------------------------------------------------------------------------
(* One challenge, one proof.                                               *)

(* What was granted was granted for a challenge that had been minted.      *)
LEMMA GrantsMinted ==
  ASSUME TypeOK, BindingInv, NEW p \in DOMAIN granted
  PROVE  granted[p].challenge.nonce \in DOMAIN minted /\ granted[p].challenge.nonce \in Nonce
BY DEF BindingInv, GrantsEarned, Earned, TypeOK, CeremonyTypeOK

LEMMA FreshUnanswered ==
  ASSUME TypeOK, BindingInv, NEW t, t.nonce \notin DOMAIN minted
  PROVE  Unanswered(t)
BY GrantsMinted DEF Unanswered

LEMMA NoneUnanswered ==
  ASSUME TypeOK, BindingInv, NEW t, t.nonce = NoNonce
  PROVE  Unanswered(t)
BY GrantsMinted, SessionsAssumption DEF Unanswered

(* A step that grants nothing and brings no answered challenge along.      *)
LEMMA GrantlessSingleUse ==
  ASSUME SingleUseInv, NEW r \in Req, Others(r), UNCHANGED granted,
         Unanswered(session'[r].pending), Unanswered(ticket'[r]),
         \A s \in DOMAIN store' : \/ s \in DOMAIN store /\ store'[s] = store[s]
                                 \/ store'[s].pending = session[r].pending
  PROVE  SingleUseInv'
<1>1. ASSUME NEW q \in Req
      PROVE  Unanswered(session[q].pending)' /\ Unanswered(ticket[q])'
  BY DEF SingleUseInv, Others, Unanswered
<1>2. ASSUME NEW s \in DOMAIN store'
      PROVE  Unanswered(store[s].pending)'
  BY DEF SingleUseInv, Unanswered
<1> QED
  BY <1>1, <1>2 DEF SingleUseInv, ChallengeSingleUse

(* The acceptance uses the challenge up: it was minted for the session the *)
(* store has just destroyed, whose only request this is.                   *)
LEMMA AcceptSingleUse ==
  ASSUME TypeOK, BindingInv, OneAtATime, SingleUseInv,
         NEW r \in Req, Others(r), Accepting(r)
  PROVE  SingleUseInv'
<1> DEFINE p == ProofOf(r)'
           n == ticket[r].nonce
<1>1. n \in Nonce /\ n \in DOMAIN minted /\ minted[n].sid = sid[r]
  <2>1. ticket[r] # NoPending /\ ChallengeAtHome(sid[r], ticket[r])
    BY CopyAtHome DEF BindingInv, InHand, Accepting
  <2> QED
    BY <2>1 DEF ChallengeAtHome, TypeOK, CeremonyTypeOK
<1>2. ASSUME NEW s, NEW t, s # sid[r], ChallengeAtHome(s, t), Unanswered(t)
      PROVE  \A x \in DOMAIN granted' : granted'[x].challenge.nonce # t.nonce
  <2>1. t.nonce # n
    <3>1. CASE t = NoPending
      BY <1>1, <3>1, SessionsAssumption DEF NoPending
    <3>2. CASE t # NoPending
      BY <1>1, <1>2, <3>2 DEF ChallengeAtHome
    <3> QED
      BY <3>1, <3>2
  <2> QED
    BY <1>2, <2>1 DEF Accepting, Unanswered
<1>3. ASSUME NEW q \in Req
      PROVE  Unanswered(session[q].pending)' /\ Unanswered(ticket[q])'
  <2>1. CASE q = r
    <3>1. \A x \in DOMAIN granted' : granted'[x].challenge.nonce # NoNonce
      BY <1>1, GrantsMinted, SessionsAssumption DEF Accepting
    <3> QED
      BY <2>1, <3>1 DEF Accepting, NoPending, Unanswered
  <2>2. CASE q # r
    <3>1. sid[q] # sid[r]
      BY <2>2, Alone DEF Accepting, InFlight
    <3>2. /\ ChallengeAtHome(sid[q], session[q].pending) /\ Unanswered(session[q].pending)
          /\ ChallengeAtHome(sid[q], ticket[q]) /\ Unanswered(ticket[q])
      BY CopyAtHome DEF SingleUseInv
    <3>3. session'[q] = session[q] /\ ticket'[q] = ticket[q]
      BY <2>2 DEF Others
    <3> QED
      BY <1>2, <3>1, <3>2, <3>3 DEF Unanswered
  <2> QED
    BY <2>1, <2>2
<1>4. ASSUME NEW s \in DOMAIN store'
      PROVE  Unanswered(store[s].pending)'
  <2>1. s \in DOMAIN store /\ s # sid[r] /\ store'[s] = store[s]
    BY DEF Accepting
  <2>2. ChallengeAtHome(s, store[s].pending) /\ Unanswered(store[s].pending)
    BY <2>1, StoreAtHome DEF SingleUseInv
  <2> QED
    BY <1>2, <2>1, <2>2 DEF Unanswered
<1>5. ChallengeSingleUse'
  <2>1. \A x \in DOMAIN granted : granted[x].challenge.nonce # n
    BY DEF SingleUseInv, Unanswered
  <2>2. /\ DOMAIN granted' = DOMAIN granted \cup {p} /\ granted'[p].challenge.nonce = n
        /\ \A x \in DOMAIN granted : granted'[x] = granted[x]
    BY DEF Accepting
  <2> QED
    BY <2>1, <2>2 DEF SingleUseInv, ChallengeSingleUse
<1> QED
  BY <1>3, <1>4, <1>5 DEF SingleUseInv

LEMMA StepSingleUse ==
  ASSUME TypeOK, BindingInv, OneAtATime, SingleUseInv, NEW r \in Req, Kinds(r)
  PROVE  SingleUseInv'
<1>0. /\ Others(r)
      /\ Unanswered(session[r].pending) /\ Unanswered(ticket[r])
      /\ \A s \in DOMAIN store : Unanswered(store[s].pending)
  BY DEF Kinds, SingleUseInv
<1>1. CASE Arriving(r) \/ Losing(r) \/ Leaving(r)
  <2>1. Unanswered(EmptySession.pending) /\ Unanswered(NoPending)
    BY NoneUnanswered DEF EmptySession, NoPending
  <2>2. Unanswered(session'[r].pending) /\ Unanswered(ticket'[r]) /\ UNCHANGED <<store, granted>>
    BY <1>0, <1>1, <2>1 DEF Arriving, Losing, Leaving
  <2> QED
    BY <1>0, <2>2, GrantlessSingleUse
<1>2. CASE Advancing(r)
  <2>1. Unanswered(ticket'[r])
    BY <1>0, <1>2, FreshUnanswered DEF Advancing, Unanswered
  <2> QED
    BY <1>0, <1>2, <2>1, GrantlessSingleUse DEF Advancing
<1>3. CASE Answering(r)
  <2>1. Unanswered(session'[r].pending) /\ Unanswered(ticket'[r])
    BY <1>0, <1>3, NoneUnanswered DEF Answering, Unanswered
  <2> QED
    BY <1>0, <1>3, <2>1, GrantlessSingleUse DEF Answering
<1>4. CASE Acting(r)
  BY <1>0, <1>4, GrantlessSingleUse DEF Acting
<1>5. CASE Sending(r)
  <2>1. \A s \in DOMAIN store' : \/ s \in DOMAIN store /\ store'[s] = store[s]
                                \/ store'[s].pending = session[r].pending
    BY <1>5 DEF Sending, Put
  <2> QED
    BY <1>0, <1>5, <2>1, GrantlessSingleUse DEF Sending
<1>6. CASE Settling(r)
  <2>1. [session[r] EXCEPT !.pavel = Unverified].pending = session[r].pending
    BY DEF TypeOK, SessionsTypeOK, Session
  <2>2. \A s \in DOMAIN store' : \/ s \in DOMAIN store /\ store'[s] = store[s]
                                \/ store'[s].pending = session[r].pending
    BY <1>6, <2>1 DEF Settling, Put
  <2>3. Unanswered(session'[r].pending)
    BY <1>6, NoneUnanswered DEF Settling, EmptySession, NoPending
  <2> QED
    BY <1>0, <1>6, <2>2, <2>3, GrantlessSingleUse DEF Settling
<1>7. CASE Accepting(r)
  BY <1>0, <1>7, AcceptSingleUse
<1> QED
  BY <1>1, <1>2, <1>3, <1>4, <1>5, <1>6, <1>7 DEF Kinds

LEMMA InitSingleUse == Init => SingleUseInv
BY DEF Init, SessionsInit, CeremonyInit, SingleUseInv, Unanswered, ChallengeSingleUse

LEMMA NextSingleUse ==
  ASSUME TypeOK, BindingInv, OneAtATime, SingleUseInv, [Next]_vars
  PROVE  SingleUseInv'
<1>1. CASE Tick \/ UNCHANGED vars
  BY <1>1 DEF Tick, vars, SingleUseInv, Unanswered, ChallengeSingleUse
<1>2. CASE Restart
  <2>1. Unanswered(EmptySession.pending) /\ Unanswered(NoPending)
    BY NoneUnanswered DEF EmptySession, NoPending
  <2>2. /\ UNCHANGED <<store, granted>>
        /\ \A q \in Req : session'[q] = EmptySession /\ ticket'[q] = NoPending
    BY <1>2 DEF Restart
  <2> QED
    BY <2>1, <2>2 DEF SingleUseInv, Unanswered, ChallengeSingleUse
<1> QED
  BY <1>1, <1>2, StepKind, StepSingleUse DEF Next

LEMMA SingleUseHolds == OneAtATimeSpec => []SingleUseInv
<1>1. TypeOK /\ BindingInv /\ OneAtATime /\ SingleUseInv /\ [Next]_vars => SingleUseInv'
  BY NextSingleUse
<1> QED
  BY <1>1, Waits, InitSingleUse, TypeCorrect, BindingsHold, PTL DEF Spec

(* A client that waits gets at most one proof for a challenge, however     *)
(* often it answers (pavel.ts:172).                                        *)
THEOREM ChallengesUsedOnce == OneAtATimeSpec => []ChallengeSingleUse
<1>1. SingleUseInv => ChallengeSingleUse
  BY DEF SingleUseInv
<1> QED
  BY <1>1, SingleUseHolds, PTL

---------------------------------------------------------------------------
(* A proof spent is gone.                                                  *)

LEMMA SpentIsProof ==
  ASSUME TypeOK
  PROVE  NoProof \notin DOMAIN spentAt
BY SessionsAssumption DEF TypeOK, GateTypeOK

(* Nobody else has the proof in the copy of a session in flight.           *)
LEMMA ProofAlone ==
  ASSUME TypeOK, BindingInv, OneAtATime, NEW r \in Req, NEW q \in Req, InFlight(r),
         ProofOf(r) # NoProof, ProofOf(q) = ProofOf(r)
  PROVE  q = r
<1>1. granted[ProofOf(r)].sid = sid[r] /\ granted[ProofOf(q)].sid = sid[q]
  BY CopyAtHome DEF FactAtHome, ProofOf
<1> QED
  BY <1>1, Alone

(* A step of r that spends nothing, while whoever holds what is spent      *)
(* keeps it.                                                               *)
LEMMA UnspendingStep ==
  ASSUME TypeOK, SpentInv, NEW r \in Req, Others(r), UNCHANGED spentAt,
         DOMAIN granted \subseteq DOMAIN granted',
         \A p \in DOMAIN spentAt : ProofOf(r)' = p \/ held'[r] = p => Holds(r, p)',
         \A s \in DOMAIN store', p \in DOMAIN spentAt :
           store'[s].pavel.proofId = p => \E q \in Req : held'[q] = p
  PROVE  SpentInv'
<1>1. ASSUME NEW q \in Req, NEW p \in DOMAIN spentAt', ProofOf(q)' = p \/ held'[q] = p
      PROVE  Holds(q, p)'
  <2>1. CASE q = r
    BY <1>1, <2>1
  <2>2. CASE q # r
    BY <1>1, <2>2 DEF Others, SpentInv, Holds, ProofOf
  <2> QED
    BY <2>1, <2>2
<1>2. SpentProofForgotten'
  BY DEF SpentProofForgotten
<1> QED
  BY <1>1, <1>2 DEF SpentInv

(* Before a request has been let through, its proof is not spent.          *)
LEMMA UnspentBefore ==
  ASSUME SpentInv, NEW r \in Req, phase[r] \notin {"responding", "sent"}
  PROVE  ProofOf(r) \notin DOMAIN spentAt /\ held[r] \notin DOMAIN spentAt
BY DEF SpentInv, Holds

LEMMA StoreStillHeld ==
  ASSUME SpentInv, NEW r \in Req, Others(r), held[r] \in DOMAIN spentAt => held'[r] = held[r],
         NEW s \in DOMAIN store, NEW p \in DOMAIN spentAt, store[s].pavel.proofId = p
  PROVE  \E q \in Req : held'[q] = p
<1>1. PICK q \in Req : held[q] = p
  BY DEF SpentInv, SpentProofForgotten
<1> QED
  BY <1>1 DEF Others

LEMMA ArriveSpent ==
  ASSUME TypeOK, BindingInv, SpentInv, CarryInv, OneAtATime',
         NEW r \in Req, Others(r), Arriving(r)
  PROVE  SpentInv'
<1>1. held[r] \notin DOMAIN spentAt /\ held'[r] = held[r]
  BY UnspentBefore DEF Arriving
<1>2. ProofOf(r)' \notin DOMAIN spentAt
  <2>1. SUFFICES ASSUME ProofOf(r)' \in DOMAIN spentAt PROVE FALSE
    OBVIOUS
  <2>2. PICK s \in DOMAIN store : sid'[r] = s /\ session'[r] = store[s]
    BY <2>1, SpentIsProof DEF Arriving, ProofOf, EmptySession, Unverified
  <2>3. PICK q \in Req : held[q] = ProofOf(r)'
    BY <2>1, <2>2 DEF SpentInv, SpentProofForgotten, ProofOf
  <2>4. /\ Holds(q, held[q]) /\ held[q] # NoProof /\ ProofOf(q) = held[q]
        /\ phase[q] \in {"responding", "sent"}
    BY <2>1, <2>3, SpentIsProof DEF SpentInv, CarryInv, HoldsItsOwn, Holds
  <2>5. q # r
    BY <2>4 DEF Arriving
  <2>6. sid[q] = s
    BY <2>2, <2>3, <2>4, CopyAtHome, StoreAtHome DEF FactAtHome, ProofOf
  <2>7. sid'[q] = sid'[r] /\ InFlight(r)'
    BY <2>2, <2>5, <2>6 DEF Others, Arriving, InFlight
  <2> QED
    BY <2>5, <2>7 DEF OneAtATime
<1> QED
  BY <1>1, <1>2, UnspendingStep, StoreStillHeld DEF Arriving

LEMMA ActSpent ==
  ASSUME TypeOK, BindingInv, OneAtATime, SpentInv, CarryInv,
         NEW r \in Req, Others(r), Acting(r)
  PROVE  SpentInv'
<1>0. /\ ProofOf(r) \notin DOMAIN spentAt /\ held[r] \notin DOMAIN spentAt
      /\ ProofOf(r)' = ProofOf(r) /\ held'[r] = held[r]
  BY UnspentBefore DEF Acting, ProofOf
<1>1. ASSUME NEW p \in DOMAIN spentAt', p \notin DOMAIN spentAt
      PROVE  /\ p = held[r] /\ p # NoProof /\ reply'[r] = "done"
             /\ p = ProofOf(r) /\ p \in DOMAIN granted
  <2>1. p = held[r] /\ p # NoProof /\ reply'[r] = "done"
    BY <1>1 DEF Acting
  <2>2. p = ProofOf(r)
    BY <2>1 DEF CarryInv, HoldsItsOwn
  <2> QED
    BY <2>1, <2>2, CopyAtHome DEF FactAtHome, ProofOf
<1>2. DOMAIN spentAt' \subseteq DOMAIN granted'
  BY <1>1 DEF SpentInv, Acting
<1>3. ASSUME NEW q \in Req, NEW p \in DOMAIN spentAt', ProofOf(q)' = p \/ held'[q] = p
      PROVE  Holds(q, p)'
  <2>1. CASE p \in DOMAIN spentAt
    <3>1. q # r
      BY <1>0, <1>3, <2>1
    <3> QED
      BY <1>3, <2>1, <3>1 DEF Others, SpentInv, Holds, ProofOf
  <2>2. CASE p \notin DOMAIN spentAt
    <3>1. ProofOf(q) = p
      <4>1. CASE q = r
        BY <1>1, <2>2, <4>1
      <4>2. CASE q # r
        BY <1>1, <1>3, <2>2, <4>2 DEF Others, CarryInv, HoldsItsOwn, ProofOf
      <4> QED
        BY <4>1, <4>2
    <3>2. q = r
      BY <1>1, <2>2, <3>1, ProofAlone DEF Acting, InFlight
    <3> QED
      BY <1>1, <2>2, <3>2 DEF Acting, Holds
  <2> QED
    BY <2>1, <2>2
<1>4. ASSUME NEW s \in DOMAIN store', NEW p \in DOMAIN spentAt', store'[s].pavel.proofId = p
      PROVE  \E q \in Req : held'[q] = p
  <2>1. CASE p \in DOMAIN spentAt
    BY <1>0, <1>4, <2>1, StoreStillHeld DEF Acting
  <2>2. CASE p \notin DOMAIN spentAt
    BY <1>0, <1>1, <2>2
  <2> QED
    BY <2>1, <2>2
<1> QED
  BY <1>2, <1>3, <1>4 DEF SpentInv, SpentProofForgotten

LEMMA SettleSpent ==
  ASSUME TypeOK, BindingInv, SpentInv, CarryInv, ~ StoreFails, ~ Disconnects,
         NEW r \in Req, Others(r), Settling(r)
  PROVE  SpentInv'
<1>1. ProofOf(r)' = NoProof /\ held'[r] = NoProof
  BY DEF Settling, ProofOf, EmptySession, Unverified
<1>2. CASE held[r] \notin DOMAIN spentAt
  <2>1. \A s \in DOMAIN store', p \in DOMAIN spentAt :
          store'[s].pavel.proofId = p => s \in DOMAIN store /\ store[s].pavel.proofId = p
    <3> DEFINE u == [session[r] EXCEPT !.pavel = Unverified]
    <3>1. u.pavel.proofId = NoProof
      BY DEF TypeOK, SessionsTypeOK, Session, Unverified
    <3>2. UNCHANGED store \/ store' = Put(store, sid[r], u)
      BY <1>2 DEF Settling
    <3> HIDE DEF u
    <3> QED
      BY <3>1, <3>2, SpentIsProof DEF Put
  <2> QED
    BY <1>1, <1>2, <2>1, SpentIsProof, UnspendingStep, StoreStillHeld DEF Settling
<1>3. CASE held[r] \in DOMAIN spentAt
  <2> DEFINE p == held[r]
  <2>1. /\ p # NoProof /\ reply[r] = "done" /\ ProofOf(r) = p
        /\ store' = Put(store, sid[r], [session[r] EXCEPT !.pavel = Unverified])
    <3>1. p # NoProof /\ reply[r] = "done" /\ ProofOf(r) = p
      BY <1>3, SpentIsProof DEF SpentInv, Holds, CarryInv, HoldsItsOwn
    <3> QED
      BY <3>1 DEF Settling
  <2>2. [session[r] EXCEPT !.pavel = Unverified].pavel.proofId = NoProof
    BY DEF TypeOK, SessionsTypeOK, Session, Unverified
  <2>3. ASSUME NEW s \in DOMAIN store', NEW x \in DOMAIN spentAt,
               store'[s].pavel.proofId = x
        PROVE  \E q \in Req : held'[q] = x
    <3>1. s # sid[r] /\ s \in DOMAIN store /\ store[s].pavel.proofId = x
      BY <2>1, <2>2, <2>3, SpentIsProof DEF Put
    <3>2. x # p
      <4>1. granted[p].sid = sid[r] /\ granted[x].sid = s
        BY <2>1, <3>1, SpentIsProof, CopyAtHome, StoreAtHome DEF FactAtHome, ProofOf
      <4> QED
        BY <3>1, <4>1
    <3>3. PICK q \in Req : held[q] = x
      BY <3>1 DEF SpentInv, SpentProofForgotten
    <3> QED
      BY <3>2, <3>3 DEF Others
  <2> QED
    BY <1>1, <2>3, SpentIsProof, UnspendingStep DEF Settling
<1> QED
  BY <1>2, <1>3

LEMMA StepSpent ==
  ASSUME TypeOK, BindingInv, OneAtATime, OneAtATime', SpentInv, CarryInv,
         ~ StoreFails, ~ Disconnects, NEW r \in Req, Kinds(r)
  PROVE  SpentInv'
<1>0. Others(r) /\ (held[r] # NoProof => phase[r] \in {"acting", "responding", "sent"})
  BY DEF Kinds, CarryInv, HoldsItsOwn
<1>1. CASE Advancing(r)
  <2>1. ProofOf(r) \notin DOMAIN spentAt /\ held[r] \notin DOMAIN spentAt
    BY <1>1, UnspentBefore DEF Advancing
  <2>2. ProofOf(r)' \notin DOMAIN spentAt /\ held'[r] \notin DOMAIN spentAt
    BY <1>1, <2>1 DEF Advancing, ProofOf
  <2> QED
    BY <1>0, <1>1, <2>1, <2>2, UnspendingStep, StoreStillHeld DEF Advancing
<1>2. CASE Answering(r) \/ Accepting(r) \/ Losing(r) \/ Leaving(r)
  <2>1. ProofOf(r) \notin DOMAIN spentAt /\ held[r] \notin DOMAIN spentAt
    BY <1>2, UnspentBefore DEF Answering, Accepting, Losing, Leaving
  <2>2. ProofOf(r)' \notin DOMAIN spentAt /\ held'[r] \notin DOMAIN spentAt
    BY <1>2, <2>1, SpentIsProof
       DEF Answering, Accepting, Losing, Leaving, ProofOf, SpentInv, EmptySession, Unverified
  <2>3. /\ \A s \in DOMAIN store' : s \in DOMAIN store /\ store'[s] = store[s]
        /\ DOMAIN granted \subseteq DOMAIN granted' /\ UNCHANGED spentAt
    BY <1>2 DEF Answering, Accepting, Losing, Leaving
  <2> QED
    BY <1>0, <2>1, <2>2, <2>3, UnspendingStep, StoreStillHeld
<1>3. CASE Sending(r)
  <2>1. \A p \in DOMAIN spentAt : ProofOf(r) = p \/ held[r] = p => Holds(r, p)
    BY DEF SpentInv
  <2>2. \A p \in DOMAIN spentAt : ProofOf(r)' = p \/ held'[r] = p => Holds(r, p)'
    BY <1>3, <2>1 DEF Sending, ProofOf, Holds
  <2>3. ASSUME NEW s \in DOMAIN store', NEW p \in DOMAIN spentAt, store'[s].pavel.proofId = p
        PROVE  \E q \in Req : held'[q] = p
    <3>1. CASE s \in DOMAIN store /\ store'[s] = store[s]
      BY <1>0, <1>3, <2>3, <3>1, StoreStillHeld DEF Sending
    <3>2. CASE store'[s] = session[r]
      BY <1>3, <2>1, <2>3, <3>2 DEF Sending, ProofOf, Holds
    <3> QED
      BY <1>3, <3>1, <3>2 DEF Sending, Put
  <2> QED
    BY <1>0, <1>3, <2>2, <2>3, UnspendingStep DEF Sending
<1> QED
  BY <1>0, <1>1, <1>2, <1>3, ArriveSpent, ActSpent, SettleSpent DEF Kinds

LEMMA InitSpent == Init => SpentInv
BY DEF Init, SessionsInit, GateInit, SpentInv, SpentProofForgotten

LEMMA NextSpent ==
  ASSUME ~ StoreFails, ~ Disconnects, TypeOK, BindingInv, OneAtATime, SpentInv, CarryInv,
         [Next /\ OneAtATime']_vars
  PROVE  SpentInv'
<1>1. CASE Tick \/ UNCHANGED vars
  BY <1>1 DEF Tick, vars, SpentInv, SpentProofForgotten, Holds, ProofOf
<1>2. CASE Restart
  BY <1>2 DEF Restart, SpentInv, SpentProofForgotten
<1>3. ASSUME NEW r \in Req, RequestStep(r), OneAtATime' PROVE SpentInv'
  BY <1>3, StepKind, StepSpent
<1> QED
  BY <1>1, <1>2, <1>3 DEF Next

LEMMA SpentHolds ==
  ASSUME ~ StoreFails, ~ Disconnects
  PROVE  OneAtATimeSpec => []SpentInv
<1>1. TypeOK /\ BindingInv /\ OneAtATime /\ CarryInv /\ SpentInv /\ [Next /\ OneAtATime']_vars
        => SpentInv'
  BY NextSpent
<1> QED
  BY <1>1, Waits, InitSpent, TypeCorrect, BindingsHold, CopiesStand, PTL DEF OneAtATimeSpec

(* The proof is used up by the first guarded request that succeeds: when   *)
(* that request has finished, no live session of a client that waits still *)
(* has it, provided the store writes and clients stay for their responses  *)
(* (middleware README:116, gate.ts:46-55).                                 *)
THEOREM SpentProofsForgotten ==
  ASSUME ~ StoreFails, ~ Disconnects
  PROVE  OneAtATimeSpec => []SpentProofForgotten
<1>1. SpentInv => SpentProofForgotten
  BY DEF SpentInv
<1> QED
  BY <1>1, SpentHolds, PTL

(* And no gate ever takes it again, however long the client comes back     *)
(* after it: nothing here rests on the TTL of the claim (types.ts:50).     *)
THEOREM ProofsUsedOnce ==
  ASSUME ~ StoreFails, ~ Disconnects
  PROVE  OneAtATimeSpec => NeverReused
<1> DEFINE Once == \A p \in DOMAIN spentAt : ~ Reclaims(p)
<1>1. TypeOK /\ SpentInv /\ [Next]_vars => Once
  <2> SUFFICES ASSUME TypeOK, SpentInv, [Next]_vars, NEW p \in DOMAIN spentAt, Reclaims(p)
               PROVE  FALSE
    OBVIOUS
  <2>1. PICK q \in Req, a \in Age : Claim(q, a) /\ ProofOf(q) = p
    BY SpentIsProof, ReclaimIsClaim
  <2> QED
    BY <2>1, UnspentBefore DEF Claim
<1>2. TypeOK /\ SpentInv /\ [Next]_vars => [Once]_vars
  BY <1>1
<1> QED
  BY <1>2, Waits, SpentHolds, TypeCorrect, PTL DEF Spec, NeverReused

(* All of it at once, as the run of a waiting client checks it.            *)
THEOREM SerialClients ==
  ASSUME ~ StoreFails, ~ Disconnects
  PROVE  OneAtATimeSpec => []SerialInv
<1>1. OneAtATime /\ CarryInv /\ SingleUseInv /\ SpentInv => SerialInv
  BY DEF SerialInv
<1> QED
  BY <1>1, Waits, CopiesStand, SingleUseHolds, SpentHolds, PTL
=============================================================================
