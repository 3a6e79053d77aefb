----------------------------- MODULE Middleware -----------------------------
(***************************************************************************)
(* The PAVEL middleware in one Express process: the ceremony endpoints,    *)
(* the gate and the application's routes, over one session store, one      *)
(* claim map and one clock.  Browsers send what they like: any route with  *)
(* the cookie of any live session or with none, as many at a time as there *)
(* are slots, any wallet's answer to any challenge.                        *)
(***************************************************************************)
EXTENDS Gate, Ceremony

CONSTANTS
  RequestLimit, \* the longest a request stays in flight
  Disconnects,  \* may clients go away before a response is handed over
  MaxRestarts,  \* bound on process restarts; the session store outlives them
  MaxTime       \* bound on the clock

ASSUME MiddlewareAssumption ==
  RequestLimit \in Nat /\ Disconnects \in BOOLEAN /\ MaxRestarts \in Nat /\ MaxTime \in Nat

VARIABLE restarts

vars == <<sessionVars, gateVars, ceremonyVars, now, restarts>>

Init == SessionsInit /\ GateInit /\ CeremonyInit /\ restarts = 0

(* Time passes, but no request outlasts RequestLimit.                      *)
Tick ==
  /\ now < MaxTime
  /\ \A r \in Req : InFlight(r) => now < since[r] + RequestLimit
  /\ now' = now + 1
  /\ UNCHANGED <<sessionVars, gateVars, ceremonyVars, restarts>>

(* The process dies and comes back: requests in flight and claims are lost.*)
(* What was spent is remembered for the life of one process only.          *)
Restart ==
  /\ restarts < MaxRestarts
  /\ restarts' = restarts + 1
  /\ phase' = [r \in Req |-> "idle"]
  /\ sid' = [r \in Req |-> NoSid]
  /\ session' = [r \in Req |-> EmptySession]
  /\ dirty' = [r \in Req |-> FALSE]
  /\ reply' = [r \in Req |-> "none"]
  /\ since' = [r \in Req |-> 0]
  /\ claimedProofs' = [p \in {} |-> 0]
  /\ held' = [r \in Req |-> NoProof]
  /\ heldAt' = [r \in Req |-> 0]
  /\ spentAt' = [p \in {} |-> 0]
  /\ ticket' = [r \in Req |-> NoPending]
  /\ shown' = [r \in Req |-> {}]
  /\ UNCHANGED <<store, issued, minted, granted, now>>

Arrive(r) ==
  /\ \E s \in Sid : Resume(r, s) \/ Visit(r, s)
  /\ UNCHANGED <<gateVars, ceremonyVars>>

Route(r) ==
  \/ \E answer \in {"done", "failed"}, data \in App :
       AppRequest(r, answer, data) /\ UNCHANGED <<gateVars, ceremonyVars>>
  \/ \E a \in Age :
       /\ DenyUnproven(r, a) \/ Admit(r, a) \/ DenyClaimed(r, a) \/ Claim(r, a)
       /\ UNCHANGED ceremonyVars
  \/ \E n \in Nonce, a \in Age : Mint(r, n, a) /\ UNCHANGED gateVars
  \/ \E p \in Presentation : StartVerify(r, p) /\ UNCHANGED gateVars
  \/ /\ RejectMinAge(r) \/ RejectUnchallenged(r) \/ RejectExpired(r) \/ RejectBody(r)
     /\ UNCHANGED gateVars

Proceed(r) ==
  \/ \E answer \in {"done", "failed"}, data \in App :
       ActionResponds(r, answer, data) /\ UNCHANGED ceremonyVars
  \/ /\ \/ AwaitGoogle(r) \/ IssueUnsigned(r) \/ IssueWithGoogle(r) \/ BuildRejects(r)
        \/ VerifyThrows(r) \/ VerifyRejects(r)
     /\ UNCHANGED gateVars
  \/ \E s \in Sid :
       /\ VerifyLosesSession(r, s) \/ \E p \in Proof : VerifyAccepts(r, s, p)
       /\ UNCHANGED gateVars
  \/ Send(r) /\ UNCHANGED <<gateVars, ceremonyVars>>

Settle(r) ==
  /\ Finish(r) \/ FinishSpend(r) \/ FinishRelease(r)
  /\ UNCHANGED ceremonyVars

(* The client goes away: before it has its answer, or as none ever comes.  *)
GoAway(r) == Disconnects /\ Disconnect(r) /\ UNCHANGED ceremonyVars
StopWaiting(r) == HangUp(r) /\ UNCHANGED <<gateVars, ceremonyVars>>

RequestStep(r) ==
  /\ Arrive(r) \/ Route(r) \/ Proceed(r) \/ Settle(r) \/ GoAway(r) \/ StopWaiting(r)
  /\ UNCHANGED <<now, restarts>>

Next == Tick \/ Restart \/ \E r \in Req : RequestStep(r)

Spec == Init /\ [][Next]_vars

(* The event loop runs what is ready: a request that has arrived is routed *)
(* and carried to its response and its finish event.  Nothing obliges a    *)
(* client to send a request, or time to pass.                              *)
Fairness ==
  \A r \in Req :
    WF_vars((Route(r) \/ Proceed(r) \/ Settle(r)) /\ UNCHANGED <<now, restarts>>)

FairSpec == Spec /\ Fairness

---------------------------------------------------------------------------

TypeOK == SessionsTypeOK /\ GateTypeOK /\ CeremonyTypeOK /\ restarts \in Nat

(* A forceReverify gate lets one request at a time run on a proof          *)
(* (gate.ts:10-13), however many carry the same session.                   *)
ExclusiveClaim ==
  \A r, q \in Req : r # q /\ held[r] # NoProof => held[q] # held[r]

(* Once an action has succeeded with a proof, no gate claims the proof     *)
(* again within CLAIM_TTL of that claim, however stale the copy of the     *)
(* session the request carries (gate.ts:46-47).                            *)
Reclaims(p) == \E r \in Req : held[r] # p /\ held'[r] = p

NoReuseWithinTTL ==
  [][\A p \in DOMAIN spentAt : Reclaims(p) => now - spentAt[p] > ClaimTTL]_vars

(* Every claim is somebody's: a request still in flight will settle it, or *)
(* an action succeeded with the proof.  A proof is never lost to a request *)
(* that failed (gate.ts:47-48).                                            *)
ClaimAccountedFor ==
  \A p \in DOMAIN claimedProofs :
    p \in DOMAIN spentAt \/ \E r \in Req : held[r] = p

(* Why the two hold: a claim lives as long as the request that holds it,   *)
(* since no request outlasts the TTL, and a proof spent within the TTL is  *)
(* still claimed since then, its last holder on the way to finishing.      *)
HeldClaim(r) ==
  held[r] # NoProof =>
    /\ phase[r] \in {"acting", "responding", "sent"}
    /\ held[r] \in DOMAIN claimedProofs /\ claimedProofs[held[r]] = heldAt[r]
    /\ since[r] <= heldAt[r]
    /\ phase[r] # "acting" /\ reply[r] = "done" => held[r] \in DOMAIN spentAt

Timely(r) == InFlight(r) => since[r] <= now /\ now <= since[r] + RequestLimit

SpentClaim(p) ==
  now - spentAt[p] <= ClaimTTL =>
    /\ p \in DOMAIN claimedProofs /\ claimedProofs[p] = spentAt[p]
    /\ \A r \in Req : held[r] = p => phase[r] # "acting" /\ reply[r] = "done"

ClaimInv ==
  /\ \A r \in Req : HeldClaim(r) /\ Timely(r)
  /\ \A p \in DOMAIN spentAt : SpentClaim(p)
  /\ ExclusiveClaim

(* The gate keeps the promise of OneShotProof: a proof is taken while it is*)
(* claimed, running until the holder of the claim has succeeded or is gone,*)
(* and spent if an action has succeeded on this very claim, however        *)
(* requests, session copies and the pruning of old claims interleave.  No  *)
(* proof of a failed action is lost unless clients go away (gate.ts:9-14). *)
Taken(p) == p \in DOMAIN claimedProofs /\ now - claimedProofs[p] <= ClaimTTL

RunsOn(r, p) == held[r] = p /\ (phase[r] = "acting" \/ reply[r] # "done")
Running(p) == \E r \in Req : RunsOn(r, p)

Succeeded(p) == p \in DOMAIN spentAt /\ spentAt[p] = claimedProofs[p]

ProofStatus ==
  [p \in Proof |-> CASE ~ Taken(p)                              -> "free"
                     [] Taken(p) /\ Running(p)                   -> "running"
                     [] Taken(p) /\ ~ Running(p) /\ Succeeded(p) -> "spent"
                     [] OTHER                                    -> "lost"]
TakenAt == [p \in Proof |-> IF Taken(p) THEN claimedProofs[p] ELSE 0]

OneShot == INSTANCE OneShotProof WITH
  TTL <- ClaimTTL, MayAbandon <- Disconnects, status <- ProofStatus, taken <- TakenAt, epoch <- restarts

ImplementsOneShot == OneShot!Spec

(* A proof only ever lives in the session generated for it, in the store   *)
(* and in every copy, and that session's id was unknown to any client      *)
(* before: an id planted in a browser beforehand never becomes verified    *)
(* (pavel.ts:176).                                                         *)
ProofAtHome(s, data) ==
  LET p == data.pavel.proofId
  IN  p # NoProof => p \in DOMAIN granted /\ granted[p].sid = s

NoFixation ==
  /\ \A s \in DOMAIN store : ProofAtHome(s, store[s])
  /\ \A r \in Req : ProofAtHome(sid[r], session[r])

FreshHome ==
  [][\A p \in DOMAIN granted' : p \notin DOMAIN granted => granted'[p].sid \notin issued]_vars

(* A challenge never leaves the session it was minted in, nor changes the  *)
(* age it was minted for (core types.ts:28, "single-use, session-bound").  *)
ChallengeAtHome(s, pending) ==
  pending # NoPending =>
    /\ pending.nonce \in DOMAIN minted
    /\ minted[pending.nonce] = [sid |-> s, minAge |-> pending.minAge]

SessionBound ==
  /\ \A s \in DOMAIN store : ChallengeAtHome(s, store[s].pending)
  /\ \A r \in Req : /\ ChallengeAtHome(sid[r], session[r].pending)
                    /\ ChallengeAtHome(sid[r], ticket[r])

(* Expiry is looked at once, before the verifier is awaited (pavel.ts:112):*)
(* a proof may be granted on a challenge that has expired by then, but only*)
(* to a request that came while the challenge lived.                       *)
Verifies(r) == reply[r] # "verified" /\ reply'[r] = "verified"

GrantedInTime ==
  [][\A r \in Req :
       Verifies(r) =>
         /\ since[r] <= ticket[r].expiresAt
         /\ now <= ticket[r].expiresAt + RequestLimit]_vars

(* Why: what a request verifies was alive when it looked, and no request   *)
(* stays in flight for longer than RequestLimit.                           *)
InTime(r) ==
  Timely(r) /\ (phase[r] = "verifying" => since[r] <= ticket[r].expiresAt)

(* The eligibility fact is earned: whoever a gate for age a lets through   *)
(* has shown, in the session's own challenge and to this site, a credential*)
(* that passed every check and says its holder is at least as old as some  *)
(* age no lower than a.                                                    *)
Earned(p, age) ==
  /\ p \in DOMAIN granted
  /\ LET g == granted[p]
     IN  /\ g.challenge.minAge = age
         /\ g.challenge.nonce \in DOMAIN minted
         /\ minted[g.challenge.nonce] = [sid |-> g.from, minAge |-> age]
         /\ \E pr \in g.shown :
              /\ pr.nonce = g.challenge.nonce /\ pr.ours
              /\ pr.card.response.elements[age] = "true"
              /\ \A v \in DOMAIN pr.card.verdict : pr.card.verdict[v]

Passes(r, a) == (Admit(r, a) \/ Claim(r, a)) /\ UNCHANGED <<ceremonyVars, now, restarts>>

GateSound ==
  [][\A r \in Req, a \in Age :
       Passes(r, a) =>
         \E age \in Age : age >= a /\ Earned(ProofOf(r), age)]_vars

(* Why these hold: the fact in a session is the one its proof was granted  *)
(* for, every grant was earned, and a handler that has a challenge in hand *)
(* has it from its own session, with one presentation to judge it by.      *)
FactAtHome(s, data) ==
  data.pavel.proofId # NoProof =>
    /\ data.pavel.proofId \in DOMAIN granted
    /\ granted[data.pavel.proofId].sid = s
    /\ granted[data.pavel.proofId].challenge.minAge = data.pavel.minAge

FactsAtHome ==
  /\ \A s \in DOMAIN store : FactAtHome(s, store[s])
  /\ \A r \in Req : FactAtHome(sid[r], session[r])

InHand(r) ==
  /\ phase[r] \in {"building", "signing", "verifying"} <=> ticket[r] # NoPending
  /\ phase[r] = "verifying" => \E p \in Presentation : shown[r] = {p}

GrantsEarned ==
  \A p \in DOMAIN granted :
    granted[p].challenge.minAge \in Age /\ Earned(p, granted[p].challenge.minAge)

BindingInv ==
  FactsAtHome /\ SessionBound /\ GrantsEarned /\ \A r \in Req : InHand(r)

(* One challenge, one proof (pavel.ts:172).                                *)
ChallengeSingleUse ==
  \A p, q \in DOMAIN granted :
    granted[p].challenge.nonce = granted[q].challenge.nonce => p = q

(* A verification carries over whatever of the application's data its      *)
(* session held at that moment (middleware README:91, "your app's own      *)
(* session data is carried over").                                         *)
AppDataCarried ==
  [][\A r \in Req :
       Verifies(r) /\ sid[r] \in DOMAIN store =>
         session'[r].app = store[sid[r]].app]_vars

(* "The proof is used up by the first guarded request that succeeds"       *)
(* (middleware README:116): no live session is left with a proof once the  *)
(* request it let through has succeeded and finished.                      *)
SpentProofForgotten ==
  \A s \in DOMAIN store :
    LET p == store[s].pavel.proofId
    IN  p \in DOMAIN spentAt => \E r \in Req : held[r] = p

(* Used once, ever (types.ts:50: "claim it exactly once").                 *)
NeverReused == [][\A p \in DOMAIN spentAt : ~ Reclaims(p)]_vars

(* The last four hold of a client that awaits each answer before it asks   *)
(* again, so that no session has two requests in flight.                   *)
OneAtATime == \A r, q \in Req : InFlight(r) /\ sid[q] = sid[r] => q = r

OneAtATimeSpec == Init /\ [][Next /\ OneAtATime']_vars

(* Why: the copy of a request is the stored session until it is changed,   *)
(* since nobody else writes that, and what a request holds it has from its *)
(* own session; a challenge answered is nowhere any more when its session  *)
(* is destroyed; and neither is a proof spent, but where the request that  *)
(* spent it still stands.                                                  *)
CopyCurrent(r) ==
  phase[r] \in {"loaded", "building", "signing", "verifying"} /\ sid[r] \in DOMAIN store =>
    session[r] = store[sid[r]]

KnownSid(r) == phase[r] = "loaded" /\ ProofOf(r) # NoProof => sid[r] \in issued

HoldsItsOwn(r) ==
  held[r] # NoProof =>
    /\ phase[r] \in {"acting", "responding", "sent"}
    /\ ProofOf(r) = held[r] /\ sid[r] \in issued

CarryInv ==
  /\ DOMAIN store \subseteq issued
  /\ \A r \in Req : CopyCurrent(r) /\ KnownSid(r) /\ HoldsItsOwn(r)

Unanswered(pending) == \A p \in DOMAIN granted : granted[p].challenge.nonce # pending.nonce

SingleUseInv ==
  /\ \A s \in DOMAIN store : Unanswered(store[s].pending)
  /\ \A r \in Req : Unanswered(session[r].pending) /\ Unanswered(ticket[r])
  /\ ChallengeSingleUse

Holds(r, p) == held[r] = p /\ reply[r] = "done" /\ phase[r] \in {"responding", "sent"}

SpentInv ==
  /\ DOMAIN spentAt \subseteq DOMAIN granted
  /\ \A r \in Req, p \in DOMAIN spentAt : ProofOf(r) = p \/ held[r] = p => Holds(r, p)
  /\ SpentProofForgotten

(* Together: one request at a time is why no copy is stale, no challenge   *)
(* answered twice, and no spent proof left (gate.ts:51-53, pavel.ts:173).  *)
SerialInv == OneAtATime /\ CarryInv /\ SingleUseInv /\ SpentInv

(* Every request gets its answer and lets go of its slot, but a GET whose  *)
(* builder rejects: nothing answers that (BuildRejects; pavel.ts:68 and :83*)
(* stand in no try, while pavel.ts:125-170 catches what a POST awaits).    *)
RequestsComplete ==
  \A r \in Req : []<>(phase[r] \in {"idle", "unanswered"})

(* A claim never just stays: the proof is spent or it is free again.       *)
ClaimsSettle ==
  \A p \in Proof :
    []<> (p \in DOMAIN claimedProofs => p \in DOMAIN spentAt)
=============================================================================
