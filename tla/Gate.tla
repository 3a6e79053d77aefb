-------------------------------- MODULE Gate --------------------------------
(***************************************************************************)
(* requireAgeProof (middleware/src/gate.ts): the guard in front of a       *)
(* route.  A plain gate only looks at the session.  A one-shot gate        *)
(* (forceReverify) also claims the proof in the process-wide map           *)
(* claimedProofs before the route runs, and settles the claim in a         *)
(* listener on the response's 'finish' event.                              *)
(***************************************************************************)
EXTENDS Sessions

CONSTANT ClaimTTL   \* CLAIM_TTL_MS: a claim older than this is pruned

ASSUME GateAssumption == ClaimTTL \in Nat

VARIABLES
  claimedProofs,  \* Map<proofId, claimedAt>
  held,           \* the proof a request's finish listener holds, or NoProof
  heldAt,         \* when it was claimed
  spentAt         \* history: proofs an action succeeded with, and the claim's time

gateVars == <<claimedProofs, held, heldAt, spentAt>>

GateInit ==
  /\ claimedProofs = [p \in {} |-> 0]
  /\ held = [r \in Req |-> NoProof]
  /\ heldAt = [r \in Req |-> 0]
  /\ spentAt = [p \in {} |-> 0]

GateTypeOK ==
  /\ DOMAIN claimedProofs \subseteq Proof
  /\ \A p \in DOMAIN claimedProofs : claimedProofs[p] \in Nat
  /\ held \in [Req -> Proof \cup {NoProof}]
  /\ heldAt \in [Req -> Nat]
  /\ DOMAIN spentAt \subseteq Proof /\ \A p \in DOMAIN spentAt : spentAt[p] \in Nat

ProofOf(r) == session[r].pavel.proofId

(* Variants of Satisfied: only a proof for a higher age will do, or one for*)
(* any age.                                                                *)
SatisfiedAbove(r, minAge) ==
  ProofOf(r) # NoProof /\ session[r].pavel.minAge > minAge

SatisfiedAtAnyAge(r, minAge) == ProofOf(r) # NoProof

Satisfied(r, minAge) ==
  ProofOf(r) # NoProof /\ session[r].pavel.minAge >= minAge

(* Variant of Pruned: a claim exactly CLAIM_TTL old is pruned.             *)
PrunedAtTTL ==
  Restrict(claimedProofs,
           {p \in DOMAIN claimedProofs : now - claimedProofs[p] < ClaimTTL})

(* pruneClaims(now)                                                        *)
Pruned ==
  Restrict(claimedProofs,
           {p \in DOMAIN claimedProofs : now - claimedProofs[p] <= ClaimTTL})

Deny(r) == Respond(r, session[r], "age_verification_required")

---------------------------------------------------------------------------

DenyUnproven(r, minAge) ==
  /\ phase[r] = "loaded"
  /\ ~ Satisfied(r, minAge)
  /\ Deny(r)
  /\ UNCHANGED gateVars

Admit(r, minAge) ==
  /\ phase[r] = "loaded"
  /\ Satisfied(r, minAge)
  /\ Goto(r, "acting")
  /\ UNCHANGED <<store, issued, sid, session, dirty, reply, since, gateVars>>

DenyClaimed(r, minAge) ==
  /\ phase[r] = "loaded"
  /\ Satisfied(r, minAge)
  /\ ProofOf(r) \in DOMAIN Pruned
  /\ claimedProofs' = Pruned
  /\ Deny(r)
  /\ UNCHANGED <<held, heldAt, spentAt>>

(* Variant of Claim: claims without looking whether the proof is claimed.  *)
ClaimUnchecked(r, minAge) ==
  /\ phase[r] = "loaded"
  /\ Satisfied(r, minAge)
  /\ claimedProofs' = Put(Pruned, ProofOf(r), now)
  /\ held' = [held EXCEPT ![r] = ProofOf(r)]
  /\ heldAt' = [heldAt EXCEPT ![r] = now]
  /\ Goto(r, "acting")
  /\ UNCHANGED <<store, issued, sid, session, dirty, reply, since, spentAt>>

Claim(r, minAge) ==
  /\ phase[r] = "loaded"
  /\ Satisfied(r, minAge)
  /\ ProofOf(r) \notin DOMAIN Pruned
  /\ claimedProofs' = Put(Pruned, ProofOf(r), now)
  /\ held' = [held EXCEPT ![r] = ProofOf(r)]
  /\ heldAt' = [heldAt EXCEPT ![r] = now]
  /\ Goto(r, "acting")
  /\ UNCHANGED <<store, issued, sid, session, dirty, reply, since, spentAt>>

(* The guarded route runs and responds, leaving its own data in the        *)
(* session.  "done" is a status below 400, "failed" one of 400 or above.   *)
ActionResponds(r, answer, data) ==
  /\ phase[r] = "acting"
  /\ answer \in {"done", "failed"}
  /\ Respond(r, [session[r] EXCEPT !.app = data], answer)
  /\ spentAt' = IF answer = "done" /\ held[r] # NoProof
                  THEN Put(spentAt, held[r], heldAt[r]) ELSE spentAt
  /\ UNCHANGED <<claimedProofs, held, heldAt>>

CloseGate(r) ==
  /\ Close(r)
  /\ held' = [held EXCEPT ![r] = NoProof]
  /\ heldAt' = [heldAt EXCEPT ![r] = 0]
  /\ UNCHANGED spentAt

(* 'finish' of a request no one-shot gate let through: nobody listens.     *)
Finish(r) ==
  /\ phase[r] = "sent"
  /\ held[r] = NoProof
  /\ CloseGate(r)
  /\ UNCHANGED <<store, claimedProofs>>

(* Variants of FinishSpend: the claim is released as well, or the session  *)
(* keeps the proof.                                                        *)
FinishSpendReleases(r) ==
  /\ phase[r] = "sent"
  /\ held[r] # NoProof
  /\ reply[r] = "done"
  /\ IF ProofOf(r) = held[r]
       THEN Save(r, [session[r] EXCEPT !.pavel = Unverified])
       ELSE UNCHANGED store
  /\ CloseGate(r)
  /\ claimedProofs' = Without(claimedProofs, held[r])

FinishSpendKeepsProof(r) ==
  /\ phase[r] = "sent"
  /\ held[r] # NoProof
  /\ reply[r] = "done"
  /\ CloseGate(r)
  /\ UNCHANGED <<store, claimedProofs>>

(* 'finish' after success: the proof leaves the session, the claim stays.  *)
FinishSpend(r) ==
  /\ phase[r] = "sent"
  /\ held[r] # NoProof
  /\ reply[r] = "done"
  /\ IF ProofOf(r) = held[r]
       THEN Save(r, [session[r] EXCEPT !.pavel = Unverified])
       ELSE UNCHANGED store
  /\ CloseGate(r)
  /\ UNCHANGED claimedProofs

(* Variant of FinishRelease: the claim stays.                              *)
FinishReleaseKeepsClaim(r) ==
  /\ phase[r] = "sent"
  /\ held[r] # NoProof
  /\ reply[r] # "done"
  /\ CloseGate(r)
  /\ UNCHANGED <<store, claimedProofs>>

(* 'finish' after failure: the claim is released for a retry.              *)
FinishRelease(r) ==
  /\ phase[r] = "sent"
  /\ held[r] # NoProof
  /\ reply[r] # "done"
  /\ claimedProofs' = Without(claimedProofs, held[r])
  /\ CloseGate(r)
  /\ UNCHANGED store

(* The client went away before the response was handed over: the session   *)
(* was saved, but 'finish' is never emitted.                               *)
Disconnect(r) ==
  /\ phase[r] = "sent"
  /\ CloseGate(r)
  /\ UNCHANGED <<store, claimedProofs>>
=============================================================================
