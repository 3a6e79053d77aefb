--------------------------- MODULE OneShotProofs ---------------------------
(***************************************************************************)
(* The one-shot gate implements OneShotProof, for every number of requests,*)
(* sessions and proofs: the refinement the run claims checks on an instance.*)
(***************************************************************************)
EXTENDS MiddlewareProofs

USE DEF sessionVars, gateVars, ceremonyVars

(* What a claim that is held, or that pruning keeps, looks like from above.*)
LEMMA HeldIsTaken ==
  ASSUME TypeOK, ClaimInv, RequestLimit <= ClaimTTL
  PROVE  /\ \A r \in Req : held[r] # NoProof => Taken(held[r])
         /\ \A p \in Proof : Taken(p) <=> p \in DOMAIN Pruned
         /\ \A p \in Proof, r \in Req : RunsOn(r, p) => held[r] # NoProof
<1>1. \A p \in Proof : Taken(p) <=> p \in DOMAIN Pruned
  BY DEF Taken, Pruned, Restrict
<1>2. \A r \in Req : held[r] # NoProof => held[r] \in Proof /\ held[r] \in DOMAIN Pruned
  BY PruningKeepsClaims DEF TypeOK, GateTypeOK
<1>3. \A p \in Proof, r \in Req : RunsOn(r, p) => held[r] # NoProof
  BY SessionsAssumption DEF RunsOn
<1> QED
  BY <1>1, <1>2, <1>3

(* Nothing of what the refinement shows has changed.                       *)
LEMMA SameAbove ==
  ASSUME UNCHANGED <<now, restarts>>,
         \A p \in Proof : /\ Taken(p)' <=> Taken(p)
                          /\ Taken(p) => claimedProofs'[p] = claimedProofs[p]
                          /\ Taken(p) => (Running(p)' <=> Running(p))
                          /\ Taken(p) => (Succeeded(p)' <=> Succeeded(p))
  PROVE  UNCHANGED OneShot!vars
<1>1. ProofStatus' = ProofStatus
  BY DEF ProofStatus
<1>2. TakenAt' = TakenAt
  BY DEF TakenAt
<1> QED
  BY <1>1, <1>2 DEF OneShot!vars

LEMMA QuietAbove ==
  ASSUME TypeOK, ClaimInv, NEW r \in Req, Quiet(r), UNCHANGED restarts
  PROVE  UNCHANGED OneShot!vars
<1>1. \A p \in Proof : Taken(p)' <=> Taken(p)
  BY DEF Quiet, Taken
<1>2. \A p \in Proof, q \in Req : RunsOn(q, p)' <=> RunsOn(q, p)
  BY SessionsAssumption DEF Quiet, RunsOn
<1>3. \A p \in Proof : Running(p)' <=> Running(p)
  BY <1>2 DEF Running
<1>4. \A p \in Proof : Succeeded(p)' <=> Succeeded(p)
  BY DEF Quiet, Succeeded
<1> QED
  BY <1>1, <1>3, <1>4, SameAbove DEF Quiet

(* Pruning shows nothing: what it forgets was not taken any more.          *)
LEMMA DenyAbove ==
  ASSUME TypeOK, ClaimInv, RequestLimit <= ClaimTTL,
         NEW r \in Req, NEW a \in Age, DenyClaimed(r, a), UNCHANGED <<now, restarts>>
  PROVE  UNCHANGED OneShot!vars
<1>1. /\ claimedProofs' = Pruned /\ UNCHANGED <<held, spentAt>>
      /\ \A q \in Req \ {r} : phase'[q] = phase[q] /\ reply'[q] = reply[q]
  BY DEF DenyClaimed, Deny, Respond, Goto, TypeOK, SessionsTypeOK
<1>2. held[r] = NoProof
  BY DEF ClaimInv, HeldClaim, DenyClaimed
<1>3. \A p \in Proof : /\ Taken(p)' <=> Taken(p)
                       /\ Taken(p) => claimedProofs'[p] = claimedProofs[p]
  BY <1>1 DEF Taken, Pruned, Restrict
<1>4. \A p \in Proof, q \in Req : RunsOn(q, p)' <=> RunsOn(q, p)
  BY <1>1, <1>2, SessionsAssumption DEF RunsOn
<1>5. \A p \in Proof : Running(p)' <=> Running(p)
  BY <1>4 DEF Running
<1>6. \A p \in Proof : Taken(p) => (Succeeded(p)' <=> Succeeded(p))
  BY <1>1, <1>3 DEF Succeeded
<1> QED
  BY <1>3, <1>5, <1>6, SameAbove

(* A gate that claims a proof takes it.                                    *)
LEMMA ClaimAbove ==
  ASSUME TypeOK, ClaimInv, RequestLimit <= ClaimTTL,
         NEW r \in Req, NEW a \in Age, Claim(r, a), UNCHANGED <<now, restarts>>
  PROVE  OneShot!Next
<1>1. PICK p \in Proof : p = ProofOf(r) /\ p \notin DOMAIN Pruned
  BY DEF Claim, Satisfied, ProofOf, TypeOK, SessionsTypeOK, Session, PavelSessionState
<1>2. /\ claimedProofs' = Put(Pruned, p, now)
      /\ held' = [held EXCEPT ![r] = p] /\ phase' = [phase EXCEPT ![r] = "acting"]
      /\ UNCHANGED <<reply, spentAt, now, restarts>>
  BY <1>1 DEF Claim, Goto
<1>3. held[r] = NoProof
  BY DEF ClaimInv, HeldClaim, Claim
<1>4. ~ Taken(p) /\ Taken(p)' /\ claimedProofs'[p] = now
  <2>1. ~ Taken(p)
    BY <1>1, HeldIsTaken
  <2>2. p \in DOMAIN claimedProofs' /\ claimedProofs'[p] = now
    BY <1>2 DEF Put
  <2>3. now \in Nat /\ now' = now
    BY DEF TypeOK, SessionsTypeOK
  <2> QED
    BY <2>1, <2>2, <2>3, GateAssumption DEF Taken
<1>5. ASSUME NEW x \in Proof, x # p
      PROVE  /\ Taken(x)' <=> Taken(x)
             /\ Taken(x) => claimedProofs'[x] = claimedProofs[x]
             /\ Running(x)' <=> Running(x)
             /\ Taken(x) => (Succeeded(x)' <=> Succeeded(x))
  <2>1. x \in DOMAIN claimedProofs' <=> x \in DOMAIN Pruned
    BY <1>2, <1>5 DEF Put
  <2>2. x \in DOMAIN Pruned => claimedProofs'[x] = claimedProofs[x]
    BY <1>2, <1>5, PrunedType DEF Put
  <2>3. Taken(x) <=> x \in DOMAIN Pruned
    BY HeldIsTaken
  <2>4. Taken(x)' <=> Taken(x)
    BY <1>2, <2>1, <2>2, <2>3 DEF Taken
  <2>5. \A q \in Req : RunsOn(q, x)' <=> RunsOn(q, x)
    BY <1>2, <1>3, <1>5, SessionsAssumption DEF RunsOn, TypeOK, SessionsTypeOK, GateTypeOK
  <2> QED
    BY <1>2, <2>2, <2>3, <2>4, <2>5 DEF Running, Succeeded
<1>6. Running(p)'
  BY <1>2 DEF Running, RunsOn, TypeOK, SessionsTypeOK, GateTypeOK
<1>7. ProofStatus[p] = "free" /\ ProofStatus' = [ProofStatus EXCEPT ![p] = "running"]
  BY <1>1, <1>4, <1>5, <1>6 DEF ProofStatus
<1>8. TakenAt' = [TakenAt EXCEPT ![p] = now]
  BY <1>1, <1>4, <1>5 DEF TakenAt
<1>9. OneShot!Take(p)
  BY <1>2, <1>7, <1>8 DEF OneShot!Take
<1> QED
  BY <1>1, <1>9 DEF OneShot!Next

(* No two requests run on one proof: when the only one stops, the proof is *)
(* spent or lost.                                                          *)
LEMMA StopAbove ==
  ASSUME TypeOK, ClaimInv, RequestLimit <= ClaimTTL, NEW r \in Req, NEW p \in Proof,
         RunsOn(r, p), UNCHANGED <<claimedProofs, now, restarts>>,
         \A x \in Proof : ~ RunsOn(r, x)',
         \A q \in Req \ {r}, x \in Proof : RunsOn(q, x)' <=> RunsOn(q, x),
         \A x \in Proof : x # p => (Succeeded(x)' <=> Succeeded(x))
  PROVE  /\ Succeeded(p)' => OneShot!UseUp(p)
         /\ ~ Succeeded(p)' /\ Disconnects => OneShot!Abandon(p)
<1>1. Running(p)
  BY DEF Running
<1>2. ~ Running(p)'
  BY SessionsAssumption DEF Running, RunsOn, ClaimInv, ExclusiveClaim
<1>3. \A x \in Proof : Taken(x)' <=> Taken(x)
  BY DEF Taken
<1>4. Taken(p)
  BY HeldIsTaken, SessionsAssumption DEF RunsOn
<1>5. \A x \in Proof : x # p => (Running(x)' <=> Running(x))
  BY DEF Running, RunsOn
<1>6. ProofStatus[p] = "running"
  BY <1>1, <1>4 DEF ProofStatus
<1>7. ProofStatus' = [ProofStatus EXCEPT ![p] = IF Succeeded(p)' THEN "spent" ELSE "lost"]
  BY <1>2, <1>3, <1>4, <1>5 DEF ProofStatus
<1>8. TakenAt' = TakenAt
  BY <1>3 DEF TakenAt
<1> QED
  BY <1>6, <1>7, <1>8 DEF OneShot!UseUp, OneShot!Abandon

LEMMA ActionAbove ==
  ASSUME TypeOK, ClaimInv, RequestLimit <= ClaimTTL, NEW r \in Req, NEW answer, NEW data,
         ActionResponds(r, answer, data), UNCHANGED <<now, restarts>>
  PROVE  OneShot!Next \/ UNCHANGED OneShot!vars
<1>1. /\ phase[r] = "acting" /\ answer \in {"done", "failed"}
      /\ phase' = [phase EXCEPT ![r] = "responding"] /\ reply' = [reply EXCEPT ![r] = answer]
      /\ spentAt' = IF answer = "done" /\ held[r] # NoProof
                      THEN Put(spentAt, held[r], heldAt[r]) ELSE spentAt
      /\ UNCHANGED <<claimedProofs, held>>
  BY DEF ActionResponds, Respond, Goto
<1>2. /\ phase'[r] = "responding" /\ reply'[r] = answer
      /\ \A q \in Req \ {r} : phase'[q] = phase[q] /\ reply'[q] = reply[q]
  BY <1>1 DEF TypeOK, SessionsTypeOK
<1>3. \A q \in Req \ {r}, x \in Proof : RunsOn(q, x)' <=> RunsOn(q, x)
  BY <1>1, <1>2 DEF RunsOn
<1>4. CASE answer = "done" /\ held[r] # NoProof
  <2>1. PICK p \in Proof : p = held[r]
    BY <1>4 DEF TypeOK, GateTypeOK
  <2>2. RunsOn(r, p) /\ \A x \in Proof : ~ RunsOn(r, x)'
    BY <1>1, <1>2, <1>4, <2>1 DEF RunsOn
  <2>3. Succeeded(p)' /\ \A x \in Proof : x # p => (Succeeded(x)' <=> Succeeded(x))
    BY <1>1, <1>4, <2>1 DEF Succeeded, Put, ClaimInv, HeldClaim
  <2>4. OneShot!UseUp(p)
    BY <1>1, <1>3, <2>2, <2>3, StopAbove
  <2> QED
    BY <2>4 DEF OneShot!Next
<1>5. CASE ~ (answer = "done" /\ held[r] # NoProof)
  <2>1. \A x \in Proof : RunsOn(r, x)' <=> RunsOn(r, x)
    BY <1>1, <1>2, <1>5, SessionsAssumption DEF RunsOn
  <2>2. \A x \in Proof : Running(x)' <=> Running(x)
    BY <1>3, <2>1 DEF Running
  <2>3. \A x \in Proof : (Taken(x)' <=> Taken(x)) /\ (Succeeded(x)' <=> Succeeded(x))
    BY <1>1, <1>5 DEF Taken, Succeeded
  <2> QED
    BY <1>1, <2>2, <2>3, SameAbove
<1> QED
  BY <1>4, <1>5

(* The end of a request that has succeeded shows nothing; that of one that *)
(* has not gives its proof back, or abandons it if its client went away.   *)
LEMMA SettleAbove ==
  ASSUME TypeOK, ClaimInv, RequestLimit <= ClaimTTL, NEW r \in Req,
         Settle(r) \/ GoAway(r), UNCHANGED <<now, restarts>>
  PROVE  OneShot!Next \/ UNCHANGED OneShot!vars
<1>1. /\ phase[r] = "sent"
      /\ phase' = [phase EXCEPT ![r] = "idle"] /\ reply' = [reply EXCEPT ![r] = "none"]
      /\ held' = [held EXCEPT ![r] = NoProof] /\ UNCHANGED spentAt
  BY DEF Settle, GoAway, Finish, FinishSpend, FinishRelease, Disconnect, CloseGate, Close, End, Goto
<1>2. \A q \in Req \ {r}, x \in Proof : RunsOn(q, x)' <=> RunsOn(q, x)
  BY <1>1 DEF RunsOn, TypeOK, SessionsTypeOK, GateTypeOK
<1>3. \A x \in Proof : ~ RunsOn(r, x)'
  BY <1>1, SessionsAssumption DEF RunsOn, TypeOK, GateTypeOK
<1>4. CASE held[r] = NoProof \/ reply[r] = "done"
  <2>1. UNCHANGED claimedProofs
    BY <1>4 DEF Settle, GoAway, Finish, FinishSpend, FinishRelease, Disconnect
  <2>2. \A x \in Proof : ~ RunsOn(r, x)
    BY <1>1, <1>4, SessionsAssumption DEF RunsOn
  <2>3. \A x \in Proof : Running(x)' <=> Running(x)
    BY <1>2, <1>3, <2>2 DEF Running
  <2>4. \A x \in Proof : (Taken(x)' <=> Taken(x)) /\ (Succeeded(x)' <=> Succeeded(x))
    BY <1>1, <2>1 DEF Taken, Succeeded
  <2> QED
    BY <2>1, <2>3, <2>4, SameAbove
<1>5. CASE held[r] # NoProof /\ reply[r] # "done"
  <2>1. PICK p \in Proof : p = held[r]
    BY <1>5 DEF TypeOK, GateTypeOK
  <2>2. RunsOn(r, p)
    BY <1>5, <2>1 DEF RunsOn
  <2>3. CASE GoAway(r)
    <3>1. Disconnects /\ UNCHANGED claimedProofs
      BY <2>3 DEF GoAway, Disconnect
    <3>2. \A x \in Proof : Succeeded(x)' <=> Succeeded(x)
      BY <1>1, <3>1 DEF Succeeded
    <3>3. OneShot!UseUp(p) \/ OneShot!Abandon(p)
      BY <1>2, <1>3, <2>2, <3>1, <3>2, StopAbove
    <3> QED
      BY <3>3 DEF OneShot!Next
  <2>4. CASE claimedProofs' = Without(claimedProofs, p)
    <3>1. Taken(p) /\ ~ Taken(p)'
      BY <1>5, <2>1, <2>4, HeldIsTaken DEF Taken, Without, Restrict
    <3>2. \A x \in Proof : x # p => /\ Taken(x)' <=> Taken(x)
                                    /\ Taken(x) => claimedProofs'[x] = claimedProofs[x]
      BY <2>4 DEF Taken, Without, Restrict
    <3>3. \A x \in Proof : x # p => /\ Running(x)' <=> Running(x)
                                    /\ Taken(x) => (Succeeded(x)' <=> Succeeded(x))
      BY <1>1, <1>2, <1>3, <2>1, <3>2 DEF Running, RunsOn, Succeeded
    <3>4. Running(p)
      BY <2>2 DEF Running
    <3>5. ProofStatus[p] = "running" /\ ProofStatus' = [ProofStatus EXCEPT ![p] = "free"]
      BY <3>1, <3>2, <3>3, <3>4 DEF ProofStatus
    <3>6. TakenAt' = [TakenAt EXCEPT ![p] = 0]
      BY <3>1, <3>2 DEF TakenAt
    <3>7. OneShot!GiveBack(p)
      BY <3>5, <3>6 DEF OneShot!GiveBack
    <3> QED
      BY <3>7 DEF OneShot!Next
  <2> QED
    BY <1>5, <2>1, <2>3, <2>4
       DEF Settle, Finish, FinishSpend, FinishRelease
<1> QED
  BY <1>4, <1>5

(* Time frees what was spent or lost longer ago than the TTL, and nothing  *)
(* that a request still runs on.                                           *)
LEMMA TickAbove ==
  ASSUME TypeOK, ClaimInv, RequestLimit <= ClaimTTL, Tick
  PROVE  OneShot!Next
<1>1. now \in Nat /\ now' = now + 1 /\ ClaimTTL \in Nat /\ UNCHANGED claimedProofs
  BY GateAssumption DEF Tick, TypeOK, SessionsTypeOK
<1>2. \A p \in Proof : Running(p)' <=> Running(p)
  BY DEF Tick, Running, RunsOn
<1>3. \A p \in Proof : p \in DOMAIN claimedProofs => claimedProofs[p] \in Nat
  BY DEF TypeOK, GateTypeOK
<1>4. \A p \in Proof : Taken(p)' <=>
                         p \in DOMAIN claimedProofs /\ now + 1 - claimedProofs[p] <= ClaimTTL
  BY <1>1, <1>3 DEF Taken
<1>5. \A p \in Proof : Running(p) => Taken(p)'
  <2> SUFFICES ASSUME NEW p \in Proof, NEW r \in Req, RunsOn(r, p) PROVE Taken(p)'
    BY DEF Running
  <2>1. /\ InFlight(r) /\ p \in DOMAIN claimedProofs
        /\ claimedProofs[p] = heldAt[r] /\ since[r] <= heldAt[r]
    BY SessionsAssumption DEF RunsOn, ClaimInv, HeldClaim, InFlight
  <2>2. now < since[r] + RequestLimit
    BY <2>1 DEF Tick
  <2> QED
    BY <1>1, <1>4, <2>1, <2>2, MiddlewareAssumption DEF TypeOK, SessionsTypeOK, GateTypeOK
<1>6. \A p \in Proof : Taken(p)' => Taken(p)
  BY <1>1, <1>3, <1>4 DEF Taken
<1>7. \A p \in Proof : OneShot!Lapsed(p) <=> Taken(p) /\ ~ Taken(p)'
  <2> SUFFICES ASSUME NEW p \in Proof PROVE OneShot!Lapsed(p) <=> Taken(p) /\ ~ Taken(p)'
    OBVIOUS
  <2>1. ProofStatus[p] \in {"spent", "lost"} <=> Taken(p) /\ ~ Running(p)
    BY DEF ProofStatus
  <2>2. Taken(p) => TakenAt[p] = claimedProofs[p] /\ p \in DOMAIN claimedProofs
    BY DEF TakenAt, Taken
  <2> QED
    BY <1>1, <1>3, <1>4, <1>5, <2>1, <2>2 DEF OneShot!Lapsed
<1>8. ProofStatus' = [p \in Proof |-> IF OneShot!Lapsed(p) THEN "free" ELSE ProofStatus[p]]
  <2>1. \A p \in Proof : Succeeded(p)' <=> Succeeded(p)
    BY DEF Tick, Succeeded
  <2> QED
    BY <1>2, <1>6, <1>7, <2>1 DEF ProofStatus
<1>9. TakenAt' = [p \in Proof |-> IF OneShot!Lapsed(p) THEN 0 ELSE TakenAt[p]]
  BY <1>1, <1>6, <1>7 DEF TakenAt
<1>10. OneShot!Tick
  BY <1>1, <1>8, <1>9 DEF OneShot!Tick, Tick
<1> QED
  BY <1>10 DEF OneShot!Next

LEMMA RestartAbove ==
  ASSUME Restart
  PROVE  OneShot!Next
<1>1. \A p \in Proof : ~ Taken(p)'
  BY DEF Restart, Taken
<1>2. ProofStatus' = [p \in Proof |-> "free"] /\ TakenAt' = [p \in Proof |-> 0]
  BY <1>1 DEF ProofStatus, TakenAt
<1> QED
  BY <1>2 DEF Restart, OneShot!Restart, OneShot!Next

LEMMA InitAbove == Init => OneShot!Init
<1> SUFFICES ASSUME Init PROVE OneShot!Init
  OBVIOUS
<1>1. \A p \in Proof : ~ Taken(p)
  BY DEF Init, GateInit, Taken
<1> QED
  BY <1>1 DEF Init, SessionsInit, OneShot!Init, ProofStatus, TakenAt

LEMMA NextAbove ==
  ASSUME RequestLimit <= ClaimTTL, TypeOK, ClaimInv, [Next]_vars
  PROVE  [OneShot!Next]_(OneShot!vars)
<1>1. ASSUME NEW r \in Req, RequestStep(r) PROVE OneShot!Next \/ UNCHANGED OneShot!vars
  <2>0. UNCHANGED <<now, restarts>>
    BY <1>1 DEF RequestStep
  <2>1. CASE Arrive(r)
    BY <2>0, <2>1, ArriveIsQuiet, QuietAbove
  <2>2. CASE Route(r)
    <3>1. ASSUME NEW a \in Age, Admit(r, a)
          PROVE  OneShot!Next \/ UNCHANGED OneShot!vars
      <4>1. Quiet(r)
        BY <2>0, <3>1, MoveIsQuiet DEF Admit, InFlight
      <4> QED
        BY <2>0, <4>1, QuietAbove
    <3>2. ASSUME NEW a \in Age, DenyClaimed(r, a) \/ Claim(r, a)
          PROVE  OneShot!Next \/ UNCHANGED OneShot!vars
      BY <2>0, <3>2, DenyAbove, ClaimAbove
    <3>3. CASE \A a \in Age : ~ Admit(r, a) /\ ~ DenyClaimed(r, a) /\ ~ Claim(r, a)
      <4>1. UNCHANGED gateVars
        BY <2>2, <3>3 DEF Route, DenyUnproven
      <4> QED
        BY <2>0, <2>2, <3>3, <4>1, RouteIsQuiet, QuietAbove
    <3> QED
      BY <3>1, <3>2, <3>3
  <2>3. CASE Proceed(r)
    BY <2>0, <2>3, ActionAbove, HandlerIsQuiet, UnansweredIsQuiet, AcceptIsQuiet,
       SendIsQuiet, QuietAbove DEF Proceed
  <2>4. CASE Settle(r) \/ GoAway(r)
    BY <2>0, <2>4, SettleAbove
  <2>5. CASE StopWaiting(r)
    BY <2>0, <2>5, UnansweredIsQuiet, QuietAbove DEF StopWaiting
  <2> QED
    BY <1>1, <2>1, <2>2, <2>3, <2>4, <2>5 DEF RequestStep
<1>2. CASE UNCHANGED vars
  <2>1. \A p \in Proof : Taken(p)' <=> Taken(p)
    BY <1>2 DEF vars, Taken
  <2>2. \A p \in Proof : Running(p)' <=> Running(p)
    BY <1>2 DEF vars, Running, RunsOn
  <2>3. \A p \in Proof : Succeeded(p)' <=> Succeeded(p)
    BY <1>2 DEF vars, Succeeded
  <2> QED
    BY <1>2, <2>1, <2>2, <2>3, SameAbove DEF vars
<1> QED
  BY <1>1, <1>2, TickAbove, RestartAbove DEF Next

(* A one-shot gate lets one action at a time run on a proof and uses the   *)
(* proof up for the TTL if the action succeeds, and only then; one that    *)
(* fails gives the proof back, or, only where clients may go away, loses it*)
(* for the TTL; whatever else goes on in the process, provided no request  *)
(* outlasts the TTL (gate.ts:9-60).                                        *)
THEOREM GateImplementsOneShot ==
  ASSUME RequestLimit <= ClaimTTL
  PROVE  Spec => ImplementsOneShot
<1>1. TypeOK /\ ClaimInv /\ [Next]_vars => [OneShot!Next]_(OneShot!vars)
  BY NextAbove
<1> QED
  BY <1>1, InitAbove, TypeCorrect, ClaimsConsistent, PTL
     DEF Spec, ImplementsOneShot, OneShot!Spec
=============================================================================
