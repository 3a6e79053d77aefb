----------------------------- MODULE ShopProofs -----------------------------
(***************************************************************************)
(* The shop implements the middleware: whatever its page and its server do *)
(* is something Middleware allows, so what is proved of any clients holds  *)
(* for this one too.                                                       *)
(***************************************************************************)
EXTENDS Shop, OneAtATimeProofs, OneShotProofs

(* What the server needs to know of a request: it shows presentations.     *)
AsksPresent == asked \in [Req -> Asks]

LEMMA FreshIsFresh ==
  /\ FreshSid \subseteq Sid
  /\ Drawn(Nonce \ DOMAIN minted) \subseteq Nonce
  /\ Drawn(Proof \ DOMAIN granted) \subseteq Proof
<1>1. ASSUME NEW S PROVE Drawn(S) \subseteq S
  <2>1. CASE S # {}
    <3>1. (CHOOSE x \in S : TRUE) \in S
      BY <2>1
    <3> QED
      BY <2>1, <3>1 DEF Drawn
  <2> QED
    BY <2>1 DEF Drawn
<1> QED
  BY <1>1 DEF FreshSid

(* A fetch is an arrival.                                                  *)
LEMMA FetchArrives ==
  ASSUME TypeOK, NEW r \in Req, NEW ask, Fetch(r, ask)
  PROVE  RequestStep(r)
<1>1. \E s \in Sid : Resume(r, s) \/ Visit(r, s)
  <2>1. CASE jar \in DOMAIN store /\ Resume(r, jar)
    BY <2>1 DEF TypeOK, SessionsTypeOK
  <2>2. CASE \E s \in FreshSid : Visit(r, s)
    BY <2>2, FreshIsFresh
  <2> QED
    BY <2>1, <2>2 DEF Fetch
<1> QED
  BY <1>1 DEF Fetch, RequestStep, Arrive

(* What the server does with a request is a route's step...                *)
LEMMA HandleRoutes ==
  ASSUME AsksPresent, NEW r \in Req, Handle(r)
  PROVE  Route(r)
<1>0. MinAge \in Age /\ NoApp \in App
  BY ShopAssumption, SessionsAssumption
<1>1. CASE \E data \in App \ {NoApp} :
             AppRequest(r, "done", data) /\ UNCHANGED <<gateVars, ceremonyVars>>
  BY <1>1 DEF Route
<1>2. CASE CheckoutGate(r)
  BY <1>0, <1>2 DEF CheckoutGate, Route
<1>3. CASE CheckoutUnguarded(r)
  BY <1>0, <1>3 DEF CheckoutUnguarded, Route
<1>4. CASE \E n \in Drawn(Nonce \ DOMAIN minted) : Mint(r, n, MinAge) /\ UNCHANGED gateVars
  BY <1>0, <1>4, FreshIsFresh DEF Route
<1>5. CASE /\ \/ RejectUnchallenged(r) \/ RejectExpired(r)
              \/ \E p \in asked[r].shown : StartVerify(r, p)
           /\ UNCHANGED gateVars
  BY <1>5 DEF Route, AsksPresent, Asks
<1> QED
  BY <1>1, <1>2, <1>3, <1>4, <1>5 DEF Handle

(* ... or a handler's.                                                     *)
LEMMA ResolveProceeds ==
  ASSUME NEW r \in Req, Resolve(r)
  PROVE  Proceed(r)
<1>1. CASE PlaceOrder(r)
  <2>1. ActionResponds(r, "done", NoApp) /\ UNCHANGED ceremonyVars /\ NoApp \in App
    BY <1>1, SessionsAssumption DEF PlaceOrder
  <2> QED
    BY <2>1 DEF Proceed
<1>2. CASE /\ \/ AwaitGoogle(r) \/ IssueUnsigned(r) \/ IssueWithGoogle(r) \/ VerifyRejects(r)
              \/ \E s \in FreshSid, p \in Drawn(Proof \ DOMAIN granted) : VerifyAccepts(r, s, p)
           /\ UNCHANGED gateVars
  BY <1>2, FreshIsFresh DEF Proceed
<1> QED
  BY <1>1, <1>2 DEF Resolve

LEMMA ServerSteps ==
  ASSUME AsksPresent, NEW r \in Req,
         Serve(r) \/ ServerMishap(r) \/ Dropped(r) \/ Answer(r)
  PROVE  RequestStep(r)
<1>1. CASE Serve(r)
  BY <1>1, HandleRoutes, ResolveProceeds DEF Serve, RequestStep
<1>2. CASE ServerMishap(r)
  <2>1. CASE VerifyThrows(r) /\ UNCHANGED gateVars
    BY <1>2, <2>1 DEF ServerMishap, Proceed, RequestStep
  <2>2. CASE (\E s \in FreshSid : VerifyLosesSession(r, s)) /\ UNCHANGED gateVars
    BY <1>2, <2>2, FreshIsFresh DEF ServerMishap, Proceed, RequestStep
  <2>3. CASE BuildRejects(r) /\ UNCHANGED gateVars
    BY <1>2, <2>3 DEF ServerMishap, Proceed, RequestStep
  <2> QED
    BY <1>2, <2>1, <2>2, <2>3 DEF ServerMishap
<1>3. CASE Answer(r)
  BY <1>3 DEF Answer, Proceed, RequestStep
<1>4. CASE Dropped(r)
  BY <1>4 DEF Dropped, RequestStep
<1> QED
  BY <1>1, <1>2, <1>3, <1>4

(* All the page ever does is fetch, or nothing the server could notice;    *)
(* and what it shows is a presentation.                                    *)
PageOnly == UNCHANGED vars /\ (UNCHANGED asked \/ Lose)

FetchesSoundly(r) ==
  \E ask \in Asks : Fetch(r, ask)

LEMMA AskType ==
  /\ \A path \in Paths : Ask(path) \in Asks
  /\ \A force \in BOOLEAN : [Ask("/api/checkout") EXCEPT !.force = force] \in Asks
  /\ \A p \in Presentation : [Ask("/pavel/verify") EXCEPT !.shown = {p}] \in Asks
BY DEF Ask, Asks, Paths

LEMMA PagePosts ==
  ASSUME NEW r \in Req,
         AddToCart(r) \/ Checkout(r) \/ Reorder(r) \/ Prefetch(r)
  PROVE  FetchesSoundly(r)
<1>1. CASE AddToCart(r)
  BY <1>1, AskType DEF AddToCart, FetchesSoundly, Paths
<1>2. CASE Prefetch(r)
  BY <1>2, AskType DEF Prefetch, AskChallenge, FetchesSoundly, Paths
<1>3. CASE Checkout(r) \/ Reorder(r)
  <2>1. PICK force \in BOOLEAN :
          Fetch(r, [Ask("/api/checkout") EXCEPT !.force = force])
    BY <1>3 DEF Checkout, Reorder, PostCheckout
  <2> QED
    BY <2>1, AskType DEF FetchesSoundly
<1> QED
  BY <1>1, <1>2, <1>3

LEMMA PageChecks ==
  ASSUME NEW r \in Req, RunAgeCheck(r) \/ \E p \in Presentation : Present(r, p, MinAge)
  PROVE  FetchesSoundly(r) \/ PageOnly
<1>1. CASE RunAgeCheck(r)
  BY <1>1, AskType DEF RunAgeCheck, Begin, AskChallenge, netVars, FetchesSoundly, PageOnly,
                       Paths
<1>2. CASE \E p \in Presentation : Present(r, p, MinAge)
  <2>1. PICK p \in Presentation : Present(r, p, MinAge)
    BY <1>2
  <2> QED
    BY <2>1, AskType DEF Present, FetchesSoundly
<1> QED
  BY <1>1, <1>2

LEMMA PageListens ==
  ASSUME \/ \E answer \in inbox :
              \/ HearCart(answer) \/ HearCheckout(answer) \/ HearPrefetched(answer)
              \/ HearChallenge(answer) \/ HearVerdict(answer)
         \/ GiveUp
         \/ PageFails \/ PrefetchFails \/ CheckFails
         \/ \E reason \in Reasons : WalletRefuses(reason)
  PROVE  PageOnly
BY DEF HearCart, HearCheckout, HearPrefetched, HearChallenge, HearVerdict, Hear, GiveUp,
       PageFails, PrefetchFails, CheckFails, WalletRefuses, Lose, clientVars, netVars,
       PageOnly

LEMMA PageSteps ==
  ASSUME PageStep \/ PageMishap \/ \E r \in Req : Prefetch(r)
  PROVE  PageOnly \/ \E r \in Req : FetchesSoundly(r)
BY PagePosts, PageChecks, PageListens DEF PageStep, PageMishap

LEMMA LossKeepsAsks ==
  ASSUME AsksPresent, Lose
  PROVE  AsksPresent'
<1>1. asked' = [r \in Req |-> [asked[r] EXCEPT !.gone = @ \/ r = call]]
  BY DEF Lose
<1>2. ASSUME NEW a \in Asks, NEW gone \in BOOLEAN PROVE [a EXCEPT !.gone = gone] \in Asks
  BY DEF Asks
<1>3. ASSUME NEW r \in Req PROVE (asked[r].gone \/ r = call) \in BOOLEAN
  OBVIOUS
<1> QED
  BY <1>1, <1>2, <1>3 DEF AsksPresent

LEMMA FetchKeepsAsks ==
  ASSUME AsksPresent, NEW q \in Req, FetchesSoundly(q)
  PROVE  AsksPresent'
BY DEF AsksPresent, FetchesSoundly, Fetch

(* One step of the shop is one of the middleware, or none.                 *)
LEMMA ShopStep ==
  ASSUME TypeOK, AsksPresent, [ShopNext]_shopVars
  PROVE  [Next]_vars /\ AsksPresent'
<1>1. CASE \E r \in Req : Serve(r) \/ ServerMishap(r) \/ Dropped(r) \/ Reply(r)
  <2>1. UNCHANGED asked
    BY <1>1 DEF Serve, ServerMishap, Dropped, Reply, Answer, clientVars, netVars
  <2> QED
    BY <1>1, <2>1, ServerSteps DEF Reply, AsksPresent, Next
<1>2. CASE PageStep \/ PageMishap \/ \E r \in Req : Prefetch(r)
  <2>1. CASE PageOnly
    BY <2>1, LossKeepsAsks DEF PageOnly, AsksPresent
  <2>2. CASE \E r \in Req : FetchesSoundly(r)
    BY <2>2, FetchArrives, FetchKeepsAsks DEF FetchesSoundly, Next
  <2> QED
    BY <1>2, <2>1, <2>2, PageSteps
<1>3. CASE ShopTick
  BY <1>3 DEF ShopTick, Next, clientVars, netVars, AsksPresent
<1>4. CASE UNCHANGED shopVars
  BY <1>4 DEF shopVars, clientVars, netVars, AsksPresent
<1> QED
  BY <1>1, <1>2, <1>3, <1>4 DEF ShopNext

(* The shop, however its page and its user go about it and whatever gets   *)
(* lost, implements the middleware with any clients (server.ts:106-147     *)
(* mounts pavel.router and the gates on the shop's own routes).            *)
THEOREM ShopImplementsMiddleware == ShopSpec => Spec
<1>1. ShopInit => Init /\ TypeOK /\ AsksPresent
  BY AskType, InitType DEF ShopInit, ClientInit, AsksPresent, Paths
<1>2. TypeOK /\ AsksPresent /\ [ShopNext]_shopVars => [Next]_vars /\ TypeOK' /\ AsksPresent'
  BY ShopStep, NextType
<1> QED
  BY <1>1, <1>2, PTL DEF ShopSpec, Spec

(* Hence the shop's gate lets nobody through unproven (server.ts:191).     *)
THEOREM ShopGatesSound == ShopSpec => GateSound
BY ShopImplementsMiddleware, GatesSound, PTL

(* Its gate for every purchase keeps what a one-shot gate promises         *)
(* (gate.ts:9-60), however the page retries and whatever it gives up.      *)
THEOREM ShopImplementsOneShot ==
  ASSUME RequestLimit <= ClaimTTL
  PROVE  ShopSpec => ImplementsOneShot
BY ShopImplementsMiddleware, GateImplementsOneShot, PTL

(* Its pages are verified only on challenges that were alive when their    *)
(* answer came (pavel.ts:112).                                             *)
THEOREM ShopGrantsInTime == ShopSpec => GrantedInTime
BY ShopImplementsMiddleware, GrantsInTime, PTL

(* And no id planted in its browser becomes verified (pavel.ts:176).       *)
THEOREM ShopNoSessionFixation == ShopSpec => []NoFixation
BY ShopImplementsMiddleware, NoSessionFixation, PTL

---------------------------------------------------------------------------
(* What the browser keeps.                                                 *)

NetTypeOK ==
  /\ jar \in Sid \cup {NoSid}
  /\ asked \in [Req -> Asks]
  /\ call \in Req \cup {NoReq}
  /\ inbox \subseteq [cookie: Sid \cup {NoSid}, reply: Replies, challenge: Nonce \cup {NoNonce}]

ProofVarsOK ==
  /\ offered \in Nonce \cup {NoNonce}
  /\ step \in {"idle", "prefetching", "fetching", "wallet", "posting"}
  /\ result \in Reasons \cup {"none", "ok"}

LEMMA NetStep ==
  ASSUME TypeOK, NetTypeOK, AsksPresent, AsksPresent',
         \/ UNCHANGED netVars
         \/ \E r \in Req : Answer(r) \/ FetchesSoundly(r)
         \/ \E answer \in inbox : Hear(answer)
         \/ Lose
  PROVE  NetTypeOK'
<1>1. asked' \in [Req -> Asks]
  BY DEF AsksPresent
<1>2. CASE UNCHANGED netVars
  BY <1>2 DEF netVars, NetTypeOK
<1>3. ASSUME NEW r \in Req, Answer(r) PROVE NetTypeOK'
  <2>1. [cookie |-> IF dirty[r] THEN sid[r] ELSE NoSid, reply |-> reply[r],
         challenge |-> session[r].pending.nonce] \in
          [cookie: Sid \cup {NoSid}, reply: Replies, challenge: Nonce \cup {NoNonce}]
    BY DEF TypeOK, SessionsTypeOK, Session, PendingRequest
  <2> QED
    BY <1>1, <1>3, <2>1 DEF Answer, NetTypeOK
<1>4. ASSUME NEW r \in Req, FetchesSoundly(r) PROVE NetTypeOK'
  BY <1>1, <1>4 DEF FetchesSoundly, Fetch, NetTypeOK
<1>5. \A answer \in inbox : Accept(answer.cookie) \in Sid \cup {NoSid}
  BY DEF Accept, NetTypeOK
<1>6. CASE (\E answer \in inbox : Hear(answer)) \/ Lose
  BY <1>1, <1>5, <1>6 DEF Hear, Lose, NetTypeOK
<1> QED
  BY <1>2, <1>3, <1>4, <1>6

(* What a step of the page does to the cookie, the call and the answer.    *)
LEMMA PageNet ==
  ASSUME PageStep \/ PageMishap \/ \E r \in Req : Prefetch(r)
  PROVE  \/ UNCHANGED netVars
         \/ \E r \in Req : FetchesSoundly(r)
         \/ \E answer \in inbox : Hear(answer)
         \/ Lose
<1>1. CASE \E r \in Req : AddToCart(r) \/ Checkout(r) \/ Reorder(r) \/ Prefetch(r)
  BY <1>1, PagePosts
<1>2. ASSUME NEW r \in Req, RunAgeCheck(r)
      PROVE  UNCHANGED netVars \/ FetchesSoundly(r)
  BY <1>2, AskType DEF RunAgeCheck, Begin, AskChallenge, FetchesSoundly, Paths
<1>3. ASSUME NEW r \in Req, NEW p \in Presentation, Present(r, p, MinAge)
      PROVE  FetchesSoundly(r)
  BY <1>3, AskType DEF Present, FetchesSoundly
<1>4. ASSUME NEW answer \in inbox,
             \/ HearCart(answer) \/ HearCheckout(answer) \/ HearPrefetched(answer)
             \/ HearChallenge(answer) \/ HearVerdict(answer)
      PROVE  Hear(answer)
  BY <1>4 DEF HearCart, HearCheckout, HearPrefetched, HearChallenge, HearVerdict
<1>5. CASE GiveUp \/ \E reason \in Reasons : WalletRefuses(reason)
  BY <1>5 DEF GiveUp, WalletRefuses
<1>6. CASE PageFails \/ PrefetchFails \/ CheckFails
  BY <1>6 DEF PageFails, PrefetchFails, CheckFails
<1> QED
  BY <1>1, <1>2, <1>3, <1>4, <1>5, <1>6 DEF PageStep, PageMishap

LEMMA PageCeremony ==
  ASSUME NetTypeOK, ProofVarsOK, view \in Views,
         PageStep \/ PageMishap \/ \E r \in Req : Prefetch(r) /\ UNCHANGED view
  PROVE  ProofVarsOK' /\ view' \in Views
<1>1. view' \in Views
  BY DEF PageStep, PageMishap, AddToCart, Checkout, RunAgeCheck, Reorder, HearCart, HearCheckout,
         GiveUp, PageFails, Show, Views
<1>2. CASE \E r \in Req : AddToCart(r) \/ Checkout(r) \/ Reorder(r) \/ Prefetch(r) \/ RunAgeCheck(r)
  BY <1>1, <1>2 DEF AddToCart, Checkout, Reorder, Prefetch, RunAgeCheck, Begin, proofVars, ProofVarsOK
<1>3. CASE \E r \in Req, p \in Presentation : Present(r, p, MinAge)
  BY <1>1, <1>3 DEF Present, ProofVarsOK
<1>4. ASSUME NEW answer \in inbox,
             \/ HearCart(answer) \/ HearCheckout(answer) \/ HearPrefetched(answer)
             \/ HearChallenge(answer)
      PROVE  ProofVarsOK'
  BY <1>4 DEF HearCart, HearCheckout, HearPrefetched, HearChallenge, proofVars, NetTypeOK,
              ProofVarsOK
<1>5. ASSUME NEW answer \in inbox, HearVerdict(answer)
      PROVE  ProofVarsOK'
  <2>1. PavelResult(answer.reply) \in Reasons \cup {"ok"}
    BY DEF PavelResult, ReasonForOutcome, Reasons
  <2> QED
    BY <1>5, <2>1 DEF HearVerdict, Return, ProofVarsOK
<1>6. CASE GiveUp \/ PageFails
  BY <1>1, <1>6 DEF GiveUp, PageFails, proofVars, ProofVarsOK
<1>7. CASE PrefetchFails \/ CheckFails \/ \E reason \in Reasons : WalletRefuses(reason)
  BY <1>1, <1>7 DEF PrefetchFails, CheckFails, WalletRefuses, Return, Reasons, ProofVarsOK, Core!Outcomes
<1> QED
  BY <1>1, <1>2, <1>3, <1>4, <1>5, <1>6, <1>7 DEF PageStep, PageMishap

LEMMA MishapsCounted ==
  ASSUME mishaps \in Nat, [ShopNext]_shopVars
  PROVE  mishaps' \in Nat
<1>1. UNCHANGED mishaps \/ Mishap
  BY DEF ShopNext, Serve, ServerMishap, Dropped, Reply, Prefetch, PageStep, PageMishap,
         AddToCart, Checkout, RunAgeCheck, Begin, Reorder, Present, HearCart, HearCheckout, HearPrefetched,
         HearChallenge, HearVerdict, GiveUp, PageFails, PrefetchFails, CheckFails, WalletRefuses,
         Lose, ShopTick, shopVars, clientVars
<1> QED
  BY <1>1 DEF Mishap

LEMMA OrdersAppended ==
  ASSUME TypeOK, orders \in Seq(Proof \cup {NoProof}), [ShopNext]_shopVars
  PROVE  orders' \in Seq(Proof \cup {NoProof})
<1>1. \/ UNCHANGED orders
      \/ \E p \in Proof \cup {NoProof} : orders' = Append(orders, p)
  <2>1. CASE \E r \in Req : Serve(r)
    <3>1. PICK r \in Req : Serve(r)
      BY <2>1
    <3>2. held[r] \in Proof \cup {NoProof}
      BY DEF TypeOK, GateTypeOK
    <3> QED
      BY <3>1, <3>2 DEF Serve, Handle, CheckoutGate, CheckoutUnguarded, Resolve, PlaceOrder
  <2>2. CASE \E r \in Req : \/ ServerMishap(r) \/ Dropped(r) \/ Reply(r)
                            \/ Prefetch(r) /\ UNCHANGED <<view, orders>>
    BY <2>2 DEF ServerMishap, Dropped, Reply
  <2>3. CASE PageStep \/ PageMishap
    BY <2>3 DEF PageStep, PageMishap, AddToCart, Checkout, RunAgeCheck, Reorder, HearCart,
                HearCheckout, GiveUp, PageFails, Show
  <2>4. CASE ShopTick \/ UNCHANGED shopVars
    BY <2>4 DEF ShopTick, shopVars
  <2> QED
    BY <2>1, <2>2, <2>3, <2>4 DEF ShopNext
<1> QED
  BY <1>1

LEMMA ShopTypeStep ==
  ASSUME ShopTypeOK, [ShopNext]_shopVars
  PROVE  ShopTypeOK'
<1>0. NetTypeOK /\ ProofVarsOK /\ AsksPresent /\ view \in Views
  BY DEF ShopTypeOK, ClientTypeOK, NetTypeOK, ProofVarsOK, AsksPresent
<1>1. TypeOK' /\ AsksPresent'
  BY <1>0, ShopStep, NextType DEF ShopTypeOK
<1>2. NetTypeOK' /\ ProofVarsOK' /\ view' \in Views
  <2>1. CASE \E r \in Req : Serve(r) \/ ServerMishap(r) \/ Dropped(r)
    <3>1. UNCHANGED <<jar, call, inbox, asked, proofVars, view>>
      BY <2>1 DEF Serve, ServerMishap, Dropped, clientVars, netVars, proofVars
    <3> QED
      BY <1>0, <3>1 DEF proofVars, NetTypeOK, ProofVarsOK
  <2>2. CASE \E r \in Req : Reply(r)
    <3>1. UNCHANGED <<proofVars, view>>
      BY <2>2 DEF Reply
    <3> QED
      BY <1>0, <1>1, <2>2, <3>1, NetStep DEF Reply, ShopTypeOK, proofVars, ProofVarsOK
  <2>3. CASE PageStep \/ PageMishap \/ \E r \in Req : Prefetch(r) /\ UNCHANGED <<view, orders>>
    BY <1>0, <1>1, <2>3, PageNet, NetStep, PageCeremony DEF ShopTypeOK
  <2>4. CASE ShopTick \/ UNCHANGED shopVars
    BY <1>0, <2>4 DEF ShopTick, shopVars, clientVars, netVars, proofVars, NetTypeOK, ProofVarsOK
  <2> QED
    BY <2>1, <2>2, <2>3, <2>4 DEF ShopNext
<1>3. mishaps' \in Nat /\ orders' \in Seq(Proof \cup {NoProof})
  BY MishapsCounted, OrdersAppended DEF ShopTypeOK, ClientTypeOK
<1> QED
  BY <1>1, <1>2, <1>3 DEF ShopTypeOK, ClientTypeOK, NetTypeOK, ProofVarsOK

(* The browser, the page and the server keep to their types, the result of *)
(* a check among them: one of the reasons the client's README names, or ok.*)
THEOREM ShopTypeCorrect == ShopSpec => []ShopTypeOK
<1>1. ShopInit => ShopTypeOK
  BY InitType, AskType DEF ShopInit, ClientInit, ShopTypeOK, ClientTypeOK, Views, Paths
<1> QED
  BY <1>1, ShopTypeStep, PTL DEF ShopSpec

---------------------------------------------------------------------------
(* Orders and what they were placed on.                                    *)

OrderInv ==
  /\ orders \in Seq(Proof \cup {NoProof})
  /\ \A i \in DOMAIN orders : orders[i] # NoProof => orders[i] \in DOMAIN spentAt
  /\ FreshProofPerOrder
  /\ now <= MaxTime

Idle == UNCHANGED <<orders, spentAt>>

LEMMA FetchIsIdle ==
  ASSUME UNCHANGED orders, PageOnly \/ \E r \in Req : FetchesSoundly(r)
  PROVE  Idle /\ UNCHANGED now
BY DEF Idle, PageOnly, FetchesSoundly, Fetch, vars, gateVars

LEMMA HandleAndOrders ==
  ASSUME NEW r \in Req, Handle(r)
  PROVE  Idle \/ (CheckoutUnguarded(r) /\ UNCHANGED spentAt)
<1>1. CASE CheckoutGate(r)
  BY <1>1 DEF CheckoutGate, DenyUnproven, Admit, DenyClaimed, Claim, gateVars, Idle
<1>2. CASE CheckoutUnguarded(r)
  BY <1>2 DEF CheckoutUnguarded, gateVars
<1> QED
  BY <1>1, <1>2 DEF Handle, gateVars, Idle

(* Only the checkout route touches the orders or what was spent.           *)
LEMMA OrdersMove ==
  ASSUME [ShopNext]_shopVars
  PROVE  \/ Idle
         \/ \E r \in Req : CheckoutUnguarded(r) /\ UNCHANGED <<spentAt, now>>
         \/ \E r \in Req : PlaceOrder(r) /\ UNCHANGED now
<1>1. CASE \E r \in Req : Serve(r)
  <2>1. PICK r \in Req : Serve(r)
    BY <1>1
  <2>2. UNCHANGED now
    BY <2>1 DEF Serve
  <2>3. CASE Handle(r)
    BY <2>2, <2>3, HandleAndOrders
  <2>4. CASE Resolve(r)
    BY <2>2, <2>4 DEF Resolve, gateVars, Idle
  <2>5. CASE Settle(r) /\ UNCHANGED orders
    BY <2>5 DEF Settle, Finish, FinishSpend, FinishRelease, CloseGate, Idle
  <2> QED
    BY <2>1, <2>3, <2>4, <2>5 DEF Serve
<1>2. CASE \E r \in Req : ServerMishap(r) \/ Dropped(r) \/ Reply(r)
  BY <1>2 DEF ServerMishap, Dropped, GoAway, Disconnect, CloseGate, StopWaiting, Reply, Answer,
              gateVars, Idle
<1>3. CASE PageStep \/ PageMishap \/ \E r \in Req : Prefetch(r) /\ UNCHANGED <<view, orders>>
  <2>1. UNCHANGED orders
    BY <1>3 DEF PageStep, PageMishap, AddToCart, Checkout, RunAgeCheck, Reorder, HearCart,
                HearCheckout, GiveUp, PageFails, Show
  <2> QED
    BY <1>3, <2>1, PageSteps, FetchIsIdle
<1>4. CASE ShopTick \/ UNCHANGED shopVars
  BY <1>4 DEF ShopTick, Tick, shopVars, vars, gateVars, Idle
<1> QED
  BY <1>1, <1>2, <1>3, <1>4 DEF ShopNext

LEMMA AppendKeepsOrders ==
  ASSUME OrderInv, NEW p \in Proof \cup {NoProof}, orders' = Append(orders, p),
         DOMAIN spentAt \subseteq DOMAIN spentAt', now' <= MaxTime,
         p # NoProof => p \in DOMAIN spentAt' /\ p \notin DOMAIN spentAt
  PROVE  OrderInv'
<1>1. /\ orders' \in Seq(Proof \cup {NoProof})
      /\ DOMAIN orders' = DOMAIN orders \cup {Len(orders) + 1}
      /\ orders'[Len(orders) + 1] = p
      /\ \A i \in DOMAIN orders : orders'[i] = orders[i]
  BY DEF OrderInv
<1>2. \A i \in DOMAIN orders' : orders'[i] # NoProof => orders'[i] \in DOMAIN spentAt'
  BY <1>1 DEF OrderInv
<1>3. ASSUME NEW i \in DOMAIN orders', NEW j \in DOMAIN orders',
             orders'[i] = orders'[j], orders'[i] # NoProof
      PROVE  i = j
  BY <1>1, <1>3 DEF OrderInv, FreshProofPerOrder
<1> QED
  BY <1>1, <1>2, <1>3 DEF OrderInv, FreshProofPerOrder

LEMMA OrderStep ==
  ASSUME MaxTime <= ClaimTTL, TypeOK, ClaimInv, OrderInv, [ShopNext]_shopVars, [Next]_vars
  PROVE  OrderInv'
<1>1. now' <= MaxTime
  BY MiddlewareAssumption DEF Next, Tick, Restart, RequestStep, vars, OrderInv, TypeOK,
                              SessionsTypeOK
<1>2. CASE Idle
  BY <1>1, <1>2 DEF Idle, OrderInv, FreshProofPerOrder
<1>3. CASE \E r \in Req : CheckoutUnguarded(r) /\ UNCHANGED <<spentAt, now>>
  BY <1>1, <1>2, <1>3, AppendKeepsOrders DEF CheckoutUnguarded, Idle
<1>4. CASE \E r \in Req : PlaceOrder(r) /\ UNCHANGED now
  <2>1. PICK r \in Req : PlaceOrder(r)
    BY <1>4
  <2>2. /\ orders' = Append(orders, held[r]) /\ phase[r] = "acting"
        /\ spentAt' = IF held[r] # NoProof THEN Put(spentAt, held[r], heldAt[r]) ELSE spentAt
        /\ held[r] \in Proof \cup {NoProof}
    BY <2>1 DEF PlaceOrder, ActionResponds, TypeOK, GateTypeOK
  <2>3. /\ DOMAIN spentAt \subseteq DOMAIN spentAt'
        /\ held[r] # NoProof => held[r] \in DOMAIN spentAt'
    BY <2>2 DEF Put
  <2>4. ASSUME held[r] # NoProof PROVE held[r] \notin DOMAIN spentAt
    <3> SUFFICES ASSUME held[r] \in DOMAIN spentAt PROVE FALSE
      OBVIOUS
    <3>1. now - spentAt[held[r]] <= ClaimTTL
      BY MiddlewareAssumption, GateAssumption
         DEF OrderInv, TypeOK, GateTypeOK, SessionsTypeOK
    <3> QED
      BY <2>2, <2>4, <3>1 DEF ClaimInv, SpentClaim
  <2> QED
    BY <1>1, <2>2, <2>3, <2>4, AppendKeepsOrders
<1> QED
  BY <1>2, <1>3, <1>4, OrdersMove

(* Until a first CLAIM_TTL has passed, no two orders under forceReverify   *)
(* go through on one age check (server.ts:189), whatever was lost, retried *)
(* or given up in between.                                                 *)
THEOREM OneCheckPerOrder ==
  ASSUME RequestLimit <= ClaimTTL, MaxTime <= ClaimTTL
  PROVE  ShopSpec => []FreshProofPerOrder
<1>1. ShopInit => OrderInv
  BY MiddlewareAssumption DEF ShopInit, Init, SessionsInit, OrderInv, FreshProofPerOrder
<1>2. TypeOK /\ ClaimInv /\ OrderInv /\ [ShopNext]_shopVars /\ [Next]_vars => OrderInv'
  BY OrderStep
<1>3. OrderInv => FreshProofPerOrder
  BY DEF OrderInv
<1> QED
  BY <1>1, <1>2, <1>3, ShopImplementsMiddleware, TypeCorrect, ClaimsConsistent, PTL
     DEF ShopSpec, Spec

---------------------------------------------------------------------------
(* What such an order stands on, at any time.                              *)

EarnedInv ==
  /\ orders \in Seq(Proof \cup {NoProof})
  /\ \A i \in DOMAIN orders : orders[i] # NoProof => orders[i] \in DOMAIN spentAt
  /\ OrdersEarned
  /\ \A r \in Req, p \in Proof : held[r] = p => EarnedHere(p)

(* What a proof was granted for and what a challenge was minted for stays. *)
LEMMA HistoryGrows ==
  ASSUME [Next]_vars
  PROVE  /\ \A p \in DOMAIN granted : p \in DOMAIN granted' /\ granted'[p] = granted[p]
         /\ \A n \in DOMAIN minted : n \in DOMAIN minted' /\ minted'[n] = minted[n]
<1>1. CASE Tick \/ Restart \/ UNCHANGED vars
  BY <1>1 DEF Tick, Restart, vars, ceremonyVars
<1>2. ASSUME NEW r \in Req, RequestStep(r), ~ UNCHANGED <<granted, minted>>
      PROVE  \/ \E n \in Nonce, a \in Age : Mint(r, n, a)
             \/ \E s \in Sid, p \in Proof : VerifyAccepts(r, s, p)
  BY <1>2 DEF RequestStep, Arrive, Route, RejectMinAge, RejectUnchallenged, RejectExpired,
              RejectBody, RespondCeremony, StartVerify, Proceed, AwaitGoogle, IssueUnsigned,
              IssueWithGoogle, Issue, BuildRejects, VerifyThrows, VerifyRejects,
              VerifyLosesSession, Settle, GoAway, StopWaiting, ceremonyVars
<1>3. ASSUME NEW r \in Req, NEW n \in Nonce, NEW a \in Age, Mint(r, n, a)
      PROVE  /\ UNCHANGED granted
             /\ \A m \in DOMAIN minted : m \in DOMAIN minted' /\ minted'[m] = minted[m]
  BY <1>3 DEF Mint, Put
<1>4. ASSUME NEW r \in Req, NEW s \in Sid, NEW p \in Proof, VerifyAccepts(r, s, p)
      PROVE  /\ UNCHANGED minted
             /\ \A q \in DOMAIN granted : q \in DOMAIN granted' /\ granted'[q] = granted[q]
  BY <1>4 DEF VerifyAccepts, Grant, Put
<1> QED
  BY <1>1, <1>2, <1>3, <1>4 DEF Next

LEMMA EarnedStays ==
  ASSUME [Next]_vars, NEW p, EarnedHere(p)
  PROVE  EarnedHere(p)'
<1>1. PICK age \in Age : age >= MinAge /\ Earned(p, age)
  BY DEF EarnedHere
<1>2. Earned(p, age)'
  BY <1>1, HistoryGrows DEF Earned
<1> QED
  BY <1>1, <1>2 DEF EarnedHere

(* Only the shop's own gate hands out a claim.                             *)
LEMMA HeldMoves ==
  ASSUME TypeOK, [ShopNext]_shopVars, NEW r \in Req
  PROVE  held'[r] \in {held[r], NoProof} \/ (held'[r] = ProofOf(r) /\ Satisfied(r, MinAge))
<1> DEFINE Fair == held'[r] \in {held[r], NoProof} \/ (held'[r] = ProofOf(r) /\ Satisfied(r, MinAge))
<1>1. CASE UNCHANGED held
  BY <1>1
<1>2. ASSUME NEW q \in Req, CloseGate(q) PROVE Fair
  BY <1>2 DEF CloseGate, TypeOK, GateTypeOK
<1>3. ASSUME NEW q \in Req, Settle(q) \/ GoAway(q) PROVE Fair
  BY <1>2, <1>3 DEF Settle, Finish, FinishSpend, FinishRelease, GoAway, Disconnect
<1>4. ASSUME NEW q \in Req, Claim(q, MinAge) PROVE Fair
  BY <1>4 DEF Claim, TypeOK, GateTypeOK
<1>5. ASSUME NEW q \in Req, Handle(q) PROVE Fair
  BY <1>1, <1>4, <1>5 DEF Handle, CheckoutGate, DenyUnproven, Admit, DenyClaimed,
                          CheckoutUnguarded, gateVars
<1>6. ASSUME NEW q \in Req, Resolve(q) PROVE Fair
  BY <1>1, <1>6 DEF Resolve, PlaceOrder, ActionResponds, gateVars
<1>7. CASE \E q \in Req : Serve(q) \/ ServerMishap(q) \/ Dropped(q) \/ Reply(q)
  BY <1>1, <1>3, <1>5, <1>6, <1>7
     DEF Serve, ServerMishap, Dropped, StopWaiting, Reply, Answer, vars, gateVars
<1>8. CASE PageStep \/ PageMishap \/ \E q \in Req : Prefetch(q)
  BY <1>1, <1>8, PageSteps DEF PageOnly, FetchesSoundly, Fetch, vars, gateVars
<1>9. CASE ShopTick \/ UNCHANGED shopVars
  BY <1>1, <1>9 DEF ShopTick, Tick, shopVars, vars, gateVars
<1> QED
  BY <1>7, <1>8, <1>9 DEF ShopNext

(* A session that satisfies the shop's gate has earned it.                 *)
LEMMA SatisfiedIsEarned ==
  ASSUME TypeOK, BindingInv, NEW r \in Req, Satisfied(r, MinAge)
  PROVE  EarnedHere(ProofOf(r))
<1>1. /\ ProofOf(r) \in DOMAIN granted
      /\ granted[ProofOf(r)].challenge.minAge = session[r].pavel.minAge
  BY CopyAtHome DEF Satisfied, FactAtHome, ProofOf
<1>2. /\ session[r].pavel.minAge \in Age
      /\ Earned(ProofOf(r), session[r].pavel.minAge)
  BY <1>1 DEF BindingInv, GrantsEarned
<1> QED
  BY <1>2 DEF Satisfied, EarnedHere

LEMMA EarnedStep ==
  ASSUME TypeOK, BindingInv, EarnedInv, [ShopNext]_shopVars, [Next]_vars
  PROVE  EarnedInv'
<1>1. ASSUME NEW r \in Req, NEW p \in Proof, held'[r] = p PROVE EarnedHere(p)'
  <2>1. EarnedHere(p)
    BY <1>1, HeldMoves, SatisfiedIsEarned, SessionsAssumption DEF EarnedInv
  <2> QED
    BY <2>1, EarnedStays
<1>2. ASSUME NEW i \in DOMAIN orders, NEW p \in Proof, orders[i] = p PROVE EarnedHere(p)'
  BY <1>2, EarnedStays DEF EarnedInv, OrdersEarned
<1>3. CASE Idle
  BY <1>1, <1>2, <1>3 DEF Idle, EarnedInv, OrdersEarned
<1>4. ASSUME NEW q \in Proof \cup {NoProof}, orders' = Append(orders, q),
             DOMAIN spentAt \subseteq DOMAIN spentAt',
             q # NoProof => q \in DOMAIN spentAt' /\ EarnedHere(q)'
      PROVE  EarnedInv'
  <2>1. /\ orders' \in Seq(Proof \cup {NoProof})
        /\ DOMAIN orders' = DOMAIN orders \cup {Len(orders) + 1}
        /\ orders'[Len(orders) + 1] = q
        /\ \A i \in DOMAIN orders : orders'[i] = orders[i]
    BY <1>4 DEF EarnedInv
  <2>2. \A i \in DOMAIN orders' : orders'[i] # NoProof => orders'[i] \in DOMAIN spentAt'
    BY <1>4, <2>1 DEF EarnedInv
  <2>3. ASSUME NEW i \in DOMAIN orders', NEW p \in Proof, orders'[i] = p
        PROVE  EarnedHere(p)'
    BY <1>2, <1>4, <2>1, <2>3, SessionsAssumption
  <2> QED
    BY <1>1, <2>1, <2>2, <2>3 DEF EarnedInv, OrdersEarned
<1>5. CASE \E r \in Req : CheckoutUnguarded(r) /\ UNCHANGED <<spentAt, now>>
  BY <1>3, <1>4, <1>5 DEF CheckoutUnguarded, Idle
<1>6. CASE \E r \in Req : PlaceOrder(r) /\ UNCHANGED now
  <2>1. PICK r \in Req : PlaceOrder(r)
    BY <1>6
  <2>2. PICK q \in Proof \cup {NoProof} : q = held[r]
    BY DEF TypeOK, GateTypeOK
  <2>3. /\ orders' = Append(orders, q) /\ DOMAIN spentAt \subseteq DOMAIN spentAt'
        /\ q # NoProof => q \in DOMAIN spentAt'
    BY <2>1, <2>2 DEF PlaceOrder, ActionResponds, Put
  <2>4. q # NoProof => EarnedHere(q)'
    BY <2>2, EarnedStays DEF EarnedInv
  <2> QED
    BY <1>4, <2>3, <2>4
<1> QED
  BY <1>3, <1>5, <1>6, OrdersMove

LEMMA EarnedInvHolds == ShopSpec => []EarnedInv
<1>1. ShopInit => EarnedInv
  BY SessionsAssumption DEF ShopInit, Init, GateInit, EarnedInv, OrdersEarned
<1>2. TypeOK /\ BindingInv /\ EarnedInv /\ [ShopNext]_shopVars /\ [Next]_vars => EarnedInv'
  BY EarnedStep
<1> QED
  BY <1>1, <1>2, ShopImplementsMiddleware, TypeCorrect, BindingsHold, PTL DEF ShopSpec, Spec

(* Every order placed under forceReverify stands on a genuine credential,  *)
(* shown to this shop in a challenge of its own and for at least its age   *)
(* (server.ts:189-197), whatever was retried, lost or given up before it.  *)
THEOREM OrdersAreEarned == ShopSpec => []OrdersEarned
<1>1. EarnedInv => OrdersEarned
  BY DEF EarnedInv
<1> QED
  BY <1>1, EarnedInvHolds, PTL

(* And no order is placed on a proof another order was placed on until a   *)
(* CLAIM_TTL has passed since that was claimed (gate.ts:9-14): what is     *)
(* left of one check per order when the clock is not bounded.              *)
THEOREM NoEarlyReorder ==
  ASSUME RequestLimit <= ClaimTTL
  PROVE  ShopSpec => ReordersLate
<1> DEFINE Late ==
      \A i \in DOMAIN orders, p \in Proof :
        orders[i] = p /\ orders' = Append(orders, p) => now - spentAt[p] > ClaimTTL
<1>1. TypeOK /\ ClaimInv /\ EarnedInv /\ [ShopNext]_shopVars => Late
  <2> SUFFICES ASSUME TypeOK, ClaimInv, EarnedInv, [ShopNext]_shopVars,
                      NEW i \in DOMAIN orders, NEW p \in Proof, orders[i] = p,
                      orders' = Append(orders, p)
               PROVE  now - spentAt[p] > ClaimTTL
    OBVIOUS
  <2>1. p # NoProof /\ p \in DOMAIN spentAt
    BY SessionsAssumption DEF EarnedInv
  <2>2. /\ Len(orders') = Len(orders) + 1 /\ orders'[Len(orders) + 1] = p
        /\ orders' # orders
    BY DEF EarnedInv
  <2>3. PICK r \in Req : PlaceOrder(r)
    <3>1. ASSUME NEW r \in Req, CheckoutUnguarded(r) PROVE FALSE
      BY <2>1, <2>2, <3>1 DEF CheckoutUnguarded, EarnedInv
    <3> QED
      BY <2>2, <3>1, OrdersMove DEF Idle
  <2>4. held[r] = p /\ phase[r] = "acting"
    <3>1. orders' = Append(orders, held[r]) /\ held[r] \in Proof \cup {NoProof}
          /\ phase[r] = "acting"
      BY <2>3 DEF PlaceOrder, ActionResponds, TypeOK, GateTypeOK
    <3> QED
      BY <2>2, <3>1 DEF EarnedInv
  <2>5. ~ (now - spentAt[p] <= ClaimTTL)
    BY <2>1, <2>4 DEF ClaimInv, SpentClaim
  <2>6. now \in Nat /\ spentAt[p] \in Nat /\ ClaimTTL \in Nat
    BY <2>1, GateAssumption DEF TypeOK, SessionsTypeOK, GateTypeOK
  <2> QED
    BY <2>5, <2>6
<1>2. TypeOK /\ ClaimInv /\ EarnedInv /\ [ShopNext]_shopVars => [Late]_shopVars
  BY <1>1
<1> QED
  BY <1>2, EarnedInvHolds, ShopImplementsMiddleware, TypeCorrect, ClaimsConsistent, PTL
     DEF ShopSpec, ReordersLate

---------------------------------------------------------------------------
(* A check reported ok is on record, and opens the gate.                   *)

(* A request that claims anything claims the proof in its own copy.        *)
Claiming(r) ==
  \/ DOMAIN claimedProofs' \subseteq DOMAIN claimedProofs
  \/ /\ phase[r] = "loaded" /\ ProofOf(r) # NoProof
     /\ DOMAIN claimedProofs' \subseteq DOMAIN claimedProofs \cup {ProofOf(r)}

LEMMA StepClaims ==
  ASSUME TypeOK, NEW r \in Req, RequestStep(r)
  PROVE  Claiming(r)
<1>1. CASE UNCHANGED claimedProofs
  BY <1>1 DEF Claiming
<1>2. ASSUME NEW a \in Age, Claim(r, a) PROVE Claiming(r)
  BY <1>2, PrunedType DEF Claim, Satisfied, Put, Claiming
<1>3. ASSUME NEW a \in Age, DenyClaimed(r, a) PROVE Claiming(r)
  BY <1>3, PrunedType DEF DenyClaimed, Claiming
<1>4. ASSUME NEW answer, NEW data, ActionResponds(r, answer, data) PROVE Claiming(r)
  BY <1>1, <1>4 DEF ActionResponds
<1>5. CASE Route(r)
  BY <1>1, <1>2, <1>3, <1>5 DEF Route, DenyUnproven, Admit, gateVars
<1>6. CASE Arrive(r) \/ Proceed(r)
  BY <1>1, <1>4, <1>6 DEF Arrive, Proceed, gateVars
<1>7. CASE Settle(r) \/ GoAway(r)
  BY <1>7 DEF Settle, GoAway, Finish, FinishSpend, FinishRelease, Disconnect, Without, Restrict,
              Claiming
<1>8. CASE StopWaiting(r)
  BY <1>1, <1>8 DEF StopWaiting, gateVars
<1> QED
  BY <1>5, <1>6, <1>7, <1>8 DEF RequestStep

(* A proof at home elsewhere is safe from it.                              *)
LEMMA ClaimSpares ==
  ASSUME BindingInv, NEW r \in Req, Claiming(r), NEW p, p \notin DOMAIN claimedProofs,
         sid[r] = granted[p].sid => phase[r] # "loaded"
  PROVE  p \notin DOMAIN claimedProofs'
BY CopyAtHome DEF Claiming, FactAtHome, ProofOf

(* A fresh id is nobody's.                                                 *)
LEMMA SidMoves ==
  ASSUME TypeOK, NEW r \in Req, Kinds(r)
  PROVE  \/ sid'[r] = sid[r] /\ phase[r] \notin {"idle", "sent"}
         \/ sid'[r] \notin Sid
         \/ FreshId(r)
         \/ Arriving(r)
BY SessionsAssumption DEF Kinds, Arriving, Advancing, Answering, Acting, Accepting, Losing,
                          Sending, Settling, Leaving

LEMMA UndisclosedStep ==
  ASSUME TypeOK, BindingInv, ServerInv, NEW r \in Req, Kinds(r), Claiming(r),
         Arriving(r) => sid'[r] \in issued \/ FreshId(r),
         NEW q \in Req
  PROVE  Undisclosed(q)'
<1> SUFFICES ASSUME phase'[q] = "responding", reply'[q] = "verified"
             PROVE  /\ dirty'[q] /\ held'[q] = NoProof /\ sid'[q] \notin issued'
                    /\ \A x \in Req \ {q} : sid'[x] # sid'[q]
                    /\ ProofOf(q)' # NoProof /\ ProofOf(q)' \notin DOMAIN claimedProofs'
  BY DEF Undisclosed, ProofOf
<1>1. CASE q = r
  <2>1. Accepting(r) /\ Others(r)
    BY <1>1 DEF Kinds, Arriving, Advancing, Answering, Acting, Losing, Sending, Settling, Leaving
  <2>2. held[r] = NoProof
    BY <2>1 DEF ServerInv, Accepting
  <2>3. \A x \in Req \ {r} : sid'[x] # sid'[r]
    BY <2>1 DEF Accepting, FreshId, Others
  <2>4. ProofOf(r)' \notin DOMAIN claimedProofs' /\ ProofOf(r)' # NoProof
    BY <2>1, SessionsAssumption DEF Accepting, Claiming, ServerInv
  <2> QED
    BY <1>1, <2>1, <2>2, <2>3, <2>4 DEF Accepting, FreshId
<1>2. CASE q # r
  <2>1. /\ phase[q] = "responding" /\ reply[q] = "verified" /\ sid'[q] = sid[q]
        /\ ProofOf(q)' = ProofOf(q) /\ dirty'[q] = dirty[q] /\ held'[q] = held[q]
    BY <1>2 DEF Kinds, Others, ProofOf
  <2>2. /\ dirty[q] /\ held[q] = NoProof /\ sid[q] \notin issued /\ sid[q] \in Sid
        /\ \A x \in Req \ {q} : sid[x] # sid[q]
        /\ ProofOf(q) # NoProof /\ ProofOf(q) \notin DOMAIN claimedProofs
    BY <2>1 DEF ServerInv, Undisclosed, TypeOK, SessionsTypeOK, InFlight
  <2>3. sid[q] \notin issued'
    BY <1>2, <2>2 DEF Kinds, Arriving, Advancing, Answering, Acting, Accepting, Losing, Sending,
                      Settling, Leaving
  <2>4. sid'[r] # sid[q]
    BY <1>2, <2>2, SidMoves DEF FreshId
  <2>5. ProofOf(q) \notin DOMAIN claimedProofs'
    <3>1. granted[ProofOf(q)].sid = sid[q]
      BY <2>2, CopyAtHome DEF FactAtHome, ProofOf
    <3> QED
      BY <1>2, <2>2, <3>1, ClaimSpares
  <2> QED
    BY <1>2, <2>1, <2>2, <2>3, <2>4, <2>5 DEF Kinds, Others
<1> QED
  BY <1>1, <1>2

LEMMA ServerStep ==
  ASSUME TypeOK, BindingInv, ServerInv, NEW r \in Req, Kinds(r), Claiming(r),
         Arriving(r) => sid'[r] \in issued \/ FreshId(r),
         \A n \in DOMAIN minted' : minted'[n].minAge = MinAge,
         jar' \in issued' \cup {NoSid},
         \A answer \in inbox' : answer.cookie \in issued' \cup {NoSid}
  PROVE  ServerInv'
<1>1. DOMAIN claimedProofs' \subseteq DOMAIN granted'
  <2>1. DOMAIN granted \subseteq DOMAIN granted'
    BY DEF Kinds, Arriving, Advancing, Answering, Acting, Accepting, Losing, Sending, Settling, Leaving
  <2>2. ProofOf(r) # NoProof => ProofOf(r) \in DOMAIN granted
    BY CopyAtHome DEF FactAtHome, ProofOf
  <2> QED
    BY <2>1, <2>2 DEF Claiming, ServerInv
<1>2. ASSUME NEW q \in Req
      PROVE  /\ ~ InFlight(q)' => reply'[q] = "none"
             /\ held'[q] # NoProof => phase'[q] \in {"acting", "responding", "sent"}
  <2>1. CASE q # r
    BY <2>1 DEF ServerInv, InFlight, Kinds, Others
  <2>2. CASE q = r
    BY <2>2 DEF ServerInv, InFlight, Kinds, Arriving, Advancing, Answering, Acting, Accepting, Losing,
                Sending, Settling, Leaving
  <2> QED
    BY <2>1, <2>2
<1> QED
  BY <1>1, <1>2, UndisclosedStep DEF ServerInv

LEMMA RecordedStays ==
  ASSUME TypeOK, BindingInv, NEW r \in Req, Kinds(r), Claiming(r), ~ Arriving(r),
         NEW s, Recorded(s)
  PROVE  Recorded(s)'
<1>1. s \in Sid /\ s \in issued /\ s \in DOMAIN store
  BY DEF Recorded, TypeOK, SessionsTypeOK
<1>2. issued \subseteq issued'
  BY DEF Kinds, Advancing, Answering, Acting, Accepting, Losing, Sending, Settling, Leaving
<1>3. s \in DOMAIN store' /\ store'[s] = store[s]
  <2>1. CASE sid[r] # s
    BY <1>1, <2>1 DEF Kinds, Advancing, Answering, Acting, Accepting, Losing, Sending, Settling, Leaving,
                      Put
  <2>2. CASE sid[r] = s
    <3>1. phase[r] = "sent" /\ held[r] = NoProof
      BY <2>2 DEF Recorded
    <3> QED
      BY <1>1, <3>1 DEF Kinds, Advancing, Answering, Acting, Accepting, Losing, Sending, Settling, Leaving
  <2> QED
    BY <2>1, <2>2
<1>4. store[s].pavel.proofId \notin DOMAIN claimedProofs'
  <2>1. granted[store[s].pavel.proofId].sid = s
    BY <1>1, StoreAtHome DEF Recorded, FactAtHome
  <2> QED
    BY <2>1, ClaimSpares DEF Recorded
<1>5. ASSUME NEW q \in Req, sid'[q] = s
      PROVE  phase'[q] = "sent" /\ held'[q] = NoProof
  <2>1. q # r
    BY <1>1, <1>5, SidMoves DEF Recorded, FreshId
  <2> QED
    BY <1>5, <2>1 DEF Kinds, Others, Recorded
<1> QED
  BY <1>1, <1>2, <1>3, <1>4, <1>5 DEF Recorded

LEMMA AdmissibleStays ==
  ASSUME TypeOK, BindingInv, NEW r \in Req, Kinds(r), Claiming(r), ~ Arriving(r),
         NEW q \in Req, phase[q] # "idle", Admissible(q),
         q = r => reply'[r] # "age_verification_required"
  PROVE  Admissible(q)'
<1>1. CASE q = r
  BY <1>1 DEF Admissible, Kinds, Advancing, Answering, Acting, Accepting, Losing, Sending,
              Settling, Leaving
<1>2. CASE q # r
  <2>1. /\ phase'[q] = phase[q] /\ reply'[q] = reply[q] /\ sid'[q] = sid[q]
        /\ ProofOf(q)' = ProofOf(q)
    BY <1>2 DEF Kinds, Others, ProofOf
  <2>2. SUFFICES ASSUME phase[q] = "loaded"
        PROVE  /\ ProofOf(q) # NoProof /\ ProofOf(q) \notin DOMAIN claimedProofs'
               /\ \A x \in Req \ {q} : sid'[x] = sid[q] => phase'[x] = "sent"
    BY <2>1 DEF Admissible, ProofOf
  <2>3. /\ ProofOf(q) # NoProof /\ ProofOf(q) \notin DOMAIN claimedProofs
        /\ \A x \in Req \ {q} : sid[x] = sid[q] => phase[x] = "sent"
    BY <2>2 DEF Admissible
  <2>4. ProofOf(q) \notin DOMAIN claimedProofs'
    <3>1. granted[ProofOf(q)].sid = sid[q]
      BY <2>3, CopyAtHome DEF FactAtHome, ProofOf
    <3> QED
      BY <1>2, <2>3, <3>1, ClaimSpares
  <2>5. ASSUME NEW x \in Req \ {q}, sid'[x] = sid[q] PROVE phase'[x] = "sent"
    <3>0. sid[q] \in Sid
      BY <2>2 DEF TypeOK, SessionsTypeOK, InFlight
    <3>1. x # r
      BY <1>2, <2>1, <2>3, <2>5, <3>0, SidMoves DEF FreshId
    <3> QED
      BY <2>3, <2>5, <3>1 DEF Kinds, Others
  <2> QED
    BY <2>3, <2>4, <2>5
<1> QED
  BY <1>1, <1>2

(* All challenges are for the shop's own age, and so are the facts.        *)
Ages == \A n \in DOMAIN minted : minted[n].minAge = MinAge

LEMMA AgesKept ==
  ASSUME Ages, [ShopNext]_shopVars
  PROVE  Ages'
<1>1. CASE UNCHANGED minted
  BY <1>1 DEF Ages
<1>2. ASSUME NEW r \in Req, NEW n, Mint(r, n, MinAge) PROVE Ages'
  BY <1>2 DEF Mint, Put, Ages
<1>3. ASSUME NEW r \in Req, Handle(r) PROVE Ages'
  BY <1>1, <1>2, <1>3 DEF Handle, CheckoutGate, CheckoutUnguarded, RejectUnchallenged,
                          RejectExpired, StartVerify, ceremonyVars
<1>4. ASSUME NEW r \in Req, Resolve(r) PROVE Ages'
  BY <1>1, <1>4 DEF Resolve, PlaceOrder, AwaitGoogle, IssueUnsigned, IssueWithGoogle, Issue,
                    VerifyRejects, VerifyAccepts, Grant, ceremonyVars
<1>5. ASSUME NEW r \in Req, Serve(r) PROVE Ages'
  BY <1>1, <1>3, <1>4, <1>5 DEF Serve, Settle, ceremonyVars
<1>6. ASSUME NEW r \in Req, ServerMishap(r) \/ Dropped(r) \/ Reply(r) PROVE Ages'
  BY <1>1, <1>6 DEF ServerMishap, BuildRejects, VerifyThrows, VerifyLosesSession, Dropped, GoAway,
                    StopWaiting, Reply, Answer, ceremonyVars
<1>7. CASE PageStep \/ PageMishap \/ \E r \in Req : Prefetch(r)
  BY <1>1, <1>7, PageSteps DEF PageOnly, FetchesSoundly, Fetch, vars, ceremonyVars
<1>8. CASE ShopTick \/ UNCHANGED shopVars
  BY <1>1, <1>8 DEF ShopTick, Tick, shopVars, vars, ceremonyVars
<1> QED
  BY <1>5, <1>6, <1>7, <1>8 DEF ShopNext

LEMMA FactAge ==
  ASSUME BindingInv, Ages, NEW s, NEW data, FactAtHome(s, data), data.pavel.proofId # NoProof
  PROVE  data.pavel.minAge = MinAge /\ DOMAIN minted # {}
<1> DEFINE g == granted[data.pavel.proofId]
<1>1. /\ data.pavel.proofId \in DOMAIN granted
      /\ g.challenge.minAge = data.pavel.minAge
  BY DEF FactAtHome
<1>2. /\ g.challenge.nonce \in DOMAIN minted
      /\ minted[g.challenge.nonce] = [sid |-> g.from, minAge |-> g.challenge.minAge]
  BY <1>1 DEF BindingInv, GrantsEarned, Earned
<1> QED
  BY <1>1, <1>2 DEF Ages

(* What the server's own steps leave to the page.                          *)
LEMMA ServerMoves ==
  ASSUME NEW r \in Req, Serve(r) \/ ServerMishap(r) \/ Dropped(r)
  PROVE  /\ phase[r] \notin {"idle", "responding"}
         /\ phase[r] = "unanswered" => call # r
         /\ UNCHANGED <<jar, call, inbox, view, step, result>>
<1>1. UNCHANGED <<jar, call, inbox, view, step, result>>
  BY DEF Serve, ServerMishap, Dropped, clientVars, netVars, proofVars
<1>2. Handle(r) => phase[r] = "loaded"
  BY DEF Handle, AppRequest, CheckoutGate, DenyUnproven, Admit, DenyClaimed, Claim,
         CheckoutUnguarded, Mint, RejectUnchallenged, RejectExpired, StartVerify
<1>3. Resolve(r) => phase[r] \in {"acting", "building", "signing", "verifying"}
  BY DEF Resolve, PlaceOrder, ActionResponds, AwaitGoogle, IssueUnsigned, IssueWithGoogle,
         VerifyRejects, VerifyAccepts, Grant, Accepted
<1>4. Settle(r) \/ GoAway(r) => phase[r] = "sent"
  BY DEF Settle, GoAway, Finish, FinishSpend, FinishRelease, Disconnect
<1>5. ServerMishap(r) => phase[r] \in {"building", "signing", "verifying"}
  BY DEF ServerMishap, BuildRejects, VerifyThrows, VerifyLosesSession, Accepted
<1>6. Dropped(r) => call # r /\ phase[r] \in {"sent", "unanswered"}
  BY <1>4 DEF Dropped, StopWaiting, HangUp
<1> QED
  BY <1>1, <1>2, <1>3, <1>4, <1>5, <1>6 DEF Serve

(* Only a gate turns a request away for want of an age check.              *)
LEMMA GateDenies ==
  ASSUME TypeOK, NEW r \in Req, Serve(r) \/ ServerMishap(r) \/ Dropped(r),
         reply[r] # "age_verification_required", reply'[r] = "age_verification_required"
  PROVE  DenyUnproven(r, MinAge) \/ DenyClaimed(r, MinAge)
<1>1. ASSUME NEW s, NEW answer, Respond(r, s, answer) PROVE reply'[r] = answer
  BY <1>1 DEF Respond, TypeOK, SessionsTypeOK
<1>2. ASSUME Handle(r) PROVE DenyUnproven(r, MinAge) \/ DenyClaimed(r, MinAge)
  <2>1. ~ UNCHANGED reply
    OBVIOUS
  <2>2. \A answer \in {"done", "failed"} : \A data : ~ AppRequest(r, answer, data)
    BY <1>1 DEF AppRequest
  <2>3. ~ RejectUnchallenged(r) /\ ~ RejectExpired(r)
    BY <1>1 DEF RejectUnchallenged, RejectExpired, RespondCeremony
  <2> QED
    BY <1>2, <2>1, <2>2, <2>3 DEF Handle, CheckoutGate, CheckoutUnguarded, Admit, Claim, Mint,
                                  StartVerify
<1>3. ~ Resolve(r)
  <2>1. ~ PlaceOrder(r) /\ ~ IssueUnsigned(r) /\ ~ IssueWithGoogle(r)
    BY <1>1 DEF PlaceOrder, ActionResponds, IssueUnsigned, IssueWithGoogle, Issue, RespondCeremony
  <2>2. ~ VerifyRejects(r)
    <3>1. \A p, t : VerificationOutcome(p, t) # "age_verification_required"
      BY OutcomeType DEF Core!Outcomes
    <3> QED
      BY <1>1, <3>1 DEF VerifyRejects, RespondCeremony
  <2>3. ~ AwaitGoogle(r)
    BY DEF AwaitGoogle
  <2>4. \A s, p : ~ VerifyAccepts(r, s, p)
    BY DEF VerifyAccepts, Grant, TypeOK, SessionsTypeOK
  <2> QED
    BY <2>1, <2>2, <2>3, <2>4 DEF Resolve
<1>4. ~ Settle(r) /\ ~ GoAway(r)
  BY DEF Settle, GoAway, Finish, FinishSpend, FinishRelease, Disconnect, CloseGate, Close, End, TypeOK,
         SessionsTypeOK
<1>5. ~ ServerMishap(r)
  BY <1>1 DEF ServerMishap, BuildRejects, End, VerifyThrows, RespondCeremony, VerifyLosesSession,
              TypeOK, SessionsTypeOK
<1>6. ~ Dropped(r)
  BY <1>4 DEF Dropped, StopWaiting, HangUp
<1> QED
  BY <1>2, <1>3, <1>4, <1>5, <1>6 DEF Serve

(* The server at work keeps the invariant...                               *)
LEMMA ServingKeeps ==
  ASSUME ShopTypeOK, BindingInv, ShopInv, AsksPresent, Ages', NEW r \in Req,
         Serve(r) \/ ServerMishap(r) \/ Dropped(r)
  PROVE  ShopInv'
<1>0. TypeOK /\ call \in Req \cup {NoReq} /\ NoReq \notin Req /\ PageInv /\ ServerInv /\ RecordInv
  BY ClientAssumption DEF ShopTypeOK, ClientTypeOK, ShopInv
<1>1. Kinds(r) /\ Claiming(r)
  BY <1>0, ServerSteps, StepKind, StepClaims
<1>2. phase[r] # "idle" /\ phase[r] # "responding" /\ UNCHANGED <<jar, call, inbox, view, step, result>>
  BY ServerMoves
<1>3. ~ Arriving(r) /\ ~ Sending(r)
  BY <1>2 DEF Arriving, Sending
<1>4. issued' = issued
  BY <1>1, <1>3 DEF Kinds, Advancing, Answering, Acting, Accepting, Losing, Settling, Leaving
<1>5. PageInv'
  <2>1. ASSUME call # NoReq PROVE phase'[call] \notin {"idle", "sent"}
    <3>1. phase[call] \notin {"idle", "sent"} /\ call \in Req
      BY <1>0, <2>1 DEF PageInv
    <3>2. CASE call = r
      BY <1>1, <1>3, <3>1, <3>2, ServerMoves
         DEF Kinds, Advancing, Answering, Acting, Accepting, Losing, Settling, Leaving
    <3>3. CASE call # r
      BY <1>1, <3>1, <3>3 DEF Kinds, Others
    <3> QED
      BY <3>2, <3>3
  <2> QED
    BY <1>0, <1>2, <2>1 DEF PageInv, Waiting
<1>6. ServerInv'
  <2>1. \A n \in DOMAIN minted' : minted'[n].minAge = MinAge
    BY DEF Ages
  <2>2. jar' \in issued' \cup {NoSid} /\ \A answer \in inbox' : answer.cookie \in issued' \cup {NoSid}
    BY <1>0, <1>2, <1>4 DEF ServerInv
  <2> QED
    BY <1>0, <1>1, <1>3, <2>1, <2>2, ServerStep
<1>7. \A s : Recorded(s) => Recorded(s)'
  BY <1>0, <1>1, <1>3, RecordedStays
<1>8. ASSUME NEW q, q = call, view = "reordering", q # NoReq PROVE Admissible(q)'
  <2>1. q \in Req /\ Admissible(q) /\ phase[q] # "idle"
    BY <1>0, <1>8 DEF RecordInv, PageInv
  <2>2. ASSUME q = r, reply'[r] = "age_verification_required" PROVE FALSE
    <3>1. reply[r] # "age_verification_required"
      BY <2>1, <2>2 DEF Admissible
    <3>2. DenyUnproven(r, MinAge) \/ DenyClaimed(r, MinAge)
      BY <1>0, <2>2, <3>1, GateDenies
    <3>3. phase[r] = "loaded" /\ (~ Satisfied(r, MinAge) \/ ProofOf(r) \in DOMAIN claimedProofs)
      BY <1>0, <3>2, PrunedType DEF DenyUnproven, DenyClaimed
    <3>4. ProofOf(r) # NoProof /\ ProofOf(r) \notin DOMAIN claimedProofs
      BY <2>1, <2>2, <3>3 DEF Admissible
    <3>5. session[r].pavel.minAge = MinAge /\ MinAge \in Nat
      <4>1. Ages
        BY <1>0 DEF ServerInv, Ages
      <4>2. MinAge \in Nat
        BY ShopAssumption, SessionsAssumption
      <4> QED
        BY <3>4, <4>1, <4>2, CopyAtHome, FactAge DEF ProofOf
    <3> QED
      BY <3>3, <3>4, <3>5 DEF Satisfied
  <2> QED
    BY <1>0, <1>1, <1>3, <2>1, <2>2, AdmissibleStays
<1>9. RecordInv'
  BY <1>0, <1>2, <1>7, <1>8 DEF RecordInv, ProofOpensGate
<1> QED
  BY <1>5, <1>6, <1>9 DEF ShopInv

(* ... and so does a response, which is where a success becomes a record...*)
LEMMA ReplyKeeps ==
  ASSUME ~ StoreFails, ShopTypeOK, BindingInv, ShopInv, AsksPresent, Ages', NEW r \in Req, Reply(r)
  PROVE  ShopInv'
<1>0. TypeOK /\ call \in Req \cup {NoReq} /\ NoReq \notin Req /\ PageInv /\ ServerInv /\ RecordInv
  BY ClientAssumption DEF ShopTypeOK, ClientTypeOK, ShopInv
<1> DEFINE cookie == IF dirty[r] THEN sid[r] ELSE NoSid
           sent == [cookie |-> cookie, reply |-> reply[r], challenge |-> session[r].pending.nonce]
<1>1. Kinds(r) /\ Claiming(r)
  BY <1>0, ServerSteps, StepKind, StepClaims DEF Reply
<1>2. /\ Send(r) /\ UNCHANGED <<jar, view, step, result, claimedProofs, sid, session, held, reply>>
      /\ \/ call = r /\ call' = NoReq /\ inbox' = {sent}
         \/ call # r /\ UNCHANGED <<call, inbox>>
  BY DEF Reply, Answer, Send, gateVars, proofVars
<1>3. phase[r] = "responding" /\ ~ Arriving(r)
  BY <1>2 DEF Send, Arriving
<1>4. issued' = IF dirty[r] THEN issued \cup {sid[r]} ELSE issued
  BY <1>2 DEF Send
<1>5. phase'[r] = "sent" /\ \A q \in Req \ {r} : phase'[q] = phase[q]
  BY <1>0, <1>2 DEF Send, Goto, TypeOK, SessionsTypeOK
<1>6. PageInv'
  BY <1>0, <1>2, <1>5 DEF PageInv, Waiting
<1>7. ServerInv'
  <2>1. \A n \in DOMAIN minted' : minted'[n].minAge = MinAge
    BY DEF Ages
  <2>2. jar' \in issued' \cup {NoSid} /\ \A answer \in inbox' : answer.cookie \in issued' \cup {NoSid}
    BY <1>0, <1>2, <1>4 DEF ServerInv
  <2> QED
    BY <1>0, <1>1, <1>3, <2>1, <2>2, ServerStep
<1>8. \A s : Recorded(s) => Recorded(s)'
  BY <1>0, <1>1, <1>3, RecordedStays
<1>9. ASSUME NEW s, s = cookie, reply[r] = "verified" PROVE Recorded(s)'
  <2>1. /\ dirty[r] /\ held[r] = NoProof
        /\ \A q \in Req \ {r} : sid[q] # sid[r]
        /\ ProofOf(r) # NoProof /\ ProofOf(r) \notin DOMAIN claimedProofs
    BY <1>0, <1>3, <1>9 DEF ServerInv, Undisclosed
  <2>2. store' = Put(store, s, session[r]) /\ s = sid[r]
    BY <1>2, <1>9, <2>1 DEF Send, Save
  <2>3. s \in issued' /\ s \in DOMAIN store' /\ store'[s] = session[r]
    BY <1>4, <2>1, <2>2 DEF Put
  <2>4. \A q \in Req : sid'[q] = s => phase'[q] = "sent" /\ held'[q] = NoProof
    BY <1>2, <1>5, <2>1, <2>2
  <2> QED
    BY <1>2, <2>1, <2>3, <2>4 DEF Recorded, ProofOf
<1>10. ASSUME NEW q, q = call', view = "reordering", q # NoReq PROVE Admissible(q)'
  <2>1. q \in Req /\ q # r /\ Admissible(q) /\ phase[q] # "idle"
    BY <1>0, <1>2, <1>10 DEF RecordInv, PageInv
  <2> QED
    BY <1>0, <1>1, <1>3, <2>1, AdmissibleStays
<1>11. ProofOpensGate'
  BY <1>0, <1>2 DEF RecordInv, ProofOpensGate, Admissible
<1>12. RecordInv'
  <2>1. ASSUME NEW answer \in inbox', answer.reply = "verified" PROVE Recorded(answer.cookie)'
    BY <1>0, <1>2, <1>8, <1>9, <2>1 DEF RecordInv
  <2> QED
    BY <1>0, <1>2, <1>8, <1>10, <1>11, <2>1 DEF RecordInv
<1> QED
  BY <1>6, <1>7, <1>12 DEF ShopInv

(* ... as does a fetch, as long as the page minds what it is about...      *)
LEMMA FetchKeeps ==
  ASSUME ShopTypeOK, BindingInv, ShopInv, Ages', NEW r \in Req, FetchesSoundly(r),
         result' # "ok",
         step' \in {"fetching", "wallet", "posting"} => view' = "checking",
         view' = "reordering" => step' = "idle" /\ Recorded(jar)
  PROVE  ShopInv'
<1>0. TypeOK /\ NoReq \notin Req /\ ServerInv
  BY ClientAssumption DEF ShopTypeOK, ClientTypeOK, ShopInv
<1>1. PICK ask \in Asks : Fetch(r, ask)
  BY DEF FetchesSoundly
<1>2. Kinds(r) /\ Claiming(r) /\ phase[r] = "idle" /\ phase'[r] = "loaded" /\ UNCHANGED reply
  <2>1. phase[r] = "idle" /\ phase' = [phase EXCEPT ![r] = "loaded"] /\ UNCHANGED reply
    BY <1>1 DEF Fetch, Resume, Visit, Goto
  <2> QED
    BY <1>0, <1>1, <2>1, FetchArrives, StepKind, StepClaims DEF TypeOK, SessionsTypeOK
<1>3. /\ call' = r /\ inbox = {} /\ UNCHANGED <<inbox, jar, issued, store, claimedProofs>>
      /\ \/ jar \in DOMAIN store /\ sid'[r] = jar /\ session'[r] = store[jar]
         \/ jar \notin DOMAIN store /\ FreshId(r)
  <2>1. /\ call' = r /\ inbox = {} /\ UNCHANGED <<inbox, jar, claimedProofs>>
    BY <1>1 DEF Fetch, Waiting, gateVars
  <2>2. CASE jar \in DOMAIN store /\ Resume(r, jar)
    BY <1>0, <2>1, <2>2 DEF Resume, TypeOK, SessionsTypeOK
  <2>3. CASE jar \notin DOMAIN store /\ \E s \in FreshSid : Visit(r, s)
    <3>1. PICK s \in FreshSid : Visit(r, s)
      BY <2>3
    <3> QED
      BY <1>0, <2>1, <2>3, <3>1 DEF Visit, Generate, FreshId, TypeOK, SessionsTypeOK
  <2> QED
    BY <1>1, <2>2, <2>3 DEF Fetch
<1>4. PageInv'
  BY <1>0, <1>2, <1>3 DEF PageInv, Waiting
<1>5. ServerInv'
  <2>1. \A n \in DOMAIN minted' : minted'[n].minAge = MinAge
    BY DEF Ages
  <2>2. jar' \in issued' \cup {NoSid} /\ \A answer \in inbox' : answer.cookie \in issued' \cup {NoSid}
    BY <1>0, <1>3 DEF ServerInv
  <2>3. sid'[r] \in issued' \/ FreshId(r)
    BY <1>0, <1>3, SessionsAssumption DEF ServerInv, TypeOK, SessionsTypeOK
  <2> QED
    BY <1>0, <1>2, <1>3, <2>1, <2>2, <2>3, ServerStep
<1>6. ASSUME view' = "reordering" PROVE Admissible(r)'
  <2>1. /\ jar \in DOMAIN store /\ store[jar].pavel.proofId # NoProof
        /\ store[jar].pavel.proofId \notin DOMAIN claimedProofs
        /\ \A q \in Req : sid[q] = jar => phase[q] = "sent"
    BY <1>6 DEF Recorded
  <2>2. ProofOf(r)' # NoProof /\ ProofOf(r)' \notin DOMAIN claimedProofs'
    BY <1>3, <2>1 DEF ProofOf
  <2>3. \A q \in Req \ {r} : sid'[q] = sid'[r] => phase'[q] = "sent"
    BY <1>2, <1>3, <2>1 DEF Kinds, Others
  <2>4. reply'[r] = "none"
    BY <1>0, <1>2 DEF ServerInv, InFlight
  <2> QED
    BY <2>2, <2>3, <2>4 DEF Admissible, ProofOf
<1>7. RecordInv'
  BY <1>3, <1>6 DEF RecordInv, ProofOpensGate
<1> QED
  BY <1>4, <1>5, <1>7 DEF ShopInv

(* ... and anything that does not reach the server.                        *)
Listens ==
  /\ UNCHANGED <<store, issued, phase, sid, session, dirty, reply, held, claimedProofs, minted,
                 granted>>
  /\ inbox' = {} \/ UNCHANGED inbox
  /\ jar' \in {jar} \cup {Accept(answer.cookie) : answer \in inbox}

LEMMA ListeningKeeps ==
  ASSUME ShopInv, Listens, PageInv',
         result' = "ok" => Recorded(jar'),
         view' = "reordering" => view = "reordering" /\ UNCHANGED <<call, inbox>>
  PROVE  ShopInv'
<1>1. ServerInv'
  BY DEF Listens, ShopInv, ServerInv, Undisclosed, InFlight, ProofOf, Accept
<1>2. \A s : Recorded(s) => Recorded(s)'
  BY DEF Listens, Recorded
<1>3. \A q : Admissible(q) => Admissible(q)'
  BY DEF Listens, Admissible, ProofOf
<1>4. RecordInv'
  BY <1>2, <1>3 DEF ShopInv, RecordInv, ProofOpensGate, Listens
<1> QED
  BY <1>1, <1>4 DEF ShopInv

(* The page keeps its part of it.                                          *)
LEMMA PostingKeeps ==
  ASSUME ShopTypeOK, BindingInv, ShopInv, Ages', NEW r \in Req,
         \/ AddToCart(r) \/ Checkout(r) \/ Reorder(r) \/ (Prefetch(r) /\ UNCHANGED <<view, orders>>)
         \/ \E p \in Presentation : Present(r, p, MinAge) /\ UNCHANGED <<view, orders>>
  PROVE  ShopInv'
<1>1. FetchesSoundly(r) /\ ~ Waiting
  <2>1. CASE \E p \in Presentation : Present(r, p, MinAge)
    BY <2>1, AskType DEF Present, FetchesSoundly, Fetch
  <2> QED
    BY <2>1, PagePosts DEF FetchesSoundly, Fetch
<1>2. PageInv /\ (result = "ok" => Recorded(jar))
  BY DEF ShopInv, RecordInv
<1>3. CASE AddToCart(r) \/ Checkout(r)
  <2>1. result' # "ok" /\ step' = "idle" /\ view' # "reordering"
    BY <1>2, <1>3 DEF AddToCart, Checkout, Show, proofVars, PageInv
  <2> QED
    BY <1>1, <2>1, FetchKeeps
<1>4. CASE Reorder(r)
  <2>1. result' # "ok" /\ step' = "idle" /\ Recorded(jar)
    BY <1>2, <1>4 DEF Reorder
  <2> QED
    BY <1>1, <2>1, FetchKeeps
<1>5. CASE Prefetch(r) /\ UNCHANGED <<view, orders>>
  <2>1. result # "ok"
    <3> SUFFICES ASSUME result = "ok" PROVE FALSE
      OBVIOUS
    <3>1. jar \in DOMAIN store /\ store[jar].pavel.proofId # NoProof
      BY <1>2 DEF Recorded
    <3>2. Ages
      BY DEF ShopInv, ServerInv, Ages
    <3> QED
      BY <1>5, <3>1, <3>2, StoreAtHome, FactAge DEF Prefetch
  <2>2. result' # "ok" /\ step' = "prefetching" /\ view' # "reordering"
    BY <1>1, <1>2, <1>5, <2>1 DEF Prefetch, PageInv
  <2> QED
    BY <1>1, <2>2, FetchKeeps
<1>6. CASE \E p \in Presentation : Present(r, p, MinAge) /\ UNCHANGED <<view, orders>>
  <2>1. result' # "ok" /\ step' = "posting" /\ view' = "checking"
    BY <1>2, <1>6 DEF Present, PageInv
  <2> QED
    BY <1>1, <2>1, FetchKeeps
<1> QED
  BY <1>3, <1>4, <1>5, <1>6

LEMMA CheckingKeeps ==
  ASSUME ShopTypeOK, BindingInv, ShopInv, Ages', NEW r \in Req, RunAgeCheck(r)
  PROVE  ShopInv'
<1>1. view' = "checking" /\ result' = "none"
  BY DEF RunAgeCheck, Begin
<1>2. CASE AskChallenge(r)
  <2>1. FetchesSoundly(r)
    BY <1>2, AskType DEF AskChallenge, FetchesSoundly, Paths
  <2> QED
    BY <1>1, <2>1, FetchKeeps
<1>3. CASE UNCHANGED <<vars, netVars>>
  <2>1. PageInv'
    BY <1>1, <1>3 DEF vars, sessionVars, netVars, ShopInv, PageInv
  <2>2. Listens
    BY <1>3 DEF Listens, vars, sessionVars, gateVars, ceremonyVars, netVars
  <2> QED
    BY <1>1, <2>1, <2>2, ListeningKeeps
<1> QED
  BY <1>2, <1>3 DEF RunAgeCheck, Begin

LEMMA HearingKeeps ==
  ASSUME ShopTypeOK, ShopInv, NEW answer \in inbox,
         \/ HearCart(answer) \/ HearCheckout(answer)
         \/ /\ HearPrefetched(answer) \/ HearChallenge(answer) \/ HearVerdict(answer)
            /\ UNCHANGED <<view, orders>>
  PROVE  ShopInv'
<1>1. Hear(answer)
  BY DEF HearCart, HearCheckout, HearPrefetched, HearChallenge, HearVerdict
<1>2. Listens /\ UNCHANGED call /\ inbox' = {}
  BY <1>1 DEF Hear, Listens, vars, sessionVars, gateVars, ceremonyVars
<1>3. PageInv /\ call = NoReq
  BY DEF ShopInv, PageInv
<1>4. CASE HearCart(answer) \/ HearCheckout(answer)
  <2>1. result # "ok" /\ UNCHANGED <<step, result>> /\ view' # "reordering"
    BY <1>3, <1>4 DEF HearCart, HearCheckout, Show, proofVars, PageInv
  <2>2. step \notin {"fetching", "wallet", "posting"}
    BY <1>3, <1>4 DEF HearCart, HearCheckout, PageInv
  <2>3. PageInv'
    BY <1>2, <1>3, <2>1, <2>2 DEF PageInv
  <2> QED
    BY <1>2, <2>1, <2>3, ListeningKeeps
<1>5. CASE /\ HearPrefetched(answer) \/ HearChallenge(answer)
           /\ UNCHANGED <<view, orders>>
  <2>1. step \in {"prefetching", "fetching"} /\ UNCHANGED <<result, view>>
    BY <1>5 DEF HearPrefetched, HearChallenge
  <2>2. result # "ok" /\ view # "reordering"
    BY <1>3, <2>1 DEF PageInv
  <2>3. step' = "idle" \/ (view = "checking" /\ step' = "wallet")
    BY <1>3, <1>5 DEF HearPrefetched, HearChallenge, PageInv
  <2>4. PageInv'
    BY <1>2, <1>3, <2>1, <2>2, <2>3 DEF PageInv
  <2> QED
    BY <1>2, <2>1, <2>2, <2>4, ListeningKeeps
<1>6. CASE HearVerdict(answer) /\ UNCHANGED <<view, orders>>
  <2>1. view = "checking" /\ view' = "checking" /\ step' = "idle"
        /\ result' = PavelResult(answer.reply)
    BY <1>3, <1>6 DEF HearVerdict, Return, PageInv
  <2>2. PageInv'
    BY <1>2, <1>3, <2>1 DEF PageInv, Waiting
  <2>3. ASSUME result' = "ok" PROVE Recorded(jar')
    <3>1. answer.reply = "verified"
      BY <2>1, <2>3 DEF PavelResult, ReasonForOutcome, Core!Outcomes
    <3>2. Recorded(answer.cookie)
      BY <3>1 DEF ShopInv, RecordInv
    <3>3. answer.cookie # NoSid
      BY <3>2, SessionsAssumption DEF Recorded, ShopTypeOK, TypeOK, SessionsTypeOK
    <3> QED
      BY <1>1, <3>2, <3>3 DEF Hear, Accept
  <2> QED
    BY <1>2, <2>1, <2>2, <2>3, ListeningKeeps
<1> QED
  BY <1>4, <1>5, <1>6

LEMMA LosingKeeps ==
  ASSUME ShopTypeOK, ShopInv,
         \/ GiveUp \/ PageFails
         \/ /\ \/ PrefetchFails \/ CheckFails \/ \E reason \in Reasons : WalletRefuses(reason)
            /\ UNCHANGED <<view, orders>>
  PROVE  ShopInv'
<1>1. PageInv
  BY DEF ShopInv
<1>2. CASE GiveUp
  <2>1. Listens /\ UNCHANGED <<call, inbox, step>> /\ view' = "shopping" /\ result' = "none"
        /\ step = "idle"
    BY <1>2 DEF GiveUp, Show, Listens, netVars, vars, sessionVars, gateVars, ceremonyVars
  <2>2. PageInv'
    BY <1>1, <2>1 DEF PageInv, Listens
  <2> QED
    BY <2>1, <2>2, ListeningKeeps
<1>3. CASE (\E reason \in Reasons : WalletRefuses(reason)) /\ UNCHANGED <<view, orders>>
  <2>1. Listens /\ UNCHANGED <<call, inbox, view>> /\ step = "wallet" /\ step' = "idle"
        /\ result' # "ok"
    BY <1>3 DEF WalletRefuses, Return, Listens, netVars, vars, sessionVars, gateVars, ceremonyVars
  <2>2. PageInv' /\ view' # "reordering"
    BY <1>1, <2>1 DEF PageInv, Listens
  <2> QED
    BY <2>1, <2>2, ListeningKeeps
<1>4. CASE Lose
  <2>1. Listens /\ inbox' = {} /\ call' = NoReq /\ Waiting
    BY <1>4 DEF Lose, Listens, vars, sessionVars, gateVars, ceremonyVars
  <2>2. result # "ok"
    BY <1>1, <2>1 DEF PageInv
  <2>3. CASE PageFails
    <3>1. UNCHANGED <<step, result>> /\ view' # "reordering"
          /\ step \notin {"fetching", "wallet", "posting"}
      BY <1>1, <2>3 DEF PageFails, Show, proofVars, PageInv
    <3>2. PageInv'
      BY <2>1, <2>2, <3>1 DEF PageInv
    <3> QED
      BY <2>1, <2>2, <3>1, <3>2, ListeningKeeps
  <2>4. CASE /\ PrefetchFails \/ CheckFails
             /\ UNCHANGED <<view, orders>>
    <3>1. step # "idle" /\ step' = "idle" /\ result' # "ok" /\ UNCHANGED view
      BY <2>2, <2>4 DEF PrefetchFails, CheckFails, Return
    <3>2. view # "reordering"
      BY <1>1, <3>1 DEF PageInv
    <3>3. PageInv'
      BY <2>1, <3>1, <3>2 DEF PageInv
    <3> QED
      BY <2>1, <3>1, <3>2, <3>3, ListeningKeeps
  <2> QED
    BY <1>2, <1>3, <2>3, <2>4
<1> QED
  BY <1>2, <1>3, <1>4 DEF PageFails, PrefetchFails, CheckFails

LEMMA ShopStepKeeps ==
  ASSUME ~ StoreFails, ShopTypeOK, BindingInv, ShopInv, [ShopNext]_shopVars
  PROVE  ShopInv'
<1>1. AsksPresent /\ Ages'
  BY AgesKept DEF ShopTypeOK, ClientTypeOK, AsksPresent, ShopInv, ServerInv, Ages
<1>2. CASE \E r \in Req : Serve(r) \/ ServerMishap(r) \/ Dropped(r) \/ Reply(r)
  BY <1>1, <1>2, ServingKeeps, ReplyKeeps
<1>3. CASE PageStep \/ PageMishap \/ \E r \in Req : Prefetch(r) /\ UNCHANGED <<view, orders>>
  BY <1>1, <1>3, PostingKeeps, CheckingKeeps, HearingKeeps, LosingKeeps DEF PageStep, PageMishap
<1>4. CASE ShopTick \/ UNCHANGED shopVars
  <2>1. UNCHANGED <<call, view, step, result, inbox>>
    BY <1>4 DEF ShopTick, shopVars, clientVars, netVars, proofVars
  <2>2. Listens /\ UNCHANGED jar
    BY <1>4, <2>1 DEF ShopTick, Tick, shopVars, vars, clientVars, netVars, sessionVars, gateVars,
                      ceremonyVars, Listens
  <2>3. PageInv'
    BY <2>1, <2>2 DEF ShopInv, PageInv, Waiting, Listens
  <2>4. result' = "ok" => Recorded(jar')
    BY <2>1, <2>2 DEF ShopInv, RecordInv
  <2> QED
    BY <2>1, <2>2, <2>3, <2>4, ListeningKeeps
<1> QED
  BY <1>2, <1>3, <1>4 DEF ShopNext

LEMMA InitShopInv == ShopInit => ShopInv
BY DEF ShopInit, Init, SessionsInit, GateInit, CeremonyInit, ClientInit, ShopInv, PageInv,
       ServerInv, Undisclosed, RecordInv, ProofOpensGate, Waiting

(* What ties the page's view of a check to the server's, as long as the    *)
(* store does not fail.                                                    *)
THEOREM ChecksOnRecord ==
  ASSUME ~ StoreFails
  PROVE  ShopSpec => []ShopInv
<1>1. ShopTypeOK /\ BindingInv /\ ShopInv /\ [ShopNext]_shopVars => ShopInv'
  BY ShopStepKeeps
<1> QED
  BY <1>1, InitShopInv, ShopTypeCorrect, ShopImplementsMiddleware, BindingsHold, PTL DEF ShopSpec

(* A check that comes back ok has left a proof, for the shop's age, in the *)
(* very session the browser then has the cookie of (client index.ts:149).  *)
THEOREM OkChecksAreRecorded ==
  ASSUME ~ StoreFails
  PROVE  ShopSpec => []OkMeansRecorded
<1>1. ASSUME ShopTypeOK, BindingInv, ShopInv PROVE OkMeansRecorded
  <2> SUFFICES ASSUME result = "ok"
               PROVE  /\ jar \in DOMAIN store
                      /\ store[jar].pavel.proofId # NoProof /\ store[jar].pavel.minAge >= MinAge
    BY DEF OkMeansRecorded
  <2>1. jar \in DOMAIN store /\ store[jar].pavel.proofId # NoProof
    BY <1>1 DEF ShopInv, RecordInv, Recorded
  <2>2. Ages
    BY <1>1 DEF ShopInv, ServerInv, Ages
  <2>3. store[jar].pavel.minAge = MinAge
    BY <1>1, <2>1, <2>2, StoreAtHome, FactAge
  <2>4. MinAge \in Nat
    BY ShopAssumption, SessionsAssumption
  <2> QED
    BY <2>1, <2>3, <2>4
<1> QED
  BY <1>1, ChecksOnRecord, ShopTypeCorrect, ShopImplementsMiddleware, BindingsHold, PTL

(* After such a check the next checkout gets through the gate              *)
(* (client README:29), whatever became of the attempts before it.          *)
THEOREM RetriesGetThrough ==
  ASSUME ~ StoreFails
  PROVE  ShopSpec => []ProofOpensGate
<1>1. ShopInv => ProofOpensGate
  BY DEF ShopInv, RecordInv
<1> QED
  BY <1>1, ChecksOnRecord, PTL
=============================================================================
