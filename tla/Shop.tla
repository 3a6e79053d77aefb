-------------------------------- MODULE Shop --------------------------------
(***************************************************************************)
(* The demo store: its page (apps/demo/public/app.js) drives cart and      *)
(* checkout from one browser, runs the age check when checkout asks for it *)
(* and then tries again; its server puts a gate in front of the orders     *)
(* that need one (apps/demo/src/server.ts).  Any answer may be lost.  As   *)
(* the client's README:91 advises, the page may fetch a challenge ahead.   *)
(***************************************************************************)
EXTENDS Client, Sequences

CONSTANTS
  MinAge,      \* MIN_AGE of the catalog
  Restricted,  \* the carts with an age-restricted item in them
  MaxOrders    \* bound: no new cart once so many orders are placed

ASSUME ShopAssumption ==
  MinAge \in Age /\ Restricted \subseteq App \ {NoApp} /\ MaxOrders \in Nat

VARIABLES
  view,    \* what the user is about on the page
  orders   \* history: the proof each order was placed on under forceReverify

shopVars == <<vars, clientVars, view, orders>>

Views == {"browsing", "adding", "shopping", "ordering", "checking", "reordering",
          "placed"}

ShopInit == Init /\ ClientInit /\ view = "browsing" /\ orders = << >>

---------------------------------------------------------------------------
(* The server.                                                             *)

Guarded(r) == session[r].app \in Restricted

CheckoutGate(r) ==
  /\ Guarded(r)
  /\ \/ DenyUnproven(r, MinAge)
     \/ ~ asked[r].force /\ Admit(r, MinAge)
     \/ asked[r].force /\ (DenyClaimed(r, MinAge) \/ Claim(r, MinAge))
  /\ UNCHANGED <<ceremonyVars, orders>>

(* Placing the order empties the cart.                                     *)
PlaceOrder(r) ==
  /\ ActionResponds(r, "done", NoApp)
  /\ orders' = Append(orders, held[r])
  /\ UNCHANGED ceremonyVars

CheckoutUnguarded(r) ==
  /\ ~ Guarded(r)
  /\ \/ /\ session[r].app # NoApp
        /\ AppRequest(r, "done", NoApp)
        /\ orders' = Append(orders, NoProof)
     \/ /\ session[r].app = NoApp
        /\ AppRequest(r, "failed", NoApp)
        /\ UNCHANGED orders
  /\ UNCHANGED <<gateVars, ceremonyVars>>

Handle(r) ==
  LET path == asked[r].path
  IN  \/ /\ path = "/api/cart"
         /\ \E data \in App \ {NoApp} : AppRequest(r, "done", data)
         /\ UNCHANGED <<gateVars, ceremonyVars, orders>>
      \/ path = "/api/checkout" /\ (CheckoutGate(r) \/ CheckoutUnguarded(r))
      \/ /\ path = "/pavel/request"
         /\ \E n \in Drawn(Nonce \ DOMAIN minted) : Mint(r, n, MinAge)
         /\ UNCHANGED <<gateVars, orders>>
      \/ /\ path = "/pavel/verify"
         /\ \/ RejectUnchallenged(r) \/ RejectExpired(r)
            \/ \E p \in asked[r].shown : StartVerify(r, p)
         /\ UNCHANGED <<gateVars, orders>>

Resolve(r) ==
  \/ PlaceOrder(r)
  \/ /\ \/ AwaitGoogle(r) \/ IssueUnsigned(r) \/ IssueWithGoogle(r) \/ VerifyRejects(r)
        \/ \E s \in FreshSid, p \in Drawn(Proof \ DOMAIN granted) : VerifyAccepts(r, s, p)
     /\ UNCHANGED <<gateVars, orders>>

Serve(r) ==
  /\ Handle(r) \/ Resolve(r) \/ (Settle(r) /\ UNCHANGED orders)
  /\ UNCHANGED <<now, restarts, clientVars, view>>

(* What may go wrong at the server: a request cannot be built, verification*)
(* throws, or the store fails to destroy a session.                        *)
ServerMishap(r) ==
  /\ Mishap
  /\ \/ BuildRejects(r) \/ VerifyThrows(r)
     \/ \E s \in FreshSid : VerifyLosesSession(r, s)
  /\ UNCHANGED <<gateVars, now, restarts, netVars, proofVars, view, orders>>

(* The connection of a request the page gave up is gone: 'finish' may be   *)
(* missing for it, and one left unanswered is over.                        *)
Dropped(r) ==
  /\ call # r
  /\ \/ asked[r].gone /\ GoAway(r)
     \/ StopWaiting(r)
  /\ UNCHANGED <<now, restarts, clientVars, view, orders>>

---------------------------------------------------------------------------
(* The page.                                                               *)

Show(v) == view' = v /\ UNCHANGED orders

AddToCart(r) ==
  /\ view \in {"browsing", "placed"} /\ step = "idle"
  /\ Len(orders) < MaxOrders
  /\ Fetch(r, Ask("/api/cart"))
  /\ Show("adding")
  /\ UNCHANGED <<proofVars, mishaps>>

HearCart(answer) ==
  /\ view = "adding"
  /\ Hear(answer)
  /\ Show("shopping")
  /\ UNCHANGED <<proofVars, mishaps>>

PostCheckout(r) ==
  \E forceReverify \in BOOLEAN :
    Fetch(r, [Ask("/api/checkout") EXCEPT !.force = forceReverify])

Checkout(r) ==
  /\ view = "shopping" /\ step = "idle"
  /\ PostCheckout(r)
  /\ Show("ordering")
  /\ UNCHANGED <<proofVars, mishaps>>

(* The answer to a checkout: the order, an empty cart, or the demand for   *)
(* an age check, which the page meets once.                                *)
HearCheckout(answer) ==
  /\ view \in {"ordering", "reordering"}
  /\ Hear(answer)
  /\ \/ answer.reply = "done" /\ Show("placed")
     \/ answer.reply = "failed" /\ Show("browsing")
     \/ /\ answer.reply = "age_verification_required"
        /\ Show(IF view = "ordering" THEN "checking" ELSE "shopping")
  /\ UNCHANGED <<proofVars, mishaps>>

RunAgeCheck(r) ==
  /\ view = "checking" /\ result = "none"
  /\ Begin(r)
  /\ UNCHANGED <<view, orders>>

(* The check has returned: try the checkout again, or tell the user.       *)
Reorder(r) ==
  /\ view = "checking" /\ step = "idle" /\ result = "ok"
  /\ PostCheckout(r)
  /\ Show("reordering")
  /\ result' = "none"
  /\ UNCHANGED <<offered, step, mishaps>>

GiveUp ==
  /\ view = "checking" /\ step = "idle" /\ result \in Reasons
  /\ Show("shopping")
  /\ result' = "none"
  /\ UNCHANGED <<vars, netVars, offered, step, mishaps>>

(* A lost answer leaves the page where the user can try again.             *)
PageFails ==
  /\ view \in {"adding", "ordering", "reordering"}
  /\ Lose
  /\ Show(IF view = "adding" THEN "browsing" ELSE "shopping")
  /\ UNCHANGED proofVars

PageStep ==
  \/ \E r \in Req :
       \/ AddToCart(r) \/ Checkout(r) \/ RunAgeCheck(r) \/ Reorder(r)
       \/ \E p \in Presentation :
            Present(r, p, MinAge) /\ Eligible(p.card, MinAge) /\ UNCHANGED <<view, orders>>
  \/ \E answer \in inbox :
       \/ HearCart(answer) \/ HearCheckout(answer)
       \/ /\ HearPrefetched(answer) \/ HearChallenge(answer) \/ HearVerdict(answer)
          /\ UNCHANGED <<view, orders>>
  \/ GiveUp

PageMishap ==
  \/ PageFails
  \/ /\ \/ PrefetchFails \/ CheckFails
        \/ \E reason \in Reasons : WalletRefuses(reason)
        \/ \E r \in Req, p \in Presentation :
             Present(r, p, MinAge) /\ ~ Eligible(p.card, MinAge)
     /\ UNCHANGED <<view, orders>>

ShopTick == Tick /\ UNCHANGED <<clientVars, view, orders>>

Reply(r) == Answer(r) /\ UNCHANGED <<proofVars, mishaps, view, orders>>

ShopNext ==
  \/ \E r \in Req :
       \/ Serve(r) \/ ServerMishap(r) \/ Dropped(r) \/ Reply(r)
       \/ Prefetch(r) /\ UNCHANGED <<view, orders>>
  \/ PageStep \/ PageMishap \/ ShopTick

ShopSpec == ShopInit /\ [][ShopNext]_shopVars

(* The event loop serves what has arrived, the page and its user carry on, *)
(* and only a bounded number of things go wrong.                           *)
ShopFairness ==
  /\ \A r \in Req : WF_shopVars(Serve(r) \/ Reply(r))
  /\ WF_shopVars(PageStep)

FairShopSpec == ShopSpec /\ ShopFairness

---------------------------------------------------------------------------

ShopTypeOK ==
  TypeOK /\ ClientTypeOK /\ view \in Views /\ orders \in Seq(Proof \cup {NoProof})

(* "Resolves to { ok: true } once the server records the eligibility fact" *)
(* (client index.ts:149): the browser's own session then holds a proof,    *)
(* for the age asked for.                                                  *)
OkMeansRecorded ==
  result = "ok" =>
    /\ jar \in DOMAIN store
    /\ store[jar].pavel.proofId # NoProof /\ store[jar].pavel.minAge >= MinAge

(* The retry after a successful check is not turned away again             *)
(* (client README:13-25), whatever went wrong in attempts before it.       *)
ProofOpensGate ==
  view = "reordering" => \A answer \in inbox : answer.reply # "age_verification_required"

(* Why the two hold: the page does one thing at a time...                  *)
PageInv ==
  /\ call # NoReq => inbox = {} /\ phase[call] \notin {"idle", "sent"}
  /\ step \in {"fetching", "wallet", "posting"} => view = "checking"
  /\ result = "ok" => view = "checking" /\ step = "idle" /\ ~ Waiting
  /\ view = "reordering" => step = "idle" /\ Waiting

(* ... the id a proof moves to is nobody else's before it is sent, and no  *)
(* gate has seen the proof...                                              *)
Undisclosed(r) ==
  phase[r] = "responding" /\ reply[r] = "verified" =>
    /\ dirty[r] /\ held[r] = NoProof /\ sid[r] \notin issued
    /\ \A q \in Req \ {r} : sid[q] # sid[r]
    /\ ProofOf(r) # NoProof /\ ProofOf(r) \notin DOMAIN claimedProofs

ServerInv ==
  /\ \A n \in DOMAIN minted : minted[n].minAge = MinAge
  /\ DOMAIN claimedProofs \subseteq DOMAIN granted
  /\ jar \in issued \cup {NoSid} /\ \A answer \in inbox : answer.cookie \in issued \cup {NoSid}
  /\ \A r \in Req : /\ ~ InFlight(r) => reply[r] = "none"
                    /\ held[r] # NoProof => phase[r] \in {"acting", "responding", "sent"}
                    /\ Undisclosed(r)

(* ... and that is so until the page asks for something with it, whatever  *)
(* requests it gave up before are still at.                                *)
Recorded(s) ==
  /\ s \in issued /\ s \in DOMAIN store
  /\ store[s].pavel.proofId # NoProof
  /\ store[s].pavel.proofId \notin DOMAIN claimedProofs
  /\ \A r \in Req : sid[r] = s => phase[r] = "sent" /\ held[r] = NoProof

Admissible(r) ==
  /\ reply[r] # "age_verification_required"
  /\ phase[r] = "loaded" =>
       /\ ProofOf(r) # NoProof /\ ProofOf(r) \notin DOMAIN claimedProofs
       /\ \A q \in Req \ {r} : sid[q] = sid[r] => phase[q] = "sent"

RecordInv ==
  /\ \A answer \in inbox : answer.reply = "verified" => Recorded(answer.cookie)
  /\ result = "ok" => Recorded(jar)
  /\ view = "reordering" /\ call # NoReq => Admissible(call)
  /\ ProofOpensGate

(* Together: from the acceptance of a verification to the retried order,   *)
(* a proof is where the browser's cookie will find it (index.ts:149-201).  *)
ShopInv == PageInv /\ ServerInv /\ RecordInv

(* "with forceReverify, every purchase needs a fresh one" (server.ts:189). *)
FreshProofPerOrder ==
  \A i, j \in DOMAIN orders : orders[i] = orders[j] /\ orders[i] # NoProof => i = j

(* Such an order stands on a credential shown in a challenge of the shop's *)
(* own, genuine and for at least the shop's age (server.ts:189-197).       *)
EarnedHere(p) == \E age \in Age : age >= MinAge /\ Earned(p, age)

OrdersEarned == \A i \in DOMAIN orders, p \in Proof : orders[i] = p => EarnedHere(p)

(* And a second order on the same check, should a stale session bring it   *)
(* back, comes no sooner than CLAIM_TTL after the first (gate.ts:9-14).    *)
ReordersLate ==
  [][\A i \in DOMAIN orders, p \in Proof :
       orders[i] = p /\ orders' = Append(orders, p) => now - spentAt[p] > ClaimTTL]_shopVars

(* However its attempts went wrong, a user with a good card who tries      *)
(* again, and gives up a fetch that is never answered, gets an order       *)
(* placed.                                                                 *)
OrderGetsPlaced == []<> ~ Hung => <>(orders # << >>)

(* An age check, wherever it stands and whatever goes wrong meanwhile,     *)
(* comes back with a result (client README:53, "It resolves to ..."), of a *)
(* user who answers the wallet's prompt; unless the page is left with a    *)
(* fetch that is never answered, on which the client puts no limit.  The   *)
(* same holds of a challenge fetched ahead.                                *)
ChecksReturn == step # "idle" ~> step = "idle" \/ Hung
=============================================================================
