------------------------------- MODULE Client -------------------------------
(***************************************************************************)
(* A browser in front of the middleware: the cookie it keeps, one fetch at *)
(* a time with answers that may be lost, and the client SDK's ceremony     *)
(* (packages/client/src/index.ts), from requestAgeProof to its result.     *)
(***************************************************************************)
EXTENDS Middleware

CONSTANTS
  NoReq,        \* no request
  MaxMishaps    \* bound on what goes wrong for the user: losses, wrong choices

ASSUME ClientAssumption == NoReq \notin Req /\ MaxMishaps \in Nat

VARIABLES
  jar,      \* the session cookie the browser holds, or NoSid
  asked,    \* what each request asks for, and whether the page gave it up
  call,     \* the request the page awaits an answer to, or NoReq
  inbox,    \* the answer on its way to the page, none or one
  offered,  \* the challenge the page has (authRequest), or NoNonce
  step,     \* where requestAgeProof, or fetchAgeRequest, stands
  result,   \* the last result of requestAgeProof
  mishaps   \* how much has gone wrong

netVars == <<jar, asked, call, inbox>>
proofVars == <<offered, step, result>>
clientVars == <<netVars, proofVars, mishaps>>

Paths == {"/pavel/request", "/pavel/verify", "/api/cart", "/api/checkout"}

Asks == [path: Paths, shown: SUBSET Presentation, force: BOOLEAN, gone: BOOLEAN]

Ask(path) == [path |-> path, shown |-> {}, force |-> FALSE, gone |-> FALSE]

ClientInit ==
  /\ jar = NoSid
  /\ asked = [r \in Req |-> Ask("/api/cart")]
  /\ call = NoReq
  /\ inbox = {}
  /\ offered = NoNonce
  /\ step = "idle"
  /\ result = "none"
  /\ mishaps = 0

Reasons == {"declined", "request_failed", "verification_failed"} \cup
           (Core!Outcomes \ {"verified"})

ClientTypeOK ==
  /\ jar \in Sid \cup {NoSid}
  /\ asked \in [Req -> Asks]
  /\ call \in Req \cup {NoReq}
  /\ inbox \subseteq [cookie: Sid \cup {NoSid}, reply: Replies, challenge: Nonce \cup {NoNonce}]
  /\ offered \in Nonce \cup {NoNonce}
  /\ step \in {"idle", "prefetching", "fetching", "wallet", "posting"}
  /\ result \in Reasons \cup {"none", "ok"}
  /\ mishaps \in Nat

(* A member of S to stand for a value drawn at random.                     *)
Drawn(S) == IF S = {} THEN {} ELSE {CHOOSE x \in S : TRUE}
FreshSid == Drawn({s \in Sid \ issued : \A r \in Req : sid[r] # s})

Mishap == mishaps < MaxMishaps /\ mishaps' = mishaps + 1

---------------------------------------------------------------------------
(* fetch()                                                                 *)

Waiting == call # NoReq \/ inbox # {}

(* The request arrives under the browser's cookie.  (One that never does   *)
(* changes nothing at the server, and is to the page like a lost answer.)  *)
Fetch(r, ask) ==
  /\ ~ Waiting
  /\ call' = r
  /\ asked' = [asked EXCEPT ![r] = ask]
  /\ \/ jar \in DOMAIN store /\ Resume(r, jar)
     \/ jar \notin DOMAIN store /\ \E s \in FreshSid : Visit(r, s)
  /\ UNCHANGED <<gateVars, ceremonyVars, now, restarts, jar, inbox>>

(* The response leaves the server, to the page if it still waits for it.   *)
(* A session that was saved is sent along with its cookie.                 *)
Answer(r) ==
  /\ Send(r)
  /\ \/ /\ call = r
        /\ call' = NoReq
        /\ inbox' = {[cookie    |-> IF dirty[r] THEN sid[r] ELSE NoSid,
                      reply     |-> reply[r],
                      challenge |-> session[r].pending.nonce]}
     \/ call # r /\ UNCHANGED <<call, inbox>>
  /\ UNCHANGED <<gateVars, ceremonyVars, now, restarts, jar, asked>>

Accept(cookie) == IF cookie = NoSid THEN jar ELSE cookie

Hear(answer) ==
  /\ answer \in inbox
  /\ inbox' = {}
  /\ jar' = Accept(answer.cookie)
  /\ UNCHANGED <<vars, asked, call>>

(* fetch rejects: the connection is lost, or the signal aborts it.  The    *)
(* server carries on.  Of an answer on its way, the headers may have been  *)
(* read and their cookie taken.  Giving up a fetch that is never answered  *)
(* is no mishap of its own; but nobody is bound to do it, since fetch has  *)
(* no time limit and the client sets none.                                 *)
Hung == call # NoReq /\ phase[call] = "unanswered"

Lose ==
  /\ Waiting
  /\ \/ Mishap
     \/ Hung /\ UNCHANGED mishaps
  /\ asked' = [r \in Req |-> [asked[r] EXCEPT !.gone = @ \/ r = call]]
  /\ call' = NoReq
  /\ inbox' = {}
  /\ jar' \in {jar} \cup {Accept(answer.cookie) : answer \in inbox}
  /\ UNCHANGED vars

---------------------------------------------------------------------------
(* fetchAgeRequest and requestAgeProof                                     *)

AskChallenge(r) == Fetch(r, Ask("/pavel/request"))

(* Ahead of the click, when the page loads (bound: once, and first of all).*)
Prefetch(r) ==
  /\ step = "idle" /\ DOMAIN minted = {}
  /\ AskChallenge(r)
  /\ step' = "prefetching"
  /\ UNCHANGED <<offered, result, mishaps>>

HearPrefetched(answer) ==
  /\ step = "prefetching"
  /\ Hear(answer)
  /\ step' = "idle"
  /\ offered' = answer.challenge
  /\ UNCHANGED <<result, mishaps>>

PrefetchFails ==
  /\ step = "prefetching"
  /\ Lose
  /\ step' = "idle"
  /\ UNCHANGED <<offered, result>>

(* requestAgeProof called with a challenge in hand, or without one.  The   *)
(* page hands one in once.                                                 *)
Begin(r) ==
  /\ step = "idle"
  /\ result' = "none"
  /\ \/ /\ offered # NoNonce
        /\ step' = "wallet"
        /\ UNCHANGED <<vars, netVars>>
     \/ /\ offered = NoNonce
        /\ step' = "fetching"
        /\ AskChallenge(r)
  /\ UNCHANGED <<offered, mishaps>>

HearChallenge(answer) ==
  /\ step = "fetching"
  /\ Hear(answer)
  /\ step' = "wallet"
  /\ offered' = answer.challenge
  /\ UNCHANGED <<result, mishaps>>

(* Variant of Return: the challenge is kept for the next call.             *)
ReturnKeepingChallenge(res) ==
  /\ step' = "idle"
  /\ result' = res
  /\ UNCHANGED offered

Return(res) ==
  /\ step' = "idle"
  /\ result' = res
  /\ offered' = NoNonce

(* The wallet answers the challenge, for the page's own origin, over a     *)
(* protocol the site offered; with the wrong card it is the user's mishap. *)
Eligible(card, age) ==
  Core!OutcomeFor(Core!RawVerification(card.response, card.verdict), age) = "verified"

Present(r, p, age) ==
  /\ step = "wallet"
  /\ p.nonce = offered /\ p.ours
  /\ p.protocol = Google => GoogleConfigured
  /\ Fetch(r, [Ask("/pavel/verify") EXCEPT !.shown = {p}])
  /\ step' = "posting"
  /\ \/ Eligible(p.card, age) /\ UNCHANGED mishaps
     \/ ~ Eligible(p.card, age) /\ Mishap
  /\ UNCHANGED <<offered, result>>

(* The prompt is dismissed, the wallet fails, or answers with something    *)
(* no vp_token is found in.                                                *)
WalletRefuses(reason) ==
  /\ step = "wallet"
  /\ reason \in {"declined", "verification_failed", "malformed"}
  /\ Mishap
  /\ Return(reason)
  /\ UNCHANGED <<vars, netVars>>

ReasonForOutcome(outcome) ==
  IF outcome \in Core!Outcomes \ {"verified"} THEN outcome ELSE "verification_failed"

(* Variant of PavelResult: the outcome itself, success or not.             *)
OutcomeAsResult(outcome) == outcome

PavelResult(outcome) ==
  IF outcome = "verified" THEN "ok" ELSE ReasonForOutcome(outcome)

HearVerdict(answer) ==
  /\ step = "posting"
  /\ Hear(answer)
  /\ Return(PavelResult(answer.reply))
  /\ UNCHANGED mishaps

(* Variant of CheckFails: a lost verdict is never noticed.                 *)
CheckHangs ==
  /\ step \in {"fetching", "posting"}
  /\ Lose
  /\ UNCHANGED proofVars

CheckFails ==
  /\ step \in {"fetching", "posting"}
  /\ Lose
  /\ Return(IF step = "fetching" THEN "request_failed" ELSE "verification_failed")
=============================================================================
