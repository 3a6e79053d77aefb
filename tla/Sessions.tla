------------------------------ MODULE Sessions ------------------------------
(***************************************************************************)
(* The requests an Express process has in flight and the sessions they     *)
(* work on.  The session middleware (express-session, not part of the      *)
(* repository; modelled from how src/ uses it) gives every request its own *)
(* copy of the stored session.  Handlers change the copy; when the         *)
(* response ends, a changed copy is written back whole, whatever other     *)
(* requests have written meanwhile.                                        *)
(*                                                                         *)
(* Session ids, challenges (nonces) and proof ids are 16 or more random    *)
(* bytes: fresh members of Sid, Nonce and Proof, whose sizes bound a run.  *)
(***************************************************************************)
EXTENDS Naturals, Functions

CONSTANTS
  Req,                \* slots for the requests in flight at one time
  Sid, NoSid,         \* session ids
  Nonce, NoNonce,     \* challenges
  Proof, NoProof,     \* proof ids
  Age,                \* minimum ages in play
  App, NoApp,         \* the application's own session data, e.g. a cart
  SaveUninitialized,  \* the express-session option of that name
  StoreFails          \* may the session store fail to write a session

ASSUME SessionsAssumption ==
  /\ NoSid \notin Sid /\ NoNonce \notin Nonce /\ NoProof \notin Proof
  /\ Age \subseteq 1 .. 120
  /\ NoApp \in App
  /\ SaveUninitialized \in BOOLEAN /\ StoreFails \in BOOLEAN

(* What PAVEL keeps in a session: the eligibility fact (verified exactly   *)
(* when it has a proof id) and the challenge in flight.                    *)
PavelSessionState == [minAge: Age \cup {0}, proofId: Proof \cup {NoProof}]
PendingRequest == [nonce: Nonce \cup {NoNonce}, minAge: Age \cup {0}, expiresAt: Nat]
Session == [pavel: PavelSessionState, pending: PendingRequest, app: App]

Unverified == [minAge |-> 0, proofId |-> NoProof]
NoPending == [nonce |-> NoNonce, minAge |-> 0, expiresAt |-> 0]
EmptySession == [pavel |-> Unverified, pending |-> NoPending, app |-> NoApp]

VARIABLES
  store,    \* the session store: the live session ids and their data
  issued,   \* every session id ever sent to a client
  phase,    \* where each request stands, "idle" for a free slot
  sid,      \* the session id each request works under
  session,  \* each request's own copy of the session
  dirty,    \* has the request changed its copy (or must it be saved anyway)
  reply,    \* what each request answers with
  since,    \* when each request arrived
  now       \* Date.now()

sessionVars == <<store, issued, phase, sid, session, dirty, reply, since>>

Put(f, key, value) ==
  [k \in DOMAIN f \cup {key} |-> IF k = key THEN value ELSE f[k]]
Without(f, key) == Restrict(f, DOMAIN f \ {key})

SessionsInit ==
  /\ store = [s \in {} |-> EmptySession]
  /\ issued = {}
  /\ phase = [r \in Req |-> "idle"]
  /\ sid = [r \in Req |-> NoSid]
  /\ session = [r \in Req |-> EmptySession]
  /\ dirty = [r \in Req |-> FALSE]
  /\ reply = [r \in Req |-> "none"]
  /\ since = [r \in Req |-> 0]
  /\ now = 0

(* "unanswered": its handler is over, but nothing was or will be answered.  *)
Phases == {"idle", "loaded", "acting", "building", "signing", "verifying",
           "responding", "sent", "unanswered"}

InFlight(r) == phase[r] \notin {"idle", "unanswered"}

(* "none" until the response ends; otherwise an outcome of POST verify, an *)
(* error of the other PAVEL routes, or a route's success or failure.       *)
Replies == {"none", "done", "failed", "age_verification_required", "invalid_min_age",
            "verified", "predicate_false", "predicate_unavailable", "untrusted_issuer",
            "expired", "replay", "malformed"}

SessionsTypeOK ==
  /\ issued \subseteq Sid
  /\ DOMAIN store \subseteq Sid /\ \A s \in DOMAIN store : store[s] \in Session
  /\ phase \in [Req -> Phases]
  /\ sid \in [Req -> Sid \cup {NoSid}] /\ \A r \in Req : InFlight(r) => sid[r] \in Sid
  /\ session \in [Req -> Session]
  /\ dirty \in [Req -> BOOLEAN]
  /\ reply \in [Req -> Replies]
  /\ since \in [Req -> Nat]
  /\ now \in Nat

---------------------------------------------------------------------------
(* The steps handlers are made of.                                         *)

Goto(r, p) == phase' = [phase EXCEPT ![r] = p]

(* Assign to req.session.                                                  *)
Write(r, s) ==
  /\ session' = [session EXCEPT ![r] = s]
  /\ dirty' = [dirty EXCEPT ![r] = @ \/ s # session[r]]

(* The store writes the session, or fails to, which nobody hears of        *)
(* (gate.ts:53).  Bound: it does not fail when that would leave no session *)
(* and no unused id to go on with.                                         *)
Save(r, s) ==
  \/ store' = Put(store, sid[r], s)
  \/ /\ StoreFails
     /\ sid[r] \in DOMAIN store \/ issued \cup {sid[r]} # Sid
     /\ UNCHANGED store

(* res.status(..).json(..), leaving the copy of the session as s.          *)
Respond(r, s, answer) ==
  /\ Write(r, s)
  /\ reply' = [reply EXCEPT ![r] = answer]
  /\ Goto(r, "responding")
  /\ UNCHANGED <<store, issued, sid, since>>

(* A session under a new id.  An id that is never sent to a client, as its *)
(* session was not saved, is free again: nobody can have learnt it.        *)
Generate(r, s, data) ==
  /\ s \in Sid \ issued
  /\ \A q \in Req : sid[q] # s
  /\ sid' = [sid EXCEPT ![r] = s]
  /\ session' = [session EXCEPT ![r] = data]

(* The request is over; its slot is free, or taken by a client that waits. *)
End(r, p) ==
  /\ Goto(r, p)
  /\ sid' = [sid EXCEPT ![r] = NoSid]
  /\ session' = [session EXCEPT ![r] = EmptySession]
  /\ dirty' = [dirty EXCEPT ![r] = FALSE]
  /\ reply' = [reply EXCEPT ![r] = "none"]
  /\ since' = [since EXCEPT ![r] = 0]
  /\ UNCHANGED issued

Close(r) == End(r, "idle")

(* The connection of a request that is left unanswered is dropped.         *)
HangUp(r) ==
  /\ phase[r] = "unanswered"
  /\ Goto(r, "idle")
  /\ UNCHANGED <<store, issued, sid, session, dirty, reply, since>>

---------------------------------------------------------------------------
(* The session middleware's own steps.                                     *)

(* A request arrives with the cookie of a live session, which other        *)
(* requests may be working on.                                             *)
Resume(r, s) ==
  /\ phase[r] = "idle"
  /\ s \in DOMAIN store
  /\ sid' = [sid EXCEPT ![r] = s]
  /\ session' = [session EXCEPT ![r] = store[s]]
  /\ since' = [since EXCEPT ![r] = now]
  /\ Goto(r, "loaded")
  /\ UNCHANGED <<store, issued, dirty, reply>>

(* A request arrives with no cookie, or with one the store does not know.  *)
Visit(r, s) ==
  /\ phase[r] = "idle"
  /\ Generate(r, s, EmptySession)
  /\ dirty' = [dirty EXCEPT ![r] = SaveUninitialized]
  /\ since' = [since EXCEPT ![r] = now]
  /\ Goto(r, "loaded")
  /\ UNCHANGED <<store, issued, reply>>

(* A route of the application that only works on its own session data.     *)
AppRequest(r, answer, data) ==
  /\ phase[r] = "loaded"
  /\ answer \in {"done", "failed"}
  /\ Respond(r, [session[r] EXCEPT !.app = data], answer)

(* res.end: a changed session is written back, then the response is sent,  *)
(* with the session's cookie, even if the store has failed.                *)
Send(r) ==
  /\ phase[r] = "responding"
  /\ IF dirty[r] THEN Save(r, session[r]) ELSE UNCHANGED store
  /\ issued' = IF dirty[r] THEN issued \cup {sid[r]} ELSE issued
  /\ Goto(r, "sent")
  /\ UNCHANGED <<sid, session, dirty, reply, since>>
=============================================================================
