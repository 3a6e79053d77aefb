------------------------------ MODULE Ceremony ------------------------------
(***************************************************************************)
(* The ceremony endpoints (middleware/src/pavel.ts).  GET /pavel/request   *)
(* mints a challenge into the session; POST /pavel/verify verifies a       *)
(* presentation against it, and on success moves the session to a fresh id *)
(* with the eligibility fact in it.  Both handlers await in the middle.    *)
(***************************************************************************)
EXTENDS Sessions

CONSTANTS
  Card,             \* what wallets may hold: [response, verdict], see Outcome
  Protocol,         \* the DC-API protocols wallets answer with
  GoogleConfigured, \* options.google is set
  NonceTTL          \* options.nonceTtlMs

Core == INSTANCE Outcome

Unsigned == Core!Unsigned
Google == Core!Google
Iso == Core!Iso

ASSUME CeremonyAssumption ==
  /\ Card \subseteq [response: Core!Response, verdict: Core!Verdicts]
  /\ Protocol \subseteq {Unsigned, Google, Iso}
  /\ GoogleConfigured \in BOOLEAN
  /\ NonceTTL \in Nat

(* A card presented over a protocol in answer to a challenge, to this site *)
(* or to another one.                                                      *)
Presentation == [protocol: Protocol, nonce: Nonce, ours: BOOLEAN, card: Card]

VARIABLES
  ticket,   \* the const `pending` a handler keeps across its awaits
  shown,    \* the presentation being verified, none or one
  minted,   \* history: the session and age each challenge was minted for
  granted   \* history: what each proof was granted for

ceremonyVars == <<ticket, shown, minted, granted>>

CeremonyInit ==
  /\ ticket = [r \in Req |-> NoPending]
  /\ shown = [r \in Req |-> {}]
  /\ minted = [n \in {} |-> [sid |-> NoSid, minAge |-> 0]]
  /\ granted = [p \in {} |-> [sid |-> NoSid]]

CeremonyTypeOK ==
  /\ ticket \in [Req -> PendingRequest]
  /\ shown \in [Req -> SUBSET Presentation]
  /\ DOMAIN minted \subseteq Nonce
  /\ \A n \in DOMAIN minted : minted[n] \in [sid: Sid \cup {NoSid}, minAge: Age]
  /\ DOMAIN granted \subseteq Proof
  /\ \A p \in DOMAIN granted :
       granted[p] \in [sid: Sid, from: Sid \cup {NoSid}, challenge: PendingRequest,
                       shown: SUBSET Presentation]

Consumed(r) == [session[r] EXCEPT !.pending = NoPending]

RespondCeremony(r, s, answer) ==
  /\ Respond(r, s, answer)
  /\ ticket' = [ticket EXCEPT ![r] = NoPending]
  /\ shown' = [shown EXCEPT ![r] = {}]
  /\ UNCHANGED granted

Regenerate(r, s, data) ==
  /\ Generate(r, s, data)
  /\ dirty' = [dirty EXCEPT ![r] = TRUE]
  /\ Goto(r, "responding")
  /\ ticket' = [ticket EXCEPT ![r] = NoPending]
  /\ shown' = [shown EXCEPT ![r] = {}]

---------------------------------------------------------------------------
(* GET /pavel/request                                                      *)

RejectMinAge(r) ==
  /\ phase[r] = "loaded"
  /\ RespondCeremony(r, session[r], "invalid_min_age")
  /\ UNCHANGED minted

(* Variant of Mint: the age parsed is off by one.                          *)
MintOffByOne(r, n, minAge) ==
  /\ phase[r] = "loaded"
  /\ n \in Nonce \ DOMAIN minted
  /\ minted' = Put(minted, n, [sid |-> sid[r], minAge |-> minAge - 1])
  /\ ticket' = [ticket EXCEPT ![r] = [nonce |-> n, minAge |-> minAge - 1, expiresAt |-> 0]]
  /\ Goto(r, "building")
  /\ UNCHANGED <<store, issued, sid, session, dirty, reply, since, shown, granted>>

(* The nonce is drawn, then the handler awaits the ISO request.            *)
Mint(r, n, minAge) ==
  /\ phase[r] = "loaded"
  /\ n \in Nonce \ DOMAIN minted
  /\ minted' = Put(minted, n, [sid |-> sid[r], minAge |-> minAge])
  /\ ticket' = [ticket EXCEPT ![r] = [nonce |-> n, minAge |-> minAge, expiresAt |-> 0]]
  /\ Goto(r, "building")
  /\ UNCHANGED <<store, issued, sid, session, dirty, reply, since, shown, granted>>

(* The challenge's lifetime starts here; a Google request is then awaited. *)
AwaitGoogle(r) ==
  /\ phase[r] = "building"
  /\ GoogleConfigured
  /\ ticket' = [ticket EXCEPT ![r].expiresAt = now + NonceTTL]
  /\ Goto(r, "signing")
  /\ UNCHANGED <<store, issued, sid, session, dirty, reply, since, shown, minted, granted>>

Issue(r, pending) ==
  /\ RespondCeremony(r, [session[r] EXCEPT !.pending = pending], "done")
  /\ UNCHANGED minted

(* Variant of IssueUnsigned: the handler returns without an answer.        *)
IssueUnanswered(r) ==
  /\ phase[r] = "building"
  /\ ~ GoogleConfigured
  /\ Write(r, [session[r] EXCEPT !.pending = [ticket[r] EXCEPT !.expiresAt = now + NonceTTL]])
  /\ Goto(r, "returned")
  /\ UNCHANGED <<store, issued, sid, reply, since, ticket, shown, minted, granted>>

IssueUnsigned(r) ==
  /\ phase[r] = "building"
  /\ ~ GoogleConfigured
  /\ Issue(r, [ticket[r] EXCEPT !.expiresAt = now + NonceTTL])

IssueWithGoogle(r) ==
  /\ phase[r] = "signing"
  /\ Issue(r, ticket[r])

(* Either await may reject, say over a key no request can be signed with.  *)
(* The handler catches nothing and Express 4 does not look at the promise: *)
(* the session is left as it was and no response is ever sent.  (Where the *)
(* unhandled rejection ends the process, that is a Restart.)               *)
BuildRejects(r) ==
  /\ phase[r] \in {"building", "signing"}
  /\ End(r, "unanswered")
  /\ ticket' = [ticket EXCEPT ![r] = NoPending]
  /\ UNCHANGED <<store, shown, minted, granted>>

---------------------------------------------------------------------------
(* POST /pavel/verify                                                      *)

Challenged(r) == session[r].pending # NoPending
Expired(r) == session[r].pending.expiresAt < now

RejectUnchallenged(r) ==
  /\ phase[r] = "loaded"
  /\ ~ Challenged(r)
  /\ RespondCeremony(r, session[r], "replay")
  /\ UNCHANGED minted

RejectExpired(r) ==
  /\ phase[r] = "loaded"
  /\ Challenged(r) /\ Expired(r)
  /\ RespondCeremony(r, Consumed(r), "expired")
  /\ UNCHANGED minted

(* No vp_token, or a Google response when no Google key was minted.  (A    *)
(* challenge always carries the ISO keys, so that third check never bites.)*)
RejectBody(r) ==
  /\ phase[r] = "loaded"
  /\ Challenged(r) /\ ~ Expired(r)
  /\ RespondCeremony(r, Consumed(r), "malformed")
  /\ UNCHANGED minted

(* Variant of StartVerify: the challenge's age is not looked at.           *)
StartVerifyLate(r, p) ==
  /\ phase[r] = "loaded"
  /\ Challenged(r)
  /\ p.protocol = Google => GoogleConfigured
  /\ ticket' = [ticket EXCEPT ![r] = session[r].pending]
  /\ shown' = [shown EXCEPT ![r] = {p}]
  /\ Goto(r, "verifying")
  /\ UNCHANGED <<store, issued, sid, session, dirty, reply, since, minted, granted>>

StartVerify(r, p) ==
  /\ phase[r] = "loaded"
  /\ Challenged(r) /\ ~ Expired(r)
  /\ p.protocol = Google => GoogleConfigured
  /\ ticket' = [ticket EXCEPT ![r] = session[r].pending]
  /\ shown' = [shown EXCEPT ![r] = {p}]
  /\ Goto(r, "verifying")
  /\ UNCHANGED <<store, issued, sid, session, dirty, reply, since, minted, granted>>

(* Routing by protocol, and the answer of the verifier called.             *)
VerificationOutcome(p, t) == Core!VerificationOutcome(p, t)

VerifyThrows(r) ==
  /\ phase[r] = "verifying"
  /\ RespondCeremony(r, Consumed(r), "malformed")
  /\ UNCHANGED minted

VerifyRejects(r) ==
  /\ phase[r] = "verifying"
  /\ \E p \in shown[r] :
       /\ VerificationOutcome(p, ticket[r]) # "verified"
       /\ RespondCeremony(r, Consumed(r), VerificationOutcome(p, ticket[r]))
  /\ UNCHANGED minted

(* Accepted: regenerateSession destroys the old entry, carries the app's   *)
(* data to a session under a new id, and the eligibility fact is written   *)
(* to that.  (Until the store has destroyed the entry nobody can tell this *)
(* request from one still verifying, so the two are one step.)             *)
Accepted(r) ==
  /\ phase[r] = "verifying"
  /\ \A p \in shown[r] : VerificationOutcome(p, ticket[r]) = "verified"

(* The proof drawn for an accepted presentation, and what it stands for.   *)
Grant(r, s, proofId) ==
  /\ Accepted(r)
  /\ proofId \in Proof \ DOMAIN granted
  /\ granted' = Put(granted, proofId,
                    [sid |-> s, from |-> sid[r], challenge |-> ticket[r], shown |-> shown[r]])
  /\ reply' = [reply EXCEPT ![r] = "verified"]
  /\ UNCHANGED <<issued, since, minted>>

(* Variant of EligibilityFact: the age is not recorded.                    *)
FactWithoutAge(r, proofId) == [minAge |-> 0, proofId |-> proofId]

EligibilityFact(r, proofId) == [minAge |-> ticket[r].minAge, proofId |-> proofId]

(* Variants of VerifyAccepts: the session keeps its id; the old session    *)
(* lives on with the fact in it; the challenge is carried over; the        *)
(* application's data is not.                                              *)
AcceptsInPlace(r, s, proofId) ==
  /\ s = sid[r]
  /\ Grant(r, s, proofId)
  /\ Write(r, [Consumed(r) EXCEPT !.pavel = EligibilityFact(r, proofId)])
  /\ Goto(r, "responding")
  /\ ticket' = [ticket EXCEPT ![r] = NoPending]
  /\ shown' = [shown EXCEPT ![r] = {}]
  /\ UNCHANGED <<store, sid>>

AcceptsKeepingOld(r, s, proofId) ==
  /\ Grant(r, s, proofId)
  /\ store' = Put(store, sid[r], [Consumed(r) EXCEPT !.pavel = EligibilityFact(r, proofId)])
  /\ Regenerate(r, s, [Consumed(r) EXCEPT !.pavel = EligibilityFact(r, proofId)])

AcceptsCarryingChallenge(r, s, proofId) ==
  /\ Grant(r, s, proofId)
  /\ store' = Without(store, sid[r])
  /\ Regenerate(r, s, [session[r] EXCEPT !.pavel = EligibilityFact(r, proofId)])

AcceptsDroppingApp(r, s, proofId) ==
  /\ Grant(r, s, proofId)
  /\ store' = Without(store, sid[r])
  /\ Regenerate(r, s, [EmptySession EXCEPT !.pavel = EligibilityFact(r, proofId)])

VerifyAccepts(r, s, proofId) ==
  /\ Grant(r, s, proofId)
  /\ store' = Without(store, sid[r])
  /\ Regenerate(r, s, [pavel   |-> EligibilityFact(r, proofId),
                       pending |-> NoPending,
                       app     |-> session[r].app])

(* Accepted, but the store fails to destroy the session: express-session   *)
(* has an empty one under a new id in its place when it reports the error. *)
VerifyLosesSession(r, s) ==
  /\ Accepted(r)
  /\ Regenerate(r, s, EmptySession)
  /\ reply' = [reply EXCEPT ![r] = "malformed"]
  /\ UNCHANGED <<store, issued, since, minted, granted>>
=============================================================================
