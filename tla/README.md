# PAVEL, specified in TLA+

PAVEL is an age check for web shops: a shop mounts `pavel()` and `requireAgeProof()` in an Express
application, a browser SDK asks a digital wallet for one field (`age_over_NN`), and the server keeps
a single fact in the session: this user has proven that age. This directory holds TLA+ models of that
system, the TLC instances that check them, and proofs checked by TLAPS.

Run everything from this directory:

    tlc -workers 2 -config MCClaims.cfg MCMiddleware      # any run of the table below
    tlapm MiddlewareProofs.tla                            # any of the eight *Proofs modules

## 1. The system

| Part | Source | State it keeps | Operations |
|---|---|---|---|
| Age gate | `middleware/src/gate.ts` | `claimedProofs`, a process-wide `Map<proofId, claimedAt>`; a listener per guarded response | `requireAgeProof({minAge, forceReverify})`, pruning, the `finish` listener |
| Ceremony endpoints | `middleware/src/pavel.ts` | `pavelPending` and `pavel` in the session; the const `pending` across awaits | `GET /pavel/request`, `POST /pavel/verify`, `regenerateSession` |
| Sessions | express-session, external | the store; a copy of the session per request; cookies | load, save at the end of a response when changed, regenerate |
| Verification | `core/src/verify-shared.ts`, `pipeline.ts`, `backend-owf.ts` | none between calls; the reports of one call | `verifyDecodedResponse`, `classifyAssessments`, `extractAgeClaims`, `outcomeFor` |
| ISO 18013-7 path | `core/src/iso-mdoc.ts`, `hpke.ts`, `session-transcript.ts` | none | build a request, open and verify an encrypted answer |
| Google path | `core/src/google-openid4vp.ts` | none | the same over signed and encrypted OpenID4VP |
| Certificate chains | `core/src/mdoc-context.ts` | the path, within one call | build a path, cut it at an anchor, walk it |
| Request builders, reader keys | `core/src/request.ts`, `protocol.ts`, `google-reader.ts`, `iso-reader-auth.ts` | none | construct requests and certificates |
| Client SDK | `client/src/index.ts`, `dc-api.ts` | one ceremony per call | `fetchAgeRequest`, `requestAgeProof`, `extractVpToken` |
| Demo store | `apps/demo` | a cart in the session | cart routes, checkout behind either gate, a retry after an age check, a dev wallet |
| Mock authority and wallet | `mock_authority/src`, `scripts` | none | issue test credentials, present them, make the golden vectors |

The parts meet in the session. The ceremony writes the challenge and the fact into it, the gate reads
the fact and empties it, the shop's routes keep a cart next to them, and the session middleware gives
every request its own copy and writes changed copies back whole. The gate adds a second, process-wide
state, the claim map, that no session copy can be stale about. What is hard is what follows from
that: handlers that await in the middle (two in `GET /pavel/request`, two in `POST /pavel/verify`),
a listener that runs after the response, last-write-wins saves, a store that outlives the process
while the claims do not, claims that expire, clients that go away, and the library's reports that
come in any number and order and may end in a throw. `PROJECT.json` lists these hazards at the lines
where they bite, with the properties that watch over them. On the wire the difficulty is another one: three
protocols bind an answer to its question in three ways (by what is signed, by what is sealed, by a key
in the signed transcript), answers come in many wrappings, and each has to end in the same seven words.

What makes each part correct:

* the gate lets through only what was earned, runs one action at a time on a one-shot proof, never
  reuses a spent one while its claim lasts, and gives a proof back when the action failed;
* the ceremony binds a challenge to its session and age, uses it once, and grants the fact under a
  session id that nobody knew before, without losing the shop's data;
* verification accepts only on positive evidence for every check, and a rejection tells nothing of a
  credential whose issuer was not established;
* a chain is trusted only along a path of certificates in date, from an anchor, each allowed to issue
  the next, and a straight chain is never turned away;
* an age check, over whatever protocol, ends in `verified` only if somebody fit consented to this very
  question on this site; and an honest, prompt answer is accepted in every wrapping;
* every request is answered but a `GET /pavel/request` whose request cannot be built, and every claim
  settles;
* the client reports `ok` only of a check the server has recorded under the cookie the browser holds,
  comes back with a result unless it is left with a fetch that is never answered, and a user who gives
  such a fetch up and tries again after any failure gets through.

## 2. The modules

| Module | Models | Extends |
|---|---|---|
| `Outcome` | pure: reports to verdicts, verdicts and claims to an outcome | |
| `Verification` | one verifier, a report at a time | `Outcome` |
| `Authority` | certificates and the credentials issued under them (the mock authority) | `Outcome` |
| `IssuerChain` | `verifyCertificateChain`, a certificate at a time | `Authority` |
| `Requests` | what `GET /pavel/request` hands out: three requests, readers, transcripts | `Authority` |
| `Presentations` | what wallets answer: documents, sealing, the mock wallet | `Requests` |
| `Answers` | from an answer to an outcome: the client's extraction, routing, the three verifiers | `Presentations` |
| `Fixtures` | the golden vectors, the demo's readers and its dev wallet | `Answers` |
| `AgeCheck` | abstract: what an age check promises | |
| `Exchange` | one age check over the wire, from request to outcome; implements `AgeCheck` | `Fixtures` |
| `Sessions` | requests in flight, their copies, the store (express-session as `src/` uses it) | |
| `Gate` | `requireAgeProof`: both gates, the claim map, the listener | `Sessions` |
| `Ceremony` | the two endpoints | `Sessions`, an instance of `Outcome` |
| `OneShotProof` | abstract: what a one-shot gate promises of a proof | |
| `Middleware` | the composition in one process, with time, restarts and fairness; the properties; implements `OneShotProof` | `Gate`, `Ceremony` |
| `Client` | one browser: its cookie, its fetches, and the SDK's ceremony | `Middleware` |
| `Shop` | the demo store's page and routes, over that browser and the middleware; their properties | `Client` |
| `MC…` | instances for TLC: presentations, reports, certificates, cards, sites, symmetry | |
| `MiddlewareProofs` | theorems on types and claims | `Middleware`, `TLAPS` |
| `OneShotProofs` | the gate implements `OneShotProof` | `MiddlewareProofs` |
| `BindingProofs` | theorems on what proofs, challenges and gates are bound to | `MiddlewareProofs` |
| `VerificationProofs` | theorems on verification | `Verification`, `TLAPS` |
| `IssuerChainProofs` | theorems on certificate paths | `IssuerChain`, `TLAPS` |
| `OneAtATimeProofs` | theorems on clients whose requests come one at a time | `BindingProofs` |
| `ShopProofs` | `Shop` implements `Middleware`; theorems on its checks and orders | `Shop`, `OneAtATimeProofs` |
| `ExchangeProofs` | theorems on an age check over the wire; it implements `AgeCheck` | `Exchange`, `TLAPS` |

Definitions keep the code's names; `PROJECT.json` maps each one to the lines it stands for.

**Verification.** A check of the library is `[status, category, check]`, where `check` is the
`ISSUER_CHECKS` entry its text contains. `Present` hands a decoded presentation to the library,
`OnCheck` is one call of the callback, `LibraryReturns` and `LibraryThrows` end the call and answer.
A presentation that does not decode is answered at once. Reports are kept as a set: the code only
asks whether one exists. The library checks every document of a response into one set of reports,
while document type and claims are read from the first document only; `Answers` builds both.

**Chains.** A path is grown upwards from the signer (`FindIssuer`, one step of the external builder,
which picks any certificate that names and verifies as the issuer, among those sent and those trusted),
cut at the highest trusted certificate (`Anchor`), and walked down (`Descend`). The path read is the
code's `parsedChain`; `cert.verify` in the walk checks once more what the builder has checked and is
not modelled. Certificates are records with a subject, an issuer, a key and the key they were signed
with; a signature is the name of that key. `Authority` has the same validation as one operator,
`Recognised`, for the wire: the builder takes one of the possible issuers (`IssuerTaken`, left open which)
and does not come back for another, and the path it climbs must be as long as what was sent. That the two
agree wherever no certificate has two possible issuers is `AsRecognised`.

**The wire.** `Requests` to `Exchange` follow one challenge from `GET /pavel/request` to the outcome.
JSON and CBOR values are small records (`[text |-> …]`, `[object |-> …]` and so on); what is sealed,
signed or hashed stands for itself. So a device signature is good exactly for the transcript it covers,
and HPKE opens with the key and the transcript it was sealed with. Code that may throw is an operator
that returns the set of its result. In `Exchange` the page asks (`Ask`), a wallet answers any entry it
was handed for the page it sees, the site's own or another (`Release`, `DevWallet`), the answer is
changed on the way or kept for later (`Alter`; nothing makes a page post at once), and `Post` posts it
in any wrapping a browser is known to use, under its own protocol's name, another's or none. `consents`
is a history variable: the questions a holder of a fit credential has answered to this site.
`SiteAssumption` and `CardsAssumption` say what is taken for granted of a site and of the world: the pages
are the site's own (whatever slashes its configuration has), its anchors are finitely many, each wallet has
one reader at most, and its
key goes with its certificates; cards are credentials, and nobody has a certificate for a tampered key.
`AsTheCeremonyHasIt` ties the two halves of the project: what `Ceremony` takes for the outcome of a
presentation is what comes out of the wire.

**Sessions.** `Req` are slots for requests in flight. A slot goes from `idle` to `loaded` when a
request arrives with the cookie of a live session (`Resume`) or without a usable one (`Visit`), and
then carries its own `session`. It ends `idle`, or `unanswered` when its handler is over without a
response: then only the client can close the connection (`HangUp`). `Send` is the end of the response: a
`dirty` copy overwrites the stored session whatever happened to it meanwhile, also when the session was destroyed. If `StoreFails`,
any write of the store may be lost without a word, as in `req.session.save(() => {})`. `verified` is not
a field of its own: the code sets and clears it together with the proof id. Session ids, nonces and
proof ids are fresh members of finite sets; an id that was never sent to anybody is free again.

**Gate.** Everything up to `next()` is one synchronous action: `DenyUnproven`, `Admit` (plain gate),
`DenyClaimed` and `Claim` (one-shot gate, which prunes first). The guarded route is any that answers
`done` (below 400) or `failed` and may change the shop's data (`ActionResponds`). The listener is
`FinishSpend`, `FinishRelease`, or nothing (`Finish`); `Disconnect` is a response whose client has
gone, for which Node emits no `finish`. Saving in `FinishSpend` happens in the same step as the
listener. `spentAt` is a history variable: the proofs actions have succeeded with.

**Ceremony.** `Mint`, `AwaitGoogle` and `Issue…` are the three stretches of `GET /pavel/request`
between its awaits. Either await may reject (`BuildRejects`): the handler catches nothing and Express 4
(`^4.19.2`) does not look at its promise, so that nothing is ever answered; where the unhandled rejection
ends the process instead, that is a `Restart`. `StartVerify` and what follows it are the two of `POST /pavel/verify`, which catch what they await. `ticket` is
the handler's own `pending`. Wallets answer with any card of `Card`, over any protocol of `Protocol`,
in answer to any challenge ever minted or not yet minted, to this site or another. What the
cryptography binds is in `Opens` and `VerificationOutcome`: an encrypted answer opens only with the
key of its own challenge (and, for ISO, for its own origin), and the device signature is good only for
the challenge and origin it was made for. `minted` and `granted` are history variables.

**One-shot proofs.** `OneShotProof` says what a one-shot gate promises of a proof: `Take`, `GiveBack`,
`UseUp`, and, only if `MayAbandon`, `Abandon`. `Middleware` maps to it with `MayAbandon <- Disconnects`: a
proof is `spent` only if an action has succeeded on this very claim, and `lost` if its action failed and the
client was gone. So where clients stay, the refinement says that a failed action gives its proof back; the
mutant of `ImplementsOneShot` in `claims` is a listener that does not.

**Middleware.** `RequestStep` interleaves these for all slots; `Tick` advances the clock, `Restart`
drops the process with its requests and claims while the store stays. `OneAtATimeSpec` is the same system
with clients that await each answer: no session ever has two requests in flight.

**Client.** Where the other models face clients that send anything, `Client` is one browser with the
SDK in it. `Fetch` is an arrival under the cookie in the `jar`; `Answer` is `Send` plus the response
on its way to the page; `Hear` takes cookie and answer, `Lose` is a fetch that rejects: the connection
broke or the page aborted it, and the request goes on running at the server. The ceremony is `Begin`
(with a challenge fetched ahead, or not), `HearChallenge`, `Present` or `WalletRefuses`, `HearVerdict`
or `CheckFails`; every path ends in `Return`. A fetch whose request is `unanswered` is `Hung`: the page may
give it up without that being a mishap, but nothing obliges it to, since the client sets no time limit. Ids are drawn with `CHOOSE` (`Drawn`): one browser cannot
tell them apart, and it saves the run a factor for each.

**Shop.** `view` is what the user is about on the page. The server's side, `Serve`, is made of the
middleware's own actions under the shop's policy: a cart in `Restricted` is checked out behind a gate,
one-shot when the page asks for `forceReverify`. `ServerMishap` is what can go wrong there. Mishaps
of both sides are bounded together by `MaxMishaps` (one of them is that a request cannot be built), since a user for whom something goes wrong every
time gets nowhere.

Definitions introduced as a *variant* of another are that definition with one plausible mistake in
it. No specification uses them; each shows that a property would notice (`PROJECT.json`, `mutants`).

## 3. The runs

| Run | Bounds that matter | Checks | Distinct states |
|---|---|---|---|
| `verification` | 7 kinds of presentation, 13 reports, ages 18 and 21 | `TypeOK`, `FailClosed`, `VerdictsDiscloseInOrder`, `UnexplainedThrowRejected`, `FailureHelpsOnlyToExplain` | 590 000 |
| `issuer_chain` | 18 certificates (three roots, one out of date, one the renewal of another under its name and key; intermediates, one cross-signed, one without the CA flag, one without the usage, two in a circle; their signers; dates that begin and end today), all chains of up to two and three of three, 11 sets of anchors | `TypeOK`, `AsRecognised`, `AcceptedAlongValidPath`, `StraightChainAccepted` | 10 800 |
| `exchange` | 4 sites (no reader, both, Google's from files, Apple's without certificates), each with an authority trusted by two certificates; 11 wallets of none, one or two credentials, of chains sent whole, with a stranger in it, or with two possible anchors; 2 challenges, the ages 13 and 21, 3 protocols, own and other origin | `TypeOK`, `HonestAnswerAccepted`, `AsTheCeremonyHasIt`, `SignedRequestsAnswerable`, `VectorsAsStated`, `DevWalletAsHinted`, `ImplementsAgeCheck` | 53 000 |
| `claims` | 2 concurrent requests, 1 proof, a failing store, clock 0–2 with both TTLs 1, fairness | `ClaimInv`, `ClaimAccountedFor`, `NoReuseWithinTTL`, `ImplementsOneShot`, `GrantedInTime`, `RequestsComplete`, `ClaimsSettle` | 493 000 |
| `serial` | 1 request at a time, 3 sessions, 2 challenges, 2 proofs, 2 ages, 3 cards, 3 protocols, a restart | `TypeOK`, `GateSound`, `ChallengeSingleUse`, `SpentProofForgotten`, `AppDataCarried`, `ImplementsOneShot` | 793 000 |
| `binding` | 2 concurrent requests, 3 sessions, 2 challenges, 2 ages, disconnects, a failing store | `NoFixation`, `FreshHome`, `SessionBound`, `GateSound`, `BindingInv` | 1 120 000 |
| `shop` | one page, 2 slots (one for the request it gave up), 5 session ids, 4 challenges, 3 proofs, both policies, 1 mishap, 1 order, clock 0–1, fairness | `ShopTypeOK`, `OkMeansRecorded`, `ProofOpensGate`, `FreshProofPerOrder`, `OrderGetsPlaced`, `ChecksReturn` | 204 000 |

and runs in which the code does not do what the repository says of it; TLC ends each with a short
counterexample:

| Run | Property refuted | What happens |
|---|---|---|
| `single_use_race` | `ChallengeSingleUse` | two verifications of one session are both past `pavel.ts:107` before either consumes the challenge; each gets a proof |
| `claim_lost` | `ClaimAccountedFor` | the client goes away, the action failed, no `finish`: the proof stays claimed |
| `reuse_after_ttl` | `NeverReused` | a cart request with an old copy saves the spent proof back; after the TTL it is claimed again |
| `cart_race` | `AppDataCarried` | a cart saved while a verification awaits is lost in the move to the new session |
| `skipped_check_rejected` | `SkippedCheckRejected` | no digest check was ever reported, and the answer is accepted |

**Why the bounds are enough.** Two slots give every interleaving of two handlers, and a slot is free
again after its request, so sequences of requests are as long as ids and proofs last. The races in
the code are between two holders of one session (or of one proof), and a third adds no new pair.
Both TTLs and the request limit are one tick, and the clock goes to 2, so that a claim of exactly the
TTL and one older than it, a live challenge and an expired one all occur. One proof suffices where
claims are the question; two challenges and two ages where bindings are. Three session ids leave room
for an old session, the one generated from it, and another browser's. The serial run gives up
concurrency for all cards and protocols, two data values and a restart. Symmetry is over the
interchangeable ids and slots, and is not used under fairness.

The inductive invariants of section 4 were checked by TLC over the same instances before they were
proved: `SerialInv` under `OneAtATimeSpec` (two slots, three sessions, one challenge, two proofs, a restart: 55 000
states), `InTime` for every slot (493 000), `ShopInv` (204 000), `PathInv` and
`StraightInv` (10 800), `RequestsInv` and `AnswerInv` (53 000). They are
defined next to the properties they carry; naming one under `INVARIANT` in the cfg repeats that.

A lost write costs a session id when the session was new, so `Save` does not let the last one go
(its bound is stated there); with three ids one may be lost before or after a verification.

For chains, every decision is about a pair of neighbours, about the cut, or about the length of what was
sent, so three certificates and the sets of anchors that leave the cut at the top, in the middle, at the
signer or nowhere show each of them; the proofs have no such bound. In `exchange` two challenges make an
answer late or of another age, two documents make the first differ from the rest in each way that a
report or a claim can differ, and each of the wrappings appears in the client's tests or in the list the
code reads (`Envelope`).

`FailureHelpsOnlyToExplain` looks at every report that may come next as if the library were to return or to
throw right after it. A rejection turns into an acceptance in one case: after a throw that no failure
explains, a failure of a category the mapping does not weigh (a `STATUS`, say) passes for the explanation
(`verify-shared.ts:98-99`). `core/README.md:79` promises the opposite, that a failure PAVEL does not
recognize is rejected; the property is what the code does, and the run `skipped_check_rejected` refutes the
other half of the same sentence.

`AgeCheck` says what must not happen; that a fit holder's answer gets through is
`HonestAnswerAccepted`, of issuers whose chain is straight (`Straight`): with an anchor and its renewal both
trusted, or with a certificate too many in the chain, the code may reject the honest holder
(`mdoc-context.ts:85-90`), and the model does. Vectors and hints are the repository's own expectations of single answers:
`VectorsAsStated`, `DevWalletAsHinted`. One hint is not always borne out: the dev wallet's ID that lacks the
age asked for carries `age_over_13` (`server.ts:121-124`), so that it comes out `verified`, and not
`predicate_unavailable`, where 13 is what was asked. The property says so, and the run has that age.

The shop run has one page that does one thing at a time, so two slots: the request it waits for, and
the one it gave up that still runs. A mishap may come at any point of any attempt, and challenges,
proofs and session ids are enough for a full attempt before it and one after it. One tick lets a
challenge expire. The shop's four invariants also hold over two orders (`MaxOrders = 2`, without the
two liveness properties and their fairness: 1 790 000 states). The run stops, and so does not check
deadlock, because a user whose order was placed may walk away.

**Fairness.** `Fairness` is weak fairness, per slot, of the steps the event loop owes a request that
has arrived: routing it, resuming its handler when an await is over, ending the response, emitting
`finish`. That is what Node gives when the awaited cryptography and store calls end, as they do, with
a result or an error. No client has to send anything, time does not have to pass, and clients do not
have to stay. `FairShopSpec` adds the page: its event loop takes up an answer that has arrived, and its
user goes on towards the order, trying again after a failure and having an eligible card to present
(`PageStep`). That the page gives up a fetch that is never answered is under no fairness: no code does it. So
`ChecksReturn` allows a check to be left with one (`Hung`), wherever it stands, and `OrderGetsPlaced` is said
of a user who does not leave one hanging for ever. Nothing of `PageMishap` or `ServerMishap` is under fairness; they are bounded instead.

**Assumption about time.** No request stays in flight longer than `RequestLimit`, and what is shown of
claims, and the refinement of `OneShotProof`, needs `RequestLimit <= ClaimTTL`: nobody waits 24 hours for a checkout. Without it a running
request's claim can be pruned and the proof claimed by another.

## 4. What is proved

For any set of slots, ids, challenges, cards, ages, any time limits and an unbounded number of steps.

`MiddlewareProofs`:

* `TypeCorrect`: `Spec => []TypeOK`. One lemma per group of actions; a request in flight always works
  under a session id, which is what keeps the store's domain within the session ids.
* `ClaimsConsistent`: `Spec => []ClaimInv`, assuming `RequestLimit <= ClaimTTL`. `ClaimInv` is the
  inductive invariant. `ExclusiveClaim` alone is not inductive: pruning could drop a held claim. So
  `HeldClaim` says that a held proof is in the map since the moment it was claimed, which is not before
  the request arrived; `Timely`, that requests are younger than the limit; together they say that
  pruning never touches a held claim (`PruningKeepsClaims`). `SpentClaim` says that a proof spent
  within the TTL is still in the map, and that its last holder is on the way to `finish` with success,
  so that the listener will not release it.
* `OneShotExclusive`: `Spec => []ExclusiveClaim`, from it; being a conjunct, it is checked with it.
* `SpentStaysSpent`: `Spec => NoReuseWithinTTL`: the only step that makes a request hold a proof is
  `Claim`, which found it missing from the pruned map.

* `ClaimsAccounted`: `Spec => []ClaimAccountedFor`, assuming also that clients stay (`~ Disconnects`);
  the run `claim_lost` shows why that is needed.

These allow restarts and stale session copies of every kind, and all but the last disconnects: the
claim map alone carries the argument.

`BindingProofs`:

* `BindingsHold`: `Spec => []BindingInv`. `NoFixation`, `SessionBound` and `GateSound` depend on each
  other through the handlers' snapshots: a stored fact is only as good as the grant behind it, the
  grant as the challenge in the handler's hand, that challenge as the session it was read from. So the
  invariant takes them together: facts are those their proof was granted for (`FactsAtHome`), every
  grant was earned (`GrantsEarned`), challenges in the store, in copies and in hand stay with the
  session they were minted in (`SessionBound`), and a handler has one presentation in hand exactly while
  it verifies (`InHand`). Most steps change one request and one entry of the store and nothing else;
  they are treated at once (`Local`, `LocalKeepsBinding`), `Mint` and `VerifyAccepts` on their own.
* `NoSessionFixation`, `ChallengesSessionBound`, `GatesSound`: the three properties, from it.
* `HomesAreFresh`: `Spec => FreshHome`. Only an accepted verification grants a proof, and it does so under
  an id drawn from those that no cookie, copy or entry of the store has.
* `GrantsInTime`: `Spec => GrantedInTime`. The handler looks at the expiry before it awaits the verifier and
  not after (`pavel.ts:112`), so a proof may be granted on a challenge that has expired meanwhile. The
  invariant (`InTime`) says that what is being verified had not expired when its request arrived; so a late
  grant is never later than the longest request.

No assumption on time or clients is needed for any of these.

`OneAtATimeProofs`, of `OneAtATimeSpec`. That requests come one at a time is what these need: the runs
`cart_race`, `single_use_race` and `reuse_after_ttl` show what two of one session do to each. Clients of
different sessions stay as concurrent as they like.

* `AppDataSurvives`: `OneAtATimeSpec => AppDataCarried`. `CarryInv` says why: the copy of a request is the
  stored session until the handler changes it, since nobody else writes that session.
* `ChallengesUsedOnce`: `OneAtATimeSpec => []ChallengeSingleUse`, also when the store loses writes. The
  challenge of a grant is in no stored session, copy or handler any more (`SingleUseInv`): the session it
  was in is destroyed with it, and no other had it (`SessionBound`).
* `SpentProofsForgotten`: `OneAtATimeSpec => []SpentProofForgotten`, and `ProofsUsedOnce`:
  `OneAtATimeSpec => NeverReused`, for ever, with no use of the TTL. Both assume that the store writes and
  clients stay for their responses (`~ StoreFails`, `~ Disconnects`); without either, the listener's empty
  session never gets into the store. `SpentInv` says that a spent proof is only where the request that
  spent it still stands.
* `SerialClients`: all of it at once, `OneAtATimeSpec => []SerialInv`.

The steps of a request are first sorted into eight kinds by what they change (`StepKind`), so that each
invariant is proved over eight cases and not thirty.

`OneShotProofs`:

* `GateImplementsOneShot`: `Spec => ImplementsOneShot`, assuming `RequestLimit <= ClaimTTL`. A proof is
  taken while it is in the map and its claim no older than the TTL; it is running while the request
  that holds it has not succeeded, and spent if the action that did has `spentAt` at the time of this claim.
  `Claim` takes, the listener gives back, an action that succeeds uses up, a failed one whose client goes
  away (`Disconnects`) loses, and all else, pruning included, shows nothing. That time frees no
  proof a request still runs on, and that the last runner is the only one, is `ClaimInv`.

`IssuerChainProofs`, for any certificates, chains and anchors:

* `ChainTypeCorrect`, `PathsSound`: `Spec => []PathInv` and `AcceptedPathsValid`:
  `Spec => []AcceptedAlongValidPath`. The invariant says that the path is linked and ends in the signer
  while it is built, that cutting it leaves it linked, and that what has been walked is fit.
* `StraightPathsTaken`: `Spec => []StraightInv`, and `StraightChainsAccepted`:
  `Spec => []StraightChainAccepted`, chains of any length. Where each certificate has one possible issuer
  the builder can only climb the path itself, to its top, an anchor that has no issuer, and the cut there
  removes nothing. The builder stops at a certificate it has seen; that a straight path has none twice
  (`StraightNeverRepeats`) is because climbing from two equal places would go on for ever, and from the
  higher one it ends.

`VerificationProofs`, for any set of ages and any library reports:

* `AcceptanceFailsClosed`: `Spec => []FailClosed`, `DisclosureInOrder`:
  `Spec => []VerdictsDiscloseInOrder`, `UnexplainedThrowsRejected`, and
  `FailuresHelpOnlyToExplain`: `Spec => FailureHelpsOnlyToExplain`, over `VerificationTypeCorrect`: a failure
  of one of the four weighed categories is reason enough to reject, and one of another category changes at
  most whether a throw is explained.

`ShopProofs`:

* `ShopImplementsMiddleware`: `ShopSpec => Spec`. A fetch is an arrival (`FetchArrives`), what the
  server does with it a `Route`, `Proceed` or `Settle` (`HandleRoutes`, `ResolveProceeds`), and all
  else the page does leaves the middleware as it is (`PageSteps`). The invariant it needs is `TypeOK`
  and that pages only ever post presentations.
* `ShopGatesSound`, `ShopNoSessionFixation`, `ShopGrantsInTime`, and `ShopImplementsOneShot` (which needs
  `RequestLimit <= ClaimTTL`): what the middleware promises, of the shop.
* `OneCheckPerOrder`: `ShopSpec => []FreshProofPerOrder`, assuming that no request outlasts the TTL and
  that the clock has not gone past it. `OrderInv` says that what an order was placed on is spent; by
  `SpentClaim` no request is running an action on a proof spent within the TTL. The bound on the clock is
  needed: where it may pass the TTL, TLC finds two orders on one proof with nothing lost or given up. The
  page has its order and asks for a new cart before the listener has emptied the session; that request saves
  its older copy, proof included, and after the TTL the proof is claimed again (as in `reuse_after_ttl`).
* `NoEarlyReorder`: `ShopSpec => ReordersLate`, which is what remains without that bound: a proof an order was
  placed on carries another only when more than the TTL has passed since it was claimed.
* `OrdersAreEarned`: `ShopSpec => []OrdersEarned`, with no assumption. `EarnedInv` says that what a request
  holds, and what an order was placed on, was earned for the shop's age. Only the shop's gate hands out a
  claim (`HeldMoves`), to a session that satisfies it (`SatisfiedIsEarned`), and what a proof was granted for
  never changes (`HistoryGrows`). `ReordersLate` and `OrdersEarned` were checked by TLC before they were
  proved, over two orders with a TTL of zero (960 000 states); no run lists them.
* `ShopTypeCorrect`: `ShopSpec => []ShopTypeOK`.
* `OkChecksAreRecorded`: `ShopSpec => []OkMeansRecorded`, and `RetriesGetThrough`:
  `ShopSpec => []ProofOpensGate`, assuming `~ StoreFails` and nothing of time or of the requests the page
  has given up. They are parts of one invariant, `ShopInv` (`ChecksOnRecord`), that follows a check from its
  acceptance to the retried order: until the answer is sent, the id the proof moves to is nobody
  else's, and no gate has seen the proof (`ServerInv`); once it is sent, the session is in the store and
  nobody works under it (`Recorded`); and since the page does one thing at a time (`PageInv`), the next to
  come under that cookie is its own retry, which no gate can turn away (`Admissible`).

`ExchangeProofs`, for any site, wallets, ages and number of challenges, under the two assumptions above:

* `AnswersGenuine`: `Spec => [](RequestsInv /\ AnswerInv)`, the inductive invariant with `TypeOK`
  (`ExchangeTypeCorrect`). The page's requests are those of the challenge in flight or of the last one; an
  answer is what a wallet made of its own question for the page it saw, but for what happened on the way.
* `ExchangeIsAnAgeCheck`: `Spec => ImplementsAgeCheck`, step by step (`AskRefines`, `AnswersRefine`,
  `PostRefines`). The heart is `VerifiedConsented`. For each of the three protocols, whatever the
  wrapping, the outcome of an answer is that of its documents against the transcript of the challenge in
  flight, if it is found and opens at all (`PlainWay`, `IsoWay`, `GoogleWay`, joined in `BodyOutcome`). An outcome
  `verified` means the first document's signatures are by the right keys over the right transcript, and
  transcripts of different challenges, origins or protocols differ (`TranscriptsDiffer`); so a fit holder
  made it for this question and this site (`VerifiedIsEarned`), and by `AnswerInv` has consented to it.
* `HonestAnswersAccepted`: `Spec => []HonestAnswerAccepted`: the extraction digs the answer out of each
  wrapping (`Extracted`), and all reports on the documents of a fit holder are passes, one of each kind
  that acceptance asks for (`GoodIsAllPassed`, `FitIsVerified`). That the builder's one choice at each
  certificate finds the path of a straight chain is `StraightIsRecognised`, and that whatever it finds is a
  valid path is `RecognisedIsValid`, on which `VerifiedConsented` rests.
* `CeremonyIsRight`: `Spec => []AsTheCeremonyHasIt`. Documents that differ only in what they are bound to get
  the same verdicts but for `deviceBound` (`SameVerdict`), which is what `Ceremony` assumes of a late or
  foreign answer; `Middleware` and `Shop` stand on this.
* `SignedRequests`: `Spec => []SignedRequestsAnswerable`.
* `VerdictsOfAll`: of any documents, the verdicts are what they claim of every one of them. Each kind of
  check is reported once per document, passed or failed (`EveryCheck`), so the summing up can be read off.
  `CeremonyIsRight` and the two theorems on the examples rest on it.
* `GoldenVectors`: `TestAuthoritiesTrusted => (Spec => []VectorsAsStated)`, and `DevWalletOutcomes`:
  `TestAuthoritiesTrusted => (Spec => []DevWalletAsHinted)`, for any ages and challenges. Each example is one
  document, whose outcome is a choice between four facts (`OneDocument`); what the mock authority issues and
  the mock wallet shows decides each (`MintShown`, `Trusted`, `NotTrusted`), and a changed signature or name
  is `malformed` (`ChangedOnTheWay`). The hypothesis says of the sites that they trust the authorities
  that issue the examples, by one certificate each, and neither of the two that are there to be distrusted; `MCExchange` assumes it, so
  that TLC evaluates it in the run `exchange`.

Only model-checked: what is claimed under fairness (`RequestsComplete`, `ClaimsSettle`, `OrderGetsPlaced`,
`ChecksReturn`), which is out of the prover's reach: a proof of each would have to say when the fair steps
are enabled; and `AsRecognised`, the agreement of the two forms of chain validation, whose two directions
the proofs have each on their own (`AcceptedPathsValid` and `RecognisedIsValid`; `StraightChainsAccepted` and
`StraightIsRecognised`). Every other property of a passing run is stated by a theorem. The
refutations of section 3 are TLC's too. No theorem says more than its model: what a real run of the
cryptography, the encodings or the session store may do beyond them is in section 5.

## 5. What is not modelled

* Cryptography and encodings are symbolic: signatures, HPKE, JWE, hashes, CBOR and PEM are what they
  bind, and reading a certificate's fields is taken for granted.
* The other uses of the mdoc context (`mdoc-context.ts:20-75`), which hand bytes to primitives.
* The wording of the failures the library reports and of errors, `verifiedAt`, and logs.
* A disagreement no run is spent on: `middleware/README.md:100` says that `replay` answers an expired
  challenge, `pavel.ts:114` answers `expired`, the word that line 99 of the same file keeps for an expired ID.
  The models answer what the code answers (`RejectExpired`). Nothing is decided by which of the two it is.
* `normalizeProtocol` and the constants of `protocol.ts`, which no path of the middleware uses.
* Several server processes: claims are per process, as `gate.ts:12` says.
* Requests that outlast the claim TTL of 24 hours.
* On the browser's side: several tabs or fetches at a time, a browser without the Digital Credentials
  API, and the diagnostics hook, which is the host's own code.
* The demo's quantities, prices, catalog, and clearing of the cart; two orders of one unrestricted cart.
* The benchmarks and build scripts: they keep no state and decide nothing.

## 6. Plan

Written so far, in this order: `Outcome`, `Verification`, `Sessions`, `Gate`, `Ceremony`,
`Middleware`, `MiddlewareProofs`, `VerificationProofs`, `BindingProofs`, `Client`, `Shop`,
`ShopProofs`, `Authority`, `IssuerChain`, `IssuerChainProofs`, `OneShotProof`, `OneShotProofs`,
`Requests`, `Presentations`, `Answers`, `Fixtures`, `AgeCheck`, `Exchange`, `OneAtATimeProofs`,
`ExchangeProofs`. Next:

1. Several tabs: a browser with two fetches at a time, whose answers may arrive out of order and put an
   old cookie back.
