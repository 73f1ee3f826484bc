# A TLA+ verification project for concordium-web3id

This directory holds TLA+ models of the services and web applications in this
repository, the TLC configurations that model-check them on small instances, and
proofs checked by TLAPS for every instance.

## The system

The repository is a set of programs around *verifiable credentials* on the
Concordium chain: a registry contract records that a credential exists, its
holder keeps the secrets and shows presentations, and verifiers check them.

| Part | Where | State it keeps | Operations |
|---|---|---|---|
| Rate limiter | `examples/some-issuer/src/lib.rs`, `RateLimiter` | queue of the latest users, map from user to count | `check_limit`, `update_limit` |
| Example issuers (Discord, Telegram) | `examples/some-issuer/src/lib.rs`, `src/bin` | account sequence number, limiter, channel of requests, one-shot response channels, tasks | `POST /credential`, `tx_sender`, `register_credential`, `start_services` |
| Sign-in of the example issuers | `src/bin/discord.rs`, `src/bin/telegram.rs` | session cookie, Telegram's hash | OAuth redirect, `check` |
| Generic issuer | `services/web3id-issuer` | sequence number, channel, tasks | `POST /v0/issue`, `GET /v0/status`, the worker |
| Example verifier: database | `examples/some-verifier/src/db.rs`, `resources/schema.sql` | tables `verifications`, `discord`, `telegram` | add, remove and get a verification |
| Example verifier: HTTP service | `examples/some-verifier/src/main.rs` | none beside the database | `verify_request`, add, remove, get |
| Bots | `examples/bots` | none | `check`: say whether a user is verified |
| Generic verifiers | `services/web3id-verifier`, `services/web3id-verifier-ts` | none | verify a presentation |
| Frontends of the examples | `examples/*/frontend` | steps, boxes and dialogs, sign-in windows, toast, wallet connection | sign in, request a credential, prove, remove |
| Proof explorer | `test-tools/proof-explorer` | wallet connections, statements put together, anchors, messages, proofs | connect, compose, anchor, prove, verify, show |
| Issuer test tool | `test-tools/issuer-front-end` | index, keys, schema, intervals, one box for answers | thirteen steps: create, issue, view, revoke, restore, update |
| Issuer front end | `issuer-front-end` | active step, schema and metadata, network, deployment | write schema and metadata, deploy a registry |
| Command line test | `test-tools/web3id-test` | none | call the services once |

How they interact: an issuer's HTTP handlers pass requests to one worker task
over a bounded channel and wait on a one-shot channel; the worker alone sends
transactions to the node, under a sequence number it counts itself. The
verifier's handlers share a pool of database connections; each request is one
transaction. The frontends talk to the wallet, to a popup of the issuer and to
the servers. The node, the contract, the wallet and Postgres are outside the
repository.

What is hard here, and what makes each part correct:

* **Limiter.** The map must stay the index of the queue while both change, at
  every capacity, zero included; the limiter must decide as counting would.
* **Issuers.** A request can be cancelled at every `await`; a node's answer can
  be lost while its transaction is admitted; transactions expire; the worker may
  end in the middle of its queue; the process may be shut down or killed. Correct
  is: the worker's number follows the node's, clients are told the truth and
  never wait for nothing, users are limited, an ended worker ends the process.
* **Database.** Transactions run side by side under READ COMMITTED, where each
  statement sees a newer database than the one before. Correct is: a user and a
  credential belong to one verification, what is read is whole, and committed
  requests have the effect of one at a time.
* **Verifier services.** A handler reads the status of each credential by a call of
  its own and then checks and stores, while credentials end, the clock runs and
  other requests are served. Correct is: what is stored was proved, with every
  credential active while the request was handled; a verification is ended only
  by a holder of one of its credentials; "verified", said by a bot, was true while it was
  found out; and a generic verifier accepts only what was active together.
* **Pages.** Handlers run one at a time, but the wallet, the node, a popup and a
  server are awaited in between, and are answered in any order, or not, while the
  user goes on. Correct is: what the page shows belongs to what was asked,
  "issued", "verified", "removed" and "OK" are said only of what was done, and
  what is shown of the contract, the account or the initialized deployment that
  was chosen last is in the end about that one.

`PROJECT.json` lists the hazards at their lines.

## Modules

| Module | Models | Uses |
|---|---|---|
| `SlidingWindow` | what the limiter promises | |
| `RateLimiter` | `RateLimiter` | refines `SlidingWindow` |
| `RateLimiterProofs` | theorems about it | |
| `IssuerNode` | external: the issuer's account on the chain | |
| `IssuerService` | what both issuers share: handlers and their early refusals, channel, worker's dealings with the node, start and shutdown | `IssuerNode` |
| `SomeIssuer` | the example issuers: worker loop with validation, limiter, termination | `IssuerService`, `RateLimiter` |
| `Web3IdIssuer` | the generic issuer: secrets made in the handler, worker loop that carries on | `IssuerService` |
| `IssuerServiceProofs` | lemmas: each action of `IssuerService` keeps the invariants of requests and numbers | `IssuerService` |
| `SomeIssuerProofs` | theorems about the example issuers | `SomeIssuer`, `IssuerServiceProofs`, `RateLimiterProofs` |
| `Web3IdIssuerProofs` | theorems about the generic issuer | `Web3IdIssuer`, `IssuerServiceProofs` |
| `VerificationStore` | what the database promises | |
| `VerifierDb` | the transactions of `db.rs`, statement by statement | refines `VerificationStore` |
| `VerifierDbProofs` | theorems: keys, lookups, the refinement | `VerifierDb` |
| `SomeVerifier` | the example verifier's handlers, and the bots that look users up | `VerificationStore` |
| `SomeVerifierProofs` | theorems about both | `SomeVerifier` |
| `PresentationVerifier` | the generic verifiers, in Rust and in TypeScript | |
| `ProofExplorer` | the proof explorer | `PresentationVerifier`, which it sends proofs to |
| `CredentialPages` | getting a credential: three pages with a sign-in, and the issuers' sessions | |
| `VerifierPage` | the example verifier's page after that: proving and removing | `CredentialPages` |
| `IssuerTool` | the issuer test tool | |
| `IssuerWizard` | the issuer front end | |
| `DappsProofs` | theorems about the explorer with its verifier and the pages for holders | `MCDapps` |
| `IssuerPagesProofs` | theorems about the applications for issuers | `MCIssuerPages` |
| `MC*` | instances for TLC: what requests may say, symmetry, other initial states. `MCDapps` and `MCIssuerPages` put applications that share nothing side by side: a variable chosen at the start says which is used, and the others stay as they are, so one run checks each | |

Operators whose comment begins with "Mutant:" are faulty variants of the
operator that follows them. No specification uses them; they exist so that each
property can be seen to fail when the code is wrong in a plausible way.

### From code to model

*RateLimiter.* `queue` is the `VecDeque` (newest first), `mapping` the `HashMap`
(a function whose domain is the set of its keys). `UpdateLimit` is the whole of
`update_limit`: increment, pop, decrement, removal at zero, push.

*IssuerService.* One action per stretch of code between two awaits. `hs` is
where a handler is (in `sender.send().await`, in `response_receiver.await`,
done), `slot` its one-shot channel ("closed" when the sender was dropped),
`chan` the queue, `current` the request whose call is under way, `answer` what
the node has answered to it and the worker has not read. `Cancel` drops a
handler at either await, for the timeout layer and for clients that disconnect;
what it queued stays queued. `died`, `server`, `main` and `worker` are the
broadcast channel and the tasks of `start_services`; the five-second wait for
the server is a choice between waiting and aborting. `Halt` ends the process:
only the chain survives. `RejectRequest` is what a handler refuses by itself: no
user in the session, a signature of Telegram's that is wrong, an identifier or
validity range that cannot be. `told` is a history variable: no action reads it.

*IssuerNode.* The node admits a transaction whose number is next, refuses
others, and may refuse any. A transaction is in flight until the node processes
it, even if its sender has given up. Pending transactions become final in order,
or expire; all are built with an expiry five minutes away, so older ones expire
first.

*SomeIssuer* and *Web3IdIssuer* give the worker its loop. Whether a credential
is valid, and whether secrets can be made, are nondeterministic: the properties
do not depend on which. In the example issuers the user of a request is the one
its session names, a constant function chosen at the beginning. The limit as the
chain shows it (`RateLimitOnChain`) is about every `Window` consecutive sequence
numbers, wherever they begin, since that is what the limiter remembers.
`StaleNonce` of the generic issuer says that its number is one the account has
used up: the worker there does not end on an error, so this can last.

*VerifierDb.* A verification is identified with the request that added it, since
its rows are inserted by one transaction and deleted together (ON DELETE
CASCADE). A DELETE is two steps, the choice of the rows in the statement's
snapshot (`Select`) and the locking and deletion (`Delete`), because it waits in
between for whoever holds the rows. An INSERT waits for open transactions that
have inserted or deleted its key (`Blockers`), then inserts, clashes (`ON
CONFLICT ... DO NOTHING`) or fails on the other unique key. `Abandon` is a
dropped handler or a lost connection, at any point; `BreakDeadlock` is what
Postgres does about transactions that wait in a ring. A lookup works on the
snapshot of its first statement (REPEATABLE READ).

*SomeVerifier.* A request is a record of what `verify_request` and
`proof_to_verifications_entry` tell apart: platforms and registries, the user and
credential of each statement, which attributes it reveals, the timestamp, and
whether challenge and proofs are right. `phase` is where its handler is:
reading statuses (`ReadStatus`, one credential at a time, in any order), or in its
call to the database, which does what `VerificationStore` promises
(`Store!Replace`, `Store!Forget`); so this module rests on the refinement that the
run `verifier_db` shows. `Clash` includes the refusal by a row that was committed
after the call began. One reply is left out: a removal that is overtaken by a
replacement under the same credential may also be refused, with the same effect
on what is stored as if it had come first. A lookup is made by a bot: it asks, the
verifier reads one verification and resolves its accounts independently, and the
bot turns the answer into what it says. `activeIn` and `storedIn` are history: what was active, or
stored, at some time while a handler was running.

*PresentationVerifier.* `at` is the block a handler reads, `seen` what it has read
in it. The two versions differ in what a refusal looks like: only the Rust
version answers JSON, and its timeout layer sends nothing. The explorer parses
the body of a refusal as JSON, so the difference matters there.

*ProofExplorer.* `statement`, `currentType` (`currentStatementType`),
`lastAccount` and `newStatement` are states of the page; an atomic statement is
represented by the column it was added in, since that is what the page's warning
is about. `calls` are the proofs that are awaited, in either flow, with what their
closures captured: the statements, and in the second flow the anchor. `anchor`,
`registered` and `final` are the anchor shown, what each anchor transaction holds,
and which are final; `proved` is what was proved in each call, and has an entry
once the wallet has presented. That the verification service answers a status 200
with its result is assumed: the page would take any 200 whose body is not JSON for
OK as well (`Accepted`). `crashed`: a number that cannot be parsed is parsed while
rendering, and the error empties the page.

*CredentialPages.* `session` is the Discord issuer's cookie, shared by all pages of
a browser; `signIn` the `oAuth2State` of each page, which tells the window it
listens to from earlier ones. `requestCredential` is one step per await: `connect`
(to the wallet), `wallet` (it asks the person), `registered` (the issuer has sent
the transaction, for the user that the *session* has by now), `wait` (for
finalization). External: the wallet takes a credential only if the issuer's
commitments open to the attributes the page named (`Added`). Connecting may fail at
any time, also after it succeeded: the verifier's page makes its reference to the
wallet with `createRef` in the component, so that every render forgets it.

*VerifierPage.* `prove` and `submit` capture the boxes, or the platform, when the
button is pressed. The privacy notice and the dialog lie over the page. That the
dialog stays pending when the wallet is not reached is in the model as it is in
the code.

*IssuerTool.* `timers` are what the effects' intervals refresh, `reads` the reads
that await an answer. The thirteen steps are presses of three shapes: a
transaction or a view (`Press`); a credential offered to the wallet (`Offer`),
whose callback may send a transaction; and keys from the backend. The fields that
a transaction is made from are one value, `form`, since the handler's closure has
them all as they were at the press; `Complete` says of a value that what a step
demands is there. (The values of the credential's attributes are not among them:
those are changed in place and read after the provider was awaited, and no
property is about them.) `last` is history: the latest press of each box, whether it
offers a credential, and the presses then under way.

*IssuerWizard.* A step is mounted when it is shown: its state starts afresh, while
what it asked the wallet goes on (`orphaned`). The schema object is a constant of
the program that step 1 writes to, so `properties` and `required` outlive
`listed`. `Poll` is the effect on the transaction hash.

## Runs

| Run | Configuration | Bounds | Shows |
|---|---|---|---|
| `limiter` | `MCRateLimiter` | 4 users, capacity 4, 2 repeats | type, `MappingCountsQueue`, `LimitRespected`, refinement of `SlidingWindow` |
| `some_issuer` | `MCSomeIssuer` | 3 requests, 2 users, channel of 1, capacity 2, 1 repeat, one run of the process | `NoOrphanedWaiter`, `NonceTracksNode`, `AtMostOneUnacknowledged`, `ReplyTruthful`, `RateLimitOnChain` |
| `some_issuer_live` | `MCSomeIssuerLive` | 2 requests, two runs of the process | `EveryRequestEnds`, `WorkerEndStopsProcess`, `NonceTracksNode` across a restart |
| `web3id_issuer` | `MCWeb3IdIssuer` | 2 requests, two runs of the process | the same safety, `StaleNonceIssuesNothing` and `EveryRequestEnds` |
| `verifier_db` | `MCVerifierDb` | 2 transactions, 2 earlier verifications, 2 users and 2 credentials on 2 platforms | `KeysUnique`, `ReadsWholeVerification`, refinement of `VerificationStore` |
| `verifier_db_live` | `MCVerifierDbLive` | the same, earlier verifications with one user and one credential on both platforms | `EveryTransactionEnds` |
| `verifier_db_clash` | `MCVerifierDbClash` | 1 transaction, 1 earlier verification | violates `KeepsCredentialOfUser`: see below |
| `some_verifier` | `MCSomeVerifier` | 2 submissions of 13 kinds, 1 lookup, 3 credentials of which 1 ends, 3 instants of the clock | `StoredIsProved`, `EndsByHolder`, `VerdictTrue` |
| `verifier_names` | `MCSomeVerifierNames` | 1 submission | violates `NamesExact`: see below |
| `issuer_pages` | `MCIssuerPages` | test tool: 2 contracts, 2 accounts, 2 forms, 2 actions of the user from three kinds of start; wizard: 6 actions, 2 deployments | `PressIsAnswered`, `RegisteredAsOffered`, `ShowsWhatIsChosen`; `SchemaHasWhatIsListed`, `DeploymentShown` |
| `dapps` | `MCDapps` | explorer: 2 credentials, 2 blocks, 3 actions, 2 proofs, 2 anchors; pages: 2 users, 3 actions, 2 requests, 2 proofs | `OkWasActive`, `OkWasAnchored`; `IssuedIsHeld`, `SaysWhatIsDone` |
| `explorer_mixed` | `MCProofExplorerMixed` | 5 actions | violates `StatementsNotMixed`: see below |

Why these bounds are enough to be interesting. With three requests and a channel
of one place, one request can be with the worker, one in the channel and one
waiting for a place; two can lose their answers while a third is acknowledged.
Two runs of the process let transactions of the first be pending, in flight or
expired when the second starts. A limiter of capacity 2 with one repeat evicts
and refuses. Two earlier verifications let a new presentation overlap with both,
and two transactions over two platforms can wait for each other in a ring.

Two submissions to the verifier can be an addition and its removal, two
additions that replace each other or clash, or one submission twice; the lookup
runs beside both. A limit of zero whole minutes of two ticks has an age that is
on time (0 and 1, because of the truncation) and one that is too late (2). The
requests are right in every respect but at most one, and one of the two would be
accepted if all its credentials are active.

The pages are cut where a user would have to be patient. The starts of
`MCIssuerPages` and `MCDapps` include pages that are some actions ahead (a
contract chosen and read, a wallet connected with one statement composed, the
privacy notice open), so that two or three actions reach two overlapping calls.
Two deployments let a report about the first arrive after the second began; two
blocks let a status change between two lookups.

`MaxStarts` bounds the runs of the process, `Requests` the transactions (each
request is made once), `MaxEvents`, `MaxActs`, `MaxMoves` what a user does, and
the other `Max` constants what their comments say, so every counter is bounded.
Requests, submissions and the identities of database and explorer are symmetric;
no run with a liveness property uses symmetry. Deadlock is not checked for the services,
the database and the pages: once the bounded requests, starts and actions are
used up they are idle, as a server or a page may be. The limiter's run checks it.

### Fairness

The tasks of tokio are scheduled: weak fairness of the worker, of a handler's
own steps and of the shutdown sequence. The worker's fairness includes
`CallFails`, since every call to the node has a timeout (`configure_endpoint`,
and the endpoint in `web3id-issuer`). Nothing is assumed of clients, of the
request timeout, of signals, of crashes, of restarts or of the node. For the
database, weak fairness of each transaction's next statement and of deadlock
detection.

Of the issuers' pages, `ToolFairness` says that intervals fire and that a read of
the node ends, with an answer or an error. `WizardFairness` says the same of the
deployment's interval, and by strong fairness that a node that is asked again
and again answers at some time: the polling in the code is there for that. Nothing
is assumed of the user, who need not press anything, of the wallet, which need
not decide, or of the chain, on which a transaction need not become final.

### Disagreements between code and documentation

`add_verification` is documented to return a clash, and update nothing, when a
user "already exist and is identified by a different credential holder ID". The
code first deletes every verification that one of the new credentials belongs to,
rows of both platforms included. A presentation with the old credential on one
platform and a new one on the other thereby moves a user to the new credential.
The run `verifier_db_clash` shows it.

`proof_to_verifications_entry` says "There should be exactly a first and last
name", but tests `!proofs.len() == 2`, which complements the bits of the length.
Nothing counts the attributes, and a presentation that reveals the first name
twice and the last name is stored. The run `verifier_names` shows it.

The proof explorer warns of mixed statement types with "Clear last credential
statement or start a new credential statement first." Clearing forgets the
current type but not the flags that say whether the next attribute starts a
statement, so that an attribute may afterwards be appended to a statement of
another type. The run `explorer_mixed` shows it.

Of the following the models do what the code does, and no run is about the
documented behaviour.

`verify_request` is documented to check that "the timestamp in the request is no
more than 10min from present" (`some-verifier/src/main.rs:592`). It compares
`num_minutes`, which truncates (line 600), so a presentation that is ten minutes
and some seconds old, or ahead, passes (`Timely`).

The notes of steps 4, 11 and 12 of the issuer test tool say that "the transaction
hash or an error message should appear in the right column"
(`issuer-front-end/src/Main.tsx:737`, `1291`, `1601`), and the column itself that
"the transaction hash or error returned by the wallet are displayed HERE"
(line 2130). If there is no provider, an attribute does not parse, or the wallet
refuses the credential, the error goes to the console (lines 983 and 1804), at
best to the test unit, and the column stays empty (`OfferDropped`). `PressIsAnswered` allows that
much and no more: an empty column after an offer of which no transaction was made.

The note of step 1 there promises "the return value or an error message" (line
538). When the call to the backend fails, the promise is rejected and nothing is
shown (lines 554 to 559, `CreateKeys`).

### Behaviours to know

When a deployment is pressed in the issuer front end while a report on the one
before is awaited, that report may still set the index shown. If the new
deployment is initialized, its own index takes the place; if it is rejected,
only an error is set (`DeployCredentialContract.tsx:93`), so the index of the
earlier contract stays beside the new hash and the error. `DeploymentShown`
says of a rejected deployment only that the index left there, if any, is that of
a contract that was initialized.

The `required` attributes of the schema in step 1 are never taken back.
`SchemaHasWhatIsListed` says that at least the listed ones are required; that no
other is, the code does not ensure.

A presentation can be sent to the example verifier again as long as its timestamp
is in time: it then adds, or removes, once more what its holder proved.

A toast or page that says "finalized" or "issued" looks at no outcome: a rejected
transaction is final, too.

## Proofs

Every invariant, action property and refinement that a passing run checks is
also a theorem, for every value of the constants that satisfies the assumptions
below. Each inductive invariant was also checked by TLC on the instance of its
component's run (`EveryWindow`, which is about all numbers, for the first few).

| Module | Assumed of the constants | Proved |
|---|---|---|
| `RateLimiterProofs` | capacity and multiplicity are natural numbers, zero included (`LimiterAssumption`) | `LimiterTypes`, `LimiterSafe`, `LimiterRefinement` |
| `SomeIssuerProofs` | the same, and the channel has at least one place (`ServiceAssumption`) | `SomeIssuerTypes`, `SomeIssuerLeavesNoOrphan`, `SomeIssuerRespectsLimit`, `SomeIssuerTracksNode`, `SomeIssuerLeavesOne`, `SomeIssuerTellsTruth`, `SomeIssuerLimitsChain` |
| `Web3IdIssuerProofs` | `ServiceAssumption` | `Web3IdIssuerTypes`, `Web3IdIssuerLeavesNoOrphan`, `Web3IdIssuerTracksNode`, `Web3IdIssuerLeavesOne`, `Web3IdIssuerTellsTruth`, `Web3IdIssuerStaleIsHarmless` |
| `VerifierDbProofs` | new and earlier transactions differ (`DbAssumption`) | `DbTypes`, `DbKeysUnique`, `DbReadsWhole`, `DbImplementsStore` |
| `SomeVerifierProofs` | submissions and lookups differ, a minute has a tick (`RequestsAssumption`, `HandlersAssumption`, `ClockAssumption`) | `VerifierTypes`, `StoredIsProvedHolds`, `EndsByHolderHolds`, `VerdictTrueHolds` |
| `IssuerPagesProofs` | the placeholders are not contracts or accounts, the bounds are numbers (`ToolAssumption`, `WizardAssumption`) | `PagesTypes`, `PressesAreAnswered`, `OffersRegisteredAsMade`, `SchemaMatchesList` |
| `DappsProofs` | the bounds are numbers (`CredentialAssumption`, `PageAssumption`) | `DappsTypes`, `ExplorerOkWasActive`, `ExplorerOkWasAnchored`, `PageIssuedIsHeld`, `PageSaysWhatIsDone` |

The `Max` constants bound what TLC explores. Since the theorems hold for every
number, they hold for any finite run of the programs.

### The limiter

`LimitRespected` alone is not inductive: `check_limit` looks at the map, so one
needs that the map counts the queue; and that the map counts the queue is only
preserved if the evicted user has an entry, which follows from the same fact
before the step. The inductive invariant is the conjunction of the type, the map
and the limit. Counting is by `Cardinality` of the set of positions, and the
lemmas `CountPrepend` and `CountYounger` say what a push and a pop do to it; the
map is shown to be the same function of the counts before and after
(`MappingIsIndex`, `IncrementedIndex`, `DecrementedIndex`). `IssuePreserves`
states the step without the temporal operators, for the issuers to cite.

### The issuers

`IssuerServiceProofs` has one lemma per action that the two workers are built
from, so that the modules with the workers only combine them. The invariant,
`LedgerInv`, has three parts.

* `ServiceInv`: types, `NoOrphanedWaiter`, and `WorkerShape`, that only a running
  worker has a call under way. A start empties the limiter and counts anew, so it
  must not take over a call of the run before.
* `RequestsInv` is the life of a request: it is once in the channel or with the
  worker (`QueuedOnce`), nothing is sent for it before the worker takes it
  (`NothingBefore`), what client and worker know of it is true
  (`AnswersAreTrue`), and a new run knows none of the requests of the earlier
  ones (`RunsApart`). `ReplyTruthful` follows; it is not inductive by itself, as a
  refusal is true only if the worker has not sent a transaction for that request.
* `NumbersInv` relates the worker's number to the node's. `CallsOwn`: the call
  under way has the youngest transaction, and the worker's number. `NumbersFit`:
  of what the account holds, what is below the worker's number was acknowledged,
  and what is above was not. The hard case is a transaction that a lost call left
  in flight and that arrives when others have expired: it could take a number
  that was counted. `LateComersMiss` says why it does not: whatever has a counted
  number and is in flight is older, and so expires first; and once the account
  has fallen back behind the worker there is nothing left that it would admit.
  `NonceTracksNode` and `AtMostOneUnacknowledged` follow (`LedgerTracksNode`,
  `LedgerLeavesOne`).

For the limit in the running service there is `CheckStillHolds`: while the call
for a request is under way, its user is still below the limit that was checked
before the call. It holds because the one worker is the only one that updates the
limiter and awaits one call at a time; with it, the step that ends the call is an
`Issue` of the limiter, and `IssuePreserves` applies. For the limit on the chain,
`WindowInv` relates the limiter to the sequence numbers: the queue names the
users of the latest acknowledged numbers, place by place (`QueueIsLatest`), so the
acknowledged transactions of a user in any window map one to one into that user's
places in the queue (`WindowIsCounted`). The one transaction more that
`RateLimitOnChain` allows is the one of `AtMostOneUnacknowledged`.

`StaleNonceIssuesNothing` is an action property. From `InOrder` and `CallsOwn`: a
used up number is that of a final transaction, those never become fewer
(`FinalGrows`), and the node admits only the number that is next.

### The database

`DbInv`. That keys are unique when an insertion commits needs that nothing
inserted and uncommitted clashes with what another has inserted (`InsertsApart`)
or with what is committed and not deleted by the inserter (`InsertsFit`). These
are what waiting for other transactions buys, and they survive the commit of a
deletion because no row is deleted by two (`LocksApart`). A lookup rests on
`ReadsOne`, that its three statements are about one verification of its snapshot,
and on `KnownIsDone`: what is named was committed, so it does not change.
For the refinement, a commit is one `Replace` or `Forget` of `VerificationStore`.
What is deleted is the transaction's own (`DeletesItsOwn`); that all of it is
deleted, added by whomever since the DELETE looked, follows for an addition from
`InsertsFit`: whatever shares a key with the insertion is among the deleted. For a
removal, which names one credential, it follows from `KeysUnique`. Every other
step leaves `stored` as it is.

### The verifier and the bots

`proof_to_verifications_entry` is a loop over the statements. It is a recursive
function, and what it returns is proved without an induction principle for
operators: the places up to which the loop's invariant (`Tells`) holds are a set
of numbers that contains 0 and each next one, and a least place outside it
would contradict that (`InductionUpTo`).

`VerifierInv` relates what a handler knows to what was so while it ran:
`ReadWasActive` (a handler that has read only "active" has seen each credential
that it read active), `StoringIsChecked` (in its call to the database it has
read them all, and the rest was checked), `StoredMayAdd` and, for a bot's lookup,
`LookupIsTrue` (what it found was stored, names its user, and an account learnt to
be active was so by the credential of that verification). `StoredIsProved`,
`EndsByHolder` and `VerdictTrue` are action properties that follow from it for
every step. The database is `VerificationStore` here, which `VerifierDb` is
proved to implement.

### The pages

The pages' theorems are about `MCSpec` of `MCIssuerPages` and `MCDapps`, whose
initial states include those of each page alone; the constants are as general as
in the modules they put side by side.

*Test tool.* `BoxesInv`: a box holds answers of its latest press and of those that
were under way when it was made, none but these can still end in it, and the
latest is under way, has left an answer, or was an offer that was not registered
(`Stands`). `SentInv`: a registered offer goes on
as a transaction, so that its wallet's callback cannot register again.

*Wizard.* `SchemaHasWhatIsListed` is inductive. For the types one needs that
without a wallet nothing of step 3 is there, and that the wallet's answers still
to come then belong to a step that was left (`DeployInv`).

*Explorer.* `JobsInv`: what the verifier has seen is in the block it reads, which
is final and no older than the request, and it handles what was proved in the
call with its number. A new block changes none of those before it. `CallsInv`:
the verifier handles only calls that wait for it; `SaidInv`: nothing is said of a
call before it has ended, so a number is not called OK and then proved anew;
`AnchorsInv`: what an anchor transaction holds never changes.

*Getting a credential.* `Progress` says what chain and wallet hold of a request
at each of its awaits: its transaction is sent once, for the platform it is
about, and before the wallet has the credential. `IssuedIsHeld` follows when a
request's transaction becomes final.

*Proving and removing.* `ProvingInv`: what is under way is what was confirmed
when its number was given, and the server's answer is about that; whatever the
boxes say since does not enter.

### Only model-checked

`EveryRequestEnds`, `WorkerEndStopsProcess`, `EveryTransactionEnds`,
`ShowsWhatIsChosen` and `DeploymentShown` are liveness properties under fairness,
which TLAPS does not handle. The three violations are counterexamples of TLC.

## Plan

What is left, in this order:

1. The shutdown of `web3id-verifier`, which waits for one of two servers.
2. The part of the liveness arguments that is not temporal: the variants by which
   a request, or a transaction that waits, comes closer to its end, as action
   properties that can be proved.
3. `web3id-test`.

## Not modelled

Panics of tasks (tokio isolates them; `spawn_cancel` documents that it does not
cover them), TLS and connection set-up, logging and metrics, static files,
command lines, the cryptography, the contents of credentials, the contract's own
rules, texts and layout of the pages. Of the atomic statements that the proof
explorer builds, and of the forms of the issuers' applications, only what
decides a step is modelled.

`web3id-test` runs one fixed sequence of calls and keeps no state.
`some-verifier-lib` holds types. The backend of the issuer test tool has
stateless routes, of which the model has the success or failure. The shutdowns of
the verifier services are not modelled; that of the issuers is. The example
verifier's and the issuers' frontends are modelled with the servers as external:
`SomeVerifier` and `SomeIssuer` are checked by themselves, as their product with
the pages is out of TLC's reach.
