# A verification project for AgentGuard

AgentGuard stands between an AI agent and the systems the agent acts on. An
action is *previewed* (policy and risk give it a decision), *approved* or denied
by a human where the decision asks for it, given a short-lived *token*, and
*executed* with that token; each step is written to an audit log. This directory
holds TLA+ models of that machinery, the TLC configurations that check them, and
TLAPS proofs of what matters most. File names below are relative to the
repository's root; `ts` stands for `ts-agentguard/src`, `py` for `agentguard`.

## 1. Inventory

| Component | State it keeps | Operations | Hard part |
|---|---|---|---|
| Action proxy server, `ts/server.ts` | maps `previews`, `attemptCounter`; the stores below | preview, approve, deny, token, execute, demo event, demo reset | execute suspends at an `await`; anything, a reset included, runs meanwhile |
| Token service, `ts/token-service.ts` | map token id → token, with `used`, `expires_at`, a fingerprint | issue, validateForExecution, clear | one use, in time, of the very body it was issued for |
| Approval store and audit log, `ts/approval.ts`, `ts/audit.ts` | map id → decision; array of events | approve, deny, log, clear | kept by id alone, while bodies change |
| Settlement Orchestrator executor, `ts/executors/settlement-orchestrator.ts` | none between calls | execute(): two HTTP requests | lost or late replies, refusals, half-finished settlements |
| Mock executors, `ts/executors/mock-*.ts`, `py/executors/` | none | execute | none |
| Policy and risk, `ts/policy.ts`, `ts/risk.ts`, `ts/gold.ts`, `ts/kgld.ts` | none | evaluatePolicy, scoreRisk | order of the rules, boundaries, NaN |
| Python action proxy, `py/api.py`, `py/token_service.py`, `py/approval.py`, `py/action_audit.py` | the same five stores, as dictionaries | the same endpoints | handlers run on a pool of threads and nothing is locked |
| Python action policy and risk, `py/action_policy.py`, `py/risk.py` | none | evaluate_policy, score_risk | as above |
| Runtime execution gateway, `py/runtime/`, `py/security/replay_protection/`, `py/storage/cache/` | tokens, used tokens, nonces | issue, validate, invalidate, execute | three records of one use, in two caches; a submission that fails |
| Payment gateway, `py/gateway.py`, `py/token.py`, `py/proxy.py` | approval requests, audit records, used token ids | request, approve, reject, expire, consume | lazy expiry, daily limit, steps that fail halfway |
| Runtime policy engine, `py/policy_engine.py`, `py/policy/` | the loaded policy, its hash and version | evaluate_policy, reload | ordered rules; reload that fails |
| GitHub integration, `py/integrations/github/` | a list of events | mint, validate, execute | nothing is stored of a token; executors share the key; GitHub's answer gets lost |
| Identity, `py/did.py`, `py/vc.py`, `py/challenge.py` | used challenges | verify | cryptography |
| Audit package, `py/audit/`, `py/audit.py` | receipts, a Merkle log | append, prove | hashing, files |
| XRPL clients, anchors, connectors | none | single external calls | I/O only |
| Assessment, `ts/assessment/`, routes of `ts/server.ts` | none on the server; the page, its form and its requests in the browser | fill in, submit, summarise, evaluate | scales with bounds of their own, two roundings; responses in any order |
| GovernOps preview, demo pages, examples, input control demo | none | render, scan | none or pure functions |

How they interact. A handler of the server calls the token service, the approval
store and the audit log synchronously. Node runs one handler at a time, so a
handler is atomic but for the `await` on the executor. `createExecutor` picks the
executor by target system: a mock, or the settlement executor, which talks to an
external service over HTTP. A demo reset clears five stores in one handler. The
Python proxy has the same endpoints as plain `def`s; FastAPI runs them on a
thread pool, so only a single dictionary or attribute access is atomic. The two
proxies share no state. The payment gateway, the runtime gateway and the GitHub
executor are objects of the Python package that share nothing with the proxies or
with each other but the clock; two runtime gateways may share a token engine, and
GitHub executors the signing key. The assessment pages talk to stateless routes.

Correctness, per component:

- Server and token service: one execution per token; only of what the token was
  issued for, within its lifetime and its session; nothing denied or unapproved
  runs; the log explains what ran; a reset leaves no store of the old session; a
  started execution is completed, unless the executor cannot read its parameters.
- Settlement executor: one settlement per call, one answer per call it can read, and
  no claim of a settlement that did not happen.
- Python proxy: the same, as far as code without a lock allows it.
- Policy, risk and policy engine: decision and risk level agree at each boundary;
  every rule is reachable; a failed reload changes nothing.
- Payment gateway: each approval answered once, expired ones never; a token
  consumed once; what is approved and charged was allowed by the policy that judged it;
  the log tells what became of each request.
- Runtime gateway: one execution per token at any gateway and per nonce at each,
  whatever the ledger does; a refusal gives the true reason.
- GitHub executor: what GitHub receives was allowed, for a sandbox, under a token of
  this action and repository that has not expired; the log claims nothing else.
- Assessment: a better answer never costs anything; the scales of a report agree and
  its risks are the worst domains; a page shows what was submitted from it.

## 2. Modules

| Module | Models | Composition |
|---|---|---|
| `OneShotAuthority` | abstract: what a token promises | implemented by `ActionProxy`, `PaymentGateway` and `RuntimeGateway` |
| `ActionProxy` | server, token service, approval store, audit log (TypeScript) | extended by `SettlingProxy`, `MCActionProxy`, `ActionProxyProofs` |
| `SettlementPromise` | abstract: what a settlement call promises | implemented by `SettlementExecutor` |
| `SettlementExecutor` | settlement executor, with the orchestrator and the network around it | `SettlingProxy` instantiates it; `MCSettlementExecutor`, `SettlementExecutorProofs` extend it |
| `SettlingProxy` | composes the two: the proxy and the settlements behind it | `MCSettlingProxy`, `SettlingProxyProofs` extend it; implements both its parts |
| `ThreadedProxy` | the Python proxy, one shared access per step | `MCThreadedProxy`, `ThreadedProxyProofs` extend it |
| `ActionPolicy` | policy and risk in both languages, as operators | extended by `PreviewHandlers`; what the constant `evaluatePolicy` of the two proxies stands for |
| `PreviewHandlers` | the preview handlers of both servers, with their judgements | `MCPreviewHandlers`, `PreviewHandlersProofs` extend it |
| `PaymentGateway` | the payment gateway, its runtime policy engine, token issuer and proxy | `MCPaymentGateway`, `PaymentGatewayProofs` extend it |
| `AssessmentScoring` | scoring, scales, risks, standards colours and explanations, as operators | extended by `AssessmentPages` |
| `AssessmentPages` | questionnaire, dashboard and report pages with their requests, and the routes | `MCAssessmentPages`, `AssessmentProofs` extend it |
| `RuntimeClock` | the clock of the runtime services | extended by the next two |
| `RuntimeGateway` | runtime gateways over one token engine, with replay protection | extended by `RuntimeServices` |
| `GitHubExecutor` | GitHub executors with policy, tokens and client | extended by `RuntimeServices` |
| `RuntimeServices` | composes the two over one clock | `MCRuntimeServices`, `RuntimeProofs` extend it |

### ActionProxy

The five stores are five variables with the source's names (`previews`,
`approvals`, `tokens`, `attemptCounter`, `audit`), maps as functions. `now` is
`Date.now()` in ticks; `executions` lists the calls of execute that passed the
checks, with their status. `issued` and `session` are history, read by
properties only (`issued` also to draw each uuid once).

One action per handler: `Preview`, `Approve`, `Deny`, `IssueToken`, `Reset`,
`DemoAuditEvent`. Execute has four: `ExecuteWithoutPreview` (400),
`ExecuteRefused` (the reason is computed by `Refusal` and `validateForExecution`
in the code's order), `ExecuteAdmitted` (all up to the `await`: the token is
spent here) and `ExecuteCompleted` (all after it). What the executor answers is
`Outcome`.

A parameter may be an object that `String()` raises at (JSON such as
`{"toString": null}`); the handler is then answered with 500 by Fastify, and what it
has done so far stays done. The currency of a purchase is read for the log
(`Printable`): a preview raises at it first of all (`PreviewRaises`), a refusal
before it is logged (`RefusalRaises`), and a token is stored but has no event and no
holder (`IssueToken`). The settlement executor reads amounts and currency of any body
(`Readable`) before its `try`: the awaited call is rejected, and the handler logs
nothing more (`ExecutionRaises`). The demo endpoint writes events of any type
(`ForgedType`): the log can say more than happened, so the properties of the log
say what it must hold, never what it may not. A mismatch of path id and body id at the token endpoint changes
nothing and is left out.

Abstracted: the body is a record; its fingerprint keeps the seven fields it
hashes and is taken as injective; `numberValue` keeps number, numeric string,
NaN and absent apart, since token validation does; policy is a constant function
of the body (risk is shown to the user and read by nobody); the log is the set
of its event types per action and session, and lines that one handler writes
together for one action count as one. `ExecuteCompleted` does not ask whether the
executor could read the body (without accounts it answers before it reads); in
`SettlingProxy` the executor decides.

### SettlementExecutor

One process per call of `execute()`, with `pc` as the point where it is
suspended. A call whose parameters cannot be read (`Unreadable`) ends in `Raise`,
before any request. `Create` and `Execute` put a request on the wire; `CreateFailed`,
`ExecuteFailed`, `Executed` take a reply; `Rejected` is the catch, possible at
any time while a fetch is pending, whatever became of the request. All failures
end in `ReturnFailed`: BLOCKED, or a made-up settlement for a KGLD loan. The
orchestrator (`ServeCreate`, `ServeExecute`) and the network (`Lose`) are
external: a request is served at most once, possibly after the fetch was given
up; a settlement may be created or executed though the reply is an error; a hash
is given only for a settlement that was executed.

In `ActionProxy` this executor is the set `Outcome` = {executed, blocked}, one
answer per call, and `ExecutionRaises`; that `SettlingProxy` implements `ActionProxy` justifies it.

### SettlingProxy

The proxy's variables and the executor's side by side. A call of `execute()` is
known by its place in `executions` and its body (`CallOf`), so a token that started
two executions would have two calls. `Start` is the execute handler up to the `await`: `ExecuteAdmitted`
and, for a body whose target system is the orchestrator, the executor up to its
first fetch (`Create`, `Raise` or `Unconfigured`). `FetchReturns` resumes the executor,
`Complete` the handler, once the call is answered, with that answer, or has raised. The other
handlers, a reset among them, the orchestrator and the network interleave with
both. Bodies for the mocks complete as in `ActionProxy`. No body is a KGLD loan
(`Kgld <- {}`), whose made-up settlements are `SettlementExecutor`'s subject.

### ThreadedProxy

Each thread of the pool has a label `pc` and local variables `local`; a step is
one access to shared state and the local work after it. A preview reads the
attempts, stores the preview and writes the count back in three steps; execute
reads preview, approval, token, expiry, use, and then sets `used`, each in its
own step; a reset is five clears. A token found in `_tokens` is an object that
outlives the clear of the dictionary (`object`). `executions` is history; `dead`
records, when a request arrives, whether its token is already used, expired or
cleared. Of the log, the set of events that record a stored change or an
execution is kept. Calls answered with 400 change nothing and are left out.

### ActionPolicy and PreviewHandlers

`ActionPolicy` has no state: `evaluatePolicy` and `scoreRisk` are the TypeScript
functions, `evaluate_policy` and `score_risk` the Python ones, with their rules
in the code's order. A string is reduced to what the rules ask of it (constants
`Production`, `GoldVault`, `Sharing`, `DottedSharing`); matched policies,
reasons and factors are left out. Numbers are integers, and beside them there
are a word, the empty string and an absent value, which `numberParameter`
(JavaScript: NaN, 0, 0) and `float` (Python: raises, raises, 0) treat
differently; NaN fails every comparison. A loan-to-value ratio is a pair, so that
60.0 and 60.01 per cent stay apart, and NaN is the pair 1/0. Values the two
languages convert in more exotic ways (`true` as a budget, an empty list as a
flag) are left out.

`PreviewHandlers` keeps, per server, the attempt counter and the last preview of
each action id, with the action it judged. A preview of the TypeScript server is one
step (`PreviewTypeScript`); one of the Python server is three, on a worker of the
pool: `ReadAttempts`, `StorePreview`, `WriteAttempts`. Two workers can read the same
count, and the later one writes back what the earlier has already counted, so an
attempt is lost and a repetition can score lower than before. `overlapped` (history)
is the set of attempt keys two workers were at together; `AskingAgainNeverHelps`
claims the score for all others, and the decision for all. The reset is the two
proxies' subject. `traffic` is the set of bodies that clients use in one run.

### PaymentGateway

One gateway object, as a program without threads uses it: a call is one step.
`records` are the lines the audit log has for requests, `trail` those it has for
each approval request, `approvals` the requests by order of creation, `tokens`
the tokens by order of issue, `used_jtis` and `charges` what became of them. The
policy engine's policy is `policy`; the file it is read from is `policyFile`, which
somebody may edit, or break, at any time (`EditPolicy`), and every request reads
it anew (`Reloaded`).

Actions: `request_execution` (`Blocked` or `Granted`), `reload` (also what is left
of a request that raises after it), `create_approval_request`, `approve_request`,
`reject_request`, `expire_approval_requests` (also a call about a request that is
not pending), `execute_payment`. The first thing the last four calls about
approvals do is to expire what is due; that is part of each of them (`Close`).
`evaluate_policy` has the code's rules, thresholds and daily limit; the four
answers it gets from the ledger and the clock on the wall are `Surroundings`.

An amount counts parts of a unit, because the code drops fractions (`whole`), may
be missing or a word, and exists raw and normalized (`normalize_amount_for_policy`).
The raw number is held against `max_amount`, whatever its unit, and the normalized
one goes into token and charge; the model takes both from the code and gives neither
a unit.
That `approve_request` sets the status and issues the token *before* it builds
the payment is kept: without an amount the call raises there, and leaves an
approval that is spent, a token nobody was given (`held`) and no line.

Modelled is a gateway whose own `Policy` has no maximum. With one, and in
`process_action`, the code calls `check_policy`, which `py/policy/__init__.py`'s
`PolicyEngine` does not have: such calls raise. A token's `line` and `approval`
are history.

### AssessmentScoring and AssessmentPages

`AssessmentScoring` has no state. Five domains of five questions; an answer is its
number of points (4, 2, 1, 0) or `Unanswered`, which the server counts as 0. Domain
score, total, risk level, grade, readiness, maturity, the colours of the standards
and the two percentages are the code's formulas and bounds over integers: `Round`
is `Math.round` of a quotient. A scale is a number that is higher when better; texts
are reduced to which of the texts it is, and what it names. Risks are the first
three weak domains by score and then by label (`Before`).

`AssessmentPages` is one browser window and the requests it has under way; other
clients use the same routes (`PostDirectly`). Actions of the user: `FillIn`, `Submit`
(or `SubmitIncomplete`), `AskSummary`, `OpenQuestionnaire`, `OpenDemoReport`. A
request is served (`Serve`), refused, lost, and arrives (`Arrive`,
`ArriveRefused`) whenever it does: nothing keeps a second from being sent
meanwhile, and a response replaces the document on display. `submitted` and
`crossed` (two requests were under way at once) are history.

### RuntimeGateway, GitHubExecutor, RuntimeServices

`RuntimeGateway`: `tokens` is the engine's cache, `nonces` and `tokensUsed` the cache of
each gateway's replay protection. A call of `execute` is one step (`Refused` or
`Admitted`), as the objects have no threads. Both helpers are constructor
parameters; modelled are gateways that share the engine and have each their own
default replay protection. The ledger, in live mode, answers SUBMITTED or FAILED;
FAILED includes that it executed and the answer got lost. The transaction that is
sent along is compared with nothing, and left out. `executions` and `answer` are history.

`GitHubExecutor`: one executor per repository; they share the key, so any of them
accepts what any has signed. A token is a payload with the signature of some
minted payload (`Signed`: the signature is taken as unforgeable); what a client
presents is any payload with any such signature. `Sent` has every outcome of a
call: GitHub receives it or not, and the client returns, returns an error, or
raises, in which case nothing is logged. `minted` and `calls` are history;
of each log the last entry is kept.

`RuntimeServices` lets the clock run beside either service. They share nothing
else, so a behaviour looks at one of them (`service`).

## 3. Runs

| Run | Instance | Distinct states | Shows |
|---|---|---|---|
| `proxy_tokens` | one id with three bodies (a loan of 500 and of "500" that the executor cannot read, a purchase that cannot be printed), two tokens (symmetric), forged previews, TTL 1, time to 2, one reset | 128,936 | single use, fidelity, lifetime, session, refinement of `OneShotAuthority` |
| `proxy_settles` | the proxy with its executor: one token, a reviewed purchase, the same with an amount and with a currency that has no string, a denied deletion, forged previews in the log, two settlement ids, room for two executions, one reset, no expiry | 60,640 | settlements authorised end to end; policy and approval, the log, agreement of the stores, completion |
| `settlement_calls` | a gold purchase, a KGLD loan and an unreadable purchase in progress together, three ids, accounts set or not | 5,494 | one settlement per call, honest claims, answers, refinement of `SettlementPromise` |
| `threaded_handlers` | two threads (symmetric), one id with two bodies (reviewed, denied), one token, one preview per key | 1.4 million | no late use and no token used more often than there are threads, log and stores when quiet, fidelity |
| `previews_judged` | 236 bodies on both sides of each boundary, used alone or in pairs that share an id or an attempt key, two workers (symmetric) of the Python server | 680,876 | agreement of the servers, of decision and risk, and what a repetition does |
| `payment_requests` | four payments by two agents sharing a wallet, two amounts that are none, two policies, time to 2 (a day), TTLs 1, two tokens, two requests | 143,100 | daily limit, charges of what the policy on file allowed, answers given once and in time, the log's account of them, one decision per token, refinement of `OneShotAuthority` |
| `assessment_pages` | two requests (symmetric), three sheets for the form, ten that others post, on both sides of every bound | 62,498 | what is shown was submitted; evaluation is monotone, scales agree, weak domains are named |
| `runtime_services` | two gateways, one nonce that clients repeat, three tokens, TTL 1, time to 2; two executors, one without a sandbox, three intents, two tokens and two calls | 283,536 | answers tell what happened, one execution per token and nonce; only authorised calls reach GitHub |
| `proxy_judged` | violation | | a body that was never previewed, and is denied, runs under another body's preview |
| `settlement_blocked` | violation | | answered BLOCKED, settled nevertheless |
| `threaded_one_time` | violation | | two threads spend one token |
| `payment_conditional` | violation | | a conditional payment is charged without a human's word |

The four violations are disagreements between the code and a statement of its
documentation, quoted in `PROJECT.json` under `findings`.

**Bounds.** `MaxTime`, `MaxSession`, `MaxPreviews`, `MaxAttempts`, `MaxTokens` and
`MaxRequests` stop counters that grow for ever. They are enough because: an expiry
needs one tick past TTL, which `MaxTime = 2` with `TTL = 1` reaches from either
issue time; a second reset finds the same kind of state as the first; the count of
previews is read by risk alone. Two tokens and two bodies are what a mix-up of
tokens or bodies needs; a race on one token needs two threads; more threads,
tokens and bodies are the proofs' business. Three settlement ids for two calls
leave one for a settlement too many. `proxy_tokens` has one id, so that two bodies
share it; `proxy_settles` has two, so that decisions differ, and one token with
`MaxExecutions = 2` and two settlement ids: room for the second execution and the
second settlement that must not be; its clock stands still, as expiry is
`proxy_tokens`'. `ForgedType` is one type of event, `preview_generated`, the one
that previews and attempt counts are compared with. In
`previews_judged` the counter stops at 4, past the 3 attempts from which a score
no longer grows; a judgement reads one body, so a second one matters only where it
shares an id or a key with the first. In `payment_requests`, `MaxRequests` counts
lines and approval requests together: two are what a sum, a mix-up or a repeated
answer needs; `ForReview` keeps approval requests to one good amount and the two
bad ones, as they read nothing else of an order. `Day = 2` puts a midnight inside
the two ticks. In `assessment_pages` two requests are what it takes to overtake; the
sheets lie on both sides of every bound of every scale, and the theorems below hold
for all sheets. In `runtime_services` a third token is what lets a repeated nonce meet a
fresh one; a GitHub token can be used twice and after its time.

**Deadlock** is checked, except in `SettlementExecutor`, which stops when every
call is answered and the wire is empty.

**Fairness.** `SettlingProxy!SettlingFairSpec`: weak fairness of `Resumption`, the step in
which some handler goes on with the result of its call (`Complete`) or some call with
that of its fetch (`FetchReturns`). A fetch returns or is rejected by the HTTP client's
own timeouts, and the event loop does not idle while a settled promise has a handler
waiting; which goes first is left open. That nothing else is needed for
`StartedIsCompleted` is what the run shows. `SettlementExecutor!FairSpec` is weak
fairness of each call's resumption, for the executor alone. No
fairness is assumed of clients, reviewers, the clock, the network or the
orchestrator. `ThreadedProxy`, `PaymentGateway`,
`AssessmentPages` and `RuntimeServices` claim no liveness: nobody has to call, and a
request of a page may be lost.

**Mutants.** Each property of a passing run comes with a mutant, a definition of
the module marked `Mutated` (a dropped guard, a forgotten clear, a wrong order)
under which the run fails. They are no part of any specification.

## 4. Proofs

All theorems hold for any constants that satisfy the named assumptions
(`PolicyAssumption`, `BoundsAssumption`, `ForgedAssumption`, `AttemptsAssumption`, `KgldAssumption`,
`MaxExecutionsAssumption`,
and for the previews `SharingAssumption`, `ValuesAssumption`, `ActionAssumption`,
`MaxAttemptsAssumption`; for the payments `OrderAssumption`, `PoliciesAssumption`,
`AmountAssumption`, `UnitsAssumption`; for the rest `SheetsAssumption`,
`PoolAssumption`, `ClockAssumption`, `NonceAssumption`, `RuntimeBoundsAssumption`,
`ReposAssumption`, `GitHubBoundsAssumption`): any set of bodies, tokens, threads, calls
and ids, any policy, any bounds.

- **`ActionProxyProofs`.** `TypeCorrect`; then `TokenInvariant`. `SingleUse` is
  not inductive: the step that starts an execution must know that a token already
  executed is marked used, that a stored token still says what it was issued for,
  and that it is of this session; that is `TokenInv` (`Faithful` for stored
  tokens, `Lawful` for executions). `TokensAreSingleUse`, `ExecutionsAreAsIssued` and
  `ExecutionsAreInLifetime` follow. `TokenSpending` is an
  action property from the same invariant. `NothingDeniedIsExecuted` rests on
  `PolicyInv` (a stored preview is the decision of some body with its id);
  `StoresAgree` and `LogExplainsExecutions` on `AuditInv`, which ties the stores
  to the log, for any set of event types that clients forge and any bodies at which
  handlers raise. `ProxyImplementsAuthority` maps each action to a grant, an effect,
  a revocation (tick or reset) or a stutter.
- **`SettlementExecutorProofs`.** The invariant `SettlementInv` says that a
  creation still on the wire has created nothing, that an id in a reply or at a
  call is that of the call's own settlement, and that a hash in a reply is of an
  executed settlement. `SettlesOnce` and `ClaimsAreSettled` are conjuncts.
  `ExecutorKeepsPromise` is the refinement: an answer is the step `Answer`, the
  execution at the orchestrator is `Settle`, and all else stutters.
- **`SettlingProxyProofs`.** Each step of the composition is a step of the proxy or a
  stutter (`ProxyStep`) and a step of the executor or a stutter (`ExecutorStep`):
  `CompositionImplementsProxy`, `CompositionImplementsExecutor`. What either was
  proved to do alone therefore holds of the whole (`GovernanceCarriesOver`).
  `SettlementsGoBackToTokens` needs one invariant more, `Linked`: a call that
  has begun is that of an execution with its body (`CallOf`), no execution is past
  a DENY, and one that is reported as executed has a call answered so. With `TokenInv` (one execution per token,
  as issued) and `SettlementInv` (one settlement per call) it leads from a
  settlement back to a token.
- **`ThreadedProxyProofs`.** `TypeCorrect` relates each thread's variables to its
  label. `LateTokensAreRefused` rests on `LateInv`: a dead token stays dead, and
  each check a request passes narrows down why it is dead until no reason is
  left. `OneTimeToken` fails for two threads; what is left of it is that a token
  executes at most once per thread. `UseInv` is why: the executions of a token and
  the threads that took it up alive (`Trying`) are together no more than the threads,
  and after its first execution nobody joins them. `OneThreadIsOneTime` is the case
  of one thread, where the token is one-time again. `ExecutionsAreAsIssued` rests on `IssuedInv` (what has been established at
  each label). `QuietStoresAreLogged` rests on `LogInv`: each stored entry has
  its event in the log, or a thread that is about to write it, or a reset in
  progress that is about to clear the entry.
- **`PreviewHandlersProofs`.** `HandlersInvariant`: a Python worker that is alone at
  its key holds the count that the counter has. From it `JudgementInv`: a stored
  preview is the judgement of its own action, at a count that the counter, where no
  two workers were at the key together, has not fallen below. With
  it the other properties are facts about operators: `SameDecision` and
  `SameScore` (the two languages, for every integer budget), `SameLimits` (policy
  and risk, for every ratio, NaN included), `DeniedScoresHigh`, and `ScoreRises`
  (with the attempts) for `AskingAgainNeverHelps`.
- **`PaymentGatewayProofs`.** `ApprovalSteps` says what any step may do to an
  approval request that is there: keep it, expire it when due, or answer it while
  it is pending and not due. `ApprovalsAreAnsweredOnce` is that fact;
  `TrailsTellFates` follows it line by line, with `NewApprovals` for the one that
  a step creates. `StoresGrow` says what a step adds to lines and tokens;
  `TokensAreExplained` is inductive as it stands, because an approval that was
  answered stays so (`ApprovedStays`). `GatewayImplementsAuthority`: issuing is a
  grant, a redemption the effect, a tick the revocation of what then expires.
  `AuthorityKeeps` looks at the steps of `OneShotAuthority` alone: they make
  `EffectsAreAuthorised` hold, one effect per token and of the content granted, so
  the refinement is worth something; `ChargesAreAuthorised` says it of the charges.
  `ChargesAreOfJudgedOrders` rests on `OrderInv`: a token issued without a human has a
  line whose policy allowed the token's own order by its raw amount, and what is
  redeemed is that order, normalized once.
  `DailyLimitStays` is about a sum over a set of lines. It needs four facts of such
  sums (`EqualSums`, `SumIsCongruent`, `SumOfAny`, `SumOfPart`: a sum has one value,
  depends on the summands alone, grows by what is added, and a part of it is no more).
  The library's induction theorems cannot be instantiated here, so they are
  proved from a minimal counterexample (`NatSetInduction`, `SetInduction`): sets of
  numbers and of finite sets stand for the predicates. `DailyInv` adds to the property
  that approved amounts are not negative. A line is judged with the lines before it
  (`UpTo`), so earlier lines keep what was true of them though the policy changes; a
  new one is within the limit because the rule has just compared the sum of all lines
  of its agent or its wallet, of which each of the two sums is a part (`NewApproval`).
- **`AssessmentProofs`.** About the operators: a rounded score rises with its points
  and the total with its scores (`DomainScoresRise`, `TotalRises`; the sum of five is
  written out), every scale rises with the total, and bounds of different tables
  meet (`ScalesOfTotal`). `PagesInv` says that a result, in a request or on display,
  is the evaluation of the answers it is kept with, and that these come from a
  complete form of this page. The theorems are the two together.
  `WeakDomainsAreAllNamed` counts: if a weak domain is not named, three are, and none
  of them has a better score (`FirstThree`, by taking first elements of the order
  `Before`: `ListOrder`, `FirstDomain`).
- **`RuntimeProofs`.** `StoresTellExecutions` is the strengthening for the gateway:
  the marks on tokens and in both caches are those of the executions, no more and
  no less, which is what turns each check of the code into a statement about the
  past. With it `RuntimeImplementsAuthority` maps an admitted call, at whichever
  gateway, to the one effect of its token. For GitHub it is `MintedInTime`: without it a token could be said to have been
  valid before it was minted. `ServicesKeepInvariants` has one lemma per operation.

Only model-checked: `StartedIsCompleted` and `CallsAreAnswered` (liveness is out
of the prover's reach) and the four violations. `OneThreadIsOneTime`,
`RuntimeImplementsAuthority` and `ChargesAreAuthorised` are theorems about formulas
that no passing run lists; TLC agrees with them on the instances of
`threaded_handlers` (with one thread), `runtime_services` (with `TokenTTL` 0 and 1)
and `payment_requests`.

## 5. Not modelled

- Cryptography: signatures are unforgeable and hashes injective where a model meets
  them (`Signed`, the fingerprint); identity (`py/did.py`, `py/vc.py`,
  `py/challenge.py`) and the audit package's Merkle log are nothing else.
- Clients of external ledgers and services, beyond what becomes of their calls.
- HTML, wording, samples; the demo pages are clients, and any calls they can make are
  among those the models allow. GovernOps renders fixed records.
- Of the assessment: the policy page's fixed tables, the scenario and recommendation
  engines, which no route of the server reaches, and summaries of results that a
  client made up and posted.
- The input control demo: a stateless scanner made of regular expressions.
- `process_action` and the legacy path of the payment gateway, which raise.

Nothing is persisted by the parts modelled, so there is no recovery to model.

Open: KGLD loans in `SettlingProxy`.

Statements of the documentation that the code does not keep, or behaviour worth
knowing, without a run of their own:

- README.md:158 says that execution tokens are issued only for approved paths;
  `ts/server.ts:398` issues one for any body (execution makes up for it,
  `ExecutedWithinPolicy`).
- README.md:154 says that ALLOW means within risk limits; the decision does not read
  the score (`ts/server.ts:151`).
- A demo reset while an execution is suspended: its result is written into the log of
  the new session (`ts/server.ts:276`). `ActionProxy` has that behaviour.
- An amount of XRP is held against `max_amount_drops` (`configs/policy.yaml:13`) as it
  was written, and submitted to the ledger as so many drops, but token and charge have
  1,000,000 times that number (`py/gateway.py:36` and `533`, `py/policy/__init__.py:40`);
  `tests/legacy_xrpl/test_gateway.py:303` expects the quotient. So what is charged is
  *not* bounded by the limit as a number; `ChargesFollowTheirOrder` claims only that the
  order, as written, was, and that the charge is that order's amount normalized once.
- README.md:27 promises audit evidence for outcomes. An execution whose parameters the
  settlement executor cannot read (`ts/executors/settlement-orchestrator.ts:151`) is
  attempted in the log and never completed, with its token spent: the exception in
  `StartedIsCompleted` and `CallsAreAnswered`.
- A token whose purchase has a currency without a string is stored without an event and
  never handed out (`ts/server.ts:398`): the exception in `SessionStoresAgree`.
- Clients can write events of any type into the log (`ts/server.ts:292`), so the log is
  no proof that a preview or an approval took place.
- Two previews of one key at once in the Python server lose an attempt, and with it the
  points for repetition (`py/api.py:33` and `58`): the exception in
  `AskingAgainNeverHelps`.
- The runtime gateway does not compare the transaction with the token it spends on it
  (`py/runtime/execution_gateway.py:29`).
- A GitHub token is good for any number of calls within its lifetime, with any
  parameters (`py/integrations/github/executor.py:121`).
- The assessment's standard findings are listed also where every answer is YES
  (`ts/assessment/scoring.ts:166`).
- A summary asked for from the second dashboard of one window does nothing
  (`ts/assessment/dashboard.ts:274`).
