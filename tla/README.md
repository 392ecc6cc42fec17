# Formal models of zcode2api-plus

zcode2api-plus is a gateway: clients speak the Anthropic or the OpenAI protocol to it, and it
serves them from a pool of upstream accounts, each bound to an egress line (a proxy), solving
captchas where the upstream asks for them. This directory holds TLA+ models of the parts whose
correctness depends on order, concurrency and failure, the TLC runs that check them and the TLAPS
proofs about them. `PROJECT.json` is the index: components, runs, the source lines every definition
translates (`map`), hazards, mutants, findings and theorems.

In this directory:

    tlc -workers 2 -config Captcha.cfg MCCaptcha   # one run; its module is in PROJECT.json
    tlapm StreamsProof.tla                         # the proofs of one module

## 1. The system

| part (under `src/internal/`) | state it keeps | operations | meets |
|---|---|---|---|
| `captcha/token_pool.go` | buckets of pre-solved tokens, waiting `Take`s, registry of certifyIds, target and counters | `Take`, background mints, refill loop, `SetConfig`, `Warm`, `Clear`, `Close` | asks the solver for solves, serves gateway and async pool |
| `captcha/browser_solver.go` | the current and the retired browser pool, users, the registered start | single-flight start per key, `Solve`, idle stop, `Close` | token pool, browser pools |
| `captcha/pool.go` | generations of worker slots, idle channel, readiness | `Start`, `Stop`, `Solve`, slot goroutines | browser workers |
| `captcha/solve.go`, `browserdl.go` | one page and its window; the cache directory of the browser | `Solve`, reload; download, check, extract, rename | the page's script; the command line tool |
| `captcha/captcha.go` | configuration cache, manual token | cached fetch with backoff | token pool |
| `asyncpool/pool.go` | ticket table; a channel and a context per ticket | create, stream, release, sweep, `processTicket`, `Close` | store, captcha, upstream, replay guard |
| `gateway/engine.go` and neighbours | per request: tried accounts, budgets, risk scope, watchdog | `RunMessages`, `tryAccount`, error classification, `finishDelivery` | store, captcha, upstream, replay guard |
| `gateway/handler.go`, `truncate.go`, `streamstate.go` | prebuffer gate with a timer per attempt, what the client has read | passthrough, commit, repair of a broken stream | engine, client |
| `openai/stream.go`, `responses_stream.go` | tool calls and items of a converted stream | event by event conversion, graceful ending | delivery |
| `gateway/replayguard.go`, `riskscope.go` | table of judged contents; clean lines that refused a request | `Take`, `Record`, `Verdict` | engine and async pool (a table each) |
| `adminapi/login.go`, `login_failover.go` | login sessions; what the code was redeemed for | redeem over one exit after another, store, bind, ask for a key | upstream, accounts, lines |
| `store/store.go`, `pin.go`, `model/account.go` | accounts, rotation cursors, pin | selection, status transitions, usage, persistence | everyone |
| `store/line405.go`, `proxy_soft_failure.go` | records of lines that refuse or fail | record, quarantine, prune, persist | engine, async pool, model probe |
| `store/proxy_retirement.go`, `proxy_strict*.go` | blocks, a journal file, the database | retire, recover, lift | network inspection, model probe |
| `store/proxy_transactions.go`, `proxy_dispatch.go`, `risk_proxy_history.go` | which line an account is bound to, generations | bind, rotate, admit a dispatch | store, gateway |
| `modelprobe/network.go`, `store/network_health.go` | rounds, hints, verdicts | probe, confirm, delete | lines, imports |
| `store/model_probe*.go`, `modelprobe/manager.go` | runs, leases, evidence of 24 hours | screen, compare, retire | lines, accounts |
| `initialization`, `store/initialization*.go` | a task per new account, kept over restarts | try a line, claim, look, bind | store, claims, lines |
| `quota`, `store/quota_recovery.go` | a shared query and its cache; leases of exhausted models | query, recover | accounts |
| `claim`, `adminapi/claim.go` | one slot, times of the next claim | daily batch, new accounts, manual claim | accounts |
| `proxysub`, `openai` (requests), `upstream`, `config`, `auth`, `oauth`, `adminapi`, `web`, `requeststats`, `cmd` | settings, sessions, statistics | fetching, parsing, CRUD, process start | everything, as I/O around it |

What is hard here: many goroutines share the store, the token pool and the ticket table through
short critical sections with slow I/O in between, so almost every decision is made on state read
earlier; results arrive late (a mint of an old configuration, a 405 of a request sent before the
line was edited, a solve that ends while its caller times out, the callback of a page script that
was given up); retries are nested; some decisions must survive a crash between two media; and a
client must always get exactly one story. `hazards` in `PROJECT.json` lists forty places, each with
the properties that watch over it, or the reason why none does.

What makes the parts correct, in a sentence each:

* token pool: a token is used once and only by requests of its configuration; every waiting `Take`
  is answered; solves in flight are bounded and an idle pool stops solving;
* solver, browser pool, worker: whoever waits for a start is woken; a slot is never lost, doubled
  or shared; a call gets the answer to its own page; only the whole browser of a
  checked archive is started;
* tickets: the client sees one well-formed event sequence, statuses tell the truth, released work
  stops, nothing runs after `Close`, nested retries stay within their budgets;
* dispatch: one reply per request, nothing sent after the first byte, every
  retry booked; refuse only if nobody can serve, choose the best, take turns;
* delivery: one attempt's bytes after one header, and no half tool call that looks complete;
* accounts: a sentence is served, a stopped account stays stopped, exhaustion ends by proof;
* lines: quarantined, freed, retired and deleted only on evidence that still stands; a decision
  survives crashes; a binding is left only for a reason, a dispatch uses the binding of that moment;
* upkeep: a caller's answer was asked for on its behalf, a claim is posted once and keeps its times,
  nobody waits for ever.

## 2. Modules

State and actions correspond to the code as follows. Every critical section, and every blocking
call between two of them, is one action; what runs under one lock is one step. Operators named after
a `...Locked` function take the struct and return the one that function leaves.

| module | models | its state, against the code |
|---|---|---|
| `TokenPool` | the token pool; a waiting `Take` is register, then receive or cancel | `pool` is the struct; `chan` the one-slot channels; a token is certifyId, key, expiry and a ghost (was the registry cleared since); a mint in flight is a count per key |
| `BrowserPool` | generations, slot goroutines, `Start`/`Stop`/`Solve` with every select branch | `cur, started, startErr, ready, closing` are fields of `Pool`; `done, settled, idle` the channels of a generation; `pc` and `call` the places of the slots and of the `Solve`s |
| `BrowserSolver` | pools per configuration key: acquire, register, start, commit, release, idle stop, `Close` | the fields of the struct; `up`, `pending`, `doomed`: pools that run, whose channel is open, whose `Stop` is still to be called |
| `RodWorker` | calls of one page with reloads, timeouts and answers that come late | `outcome`, `error` are the two variables of the window; `alive` the verifications still running in it |
| `BrowserBinary` | two processes install into one directory and may die | `dir`, `tmp` what is in the directories; `sums`, `archive` what was downloaded, the publisher's or something other |
| `CaptchaConfig` | the cache, its lifetime and backoff, the call to the pool outside the lock | `upstream` is what is published; `lastGood, fresh, backoff, pool` what this side believes |
| `TicketProtocol` | abstract: what a ticket promises to its reader | |
| `AsyncPool` | ticket table, handlers, producers, sweep, `Close` | `reg` is the key set of `p.tickets`, `queue` the channel, `canceled` the ended contexts, `age` a ticket against its timeouts |
| `AsyncTicket` | `processTicket` down to `forwardSSE` for one ticket | `n` holds six counters, each with the scope it has in the code; a blocked send is left to `AsyncPool` |
| `Delivery` | gate, timer, passthrough loop, tail repair, three policies | `gate[a]` is the gate of attempt `a` with its timer; a chunk is an event or the torn half of one |
| `OneReply` | abstract: one reply per request | |
| `Engine` | `RunMessages`, `tryAccount`, every class of answer, watchdog and uplink gate | `tried, avoid, n, b, scope` are locals; `mark, cut, replay` what the store and the guards keep |
| `OpenAIStreams` | the two stream encoders, fed the same stream | `chat`, `resp`: the encoders and what they wrote |
| `Selection`, `MCSelection` | `selectAccount`, `SelectAvoiding`, pin | an account is the profile the layers read |
| `ReplayGuard` | `replayguard.go` and `RiskScope.Verdict` | `entry` the table with ages; `req` the requests and their clean lines |
| `LineQuarantine` | `line405.go` with late answers, probes, edits, restarts | `entry`/`disk`; `flight` remembers line and generation |
| `SoftFailures` | the three criteria, strikes, probation, restart | `soft` and the row on disk |
| `StrictProxy` | journal and database, crash and recovery, retries, leases | `blocks, paused, profiles` in memory, `db`, `journal`, and `op`, who holds the mutex |
| `Bindings` | assignment, rotation, edits one by one and in batches, the versions a dispatch checks | `profiles, generation, account`; `request` the snapshots in flight |
| `NetworkHealth`, `MCNetworkHealth` | rounds, hints, the confirming probe, deletion | `round`, `second`, `hints`, `records` |
| `ModelProbe` | queue, leases, two rounds of comparison, budgets, retirement, protected lines, an answer the database refuses | `run`, `lease`, `proofs`; `saved` what a restart finds; time in ticks of five minutes |
| `Accounts`, `MCAccounts` | the account and everybody who writes it from a stale snapshot | `acc`; `flight`, `poll` the snapshots; `recovery`, `lease` per model |
| `Login` | one login session, its handlers, what everybody else changes meanwhile | `session` the entry of `loginFlows`, `lines`, `acct` the store, `call` the handlers; `crossed` marks that the secret was replaced between `SaveOAuthAccount` and `FindAny` |
| `QuotaQuery` | the shared query, its cache, identity changes, `Close` | queries are numbered; an identity is a version |
| `Initialization` | the persistent task, its attempts, crash and resumption | `task` on disk, `running, mgr` in memory, `quota, posts` upstream |
| `Claims` | batch, new accounts, manual claims, the slot they share | `job` the locals of each goroutine, `queue` the blocked senders |
| `CaptchaProof`, `BrowserPoolProof`, `ModelProbeProof`, `StreamsProof`, `GatewayProof`, `StandingProof`, `UpkeepProof`, `LinesProof` | the theorems (section 5) | |

Seven modules compose them into runs: `MCCaptcha`, `MCStreams`, `MCGateway`, `MCStanding`, `MCLines`
and `MCUpkeep`, and `MCProgress`, which repeats the parts whose liveness needs bounds of its own.
Each extends one part, instances the others and gives them disjoint variables. The parts of a run
call each other only through interfaces whose outcome the called part's model leaves entirely open
(a solve returns anything, the selection may be given any pool), so a behaviour of all parts
together, seen by one of them, is a behaviour of that part with others' steps as stutters. A run
therefore lets one part move: `focus` says which, and the parts that rest have one initial state.
For the parts with theorems about a run this is itself proved: `RunInit` implies the part's `Init`,
and `[RunNext]` its `[Next]` (for instance `SpecDeliveryInv`, `SolverRuns`).

Operators commented "Mutant" are plausible bugs. Nothing uses them: `PROJECT.json` says which
definition each replaces and which property then fails, which shows that the property depends on
the code.

## 3. Runs, bounds and why they are enough

Every run finishes within a few minutes with two workers; the figures are distinct states.

**Captcha** (`MCCaptcha`, 493,000). Checks `TokensSound`, `OwnAnswer`, `OnlyWholeBinaries`,
`DeepIdleStopsMinting`, `PoolsServe`, `ProbedFairly`.
* Token pool: two takers, two keys, two certifyIds, target two, one empty-take solve beyond it, two
  ticks with lifetimes of one. Two of each let a token be handed over between configurations, two
  mints return the same certifyId, two takers compete; two ticks let a token expire while its
  registry entry lives and a pool fall into deep idle.
* Solver: three callers of two keys over two pools, so that a start can be overtaken by
  another key and a retired pool outlive it (the proof is for any number). Worker: three calls, so that an answer can be two calls late.
  Installation: two processes, either of which may die; list and archive are each the publisher's,
  another or missing.
* Model probe, four instances: one run under an edit, a policy change, a refused write or a restart
  with three ticks, and once more after a pause; two runs that use each other's evidence, one of the
  lines protected; two that want the same accounts and lines at a concurrency of two.
* Takers, keys and certifyIds are symmetric.

**Progress** (`MCProgress`, 310,000). Checks `SlotOnce`, `NoSlotLost`, `StartedAllReady` and the
liveness property `NothingHangs`. One slot, two requests, two generations: two requests compete for
a slot, a slot outlives its generation, a `Stop` falls into a `Start`. Two takers and one tick for
the waiting `Take`; two callers and two published versions for the configuration cache; two lines
inspected one per batch with one edit; three contents for the replay guard. No symmetry, as the
properties are temporal. The slot properties are proved for all sizes.

**Streams** (`MCStreams`, 288,000). Checks `StatusTruth`, `ClosedMeansQuiet`, `BoundedAmplification`,
`OneStory`, `NoHalfTool`, `ClientSeesAll`, `AnsweredOnce`, `EmittedProtocol`, `WorkEnds`.
* Ticket table: one ticket with a channel of two, two other requests that create, sweep and close.
  Tickets meet only in the table, the sweep and `Close`.
* Ticket retries: three accounts, two of them jwt, two of them on one line; one account switch, two
  captcha attempts, one timeout and one rate retry: each budget runs out, and each is reset while
  another is half spent. Busy and overload retries are not given (they are loops of the same shape
  as rate); `TicketAmplification` covers every budget.
* Delivery: two attempts of up to five events, a gate of three, every policy, cut everywhere.

**Gateway** (`MCGateway`, 2,628,000). Checks `ChoosesWell`, `SharesLoad`, `EveryRetryBooked`,
`ConvertedWhole`, `KeepsPromise`, `RetryAvoidsCut`.
* Selection: every pool of three accounts of eight profiles that exercise each layer, and every call
  (model or none, pin, avoided accounts and lines). Three accounts are the fewest for which one is
  better, one equal and one worse.
* Engine: three accounts (one jwt, one exhausted) on two lines, two of each per request, two captcha
  attempts, one busy, one rate and one timeout retry, two requests of one client so that the second
  meets what the first remembered.
* Conversion: every stream of up to seven events over two blocks, so that a call can be whole beside
  one that is cut, and each kind of invalid event can come before or after it. The encoders are fed
  the same stream; where one of them sees an error and the other does not (section 6), their verdicts
  may differ, in that direction only.

**Standing** (`MCStanding`, 1,008,000). Checks `SentenceServed`, `RecoveredByProof`, `SoftJustice`,
`ClaimsKeepTime`, `LoginKept`; the bounds are in `Standing.cfg`. Two requests, a quota poll and
administrators on one account with one model and two routes over two ticks; two lines with four
samples over six ticks and a restart (a failure window, a term and a probation fit into six); one
batch, one new-account task and one manual claim on the slot; one login session under two handlers
over two lines, two addresses and two codes, with one change from outside. All five are proved for
every value of these bounds.

**Lines** (`MCLines`, 838,000). Checks `OncePerWindow`, `LineJustice`, `DecisionStands`,
`StaysOnItsLine`, `DispatchIsCurrent`, `ClaimedOnce`. Three contents and a table of two, so that it
overflows with live records; two lines with two configurations each and three ticks, so that a
quarantine can end, be pruned and be renewed; two lines, three decisions and four faults (a refused
write or a crash), so that both media can fail for both lines; one account over two lines and two
addresses with two writing calls and one request in flight (what a batch does to several accounts at
once is proved, not run); an initialization over two candidates
besides the default line, with one edit, one crash and two claims.

**Upkeep** (`MCUpkeep`, 728,000). Checks `AnswersTheCall`, `DeletedOnProof` and the liveness property
`NobodyForgotten`. Two callers over two queries and two identities: a query can outlive the identity
it was sent for. Two lines in batches of one and two moves of the
environment (proved for any number); one edit during an initialization; claims
over two ticks.

`CHECK_DEADLOCK FALSE` is given where the system may really stop: all calls have returned, the
process is closed, or the part that moves has used up its bound.

Five runs show a disagreement between the code and what the repository says of it; `findings` quotes
the lines:

| run | what it shows |
|---|---|
| `BrowserPoolRestart` | `Start` sets `started` without looking at a teardown in progress: the pool can end with no generation and `started` set, and no later `Start` does anything (`captcha/pool.go:240` against `:259`) |
| `BrowserPoolTimeout` | the slot reads `condemned` before the timed-out caller sets it: the worker that should be replaced stays (`captcha/pool.go:498` against `:8`) |
| `SelectionQuarantine` | with a model name the candidates are rebuilt from a set that still holds quarantined lines (`store/store.go:1957` against `:1929`) |
| `GrantOfAnother` | a granted initialization is bound for a user without quota after two logins as that user (`store/initialization_lifecycle.go:95`) |
| `FreshGate` | the hint that keeps an imported line out of the selection is dropped before its check is saved (`store/proxy_failure_observation.go:101`) |

## 4. Fairness

Fairness is assumed only where the scheduler or a deadline in the code provides it, always weak, and
never of clients, administrators or faults.

* Progress: the goroutine of a `Solve` runs and its two timers fire (`SolveProgress`), while slots,
  `Start` and `Stop` get none: `Solve` returns even when a worker hangs. A mint ends, because a
  browser solve has a deadline, and a `Take` receives what is in its channel. A caller of the
  configuration cache goes on, because its HTTP call has a timeout, and time passes. The inspection
  runs when it is due. Time passes for the replay guard and each request ends.
* Streams: goroutines run and time passes; a producer is trusted only to notice that its context
  ended. The retries of a ticket run up to its stream, since every request, pause and solve has a
  deadline; a stream itself may last for ever unless its reader is gone. The delivery loop runs and
  the prebuffer timers fire.
* Upkeep: callers of a query run and a query ends by its timeout; the worker of the initialization
  takes its steps and its deadline passes; each claim step ends, because a claim request has a
  timeout of 25 seconds.
* Captcha, Gateway, Standing and Lines check safety and assume none.

Because `focus` is constant, fairness of the actions of one part is fairness of the behaviours in
which that part moves. Callers of a part are interchangeable, so `NothingHangs` and
`NobodyForgotten` speak of one caller of each part.

## 5. Proofs

The theorems hold for every value of the constants: any accounts, lines, requests, tickets and
budgets, where a run checks a few. They are stated of the composed runs (`RunSpec => []OwnAnswer`)
wherever the property is one a run of an MC module checks; the proof of the composition is the first
step of each. The model probe runs in four sizes, so `MCCaptcha` instances the module with its theorems
(`ModelProbeProof`) instead of the bare one. `tlapm M.tla` checks a module; nothing is taken on trust.

The argument is the same everywhere. A property that is not inductive is strengthened by what the
code relies on silently; the conjunction holds initially, and every action keeps it, one step per
action and below it one per conjunct the action can disturb. An action property follows from the
invariant before the step. A refinement is the invariant plus, for every step, the abstract step or
stutter it maps to.

| module | theorems | assumptions | what the inductive invariant adds, and why |
|---|---|---|---|
| `BrowserPoolProof` | `BrowserPoolType`, `BrowserPoolSlotOnce`, `BrowserPoolNoSlotLost`, `BrowserPoolStartedReady` | `BrowserPoolAssumption`: slots are finite, there are some | `SlotInv`: a slot that cannot receive a request is neither on offer nor held (`BusyIsUnoffered`), without which offering it might double it; slots of a generation never started are off (`UnstartedIsOff`), without which `Start` might restart a running goroutine. `ReadyInv`: only a generation reported as started has requests that use its slots (`StartedIsOk`, `UsedIsOk`), so the slots `Start` has counted so far still stand when it counts the last (`CountedStand`) |
| `StreamsProof` | `AsyncPoolType`, `AsyncPoolStatusTruth`, `AsyncPoolClosedMeansQuiet`, `TicketClientSeesAll` (the table) | `AsyncPoolAssumption` | `PoolInv`: a ticket nobody created has left no trace (`Uncreated`), so a producer starts once; a cancelled ticket is out of the table (`Released`), so `finishTicketWork` never overwrites the verdict of a registered one; the work of a registered ticket ends only with its verdict (`Stamped`); `closed` is set before `Close` waits (`Shut`). `FlowInv`: what the client has read, what waits in the channel and what the producer is sending are together one run of the protocol (`InOrder`, `Emitting`) |
| | `TicketAmplification`, `TicketAnsweredOnce`, `TicketEmitsProtocol` (the retries) | budgets are natural, at least one captcha attempt | `TicketInv`: every counter is within its budget and the requests sent are bounded by the sum of what the counters, each in its own scope, have paid for (`Accountable`, `Paid`), arithmetic no single loop shows; what was told to the client agrees with where the ticket stands (`Told`) |
| | `DeliveryOneStory`, `DeliveryNoHalfTool` (the streams) | at least one attempt | `DeliveryInv`: by phase of the attempt (holding, flowing, invisible, visible) what gate, timer and reading loop know of each other; the timer may commit while the loop is between two of its steps, so each phase says what the other may have done meanwhile |
| `CaptchaProof` | `TokensStaySound`, `IdlePoolRests` (tokens) | `TokenPoolAssumption`: times, sizes and factors are natural | `TokenInv`: whatever can still be submitted, in stock, in a channel or on its way, is registered for longer than it lives (`Backed`), so the registry turns its double away; no certifyId is in two places (`Apart`); waiting takers are distinct and their channels empty (`Queue`); solves end only for those who wait (`NoMore`) |
| | `BrowserSolverServes`, `RodWorkerOwnAnswer`, `BrowserBinaryWhole` (browsers) | callers are finite, the bounds natural | `SolverInv`: a pool is started by one caller and every open channel has one who will close it (`OneStarter`), so the end of a start finds its own waiters; `WorkerInv`: a page that is not dirty has no verification of an earlier call left, so everything in a page that is polled is its own; `InstallInv`: an archive is unpacked only if its digest stands in a list whose signature held (`Listed`, `Checked`), and only a directory that was unpacked to the end is renamed into place |
| `ModelProbeProof` | `ProbeOneAtATime`, `ProbeRetiresOnProof`; `ProbesFair` (in `CaptchaProof`) says them of the run | `ProbeTerms`: accounts are finite, the order of the lines is strict, the direct route is no line, times and limits are natural, and a success ranks a reference at least as long as it is evidence | `ProbeInv`: what was saved within the window is still among the proofs, or decisions are suspended until it is out of date (`Remembered`), which restarts and the limit of the evidence could break; a proof that was not saved is of a run that has ended, so it can never count for the next decision of its run (`ProofsStand`); the proofs are in the order of their times (`Sorted`), so what leaves is the oldest; a run that is under way has a lease, of its phase and over its target (`RunsStand`) |
| `GatewayProof` | `GatewayEveryRetryBooked`, `GatewayRetryAvoidsCut`, `GatewayKeepsPromise` (the loop) | budgets are natural | `LoopInv`: the round under way is the one round that no counter has paid for (`Booked`), accounts are tried once each (`Tried`), the reply is open exactly as long as the request (`Spoken`), every line that broke the content is remembered and avoided (`Remembered`) |
| | `GatewayChoosesWell`, `GatewaySharesLoad` (the selection) | `SelectionAssumption`: the accounts are a list without repetitions | the type suffices. The layers are compared with the rank one by one: whoever a layer drops is worse in its place of the rank than whoever it keeps, and equal in the places before it (`TierRanks`, `LayersRank`). For the turns, every place below the number of equals is that of exactly one of them (`NthIs`), so the cursors of calls in a row, counted round (`Wrap`), meet them all |
| `LinesProof` | `ReplayGuardType`, `ReplayGuardOnce`, `LinesJustice`, `LinesDecisionStands`, `LinesClaimedOnce`, `LinesStaysOnItsLine`, `LinesDispatchIsCurrent` | `ReplayGuardAssumption`; terms are natural, at least one strike retires (`config.go` raises 0 to 1); bounds natural; the first user is one; `None` is no credential, address or line, and there is a credential | `GuardInv`: `OncePerWindow` is inductive together with the types; `JailInv`: strikes and a running term are backed by a full row (`Backed`), an entry without strikes by none (`Spotless`), and the file never knows a longer term than the memory; `StrictInv`: which operation holds the mutex and how far it is (`Holder`), what is in force is in memory (`Remembers`), the memory is never behind the media (`Agrees`), and the media alone can bring back every durable decision (`Media`), which a crash between any two steps needs; `ClaimInv`: the attempt is of credentials the account has or had (`Own`), a claim that was sent stays doubtful until quota is seen (`Doubt`), and an attempt that may still send has sent nothing; `BindInv`: whoever names a line has its address (`Bounded`), a line once added keeps a generation after it is gone and never returns (`Added`), an account with a line is there and was counted (`Alive`), what a request froze is never ahead of the store (`Behind`), and every change of what it was given shows in a generation it holds (`Tells`), which is what makes comparing generations enough |
| `StandingProof` | `StandingSentenceServed`, `StandingRecoveredByProof`, `StandingSoftJustice`, `StandingClaimsKeepTime`, `StandingLoginKept` | `SoftTerms`: times and thresholds are natural; `ClaimTerms`: periods are natural; `LoginNames`: `None` is no line, address or session | `AccInv`: a lease names no generation of the account that is still to come, and an exhaustion told while it ran belongs to a lease that is overtaken (`Leased`); `SoftInv`: what is on disk is the record of the last strike, and a strike stands for the term of its number, doubled with each up to eight times (`Kept`); `ClaimInv`: whatever a job has promised to wait for is the account's time or nothing; `LogInv`: what each handler knows of the session by the place it is at (`LoginCalls`), and what was created or held since (`LoginNew`) |
| `UpkeepProof` | `UpkeepAnswersTheCall`, `UpkeepDeletesOnProof` | `QuotaQueryAssumption`: the bounds are natural; `HostApart`: the host is no line | `QueryInv`: what a caller has in hand, the identity it read and the query it sent, is no older than its call (`InHand`); `HealthInv`: a probe that was refused means that the policy or the line is another (`Over`), and a line of the same generation is the line the round saw (`Snapped`), so a verdict that can still delete is that of a probe which went out; which verdicts are in by the place of the round (`Stage`) |

Three of these are refinements: `TicketEmitsProtocol` (`AsyncTicket` implements `TicketProtocol`),
`TicketClientSeesAll` (so does the table, seen from the client's end of the channel) and
`GatewayKeepsPromise` (`Engine` implements `OneReply`).

Model-checked only:

* liveness (`NothingHangs`, `WorkEnds`, `NobodyForgotten`), which needs fairness and `ENABLED`;
* `ConvertedWhole`: it needs an invariant of its own for each encoder, item by item of what it holds;
  nothing stands in the way of a proof, but there is none yet.

## 6. Not modelled, stated but not checked, and the plan

Left out on purpose: contents of requests, answers and logs, statistics, parsing of subscription and
event formats, the admin pages, building of upstream requests, and process start: data and I/O
around the state modelled here. Browser and upstream are free to answer anything. Within modelled
parts:

* `Engine`: usage accounting; what in an error body makes it one class or another.
* `OpenAIStreams`: a block declared twice, and text in the block of a tool; what a delta holds.
* `BrowserBinary`: which release a signed list is of.
* `SoftFailures`: probation is on, as by default; `ZCODE_PROXY_SOFT_PROBATION` switches it off.
* `Bindings`: accounts managed by initialization or by a model probe, retirement, failed commits;
  which of equally loaded lines is taken is left open.
* `StrictProxy`: a commit that reports an error although it is durable; the encoding of the journal.
* `Initialization`: more than one plan; the time of the next try is left open.
* `NetworkHealth`: the interval is longer than one pass; the preflight of an import happens between
  calls of the inspection.
* `ModelProbe`: only the automatic mode per account; a tick stands for five minutes; the
  write-back of a 405 verdict and rotation are left out.

Some definitions state what one would expect and what the models show not to hold. They are no runs
of their own: for most of them no line of the repository promises them plainly or the effect is small,
and `KeptWithoutAlternative`, which a comment does promise, is covered by what `StaysOnItsLine` says of
the same step:

* `Engine!SlowMeansAllSlow`: `uplinkSlow > 0` (`gateway/engine.go:335`) calls a request slow when one
  attempt was. `Engine!TimerNeverCools`: the watchdog may fire between the return of `client.Do` and
  `Headers`; the body is then read as an error and the account cools (`engine.go:718`).
* `Accounts!SentenceStands`: the note of another request in flight overwrites `LastErrorKind` of an
  account that risk control made invalid, and a successful quota query then revives it.
* `Bindings!DirectIsRespected`: a risk verdict moves an account that an administrator sent out
  directly. `SetSecret` deletes the pending entry but leaves the intent `auto_pending_proxy`.
* `Bindings!KeptWithoutAlternative`: an account that is quarantined off its line keeps its binding when
  no other line is available. The comment at `store/proxy_transactions.go:236` says so, and so do the
  third red line of `docs/plan-proxy-soft-quarantine-20261017.md` and its test 13. It holds as long as
  the account's own line is usable, for the choice falls back on that line. But the line may be switched
  off (`UpdateProxyProfile` leaves its accounts on it) or suspect after a network check: when its
  address is quarantined then and no other line is usable, `reassignAccountsLocked` (lines 173-183)
  takes the account off and lets it wait as `auto_pending_proxy`. `StaysOnItsLine` says what the code
  does: a quarantine moves an account to a usable line, and leaves it without one only when there is
  none, its own included.
* `Claims!JustClaimedIsSkipped`: a manual claim looks at the account before it waits for the slot
  and not afterwards (`adminapi/claim.go:633`).
* `StrictProxy!EveryFailureRetried`: a failure while the recovery goroutine ends is not retried until
  the next decision or start.
* `BrowserSolver!UsablePool`, `NoOrphan`: with a third key a caller can solve on no pool or on one of
  another key, and a pool can run that nobody holds and nobody will stop.
* `Delivery!ReadableEnding`: after a cut in the middle of a line the repaired ending is glued to it.
* `QuotaQuery!QueriesOutliveCallers`: a query can be aborted with the caller that sent it while others
  share it (`quota/quota.go:596`).

The two OpenAI encoders do not tell one story about every stream, so `OpenAIStreams!SameVerdict` (part
of `ConvertedWhole`, which holds) has three exceptions: a tool without id or name is an error for the
Responses client (`openai/responses_stream.go:194`) and a call for the Chat client; empty arguments for
a block that is no tool are an error for the Chat client (`openai/stream.go:205`) and nothing for the
Responses client (`responses_stream.go:260`); and a message that never began is ended as a success only
by the Responses encoder, under the graceful policy.

Observed on the way, and not expressed as properties: the Chat encoder emits a second finish chunk
when cut between `message_delta` and `message_stop`; an administrator's retry of a doubtful
initialization resumes without a deadline; a request queued into a discarded inspection round waits
for the next full one; after a restart the model probe forgets business successes without
remembering that its evidence is incomplete (`store/model_probe.go:242`).

Next, in this order: the enrollment of new accounts, batch edits and the dedicated mode of the model
probe.
