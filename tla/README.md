# A TLA+ model of the Qubic Random provider

`qubic-random-client` keeps three streams of commit/reveal calls to the on-chain
Random contract alive. Every third tick of the network belongs to one stream; a call
of a stream commits to a fresh preimage and reveals the preimage committed three ticks
before it. Each commitment locks a collateral, and a reveal that is missing, late, wrong
or sent too early costs it. The engine has to decide, from a backend that answers late,
repeats itself, fails or goes backwards, when to start a chain, when to extend it, when
to give it up and how to end it.

This directory holds the specification of that engine and of what surrounds it: TLA+ modules translated
from the sources, TLC configurations for small instances, and proofs checked by TLAPS.

- [The system](#the-system)
- [Modules and their correspondence with the code](#modules-and-their-correspondence-with-the-code)
- [What TLC checks](#what-tlc-checks)
- [Fairness](#fairness)
- [What is proved](#what-is-proved)
- [Disagreements between the code and its documentation](#disagreements-between-the-code-and-its-documentation)
- [Remarks](#remarks)
- [What is not modelled](#what-is-not-modelled)
- [Plan](#plan)

## The system

| Component | Code | State | Operations |
| --- | --- | --- | --- |
| Managed slot (3) | `engine.rs` `ManagedSlot`, `SlotState`, `Chain`, `PlannedCall` | slot state (Waiting, Starting, Active, Restarting, Draining, Drained), the chain (first and last target, acknowledgement watermark, suspicion, outstanding preimage, queue of signed calls with their task), `restart_not_before` | `apply_status`, `start_if_ready`, `extend_chain`, `enter_drain`, `expire_calls`, `dispatch_calls`, `harvest_broadcasts`, `finish_drain`, `finish_status_restart`, `prune_calls` |
| Status evidence | `engine.rs` `StatusEvidence`, `StatusSuspicion` | evidence, confirmations, last request tick | `agrees_with`, `observe`, `is_confirmed` |
| Run loop | `engine.rs` `run`, `cycle`, `update_epoch_phase`, `ensure_status_query`, `harvest_status_query` | epoch phase (Warmup, Active, Draining), the one status query, the cancellation token, the shutdown observer and deadline | one cycle per poll; the shutdown request; leaving |
| Delivery counters, target-tick checks | `engine.rs` `record_send_outcome`, `*_tick_check*` | outcome per target, pending, ready, queued and checked targets, one check task | `queue`, `ensure`, `harvest`, `expire` |
| Backends | `backend.rs` over `bob.rs`, `http.rs`, gRPC | the light node: the epoch it saw last and that epoch's initial tick; Bob: the next nonce | `tick_info`, `tick_has_transactions`, `query_contract_function`, `broadcast_transaction` |
| HTTP client | `http.rs`, endpoints in `config.rs` | the buffer of one answer | `read_json`, the URLs of the operations |
| Contract ABI | `contract.rs` | the decoded slots | `ProviderStatus::decode`, `slot` |
| Random contract | `docs/Random.h` | population, commits and collateral per stream, entropy per tier | `RevealAndCommit`, `END_TICK`, `GetProviderStatus`, `BuyEntropy` |
| Start-up | `app.rs`, `config.rs` | copies of the seed, the endpoint, registered signal handlers | read, validate, lock, build, observe signals |
| Presentation, entropy | `console.rs`, `entropy.rs` | none the engine reads | print, draw random bytes |

How they interact:

- The engine owns everything and runs on one task. It calls the backend in two ways:
  `tick_info` is awaited within a cycle; status queries, broadcasts and tick checks are
  spawned and harvested by a later cycle, finished or not.
- The shutdown future runs in an observer task. It cancels a token when a signal
  arrives and then ends with the future's result. The engine reads the token once per cycle
  and the observer's result after the cycle, so the two are seen at different times.
- The engine and the contract communicate only through signed calls and status responses.
  A response names, per slot, the tick of its last update; the engine compares it with
  the targets it signed.

What makes it hard:

- *Stale and repeated answers.* A status response describes the tick at which it was requested, not
  the one at which it is harvested. Request ticks may repeat or go back.
- *Two chains in one queue.* A frozen chain's signed tail is still sent and still expires
  while its replacement is already planned.
- *Time-outs racing answers.* A broadcast is aborted at its target though it may
  have been accepted; a call accepted once is broadcast a second time on purpose.
- *Two drains.* The end of an epoch and a shutdown both drain slots, with different
  retry rules, and a shutdown may begin during an epoch drain or an epoch may end during a
  shutdown.
- *Early returns.* A failed `tick_info` or a planning error ends a cycle before later
  slots, expiry and sending are reached.
- *The edge of u32.* Targets are computed with checked and with saturating additions.
- *Two clocks.* The epoch number is the node's, the window in which an epoch is drained is the wall clock's.
- *Nested timers.* A Bob query polls under its own deadline, inside the engine's time-out, over HTTP calls that have none.
- *A process that forgets.* Chains and preimages are in memory only; the contract still holds a commitment after a crash.

Correctness, per component:

- *Slots*: the preimage chain links up; no target is signed twice; a preimage leaves only
  after the commit set it belongs to was selected; a call of a frozen tail is kept until its tick;
  a healthy chain is not given up and a lost one is counted once.
- *Evidence*: freezing takes three consecutive agreeing responses requested at strictly
  later ticks, and three such in a row are enough, whatever late or repeated answers come between them.
- *Run loop*: nothing survives an epoch change; a drained stream stays drained; a terminal
  reveal follows its prerequisites and is attempted once in a shutdown; a shutdown
  ends, and successfully only if nothing is owed.
- *Counters*: each target is counted once, in its worst outcome, and no counted target
  escapes its check or is checked twice; a lost collateral is charged once.
- *Provider and contract*: no collateral burns without a cause, a healthy chain is never given up because a status is late, a clean
  exit leaves no slot behind, and after the last fault the engine is back in step within a bound.
- *Contract*: money is conserved while entries move, and sold entropy is honest.
- *Answers*: what is concluded of a damaged, late or misrouted answer is true or is nothing.
- *Process*: no way out leaves a copy of the seed, and a signal is never lost.

The hazards behind these properties are listed with their source lines in `PROJECT.json`.

## Modules and their correspondence with the code

```
RandomSchedule          tick arithmetic, constants of the schedule
  StatusEvidence        StatusEvidence, StatusSuspicion
    StreamSlot          a slot and all its handlers, as operators
      StatusWatch       one slot under arbitrary status responses
      ProviderEngine    the run loop over the slots: VARIABLES, actions, properties
        ShutdownLedger  the engine with a record of what a shutdown owes
        EngineLedger    the engine as an implementation of StreamLedger
        ProviderSystem  the engine, a faulty network and the contract
        MonitoredEngine the engine driving the monitor (extends TickMonitor too)
  StreamLedger          abstract specification: the targets each stream signs
  EpochPhases           update_epoch_phase and the stop window
  TickMonitor           delivery counters and target-tick checks, as operators
    MonitorWatch        the monitor under every sequence of marks, ticks and answers
ContractRules           RevealAndCommit, END_TICK, GetProviderStatus, as operators
  RandomContract        the contract with its callers (ProviderSystem takes the rules too)
BobEnvelope             whose call an answer from Bob belongs to
  NodeAnswers           what the adapters make of a node's answers, as operators
    NodeSession         checks and broadcasts through each adapter
    EpochCalendar       weekly boundaries, late epoch changes, the engine's phase
      EpochAlternation  the same, with a memory of each epoch's first tick
  BobQuery              one contract query through Bob, its polls and time-outs
StatusCodec             GetProviderStatus on its way to the slots of a ProviderStatus
HttpBody                one answer read under the size limit
SendAttempts            the time that attempts to send a call take
Endpoints               normalized endpoints and the URLs of operations
  Startup               the process: seed, endpoint, signal handlers

MCProviderEngine, MCShutdownLedger, MCEngineLedger, MCMonitoredEngine,
MCProviderSystem, MCRandomContract                instances for TLC
MCAnswers   HttpBody, BobQuery, NodeSession, StatusCodec, StatusWatch in one run
MCProcess   Startup, EpochCalendar, SendAttempts in one run

ProviderEngineProofs        handlers keep a slot, the engine all its slots in order     theorems
  DeliveryProofs            the life of a call, of a task and of a drain;
                            refinement of StreamLedger; clean exits
    MonitoredProofs         what the counters make of the engine (uses the next one too)
TickMonitorProofs           the monitor's operators
  MonitorProofs             the monitor by itself
AnswersProofs               body, Bob query, session, decoder, status responses
ContractProofs              sums, the walk of END_TICK, the contract's books
ProcessProofs               seed, attempts, epoch calendar, endpoints
```

**RandomSchedule.** `MaxTick` stands for `u32::MAX`. Everything is stated for any
`MaxTick`; small values bring the edge into TLC's reach. `NoTick` is `None`.

**StreamSlot.** A handler of the code is an operator from a slot and its arguments to a
result `[slot, marks, ok]`. `ok = FALSE` is an early return with an error. `marks` are what
the handler leaves for the delivery counters (an acceptance, a financial failure, the digest
of a sent reveal), so that the counters can be composed with the engine without changing it.

- The queue of calls is a set: targets are pushed in increasing order, which
  `TargetsSignedOnce` proves, so the queue order is the order of targets.
- A preimage is named by the target of the call that commits to it. A call carries the
  name of the preimage it reveals, so a chain is linked if each call reveals the name three
  ticks below its own. The signed bytes are the target, the kind and that name.
- `SlotState` is one record with a tag; fields a variant does not have keep a fixed value.
- The planning loop of `extend_chain` is unrolled to two rounds. `LoopEndsAfterTwoRounds` proves
  that a third has nothing to do.
- `SendSlot` is the tail of a cycle for one slot in the order of the code: expire, dispatch,
  finish a drain, finish a restart, prune. The code does this slot by slot; a handler touches
  its own slot only and none of them waits, so the order between slots is not observable.
- The first error of a planning pass ends the cycle, so there the order between slots does
  matter: `Reached` says which slots were planned.

**ProviderEngine.** A cycle is cut where the code awaits or reads what another task writes.

| pc | Code | Actions |
| --- | --- | --- |
| `head` | exit tests, `poll.tick`, `tick_info`, `update_epoch_phase` | `TickOk`, `TickFails`, `ExitDrained`, `ExitTimedOut` |
| `harvest` | `harvest_status_query`, `harvest_broadcasts`, `apply_status` | `HarvestQueryPending`, `HarvestQueryFailed`, `HarvestQueryOk` |
| `plan` | the token is read; planning, sending, `ensure_status_query` | `CycleDrain`, `CycleActive`, `CycleHold` |
| `observe` | the observer is polled after the cycle | `ObserveNothing`, `ObserveRequest`, `ObserveError` |
| `exited` | `run` returned; the engine is dropped | `Finished` |

`Signal`, `ObserverEnds`, `ObserverPanics` and `DeadlinePasses` interleave with all of them.
A network task runs on its own, and only its state at the time it is harvested
matters: `Harvest` chooses there among pending, accepted and failed, per target. Wall-clock
readings (the 500 ms query spacing, the stop window of an epoch, the 90-second deadline) are
free choices. The current time is never compared with anything else, so every value
the code could see is covered.

`signed` is a history variable: the targets each stream has signed since its slots were last
reset. No action reads it.

**ShutdownLedger** adds two history variables to the engine: the streams whose terminal reveal was scheduled in this epoch and is
owed, and whether a drain failed during the shutdown. A reset of the slots forgets what was owed, as the code does: the
commitments of an epoch that ended cannot be revealed any more.

**StatusWatch** puts one chain under every sequence of a few status responses, without
the schedule that makes long sequences expensive in the engine, and states what the
sequence itself says: its properties read the history of responses, not the counters
the code keeps.

**TickMonitor** is a record with the code's collections: `send_outcomes`, `send_stats`, the pending,
ready, queued and checked targets, the digests, the running check and the watermark `oldest_tick_check`.
`ApplyMarks` consumes the marks of an engine step, `MonitorTail` is the end of a cycle
(`expire_tick_checks`, `harvest_tick_check`, and `ensure_tick_check` unless draining), `ResetMonitor` the share of `reset_slots`.

- A ready check is due or not: the code keeps the instant at which it becomes due, and the time that has passed
  is the environment's choice (`BecomesDue`). The failure count sets that delay and nothing else, so it is left out.
- Of two checks ready at the same time the code takes the newest target, and so does `StartNewest`.
- The number of expired checks is only logged, the counters' u64 maxima are out of reach: both are left out.
- Acceptances and losses of one step are a set of marks. The code records them in the order of slots and handlers, but outcomes
  form a chain (accepted, failed, empty) of which the worst is kept, so that order makes no difference.

**MonitorWatch** runs the monitor alone and keeps what was reported and answered as histories, against which its
properties are stated. **MonitoredEngine** attaches it to the engine's steps; a planning error ends the cycle before
the monitor's part.

**StreamLedger** is what the engine promises about the calls it signs, without calls, tasks, statuses or ticks: per stream a mode
(idle, running, frozen, closing, closed) and the last signed target, which only grows until the slots are reset. A chain grows by its own ticks, a
replacement starts past the tail it replaces, and nothing is signed on a frozen, closing or closed ledger. **EngineLedger** maps the engine to
it: the mode is the slot's state, the last target the highest one in `signed`.

**ContractRules** are the rules of `docs/Random.h` for the ticks of one stream. A 4096-bit value is a name; the K12 digest of a value is compared by name; the
XOR of values is the symmetric difference of sets of names, so that two equal reveals cancel as they do in the code. `EndTick` keeps the
code's walk over the population, which goes from the last place to the first and deletes by moving the then last entry to the current place.
**RandomContract** adds the callers, their money, and `Sells`, the condition of `BuyEntropy`: the trustee's flag is looked up by the place of the entry, and the zero trustee (`None`) needs no flag. The code sells
from the stream that finished last (`(tick + 2) mod 3`), which nobody touches before its own next tick; in the model a purchase may come at any time, so it judges
more states than a buyer can see.

**ProviderSystem** composes the engine, unchanged, with those rules. The engine's steps are its actions with the network's side of each conjoined: a task in
flight may have handed its call to the network (`sent`); a call accepted in time for the tick's transaction set surely has (`landed`). `NetworkTick`
executes any subset of what is due that contains what landed, in any order, and runs `END_TICK`. A status answer is any contract status from
`StatusLag` ticks before the request to the harvest. `Crash` starts a new process with nothing in memory. `faulty` is a
history: a call was let down, a tick was not served, or the process was killed.

**NodeAnswers**, **NodeSession.** An answer is a record of the fields the code looks at, a field is a number, a text, another form or missing, and
transactions are names. `NodeSession` lets a node that is not dishonest answer the checks and broadcasts of each adapter with one fault per answer (late, about another
tick or call, a missing or damaged field, a digest twice) and compares what the client concludes with what is so.

**BobQuery.** Time is counted in polls. The adapter's deadline is tested after an answer, the engine's cut drops the task at any time, and a call
may hang for as long as it likes. Bob begins a job when the first request with its nonce reaches him (`BobTakes`), at once or after any delay. What an answer says was so
when Bob formed it, at any time between the call and now (`FormedTimes`): a "pending" may come after the job is computed. An answer may also be that to another call
of the process; as in `http.rs:152`, an envelope with another id is refused, and legacy answers without an id and raw results, which the code cannot tell apart, are taken to be that of the call.

**StatusCodec.** An entry of the answer is the words at one index of its arrays. The contract lists what is held, one word may be damaged, and the
client decodes entry by entry, refusing the whole at the first thing that cannot be.

**HttpBody.** A chunk is its length. The buffer grows by chunks that fit; a declared length above the limit is refused before reading.

**EpochCalendar.** A day has `Day` units; the boundary is Wednesday noon as in `is_epoch_stop_window`. The network changes its epoch some time after the
boundary, light-node peers may still report the old one for a while and need not name its initial tick (RPC and Bob state the true one or fail), and a client started in the first week sees both through one of the adapters.

**SendAttempts.** One call, in units of time: cycles come every poll, an attempt may hang until its time-out, and the next one starts in the cycle that harvests it.

**Endpoints**, **Startup.** An endpoint is the sequence of its pieces between slashes. `Startup` follows the places a copy of the seed can be in: argument, input line,
configuration, wrapper; every step may fail, and dropping a value wipes it or does not as the type's `Drop` does.

**MCAnswers** and **MCProcess** put machines that share no state into one state space: a variable `moving`, chosen in the initial state, says
which of them takes the steps, and the others stay in one fixed initial state. The state space is the sum of theirs, not the product, and each property is about one of them.

## What TLC checks

Every run that is expected to pass completes its whole state space.

| Run | Question | Bounds | Distinct states |
| --- | --- | --- | --- |
| `recovery` | Do chain, tail and failure accounting survive freezing, replacement beside the frozen tail, loss and restart? | one stream, ticks 0..14, jumps up to 4, reports {absent, 6, 9} | 604 k |
| `delivery` | Does a task outlive its target, or a preimage leave early, when ticks jump and regress? | two streams after a warmup, ticks 0..8, jumps up to 3, regressions of 1, tasks may stay pending | 230 k |
| `shutdown` | Does a shutdown at any point of a cycle attempt each terminal once, and end cleanly only when nothing is owed? | one stream, ticks 0..12, jumps up to 2, the signal in a cycle at tick 4 | 550 k |
| `epochs` | Does anything cross an epoch or overflow a tick, does the engine implement the ledger, does a shutdown always end? | one stream, two epochs in either order, ticks 0, 7..10, 16 and `MaxTick` = 24 | 154 k |
| `monitor_watch` | Do counters, outcomes and the collections of checks agree, whatever order reports, answers and ticks come in? | targets 2 and 3, ticks 0..5 of 6, jumps up to 2, regressions of 1, delay 1, window 1, one reset | 167 k |
| `monitored` | Does the engine report every accepted reveal and each loss once? | one stream, ticks 0..10, the signal in a cycle at tick 8, delay 1, window 1, checks answer empty or fail | 320 k |
| `random_contract` | Do money, entries and sold entropy stay right under any calls? | two providers, two tiers, two preimages, three places, three ticks of the stream | 110 k |
| `network` | What do the provider and the contract lose when calls are lost, late or reordered, statuses are old, and the process dies? | one stream, ticks 0..33, faults before tick 8, statuses up to 2 ticks old, one crash, a shutdown at tick 8, an epoch drain | 2.2 M |
| `answers` | What are a node's answers taken for? | see below | 630 k |
| `process` | Are seed, endpoints, signals, warmup, stop window and attempts handled as promised? | see below | 496 k |
| `epoch_alternation` | Does the light node's fallback count from the first tick seen in an epoch? (it does not) | three epochs, peers one unit behind | until the violation |
| `epoch_during_shutdown` | Does a failed drain fail the shutdown? (it does not) | two streams, two epochs | until the violation |

The bounds and why they are enough:

- `LastTick` is the highest tick reported. A stream-0 chain can start at target 6 (the first
  multiple of three at least six ticks after tick 0). Three suspicious responses after
  that, a replacement past the tail and the end of the tail fit below tick 14, which is
  the bound of `recovery`; a delivery from the send window to past the target fits in 8, with streams 1 and 2 started at tick 1
  when the warmup of one tick is over.
- `MaxTick` leaves room above `LastTick` where the edge is not the question. In `epochs` the ticks jump to `MaxTick` itself, where planning
  errors and exhausted schedules occur; the ticks between are left out because nothing new happens at them.
- `MaxJump = 3` skips a whole stream period, so that a boundary is missed without being seen.
  `recovery` has 4, with which one tick can miss two calls of one chain at once (`t + 1` and `t + 4`): they are one failure. Larger jumps miss more of the same.
  `monitored` moves one tick at a time: losses come from failed broadcasts there, and its theorems cover the jumps.
- `MaxRegress = 1` is the smallest that makes request ticks repeat and go back.
- `Reports` are the `last_update_tick`s a response may carry: targets of the first chain,
  which become foreign to its replacement.
- `SignalTicks` restricts when a signal arrives. It may come at any
  of the four points of the cycles at those ticks. The tick is chosen so that a chain with calls in every
  send state exists. Nothing in the engine depends on the absolute tick.
- Streams interact only where one planning error leaves later slots unplanned and where one drain outlasts
  another. `delivery` and `epoch_during_shutdown` have two; the theorems hold for any set of them.
- In `monitor_watch`, delay plus window is 2, so target 2 is marked, becomes eligible, is checked or retried and leaves the
  window within five ticks, and a regression of one then brings the tick back below the watermark's source. Two targets
  compete for the one running check. `TICK_CHECK_WINDOW` is 32 in the code; nothing but the comparison with it depends on
  the value, and the theorems hold for any.
- `monitored` has a check that answers "empty" or fails; a check that finds a transaction changes no outcome, and
  `monitor_watch` covers it.
- `random_contract`: three places and two providers at two tiers make a full population, a deletion in the middle that moves the last entry,
  and an enrolment into the freed place; three ticks are enrol, reveal or stay away, and what comes of either. Providers and
  preimages are symmetric.
- `network`: `FaultTicks = 8` lets a chain that starts at target 6 lose any of its first calls. From then on the network serves every tick and takes
  every call. A chain is rebuilt within 20 ticks when no crash happened and within 24 with one: the old commit is evicted in its stream's next tick,
  three status answers must confirm it, and enrolment takes two periods; `LastTick` is one past that. Statuses may be two ticks old; at three
  `HealthyChainKept` fails, since the answer then does not know a commit that the engine has reason to expect.
- `answers`: bodies of up to 9 units at a limit of 5, cut anywhere; a Bob deadline of 2 polls and a cut at 4, where Bob needs 0, 1 or 5, and a clock of 8, which is a query, a restart and
  another query; two checked
  ticks with up to two digests; two streams by tiers 0 and 9, so that the extreme slots exist, with up to four entries; four responses
  with four reported ticks at five request ticks in any order, so that three in a row may have a late or repeated answer between them.
- `process`: three forms of an endpoint's root with every operation path and slashes; four signals; days of two units with the
  stop window one unit long, cycles at most two units apart (three epochs); polls of 2 units and ticks from half a poll to six of them.
  Cycles more than the stop lead plus one apart could miss the window, which the code's configuration makes impossible unless the
  node is unreachable for that long.

Deadlock is checked everywhere but in `answers`: a run that returned stutters explicitly (`Finished`, `SystemDone`, `Ended`).
`answers` turns it off, because a request ends, the sequence of responses is bounded and the watch ends when the chain is frozen.

What the properties say is written above each of them; in short:

- `ChainLinks`, `SignedOnce`, `NoCallForgotten`: the preimage chain and the calls
  that carry it, over starts, extensions, replacements and drains.
- `LossHasOwnCause`, `OneFailurePerChain`: a running chain ends only for a target of
  its own, and one collateral is counted as lost at most once, also when it shows as several
  missed calls (passed by one tick or one after the other), a confirmed absence and a failed terminal.
- `TaskDiscipline`, `NoTaskPastTarget`, `DisclosureGate`: no task is detached, outlives its
  target or discloses a preimage early. The last conjunct of `TaskDiscipline` also shows that
  the branch of `dispatch_calls` that gives up a shutdown terminal in `Retry` is never taken: `harvest_broadcasts`
  fails such a call before.
- `DrainIsFinal`, `CleanExitPaysAll`, `ShutdownEnds`: drains. `shutdown` has drains for a stop request; that an epoch drain is final too is
  the theorem `DrainsAreFinal`, since both together are too many states for a run.
- `NothingCrossesEpochs`: an epoch change leaves no query and no call. `ImplementsLedger`: the refinement.
- `CountersAddUp`, `WorstOutcome`: the counters are the outcomes, and an outcome is the worst ever reported.
- `VerifiedOnce`, `NoneUnwatched`: the life of a check, over expiry, retries, a tick that goes back and resets.
- `AcceptedRevealsCounted`, `OneFailureCounted`: what the engine makes of the counters. The second one charges a chain with the targets after
  its first, up to and including the first target of the next chain: the target that was never planned in time belongs to the old chain,
  and the replacement may start on it.
- `FundsConserved`, `SurvivorsKeepTheirEntry`, `SoldEntropyIsHonest`: the contract by itself. The last one is about the walk of `END_TICK`,
  which sets flags by place, deletes by moving the last entry, and may meet the no-show of a tier after it mixed the others.
- `BurnHasCause`, `CleanExitLeavesNothing`, `HealthyChainKept`, `FirstCommitFindsSlotFree`, `RecoversInTime`: provider and contract together, where
  what the engine believes is compared with what the contract holds.
- `DataIsFresh`, `TimeoutsBlameTheRightOne`, `ConclusionsAreTrue`, `StatusIsReadOrRefused`, `LimitIsExact`, `FrozenExactlyOnEvidence`: answers. The last one reads the
  history of responses, not the counters the code keeps: a chain is frozen on nothing less than three consistent, strictly later responses against
  it; and three in a row that say the same, be it absence, another writer's target or a lag, do freeze it, whatever late or repeated answers come between them.
  `TimeoutsBlameTheRightOne`: the adapter times out only after its deadline and only if Bob was still computing when the last call began (the call may have hung since);
  the engine cuts only a call that has hung from the deadline on.
- `WarmupNotCutShort`, `PlanningStopsAtBoundaries`, `HangsLeaveTime`: clocks. `SeedIsKept`, `EveryFormReachesTheApi`, `SignalEndsTheRun`: the process.

`NoTaskPastTarget` has a premise: where a stream has no tick of its own left below `u32::MAX`, for a first target six to nine ticks ahead
or for a terminal three ticks after its chain, a planning error ends the cycle before anything expires, for as long as the error lasts.
That edge is out of any network's reach and the property leaves it out; `TypeOK` and `ImplementsLedger` are checked there.

`PROJECT.json` lists, for every property, a mutation of a definition that TLC catches with it. The mutated
forms stand next to the definitions they change, each with a comment that calls it a seeded bug; no
specification uses them.

## Fairness

Two liveness properties are checked. `ShutdownEnds`, under `FairSpec`:

- *The loop keeps moving* (`LoopKeepsMoving`): `pc` changes again and again until `run` returns. Every loop step changes
  `pc` and one is always possible before the exit. The code justifies it: the poll interval fires, `tick_info` is under
  a time-out (`backend_call`), and everything else within a cycle does not wait, since tasks are joined only when
  finished. Nothing is assumed of results: all tick queries may fail, forever.
- *The observer ends* once it cancelled the token (`WF` of `ObserverEnds`): between the cancellation and
  the end of the task there is no await.
- *The deadline passes* (`WF` of `DeadlinePasses`): time advances.

The conclusion rests on the deadline. It is armed when the loop takes the request, counts from
the request, and is tested at the loop head after every cycle, failed ones included. With the
test removed the property fails.

`SignalEndsTheRun`, under `StartFairness`: the observer's task registers its handlers one after the other, ends once a registered
signal arrived, and `run` returns after its observer is done (which is `ShutdownEnds`). No fairness makes a signal arrive. A signal without a handler yet
has its default effect, which ends the process too.

`RecoversInTime` is a bound rather than a liveness property, so it needs no fairness: the prompt network's obligations are guards
on the network's clock.

## What is proved

The theorems hold for every `MaxTick`, every set of streams, every set of tick reports and status reports, all jumps and regressions, and
every resume delay. The assumptions are on the constants only: `MaxTickAssumption`, `StreamsAssumption` (streams are among 0..2),
`TickInfosAssumption`, `StatusTicksAssumption` (ticks are u32), `EnvironmentAssumption`, `BoundsAssumption`, for the monitor
`MonitorAssumption` (delay and window are u32), `MonitorWatchAssumption` and `AnswerAssumption`, for what is made of answers `BodyAssumption` and
`AnswersAssumption` (the deadline is below the cut, foreign transactions are finitely many, a provider's slots fit into one status, ticks are u32, the
watched chain's targets are three ticks apart); the number of queries, restarts, checked ticks and responses is arbitrary there. The contract needs
`ContractAssumption` and `BoundAssumption` (finitely many providers, some capacity, the ten tiers); population, values and ticks are arbitrary.
The process needs `RootsAssumption` (a root's last piece is not named like an operation path, see the remarks) and `ProcessAssumption`, of which these parts are
more than types:

- the shortest attempt is no longer than a poll: `MIN_BROADCAST_ATTEMPT` and `POLL_INTERVAL` are both 100 ms;
- a cycle gets tick metadata at least once in each stop window (`Gap <= StopLead + 1`), and the network does not change its epoch, nor do peers report
  the old one, so late that the next stop window is open: without the first a window passes unseen, without the second a warmup starts in it;
- the resume delay is at least one tick: the code allows 0, with the effect described in the remarks;
- the model's clock ends early enough for its ticks to stay below `u32::MAX`.

| Module | Theorem | States |
| --- | --- | --- |
| `ProviderEngineProofs` | `Invariant` | `Spec => []IInv`, the first inductive invariant |
| | `TypeCorrect` | `[]TypeOK`: no tick leaves u32, whatever a backend reports |
| | `ChainsLink` | `[]ChainLinks`: every reveal matches the commitment three ticks before |
| | `SlotsKeepShape` | `[]SlotShape`: slot state, chain, watermark and terminal reveal fit together |
| | `EpochsSeparate` | `[]NothingCrossesEpochs` |
| | `TargetsSignedOnce` | `SignedOnce`, an action property |
| | `LoopEndsAfterTwoRounds` | the unrolled planning loop is the loop of the code |
| `DeliveryProofs` | `DeliveryInvariant` | `Spec => []DInv`, the second inductive invariant |
| | `TasksDisciplined` | `[]TaskDiscipline`: no task is detached or overwritten, a shutdown terminal is never retried |
| | `TasksEndByTarget` | `[]NoTaskPastTarget` |
| | `CallsAreKept` | `NoCallForgotten`, an action property |
| | `DisclosureGated` | `DisclosureGate`, an action property: no preimage leaves early, whatever ticks are skipped, repeated or go back |
| | `LossesAreOwn` | `LossHasOwnCause`, an action property |
| | `FailuresAreSingle` | `OneFailurePerChain`, an action property |
| | `DrainsAreFinal` | `DrainIsFinal`, an action property |
| | `EngineImplementsLedger` | `ImplementsLedger`: the refinement of `StreamLedger` |
| | `CleanExitsPay` | `LedgerSpec => []CleanExitPaysAll` |
| `MonitorProofs` | `ChecksAlwaysPartition` | `[]ChecksPartition`: a queued target is waiting, ready or running, exactly one of them |
| | `VerifiedAtMostOnce` | `[]VerifiedOnce`: no target is checked again after its answer, for any ticks |
| | `NoneEscapes` | `[]NoneUnwatched`: every counted target is queued, verified or out of the window |
| | `WorstAlwaysCounted` | `[]WorstOutcome` |
| | `CountersAlwaysAddUp` | `[]CountersAddUp` |
| `MonitoredProofs` | `MonitoredInvariant` | `MonitoredSpec => []MInv`, the inductive invariant of engine and counters together |
| | `AcceptedRevealsAreCounted` | `[]AcceptedRevealsCounted` |
| | `FailuresAreCountedOnce` | `[]OneFailureCounted` |
| `AnswersProofs` | `AnswersInvariant` | `AnswersSpec => []AnswersInv`, five inductive invariants side by side |
| | `LimitAlwaysExact` | `[]LimitIsExact`, for every limit and every way to cut a body |
| | `DataAlwaysFresh` | `[]DataIsFresh`: no answer of an earlier query or process is taken |
| | `TimeoutsAlwaysBlame` | `[]TimeoutsBlameTheRightOne` |
| | `ConclusionsAlwaysTrue` | `[]ConclusionsAreTrue`, for each adapter |
| | `StatusAlwaysReadOrRefused` | `[]StatusIsReadOrRefused`, for any slots and any order of them |
| | `FreezesExactlyOnEvidence` | `[]FrozenExactlyOnEvidence`, for any sequence of responses |
| `ContractProofs` | `FundsAlwaysConserved` | `[]FundsConserved`, for any population and any number of ticks |
| | `EveryTickKeepsSurvivors` | `SurvivorsKeepTheirEntry`, an action property |
| | `EntropyIsSoldHonestly` | `[]SoldEntropyIsHonest` |
| `ProcessProofs` | `SeedAlwaysKept` | `[]SeedIsKept` |
| | `HangsAlwaysLeaveTime` | `[]HangsLeaveTime`, for every poll and tick length |
| | `CalendarInvariant` | `ProcessSpec => []CalendarInv`, the inductive invariant of network, adapter and phase |
| | `PlanningAlwaysStops` | `[]PlanningStopsAtBoundaries`, for every length of day, stop lead and delay |
| | `WarmupNeverCutShort` | `WarmupNotCutShort`, an action property, through each adapter |
| | `EveryFormAlwaysReachesTheApi` | `[]EveryFormReachesTheApi`, for every root |

**What is signed.** `ChainLinks` is not inductive: that a new call is above all signed ones has to be known when a
chain is lost (through `restart_not_before`), when it is frozen and replaced (through the frozen tail), and when it drains. So the
invariant `SlotOK(slot, s, G)` relates a slot to the set `G` of targets its stream has signed: in each state it says what bounds `G` from
above (the tail of the chain, the terminal target, or `restart_not_before` while there is no chain) and how chain, calls, watermark
and state are related. `IInv` is `TypeOK`, `SlotOK` of every slot with `signed[s]`, and three small facts about the exit, the tick metadata and
the query. The first half of `ProviderEngineProofs` shows of every handler that it takes an in-order slot to an in-order slot: handlers that
sign nothing preserve `SlotOK` for the same `G` (`ApplyStatusOK`, `SendSlotOK`), planning handlers for `G` with the new targets, which are above
all of `G` (`PlanSlotOK`, `EnterDrainOK`). The second half lifts this to the actions and draws the theorems as consequences.

**How it is delivered.** `DInv` adds three facts about a slot (`DeliveryOK`): a call has a task exactly while its state says so (`TaskOK`);
once the terminal was attempted all its prerequisites are accepted (`TerminalLast`, without which a failed terminal and a later missed
prerequisite could both be charged); and a slot waits for a tick of its own stream (`RestartAligned`, without which a new chain could be
charged for a tick it skipped). `NoTaskPastTarget` is a conjunct too, since the steps that keep the slots need it of the state before.
Each handler has a lemma that says what it does to one slot: which calls it keeps (`KeepsQueue`, `KeepsUntil`), which tasks it starts
and inside which window (`NoNewTask`, `InWindow`), which failures it reports (`FailsOnce`, of one target at most: `OneTarget`, which for several calls that expire at once is `ExpiryCountsOne`), and what a lost chain was lost for (`LossCause`). The
lemmas compose along the order of a cycle (`CycleServes`), and `StreamStep` collects what any step may do to a stream. The five action
properties follow from `DInv` and `StreamStep` of one step.

**The refinement.** The mapping takes the highest signed target as the ledger's `last`. `EndsOK` says that there is one, and that while a
chain runs or is frozen the chain's tail has been signed, so that with `SlotOK`, which bounds the signed targets by that tail, it is the highest. With `DInv` this is
inductive; each step of the engine moves every ledger at most once, a reset starts them over, and everything else stutters.

**Clean exits.** `CleanExitPaysAll` speaks of the exit only; what is needed before it is that an owed terminal is still being drained or has
failed (`Accounted` in `OwedOK`), and that a drain leaves its state only as accepted or failed (`DrainEnds`).

**The monitor.** `VerifiedOnce` alone is not inductive: the code forgets a checked target when it leaves the window, and
only the watermark, which never falls, keeps it out afterwards. `InOrder(m, V)` says so (`Covers`: a verified target is still among the
checked ones or below the watermark), together with `ChecksAgree` and `Watched`. One lemma per operator shows that it is kept;
`WorstOfMarks` and `TailOutcomes` relate the outcomes to the reports. That `StartNewest` chooses anything rests
on `TicksHaveMaximum`, the only place where an argument by well-founded order is needed. `CountersAddUp` rests on `RecountAddsUp`: no target
leaves a counter it was not in, so the saturating subtraction of the code never saturates.

**Engine and counters.** For `AcceptedRevealsCounted` the digest has to be there before the acceptance: `RevealsKept` says of a reveal
that is *running* that its digest is kept, its tick was checked, or it left the window (`Remembers`), and of an accepted one that it has
an outcome. For `OneFailureCounted` the counters have to be compared with the slot: `Bounded` says that the chain being served started
last, that while it has not been charged no failure of its stream stands later than its first target, and that a slot waiting for
the next chain waits at or past every start and every failure. Every handler is shown to report what it does (`Tracks`), to charge one
target after the chain's first and not beyond the tick at which a replacement may start (`Charges`), and to let the chain go on or begin
one at that tick or later (`MovesOn`, `Begun`); `StepReports` collects this for all steps.

**Answers.** `BodyInv` needs one fact more than the limit's three parts: what was sent is in the buffer or on offer until a chunk is refused.
`BobInv` says why a nonce is new: those a process has yet to use are ahead of every job, and the jobs of its predecessors are behind the clock from
which it counts (`NoncesAreNew`); with it the running query's job was asked for when the query began (`QueryHasItsJob`), which is all that freshness and
blame need: an answer formed after the last call began and still "pending" was formed before the job was computed. In `SessionInv` the properties carry each other, because conclusions come from evidence only; the work is in the
adapters: a list that an adapter takes has our transaction exactly when the tick has it (`RightAbout`), a damaged one is refused or hides nothing
(`DamageIsHarmless`), and no refusal looks like an acceptance (`RefusalsAreSeen`). `CodecInv` relates the decoded prefix to the answer
(`DecodedSoFar`): as different bits are different keys, a complete prefix has every slot once. `WatchInv` is about `Justified`: a suspicion of one or two
confirmations rests on as many responses of the history that say the same, were requested later and later, and had no progress after the
first (`Grounded`), so that a third freezes rightly; and what tells against the chain, with nothing newer since, is in the suspicion, and two such that agree are counted as two (`Counts`). That
holds because news was requested after whatever the suspicion was last moved by (`NewsIsLater`), so that it is never taken for old (`LaterAnswersAddUp`), while old answers
change nothing (`OldNewsKeeps`).

**The contract.** The walk of `END_TICK` is a function on the places still to be visited; the proof follows it backwards, visit by visit: the places not
yet visited are as they were, those behind are what stays of the old ones, and swapping the last entry into the freed place only moves what was
visited already (so `EveryTickKeepsSurvivors` holds for populations of any size). Money is a sum over a population, and the library's sums are folds over sets
in an arbitrary order; lemmas of `ContractProofs` say what a sum does when one entry changes, goes or comes, by induction over sizes. The library's induction rules take a predicate,
which the provers cannot instantiate; `AllNumbers` states the rule for a set of numbers instead, and follows from their being well-founded. `Conserved` (what each provider got back never exceeds what it paid less its lock; what all miss is locked or burned) is kept by every call and
every visit. `WordIsEarned` is what makes sold entropy honest: a contribution flag stands only at an entry whose provider revealed in the last tick, and a
tier with a no-show has no entropy at all.

**The process.** `SeedInv` says of each place the seed can be in which parts of the start may find it live there. `AttemptInv` has to know that a call with room
for two polls had its first attempt end a poll before the target; that is arithmetic of the time-out, which gives the rest less one poll.
`CalendarInv` is three parts. `NetworkInv`: each epoch began within `Switch` of its boundary, its tick is no faster than the clock. `FallbackInv`: what the
adapter remembers as initial tick is no earlier than the epoch's first one. `PhaseInv`: a planning client was outside of a stop window in its last cycle,
so that the next boundary is further away than the longest gap between cycles, and a drain began in the window before its own epoch's end. The
arithmetic of weeks behind it (`UntilIsToBoundary`, `NextBoundary`, `EpochEdges`) says that the clock's time of week leads to exactly one boundary, and
which. `Sound` is what an answer of any adapter may say: the epoch of the network, or the one before while peers may lag, and an initial tick that is
not before the true one. For the endpoints, `Normalizes` takes each form apart piece by piece: trimmed, it is the root with the path; the first
path in the code's order that it ends with is that path and no shorter one.

**What the proofs corrected.** Three properties held in every run and not in general. `NoTaskPastTarget` left out the last six
ticks only; the first target may lie nine ahead, and a terminal reveal without a tick left has the same effect. `CleanExitPaysAll` spoke of every terminal scheduled since
the start; one that a reset drops in an epoch change stays unpaid, and the exit is still clean (the same reset is behind the
disagreement below). `OneFailureCounted` charged failures up to, but not including, the start of the next chain; with a tick report that
runs far back the replacement starts on the very target whose loss ended the chain. All three now say what the code does.

**Model-checked only.** The liveness properties `ShutdownEnds` and `SignalEndsTheRun`: fairness and enabledness are out of TLAPS's reach. The five properties of
`ProviderSystem` (`BurnHasCause`, `CleanExitLeavesNothing`, `HealthyChainKept`, `FirstCommitFindsSlotFree`, `RecoversInTime`): their inductive invariant would have to relate
each call in flight to what the contract and the statuses of the last ticks hold, and no theorem is stated yet.
`HealthyChainKept` is false for statuses three ticks old, so a theorem needs the bound of two as an assumption.
`SlotShape` and `ChecksPartition` are theorems and need no run.

## Disagreements between the code and its documentation

`docs/ARCHITECTURE.md:420` says that a failed prerequisite or terminal attempt makes shutdown fail. In run `epoch_during_shutdown` two streams drain for a
shutdown and one drain fails. While the other still waits, a tick report carries a new epoch number: `update_epoch_phase` calls
`reset_slots`, which also resets the failed slot. `enter_drain` then finds nothing to drain anywhere, `shutdown_failed` sees no failure,
and `run` logs that all final reveal chains were submitted and returns `Ok`. With an unchanged epoch the documented behaviour
holds: that is `CleanExitPaysAll` in run `shutdown`, and the theorem `CleanExitsPay`, which speaks of the terminals scheduled in the epoch
in which the run ends.

`docs/ARCHITECTURE.md:373` says that the light node's adapter takes the first tick observed in an epoch as that epoch's initial tick when the
node names none. The adapter remembers one epoch. When a peer that is still in the old epoch answers in between, the next answer of the new one
counts as another change and its tick replaces the earlier: run `epoch_alternation`. Each alternation lengthens the warmup; none shortens
it, which is `WarmupNotCutShort` in run `process`.

## Remarks

Observed while modelling, and neither a contradiction of the documents nor stated as a property:

- The stop window includes its boundary. With a resume delay of 0 and an epoch that changes at exactly 12:00:00, a cycle in that
  second would drain the new epoch for its whole length; any delay of a tick or more, as the default has, excludes it.
- A client that starts between the boundary and the network's epoch change plans in the dying epoch: the window it could have
  seen has passed. What it signed then is dropped by the reset.
- An endpoint whose host or last own piece is named like an operation path (`http://qubic`) would be shortened; the model leaves such roots out.

## What is not modelled

- *Backends within the engine's modules*: present as the outcomes the engine can see. A tick report is any member of `TickInfos`, a status response any
  function from streams to reported ticks, a broadcast accepted or failed at any time; this includes what the modules of the backends produce. RPC's and
  the light node's contract queries are one request whose decoding (base64, protobuf) has no state.
- *Contents*: bytes of transactions, hashes and entropy, encodings, messages, console output. `build_transaction` appears as the condition
  under which it fails. `collateral` is constant and checked before the engine starts. The words of a status are compared by value, not
  by their byte offsets.
- *Configuration*: the parsing of numbers by the argument library, and the redaction of endpoints in messages.
- *The contract*: prices, the copying of bits, contracts as callers, and calls whose amount is no tier (the client sends none).
- *Entropy, terminal, vendored `rtoolbox`*: I/O and presentation without state the engine depends on.
- *Durations within the engine*: the length of broadcast attempts and of the poll interval are in `SendAttempts` only; in the engine a task may
  end or stay pending at any harvest.
- *Composition of all*: `ProviderSystem` has one stream of one provider and leaves out the monitor and the adapters. Streams share nothing in the contract,
  and the monitor does not influence the engine.

## Plan

Done, in this order: the slots and the engine with their inductive invariant; the monitor; the shutdown ledger; the contract and its composition with the
engine over a faulty network; the abstract ledger and its refinement; the backends, the codec, the HTTP body; start-up, calendar and attempts. Proved since: the
delivery of calls, the refinement, clean exits, the counters, the counters driven by the engine, what is made of answers, the contract's books, and the
process with its clocks. Left:

1. The inductive invariant of `ProviderSystem` over an honest network, from which `HealthyChainKept`, `BurnHasCause` and `CleanExitLeavesNothing` follow.
2. Two streams in `ProviderSystem`, with the monitor attached.
