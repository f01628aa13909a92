# A TLA+ model of cheapskate

cheapskate runs language-model requests on a local machine where it can and in the
cloud where it must. This directory holds TLA+ specifications of the parts whose
correctness depends on interleavings, failures and order, the TLC configurations
that check them on small instances, and TLAPS proofs of the safety properties: that
the machine keeps within its memory, that private prompts stay on it, and that the
bookkeeping survives what goes wrong. `PROJECT.json` lists components, runs,
mutants, the lines of code each definition stands for, the hazards and the theorems.
Paths below are relative to `src/src/cheapskate/`.

## 1. Inventory of the system

| Component | State it keeps | Operations | Hard behaviour |
|---|---|---|---|
| Serial gate, `broker/gates.py` `PriorityGate` | heap of (class, arrival) tokens, busy flag, an asyncio condition | acquire, release | cancellation while queued or just notified; lost wakeups; overtaking |
| Model-aware gate, `ModelAwareGate` | waiting and active tickets, ledger of resident models with time stamps, one timer | acquire_ticket, release, the timer's wake | admission and activation are two steps; hysteresis; ghosts |
| API keys, `broker/gates.py` | a JSON file | genkey, class_for_key | none |
| Broker request, `broker/app.py` `_proxy_generation` | per request: flags of the handler, worker threads, body generator | one HTTP request | cancellation at each await; threads that outlive handlers; two owners of one release; stale privacy check |
| Capacity, `broker/capacity.py`, `backends/ollama.py` | none of its own; asks the runtimes | capacity_decision, enforce_capacity | measured, then used; probes that fail; unloads that do nothing |
| MLX lifecycle, `backends/mlx.py` | lock file, state file, a server process | ensure_mlx, stop_mlx | races of processes, crashes inside the lock, foreign servers, load timeouts, errors that are swallowed |
| Preflight, `backends/preflight.py` | the disk and the memory of the machine | ensure_role, evict_coresidents, auto-pull, release | partial failure of evictions; two pulls at once; an unlocked release |
| Resolution, `backends/resolve.py`, `config.py` | none | resolve, role_candidates | done three times for one prompt, from tables that change |
| Self-healing engine, `self_healing.py` | compatibility store (file), attempts, failures | run, block, is_blocked | adapters that raise after their effect; deadlines; rollback of a failed promotion |
| Registry and currency, `registry/` | registry file: incumbent, rollbacks, snapshots, quarantine per role | set_incumbent, rollback, quarantine, promote, prune | long sequences of calls; unlocked load-change-save |
| Router, `router/dial.py`, `router/routes.py` | the dial's file | parse_dial, route_decision | privacy against the dial |
| Task runner, `router/task.py` | events in the telemetry, entries of the compatibility store | run, _run_local, _run_cloud | attempts, verification, escalation, callbacks that raise |
| Cloud providers, `cloud/adapters.py` | none | dispatch_role | a prompt is sent before the call fails |
| Governor, `econ/governor.py` | per user and month: thresholds already reported | govern_user | load, emit, save is not atomic; the spend is read from a file that rotates |
| Telemetry and reports, `telemetry.py`, `econ/` | event log | log_event, collect_stats, compute_receipts | counts that must add up across failed attempts |
| Client, `client.py` | none | complete, generate_json | candidates, retries, proofs of locality that grow stale |
| Evaluation, command line, doctor, MCP server | fixtures | | sequential, mostly I/O |

How they interact: a client posts to the broker; `_proxy_generation` resolves
the model, takes the gate, checks capacity and prepares the backend on worker
threads (`prepare_backend` -> `ensure_role` -> `ensure_mlx`), forwards the
request, and gives the gate back. The self-healing engine calls the client
and, through adapters, the registry. The task runner chooses a route, calls
the client or a provider, and writes the events the governor and the reports
read.

What makes each of them correct:

* gates: one generation at a time (serial) or a planned footprint within the
  budget (model-aware), service by class and arrival, nobody forgotten,
  nothing left behind by a cancellation;
* broker: whoever gets the gate gives it back, exactly once, on every path;
* MLX lifecycle: never two servers of ours, and what is handed out is on record,
  as far as the probes, kills and writes it relies on succeed; every call returns;
* self-healing: a failed challenger does not stay incumbent; work is bounded; runs
  lose nothing of each other's store entries;
* registry: the incumbent and its rollback are never pruned and stay
  restorable; a quarantined model is not promoted again;
* router and tasks: a class is never broken, at any dial, by any retry; the
  output and the receipts of a run are those of the attempts it made;
* governor: the cap holds supervised tasks back; a crossing is on record only
  if it was reported;
* capacity and preflight: nothing oversized is loaded, an undisturbed load
  fits, a pull leaves the disk its headroom;
* client: a private prompt stays on the machine; an answer belongs to the model
  that was asked.

## 2. Plan

Done in this order, each with its runs before the next one:

1. `AdmissionQueue`, `PriorityGate`, `PriorityGate_proofs`
2. `ModelAwareGate`, `MCModelAwareGate`, `ModelAwareGate_proofs`
3. `BrokerRequest`, which composes a request's life with `PriorityGate`; its
   theorems are the last part of `PriorityGate_proofs`
4. `MlxLifecycle`, `MlxLifecycle_proofs`
5. `Registry`, `Registry_proofs`
6. `SelfHealing`, `MCSelfHealing`; its theorems are the second part of
   `Client_proofs`
7. `Router` and `TaskRun`, `TaskRun_proofs`: the decisions as operators; runs of
   supervised tasks, the governor, the telemetry and the receipts
8. `Client`, `Client_proofs`: resolution and one call through the broker
9. `Provision`, `Provision_proofs`: capacity, eviction and pulls
10. `FoldLemmas`, what the proofs need to know of sums and of the list
    operators in `Lists`

Every safety property that a passing run checks is stated by a theorem. Left to
model: the model-aware gate inside a request's life (`BrokerRequest` composes
the serial one), two jobs that load, change and save the registry, and the
telemetry failing to write. Theorems still worth proving: the safety core of
`GateIsFreed` (a running task is inside the handler, owed a release, or handed
off), and that what the registry does to a role is what `SelfHealing` takes
promote and rollback to do.

## 3. The modules

`Lists` has the two things the code does to its lists again and again and the
community modules have no operator for: dropping elements (`Without`) and
keeping the first of equal ones (`Once`).

### AdmissionQueue, PriorityGate (broker/gates.py, lines 109-154)

One event loop runs all tasks, so a step is the code between two awaits, and
the only await in the gate that can suspend is the wait on the condition. The
condition's lock is held only inside a step. A task is `idle`, `asleep` on the
condition, `awake` (notified, not resumed yet), `running` (past `acquire`) or
`gone`. Actions: `AcquireAtOnce` and `AcquireWaits` are the two ways through
the first part of `acquire`; `WakeAndRun` and `WakeAndWait` the two outcomes of
the loop's test after a wakeup; `Cancel` its except clause; `Release`.
The arrival counter grows with the number of tasks, each calling once.

`AdmissionQueue` says what the gate promises without a heap, a flag or a
condition. `PriorityGate` implements it with waiting = the queued tasks,
running = the running ones, ticket = the tokens.

### ModelAwareGate (lines 157-345)

The state is one record of the gate's lists. A ticket that `_schedule` admits
is `awake` and in `admitted`; it becomes `active` with the step of its own
task, as in the code, where `_active.append` comes after the wait. `Pick` is
`_pick`, `Turn` one turn of the loop of `_schedule`, `Schedule` all of them.
Time is abstracted: `resident` is kept in the order of the time stamps, and
`young` holds the big models whose residency is not over; `Expire` ends the
oldest one's, at any time. The timer may fire at any time after it was armed,
a superset of what the clock allows. The clock is read twice, for the decision
(line 285) and for the timer (line 326): `ArmTimer` lets the residencies end in
between, and `timer` is then `slipped`. A model's size is a constant of the model
(in the code it comes with each ticket, from the same configuration).

### BrokerRequest (broker/app.py, lines 369-388 and 469-627)

The handler on top of the gate: the module extends `PriorityGate`, whose state is
part of a request's. `Arrive`, `Resume` and `CancelQueued` take the gate's actions,
`Enter` follows without an await. `thread` is the worker thread of
`asyncio.to_thread`, which a cancellation does not stop. `ReleaseOnce` is `_release`
up to its await, and `ReleaseRuns` the shielded `gate.release()`, which does not ask
who holds the gate: that it always finds its own request holding it is a property
(`UsesGateRight`), not a guard. A streamed answer has two owners, the generator
(`GeneratorEnds`) and the response (`ResponseEnds`); the generator may never start.
`BackendNotLocal` is the refusal of a never_cloud request whose backend turns out to
be remote; what that refusal is worth while registry and configurations change is
`Client`'s question.

### MlxLifecycle (backends/mlx.py, preflight.release)

A call of `ensure_mlx` by any process is at one of the places between two
effects on shared state: the check for foreign servers, the eviction, the
decision, the two halves of `stop_mlx`, the launch, the readiness poll. A
server is named by the call that launched it. Servers load, exit by
themselves and are killed; a caller may be killed at any place, which drops
its lock and leaves its server. The readiness probe asks a port and an exited
child is a pid until it is reaped: `Answers` says yes when any server that may
hold the port is up.

What the code swallows may fail: `pgrep` (`ProbeFails`), the reads and writes of
the state file (`ReadFails`, `WriteFails`, the second half of `Stop`), the kill,
which may also leave a process that is still going (`KillRecorded`). `missed`
records which live server a call so failed to see, to stop or to put on record.
It guards nothing; `AtMostOneServer` and `ServedIsRecorded` use it to except the
very server that was missed, and nothing more: a lost record, for instance,
excuses no second server beside the one it was of.

### Registry (registry/registry.py, registry/currency.py)

A role's entry is a record: `config`, what a snapshot holds (every key but the
rollback ones), the names in `rollback` and their snapshots, `snaps`. `spec`
stands for the keys that describe how to serve the incumbent, which a promotion
replaces; `fallback` for those it keeps unless told otherwise. `Retain` is what
`set_incumbent` and `rollback` have in common: the incumbent that gives way
becomes the newest rollback, names and snapshots are trimmed. `Promote`,
`Rollback`, `Quarantine` are the calls, `PruneCandidates` is what the currency
engine would delete. Nothing in the repository promotes, prunes or saves by
itself: `Install` and `Prune` are the operator's jobs. `Promote` assumes that
what it names is on the disk, as the evaluation before it requires, and `Prune`
that a candidate is deleted before the registry changes again. `known` records
what was ever quarantined.

### SelfHealing (self_healing.py)

A run of the engine is a record: where it is, the candidates still to try, the
repairs left, whether the current one is a promoted challenger on trial, what
was installed (`tried`), and the incumbent it found (`before`). `Unfit` are
the models `_eligible` leaves out, `Skip` those the loop over discovery passes
over. `Invoke`, `Output`, `Satisfy`, `Repair`, `GiveUp` are `_try_candidates`;
`Discover` to `Rollback` the rest of `run`, one place per adapter, so that the deadline may
pass before, during and after each call. `blocked` is the compatibility store. A
call that writes takes the file lock and reads (`ReadLocked`), then changes what it
read, saves and unlocks (`SaveSuccess`, `SaveFailure`, `SaveRejection`): two steps,
with the copy in between in the run's `data`. A file that cannot be read counts as
empty (`Take`), in a lookup as well. The lookups of one list of candidates are one
step, and an expired entry reads as an absent one. `StoreRaises` is a store that
fails where nothing catches it; where `mark_compatible` fails the code takes
the attempt for a failed one (`Repair`, `GiveUp`). The adapters are the
caller's, and nothing in the repository passes any; `fleet` is what
`registry.set_incumbent` and `registry.rollback`, which
`docs/specs/self-healing-lifecycle-hardening.md` names for them, do to the role:
a promotion of the incumbent changes nothing, and a rollback exchanges it for
the newest rollback, whoever put that there.

### Router, TaskRun (router/, econ/governor.py, econ/report.py, telemetry.py)

`Router` holds the functions: `ParseDial`, `Classify`, `LocalGate`, `Decide`
(`route_decision`), and the governor's `Threshold` and `Tighten`. A task type is
a record of what the configuration says of it (its lists, route, base, tier and
floor), a dial a level and a sub-dial.

`TaskRun` runs tasks concurrently, each in a process or thread of its own.
`Start` reads the dial and decides; `Govern` measures the spend and reports a
crossing, `Truncate` and `Save` write the governor's file (opening it for
writing empties it first), `GovernorRaises` is the run that goes on without;
`DispatchRaises`, `DispatchAnswers`, `CloudVerifyRaises` are one attempt in the
cloud; `StartLocal`, `CompleteRaises`, `CompleteAnswers`, `LocalVerifyRaises`,
`Settle`, `StoreRaises` the loop over candidates and attempts. A request to the
broker that names a task type takes the same route decision and then the cloud
dispatch or `Proxy`. An attempt is one step, because all it changes for the
others is the event it appends. `Log` is `log_event`, which may move the file
away first. `Serving` is what `dispatch_role` sends the prompt to; the provider
behind it is external. Spend is counted in cloud calls.

### Client (client.py, backends/resolve.py)

One call of `complete` or `generate_json`. `Roles` is the merge of configuration,
registry and defaults, `ResolveModel`, `ResolveRole` and `RoleCandidates` what
`resolve.py` makes of it, for the client or for the broker, whose configurations
may differ. `Prove` and `Guard` are the client's proofs that a private prompt has
a local route, `Post` the hop to the broker (which resolves once more), `Serve`
the preparation of the backend and its answer. `Replaced` is any other process
that saves a registry, between any two of these steps.

### Provision (capacity, ollama, preflight, currency.candidate_fits)

A load is at one of the places between two effects on the machine: the decision,
the unload of LM Studio, the probe for the model, the pull, the daemon's load; or
the MLX lock, the measurements and evictions of `evict_coresidents`, the launch.
Every probe may fail, which the code reads as "nothing loaded"; every unload may
do nothing. The Ollama daemon, which is external, keeps any of its other models
when it loads one (`Serve`): it does not know the budget. `alone` records which
loads nobody disturbed, for `LoadFits`; `overlapped`, that a pull was measured
during another, for `HeadroomKept`.

## 4. The runs

| Run | Instance | Shows |
|---|---|---|
| `PriorityGate` | 4 tasks, 2 classes | type, exact heap, no lost wakeup, progress, refinement of `AdmissionQueue` (which has mutual exclusion and the order of service) |
| `ModelAwareGate` | 3 tickets; models of 1, 2, 3 (big) and 5 (big, MLX) in a budget of 4 | ledger within budget, no forgotten or ghost ticket, swaps only when idle and by the hysteresis rules, progress |
| `BrokerRequest` | 3 requests of one class, 2 of them never_cloud | proper use and return of the gate, one live request at work |
| `MlxLifecycle` | 3 calls, 1 model, 1 foreign server; probes, kills, reads and writes fail | one server, record of what is handed out, every call returns |
| `Registry` | 2 roles, 3 models, 2 ways to serve one, 1 fallback | the rollback on offer is real, every swap can be undone in every key, what is needed is never pruned |
| `SelfHealing` | 2 runs of one job, one with adapters and a deadline; incumbent, fallback, a challenger offered twice; 1 repair | a failed challenger is undone or reported, calls are bounded, no block is lost to another run's save, every run ends |
| `TaskRun` | 2 runs by either way in, one user near the cap of 5; 4 task types, 3 dials, 2 provider set-ups, 2 candidates, 1 retry | classes are kept, outputs and receipts are right, the cap holds for supervised runs, reports are recorded after they are made |
| `Client` | 2 roles, 3 models, 3 registries, different configurations of client and broker, 1 retry | privacy, quarantine, identity of the answering model, no candidate skipped |
| `Provision` | 2 loads; Ollama models of 1, 3, 6 and one of unknown size, an MLX model of 4; a budget of 5; a disk of 3 or 6 with a headroom of 2 | type and lock, disk headroom, nothing oversized, an undisturbed load fits |
| `MlxRelease` (violated) | 2 calls, 1 release | a release outside the lock breaks `AtMostOneServer` |
| `QuarantineLasts` (violated) | 1 role | a rollback forgets what was quarantined |
| `CapHolds` (violated) | 1 run | the broker's task route goes to the cloud past the cap |

The modules without a type invariant in their run state the range of their
variables under the name `TypeOK` for the reader.

Why the bounds are enough. Four tasks give the gate one running, one at the head,
one overtaking and one leaving. In the model-aware instance the small model fits
beside either of the other Ollama models and those two do not fit together, so an
eviction may need one victim or two; the MLX model is larger than the budget, and
three tickets put two in line behind a third. Three requests give one inside, one
queued, and one whose thread or stream outlives it. Three calls give a holder, an
orphan of a call that died or timed out, and one more in line; a call is a one-shot,
so a caller that retries is another call. One model is enough there: with two, a
call for the other one stops the recorded server, as a call does anyway when the
health probe fails (`Decide`). Two roles let one need what the other gave up, and
three models give a role an incumbent, a rollback and a newcomer; one rollback is
retained, as in the code. The recovery is offered the fallback again (which `Skip`
must drop) and one challenger twice, before and after it; `calls` counts to one more
than two turns of a model allow. In `TaskRun` the user starts one call below the cap
or at the threshold before it, so that two runs cross both thresholds in either
order and a run may see the spend of the other or not; the four types are one of
each class and one that dial and governor move; two candidates and one retry give
each a last attempt that is not the last of the run. In `Client` each of the three
registries quarantines what another one prefers, and one of them points a role
elsewhere. In `Provision` the two known Ollama models fit together, neither fits
beside the MLX model when LM Studio is loaded, and two pulls that fit the larger
disk one by one do not fit it together.

The three violated runs are disagreements between the code and its own words;
`findings` in `PROJECT.json` quotes both. Others that were met are in section 8.

## 5. Fairness

* `PriorityGate`, `BrokerRequest`: the event loop resumes what is notified
  and runs the release tasks; a generation ends, because backend calls and
  threads have timeouts and a response or its generator is finished, closed
  or collected. Cancellation is never forced.
* `ModelAwareGate`: as above; the timer that was armed fires and time passes.
  `EveryTicketSettles` excepts the instant in which the timer slipped (section 8).
* `MlxLifecycle`: the steps of `ensure_mlx` follow each other, since its
  probes, evictions and polls are bounded by timeouts; a lock that is free is
  granted. Servers are under no obligation, neither to load nor to exit, and no
  probe, kill or write has to succeed.
* `SelfHealing`: an engine goes on; adapters own the time-outs of their calls
  (README of the repository), so each call returns or raises; a run that holds the
  store's lock saves and releases it.
* `Registry`, `TaskRun`, `Client` and `Provision` state no liveness and no
  fairness: their loops end by counting, which `ReceiptsAddUp` and
  `AnswerOrExhausted` observe at the end of a run, and their calls may hang as
  long as a time-out allows.

Starvation by an endless supply of interactive requests is possible in the
code by design and is outside these runs: every task calls once.

## 6. The proofs

The theorems hold for every set of tasks, classes, calls, models, foreign
servers, roles, runs, task types, providers and loads, with the named
assumptions of the modules (classes, sizes and budgets are natural numbers; the
names of calls, releases and foreign servers differ; `None` is none of them;
a configured size is that of a known model).

*Serial gate.* `IInv` adds to the properties of the run that the flag is set
exactly while a task runs (a free flag beside a running task would admit a
second one) and that every queued token is older than the next arrival number
(so a new token is new in the heap). `Refinement` shows that each step is a
step of `AdmissionQueue` or a stutter, using `IInv` for the guards.

*Broker requests.* What is proved of the gate's actions is used of the same
actions inside a request. `Linked` ties where a request is to where its task is in
the gate: one that went through and was not released holds it, and so does one
whose release is under way; both owners of a streamed answer see the same flag.
From that `UsesGateRight` follows (each step of the broker is a step of the
gate), hence the gate's own invariant, hence `LiveRequestsSerialised`.

*Model-aware gate.* `IInv` is `TypeOK`, `LedgerWithinBudget`, `QueueAccounts`
and that a ticket in `want` has been acquired. The scheduler is a fold of turns,
so what one turn preserves is stated of gates that are no state's yet: `Sound`
(types, no repetition, time stamps of residents only), `Fits` (the budget), and
`Reaches(g, active)`, the gates a sequence of turns may lead to: waiters only
leave, those that left are admitted, nothing is swapped out beside an active
ticket, and nothing young but for an interactive one. `ScheduleReaches` is the
induction; each action then only has to show which gate it hands to the
scheduler (`Hands`). The swap properties are read off `Reaches`.

*MLX lifecycle.* `AtMostOneServer` is not inductive: a launch is safe because
of what its caller found out since it took the lock. `HolderKnows` says what
that is at each place, of the servers it has not missed: after the check none is
ours but the recorded one, after `stop_mlx` there is none, from the launch on only
the caller's own. It stays true because nobody else is inside (`CriticalHolds`)
and a call has no server before its own launch (`NoServerYet`). `missed` is a
history: what a call has missed, it has missed until that server is gone.

*Registry.* `RollbackIsRestorable` is not inductive: it says nothing of the
incumbent, whose configuration is the next snapshot. `IInv` adds that a role
with a model knows how to serve it and one without offers no rollback.
`RetainRestorable` is the heart: an entry with a real rollback that takes a
servable configuration has a real rollback again. `Pruning` follows from what
`Retain` may add to the needed models (`RetainNeeds`), and `Undo` from both.
That one rollback is retained (`KEEP_ROLLBACK_N`) is used: the entry that
`rollback` leaves has no older history.

*Supervised tasks.* `FailClosed` speaks of what was sent and asked; `Lawful`
adds what a run may still do at each place: on the way to the cloud its type has
no class, its caller did not forbid it and no local model was asked; on the way
to a local model nothing was sent. `DecideAllows` is what the route decision
guarantees for it, at every dial. `CrossingReported` needs that a run that is
about to save has reported its threshold, and that what it read was reported
(`Reported`): a slower run may save over a faster one.

`AttributedOutput` and `ReceiptsAddUp` need more than the invariants above, since
they compare a run's end with the events it left: `Told` says at each place
which output the run holds and which of its events may be marked as escalated
(none before the last attempt of the last candidate, that one if it failed,
`IsLast`). `ReceiptsAddUp` then counts: the events marked are as many as the
runs that escalated. `CapRespected` rests on `CInv`: what a run was told of the
spend when it started is still spent, unless the telemetry was rotated, and a
run whose crossing is on its way into the file is forced local.

*Client.* Between the proof of locality and the post the registry may change, so
the argument rests on what does not: the broker's address (`HopProved`), and the
broker's own refusal to hand a private prompt to a base that is not local.
`DInv` is about the candidates: those that failed and those still to try are
together the ones that were read, none is in quarantine, and none appears twice,
so a call that gives up has asked them all.

*Loads.* `NothingOversized` needs that a load past its check is for a model that
fits (`AdmittedFits`), or one that is in memory already, which is the invariant
itself. `HeadroomKept` needs that what a pull will take is still free beside the
headroom (`PullLeavesRoom`), which holds while there is only one (`OnePull`).
`LoadFits` needs, for a load nobody disturbed, what it `Knows` at each place: that
it is the only one at work, what it has found to be unloaded, and that the sum
with its own model fits. Sums shrink as models leave (`TotalGrows`), so nothing
need be known of the daemon's evictions.

*Recovery.* A run's `Load` of a model is what it has asked of it, what is `Due` to
the current candidate, and the `Worth` of those ahead; `Sound` keeps it within the
`Quota`, which is one turn of a model of the role and as many turns of another as
discovery offered it. Since the models of the role are dropped from the offer,
passing over the installed ones is enough; nothing is assumed of the offers.
`Holding` is the argument for the store: one run at a time has read it and not yet
saved it, and what it has read is the whole store, or nothing where it could not
read.
`Undoable` says which incumbent a run leaves: the one it found, or its challenger
on trial with the one it found as the rollback, or a swap failed and the report
says so. `ChallengersUndone` has two hypotheses besides the module's own (`Alone`):
one run at most has adapters, and discovery does not offer the incumbent. Neither
is a convenience of the proof: without them the property is false, as section 8
describes. The other theorems about recovery need neither. The two runs of
`SelfHealing.cfg` meet both.

*Sums and lists.* The model's folds come from the community modules, which define
them by recursive functions with a choice inside. `FoldLemmas` shows that such a
function exists, is unique and may take its last element as one likes, by an
induction over the subsets of a finite set that is itself stated for a set (of
natural numbers, of subsets) in place of a predicate. What `Without` and `Once`
keep, and that a sum of sizes is a natural number that grows with its set, follow
once for all proofs.

Assumptions of the theorems, other than the typing of constants: the runs of
`TaskRun` and the Ollama models of `Provision` are finite sets, the model-aware
gate has a model, and the rollbacks in a table of `Client` are lists of models.

Model-checked only: the liveness properties `EveryCallSettles`,
`EveryTicketSettles`, `GateIsFreed`, `EveryCallReturns` and `EveryRunEnds`, since
fairness is out of the prover's reach. The violated properties are refuted by
TLC.

## 7. What is not modelled

* The contents of prompts, answers, envelopes and events; durations; the
  arithmetic of costs, energy and prices and the rendering of reports; refused
  requests in the rates of the reports.
* The metering fields of the broker's events, its embeddings and health
  endpoints, API keys, and the model-aware gate inside a request's life.
* Telemetry that is switched off or cannot be written; a change of month during
  a run; a torn read of the governor's file other than an empty one.
* Reuse of process ids: a pid in the state file is that of one server.
* An exception out of `gate.release()`: its body cannot raise.
* Notifications of the recovery engine; the pruning plan of its caller. Two runs
  with adapters for one role (the model has them, no run or theorem does).
* Two jobs that load, change and save the registry at the same time: the file
  has no lock, so it is taken to have one writer. (`Client` has the reader's side.)
* Parsing and validation of the configuration, paths, and which host names are
  loopback ones: an endpoint is local or remote.
* The evaluation harness, the command line, the doctor and the MCP server:
  argument parsing, diagnostics and a scoring loop around the components above.

## 8. Known divergences without a run

Met while modelling. Each is in the models as the code has it.

* `gates.py:252`: MLX exclusivity looks at resumed tickets only, so one turn of
  the scheduler can admit an MLX ticket and another beside it.
* `gates.py:292`: a ticket for the resident MLX model falls through to the
  hysteresis that protects that model, and can wait on an idle machine.
* `gates.py:326`: the timer reads the clock after the decision did (line 285). If
  the last residency ends in between, the decision has blocked the waiter and no
  timer is armed: the waiter sleeps on an idle machine until the next request.
* `mlx.py:13` says that two callers can never double-load. They can where an error
  is swallowed: a `pgrep` that fails lists no server (line 94), a kill that fails
  leaves one whose record is emptied anyway (line 182), and after SIGKILL nobody
  waits for the process to be gone (line 180). The same call then launches beside
  it; later calls find the survivor foreign, if their `pgrep` works, and refuse.
* `mlx.py:71`: a record that could not be written is not noticed; the endpoint is
  handed out, and the server counts as foreign for every later load.
* `mlx.py:262`, `:301`: the health probes ask the port. A foreign server that got
  hold of it after the check answers for ours, and its endpoint is handed out.
* `mlx.py:310`: the clean-up after a time-out kills the recorded server; the one
  that was just launched is not on record yet.
* `registry.py:113`: a fallback that only a rollback's snapshot names is not
  protected from pruning.
* `self_healing.py:84`: a store that could not be read counts as empty, and the next
  `block` saves that: the entries of all other models and jobs are gone.
* `self_healing.py:309`: what discovery returns is not freed of repetitions. A model
  that it offers twice, and that is not one of the role's, is tried twice.
* `self_healing.py:521`: a store that cannot be written raises past the rollback.
  One rollback by hand still brings the incumbent back (`FailedChallengerUndone`).
* `self_healing.py:400` says that the incumbent is restored when a promoted
  challenger cannot serve, and `docs/plans/global-model-self-healing.md:80` that a
  failed challenger cannot displace it. Both fail in two cases, which are latent,
  since nothing in the repository passes the adapters
  (`docs/specs/self-healing-lifecycle-hardening.md:23`). At line 405 the adapter
  undoes the newest promotion, whoever made it: where another run has promoted its
  own challenger meanwhile, the registry exchanges that one for the challenger that
  just failed. And line 317 passes over the models the run has tried; an incumbent
  that was not installed at the start is none of them. Offered after a challenger
  that was rolled back, its promotion changes nothing (`registry.py:164`), and when
  it cannot serve either, its rollback brings the failed challenger back.
* `dial.py:8` says that at level 3 work does not leave the machine; a cloud-only
  type still goes to the cloud (`Decide`).
* `governor.py:14` says that a crossing is never emitted twice; load, emit and
  save are not atomic, so two runs may both emit it. Tightening from `std` to
  `lite` can send a type that is not `safe` to the cloud instead of keeping it.
* `task.py:435`, `:556`: a verifier that raises after a paid cloud call leaves
  the spend out of the telemetry.
* `ollama.py:163`: whether LM Studio unloaded is not looked at when an Ollama
  model is loaded, and a resident MLX server is not counted (`LoadFits` says so).
* `capacity.py:41`: a model that does not fit beside what Ollama holds is left to the
  daemon's own eviction, which does not know the budget.
* `preflight.py:203`: two pulls measure the same free disk.
