# Agent Eyes in TLA+

Agent Eyes is an MCP server that lets a language model see and operate a
desktop: it reads accessibility trees, resolves targets, and sends pointer and
keyboard input through operating-system providers (foreground mode), or drives
a browser tab through a debugging protocol (shadow mode). Its core is an
asyncio program around synchronous, slow and sometimes hanging provider calls.
What makes it hard is not any single function but time: deadlines that pass
while a call runs in a thread, clients that leave, event loops that close,
effects that land after the answer was sent. The modules here model that core,
TLC checks it on small instances, and TLAPS proves most of it for all.

Paths below are relative to `src/agent_eyes/` of the repository.

## Inventory

| component | state | operations | hard behaviour | what makes it correct | status |
|---|---|---|---|---|---|
| ProviderWorker (`provider_worker.py`) | lane: waiters, reservation, occupied; executor queue and thread; closed flags; evidence per call | `run`, `wait_until_idle`, `aclose`, callbacks `_resolve_waiter`, `_complete_call` | several event loops and a thread; deadlines; loops that die with the lane reserved | one owner of the lane, which is never lost; honest `may_have_run`; barriers and closes end | modelled |
| AutomationCoordinator, mutations (`coordinator.py`) | foreground lock, keyed shadow locks with use counts, poison sets, closed | `execute_foreground`, `execute_shadow`, `poison_*_until`, `close` | waiting while the lane is poisoned; locks discarded while wanted | serial lanes, quarantine until the abandoned call ended, exact lock table | modelled |
| AutomationCoordinator, observations | flights, waiter counts, tasks | `observe`, done callback, `close` | single-flight sharing with independent deadlines | one producer per key, nobody cancelled by another's deadline, no leak, closes answer | modelled |
| ObservationStore (`observations.py`) | ordered snapshots, ages, closed | `create`, `resolve`, `get_snapshot`, `resolve_with_snapshot`, `resolve_legacy`, `invalidate_*`, `close` | expiry, eviction and invalidation of the same snapshot | released exactly once, bounded, LRU, no stale or ambiguous answer | modelled |
| TransactionEngine, ActionKernel, OperationBudget (`transactions.py`, `action_kernel.py`, `operation.py`) | view, dirty flag, aliases, progress, replay flag | one `execute` request | a deadline or a cancellation at every await, effects that land late | fresh references and snapshots, exact progress, a retry offered only when nothing happened | modelled |
| Foreground transaction runtime (`server.py` 4066-4760) | resolution, scope, pending root and error | the four ports of a transaction | uncertain dispatches, completion by events | nothing acknowledged that did not happen, no old reading, the lane stays shut | modelled |
| Shadow transaction runtime (`shadow_transactions.py`) | session, document revision, pending view and dispatch | the same ports over persistent CDP | session replaced, page navigated between steps | the same | modelled |
| Tools that act in the foreground (`server.py`) | snapshots, poison, focus of the desktop | `click`, `type`, `press_key`, `scroll`, `drag`, `hover`, `app`, `window`, `new_tab`, `close_tab` | several dispatches to several workers; the user; effects that land after the tool gave up, activations that the system carries out late | input lands where it was proven to, answers are honest, old snapshots go | partly: `fill_form` and `navigate` are `type` and `new_tab`, not actions of their own |
| Tools that act in the shadow (`server.py`, `cdp_persistent.py`, `cdp.py`, `applescript.py`) | snapshots, document, focus | `click`, `type`, `fill_form`, `upload`, `press_key`, `scroll`, `drag`, `dialog`, `close_tab`, `navigate`, `js` | the page navigates between check and command; three transports with different evidence | the same | modelled |
| Tools that read (`server.py`, `tool_contract.py`) | | `tree`, `find`, `wait_for`, `list_tabs`, `web_tree`, `observe_target`, screenshots, texts | readings beside a mutation | snapshots never outlive the mutation that ended them | partly: screenshots, texts and layout are not |
| TargetResolver (`target_resolver.py`) | inventory cache and flights, exact leases | resolve, activate, invalidate, `prime_inventory`, `remember_targets` | an old flight outlives an invalidation; a waiter leaves | no inventory from before an invalidation, no lost scan | modelled |
| TargetObservationService (`target_observation.py`) | none of its own | `observe` | the user switches tabs around the reading | the snapshot shows the target it names | modelled |
| Native events (`native_events.py`) | subscriptions, generations, wake flags, threads | wait for an element, act and wait | events between a check and a wait; watchdog; threads that end | no lost notification, action dispatched once | modelled |
| Browser inventory (`browser_inventory.py`) | none | cohort, survey, classification | browsers start, quit and change while they are surveyed | nothing opened twice | partly: ranking and URLs are not |
| Persistent CDP connection and sessions (`cdp_persistent.py`) | connection generation, sessions, pending commands | connect, reconnect, send, read loop, target events | disconnects, replaced transports, retried commands | only idempotent reads repeat; a generation fails only its own commands | partly: metadata, event handlers, `run_until_event` are not |
| Setup (`setup/configurator.py`, `state.py`, `readiness.py`, `install.py`) and CLI | config files, backups, manifest, two locks | preflight, apply, roll back, report, mark | several files, several processes, editors, deaths | all or nothing, no foreign edit lost, a true manifest | partly: removal, detection, JSONC and TOML text are not |
| ElementRegistry, adapters, input, Apple Events and legacy clients | operating system, latest 500 elements | provider calls | the environment of the above | | partly, as that environment |
| Transaction contract (`transaction_contract.py`) | none | parsing and validation | rules across steps | only well-formed requests reach the engine | partly: schema shape is not |
| CDP runtime envelopes, telemetry, formatting, locators, validation, platform helpers | none or request-local | pure functions | | | not modelled |

How they interact: a handler starts an `OperationBudget`, enters a lane of the
coordinator (`execute_foreground` or `execute_shadow`), and in it calls
`ProviderWorker.run`, which queues for the worker's own lane and submits the
synchronous call to its thread. When the client's deadline passes, `run`
raises, and the `ProviderCallState` says whether the call may have run. If it
may, the handler poisons its coordinator lane until `wait_until_idle` of that
worker returns, invalidates the snapshots of the target, and reports
`OUTCOME_UNKNOWN`. A transaction does the same through the `ActionKernel` for
each of its steps. Readings go through `observe`, which shares a running
producer, and end in snapshots of the store. `_shutdown_runtime` closes the
coordinator first and the workers after it.

## Modules

| module | models | kind |
|---|---|---|
| `SerialProvider` | what a worker promises | abstract specification |
| `ProviderWorker` | `provider_worker.py` | detailed, implements `SerialProvider` |
| `ReplayContract` | what a client may conclude from a transaction's answer | abstract specification |
| `Transaction` | `transactions.py`, `action_kernel.py`, validation, opening and activation of the target | detailed, implements `ReplayContract` |
| `PortContract` | what the engine relies on in its ports | abstract specification |
| `TransactionPorts` | both transaction runtimes | detailed, implements `PortContract` |
| `Coordinator` | the lanes and quarantine of `coordinator.py` | detailed |
| `SingleFlight` | `observe` of `coordinator.py` | detailed |
| `ObservationStore` | `observations.py` | detailed |
| `TargetResolver` | `target_resolver.py` | detailed |
| `TargetObservation` | `target_observation.py` over `TargetResolver` | composition |
| `NativeEvents` | `native_events.py` | detailed |
| `BrowserOpening` | `open_if_missing` and `browser_inventory.py` over `NativeEvents` | composition |
| `NativeActions` | the foreground tools over lane, workers, desktop and snapshots | composition |
| `ShadowActions` | the shadow tools over three transports, page and snapshots | composition |
| `Tools` | the tools of the server: `TargetObservation`, `NativeActions` and `ShadowActions` | composition |
| `CdpConnection` | the connection and the sessions of `cdp_persistent.py` | detailed |
| `SetupApply` | `setup/*` and the commands of `cli.py` | detailed |
| `MCProviderWorker`, `MCTransaction`, `MCTransactionStore`, `MCCoordinator`, `MCCdpConnection`, `MCListening`, `MCTools`, `MCNativeActions`, `MCSetupApply` | instances | model checking |
| `ProviderWorkerProofs`, `CoordinatorProofs` (with `SingleFlight`), `TransactionProofs` (with `TransactionPorts` and `ObservationStore`), `CdpConnectionProofs`, `SetupApplyProofs`, `TargetObservationProofs`, `BrowserOpeningProofs`, `ToolsProofs` | theorems | TLAPS |

Operators introduced by the words "A mutant of" are variants of the operator
that follows them, each with a plausible bug. They take no part in a
specification; substituting one for its original makes TLC violate the
property that `PROJECT.json` names beside it, which shows that the property
depends on that piece of code.

### ProviderWorker

Each action is one critical section of `_guard`, or one step of the executor's
thread, or one step of a task between two awaits, so that tasks of one loop
interleave as freely as tasks of several. A task executes `run` (Callers),
`wait_until_idle` (Idlers) or `aclose` (Closers) once. `pc` is where it is;
`queue` and `ahead` are `_waiters` and its order; `handoff`, `occupied`,
`active`, `granted` are the fields of the same names; `future` is the asyncio
future of a waiter, and `soon` the `_resolve_waiter` callbacks that a loop has
not run yet. `returning` and the states of `OwningPcs` are moments between two
critical sections in which a callback or a task owns the lane. `call` is the
executor's future of a caller, with `withdrawing` and `completing` for the
time its done callback has not released the lane. `CloseLoop` is an event loop
closing under its waiting tasks. The reservation of a lane for a waiter whose
loop died (`StaleHandoff`) is noticed by the next arrival, by a waiter that
gives up, or by the poll of a wait without a deadline.

The mapping to `SerialProvider` hides the lane altogether: a call is outside,
admitted, running or over, its client holds no evidence, "never" or "maybe",
and a barrier is passed only while nothing is inside.

### Transaction

An effect is the number of its step, 0 for opening the target. The model keeps
`landed` and `airborne`, the effects that have happened and those that still
may: a call may land while it is awaited, or at any time after it was given
up. A view is the set of effects that had landed when it was loaded, and an
alias remembers the view its element was found in; that is all the properties
need to know of a user interface. Deadlines (`Expire`) and cancellations can
come at every await. `Failed`, `Unknown` and `Finish` are the closures
`failure` and `result` of `TransactionEngine.run`. A receipt that is not
acknowledged and is not uncertain comes from a port that declined before it
touched anything, as the ports of both runtimes do (`Declined`). Requests are those that
`parse_execute_request` accepts (`Valid`).

### Coordinator, SingleFlight

One asyncio loop: an action is the code between two awaits. `table` is
`_shadow_locks` with the foreground lock beside it; a lock is named by the
client that made it. `poison` holds the clients whose recovery task is still
waiting. A worker is reduced to "a call is queued, inside, over": that one call
at a time is inside is what `ProviderWorker` provides. Once the coordinator is
closed `poison_*_until` raises, and the client is told that instead of
`OUTCOME_UNKNOWN` (`ending` is `"closed"`). In `SingleFlight` a
flight is named by the observer that started it; `producer` is its task, which
may ignore a cancellation (`Stubborn`), and its done callback is a step of its
own, so that it may come after a new flight took its key.

### ObservationStore

No operation awaits, so each is one action. `older` is the order of the
OrderedDict over all snapshots ever stored, so that properties can compare a
snapshot that is gone with those that stay. `released` counts how often the
records of a snapshot were released. The clock advances between operations.
`Reject` is a `create` that fails over one of its records and releases those it
had taken; on a closed store, or with bad arguments, `create` raises before it
takes any, which changes nothing and is no action.

### TransactionPorts

The engine's own model takes for granted that its ports are honest. This module
shows that they are. An action is the list of the checks and commands that
`_transaction_action_ports` or `_perform_action` goes through, with a mark
where the `ActionKernel` invokes the dispatch port; `at` is the position,
`outstanding` what was handed to the provider and not settled, `begun` and
`happened` the effects. `pending`, `error` and `revision` are the fields
`_pending_root` or `_pending_view`, `_pending_error` and `_revision`, each
represented by the effects, or the document, that its reading showed. A shadow
reading is bracketed by two document revisions (`ReadRevision`, `ReadTree`,
`ViewRead`); a native one is a single call of the worker. When the connection
is replaced, what was sent fails in the same step and lands at that moment or
never. The engine is any caller that observes first, refreshes a view that an
action has outdated before it locates anything, and may scroll without
locating: those are the orders in which `TransactionEngine.run` calls.

The mapping to `PortContract` hides scripts, readings, sessions and documents:
an effect is begun, in the air, landed; the engine was told something; the
lane has admitted the next operation or not.

Abstracted: the numbers of repeated readings (2) and of completion checks (8),
which become "may go on or give up"; scopes, which only narrow what is read;
contents of elements. Giving an element the focus is a check in the
foreground, and a deadline during it is a failure before the dispatch, as in
the code, which does not fence the lane for it (`server.py` 4619). It is no
effect of the transaction, and `PortContract` does not speak of it.

### TargetResolver and TargetObservation

A scan is one inventory flight; `<<scan, tab>>` is the identity of a target,
since every inventory makes new ones. `cache`, `leases` and `flight` are the
resolver's tables. `world` counts mutations of the desktop and `acked` those
whose handler has called `invalidate`, so that a scan can be older than an
invalidation and a property can say so. `TargetObservation` adds the tab that
is visible and, for each observer, what its tree showed (`content`) and how
often the browser was switched since the target was seen (`changes`, to two).
A tree is that of the window, whatever tab is visible; the checks around it
(`Validate`, `Answer`) are actions of their own, with the user between them.

### NativeEvents and BrowserOpening

A notification goes through the observer's own thread in two steps, counted
under the lock (`Count`) and posted to the loop (`Post`), and then through the
loop (`SetWake`). A waiting task clears its flag, compares the count and goes
to sleep in one step, which is what a loop without an await between them
does (`Test`). `base` is the count that was read before the last check of the
condition. Observer threads may end, observers may be unavailable, some
changes are not announced (`silent`), the watchdog may elapse at any time, and
without observers the condition is polled up to `MaxChecks` times.

`BrowserOpening` is `open_if_missing`: a census of the running browsers, an
observer on each of them, another census, one reading after the other, the
final census, and the guard on the worker with both checks again (`Survey`,
`ReadBrowser`, `ProvenAbsent`, `VerifyCohort`, `OpenUrl`). `Covered` is the
test that all observers are alive and silent. Browsers start, quit and change
between any two of these.

### NativeActions

A tool is a graph of steps: `Ask` a question about the system, `Do` something
through a worker, or `DoUntil` the system shows it, each with the names of the steps
that may follow when the answer is yes and when it is no; an answer to the
client is a name too, at which no step follows. The graphs are the control flow
of the handlers, their fallbacks included (`Type`: focus and type, else click and
type, else set the value).
`IfNamed` is the test for a process: `press_key`, `scroll` and `drag` without a
`pid`, elements without one, and `hover` at coordinates (`HoverAt`) skip the
proof of the focus and post to whatever is in front.

A dispatch occupies its worker until `Perform`, which may come long after the
client gave up; then the lane is poisoned until it has come. But an activation,
a focus or a launch is only a request to the system (`input_sim.py` 468:
"without a fixed wait"): when its worker returns it has been carried out or is
in `coming`, and `Land` may carry it out at any later time, with the worker idle
and the lane open to others. Physical input lands in whatever is in front when
it is posted, and may be posted in part. `proof` is what the call has last
proven about the place where its input will land, and whether the user or a
late request has moved something since (`held`, `moved`). `acted` says that
what the call is for was reported done or was seen, `late` that an effect came
after the answer. `store` and `reading` are the snapshots of the applications;
`sees` is the set of effects a reading showed. A snapshot that was being made
while its target was invalidated is `raced`.

`WindowIsFront` says whether a window that counts as focused is the one in front
of the whole system. On Windows and, by the state that is asked for, on Linux
it is; on macOS it is not, which the run `close_tab` shows.

### ShadowActions

A tool is the list of the checks and commands of its handler, one for each of
the three transports; the page may navigate or move its focus between any two.
A command that was sent is applied later, or never, or after its caller left;
`sent` and `applied` are what an answer can be compared with. The answers are
those of the handlers: a plain error that may be repeated (`retry`), stale,
text not sent, unknown, done with a warning, done in part (`fill_form`),
cancelled. Document revision and session generation are one number.
`web_tree` reads outside of the lanes: revision, tree, revision, snapshot.

### Tools

The three modules of the tools share no state: an exact target, a native
application and a page are reached through different lanes, workers and
snapshots. `Tools` puts them side by side, so that a behaviour is one of the
mode it starts in, and states once for both modes that act what a client may
rely on: `AnswersHonest`, `StoresCurrent`, `InputProven`. What each of them
excepts in the foreground is the code's own, and named with the property:

- `AnswersHonest`: only `OUTCOME_UNKNOWN` leaves something behind; after a
  success the deed was reported or seen, after a failure, "text was not sent"
  or a plain error it was not. Input that the backend posted in part and
  reported as failed does not count as done, nor does text that was read back
  and not found, and `type` may end with a plain error (its deadline) after its
  text was typed or set (`server.py` 3229, 3306).
- `StoresCurrent`: snapshots go with `OUTCOME_UNKNOWN` and with a success of
  `app`, `window` and `close_tab`; that they stay after the others is the
  finding `stale_after_success`.
- `InputProven`: input of a call that names an application, text of any call
  and the close shortcut go where they were proven to go, unless the user or a
  late request moved something after the last proof.

### SetupApply

`pc` is where each process is: preflight without a lock, where it is also decided
whether to install (`installPlanned`; `--repair` does so with a current launcher
too), the consent, then under
`.setup.lock` classify, back up, classify again, compare and replace one file
after the other, or put them back in reverse; then the manifest under its own
lock. A comparison and the replacement that follows are two steps, and so are
the comparison and the restore of a rollback: an edit between them is `raced`,
and the one thing `NoEditLost` excepts. `Edit` is another program, `Die` a
process killed anywhere; the operating system releases its locks. Contents are
reduced to the last edit by somebody else and whether the entry is there; what
the JSONC and TOML editors do is `Rendered`.

### CdpConnection

A command is one caller: `ensure_connected`, a session for its tab, and one
`send` on that session, perhaps long after. A websocket is named by the
generation it begins and a session by its tab and its websocket. `up` are the
websockets that are open and work, which only the network, a close or a new
connection changes; `loops` are the read loops still running, so that a lost
websocket has its loop for a while. `lock` is `_connect_lock`, and what its
holder does is four steps: the old loop and websocket go (`LockToReconnect`,
`RetireTransport`), a new one is opened (`Open`), the browser acknowledges
(`Ready`), each with its failure. `Settle` settles the futures of sessions; a
future outlives a caller that gave up, as `shield` has it. `tries` and `via`
count and name the websockets a command was given to.

Assumptions, each named in the module: the read loop of a lost transport has
ended by the time that the discovery and the handshake of the next one are
done (`Open`; the code does not enforce it, so that a late end of that loop,
`cdp_persistent.py` 1097, is in no passing run); `Abrupt` says whether an error
may reach a waiting command whose text has the word "closed" although the
transport works. With `Abrupt` false a
tab is detached only while no command waits on it: the run `errors` shows what
happens otherwise. A shutdown closes the websocket in one step and forgets the
sessions in another.

Abstracted: other users of the connection (each is a command or nothing),
browser commands other than those of the startup, metadata of tabs, events,
and the contents of answers.

## Runs

| run | checks | what it shows | size |
|---|---|---|---|
| `lane` | `OneOwner`, `LaneNeverLost`, `EvidenceHonest`, refinement of `SerialProvider`, `BarrierPasses`, `CloseEnds` | calls, barriers and a close share a worker on two loops that may die; one call hangs | 313,540 states |
| `transaction` | `FreshReferences`, `SnapshotCurrent`, `ProgressHonest`, refinement of `ReplayContract`; `ReleasedOnce`, `AnswersLive`; refinement of `PortContract` | the engine on all requests of up to 4 steps over 2 names; the store with 3 snapshots and room for 2; both runtimes with 3 effects and 2 navigations | 887,549 states |
| `activation` | `UncertaintyReported` is violated | finding | one step |
| `coordinator` | `LockTableExact`, `Quarantine`, `NothingLeftBehind`, `QueueDrains`, `PoisonLifts`; `OneProducer`, `NoCollateral`, `CloseAnswers` | 2 foreground and 2 shadow mutations on 2 workers, one hanging call; 4 observers, 2 keys, one stubborn producer | 181,741 states |
| `listening` | `SentOnce`, `OneTransport`, `LossIsReal`, `LateCallerHarmless`, `LossNoticed`, `LockPasses`; `NoLostWakeup`, `NoDuplicateOpen`, `AppearedIsSeen` | a mutation and a read on 2 tabs, 2 websockets, a shutdown; a wait, an action or an opening over 2 processes, 2 changes of the desktop | 646,845 states |
| `errors` | `OneTransport` is violated | finding: the same with `Abrupt` | |
| `stale` | `StaleIdsUnused` is violated | finding: the same without a shutdown | |
| `tools` | `QueriesFresh`, `NoCollateral`, `ContentIsTarget`; `InputProven`, `AnswersHonest`, `StoresCurrent` | an observer beside another caller of the resolver; every foreground tool beside one in another application; every shadow tool beside JavaScript | 6,892,831 states |
| `close_tab` | `ClosesForegroundTab` is violated | finding | |
| `stale_after_success` | `SuccessInvalidates` is violated | finding | |
| `setup` | `NoEditLost`, `ManifestTrue`, `AllOrNothing`, `SetupEnds` | `setup` with a configuration and a skill beside `init` or `doctor`, or two `init` | 529,336 states |
| `completion` | `ReadingsFresh` is violated | finding | |

Five runs hold parts that share no state. `transaction` is the engine, the
store or the ports, `tools` is the resolver, the native tools or the shadow
tools: a variable chosen in the initial state (`part`, `mode`) says which, and
no action of one reads a variable of another, so a behaviour is one of one
part and a property of a part says of it what it would say in a run of its
own. `coordinator` is the lanes or the flights in the same way (`half`),
`listening` the connection or the native events (`source`), and `lane` uses an
action constraint to choose one of three casts of tasks: a barrier with two
calls, of which one hangs; a barrier with that call and a close; three
barriers. The refinement of an abstract specification is checked on all of
them, the other parts being stutters.

Symmetry is used for the tokens of the store (`transaction`) and for the tabs
(`tools`), which are compared for equality only; both runs check safety alone.

Why the bounds are enough to be interesting. A stolen or lost lane needs an
owner, a waiter the lane is reserved for, and a third party that finds the
reservation; the third barrier is for the arrival that finds both a dead
reservation and a queue. A lock discarded too early needs a holder, a waiter
and a newcomer of one lane, and a poisoned one a client that waits behind the
poisoning: two clients per lane and one worker common to both lanes show both.
An old flight's callback needs an old and a new flight of one key and an
observer to be misled. Four steps allow locate, act, locate, act, or an action
with an expectation after another. Three snapshots over room for two make one
victim with a choice. Three effects let what one completion kept meet the
completion of a second action and the refresh for a third; two navigations
allow one inside a reading and one after it. A late caller of the connection
needs a transport, its successor and two commands that failed with the first,
one of which may be repeated; the third websocket does not come, so that a
second reconnect finds no browser. A stale inventory needs a scan that began
before a mutation, one that began after, and somebody on each. Two switches of
the tab are what can fool a bracket, one is what it must notice; so
`ContentIsTarget` excepts two. Misdirected input needs one call given up and
one after it, in another application, and one move, of the user or of a request
that comes late. Two processes
of setup are one that was overtaken and one that overtakes, over two files so
that a group can fail half-way. The theorems below do not depend on any of
these bounds.

Deadlock is checked in `tools` (`Rest` for the two modes in which calls are used
once; the resolver never stops). In the other runs tasks, requests, snapshots and commands are
used once and every system ends.

### Fairness

Safety is checked and proved without any. Liveness assumes what asyncio, the
threads and the code give:

- `ProviderWorker`: loops run the callbacks and tasks they hold, budgets
  expire and an expired wait is cancelled, the executor's thread runs, and a
  call returns unless it is `Hung`. Nothing is assumed of arrivals,
  cancellations or loops closing. `BarrierPasses` and `CloseEnds` except a task
  whose own loop died.
- `Coordinator`: a free lock is acquired (asyncio locks are FIFO), a mutation
  settles or gives up at its deadline, recoveries run when their worker is
  idle, a call that is not `Hung` returns.
- `SingleFlight`: observers and callbacks run, and a *cancelled* producer
  ends unless it is stubborn. A producer nobody cancelled may run for ever, and
  no observer is assumed to have a deadline: that is why `CloseAnswers` is a
  property of `close` alone.
- `CdpConnection`: the lock is handed on (asyncio locks are FIFO), the startup
  of a connection is answered or times out (`_send_browser` waits 10 s), a close
  of a websocket returns, settled futures wake their callers, and the loop of a
  lost websocket ends. Nothing is assumed of losses, answers, attachments or
  the callers' deadlines: `LossNoticed` does not rest on the 30 s of a command.
- `BrowserOpening` (`OpeningFairness`): the request goes on when it can, its waiting tasks run when
  they can, and a notification that an observer's thread has begun to deliver is
  delivered. Nothing is assumed of the watchdog or of the deadline:
  `AppearedIsSeen` rests on the notifications, which is what the watchdog is
  meant to be a mere safety net for.
- `SetupApply`: a process that can go on goes on, and failing is one way to.
  Nothing is assumed of consent, of lock time-outs (which POSIX does not have),
  of edits or of deaths. Nobody can hold a lock for ever, because a holder
  goes on or dies: that is what `SetupEnds` shows, of a wait for either lock.

## Findings

`activation`: while an existing page is activated for a foreground
transaction, a deadline can leave the activation uncertain.
`_activate_browser_target_and_wait` then poisons the lane and raises
`_NativeMutationOutcomeUnknown` (`server.py` 2410-2443). Outside of
transactions, handlers turn that into an uncertain outcome. In a transaction
the exception reaches the plain `except Exception` of target resolution
(`transactions.py` 302), which answers `PROVIDER_BUSY`, failed, retry-safe.
`docs/api/mcp-tools.md` (605) promises `OUTCOME_UNKNOWN` "after a dispatch whose
completion cannot be proved" and counts activation among the side effects
(610). No step has run, so repeating the request repeats only the activation;
the disagreement is in the report, and `ReplayContract` speaks of the effects
of steps and of opening a page.

`errors`: `_is_connection_error` (`cdp_persistent.py` 45-61) takes any message
with the word "closed" for a lost transport. When a tab is closed while a
command waits on it, `_on_detached` fails the command with "Tab was closed
while commands were pending", `send` marks the healthy transport as
disconnected, and the next `ensure_connected` opens a second websocket. The
first stays open with its read loop, which feeds the same tables: the class
says that it "opens exactly one WebSocket" (725-727).

`stale`: `send` promises that "stale session IDs are never reused" (134), but
its test for a rebound tab (137-143) needs the new session to be there. Between
a reconnect by somebody else and the attachment of the tab, a command on the
old session goes to the new websocket with the old session id. The browser has
no such session and the command ends by its timeout; its future stays in the
retired session, so that `wait_until_idle` of that session never returns, and
with it a quarantine that waits for it.

`close_tab`: on macOS `is_window_focused` (`adapters/macos.py` 722) compares a
window with the focused window *of its own application*, which one in the
background has as well. A selected tab of a browser that is not in front
counts as active, `_activate_browser_target_and_wait` (`server.py` 2377-2387)
returns at once, the check before the close passes for the same reason, and
Command+W is posted to whatever application is in front.
`docs/api/mcp-tools.md` (877-885) says that the tool "focuses and closes one
verified foreground tab". Windows compares with the foreground window of the
system and Linux asks whether the window is active; `tools` checks
`InputProven` with such an answer. The theorems say how far the fault reaches:
with that answer the shortcut goes to no other application unless something was
moved after the last check (`TabsAreClosedInFront`), and without it all input
of every other tool still lands where it was proven to
(`InputReachesItsTarget`).

`completion`: the completion of an action that is followed by a locator keeps
what it read for the next refresh: a root, and an error if the locator was
ambiguous (`server.py` 4349-4361). A later completion replaces the root and
leaves the error, and `refresh` (4227-4231) raises it, although it is about the
interface before the latest action; the request fails for a state that is gone.
`docs/api/mcp-tools.md` (579-581) says that a successful action invalidates
"the local view before a later condition is checked". It takes an action whose
later locator was ambiguous, then a scroll, which needs no locator of its own.
The shadow runtime forgets what is pending with every action.

`stale_after_success`: `docs/api/mcp-tools.md` says of `type` (379-380),
`press_key` (791-792), `scroll` (976-978), `drag` (1007-1009) and `fill_form`
(1037-1039) that affected observation state is invalidated. In the foreground
that is done on the exits with `OUTCOME_UNKNOWN` only. A success returns without
it (`server.py` 3222, 3246, 3322, 3347; 6559-6560; 7331-7335; 7427-7428), so that
a snapshot from before the input can still be resolved and acted on. `click`
and `hover` do the same, of which the manual says nothing. In the shadow mode
all of them invalidate.

Not findings, but worth knowing: `ensure_connected` alone, after a websocket
that ended by itself, does not retire the tabs and sessions of the old
generation, which stay listed until their tab is attached again; a websocket
that ends in good order does not clear `_connected`, so that the next write is
the one to notice; a startup that fails spends a generation, so that a
`reconnect` for the one before returns without a connection. `Quarantine` holds while the coordinator is
open; closing cancels the recoveries, and a mutation that had already been
waiting for its lock may then enter the lane during the shutdown. An observer
without a budget whose producer ignores its cancellation keeps waiting after
`close`.
A call of `type` may be answered "text was not sent" although the first attempt
was posted in part: the physical backend reports a partial posting as a plain
failure, and the click that is tried next is refused. Its deadline may pass
when the text has been typed and is being read back, or was set and is being
confirmed; then the answer is `DEADLINE_EXCEEDED`, for which the manual asks to
"observe current state before deciding whether retry is safe" (181). An
activation that the system carries out after its worker has returned is fenced
by nothing: it may come to the front between the proof of the next tool and its
input. No code could exclude that altogether; the proofs say that it is the
only way besides the user. `Concerns` follows
`_invalidate_native_mutation_state`: without a process it clears all native
snapshots. `find` and `wait_for` store their snapshot
outside of the lanes (`server.py` 2208), `web_tree` does so too: one that was
being made while a mutation invalidated its target stays. `StoresCurrent`
excepts exactly these. `find` also gives the elements of an older
snapshot another lifetime (`server.py` 2249); nothing in the repository limits
how often. `list_tabs` remembers leases outside of the lanes, and may do so
from an inventory taken before an invalidation; an exact target is checked
again before it is used. In a shadow transaction, a scroll that follows an
action which navigated the page, without a locator between them, is compared
with the revision from before and refused as stale; nothing is lost by it. A
foreground transaction that runs out of time while an element is being focused
leaves its lane open, so that the focus may move during the next operation,
which checks the focus of what it types into.

## Proofs

All with TLAPS, from the named assumptions of each module, which only give
constants their kinds (disjoint sets of tasks, a None outside of the ids,
positive capacities) and, in `ObservationStore`, finitely many tokens; TLC evaluates
them on every instance. Two hypotheses stand in theorems: `~Abrupt` of the
connection and `FrontIsProven` of the foreground tools. Each excludes exactly what a
finding is about, and holds in the run that checks the property.

The inductive invariants of the tools were checked by TLC before they were
proved: on the instance of the run, and those of the foreground tools also where
a focused window need not be in front.

| theorem | property |
|---|---|
| `LaneHasOneOwner`, `LaneIsNeverLost`, `EvidenceIsHonest` | the lane and the evidence |
| `WorkerImplementsSerialProvider` | refinement of `SerialProvider` |
| `ReferencesAreFresh`, `SnapshotIsCurrent`, `ProgressIsHonest`, `DispatchesAreInTime` | the engine |
| `EngineImplementsReplayContract` | refinement of `ReplayContract` |
| `LockTableIsExact`, `LanesAreQuarantined`, `NothingIsLeftBehind` | the coordinator's lanes |
| `OneProducerRuns`, `ObserversAreIsolated`, `FlightsDoNotLeak` | its observations |
| `RecordsAreReleasedOnce`, `StoreIsBounded`, `EvictionIsLeastRecentlyUsed`, `AnswersAreLive`, `TheJustUsedStays` | the store |
| `CommandsAreSentOnce` | the commands of the connection |
| `TransportsAreSingle`, `LossesAreReal`, `LateCallersAreHarmless` | its transports, where `~Abrupt` |
| `EditsAreKept`, `SetupIsExclusive`, `GroupsAreAllOrNothing`, `ManifestIsTrue` | setup |
| `MutationsAreSerial`, `PageLanesAreSerial` | one mutation at a time in a lane of the tools, and what it or its predecessor left in a worker |
| `NativeAnswersAreHonest`, `PageAnswersAreHonest`, `AnswersAreHonest` | what the tools answer |
| `NativeSnapshotsAreCurrent`, `PageSnapshotsAreCurrent`, `StoresAreCurrent` | their snapshots |
| `InputReachesItsTarget`, `InputIsProven` (where `FrontIsProven`), `TextReachesItsElement` | where their input lands |
| `TabsAreClosedInFront` | `close_tab`, where `WindowIsFront` |
| `WakeupsAreNotLost`, `PagesAreOpenedOnce` | native events and the opening of pages |
| `PortsImplementContract` | refinement of `PortContract` by both transaction runtimes |
| `InventoriesAreFresh`, `ScansAreShared`, `ObservationsShowTheirTarget` | the resolver and the observations over it |
| `TypeCorrect` (of the worker, the engine, the coordinator and the connection), `FlightsTypeCorrect`, `StoreTypeCorrect`, `OpeningTypeCorrect`, `NativeTypeCorrect`, `PageTypeCorrect`, `SetupTypeCorrect` | types |

The arguments:

- *ProviderWorker.* `OneOwner` alone is not inductive: whether a release makes
  a second owner depends on the futures of waiters. `IInv` adds that queued waiters are
  active and their futures not set, that `granted` marks exactly the waiter
  the lane is reserved for, that a set future on a living loop means the
  reservation is still its own, and what each stage of a caller says of its
  call. Every way to give the lane up goes through `ReleaseLane`, so a lemma
  says once what that does: reserve for one waiter, or free.
- *Transaction.* `Inv` ties the stage of the engine to what can have landed
  (`Stage`), the memory of the engine to what has (`Memory`: a clean view, and
  every alias, equal the effects landed before the current dispatch, and a
  false `replay_unsafe` means none), and the answer to both (`Answered`). The
  refinement needs besides that one effect at most is airborne.
- *Coordinator.* The quarantine rests on the check made *after* the lock was
  acquired: `Quarantined` says no running client shares a lane with a poison,
  and `Calls` that a call outlives its client only if it is poison or the
  coordinator is closed.
- *SingleFlight.* `Counted` and `Registered` say that use counts are exact and
  that a registered flight has waiters; a producer that runs is registered.
- *ObservationStore.* `older` is asymmetric, what was last used is last in it,
  and no creation is in the future; the capacity argument counts the live
  snapshots with the theorems on finite sets.

- *CdpConnection.* `Counted` says how often a command was sent at each place it
  can be, and that only reads get to the places from which it is sent again;
  `Owner`, that the steps inside of the lock are its holder's. For the
  transports, `Single`: only the current generation can be open, sessions are
  registered under the generation of their own websocket, and a connection not
  marked as connected has no open websocket - the part that an error
  mistaken for a loss breaks. `Met`: whatever a command saw fail is down, so who
  gets to reconnect for the current generation finds nothing open.
- *SetupApply.* `NoEditLost` alone is not inductive: a replacement is safe
  because of something that happened many steps before. `SetupInv` says what a
  plan knows (`PlansOK`: it renders its original, which is no newer than the
  edits made), that what is about to be replaced is in a backup or has visibly
  changed (`BackedUp`), that between a comparison and its replacement only a
  racing edit comes (`Compared`, which needs `OneInside`: no other process
  writes then), and, for the rollback, that what was written lies before the
  position (`Positions`) and what was passed is undone or noted (`Undoing`).
  Edits only grow, so that a content which was changed is told from the
  planned one for ever. `ManifestTrue` needs `ManifestInv`: the manifest is
  updated by one process at a time, from what is in it (`OneSaving`); until a
  process is through, the entries up to its position are in place (`InPlace`);
  and an entry that anybody counts on, the manifest or a process whose group is
  done, is there and is in the original of every plan that could still be
  rolled back (`Reliable`).
- *TransactionPorts.* A script is `Ordered`: it dispatches before it acts, and
  checks nothing that declines after it has acted; all thirteen are, and that
  is why a port that declines has begun nothing. `PortsInv` adds that a command is outstanding only while
  its action waits for it or behind a fence (`OneCommand`), that an action
  which goes on after a command that acted has seen it happen (`Dispatching`), and that what is kept for
  the next refresh, and a reading that has its tree, show all that has happened
  (`KeptIsCurrent`). Each step is then a step of `PortContract` or none.
- *TargetObservation.* Freshness rests on `Current`: what is cached, leased or
  registered was scanned after the last acknowledged mutation, and a waiter's
  scan after the one acknowledged when it began. For the content, `Bracket` is
  the parity argument: since the target was last known to be visible, no
  switch means that it still is, one means that it is not, and only after two
  can the second check pass over a tree of another tab.

- *BrowserOpening.* `NoLostWakeup` speaks of a waiter that sleeps; what makes it
  true are the steps before. `Announced` says that a process which announced
  what is sought has a notification under way or a count above the waiter's
  base, `Wakened` that a sleeper over such a count has its wake-up posted.
  `Noticed` carries this through an opening: a browser that was read and shows the
  page was seen doing so, could not be read, or has told its observer since;
  and `Cohort`, that whatever runs at the last check is watched. The check of
  `Covered` before the opening then leaves no browser that shows the page.
- *The foreground tools.* `LaneInv` says that one call at most is at work and one thing
  at most outstanding in all workers, the one of its step or of a call
  that was given up and that the lane waits for; that a call is at a step of its tool,
  `waiting` only for what that step dispatched; and what a snapshot must have
  seen. Honest answers and current snapshots follow from it. `AimInv` adds the
  proof of the focus: at the steps of `Aiming` the application is in front, or
  the user or a late request has moved something since (`Proven`); at those of
  `Exact` the element or tab has the focus, whether or not the call names an
  application; and at those of `Blind`, which may launch an application, nothing
  has been proven yet; input that is outstanding is `InputAimed` in the same way,
  also when its caller has left. A call that names no application proves nothing
  of the front, and nothing is said of it. It is not inductive alone: only
  `LaneInv` excludes that a second call, or a worker that an earlier one left
  busy, moves the focus between the proof and the input; what a worker left in
  `coming` may do so, which makes the proof `moved`. That an answer is true is
  `Fits`: at which places of its tool a call may have done its deed, and that it
  has at "done"; `Typed` are those where `type` has typed or set its text and
  may still fail. What the graphs contribute is `ProperStep`, a condition on one
  step - it may lead to an aiming step only from one, or by asking about the
  front, and to an answer only as `Fits` allows - that is proved of each step of
  each of the thirteen tools (`ClickIsProper` to `ScriptsAreProperSteps`), so
  that the lemmas about actions do not look into the tools. `FrontIsProven` asks that a
  focused window is in front or that nobody calls `close_tab`: it is
  the only tool that relies on it.
- *The shadow tools.* `ProperScript` is the same for the twenty-one scripts: the
  document and the focus are proven before text, nothing that could refuse
  comes after a command that acts. `PageInv` ties what a call has sent to its
  position in the script (`CallOK`), the focus it has proven to the document
  (`Aimed`), and snapshots to what was applied (`SeenInv`); that answers are true is
  a fact about the `except` clauses (`PersistentAnswerIsTrue`,
  `LegacyAnswerIsTrue`) in such a state.
- *Tools.* A behaviour of `Tools` is a behaviour of each of its modules
  (`EachMode`): the steps of one mode are stutters of the others.

All three refinements, of `SerialProvider`, `ReplayContract` and
`PortContract`, are proved.

Proved for every instance, and therefore in no run: the type invariants named
above, `DispatchInTime`, `NoLeak`, `Bounded`, `LeastRecentlyUsed`,
`JustUsedStays`, `OneInside`, `OneAtATime`, `OnePerLane`.

Every safety and action property of a passing run is a theorem. Only
model-checked is the liveness: `BarrierPasses`, `CloseEnds`, `QueueDrains`,
`PoisonLifts`, `CloseAnswers`, `LossNoticed`, `LockPasses`, `AppearedIsSeen`,
`SetupEnds`. It rests on fairness and ENABLED, which are out of the provers'
reach, as is induction over data.

## Not modelled, and the plan

- Event handlers, enabled domains and `run_until_event` of the persistent
  connection: a second protocol of waits, much like `NativeEvents`, over tables
  that the modelled operations do not read.
- Tab metadata, ranking of browser targets, URL normalisation, the matching of
  queries: data. The models choose any result.
- Generation of Apple Events scripts, accessibility calls, key codes, bounds on
  bytes and elements, schemas, formatting, telemetry: no control depends on
  their detail.
- JSONC and TOML editing, and the detection of installed clients and of
  competing servers: text and file inspection without interleavings. What the
  edits must not lose is `Rendered`.
- Screenshots, texts, clipboard and speech: they touch none of the state above.

Next, in this order:

1. `Coordinator` over `SerialProvider`, to replace its abstract worker, and
   `Transaction` over `PortContract`, to replace its own effects.
2. The late end of a replaced read loop, and `run_until_event` and the event
   handlers of the connection.
3. Pure operators against reference definitions: locator uniqueness, query
   classification, output bounds, edits of JSONC and TOML by structure.
