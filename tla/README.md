# A verification project for rzn-browser

rzn-browser drives a user's Chrome for local tools and for a cloud backend. This directory holds
TLA+ models of the parts of it where order, failure and concurrency decide whether it is correct,
the TLC runs that check them on small instances, and proofs, checked by TLAPS, that hold for every
value of the constants. Paths are relative to the repository; `supervisor*.rs` and
`native_runner.rs` are in `crates/rzn_browser/src/`.

Contents: 1 the system, 2 its components, 3 the modules, 4 the runs, 5 fairness, 6 the proofs,
7 disagreements between code and documents, 8 what is not modelled, 9 the plan. `PROJECT.json`
maps every definition to the lines it models, and lists hazards, mutants and theorems.

## 1. The system

A request travels a chain of processes:

    CLI / MCP client / dashboard
        -> supervisor daemon          crates/rzn_browser/src/supervisor*.rs   (one per user)
        -> native host                crates/rzn_native_host/src/main.rs      (one per browser profile)
        -> extension service worker   extension/src/background.ts             (one per browser profile)
        -> content script or debugger extension/src/contentScript.ts, cdp/*   (one per tab)

and two actors inside the supervisor receive work over the network: the cloud actor by a
websocket, the fleet loop by polling. A workflow is a list of steps; the runner sends each step
down the chain and decides about retries, cancellation and the run's record.

Each hop is a process or a task that can end at any time, keeps queues of its own, and correlates
requests and answers by ids of its own. The questions that matter are the same at every hop: does
a step run at most once, is what the caller is told of it true, is a cancellation as good as its
acknowledgement, does everyone who waits hear something, and what survives a crash.

## 2. Components

| Component | State it keeps | Operations | What makes it correct |
|---|---|---|---|
| Cloud actor (`supervisor_cloud.rs`) | receipt journal on disk and in memory, result cache with five maps, configuration, session, worker | admit an envelope, dispatch, complete, recover, prune, apply a configuration, connect | a command runs at most once under redelivery and crashes; verdicts are true; storage failures lose no receipt; a worker never hangs |
| Run slot (`supervisor_control.rs`, callers in `supervisor.rs`, `native_runner.rs`) | running run, cancel flag, pause flag and its file, quiesced flag | claim, poll, release, reclaim, cancel, pause, resume, quiesce | one live run; a cancellation stops its target only; shutdown spares runs; a dead owner's slot comes back |
| Native bridge (`supervisor.rs` 2360-2500, 3600-4700) | registry with epochs, a bounded queue and writer per bridge, pending table, ping strikes, lists of cancelled runs and requests | register and evict, call with one resend, time out, complete, ping, restart, cancel | one host per call; a refusal means "not sent"; a cancellation follows the step; every caller returns; a wedged host is replaced |
| Native host (`rzn_native_host/src/main.rs`) | one connection, its call tasks, correlation table, dispatch queue, stdout and reply channels | accept, refuse, relay, answer, cancel, time out, drain, exit | answers find their task and no other; a cancellation reaches Chrome behind its call; limits hold; a broken host exits |
| Fleet loop (`supervisor_fleet.rs`) | job journal, result files, job in hand, stop and cancel flags | reconcile, compact, poll, start, run, store, post, stop, abort | a job runs at most once; the server keeps what the job stored; accepted work is reported |
| Site queue (`site_queue.rs`, `native_runner.rs`) | per site a lock and a state file: parked tab, its browser, pause; per run the tab its calls name and the last tab it saw | enter, leave, park, rerun once in a fresh tab, pause, claim the run slot | a paused site is left alone; a tab kept open is remembered; a run ends whoever else holds lock or slot |
| Workflow runner (`workflow_runner/mod.rs`) | step index, retries left, cancellation, session | open, step, wait, retry, watchdog, snapshot, cancel, close | an external write is applied once, whatever is lost, late or started again, if an earlier answer names the tab |
| Supervisor ownership (`supervisor.rs` 5543-6805, `supervisor_service.rs`) | process, owner and transition locks, published owner state, stop request file, marker, launchd's job | start, watch, probe, back off, replace, stop, restart, install, uninstall | no active run is cut; a stop holds; an installed service comes back; launchd and the marker agree |
| Run store, workflow cache, log buffer | index and run files, cached manifests, ring of lines | append, read, collect, verify | the index names only complete runs; what is executed was verified |
| Sessions and targets (`supervisor.rs` 575-1372, 1770-2220, 3334-3558) | records of sessions with bridge, instance and marks; what each bridge told in its pings; guards of opens; marks of cancelled requests | pick a bridge, open, step, close, follow a reconnect, cancel a request, sweep | a session stays with its browser; a lost bridge is noticed; a cancelled request leaves no session, no tab and no later step |
| Health, readiness, diagnostics (`supervisor.rs`) | samples per bridge | record, report | observe only |
| MCP server; CLI, catalog, pairing; SDK and framing; planner; scripts | mostly none beyond one request | | |
| Service worker: requests (`background.ts` 940-2080, 3951-4607, 6470-6572) | leases with port and epoch, a FIFO and a tab per session, the native port, stored sessions | start, answer, close beside the FIFO, cancel, watchdog and quarantine, load, prune | one answer on its own port; one step at a time acts; no tab is lost; an abandoned step holds nobody up |
| Service worker: debugger leases (`background.ts`, `cdpLeaseDurability.ts`) | leases in session storage, a lock per tab | lease, extend, sweep, reconcile | a lease in use is not swept |
| Debugger client, content script, page bridge, popup | attachment, frames, document state | attach, route, act | commands reach the frame they name |

How they interact, and what is hard:

- Supervisor to native host: one socket per host. A bridge is cleared by eviction, by its reader, its
  writer, a failed ping or a caller, each in two critical sections (registry, then pending table)
  with any of the others in between. The caller keeps a sender and a bridge id over an await.
- Native host to Chrome: stdin and stdout, no acknowledgement. Channels are bounded; the reader of
  one pipe waits for room on the other. A connection may follow another before that one's tasks
  and entries are gone.
- Cloud: at-least-once delivery, a journal that is replaced by rename and may fail before or after
  it, tasks that outlive their session and their configuration.
- Fleet: at-least-once assignment, posts that are lost or answered late, a process that ends between
  any two writes, and a power failure that takes the writes that are not synced.
- Run slot: CLI processes that are killed, release late, or outlive the supervisor.
- Workflow run: a step whose answer is lost may be applied now or later, and whether a run did
  anything is known only from answers that name a tab.
- Ownership: three advisory locks and four files between processes that may be killed between any two
  of their steps, and launchd, which restarts some of them.
- Sessions: what a call resolved before an await may have been cleared, replaced or pinged after it;
  the record that tells a step its request may be gone.
- Service worker: a watchdog gives up a handler that goes on; a close passes the queue; the native
  port is lost and comes back under a handler; Chrome answers after the request has ended.

## 3. The modules

Nine families, each with a module of the component, an `MC` module that only defines constants for
TLC, its `.cfg` files, and a module of proofs (RunSlot and BrokerLease share one). History variables are named as such in the
declarations; no action reads one, so they do not affect what a model does.

### CloudReceipts, with the abstract CommandLedger

`CommandLedger` is the promise of `docs/reviews/2026-09-24-stability-audit.md` ("Direct Cloud Actor
commands") in two actions: run a command, if neither it nor a variant of it under another
fingerprint ran and nobody was told that it will not; tell a verdict, if it is justified.
`CloudReceipts` implements it (`LedgerSpec`).

| Model | Code |
|---|---|
| `disk`, `journal`, `opened`, `failing`, `backoff` | receipt file, `CommandReceiptJournal.entries`, `cache.receipts`, `persistence_error`, `journal_retry_after` |
| `order`, `cached`, `inflight`, `active`, `generation` | the maps of `CommandResultCache` |
| `tasks` | spawned dispatchers: spawned, past the generation check, dispatching, refused |
| `worker`, `orphans` | `run_cloud_command_worker`; admission tasks whose session ended |
| `Admit...` (eight actions) | `prepare_command`, one per outcome, each under the cache mutex |
| `Retries`, `Reopens`, `Writes` | `retry_receipt_journal`, `open`/`reload_async`, write by rename with both kinds of failure |
| `TaskCheck`, `TaskDispatch`, `TaskFinish` | the three critical sections of the dispatcher |
| `ApplyConfig`, `ReloadConfig`, `ActorReady` | configuration changes and `activate_scope` |
| `Start`, `Crash`, `Tick`, `BackoffElapses` | process and clock |

A deadline belongs to the command id. The clock is monotone (see section 8). A backend answer and
a timeout of the dispatch are the same outcome, `result`.

### RunSlot

`running`, `cancel`, `paused`, `quiesced` are the fields of the control block; `file` is what a restart
would read from `automation_state.json`. `Ask` is the check of the pause and `Begin` the claim, two
actions because a workflow is loaded in between. `Busy` is `owner_is_live`, which only knows a
process id: `ReusePid` gives a dead run's id to a stranger. `releases` are `runs.release` requests
that may be handled after their sender is gone. `Pause`/`Resume` change the flag under the lock;
`PersistRead`, `PersistTruncate`, `PersistWrite` are the three points at which overlapping calls to
`persist` can interleave outside it. Every `runs.release` is taken to name its run, as all callers in
the repository do: one that names none frees the slot of whoever holds it (`supervisor.rs:2316`,
`supervisor_control.rs:187`) and is left out.

### NativeBridge, with the abstract ExtensionCall

`ExtensionCall` is what a caller of `try_call_native_bridge_raw` may rely on: a call is given to one
host at most; "answered" means it was, a refusal that it was not and will not be; after a
disconnect, a timeout or a dropped caller, either.

| Model | Code |
|---|---|
| `registered`, `epoch` | `native_bridges`, registration order |
| `queue`, `writer`, `writing` | the bridge's channel and `run_native_bridge_writer` |
| `conn` | progress of `handle_native_bridge_connection`, registration included |
| `pending`, `reply`, `pc`, `target`, `held` | `native_bridge_pending`, the caller's oneshot, its program counter, the bridge it resolved and the sender it keeps |
| `Insert` ... `Return`, `TimesOut`, `Dropped` | `try_call_native_bridge_raw_inner`, one action per critical section |
| `StartPing` ... `RestartDrains` | the periodic health task and `request_native_bridge_restart` |
| `Hello`, `Evict`, `EvictDrains`, `Register`, `Accept`, `HelloFails` | registration |
| `Cancel`, `Collect`, `SendCancel`, `CancelReturns` | `runs.cancel`, `browser.cancel_pending` |
| `host`, `active`, `answers`, `HostAnswers`, `HostDies`, effect of `Write` | the native host, abstracted from `NativeHost` |

A bridge id is never used twice, so it also stands for the epoch comparison. Locks that the code
holds across awaits are `RegistryFree` and `McpLockFree`. The model covers the bridges of one
browser instance: between instances nothing is shared but the maps.

### NativeHost

A request is a pair of connection and request id, which stands for the wire id the code draws.
`Accept` and `Refuse` are the arms of the connection loop, `CancelTarget` is
`rewrite_cancel_target`, `Reaped` the joining of finished tasks before the next frame. `task` holds
each call task's progress and the verdict it has to send. `LockFree` is the lock of `native_pending`
that an expired task holds while it waits for room in the reply channel (`main.rs:1596-1608`).
`ShutdownSent` is what arrives on `shutdown_rx`; `Drain` and `Exit` are the end of `main`. The dispatch
queue and the frame its task holds are one queue. Chrome may answer any request it was given, at any
time and twice.

### Fleet

The journal is represented by the latest entry of each job, all that the code reads of it. `loop` is
where the loop's thread stands; `flush_pending` is `Flush`, `Post`, `Acknowledged`, `PostFails`, `Remove`,
`Flushed`, with `back` for its return address. The task of the job is `Begin` to `Finish`. `StopWaitsNoMore`
is the five second limit, after which the task is aborted at an await, or is past its last one. `Crash`
keeps both the journal and the results; `PowerFails` may lose results, which are not synced. The server
(`Record`, `Assigned`) is external: it keeps the first outcome, and assigns a job until it has one.

### WorkflowRun

A CLI run from the queue of its site to its record; runs of other sites and inside the supervisor only hold
the slot.

| Model | Code |
|---|---|
| `lock`, `site`, `parked` | the flock and the state file of a site, and what `SiteGate` keeps in memory (`site_queue.rs`) |
| `pc`, `at`, `retries`, `error` | where a run stands in `run_supervisor_workflow`, `run_once` and `run_workflow` |
| `ref`, `seen`, `again` | the tab every call names, the tab that `CliStepTransport` saw last, the rerun |
| `Acquire`, `Refused`, `Leave` | `SiteGate::acquire` and `finish`; the lock comes first, then the state |
| `Ready`, `Claim`, `ClaimFails`, `StoreFails`, `OpenSession` | `run_once` up to the first step; a claim that fails may have been granted, and the slot of an ended process is `Free` |
| `Send`, `Apply`, `ApplyLate`, `GiveUp`, `StepFails`, `RetryTransient`, `Resend` | one step: the browser may apply it before, after or without the answer |
| `TabMissing` | the failure that may start the run again; the tab may have gone before the effect or behind it, since a script step looks for its tab once more at its end (`background.ts:5250`) |
| `MayRetry`, `MustRerun` | only steps that write nothing are sent again; a run whose parked tab is gone starts again if it saw no tab |
| `Release`, `ReleaseLost`, `ReleaseLate` | `runs.release`, limited to two seconds and its result ignored: served, lost, or served later |
| `Cancel`, `CtrlC`, `Interrupt`, `Kill` | `watch_run_cancellation`, the signal handler, the check between steps, the end of the process |

### BrokerLease

The requests of one session in the extension's service worker (`background.ts`): steps that wait in the FIFO,
a session_close that passes it, a watchdog per step, the native port and the tabs of Chrome.

| Model | Code |
|---|---|
| `port`, `session`, `fifo`, `lease` | `nativePortEpoch`, `WorkflowSessionState` with its epoch and tab, the promise chain of the session, `BrokerRequestLease` |
| `loaded`, `forsaken` | whether the stored sessions were read, and the chain of a session object that the reading replaced |
| `Deliver`, `Behind`, `TakesTurn`, `Loaded`, `WorkReturns`, `Unwind`, `EndsStale` | `dispatchBrokerMessageWithWatchdog` and the handler, up to its check of the lease after each await |
| `asked`, `made`, `CreateReturns`, `CreateReturnsLate` | `guardedBrokerSideEffect` around `chrome.tabs.create`, and its late result |
| `DeliverClose`, `CloseAtOnce`, `CloseTab`, `CloseReturns` | `session_close` and `disposeWorkflowSession` |
| `Watchdog`, `Fence`, `Passes`, `QuarantineDisposes` | the timeout of a step, and the quarantine after it |
| `Disconnect`, `Connect`, `CancelRequest`, `Prune` | the port, RZN_CANCEL_REQUEST, the deletion of an idle session |

Commands are one kind of work, guarded by the abort race or not; after each, the code compares the lease.
`Undivided` says that no step waits in the chain of the replaced object. Names that RunSlot has as well carry
the prefix `Lease` here, since one module extends both.

### SupervisorOwner

| Model | Code |
|---|---|
| `sup`, `lock`, `lockPid` | supervisor processes, the flock of the process lock, the pid written in it |
| `owner`, `owned`, `request` | `watch_managed` with its locals, owner state file, stop request file |
| `marker`, `loaded` | `owner_marker_path`, launchd's job |
| `cli` | the client that holds the transition lock: ensure-ready, shutdown with and without force, restart, install, uninstall, and a direct start |
| `Reap`, `StopChild`, `Drained`, `Probe...`, `Leave`, `Spawn`, `List` | one turn of the owner's loop, in its order; `At` says where in the turn it is |
| `Ask` ... `Kill`, `Plan` ... `Unmark` | the steps of a client between which other processes see a difference; `ClientDies` between any two |
| `Shutdown`, `StopIdle`, `TakesBack` | the call that quiesces a supervisor; refused, or lost before or after it was served, it takes the request back |
| `Crash`, `Hang`, `OwnerDies`, `BootedOut`, `Wakes`, `SpawnFails` | faults, counted by `faults` |

A generation is a fresh UUID in the code and a counter here; process ids are reused. The contents of the
plist are taken as unchanged and `launchctl print` as working. The stop that an installation asks of the owner of an
unloaded job (`supervisor_service.rs:154`) is left out: the bootout has told that owner to quit, which
already keeps it from starting a child.

### Sessions

Which bridge a call of a session reaches. A bridge here is a connection with somebody behind it (`home`) who
has told, in pings, nothing, the browser, or the instance as well (`told`); what the bridge does with a
call belongs to NativeBridge.

| Model | Code |
|---|---|
| `records`, `lost` | `BrowserSessionRecord` by session, `disconnected_at_ms` |
| `Aim`, `Pick`, `ForSession`, `Matches` | `BridgeTarget`, `resolve_native_bridge_target`, `bridge_for_session_binding`, `resolved_targets_match_session` |
| `Bind`, `PickOwn`, `PickAim`, `PickTarget`, `Send`, `Unregister`, `ClearAndRetry`, `Answered` | `try_call_native_bridge_raw_inner`: the binding is cloned in one critical section and resolved in another |
| `OpenBegins` ... `OpenReturns`, `guard`, `DropGuard`, `OrphanSends`, `OrphanRemoves` | `try_session_open` and `SessionOpenGuard` |
| `StepBegins`, `Inherits`, `CloseBegins`, `CloseReturns` | `try_execute_step`, `BrowserSessionLifecycle::add_to`, `try_session_close` |
| `CancelMarks`, `CancelScans` | `browser.cancel_pending`, before and after it releases `mcp_cancelled` |
| `Unlist`, `ConnectionEnds`, `SessionsMarked`, `Restart`, `Register`, `PingRecorded` | `clear_native_bridge` with its two critical sections, and who calls it |

A client has one call of a session under way at a time. Bridges are numbered as they register, which is the
order of `registered_at_ms` and epoch. The caller origin is known for every bridge. A mark of
cancel_pending is kept for a minute, longer than a call waits, and is never removed here. A call cancelled by
`run_id` is NativeBridge's. A cancel_pending that is dropped between its mark and its scan is left out.

## 4. The runs

Distinct states and seconds are for two workers of one machine.

| Run | Instance | States | What it shows |
|---|---|---|---|
| receipts | 2 scopes that share a command id, 2 fingerprints, 3 generations, capacity 1, 1 storage failure, 1 crash | 577,892 (157 s) | at most one dispatch, durable receipts, no scope hears another's result, refinement of `CommandLedger`; the worker answers or its session ends |
| slot | 1 local run, 2 CLI runs, 2 boots, 1 reused process id, 1 pause call | 698,358 (33 s) | exclusion, precise cancellation, shutdown, reclaiming |
| bridge_retry | a step of a run, 2 hosts, queues of 1 | 345,219 (118 s) | one host per call, refinement of `ExtensionCall`, calls return, cleared connections end |
| bridge_pings | a step of an MCP request, 3 pings (interchangeable), 1 host, queue of 2 | 1,245,281 (47 s) | a cancellation under the two locks follows its step |
| host_calls | a call, its cancellation, the call again on a second connection; every queue 1 deep | 2,416,563 (77 s) | cancellations meet their call, verdicts are true |
| host_exits | 2 calls, a limit of 1, a frame that is too large; queues of 1 | 27,358 (11 s) | every call settles, a broken host exits |
| fleet_jobs | 2 jobs, 1 crash or power failure, 1 stop | 591,942 (82 s) | a job runs once, reports are true, completed jobs are remembered, accepted ones reported |
| workflow_runs | 2 CLI runs, 3 steps (one opens a tab, one writes and names no tab, one waits), 1 retry, 2 tabs, 2 faults | 1,193,361 (199 s) | a write behind a step that names the tab is not repeated, a paused site is left alone, kept tabs are remembered, runs end unless a rerun waits for its own slot |
| broker_steps | 2 steps, 1 session_close, 2 tabs, 2 connections of the port, 1 fault | 813,812 (175 s) | one answer at home, one current step, no tab lost, steps and closes get their answers |
| owner | one command of each kind, 2 pids, 2 faults, threshold 2 | 684,798 (35 s) | the marker agrees with launchd, no run is cut, a stop holds, the service recovers |
| owner_restart | one restart, 1 fault | violation | section 7 |
| sessions | 1 session of an MCP request, 2 profiles of one browser (interchangeable), 2 bridges, 1 step, for its session or for an instance | 2,711,732 (100 s) | frames stay with the session's browser, losses are noticed, a cancelled request leaves nothing behind and sends nothing more |

Why these bounds are enough to be interesting. In the receipts a command id in two scopes at
capacity one reaches eviction, pruning, refusal and a redelivery after each, and the two scopes meet in the
cache's ids; three generations are one change from a scope to the other and back. What takes two commands
of one scope at once is left to the proofs, which hold for any number. One failure and
one crash reach both outcomes of a failed rename, each before and after a restart. In the slot three runs are the least that
show a late release by a first owner under a second one while a third asks. In the bridge the resend
needs two hosts and no more: a call is sent twice at most, whatever the number of hosts. Queues of
one make "full" common; the pings run uses two so that a cancel frame can stand behind a call. Three
pings are one more than the restart takes. In the host two connections are all that overlap, since a
third can open only when the second has left its loop; queues of one put every writer at its limit. In
the fleet the two jobs differ in every combination of phases because a job is posted and reassigned
while the other is in hand. Of a workflow three steps hold all that the runner
tells apart, two runs are a holder and one who waits, and two tabs one that was parked and a fresh one. In
the service worker two steps are one that is abandoned and its successor; the close stands beside both.
For the owner one command at a time is what the transition lock allows; commands in sequence differ from one
only by the files that the first leaves, which the crash of a client leaves as well (two commands with
one fault, 708,000 states, passed too). `MaxGen` and `MaxOwner` lie beyond what the faults allow and never
bind. For the sessions two profiles of one browser are the least that can be confused, and two bridges one
that is lost and one that follows; either profile may be behind either. The same run without symmetry
(5.4 million states) passed too. The proofs of section 6 remove these bounds for what they cover.

`CHECK_DEADLOCK FALSE` stands in the configurations of the slot, the bridge, the host, the runs, the
service worker, the owner and the sessions, which stop for good: a bounded set of runs, calls, requests or
commands is used up, or the process exited. Symmetry is used for pings, and for profiles exchanged together
with their instances, which the code only compares, in runs without liveness properties. Types are proved
in every family that has proofs, and need no run then.

Every property of a passing run has a mutant in `PROJECT.json`: a plausible bug in a mapped definition
(a pruned receipt that has not expired, a release that frees whoever holds the slot, a table that is
cleared for all connections) that makes TLC report the property violated. Mutants stand next to what
they change and say so.

## 5. Fairness

- CloudReceipts: weak fairness of the worker's admission and reply and of each dispatcher. Tokio polls
  spawned tasks until they end and `dispatch_command` has a timeout. Nothing is assumed of network,
  backend, clock, storage or configuration.
- RunSlot: a CLI run that waits polls, and the supervisor serves the request. Nothing makes a run end.
- NativeBridge: callers, connections, writers and cancellations are tasks of the runtime; a write ends
  within `NATIVE_BRIDGE_WRITE_TIMEOUT`; timers fire. Hosts answer, or never do.
- NativeHost: tasks run, their timers fire, writes to pipes are limited in time, the process exits after its
  drain. Strong fairness for `Relay` only: the dispatch tasks and the stdin reader compete for room on
  the stdout channel, and a tokio channel serves those who wait in turn. Nothing is assumed of the
  supervisor, of Chrome or of the extension.
- Fleet: both threads run and executions end by their deadlines. Strong fairness of `Arrives` and
  `Acknowledged`: a post that is repeated for ever gets through, and so does an answer. That is the
  least a report needs; a server that refuses a result every time is not covered.

- WorkflowRun: a run's process goes on (`RunStep`: its calls have watchdogs, and the claim is polled for, without
  any limit, until it is granted), or its interruption does; holders outside the model release the slot in the
  end, since their calls have watchdogs too. Nothing is assumed of the browser, which may never answer,
  nor of a release that was given up: it may be served late or never. In the last case a rerun polls for the
  slot of its own process for ever; `RunsEnd` excepts just this (`SelfBlocked`).
- BrokerLease: handlers go on past their awaits, timers of watchdogs fire, Chrome closes the tabs it was told
  to close, and storage answers once. The work of a step and the opening of a tab may hang for ever, and the
  port need not come back.
- SupervisorOwner: launchd starts the owner of a loaded job again (KeepAlive), the owner's loop and supervisors
  that boot or quit go on, back-offs and graces elapse. Nothing is asked of clients. A child is assumed to boot
  within its startup grace, and probes of the lock that hold it for an instant are left out.

## 6. The proofs

All theorems hold for any sets and bounds that satisfy the `ASSUME`s of the modules, which only say
that sets are disjoint, `Nil` is none of their elements, bounds are naturals, and (NativeHost, RunSlot)
some sets are finite.

CloudReceipts (`CloudReceiptsProofs`). `TypeCorrect`; `DispatchSafe`, that `DispatchInv` is inductive;
`AtMostOneDispatchHolds` and `AckedIsDurableHolds` from it. At most one dispatch is not inductive: a
state could have an idle journal and a live dispatcher. `DispatchInv` adds that every claim on a command
(acknowledged, cached, in flight, spawned or run) has its receipt on disk and, if the journal is open, in
memory until its deadline (`ClaimsAreDurable`); that memory never knows more than the disk
(`JournalIsOnDisk`, which a write that fails after the rename threatens); that a command has one
dispatcher, of a generation no later than the cache's (`OneTaskPerCommand`); and that the journal is
open whenever the supervisor trusts it (`JournalIsOpen`). Expiry closes the argument: a receipt may be
pruned once the deadline has passed, when nothing is accepted any more. Lemmas about `Reopens`,
`Retries`, `Recovered`, `Pruned` and `Writes` carry the cases. `VerdictsAreTrueHolds` and `LedgerImplemented` rest on
`VerdictsHold`, that `VerdictInv` is inductive. A verdict is decided long before it is told: it may be in a receipt,
in the cache or with a worker that waits, and it is a receipt again after it was told. `ResultsAreFinal` and
`UndispatchedIsFinal` say of all four places that a result belongs to a command that ran and has no dispatcher left,
that no receipt then says anything else, and that a command known not to be dispatched has no dispatcher, did not run
and is remembered until its deadline. To keep them it takes that a waiting worker and an in-flight entry have a
dispatcher of the current generation (`WaitersHaveTasks`: this is where a configuration change that empties the
cache under a running dispatcher matters), that the claims of a command, its receipt included, are of one fingerprint
(`OneClaim`), and that a result in memory is on disk (`JournalResults`: a reload cannot turn a result that was told
into "indeterminate"). `LedgerImplemented` is the refinement: a dispatch is `Run`, an answer or an ack `Tell`, and
`VerdictInv` gives the justification that `Tell` asks for.

RunSlot (`SlotAndLeaseProofs`). `SlotTypeCorrect`; `SlotIsExclusiveHolds`, `StopsOnlyItsTargetHolds`, `ShutdownSparesRunsHolds`
by `SlotInv`: a release on its way belongs to a run that is over (`ReleasesAreStale`), no claim is of a
later boot (`ClaimsAreDated`), a set flag has a target and the slot its owner (`FlagHasTarget`), a quiesced
slot is empty (`QuiescedIsEmpty`). Without the first a late release could free a live run's slot, without
the third the flag of a reclaimed run could stop its successor.

BrokerLease (`SlotAndLeaseProofs`). `LeaseTypeCorrect`. `OneCurrentStepHolds` by `QueueInv`: a request is in one queue,
once, until it ends or its watchdog fires, and a step that runs and has not timed out is the first of one; with
`TimedOutInv` (who timed out is cancelled) two current steps would both be first. `AnsweredOnceAtHomeHolds` by
`AnswerInv`: who has an answer is over or timed out, so that the handler's and the watchdog's exclude each other.
`UncancelledIsCurrent` by `FreshInv`: the port breaks, a close moves the epoch, a watchdog fires, an idle session is
deleted, and each cancels every lease it makes stale, or finds none. The code relies on it without saying so: the
check after an operation that has settled cleans up nothing, so a lease that went stale without an abort would
lose its tab. `TabsAreOwnedHolds` by `TabInv` and `FreshInv`: only an uncancelled step opens a tab, of which
there is one, and the session has no tab then; whoever has asked for one or has been given one waits for it, or
was cancelled and will close it. The last two are under `[]Undivided`, and have to be: loading replaces the epoch by 0
without cancelling anybody (section 7). They cover every run up to its division, since it may stutter from there;
`NothingStored` shows that a session of which nothing was stored is never divided.

NativeBridge (`NativeBridgeProofs`). `TypeCorrect` needs `StrikesInv`: pings run one after the other and
the second failure takes the bridge from the registry, so there is no third. `OneHostPerCallHolds` and
`RefusedIsNotSentHolds` by `SentInv`: whatever holds a call, a queue, a writer or a host, is of its current
target, and a caller at a point where it may send again, or that was refused, has its call nowhere.
`NoMismatchedAnswerHolds` and `ReturnedIsForgottenHolds` by `PendingInv` and `VictimInv`: an entry names its
caller's target, and a caller sends again only while its oneshot is empty. `KeepsPromiseHolds`: with
`AnswerInv` (answers come from hosts that had the call), every step maps to one of `ExtensionCall` or a
stutter. `CancelFollowsCallsHolds` by `CancelInv`: a cancellation collects its calls once and then queues a frame for each,
while they are written and answered. The invariant says that, from the first frame on, a call that its bridge still
runs or will run has a stop behind it, in the channel or with the writer (`Follows`), or is still collected. It needs
that no call is aimed at a connection before its hello (`AimedInv`), and what a writer holds at each point (`WriterInv`).

NativeHost (`NativeHostProofs`). `TypeCorrect`; `VerdictsMatchChromeHolds` by `SentInv` (what is queued for
Chrome, or written, was accepted) and `TasksMove` (the ways a task can move); `EntriesAreWaitersHolds` by
`TableInv`, which adds that tasks live only while their connection is open or closing;
`TasksAreBoundedHolds`, since only `Accept` brings a connection a task and it looks at the limits first.
`CancelMeetsItsCallHolds` by `OrderInv`: frames go through a queue of their connection, a common one and the output, and
in each of them a cancellation comes only after the request it names, wherever that is by now, and one that found no
request has its own ahead of it only when nobody waits for that any more (`MayFollow`, `Ordered`). It needs that a
task's frame is on its way (`TasksHaveFrames`) and that a dispatch queue is of one connection (`QueuesAreApart`).

Fleet (`FleetProofs`). `TypeCorrect`, `RunsOnceHolds`, `ReportsAreTrueHolds`, `CompletedIsRememberedHolds` from
one invariant `Inv`: where the loop may stand with a job in hand (`LoopInv`); that an accepted or running
entry has someone who will finish it, and "posted" an outcome at the server (`JournalInv`); that a job in
hand left no trace before its task or the loop stores a result (`HandInv`); and that results, posts in flight
and records agree while the server has none (`ReportInv`).

WorkflowRun (`WorkflowRunProofs`). `TypeCorrect`; `PausedSiteIsLeftAloneHolds`, since who is inside holds the lock and
reads the state behind it (`GateInv`); `WritesOnceHolds` by `WriteInv`: a write that was sent is on its way, waiting
to be applied late, or applied, and only one of them (`SentOnce`); what a run has yet to reach was not sent
(`AheadIsUnsent`), and a run that has seen no tab has passed no step that gives one (`NothingSeen`). The
rerun needs all three: a run that may start again has passed no step that names the tab, so the writes behind
such a step were not reached, however the last step failed. Of a write with no such step before it the theorem
says nothing, and it may be repeated (section 7). `KeptTabIsParkedHolds` by
`ParkInv`: the tab a run saw last is the one it was given, or its session's (`SeenInv`); it was given the one of the
state file, and runs again only when that is gone (`GivenInv`); and what it leaves open it will write to the state
file, or has written (`LeftInv`).

SupervisorOwner (`SupervisorOwnerProofs`). `TypeCorrect`; `JobHasMarkerHolds` by `JobInv`, which says at which step of an
installation, rollback or uninstallation the job may be there; `NoRunIsCutHolds` by `RunInv`: the lock is
held exactly by the supervisor that serves (`LockIsUp`), a run is active only in one that has not quiesced
(`RunsAreUp`), and what the owner takes for its child is its child (`ChildInv`, `DrainInv`), though
process ids are reused. `StopHoldsHolds` (an action property) by `StopInv`, with `GensInv`, `FileInv` and `ClientInv`:
generations are given out once, so whoever has the one in the running owner's file is its child; a client that has read
the file names that child or nobody; and its request, which neither forces nor restarts, stays until the next
command, so the owner starts no child before that.

Sessions (`SessionsProofs`). `TypeCorrect` with `BridgesInv` and `CallInv` (what a call holds at each point).
`StepsStayHomeHolds` by `HomeInv`: the record, the copy that a call took, and the bridge it resolved are all of
the installation the session was opened on, and a target that was compared with it names its instance;
the lemma `ForSessionHome` is the heart, that a bridge which tells the instance and has the same extension is
that installation again. `LostIsMarkedHolds` by `LostInv`. `CancelledLeavesNoSessionHolds` by `RemovedInv`: while the record of
a cancelled session is there, its close, its orphan close or the recheck of its opener is still to come.
`CancelledIsQuietHolds` by `QuietInv`: a call under way carries the request of its session, or has found no record
and will find none. `CancelledLeavesNoTabHolds` by `CloseInv`: while every bridge is up and nobody else closes the
session, a tab where it was opened means that a close is still to come, as a queued orphan close, a closer that has
not sent, or a record that the scan or its closer will find (`TabInv`, `WillClose`). That needs to know who can be
under way at each stage of the opener (`StageInv`), that the guard names the bridge of the open (`GuardInv`), that a
session in use keeps its record until the scan (`UsedInv`), and that only deaf bridges are cleared (`UpInv`). That no
tab is open elsewhere is `TabsAtHome`, from `HomeInv`.

Only model-checked: all liveness (`WorkerAnswers`, `StrandedSlotIsReclaimed`, `CallsReturn`,
`ClearedConnectionEnds`, `CallsSettle`, `BrokenHostExits`, `AcceptedIsReported`, `RunsEnd`, `StepsSettle`, `ClosesAnswer`,
`Recovers`), which TLAPS cannot do under
fairness and `ENABLED`. Every invariant and every other action property that a run checks is proved. The
other way round, `RefusedIsNotSentHolds`, `ReturnedIsForgottenHolds`, `NoMismatchedAnswerHolds`, `EntriesAreWaitersHolds`
and `TasksAreBoundedHolds` are proved of every instance and no run repeats them. No module declares a RECURSIVE operator, and nothing needs an
induction over data, which TLAPS could not do here either.

## 7. Disagreements between code and documents

One is shown by a run that ends in a counterexample:

- `RestartReturns` (owner_restart). `supervisor.rs:7944` tests that a "restart intent restarts child even if it exits
  before owner handles request", and the CLI's documentation says that heal restarts a stuck supervisor.
  The owner reads the request before it reaps an ended child or probes a hung one, and clears none
  afterwards. A request written in between names a child that is gone, and since it names the owner, no
  child is started until somebody calls ensure-ready.

Five are stated as properties of their modules, and TLC finds them violated at once, though no listed run
repeats it:

- `RecoveryWaitsForDispatchers` (CloudReceipts). The audit says that storage is retried "when no
  command remains in flight", and a comment that an accepted receipt at recovery "has no live
  dispatcher". `clear()` empties the in-flight map on a configuration change while dispatchers run on, so
  recovery may declare a running command indeterminate. The command is still not dispatched twice
  (proved).
- `PausePersists` (RunSlot). The refusal of a run says that the pause persists across restarts.
  Overlapping `pause` and `resume` calls write the file outside the lock and may leave the other value, or
  text that does not parse, which is read as not paused.
- `FinishedPrecedesPosted` (Fleet). A test says that "finished must precede posted". The loop may post
  a stored result before the task has journaled finished; the journal then ends with finished, and the
  next start finds a finished job without a result, stores an aborted one and posts it. `ReportsAreTrue`
  shows that the server's record stays right only because the server keeps the first outcome.
- `RerunRepeatsNothing` (WorkflowRun, with a write as its first step). The comment on the rerun says that "a rerun after
  progress could repeat a submit or send" and that it happens "only if no step ever ran in the tab"
  (`native_runner.rs:82`). Whether one ran is judged by successful answers that name the tab. A first step
  that runs a script applies its effect, then asks Chrome for its tab (`background.ts:5250`, 5269); if the
  tab was closed meanwhile, the step fails with "No tab with id", and the run starts again and applies
  it a second time. `WritesOnce` therefore speaks of writes that come after a step whose answer names the tab.
- `CloseRetainsSession` (BrokerLease, with a stored session). The audit says "Session close retains its epoch/FIFO
  until response cleanup finishes" (line 602). When a session_close is the first message of a new service
  worker, reading the stored sessions replaces the state it has moved on (`background.ts:1066`): the close is
  stale when it goes on, its tab stays open and its answer is dropped. broker_steps starts with no
  stored session, so that its properties speak of everything else.

  The proofs of BrokerLease showed what else this replacement does to steps that came first. The chain of promises
  of the replaced object runs on beside the new one, so that two steps of the session may act at a time. If
  the user has closed the stored tab, both may open one. The watchdog of one makes the other stale without
  cancelling it, so that nobody closes its tab; without a watchdog, the second to come back takes the session
  over from the first, whose tab then belongs to nobody. TLC shows it with a stored session and three tabs, if `OneCurrentStep`
  is stated without `Undivided`, and of `TabsAreOwned` as it is.

Met while modelling, and not stated by a property:

- The audit asks that the registration of a bridge close the older ones of its instance. Two at the same time
  do not see each other (`supervisor.rs:3976`); and the hello carries no instance id, so today no registration
  evicts anyone.
- The slot lives in memory: a CLI run that began before a restart of the supervisor goes on beside the
  next claim (`native_runner.rs:99`). `SlotIsExclusive` is about one supervisor process.
- A cancellation is acknowledged although a step of a bridge that was cleared meanwhile still runs; it is
  in no table any more (line 539 of the audit promises more). `CancelFollowsCalls` is about registered bridges.
- A redelivered command whose receipt was pruned after its deadline is answered "expired before
  acceptance; command not dispatched", though it may have been. The other refusals at admission with this text
  (capacity, storage) record no verdict either; `VerdictsAreTrue` is about recorded ones.
- A process id that was reused keeps a dead run's slot for good. `StrandedSlotIsReclaimed` excludes it.
- A pause that arrives between the check of the flag and the claim does not stop the claim (line 526 of the audit).
- An entry made after the last drain of a cleared bridge waits for its own timeout (`supervisor.rs:6972`),
  and stays in the table if its caller was dropped (line 447 of the audit).
- The host's limit counts finished tasks until the next frame joins them, so a call may be refused while
  nothing is in flight; and an expired task holds the table while it waits for room.
- Fleet: a redelivery after the compaction would run again; errors of journal and result writes are ignored.
- Runs: a cancellation around a missing parked tab is lost by the rerun, which has a flag and a run id of its
  own (`native_runner.rs:84`; line 210 of the audit); the release of the slot is given two seconds and its result is
  ignored (`native_runner.rs:239`), and if it was lost, the rerun polls for ever for a slot that its own live
  process holds, with the lock of its site (`native_runner.rs:102`); a silent step does not mark the tab as used; the state of a site remembers one tab
  (`site_queue.rs:42`); an error of the run store replaces the outcome, so that a challenge is not remembered
  (`native_runner.rs:308`); runs inside the supervisor pass no gate, though `site_queue.rs:6` says that every manifest run does;
  a session leaks if its run is cancelled during session_open.
- Service worker: neither RZN_CANCEL_REQUEST nor a session_close reaches requests that still wait in the FIFO
  (`background.ts:4408`, 4157; lines 208-226 and 444 of the audit), and such a step opens a new tab after the
  close; a quarantine may dispose of the tab of the next step (3951); the watchdog of a step drops the
  answer of a concurrent close (4090).
- Debugger leases: the sweep decides by a list it read before an await (`background.ts:146`) and detaches a tab whose
  lease was extended; reconciliation detaches beside the router (184); a setAutoAttach that times out leaves
  the debugger attached without a lease (`cdp/frameRouter.ts:133`).
- Ownership: `shutdown --force` without an owner ignores the force (`supervisor.rs:6643`; line 371 of the audit); a
  second shutdown while the child of the first is exiting clears the request, and the owner starts the child
  again; so does a single shutdown that was served but whose answer is lost (`supervisor.rs:6676`), and
  `StopHolds` is about those that succeeded; an owner that answers a restart clears a newer stop; a shutdown that finds nobody leaves no
  request, so an owner that starts meanwhile brings a child; an install without restart does not clear the request
  of a stopped service, and waits in vain; an uninstall during a back-off writes no request; a hung supervisor
  that the owner did not start keeps it waiting for ever; after a forced stop the count of failed probes stays; a
  client that is killed between its request and the stop leaves a request that suppresses restarts;
  `unwrap_or(false)` at `supervisor_service.rs:178` removes the marker without knowing, if `launchctl print` fails.
- Sessions: with a default browser saved, every step asks for it by preference, which goes before the session
  (`workflow_runner/mod.rs:351`, `supervisor.rs:629`); when that browser connects in the middle of a run
  that was opened elsewhere, the rest of the run goes there, though the test at `supervisor.rs:12710` says that a
  different browser instance does not resume a session. `StepsStayHome` is about firm targets.
- A target that names a browser is resolved again after it was compared with the session, and then may
  be another profile. One that names an instance is compared by the instance only, which a copied profile
  shares, while a session's own reconnect compares the extension too.
- A record inserted after its bridge was cleared is never marked, and never swept. A session opened before
  the first ping has no instance and cannot follow its browser. A ping whose outcome comes after the clear
  makes a health entry for a bridge that is gone (`supervisor.rs:4246`).
- An orphan close that is refused leaves the record; a close that fails or is dropped removes the record and leaves
  the tab; the orphan close goes to the bridge of the open, though its navigation may have been resolved to
  another. A step for the preferred browser that begins after the record was removed carries no request id,
  so its cancellation does not find it.
- A step of the session under an MCP request of its own is not cancelled with the request that opened the session,
  and may open a tab after the close that the cancellation sends. One whose target is a browser, or an instance
  that a copied profile shares, may open a tab in the other profile, where that close does not go. Hence the
  conditions `StepsAreOwn` and `AimsAreHome` of `CancelledLeavesNoTab`, which the proof showed to be needed.

## 8. What is not modelled

- Text: prompts, formatting, logs, URLs, JSON layout, parsing. Payloads are ids.
- Wall-clock time, except the deadlines of commands: elsewhere a timer may fire whenever it is armed. A
  clock that steps back is excluded; with one, a pruned command would look unknown and unexpired.
- Storage: atomic rename and synced journals are taken at their word; unsynced results may be lost. Disk
  full is modelled for the receipts, not for the fleet, whose code ignores it.
- The protocol of the websocket, health metrics, readiness, diagnostics, status reports.
- The planner (it depends on a language model), the content script (DOM semantics), the popup (it
  displays), CLI, catalog and pairing (commands that run once), SDK and devkit (no state).
- Planned but not yet there: the components of section 9.

## 9. Plan

Order so far, by importance: receipts, slot, bridge, host, fleet, then the runs over them, the service worker,
ownership and sessions. Next, in this order:

1. `CdpLease`: debugger leases in session storage, extension, the sweep outside the tab's lock, restarts of
   the worker, the router's own attach and detach (three disagreements of section 7 are waiting there).
2. `WorkflowCache` and the run store: verified reads against collection; index lines against run files.
3. The loop of the autonomous planner with the model as a nondeterministic choice: budgets, repeated actions,
   recovery.
4. Compositions: BrokerLease under NativeHost instead of its free Chrome; Sessions over NativeBridge.

Where a new component asks a question close to one that a present run answers, the
runs are merged: a liveness run and a safety run of one family differ only in bounds.
