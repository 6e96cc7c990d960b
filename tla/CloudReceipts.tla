---------------------------- MODULE CloudReceipts ----------------------------
(***************************************************************************)
(* The supervisor's cloud actor: durable command receipts, the volatile    *)
(* result cache in front of them, the dispatcher task of each accepted     *)
(* command, the websocket session that feeds one command at a time to its  *)
(* worker, configuration changes, storage failures and process crashes     *)
(* (crates/rzn_browser/src/supervisor_cloud.rs).                           *)
(*                                                                         *)
(* A backend delivers a command envelope as often as it likes.  An envelope*)
(* is <<scope, command_id, fingerprint>>: the scope is the paired actor,   *)
(* workspace and server, the fingerprint everything about the command that *)
(* must not change between deliveries.  Its deadline belongs to the        *)
(* command id.  `ran' and `told' are history: how often an envelope was    *)
(* handed to the browser, and what the backend was told about it.          *)
(***************************************************************************)
EXTENDS Integers, FiniteSets, Sequences

CONSTANTS
  Scopes,        \* receipt_scope values
  Commands,      \* command_id values
  Fingerprints,  \* command_fingerprint values
  Nil,           \* absent value
  Deadline,      \* deadline_ms of each command id
  Capacity,      \* MAX_CACHED_COMMAND_RESULTS
  MaxTime,       \* bound on the clock
  MaxGeneration, \* bound on the generation counter
  MaxFaults,     \* bound on failing reads and writes of the journal
  MaxCrashes     \* bound on crashes of the supervisor

ASSUME DeadlineAssumption == Deadline \in [Commands -> Nat]
ASSUME BoundsAssumption ==
  /\ Capacity \in Nat \ {0}
  /\ MaxTime \in Nat /\ MaxGeneration \in Nat
  /\ MaxFaults \in Nat /\ MaxCrashes \in Nat
ASSUME NilAssumption ==
  Nil \notin Scopes \cup Commands \cup Fingerprints \cup {"result", "undispatched", "indeterminate"}

Keys == Scopes \X Commands
Envelopes == Scopes \X Commands \X Fingerprints
KeyOf(e) == <<e[1], e[2]>>

\* What a finished command can say: the browser's own answer, "the command was
\* not dispatched", or "accepted, but nobody knows what became of it".
Results == {"result", "undispatched", "indeterminate"}
Verdicts == Results \cup {"ack", "expired"}

VARIABLES
  now,        \* now_ms()
  up,         \* the supervisor process runs
  disk,       \* the receipt file
  opened,     \* cache.receipts is Some
  journal,    \* CommandReceiptJournal.entries
  failing,    \* cache.persistence_error is Some
  backoff,    \* journal_retry_after lies ahead
  generation, \* cache.generation
  active,     \* cache.active_scope
  order,      \* cache.order: cached command ids, oldest first
  cached,     \* cache.entries and cache.fingerprints
  inflight,   \* cache.inflight: fingerprint of the command with a live receiver
  tasks,      \* dispatcher tasks
  config,     \* the configured scope
  session,    \* "none", "hello" (actor.hello sent) or "ready"
  worker,     \* run_cloud_command_worker
  orphans,    \* admission tasks whose session ended under them
  faults,     \* storage failures so far
  crashes,    \* crashes so far
  ran,        \* history: dispatches of each envelope
  told        \* history: verdicts sent about each envelope

store == <<disk, opened, journal, failing, backoff, faults>>
cache == <<generation, active, order, cached, inflight>>
link == <<config, session, worker, orphans>>
history == <<ran, told>>
vars == <<now, up, store, cache, tasks, link, crashes, history>>

NoReceipt == [state |-> "none", fp |-> Nil, result |-> Nil]
Receipt(state, fp, result) == [state |-> state, fp |-> fp, result |-> result]
NoReceipts == [k \in Keys |-> NoReceipt]
Held(entries) == {k \in Keys : entries[k].state # "none"}

NoEntry == [fp |-> Nil, result |-> Nil]
NoWork == [state |-> "idle", env |-> Nil, result |-> Nil]

ReceiptType ==
  {NoReceipt}
    \cup [state : {"accepted"}, fp : Fingerprints, result : {Nil}]
    \cup [state : {"completed"}, fp : Fingerprints, result : Results]
EntryType == {NoEntry} \cup [fp : Fingerprints, result : Results]
TaskType ==
  [env : Envelopes, generation : Nat,
   state : {"spawned", "admitted", "running", "refused"}]
WorkerType ==
  {NoWork} \cup
  [state : {"admitting", "waiting"}, env : Envelopes, result : Results \cup {Nil}]

TypeOK ==
  /\ now \in Nat /\ up \in BOOLEAN
  /\ disk \in [Keys -> ReceiptType] /\ journal \in [Keys -> ReceiptType]
  /\ opened \in BOOLEAN /\ failing \in BOOLEAN /\ backoff \in BOOLEAN
  /\ generation \in Nat
  /\ active \in Scopes \cup {Nil}
  /\ order \in Seq(Commands)
  /\ cached \in [Commands -> EntryType]
  /\ inflight \in [Commands -> Fingerprints \cup {Nil}]
  /\ tasks \subseteq TaskType
  /\ config \in Scopes \cup {Nil}
  /\ session \in {"none", "hello", "ready"}
  /\ worker \in WorkerType
  /\ orphans \subseteq Envelopes
  /\ faults \in Nat /\ crashes \in Nat
  /\ ran \in [Envelopes -> Nat]
  /\ told \in [Envelopes -> SUBSET Verdicts]

Init ==
  /\ now = 0 /\ up = FALSE
  /\ disk = NoReceipts
  /\ opened = FALSE /\ journal = NoReceipts /\ failing = FALSE /\ backoff = FALSE
  /\ generation = 0 /\ active = Nil
  /\ order = <<>>
  /\ cached = [c \in Commands |-> NoEntry]
  /\ inflight = [c \in Commands |-> Nil]
  /\ tasks = {}
  /\ config \in Scopes \cup {Nil}
  /\ session = "none" /\ worker = NoWork /\ orphans = {}
  /\ faults = 0 /\ crashes = 0
  /\ ran = [e \in Envelopes |-> 0]
  /\ told = [e \in Envelopes |-> {}]

-----------------------------------------------------------------------------
(* The receipt file.  A write replaces the whole file by rename; it can    *)
(* fail before the rename, or after it (permissions, directory sync), when *)
(* the caller sees an error although the new content is in place.          *)

\* Mutant: success is reported before the new content is in place.
WritesUnsynced(file, entries) == {[ok |-> TRUE, disk |-> d] : d \in {file, entries}}

\* What writing `entries' over `file' can do.
Writes(file, entries) ==
  {[ok |-> TRUE, disk |-> entries]}
    \cup {[ok |-> FALSE, disk |-> d] : d \in IF faults < MaxFaults THEN {file, entries} ELSE {}}

\* Mutant: recovery declares finished commands indeterminate as well.
RecoveredAllDoubtful(entries) ==
  [k \in Keys |-> IF entries[k].state # "none"
                  THEN Receipt("completed", entries[k].fp, "indeterminate") ELSE entries[k]]

\* Entries read at startup or recovery: an accepted receipt has become terminal.
Recovered(entries) ==
  [k \in Keys |-> IF entries[k].state = "accepted"
                  THEN Receipt("completed", entries[k].fp, "indeterminate")
                  ELSE entries[k]]

\* CommandReceiptJournal::open and ::reload_async: read the file and, if that
\* changed a receipt, write it back.  A first open that fails leaves no journal;
\* a reload that fails to write keeps the entries it read.
Reopens ==
  LET found == Recovered(disk)
      writes == IF found = disk THEN {[ok |-> TRUE, disk |-> disk]} ELSE Writes(disk, found)
      readErrors == IF faults < MaxFaults
                    THEN {[ok |-> FALSE, opened |-> opened, journal |-> journal, disk |-> disk]}
                    ELSE {}
  IN  readErrors \cup
      {[ok |-> w.ok, opened |-> opened \/ w.ok,
        journal |-> IF opened \/ w.ok THEN found ELSE journal, disk |-> w.disk] : w \in writes}

NoneInflight == \A c \in Commands : inflight[c] = Nil

\* retry_receipt_journal: nothing to do, not now, or reopen the file.
Retries ==
  IF ~failing
  THEN {[ok |-> TRUE, opened |-> opened, journal |-> journal, disk |-> disk]}
  ELSE IF ~NoneInflight \/ backoff
  THEN {[ok |-> FALSE, opened |-> opened, journal |-> journal, disk |-> disk]}
  ELSE Reopens

\* The store after a retry r, then possibly a write that leaves the entries
\* `entries' in memory and `file' on disk, and fails unless `ok'.
StoreBecomes(r, entries, file, ok) ==
  /\ opened' = r.opened
  /\ journal' = entries
  /\ disk' = file
  /\ failing' = ~ok
  /\ backoff' = ~ok
  /\ faults' = IF ok \/ (failing /\ (backoff \/ ~NoneInflight)) THEN faults ELSE faults + 1

\* Mutant: completed receipts are pruned whether or not they have expired.
PrunedTooEarly(entries, time) ==
  [k \in Keys |-> IF entries[k].state = "completed" THEN NoReceipt ELSE entries[k]]

\* prune_expired_completed
Pruned(entries, time) ==
  [k \in Keys |-> IF entries[k].state = "completed" /\ Deadline[k[2]] <= time
                  THEN NoReceipt ELSE entries[k]]

-----------------------------------------------------------------------------
(* The volatile cache.                                                     *)

\* Mutant: a scope change forgets what is in flight but keeps cached results.
ClearInflightOnly ==
  /\ inflight' = [c \in Commands |-> Nil]
  /\ generation' = generation + 1
  /\ UNCHANGED <<order, cached>>

\* CommandResultCache::clear, and activate_scope when the scope changes.
ClearCache ==
  /\ order' = <<>>
  /\ cached' = [c \in Commands |-> NoEntry]
  /\ inflight' = [c \in Commands |-> Nil]
  /\ generation' = generation + 1

\* CommandResultCache::insert, evicting the oldest result beyond Capacity.
Insert(c, fp, result) ==
  LET grown == IF cached[c] = NoEntry THEN Append(order, c) ELSE order
      full == Len(grown) > Capacity
      entries == [cached EXCEPT ![c] = [fp |-> fp, result |-> result]]
  IN  /\ order' = IF full THEN Tail(grown) ELSE grown
      /\ cached' = IF full THEN [entries EXCEPT ![Head(grown)] = NoEntry] ELSE entries

\* A finished command is cached and no longer in flight.
Retire(c, fp, result) ==
  /\ inflight' = [inflight EXCEPT ![c] = Nil]
  /\ Insert(c, fp, result)

-----------------------------------------------------------------------------
(* Admission of one envelope, all of it under the cache mutex.  It runs in *)
(* a task of its own: for the worker that waits for it (`live'), or as an  *)
(* orphan whose session is gone and whose answer nobody reads.             *)

Admitting(e, live) ==
  /\ up
  /\ IF live THEN worker = [state |-> "admitting", env |-> e, result |-> Nil]
             ELSE e \in orphans
  /\ orphans' = IF live THEN orphans ELSE orphans \ {e}

\* CommandAdmission::Rejected: the worker queues the result, saying `verdicts'.
Reject(e, live, verdicts) ==
  /\ worker' = IF live THEN NoWork ELSE worker
  /\ told' = IF live THEN [told EXCEPT ![e] = @ \cup verdicts] ELSE told

\* CommandAdmission::Accepted: the worker queues the ack, then waits.
Accept(e, live, result) ==
  /\ worker' = IF live THEN [state |-> "waiting", env |-> e, result |-> result] ELSE worker
  /\ told' = IF live THEN [told EXCEPT ![e] = @ \cup {"ack"}] ELSE told

AdmitStale(e, live) ==
  /\ Admitting(e, live)
  /\ active # e[1]
  /\ Reject(e, live, {})
  /\ UNCHANGED <<now, up, store, cache, tasks, config, session, crashes, ran>>

AdmitCached(e, live) ==
  /\ Admitting(e, live)
  /\ active = e[1]
  /\ cached[e[2]] # NoEntry
  /\ IF cached[e[2]].fp = e[3] THEN Accept(e, live, cached[e[2]].result)
                               ELSE Reject(e, live, {})
  /\ UNCHANGED <<now, up, store, cache, tasks, config, session, crashes, ran>>

AdmitInflight(e, live) ==
  /\ Admitting(e, live)
  /\ active = e[1]
  /\ cached[e[2]] = NoEntry
  /\ inflight[e[2]] # Nil
  /\ IF inflight[e[2]] = e[3] THEN Accept(e, live, Nil) ELSE Reject(e, live, {})
  /\ UNCHANGED <<now, up, store, cache, tasks, config, session, crashes, ran>>

\* Neither cached nor in flight: the journal decides, after a retry if it is
\* marked as failing.
Consulting(e, live) ==
  /\ Admitting(e, live)
  /\ active = e[1]
  /\ cached[e[2]] = NoEntry
  /\ inflight[e[2]] = Nil

AdmitUnavailable(e, live) ==
  /\ Consulting(e, live)
  /\ \E r \in Retries : ~r.ok /\ StoreBecomes(r, r.journal, r.disk, FALSE)
  /\ Reject(e, live, {})
  /\ UNCHANGED <<now, up, cache, tasks, config, session, crashes, ran>>

\* The journal knows the command: conflict, replay of the stored result, or an
\* accepted receipt that is declared indeterminate.
AdmitKnown(e, live) ==
  /\ Consulting(e, live)
  /\ \E r \in Retries :
       LET k == KeyOf(e)
           found == r.journal[k]
           settled == [r.journal EXCEPT ![k] = Receipt("completed", e[3], "indeterminate")]
       IN  /\ r.ok
           /\ found.state # "none"
           /\ \/ /\ found.fp # e[3]
                 /\ StoreBecomes(r, r.journal, r.disk, TRUE)
                 /\ Reject(e, live, {})
                 /\ UNCHANGED <<order, cached>>
              \/ /\ found.fp = e[3] /\ found.state = "completed"
                 /\ StoreBecomes(r, r.journal, r.disk, TRUE)
                 /\ Insert(e[2], e[3], found.result)
                 /\ Accept(e, live, found.result)
              \/ /\ found.fp = e[3] /\ found.state = "accepted"
                 /\ \E w \in Writes(r.disk, settled) :
                      \/ /\ w.ok
                         /\ StoreBecomes(r, settled, w.disk, TRUE)
                         /\ Insert(e[2], e[3], "indeterminate")
                         /\ Accept(e, live, "indeterminate")
                      \/ /\ ~w.ok
                         /\ StoreBecomes(r, r.journal, w.disk, FALSE)
                         /\ Reject(e, live, {})
                         /\ UNCHANGED <<order, cached>>
  /\ UNCHANGED <<now, up, generation, active, inflight, tasks, config, session, crashes, ran>>

\* Unknown and past its deadline: rejected as never accepted.
AdmitExpired(e, live) ==
  /\ Consulting(e, live)
  /\ \E r \in Retries :
       /\ r.ok
       /\ r.journal[KeyOf(e)].state = "none"
       /\ StoreBecomes(r, r.journal, r.disk, TRUE)
  /\ Deadline[e[2]] <= now
  /\ Reject(e, live, {"expired"})
  /\ UNCHANGED <<now, up, cache, tasks, config, session, crashes, ran>>

\* Too many in flight (nothing pruned yet), or no room for one more receipt.
AdmitOverload(e, live) ==
  /\ Consulting(e, live)
  /\ Deadline[e[2]] > now
  /\ \E r \in Retries :
       LET pruned == Pruned(r.journal, now)
           overload == Cardinality({c \in Commands : inflight[c] # Nil}) >= Capacity
       IN  /\ r.ok
           /\ r.journal[KeyOf(e)].state = "none"
           /\ overload \/ Cardinality(Held(pruned)) >= Capacity
           /\ StoreBecomes(r, IF overload THEN r.journal ELSE pruned, r.disk, TRUE)
  /\ Reject(e, live, {})
  /\ UNCHANGED <<now, up, cache, tasks, config, session, crashes, ran>>

\* A new command: the accepted receipt is on disk before the dispatcher exists.
AdmitNew(e, live) ==
  /\ Consulting(e, live)
  /\ Deadline[e[2]] > now
  /\ Cardinality({c \in Commands : inflight[c] # Nil}) < Capacity
  /\ \E r \in Retries :
       LET pruned == Pruned(r.journal, now)
           accepted == [pruned EXCEPT ![KeyOf(e)] = Receipt("accepted", e[3], Nil)]
       IN  /\ r.ok
           /\ r.journal[KeyOf(e)].state = "none"
           /\ Cardinality(Held(pruned)) < Capacity
           /\ \E w \in Writes(r.disk, accepted) :
                \/ /\ w.ok
                   /\ StoreBecomes(r, accepted, w.disk, TRUE)
                   /\ inflight' = [inflight EXCEPT ![e[2]] = e[3]]
                   /\ tasks' = tasks \cup
                        {[env |-> e, generation |-> generation, state |-> "spawned"]}
                   /\ Accept(e, live, Nil)
                \/ /\ ~w.ok
                   /\ StoreBecomes(r, pruned, w.disk, FALSE)
                   /\ Reject(e, live, {})
                   /\ UNCHANGED <<inflight, tasks>>
  /\ UNCHANGED <<now, up, generation, active, order, cached, config, session, crashes, ran>>

Admit(e, live) ==
  \/ AdmitStale(e, live) \/ AdmitCached(e, live) \/ AdmitInflight(e, live)
  \/ AdmitUnavailable(e, live) \/ AdmitKnown(e, live) \/ AdmitExpired(e, live)
  \/ AdmitOverload(e, live) \/ AdmitNew(e, live)

-----------------------------------------------------------------------------
(* The dispatcher task of an accepted command.  It outlives its session and *)
(* its configuration; between its check of the generation and the dispatch *)
(* it holds no lock.                                                       *)

Step(t, state) == tasks' = (tasks \ {t}) \cup {[t EXCEPT !.state = state]}

TaskCheck(t) ==
  /\ t.state = "spawned"
  /\ Step(t, IF t.generation = generation THEN "admitted" ELSE "refused")
  /\ UNCHANGED <<now, up, store, cache, link, crashes, history>>

TaskDispatch(t) ==
  /\ t.state = "admitted"
  /\ IF Deadline[t.env[2]] <= now
     THEN /\ Step(t, "refused")
          /\ UNCHANGED ran
     ELSE /\ Step(t, "running")
          /\ ran' = [ran EXCEPT ![t.env] = @ + 1]
  /\ UNCHANGED <<now, up, store, cache, link, crashes, told>>

\* Mutant: only a browser result is sent on the watch channel.
WakeOnSuccess(k, result) ==
  worker' = IF worker.state = "waiting" /\ worker.result = Nil /\ KeyOf(worker.env) = k
               /\ result = "result"
            THEN [worker EXCEPT !.result = result] ELSE worker

\* The watch channel hands the result to the worker that waits for this command.
Wake(k, result) ==
  worker' = IF worker.state = "waiting" /\ worker.result = Nil /\ KeyOf(worker.env) = k
            THEN [worker EXCEPT !.result = result] ELSE worker

\* The browser answered or dispatch_command timed out (running), or there was
\* nothing to dispatch (refused): record the outcome and wake who waits for it.
TaskFinish(t) ==
  /\ t.state \in {"running", "refused"}
  /\ LET k == KeyOf(t.env)
         outcome == IF t.state = "running" THEN "result" ELSE "undispatched"
         done == [journal EXCEPT ![k] = [@ EXCEPT !.state = "completed", !.result = outcome]]
     IN  \E result \in {outcome, "indeterminate"} :
           /\ \/ /\ journal[k].state = "none"
                 /\ result = "indeterminate"
                 /\ UNCHANGED <<opened, journal, disk, faults>>
                 /\ failing' = TRUE /\ backoff' = TRUE
              \/ /\ journal[k].state # "none"
                 /\ \E w \in Writes(disk, done) :
                      /\ result = IF w.ok THEN outcome ELSE "indeterminate"
                      /\ opened' = opened
                      /\ journal' = IF w.ok THEN done ELSE journal
                      /\ disk' = w.disk
                      /\ failing' = (failing \/ ~w.ok)
                      /\ backoff' = (backoff \/ ~w.ok)
                      /\ faults' = IF w.ok THEN faults ELSE faults + 1
           /\ IF t.generation = generation
              THEN Retire(k[2], t.env[3], result)
              ELSE UNCHANGED <<inflight, order, cached>>
           /\ Wake(k, result)
  /\ tasks' = tasks \ {t}
  /\ UNCHANGED <<now, up, generation, active, config, session, orphans, crashes, history>>

-----------------------------------------------------------------------------
(* The websocket session and its worker.                                   *)

\* wait_for_receipt_journal_or_control: no connection while the journal fails.
JournalGate ==
  /\ up /\ config # Nil /\ session = "none"
  /\ failing /\ ~backoff
  /\ \E r \in Retries : StoreBecomes(r, r.journal, r.disk, r.ok)
  /\ UNCHANGED <<now, up, cache, tasks, link, crashes, history>>

Connect ==
  /\ up /\ config # Nil /\ session = "none"
  /\ ~failing
  /\ session' = "hello"
  /\ UNCHANGED <<now, up, store, cache, tasks, config, worker, orphans, crashes, history>>

\* actor.ready: activate_scope clears the cache only if the scope changed.
ActorReady ==
  /\ session = "hello"
  /\ IF active = config
     THEN UNCHANGED cache
     ELSE /\ generation < MaxGeneration
          /\ ClearCache
          /\ active' = config
  /\ session' = "ready"
  /\ UNCHANGED <<now, up, store, tasks, config, worker, orphans, crashes, history>>

\* The worker takes an envelope; the backend may send any, any number of times.
Receive(e) ==
  /\ session = "ready"
  /\ worker = NoWork
  /\ e[1] = config
  /\ worker' = [state |-> "admitting", env |-> e, result |-> Nil]
  /\ UNCHANGED <<now, up, store, cache, tasks, config, session, orphans, crashes, history>>

\* wait_for_prepared_command has its result; the worker queues it.
Reply ==
  /\ worker.state = "waiting" /\ worker.result # Nil
  /\ told' = [told EXCEPT ![worker.env] = @ \cup {worker.result}]
  /\ worker' = NoWork
  /\ UNCHANGED <<now, up, store, cache, tasks, config, session, orphans, crashes, ran>>

\* The worker is aborted with its session; an admission task is not.
Disconnected ==
  /\ session' = "none"
  /\ worker' = NoWork
  /\ orphans' = orphans \cup (IF worker.state = "admitting" THEN {worker.env} ELSE {})

SessionEnds ==
  /\ session # "none"
  /\ Disconnected
  /\ UNCHANGED <<now, up, store, cache, tasks, config, crashes, history>>

\* ApplyConfig: a new configuration, the same one again, or none.
ApplyConfig(next) ==
  /\ up
  /\ generation < MaxGeneration
  /\ Disconnected
  /\ ClearCache
  /\ active' = Nil
  /\ config' = next
  /\ UNCHANGED <<now, up, store, tasks, crashes, history>>

\* Unconfigured, the actor reloads the configuration file every five seconds.
ReloadConfig ==
  /\ up /\ config = Nil
  /\ config' \in Scopes
  /\ UNCHANGED <<now, up, store, cache, tasks, session, worker, orphans, crashes, history>>

-----------------------------------------------------------------------------
(* The process and its clocks.                                             *)

\* open_command_result_cache, with the single-owner lock on the journal.
Start ==
  /\ ~up
  /\ up' = TRUE
  /\ \E r \in Reopens : StoreBecomes(r, r.journal, r.disk, r.ok)
  /\ UNCHANGED <<now, cache, tasks, link, crashes, history>>

Crash ==
  /\ up
  /\ crashes < MaxCrashes
  /\ crashes' = crashes + 1
  /\ up' = FALSE
  /\ opened' = FALSE /\ journal' = NoReceipts /\ failing' = FALSE /\ backoff' = FALSE
  /\ order' = <<>> /\ cached' = [c \in Commands |-> NoEntry]
  /\ inflight' = [c \in Commands |-> Nil]
  /\ generation' = 0 /\ active' = Nil
  /\ tasks' = {}
  /\ session' = "none" /\ worker' = NoWork /\ orphans' = {}
  /\ UNCHANGED <<now, disk, config, faults, history>>

Tick ==
  /\ now < MaxTime
  /\ now' = now + 1
  /\ UNCHANGED <<up, store, cache, tasks, link, crashes, history>>

BackoffElapses ==
  /\ backoff
  /\ backoff' = FALSE
  /\ UNCHANGED <<now, up, disk, opened, journal, failing, faults, cache, tasks, link,
                 crashes, history>>

Next ==
  \/ \E e \in Envelopes, live \in BOOLEAN : Admit(e, live)
  \/ \E t \in tasks : TaskCheck(t) \/ TaskDispatch(t) \/ TaskFinish(t)
  \/ JournalGate \/ Connect \/ ActorReady
  \/ \E e \in Envelopes : Receive(e)
  \/ Reply \/ SessionEnds
  \/ \E next \in Scopes \cup {Nil} : ApplyConfig(next)
  \/ ReloadConfig \/ Start \/ Crash \/ Tick \/ BackoffElapses

Spec == Init /\ [][Next]_vars

\* Tasks are polled until they finish and dispatch_command has a timeout; nothing
\* is assumed of the network, the backend, the clock or the storage.
TaskStep(e) == \E t \in tasks : t.env = e /\ (TaskCheck(t) \/ TaskDispatch(t) \/ TaskFinish(t))

Fairness ==
  /\ \A e \in Envelopes : WF_vars(Admit(e, TRUE)) /\ WF_vars(TaskStep(e))
  /\ WF_vars(Reply)

LiveSpec == Spec /\ Fairness

-----------------------------------------------------------------------------
(* Properties.                                                             *)

\* A command id is handed to the browser at most once within its scope, under at
\* most one fingerprint: across redelivery, reconnects, configuration changes,
\* failing storage, pruning, eviction and crashes (the purpose of the receipts).
AtMostOneDispatch ==
  \A e, f \in Envelopes :
    /\ ran[e] <= 1
    /\ KeyOf(e) = KeyOf(f) /\ ran[e] > 0 /\ ran[f] > 0 => e = f

\* Why it holds, as an inductive invariant.  A command is claimed once it was
\* acknowledged, cached, joined, spawned or run; until its deadline every claim has
\* its receipt in the open journal and on disk, so nothing can be accepted twice,
\* and after it nothing is accepted at all.
Holds(entries, e) == entries[KeyOf(e)].state # "none" /\ entries[KeyOf(e)].fp = e[3]

Claimed(e) ==
  \/ ran[e] > 0
  \/ "ack" \in told[e]
  \/ \E t \in tasks : t.env = e
  \/ active = e[1] /\ (cached[e[2]].fp = e[3] \/ inflight[e[2]] = e[3])

ClaimsAreDurable ==
  \A e \in Envelopes :
    Claimed(e) /\ now < Deadline[e[2]] =>
      Holds(disk, e) /\ (opened => Holds(journal, e))

JournalIsOnDisk ==
  \A k \in Keys :
    journal[k].state # "none" => disk[k].state # "none" /\ disk[k].fp = journal[k].fp

OneTaskPerCommand ==
  /\ \A t, u \in tasks : KeyOf(t.env) = KeyOf(u.env) => t = u
  /\ \A t \in tasks :
       /\ t.generation <= generation
       /\ t.generation = generation => active = t.env[1]
       /\ t.state \in {"spawned", "admitted"} =>
            \A e \in Envelopes : KeyOf(e) = KeyOf(t.env) => ran[e] = 0

JournalIsOpen ==
  /\ ~up => ~opened
  /\ up /\ ~failing => opened
  /\ ~opened => tasks = {} /\ journal = NoReceipts

DispatchInv ==
  /\ ClaimsAreDurable /\ JournalIsOnDisk /\ OneTaskPerCommand /\ JournalIsOpen
  /\ AtMostOneDispatch

\* What the backend is told is true, now and for good: a browser result was
\* produced by a dispatch of this very envelope (never by another scope's command
\* of the same id), and a command with the recorded verdict "not dispatched" never runs
\* later. Refusals at admission record no verdict and are not meant.
VerdictsAreTrue ==
  \A e \in Envelopes :
    /\ "result" \in told[e] => ran[e] > 0
    /\ "undispatched" \in told[e] => ran[e] = 0

\* An acknowledged or dispatched command has its receipt on disk, under its own
\* fingerprint, until its deadline; no crash, failed write or reload loses it.
AckedIsDurable ==
  \A e \in Envelopes :
    ("ack" \in told[e] \/ ran[e] > 0) /\ now < Deadline[e[2]] =>
      disk[KeyOf(e)].state # "none" /\ disk[KeyOf(e)].fp = e[3]

\* The worker never hangs on a command: what it took from the session is rejected
\* or answered, or the session ends (wait_for_prepared_command always wakes).
WorkerAnswers == worker.state # "idle" ~> worker.state = "idle"

\* The promise to the backend, implemented.
Ledger == INSTANCE CommandLedger
LedgerSpec == Ledger!Spec

\* Stated by the audit: storage "is retried after a 60s backoff when no command
\* remains in flight"; the recovery turns accepted receipts into indeterminate ones.
RecoveryWaitsForDispatchers ==
  [][failing /\ up' /\ ~failing' => tasks = {}]_vars
=============================================================================
