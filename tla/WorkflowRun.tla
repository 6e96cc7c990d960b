------------------------------ MODULE WorkflowRun ------------------------------
(***************************************************************************)
(* A workflow run from the queue of its site to its record:                *)
(* native_runner.rs (run_supervisor_workflow, run_once),                   *)
(* workflow_runner/mod.rs (run_workflow) and site_queue.rs, all in         *)
(* crates/rzn_browser/src/.                                                *)
(*                                                                         *)
(* The runs are CLI processes, of one site and one workflow that may park  *)
(* its tab. All others, of other sites or inside the supervisor, are only  *)
(* seen to hold the run slot. The browser is seen from the caller: a call  *)
(* that was given up may still be applied.                                 *)
(***************************************************************************)
EXTENDS Integers, FiniteSets

CONSTANTS
  Runs,       \* processes
  Other,      \* any other run
  Target,     \* the browser each run asks for
  Length,     \* the steps of the workflow are 1..Length
  Writes,     \* steps declared external_write
  Silent,     \* steps in the page of the tab: they open none, and their success names none
  Local,      \* waits, which the runner does itself
  MaxTabs,    \* tabs have the ids 1..MaxTabs
  None,
  MaxRetries, \* MAX_TRANSIENT_STEP_RETRIES
  MaxFaults   \* bound on killed processes, tabs closed by the user, bot challenges and other runs

Steps == 1..Length
Tabs == 1..MaxTabs

Errors == {"none", "missing", "challenge", "cancelled", "other"}

ASSUME WorkflowAssumption ==
  /\ None \notin Runs \cup {Other} /\ Other \notin Runs /\ None \notin Tabs
  /\ None \notin {Target[r] : r \in Runs}
  /\ Length \in Nat /\ MaxTabs \in Nat /\ MaxRetries \in Nat
  /\ Writes \subseteq Steps /\ Silent \subseteq Steps /\ Local \subseteq Steps
  /\ MaxFaults \in Nat

VARIABLES
  \* The site: its lock, its state file, and the state its holder keeps in memory.
  lock, site, parked,
  \* The run slot of the supervisor (RunSlot).
  slot,
  \* Each run.
  pc, at, retries,
  ref,       \* the tab every call names, or None: that of the session
  seen,      \* the last tab that a successful step named
  again,     \* it runs a second time
  error,     \* what ended it
  cancelled, \* whether its flag is set: "no", by the supervisor, or by Ctrl-C
  session,   \* it knows a session id
  \* The browser.
  open,      \* tabs
  own,       \* the tab that the session of a run opened
  effect,    \* of the call under way
  late,      \* calls that were given up before they were applied
  \* Bounds and history.
  faults,
  applied,   \* how often each external write was applied for a run
  left       \* the tab a run left open on purpose

queue == <<lock, site, parked>>
course == <<at, retries>>
tabs == <<ref, seen, again>>
browser == <<open, own, effect, late, applied>>
vars == <<queue, slot, pc, course, tabs, error, cancelled, session, browser, faults, left>>

TypeOK ==
  /\ lock \in Runs \cup {None}
  /\ site \in [tab : Tabs \cup {None}, target : {Target[r] : r \in Runs} \cup {None}, paused : BOOLEAN]
  /\ parked \in [Runs -> Tabs \cup {None}]
  /\ slot \in Runs \cup {None, Other}
  /\ pc \in [Runs -> {"idle", "queued", "ready", "claim", "open", "step", "call", "delay",
                      "snapshot", "close", "release", "record", "ran", "done", "refused",
                      "broken", "dead"}]
  /\ at \in [Runs -> 1..(Length + 1)] /\ retries \in [Runs -> 0..MaxRetries]
  /\ ref \in [Runs -> Tabs \cup {None}] /\ seen \in [Runs -> Tabs \cup {None}]
  /\ again \in [Runs -> BOOLEAN]
  /\ error \in [Runs -> Errors]
  /\ cancelled \in [Runs -> {"no", "asked", "signal"}] /\ session \in [Runs -> BOOLEAN]
  /\ open \subseteq Tabs /\ own \in [Runs -> Tabs \cup {None}]
  /\ effect \in [Runs -> {"none", "pending", "applied"}]
  /\ late \in [Runs -> [Steps -> Nat]] /\ applied \in [Runs -> [Writes -> Nat]]
  /\ faults \in 0..MaxFaults
  /\ left \in [Runs -> Tabs \cup {None}]

Init ==
  /\ lock = None /\ slot = None
  /\ site = [tab |-> None, target |-> None, paused |-> FALSE]
  /\ parked = [r \in Runs |-> None]
  /\ pc = [r \in Runs |-> "idle"] /\ at = [r \in Runs |-> 1] /\ retries = [r \in Runs |-> 0]
  /\ ref = [r \in Runs |-> None] /\ seen = [r \in Runs |-> None] /\ again = [r \in Runs |-> FALSE]
  /\ error = [r \in Runs |-> "none"]
  /\ cancelled = [r \in Runs |-> "no"] /\ session = [r \in Runs |-> FALSE]
  /\ open = {} /\ own = [r \in Runs |-> None] /\ effect = [r \in Runs |-> "none"]
  /\ late = [r \in Runs |-> [i \in Steps |-> 0]] /\ applied = [r \in Runs |-> [i \in Writes |-> 0]]
  /\ faults = 0
  /\ left = [r \in Runs |-> None]

Fault == faults < MaxFaults /\ faults' = faults + 1

Go(r, from, to) == pc[r] = from /\ pc' = [pc EXCEPT ![r] = to]

Ended(r) == pc[r] \in {"done", "refused", "broken", "dead"}

-----------------------------------------------------------------------------
(* The queue of the site.                                                   *)

Start(r) ==
  /\ Go(r, "idle", "queued")
  /\ UNCHANGED <<queue, slot, course, tabs, error, cancelled, session, browser, faults, left>>

\* Mutant: a run that waited trusts the state it read when it came.
AcquireUnpaused(r) ==
  /\ Go(r, "queued", "ready")
  /\ lock = None
  /\ lock' = r
  /\ parked' = [parked EXCEPT ![r] = site.tab]
  /\ ref' = [ref EXCEPT ![r] = IF site.target = Target[r] THEN site.tab ELSE None]
  /\ UNCHANGED <<site, slot, course, seen, again, error, cancelled, session, browser, faults, left>>

\* SiteGate::acquire: the lock first, then the state.
Acquire(r) ==
  /\ Go(r, "queued", "ready")
  /\ lock = None
  /\ ~site.paused
  /\ lock' = r
  /\ parked' = [parked EXCEPT ![r] = site.tab]
  /\ ref' = [ref EXCEPT ![r] = IF site.target = Target[r] THEN site.tab ELSE None]
  /\ UNCHANGED <<site, slot, course, seen, again, error, cancelled, session, browser, faults, left>>

Refused(r) ==
  /\ Go(r, "queued", "refused")
  /\ lock = None
  /\ site.paused
  /\ UNCHANGED <<queue, slot, course, tabs, error, cancelled, session, browser, faults, left>>

CooldownElapses ==
  /\ site.paused
  /\ site' = [site EXCEPT !.paused = FALSE]
  /\ UNCHANGED <<lock, parked, slot, pc, course, tabs, error, cancelled, session, browser, faults, left>>

-----------------------------------------------------------------------------
(* run_once: readiness, the slot, the session.                             *)

\* ensure_running and ensure_supervisor_run_ready, with its one attempt to heal.
Ready(r) ==
  /\ Go(r, "ready", "claim")
  /\ UNCHANGED <<queue, slot, course, tabs, error, cancelled, session, browser, faults, left>>

\* So early an error leaves no record.
NotReady(r) ==
  /\ Go(r, "ready", "ran")
  /\ error' = [error EXCEPT ![r] = "other"]
  /\ UNCHANGED <<queue, slot, course, tabs, cancelled, session, browser, faults, left>>

\* The supervisor reclaims the slot of a process that has ended.
Free == slot = None \/ \E q \in Runs : slot = q /\ Ended(q)

\* The supervisor may have given it the slot all the same.
ClaimFails(r) ==
  /\ Go(r, "claim", "ran")
  /\ error' = [error EXCEPT ![r] = "other"]
  /\ UNCHANGED slot \/ (Free /\ slot' = r)
  /\ UNCHANGED <<queue, course, tabs, cancelled, session, browser, faults, left>>

\* Mutant: the slot of a dead owner stays taken.
ClaimFree(r) ==
  /\ Go(r, "claim", "open")
  /\ slot = None
  /\ slot' = r
  /\ UNCHANGED <<queue, course, tabs, error, cancelled, session, browser, faults, left>>

\* claim_run_slot polls until it gets the slot.
Claim(r) ==
  /\ Go(r, "claim", "open")
  /\ Free
  /\ slot' = r
  /\ UNCHANGED <<queue, course, tabs, error, cancelled, session, browser, faults, left>>

OtherClaims ==
  /\ Free /\ slot' = Other
  /\ Fault
  /\ UNCHANGED <<queue, pc, course, tabs, error, cancelled, session, browser, left>>

OtherReleases ==
  /\ slot = Other /\ slot' = None
  /\ UNCHANGED <<queue, pc, course, tabs, error, cancelled, session, browser, faults, left>>

\* The store of runs cannot be opened; nobody gives the slot back.
StoreFails(r) ==
  /\ Go(r, "open", "ran")
  /\ error' = [error EXCEPT ![r] = "other"]
  /\ UNCHANGED <<queue, slot, course, tabs, cancelled, session, browser, faults, left>>

OpenSession(r) ==
  /\ Go(r, "open", "step")
  /\ session' = [session EXCEPT ![r] = TRUE]
  /\ UNCHANGED <<queue, slot, course, tabs, error, cancelled, browser, faults, left>>

OpenFails(r) ==
  /\ Go(r, "open", "close")
  /\ error' = [error EXCEPT ![r] = "other"]
  /\ UNCHANGED <<queue, slot, course, tabs, cancelled, session, browser, faults, left>>

-----------------------------------------------------------------------------
(* The steps.                                                               *)

Send(r) ==
  /\ Go(r, "step", "call")
  /\ cancelled[r] = "no"
  /\ at[r] \in Steps \ Local
  /\ effect' = [effect EXCEPT ![r] = "pending"]
  /\ UNCHANGED <<queue, slot, course, tabs, error, cancelled, session, open, own, late, applied, faults, left>>

\* wait_for_timeout looks for a cancellation and asks nobody.
WaitLocally(r) ==
  /\ pc[r] = "step"
  /\ cancelled[r] = "no"
  /\ at[r] \in Local
  /\ at' = [at EXCEPT ![r] = @ + 1]
  /\ retries' = [retries EXCEPT ![r] = 0]
  /\ UNCHANGED <<queue, slot, pc, tabs, error, cancelled, session, browser, faults, left>>

Finish(r) ==
  /\ Go(r, "step", "close")
  /\ at[r] = Length + 1
  /\ UNCHANGED <<queue, slot, course, tabs, error, cancelled, session, browser, faults, left>>

\* The tab a call of r works in, or None if the session has yet to open one.
TabOf(r) == IF ref[r] # None THEN ref[r] ELSE own[r]

\* Ids that neither the browser nor a run nor the state file knows: the browser never gives
\* one out twice.
Unused ==
  {t \in Tabs \ open :
     t # site.tab /\ \A q \in Runs : t \notin {ref[q], seen[q], own[q], parked[q], left[q]}}

\* The browser applies step i of r in the tab the call names, in that of the session, or,
\* if the session has none and the step navigates, in one it opens.
Applies(r, i) ==
  /\ applied' = IF i \in Writes THEN [applied EXCEPT ![r][i] = @ + 1] ELSE applied
  /\ \/ TabOf(r) \in open /\ UNCHANGED <<open, own>>
     \/ /\ ref[r] = None /\ own[r] \notin open /\ i \notin Silent
        /\ \E t \in Unused :
             /\ \A u \in Unused : t <= u
             /\ open' = open \cup {t}
             /\ own' = [own EXCEPT ![r] = t]

Apply(r) ==
  /\ pc[r] = "call"
  /\ effect[r] = "pending"
  /\ Applies(r, at[r])
  /\ effect' = [effect EXCEPT ![r] = "applied"]
  /\ UNCHANGED <<queue, slot, pc, course, tabs, error, cancelled, session, late, faults, left>>

ApplyLate(r, i) ==
  /\ late[r][i] > 0
  /\ Applies(r, i)
  /\ late' = [late EXCEPT ![r][i] = @ - 1]
  /\ UNCHANGED <<queue, slot, pc, course, tabs, error, cancelled, session, effect, faults, left>>

\* The caller stops waiting: what was not applied may be, later.
GiveUp(r) ==
  /\ effect' = [effect EXCEPT ![r] = "none"]
  /\ late' = IF effect[r] = "pending" THEN [late EXCEPT ![r][at[r]] = @ + 1] ELSE late
  /\ UNCHANGED <<open, own, applied>>

\* Only a successful answer that names its tab marks the tab as used.
SeesTab(r) == seen' = IF at[r] \in Silent THEN seen ELSE [seen EXCEPT ![r] = TabOf(r)]

Succeeds(r) ==
  /\ pc[r] = "call"
  /\ effect[r] = "applied"
  /\ SeesTab(r)
  /\ effect' = [effect EXCEPT ![r] = "none"]
  /\ retries' = [retries EXCEPT ![r] = 0]
  /\ at' = [at EXCEPT ![r] = @ + 1]
  /\ \/ Go(r, "call", "step")
     \/ Go(r, "call", "close") \* stop_workflow
  /\ UNCHANGED <<queue, slot, ref, again, error, cancelled, session, open, own, late, applied, faults, left>>

\* Mutant: an external write is sent again like any other step.
MayRetryAll(r) == retries[r] < MaxRetries

\* An external write may have been applied although its answer was lost.
MayRetry(r) == at[r] \notin Writes /\ retries[r] < MaxRetries

\* A failure of the connection to the browser.
RetryTransient(r) ==
  /\ Go(r, "call", "delay")
  /\ MayRetry(r)
  /\ GiveUp(r)
  /\ retries' = [retries EXCEPT ![r] = @ + 1]
  /\ UNCHANGED <<queue, slot, at, tabs, error, cancelled, session, faults, left>>

Resend(r) ==
  /\ Go(r, "delay", "call")
  /\ effect' = [effect EXCEPT ![r] = "pending"]
  /\ UNCHANGED <<queue, slot, course, tabs, error, cancelled, session, open, own, late, applied, faults, left>>

\* A snapshot is taken of a failed step if the run asks for one.
Fail(r, e) ==
  /\ error' = [error EXCEPT ![r] = e]
  /\ Go(r, "call", "snapshot") \/ Go(r, "call", "close")

\* Any other failure, or a transient one too often, too late or of an external write.
StepFails(r) ==
  /\ pc[r] = "call"
  /\ Fail(r, "other")
  /\ GiveUp(r)
  /\ UNCHANGED <<queue, slot, course, tabs, cancelled, session, faults, left>>

\* The tab that the call names, or that of the session, is gone; a script step looks for it
\* again when its script has run.
TabMissing(r) ==
  /\ pc[r] = "call"
  /\ TabOf(r) # None /\ TabOf(r) \notin open
  /\ Fail(r, "missing")
  /\ effect' = [effect EXCEPT ![r] = "none"]
  /\ UNCHANGED <<queue, slot, course, tabs, cancelled, session, open, own, late, applied, faults, left>>

Challenge(r) ==
  /\ pc[r] = "call"
  /\ effect[r] = "applied"
  /\ Fault
  /\ Fail(r, "challenge")
  /\ GiveUp(r)
  /\ UNCHANGED <<queue, slot, course, tabs, cancelled, session, left>>

Snapshot(r) ==
  /\ Go(r, "snapshot", "close")
  /\ UNCHANGED <<queue, slot, course, tabs, error, cancelled, session, browser, faults, left>>

-----------------------------------------------------------------------------
(* Cancellation drops the run at any await.                                 *)

Cancellable == {"open", "step", "call", "delay", "snapshot"}

\* watch_run_cancellation learns that the supervisor was asked to cancel the run.
Cancel(r) ==
  /\ pc[r] \in Cancellable \cup {"close"}
  /\ cancelled[r] = "no"
  /\ cancelled' = [cancelled EXCEPT ![r] = "asked"]
  /\ UNCHANGED <<queue, slot, pc, course, tabs, error, session, browser, faults, left>>

\* Ctrl-C waits for the run to end; its error takes the place of the outcome.
CtrlC(r) ==
  /\ pc[r] \in Cancellable \cup {"close"}
  /\ cancelled' = [cancelled EXCEPT ![r] = "signal"]
  /\ UNCHANGED <<queue, slot, pc, course, tabs, error, session, browser, faults, left>>

Interrupt(r) ==
  /\ pc[r] \in Cancellable
  /\ cancelled[r] # "no"
  /\ error' = [error EXCEPT ![r] = "cancelled"]
  /\ pc' = [pc EXCEPT ![r] = "close"]
  /\ IF pc[r] = "call" THEN GiveUp(r) ELSE UNCHANGED browser
  /\ UNCHANGED <<queue, slot, course, tabs, cancelled, session, faults, left>>

-----------------------------------------------------------------------------
(* The end of run_workflow and of run_once.                                 *)

\* Mutant: the tab is kept although nobody will know its id.
KeepsAny(r) == TRUE

\* retain_tab_on_close, unless no step named the tab of a session that is not given one.
Keeps(r) == seen[r] # None \/ ref[r] # None

Outcome(r) == IF cancelled[r] = "signal" THEN "cancelled" ELSE error[r]

\* The session is closed, with its tab unless that is to be parked. A run that does not
\* know its session closes none.
Close(r) ==
  /\ Go(r, "close", "release")
  /\ error' = [error EXCEPT ![r] = Outcome(r)]
  /\ IF session[r] /\ ~Keeps(r)
       THEN open' = open \ {own[r]} /\ UNCHANGED left
       ELSE UNCHANGED open /\ left' = [left EXCEPT ![r] = IF session[r] THEN TabOf(r) ELSE @]
  /\ session' = [session EXCEPT ![r] = FALSE]
  /\ UNCHANGED <<queue, slot, course, tabs, cancelled, own, effect, late, applied, faults>>

\* The close does not get through within its limit.
CloseFails(r) ==
  /\ Go(r, "close", "release")
  /\ error' = [error EXCEPT ![r] = Outcome(r)]
  /\ session[r]
  /\ session' = [session EXCEPT ![r] = FALSE]
  /\ UNCHANGED <<queue, slot, course, tabs, cancelled, browser, faults, left>>

Release(r) ==
  /\ Go(r, "release", "record")
  /\ slot' = IF slot = r THEN None ELSE slot
  /\ UNCHANGED <<queue, course, tabs, error, cancelled, session, browser, faults, left>>

\* runs.release gets no answer in two seconds, and nobody looks at that.
ReleaseLost(r) ==
  /\ Go(r, "release", "record")
  /\ UNCHANGED <<queue, slot, course, tabs, error, cancelled, session, browser, faults, left>>

\* The supervisor may serve it later; it frees the claim it names, never a later one.
ReleaseLate(r) ==
  /\ pc[r] \in {"record", "ready", "claim"}
  /\ slot = r /\ slot' = None
  /\ UNCHANGED <<queue, pc, course, tabs, error, cancelled, session, browser, faults, left>>

Record(r) ==
  /\ Go(r, "record", "ran")
  /\ UNCHANGED <<queue, slot, course, tabs, error, cancelled, session, browser, faults, left>>

\* The record cannot be written: that error takes the place of the outcome.
RecordFails(r) ==
  /\ Go(r, "record", "ran")
  /\ error' = [error EXCEPT ![r] = "other"]
  /\ UNCHANGED <<queue, slot, course, tabs, cancelled, session, browser, faults, left>>

-----------------------------------------------------------------------------
(* The end of run_supervisor_workflow.                                      *)

\* The parked tab is gone and no step is known to have run in it.
MustRerun(r) == ~again[r] /\ ref[r] # None /\ error[r] = "missing" /\ seen[r] = None

\* What the first attempt still had on its way named the tab that is gone.
Rerun(r) ==
  /\ Go(r, "ran", "ready")
  /\ MustRerun(r)
  /\ again' = [again EXCEPT ![r] = TRUE]
  /\ parked' = [parked EXCEPT ![r] = None]
  /\ ref' = [ref EXCEPT ![r] = None]
  /\ at' = [at EXCEPT ![r] = 1] /\ retries' = [retries EXCEPT ![r] = 0]
  /\ error' = [error EXCEPT ![r] = "none"]
  /\ cancelled' = [cancelled EXCEPT ![r] = "no"]
  /\ late' = [late EXCEPT ![r] = [i \in Steps |-> 0]]
  /\ UNCHANGED <<lock, site, slot, seen, session, open, own, effect, applied, faults, left>>

\* What a process keeps in memory is gone when it ends.
Exit(r) ==
  /\ at' = [at EXCEPT ![r] = 1] /\ retries' = [retries EXCEPT ![r] = 0]
  /\ parked' = [parked EXCEPT ![r] = None]
  /\ error' = [error EXCEPT ![r] = "none"]
  /\ cancelled' = [cancelled EXCEPT ![r] = "no"]
  /\ session' = [session EXCEPT ![r] = FALSE]
  /\ lock' = IF lock = r THEN None ELSE lock

\* SiteGate::finish writes the state by rename and drops the lock.
Leave(r) ==
  /\ Go(r, "ran", "done")
  /\ ~MustRerun(r)
  /\ site' = [tab |-> IF seen[r] # None THEN seen[r] ELSE parked[r],
              target |-> IF seen[r] # None THEN Target[r] ELSE site.target,
              paused |-> error[r] = "challenge" \/ site.paused]
  /\ Exit(r)
  /\ UNCHANGED <<slot, tabs, browser, faults, left>>

LeaveFails(r) ==
  /\ Go(r, "ran", "broken")
  /\ ~MustRerun(r)
  /\ Exit(r)
  /\ UNCHANGED <<site, slot, tabs, browser, faults, left>>

\* A process that dies loses its locks. A task of the supervisor does not die alone.
Kill(r) ==
  /\ pc[r] # "idle" /\ ~Ended(r)
  /\ Fault
  /\ pc' = [pc EXCEPT ![r] = "dead"]
  /\ Exit(r)
  /\ IF pc[r] = "call" THEN GiveUp(r) ELSE UNCHANGED browser
  /\ UNCHANGED <<site, slot, tabs, left>>

UserClosesTab ==
  /\ Fault
  /\ \E t \in open : open' = open \ {t}
  /\ UNCHANGED <<queue, slot, pc, course, tabs, error, cancelled, session, own, effect, late, applied, left>>

-----------------------------------------------------------------------------
QueueStep(r) == Start(r) \/ Acquire(r) \/ Refused(r)
SetupStep(r) == Ready(r) \/ Claim(r) \/ OpenSession(r)
SetupFails(r) == NotReady(r) \/ ClaimFails(r) \/ StoreFails(r) \/ OpenFails(r)
StepStep(r) ==
  \/ Send(r) \/ WaitLocally(r) \/ Finish(r) \/ Apply(r) \/ Succeeds(r) \/ RetryTransient(r)
  \/ Resend(r) \/ StepFails(r) \/ TabMissing(r) \/ Challenge(r) \/ Snapshot(r)
EndStep(r) ==
  \/ Close(r) \/ CloseFails(r) \/ Release(r) \/ ReleaseLost(r) \/ Record(r) \/ RecordFails(r)
  \/ Rerun(r) \/ Leave(r) \/ LeaveFails(r)
LateStep(r) == \E i \in Steps : ApplyLate(r, i)

Next ==
  \/ \E r \in Runs :
       QueueStep(r) \/ SetupStep(r) \/ SetupFails(r) \/ StepStep(r) \/ Cancel(r) \/ CtrlC(r) \/ Interrupt(r) \/ EndStep(r)
       \/ LateStep(r) \/ ReleaseLate(r) \/ Kill(r)
  \/ OtherClaims \/ OtherReleases
  \/ CooldownElapses
  \/ UserClosesTab

Spec == Init /\ [][Next]_vars

\* Every await of a run has a limit of its own, or ends with the supervisor's answer.
RunStep(r) == (QueueStep(r) /\ pc[r] # "idle") \/ SetupStep(r) \/ StepStep(r) \/ EndStep(r)

LiveSpec ==
  /\ Spec
  /\ WF_vars(OtherReleases)
  /\ \A r \in Runs : WF_vars(RunStep(r) \/ Interrupt(r))

-----------------------------------------------------------------------------
(* Properties.                                                              *)

\* An answer that comes before step i names the tab.
NamedBefore(i) == \E k \in 1..(i - 1) : k \notin Silent \cup Local

\* A step that declares an external write is applied at most once for a run, whatever is
\* retried, given up, answered late, loses its tab before or after it took effect, or is
\* started again in a fresh tab, if the answer of an earlier step names the tab
\* (native_runner.rs, parked_tab_gone and tab_never_used; workflow_runner/mod.rs,
\* step_writes_externally).
WritesOnce == \A r \in Runs : \A i \in Writes : NamedBefore(i) => applied[r][i] <= 1

\* "a rerun after progress could repeat a submit or send" (native_runner.rs, 82): no write
\* at all is applied twice. It does not hold: the tab may go away behind a write that is
\* the first step to use it.
RerunRepeatsNothing == \A r \in Runs : \A i \in Writes : applied[r][i] <= 1

\* While a site is paused after a bot challenge no run of its queue is under way, those that
\* waited when the challenge came included (SiteGate::acquire and finish).
PausedSiteIsLeftAlone ==
  site.paused => \A r \in Runs : pc[r] \in {"idle", "queued"} \/ Ended(r)

\* A tab that a run left open for the next one is the one the state file names, so that it
\* will be used again or replaced because it is gone, never forgotten (close_unseen_tab and
\* SiteGate::finish), unless that run lost the tab it saw last. It needs runs that ask for
\* the same browser.
KeptTabIsParked ==
  (\A q, r \in Runs : Target[q] = Target[r]) =>
    \A r \in Runs : 
      pc[r] = "done" /\ left[r] \in open /\ seen[r] \in open \cup {None} => site.tab = left[r]

\* It waits for the slot that it holds itself, under the name of its first attempt.
SelfBlocked(r) == pc[r] = "claim" /\ slot = r

\* A run that was started ends, whoever holds the lock or the slot, is killed or cancelled,
\* and whatever the browser does not answer, unless some rerun waits for ever for its own
\* slot, whose release was lost (run_supervisor_workflow, claim_run_slot).
RunsEnd ==
  (\A r \in Runs : pc[r] \in {"ready", "queued"} ~> Ended(r)) \/ <>[](\E r \in Runs : SelfBlocked(r))
=============================================================================
