------------------------------- MODULE RunSlot -------------------------------
(***************************************************************************)
(* The supervisor's run slot (crates/rzn_browser/src/supervisor_control.rs)*)
(* and those who compete for it: runs inside the supervisor (dashboard and *)
(* fleet), and runs of CLI processes, which claim the slot over RPC, poll  *)
(* for it while it is busy, survive the supervisor and can be killed.      *)
(* Pause, resume and cancel arrive from any client at any time.            *)
(***************************************************************************)
EXTENDS Integers, FiniteSets

CONSTANTS
  LocalRuns,  \* runs executed by the supervisor process
  CliRuns,    \* runs of CLI processes; a run stands for its process id as well
  Clients,    \* connections on which automation.pause and .resume arrive
  Nil,
  MaxBoots,   \* bound on supervisor starts
  MaxReuse,   \* bound on process ids taken over by an unrelated process
  MaxCalls    \* bound on pause and resume calls

Runs == LocalRuns \cup CliRuns

ASSUME RunsAssumption ==
  /\ LocalRuns \cap CliRuns = {} /\ Nil \notin Runs
  /\ IsFiniteSet(CliRuns)
  /\ MaxBoots \in Nat /\ MaxReuse \in Nat /\ MaxCalls \in Nat

VARIABLES
  up,        \* the supervisor process runs
  boot,      \* which supervisor process this is
  paused,    \* control.paused
  cancel,    \* control.cancel
  quiesced,  \* control.quiesced
  running,   \* the run in control.running, or Nil
  file,      \* automation_state.json: what a restart would read
  calls,     \* each client's pause or resume call
  ncalls,    \* how many there have been
  phase,     \* each run's progress
  claimedIn, \* the boot in which a run claimed the slot
  stopped,   \* runs that saw a cancellation
  releases,  \* runs.release requests on their way to the supervisor
  reused,    \* process ids of exited CLI runs now used by another process
  targeted   \* history: runs a cancellation was accepted for

control == <<paused, cancel, quiesced, running>>
pausing == <<file, calls, ncalls>>
actors == <<phase, claimedIn, stopped, releases, reused>>
vars == <<up, boot, control, pausing, actors, targeted>>

Phases == {"new", "admitted", "active", "releasing", "done"}
Contents == {"missing", "garbled", "paused", "resumed"}
IdleCall == [stage |-> "idle", value |-> "missing"]

CallType == [stage : {"idle", "set", "read", "truncated"}, value : Contents]

TypeOK ==
  /\ up \in BOOLEAN /\ boot \in Nat
  /\ paused \in BOOLEAN /\ cancel \in BOOLEAN /\ quiesced \in BOOLEAN
  /\ running \in Runs \cup {Nil}
  /\ file \in Contents
  /\ calls \in [Clients -> CallType]
  /\ ncalls \in Nat
  /\ phase \in [Runs -> Phases]
  /\ claimedIn \in [Runs -> Nat]
  /\ stopped \subseteq Runs /\ targeted \subseteq Runs
  /\ releases \subseteq CliRuns /\ reused \subseteq CliRuns

Init ==
  /\ up = FALSE /\ boot = 0
  /\ paused = FALSE /\ cancel = FALSE /\ quiesced = FALSE /\ running = Nil
  /\ file = "missing"
  /\ calls = [c \in Clients |-> IdleCall] /\ ncalls = 0
  /\ phase = [r \in Runs |-> "new"]
  /\ claimedIn = [r \in Runs |-> 0]
  /\ stopped = {} /\ targeted = {} /\ releases = {} /\ reused = {}

\* owner_is_live: only the process id is known, whoever has it now.
OwnerIsLive(r) == r \in LocalRuns \/ phase[r] # "done" \/ r \in reused

\* Mutant: only a release frees the slot.
BusyUntilReleased == running # Nil

\* The slot refuses a claim: someone holds it who is not known to be dead.
Busy == running # Nil /\ OwnerIsLive(running)

\* Mutant: the flag of the previous, reclaimed run is left set.
EnterKeepingCancel(r) == running' = r /\ UNCHANGED cancel

\* try_begin_run_owned, granted: a stale cancellation is dropped with the old run.
Enter(r) == running' = r /\ cancel' = FALSE

\* Mutant: whoever releases, the slot is freed.
LeaveAnyway(r) == running' = Nil /\ cancel' = FALSE

\* end_run_if(Some(id)): a release frees the slot only if it is still its own. Releases
\* name their run, as every caller's do; one that named none would free any run's.
Leave(r) ==
  IF running = r THEN running' = Nil /\ cancel' = FALSE
                 ELSE UNCHANGED <<running, cancel>>

-----------------------------------------------------------------------------
(* Runs.  The pause is looked at when a run asks, the slot only later: a    *)
(* dashboard run loads its workflow in between, a fleet job fetches it.    *)

Ask(r) ==
  /\ up
  /\ phase[r] = "new"
  /\ phase' = [phase EXCEPT ![r] = IF paused THEN "done" ELSE "admitted"]
  /\ UNCHANGED <<up, boot, control, pausing, claimedIn, stopped, releases, reused, targeted>>

\* A CLI run that finds the slot busy polls again; any other refusal ends the run.
Begin(r) ==
  /\ up
  /\ phase[r] = "admitted"
  /\ IF quiesced \/ Busy
     THEN /\ phase' = [phase EXCEPT ![r] = IF r \in CliRuns /\ ~quiesced THEN "new" ELSE "done"]
          /\ UNCHANGED <<running, cancel, claimedIn>>
     ELSE /\ Enter(r)
          /\ phase' = [phase EXCEPT ![r] = "active"]
          /\ claimedIn' = [claimedIn EXCEPT ![r] = boot]
  /\ UNCHANGED <<up, boot, paused, quiesced, pausing, stopped, releases, reused, targeted>>

\* In-process transports read the flag itself, the CLI asks for its own run id.
CancelledFor(r) == cancel /\ (r \in CliRuns => running = r)

SeeCancel(r) ==
  /\ up
  /\ phase[r] = "active"
  /\ CancelledFor(r)
  /\ stopped' = stopped \cup {r}
  /\ UNCHANGED <<up, boot, control, pausing, phase, claimedIn, releases, reused, targeted>>

\* A local run's guard frees the slot when it is dropped; a CLI run sends a request,
\* which may be lost: the supervisor is down, or drops it when the client hangs up.
FinishLocal(r) ==
  /\ up
  /\ phase[r] = "active"
  /\ Leave(r)
  /\ phase' = [phase EXCEPT ![r] = "done"]
  /\ UNCHANGED <<up, boot, paused, quiesced, pausing, claimedIn, stopped, releases, reused, targeted>>

FinishCli(r) ==
  /\ phase[r] = "active"
  /\ phase' = [phase EXCEPT ![r] = "releasing"]
  /\ releases' \in {releases, IF up THEN releases \cup {r} ELSE releases}
  /\ UNCHANGED <<up, boot, control, pausing, claimedIn, stopped, reused, targeted>>

\* The request may be handled after its sender timed out and exited.
Release(r) ==
  /\ up
  /\ r \in releases
  /\ releases' = releases \ {r}
  /\ Leave(r)
  /\ UNCHANGED <<up, boot, paused, quiesced, pausing, phase, claimedIn, stopped, reused, targeted>>

\* A CLI process exits after its release, or is killed at any point.
ExitCli(r) ==
  /\ phase[r] # "done"
  /\ phase' = [phase EXCEPT ![r] = "done"]
  /\ UNCHANGED <<up, boot, control, pausing, claimedIn, stopped, releases, reused, targeted>>

\* The operating system gives the process id to someone else.
ReusePid(r) ==
  /\ phase[r] = "done"
  /\ Cardinality(reused) < MaxReuse
  /\ reused' = reused \cup {r}
  /\ UNCHANGED <<up, boot, control, pausing, phase, claimedIn, stopped, releases, targeted>>

-----------------------------------------------------------------------------
(* Cancel, pause and resume.                                               *)

\* runs.cancel, naming a run or not.
CancelRun(r) ==
  /\ up
  /\ running # Nil
  /\ r \in {running, Nil}
  /\ cancel' = TRUE
  /\ targeted' = targeted \cup {running}
  /\ UNCHANGED <<up, boot, paused, quiesced, running, pausing, actors>>

\* pause, under the lock of the slot.
SetPaused(withCancel) ==
  LET hit == withCancel /\ running # Nil
  IN  /\ paused' = TRUE
      /\ cancel' = (cancel \/ hit)
      /\ targeted' = IF hit THEN targeted \cup {running} ELSE targeted

Called(c) ==
  /\ up
  /\ calls[c].stage = "idle"
  /\ ncalls < MaxCalls
  /\ ncalls' = ncalls + 1
  /\ calls' = [calls EXCEPT ![c].stage = "set"]
  /\ UNCHANGED <<up, boot, quiesced, running, file, actors>>

Pause(c, withCancel) == Called(c) /\ SetPaused(withCancel)

Resume(c) == Called(c) /\ paused' = FALSE /\ UNCHANGED <<cancel, targeted>>

\* persist, outside the lock: read the flag, truncate the file, write it.
PersistRead(c) ==
  /\ calls[c].stage = "set"
  /\ calls' = [calls EXCEPT ![c] =
                 [stage |-> "read", value |-> IF paused THEN "paused" ELSE "resumed"]]
  /\ UNCHANGED <<up, boot, control, file, ncalls, actors, targeted>>

PersistTruncate(c) ==
  /\ calls[c].stage = "read"
  /\ calls' = [calls EXCEPT ![c].stage = "truncated"]
  /\ file' = "garbled"
  /\ UNCHANGED <<up, boot, control, ncalls, actors, targeted>>

\* {"paused":true} written over a longer {"paused":false} leaves its last byte.
PersistWrite(c) ==
  /\ calls[c].stage = "truncated"
  /\ file' = IF file = "resumed" /\ calls[c].value = "paused" THEN "garbled" ELSE calls[c].value
  /\ calls' = [calls EXCEPT ![c] = IdleCall]
  /\ UNCHANGED <<up, boot, control, ncalls, actors, targeted>>

-----------------------------------------------------------------------------
(* The supervisor process.                                                 *)

\* Mutant: shutdown looks at runs of its own process only.
QuiescesIgnoringClients == running \notin LocalRuns

\* quiesce_if_idle agrees: nobody alive holds the slot.
Quiesces == ~Busy

\* runtime.shutdown, or the owner's pipe closed.
Quiesce ==
  /\ up
  /\ Quiesces
  /\ running' = Nil
  /\ quiesced' = TRUE
  /\ UNCHANGED <<up, boot, paused, cancel, pausing, actors, targeted>>

Start ==
  /\ ~up
  /\ boot < MaxBoots
  /\ up' = TRUE
  /\ boot' = boot + 1
  /\ paused' = (file = "paused")
  /\ cancel' = FALSE /\ quiesced' = FALSE /\ running' = Nil
  /\ UNCHANGED <<pausing, actors, targeted>>

\* The process ends, by its own shutdown, a signal or a crash: its runs, its calls
\* and the requests it had not handled end with it.
Stop ==
  /\ up
  /\ up' = FALSE
  /\ phase' = [r \in Runs |-> IF r \in LocalRuns /\ phase[r] # "new" THEN "done" ELSE phase[r]]
  /\ calls' = [c \in Clients |-> IdleCall]
  /\ releases' = {}
  /\ UNCHANGED <<boot, control, file, ncalls, claimedIn, stopped, reused, targeted>>

Next ==
  \/ \E r \in Runs : Ask(r) \/ Begin(r) \/ SeeCancel(r)
  \/ \E r \in LocalRuns : FinishLocal(r)
  \/ \E r \in CliRuns : FinishCli(r) \/ Release(r) \/ ExitCli(r) \/ ReusePid(r)
  \/ \E r \in Runs \cup {Nil} : CancelRun(r)
  \/ \E c \in Clients :
       \/ \E withCancel \in BOOLEAN : Pause(c, withCancel)
       \/ Resume(c) \/ PersistRead(c) \/ PersistTruncate(c) \/ PersistWrite(c)
  \/ Quiesce \/ Start \/ Stop

Spec == Init /\ [][Next]_vars

\* A waiting CLI polls (claim_run_slot); the supervisor serves what it is asked.
Fairness == \A r \in CliRuns : WF_vars(Ask(r)) /\ WF_vars(Begin(r))

LiveSpec == Spec /\ Fairness

-----------------------------------------------------------------------------
(* Properties.                                                             *)

\* Who claimed the slot in this supervisor and still drives the browser holds it:
\* no claim, stale release, late release or reclaim ever takes it from a live run.
SlotIsExclusive ==
  \A r \in Runs : up /\ phase[r] = "active" /\ claimedIn[r] = boot => running = r

\* A run is stopped only by a cancellation that was meant for it, although one flag
\* serves all runs and in-process runs read it without naming theirs.
StopsOnlyItsTarget == stopped \subseteq targeted

\* A supervisor that agreed to shut down has no live run of its own, and gets none.
ShutdownSparesRuns ==
  up /\ quiesced =>
    /\ running = Nil
    /\ \A r \in Runs : ~(phase[r] = "active" /\ claimedIn[r] = boot)

\* A slot whose owner died comes back to a client that keeps polling for it, unless another
\* process got the owner's process id: owner_is_live cannot tell them apart.
StrandedSlotIsReclaimed ==
  \A r \in CliRuns :
    (up /\ running = r /\ phase[r] = "done" /\ \E q \in CliRuns : phase[q] \in {"new", "admitted"})
      ~> (~up \/ running # r \/ r \in reused \/ \A q \in CliRuns : phase[q] \notin {"new", "admitted"})

\* Stated by the refusal: "the pause persists across supervisor restarts".
PausePersists ==
  up /\ paused /\ (\A c \in Clients : calls[c] = IdleCall) => file = "paused"
=============================================================================
