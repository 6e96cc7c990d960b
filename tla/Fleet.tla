--------------------------------- MODULE Fleet ---------------------------------
(***************************************************************************)
(* The fleet loop (crates/rzn_browser/src/supervisor_fleet.rs): it polls a *)
(* server for jobs, runs one at a time in a task of its own, and reports   *)
(* each outcome until the server acknowledges it. A journal and a          *)
(* directory of results carry it over crashes and restarts.                *)
(*                                                                         *)
(* The journal is modelled by the latest entry of each job, all that the   *)
(* code ever reads of it. Its writes and those of the results succeed.     *)
(***************************************************************************)
EXTENDS Integers, FiniteSets

CONSTANTS
  Jobs,       \* job ids
  Nil,
  MaxCrashes, \* bound on the ends of the process
  MaxStops    \* bound on fleet.disable, a new enrolment, or a stop by the server

\* Failed stands for timed out and cancelled as well.
Outcomes == {"succeeded", "failed", "aborted"}

Posts == [job : Jobs, outcome : Outcomes]

ASSUME FleetAssumption ==
  /\ Nil \notin Jobs /\ Nil \notin Outcomes /\ Nil \notin Posts
  /\ MaxCrashes \in Nat /\ MaxStops \in Nat

VARIABLES
  \* On disk.
  journal,  \* the latest entry of each job, or "none"
  results,  \* the stored result of each job, or Nil
  \* The loop.
  loop,     \* where it stands
  pending,  \* the files that flush_pending has still to post
  back,     \* where the loop goes on after flush_pending
  post,     \* the result being posted
  disabled, \* a stop was requested
  todo,     \* jobs that reconcile_startup has still to look at
  \* The job in hand.
  current,  \* its id
  stage,    \* where its task stands
  outcome,  \* the outcome its task will store
  cancel,   \* its cancel flag
  \* The server.
  sent,     \* posts that got through, and may be taken up at any later time
  recorded, \* the outcome the server keeps for each job
  \* Bounds and history.
  crashes, stops,
  runs,     \* executions of each job
  stored    \* the outcome each job's own task stored, unless a power failure took it

disk == <<journal, results>>
flushing == <<pending, back, post>>
job == <<current, stage, outcome, cancel>>
server == <<sent, recorded>>
bounds == <<crashes, stops>>
history == <<runs, stored>>
vars == <<disk, loop, flushing, disabled, todo, job, server, bounds, history>>
TypeOK ==
  /\ journal \in [Jobs -> {"none", "accepted", "running", "finished", "posted"}]
  /\ results \in [Jobs -> Outcomes \cup {Nil}]
  /\ loop \in {"off", "reconciling", "flushing", "awaiting", "removing", "top", "polling",
               "stopping", "aborting", "finishing"}
  /\ pending \subseteq Jobs /\ back \in {"top", "polling", "off"}
  /\ post \in Posts \cup {Nil} /\ (loop \in {"awaiting", "removing"} => post # Nil)
  /\ disabled \in BOOLEAN /\ todo \subseteq Jobs
  /\ current \in Jobs \cup {Nil} /\ (loop \in {"aborting", "finishing"} => current # Nil)
  /\ stage \in {"none", "spawned", "running", "executing", "ending", "stored", "done", "crashed"}
  /\ (stage = "none" <=> current = Nil)
  /\ outcome \in Outcomes \cup {Nil} /\ (stage \in {"ending", "stored"} => outcome # Nil)
  /\ cancel \in BOOLEAN
  /\ sent \subseteq Posts /\ recorded \in [Jobs -> Outcomes \cup {Nil}]
  /\ crashes \in 0..MaxCrashes /\ stops \in 0..MaxStops
  /\ runs \in [Jobs -> Nat] /\ stored \in [Jobs -> Outcomes \cup {Nil}]

Init ==
  /\ journal = [j \in Jobs |-> "none"] /\ results = [j \in Jobs |-> Nil]
  /\ loop = "off" /\ pending = {} /\ back = "top" /\ post = Nil
  /\ disabled = FALSE /\ todo = {}
  /\ current = Nil /\ stage = "none" /\ outcome = Nil /\ cancel = FALSE
  /\ sent = {} /\ recorded = [j \in Jobs |-> Nil]
  /\ crashes = 0 /\ stops = 0
  /\ runs = [j \in Jobs |-> 0] /\ stored = [j \in Jobs |-> Nil]

Journal(j, entry) == journal' = [journal EXCEPT ![j] = entry]
Store(j, o) == results' = [results EXCEPT ![j] = o]

NoJob == current' = Nil /\ stage' = "none" /\ outcome' = Nil /\ cancel' = FALSE

-----------------------------------------------------------------------------
(* Starting: reconcile_startup, compact, and a first flush_pending.        *)

Start ==
  /\ loop = "off"
  /\ loop' = "reconciling"
  /\ disabled' = FALSE
  /\ todo' = {j \in Jobs : journal[j] # "none"}
  /\ UNCHANGED <<disk, flushing, job, server, bounds, history>>

\* Mutant: a result that survived is overwritten.
Overwrite(j) == journal[j] \in {"accepted", "running", "finished"} /\ results[j] # "aborted"

\* No result survived: an aborted one is stored first, then finished is journaled, so a
\* crash in between leaves a job that has a result.
MustAbort(j) == journal[j] \in {"accepted", "running", "finished"} /\ results[j] = Nil

ReconcileAbort(j) ==
  /\ loop = "reconciling"
  /\ j \in todo
  /\ MustAbort(j)
  /\ Store(j, "aborted")
  /\ todo' = IF journal[j] = "finished" THEN todo \ {j} ELSE todo
  /\ UNCHANGED <<journal, loop, flushing, disabled, job, server, bounds, history>>

Reconcile(j) ==
  /\ loop = "reconciling"
  /\ j \in todo
  /\ ~MustAbort(j)
  /\ IF journal[j] = "posted" THEN Store(j, Nil) /\ UNCHANGED journal
                              ELSE Journal(j, "finished") /\ UNCHANGED results
  /\ todo' = todo \ {j}
  /\ UNCHANGED <<loop, flushing, disabled, job, server, bounds, history>>

\* Mutant: finished jobs go as well.
KeptUnfinished == {j \in Jobs : journal[j] \notin {"finished", "posted"}}

Kept == {j \in Jobs : journal[j] # "posted"}

\* flush_pending posts the files it finds when it starts.
Flush(from) ==
  /\ loop' = "flushing"
  /\ pending' = {j \in Jobs : results[j] # Nil}
  /\ back' = from
  /\ UNCHANGED post

Compact ==
  /\ loop = "reconciling"
  /\ todo = {}
  /\ journal' = [j \in Jobs |-> IF j \in Kept THEN journal[j] ELSE "none"]
  /\ Flush("top")
  /\ UNCHANGED <<results, disabled, todo, job, server, bounds, history>>

-----------------------------------------------------------------------------
(* flush_pending.                                                          *)

Post(j) ==
  /\ loop = "flushing"
  /\ j \in pending
  /\ results[j] # Nil
  /\ post' = [job |-> j, outcome |-> results[j]]
  /\ loop' = "awaiting"
  /\ pending' = pending \ {j}
  /\ UNCHANGED <<disk, back, disabled, todo, job, server, bounds, history>>

\* The request gets through before the post is given up.
Arrives ==
  /\ loop = "awaiting"
  /\ post \notin sent
  /\ sent' = sent \cup {post}
  /\ UNCHANGED <<disk, loop, flushing, disabled, todo, job, recorded, bounds, history>>

\* The acknowledgement, of a deduplicated post too, is journaled before the file goes.
Acknowledged ==
  /\ loop = "awaiting"
  /\ recorded[post.job] # Nil
  /\ Journal(post.job, "posted")
  /\ loop' = "removing"
  /\ UNCHANGED <<results, flushing, disabled, todo, job, server, bounds, history>>

\* Mutant: a post that failed is not repeated.
DropsFile == Store(post.job, Nil)

KeepsFile == UNCHANGED results

\* No answer within 30 seconds, or an error: the next round tries again.
PostFails ==
  /\ loop = "awaiting"
  /\ KeepsFile
  /\ post' = Nil
  /\ loop' = "flushing"
  /\ UNCHANGED <<journal, pending, back, disabled, todo, job, server, bounds, history>>

Remove ==
  /\ loop = "removing"
  /\ Store(post.job, Nil)
  /\ post' = Nil
  /\ loop' = "flushing"
  /\ UNCHANGED <<journal, pending, back, disabled, todo, job, server, bounds, history>>

Flushed ==
  /\ loop = "flushing"
  /\ pending = {}
  /\ loop' = back
  /\ UNCHANGED <<disk, flushing, disabled, todo, job, server, bounds, history>>

-----------------------------------------------------------------------------
(* A round of the loop.                                                    *)

\* The stop is seen at the top of a round, and the running job cancelled.
SeeStop ==
  /\ loop = "top"
  /\ disabled
  /\ loop' = "stopping"
  /\ cancel' = (current # Nil)
  /\ UNCHANGED <<disk, flushing, disabled, todo, current, stage, outcome, server, bounds, history>>

Reap ==
  /\ loop = "top"
  /\ ~disabled
  /\ stage = "done"
  /\ NoJob
  /\ Flush("polling")
  /\ UNCHANGED <<disk, disabled, todo, server, bounds, history>>

ReapCrashed ==
  /\ loop = "top"
  /\ ~disabled
  /\ stage = "crashed"
  /\ loop' = "aborting"
  /\ back' = "polling"
  /\ UNCHANGED <<disk, pending, post, disabled, todo, job, server, bounds, history>>

GoOn ==
  /\ loop = "top"
  /\ ~disabled
  /\ stage \notin {"done", "crashed"}
  /\ Flush("polling")
  /\ UNCHANGED <<disk, disabled, todo, job, server, bounds, history>>

\* A network error, no job in the answer, or one that is dropped: a job is taken only
\* while none is in hand and automation is not paused.
NothingToDo ==
  /\ loop = "polling"
  /\ loop' = "top"
  /\ UNCHANGED <<disk, flushing, disabled, todo, job, server, bounds, history>>

CancelJob ==
  /\ loop = "polling"
  /\ current # Nil
  /\ cancel' = TRUE
  /\ loop' = "top"
  /\ UNCHANGED <<disk, flushing, disabled, todo, current, stage, outcome, server, bounds, history>>

\* The device was revoked or is dormant.
StoppedByServer ==
  /\ loop = "polling"
  /\ stops < MaxStops
  /\ stops' = stops + 1
  /\ cancel' = (current # Nil)
  /\ loop' = "stopping"
  /\ UNCHANGED <<disk, flushing, disabled, todo, current, stage, outcome, server, crashes, history>>

\* The server assigns a job again and again until it has an outcome of it.
Assigned(j) == recorded[j] = Nil

\* Mutant: only what was acknowledged counts as done.
DonePosted(j) == journal[j] = "posted"

Done(j) == journal[j] \in {"finished", "posted"}

\* maybe_start_job, of a job that is completed.
Deduplicate(j) ==
  /\ loop = "polling"
  /\ current = Nil
  /\ Assigned(j)
  /\ Done(j)
  /\ Flush("top")
  /\ UNCHANGED <<disk, disabled, todo, job, server, bounds, history>>

\* maybe_start_job: accepted is on disk before the task is spawned.
StartJob(j) ==
  /\ loop = "polling"
  /\ current = Nil
  /\ Assigned(j)
  /\ ~Done(j)
  /\ Journal(j, "accepted")
  /\ current' = j /\ stage' = "spawned" /\ outcome' = Nil /\ cancel' = FALSE
  /\ loop' = "top"
  /\ UNCHANGED <<results, flushing, disabled, todo, server, bounds, history>>

\* request_stop: fleet.disable, or an enrolment that replaces the loop.
RequestStop ==
  /\ loop # "off"
  /\ ~disabled
  /\ stops < MaxStops
  /\ stops' = stops + 1
  /\ disabled' = TRUE
  /\ cancel' = (current # Nil)
  /\ UNCHANGED <<disk, loop, flushing, todo, current, stage, outcome, server, crashes, history>>

-----------------------------------------------------------------------------
(* The task of the job.                                                    *)

Begin ==
  /\ stage = "spawned"
  /\ Journal(current, "running")
  /\ stage' = "running"
  /\ UNCHANGED <<results, loop, flushing, disabled, todo, current, outcome, cancel, server,
                 bounds, history>>

\* The workflow cannot be fetched or loaded, or another run has the slot.
CannotExecute ==
  /\ stage = "running"
  /\ outcome' = "failed"
  /\ stage' = "ending"
  /\ UNCHANGED <<disk, loop, flushing, disabled, todo, current, cancel, server, bounds, history>>

Execute ==
  /\ stage = "running"
  /\ runs' = [runs EXCEPT ![current] = @ + 1]
  /\ stage' = "executing"
  /\ UNCHANGED <<disk, loop, flushing, disabled, todo, current, outcome, cancel, server, bounds,
                 stored>>

\* execute_workflow returns; a cancellation that arrived by then decides the outcome.
Complete ==
  /\ stage = "executing"
  /\ \E o \in {"succeeded", "failed"} : outcome' = IF cancel THEN "failed" ELSE o
  /\ stage' = "ending"
  /\ UNCHANGED <<disk, loop, flushing, disabled, todo, current, cancel, server, bounds, history>>

Panic ==
  /\ stage = "executing"
  /\ stage' = "crashed"
  /\ UNCHANGED <<disk, loop, flushing, disabled, todo, current, outcome, cancel, server,
                 bounds, history>>

StoreResult ==
  /\ stage = "ending"
  /\ Store(current, outcome)
  /\ stored' = [stored EXCEPT ![current] = outcome]
  /\ stage' = "stored"
  /\ UNCHANGED <<journal, loop, flushing, disabled, todo, current, outcome, cancel, server,
                 bounds, runs>>

Finish ==
  /\ stage = "stored"
  /\ Journal(current, "finished")
  /\ stage' = "done"
  /\ UNCHANGED <<results, loop, flushing, disabled, todo, current, outcome, cancel, server,
                 bounds, history>>

-----------------------------------------------------------------------------
(* Stopping, and the end of a job that has no result of its own.           *)

Stopped ==
  /\ loop = "stopping"
  /\ stage \in {"none", "done"}
  /\ NoJob
  /\ IF current = Nil THEN loop' = "off" /\ UNCHANGED flushing ELSE Flush("off")
  /\ UNCHANGED <<disk, disabled, todo, server, bounds, history>>

\* Five seconds are over: the task is aborted where it awaits. It awaits nothing after its
\* notices, and may be past them.
StopWaitsNoMore ==
  /\ loop = "stopping"
  /\ stage \notin {"none", "done"}
  /\ \/ stage # "stored" /\ stage' = "crashed"
     \/ stage \in {"ending", "stored"} /\ UNCHANGED stage
  /\ loop' = "aborting"
  /\ back' = "off"
  /\ UNCHANGED <<disk, pending, post, disabled, todo, current, outcome, cancel, server, bounds,
                 history>>

\* abort_job, once the task has ended: nothing for a job that completed after all.
AbortSpared ==
  /\ loop = "aborting"
  /\ stage \in {"done", "crashed"}
  /\ Done(current)
  /\ NoJob
  /\ Flush(back)
  /\ UNCHANGED <<disk, disabled, todo, server, bounds, history>>

\* The result first, then the journal.
AbortStore ==
  /\ loop = "aborting"
  /\ stage \in {"done", "crashed"}
  /\ ~Done(current)
  /\ Store(current, "aborted")
  /\ loop' = "finishing"
  /\ UNCHANGED <<journal, flushing, disabled, todo, job, server, bounds, history>>

AbortFinish ==
  /\ loop = "finishing"
  /\ Journal(current, "finished")
  /\ NoJob
  /\ Flush(back)
  /\ UNCHANGED <<results, disabled, todo, server, bounds, history>>

-----------------------------------------------------------------------------
(* The server, and the end of the process.                                 *)

\* The first outcome counts; whatever comes later is deduplicated.
Record(p) ==
  /\ p \in sent
  /\ recorded[p.job] = Nil
  /\ recorded' = [recorded EXCEPT ![p.job] = p.outcome]
  /\ UNCHANGED <<disk, loop, flushing, disabled, todo, job, sent, bounds, history>>

Ends ==
  /\ crashes < MaxCrashes
  /\ crashes' = crashes + 1
  /\ loop' = "off" /\ pending' = {} /\ back' = "top" /\ post' = Nil
  /\ disabled' = FALSE /\ todo' = {}
  /\ NoJob
  /\ UNCHANGED <<journal, server, stops, runs>>

Crash ==
  /\ loop # "off"
  /\ Ends
  /\ UNCHANGED <<results, stored>>

\* The journal is written with sync_all, results are not: those may be gone.
PowerFails ==
  /\ loop # "off"
  /\ Ends
  /\ \E lost \in SUBSET {j \in Jobs : results[j] # Nil} :
       /\ lost # {}
       /\ results' = [j \in Jobs |-> IF j \in lost THEN Nil ELSE results[j]]
       /\ stored' = [j \in Jobs |-> IF j \in lost THEN Nil ELSE stored[j]]

\* The steps of the loop's thread, and of the task of its job.
LoopStep ==
  \/ Start \/ Compact \/ Flushed \/ Acknowledged \/ PostFails \/ Remove
  \/ SeeStop \/ Reap \/ ReapCrashed \/ GoOn \/ NothingToDo \/ CancelJob \/ StoppedByServer
  \/ \E j \in Jobs : ReconcileAbort(j) \/ Reconcile(j) \/ Post(j) \/ Deduplicate(j) \/ StartJob(j)
  \/ Stopped \/ StopWaitsNoMore \/ AbortSpared \/ AbortStore \/ AbortFinish

TaskStep == Begin \/ CannotExecute \/ Execute \/ Complete \/ Panic \/ StoreResult \/ Finish

Next ==
  \/ LoopStep
  \/ TaskStep
  \/ RequestStop
  \/ Arrives
  \/ \E p \in sent : Record(p)
  \/ Crash \/ PowerFails

Spec == Init /\ [][Next]_vars

\* Both threads run, executions end by their deadlines, a loop that ended is started again
\* with the supervisor or by an enrolment, and the server takes up the posts it gets. A post
\* that is repeated gets through once, and so does its acknowledgement.
Fairness ==
  /\ WF_vars(LoopStep) /\ WF_vars(TaskStep) /\ SF_vars(Arrives) /\ SF_vars(Acknowledged)
  /\ \A j \in Jobs, o \in Outcomes : WF_vars([job |-> j, outcome |-> o] \in sent
                                             /\ Record([job |-> j, outcome |-> o]))

LiveSpec == Spec /\ Fairness

-----------------------------------------------------------------------------
(* Properties.                                                             *)

\* "An already-completed re-delivered job is deduped instead of re-executed", and one that
\* was under way when the process ended is not run a second time either: whatever the
\* server assigns again, crashes and restarts in between, a job is executed once at most.
RunsOnce == \A j \in Jobs : runs[j] <= 1

\* "Persist BEFORE journaling finished so a crash never loses the result": the outcome the
\* server keeps is the one the job's task stored, if it came to storing one, and success is
\* never reported of a job that did not run.
ReportsAreTrue ==
  \A j \in Jobs : recorded[j] # Nil =>
    /\ stored[j] # Nil => recorded[j] = stored[j]
    /\ recorded[j] = "succeeded" => runs[j] = 1

\* What the journal says of a completed job is forgotten only when the server has its
\* outcome: neither compaction nor reconciliation opens the job again.
CompletedIsRemembered ==
  [][\A j \in Jobs : journal[j] \in {"finished", "posted"} =>
       journal'[j] \in {"finished", "posted"} \/ recorded[j] # Nil]_vars

\* An accepted job is reported to the server in the end, by its result or as aborted,
\* through panics, stops, crashes, lost files and posts that fail.
AcceptedIsReported == \A j \in Jobs : journal[j] = "accepted" ~> recorded[j] # Nil

\* "finished must precede posted": a result is journaled as posted after the job was journaled
\* as finished. An entry that comes the other way round is the latest one and hides the
\* acknowledgement: the next start finds a finished job without a result and posts it as aborted.
FinishedPrecedesPosted ==
  [][\A j \in Jobs : journal[j] # "posted" /\ journal'[j] = "posted" => journal[j] = "finished"]_vars
=============================================================================
