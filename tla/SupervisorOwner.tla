-------------------------- MODULE SupervisorOwner --------------------------
(***************************************************************************)
(* Who starts, stops and replaces the supervisor process of one app base   *)
(* on macOS (supervisor.rs 5543-6805, supervisor_service.rs).  Several     *)
(* kinds of processes meet only through files and advisory locks:          *)
(*                                                                         *)
(*   - supervisors hold `lock' (the flock on lock_path) while they serve;  *)
(*     a supervisor is started directly, or as the child of an owner;      *)
(*   - the owner, run by launchd (`supervisor watch'), keeps one child     *)
(*     alive: it reaps it, probes it, kills it when it hangs, and starts   *)
(*     the next one; it publishes its child in owner_state_path;           *)
(*   - command-line clients (ensure-ready, shutdown, restart, service      *)
(*     install and uninstall) work one at a time under the transition      *)
(*     lock, and talk to the owner through the stop request file.          *)
(*                                                                         *)
(* A client may be killed, or give up waiting, between any two of its      *)
(* steps: its lock is released and its files stay.  Deadlines and          *)
(* back-offs are actions that may be taken at any time.                    *)
(***************************************************************************)
EXTENDS Integers, FiniteSets

CONSTANTS
  Pids,              \* process ids of supervisors; reused once reaped
  FailureThreshold,  \* SUPERVISOR_WATCH_FAILURE_THRESHOLD
  Ops,               \* the commands that clients give
  MaxGen,            \* bound: supervisors ever started
  MaxOwner,          \* bound: owners ever started
  MaxOps,            \* bound: commands ever given
  MaxFaults          \* bound: crashes, hangs, kills and give-ups

ASSUME OwnerAssumption ==
  /\ Pids \subseteq Nat \ {0} /\ IsFiniteSet(Pids)
  /\ FailureThreshold \in Nat \ {0}
  /\ Ops \subseteq {"ensure", "stop", "force", "restart",
                 "install", "reinstall", "uninstall", "serve"}
  /\ {MaxGen, MaxOwner, MaxOps, MaxFaults} \subseteq Nat

VARIABLES
  sup,      \* supervisor processes by pid
  gens,     \* the last child generation given out (a fresh UUID each)
  lock,     \* pid that holds the flock of lock_path, 0 when it is free
  lockPid,  \* the pid written in lock_path; stays when the lock is released
  owner,    \* the running owner, pc = "down" when there is none
  owned,    \* owner_state_path: the owner and the child it publishes
  request,  \* owner_stop_path
  marker,   \* owner_marker_path exists
  loaded,   \* launchd has the job
  cli,      \* the client that holds the transition lock
  ops, faults,
  stopped   \* history: the owner whose child a shutdown has named and stopped,
            \* until the next command; 0 otherwise

kernel == <<sup, gens, lock, lockPid>>
files == <<owned, request>>
service == <<marker, loaded>>
client == <<cli, ops, stopped>>
vars == <<kernel, owner, files, service, client, faults>>

Dead == [st |-> "dead", gen |-> 0, run |-> FALSE, quiet |-> FALSE, hung |-> FALSE, eof |-> FALSE]
Started(st, gen) == [Dead EXCEPT !.st = st, !.gen = gen]
Down == [pc |-> "down", inc |-> 0, child |-> 0, gen |-> 0, quit |-> FALSE, fails |-> 0,
         grace |-> FALSE, backoff |-> FALSE, clear |-> FALSE]
NoRequest == [inc |-> 0, pid |-> 0, gen |-> 0, force |-> FALSE, restart |-> FALSE]
Idle == [op |-> "none", pc |-> "none", pid |-> 0, inc |-> 0, gen |-> 0, was |-> FALSE,
         quell |-> FALSE, boot |-> FALSE]

ClientSteps == {"none", "ask", "await", "status", "pid", "child", "read", "write", "shutdown",
                "release", "sigterm", "kill", "plan", "idle", "released", "bootout", "gone",
                "mark", "load", "ready", "undo", "unmark", "serve"}

Processes == [st : {"dead", "check", "boot", "up", "zombie"}, gen : 0..MaxGen,
              run : BOOLEAN, quiet : BOOLEAN, hung : BOOLEAN, eof : BOOLEAN]
Owners == [pc : {"down", "tick", "unlist", "list", "probe", "drain"}, inc : 0..MaxOwner,
           child : Pids \cup {0}, gen : 0..MaxGen, quit : BOOLEAN,
           fails : 0..FailureThreshold, grace : BOOLEAN, backoff : BOOLEAN, clear : BOOLEAN]
OwnerStates == [inc : 0..MaxOwner, child : Pids \cup {0}, gen : 0..MaxGen]
StopRequests == [inc : 0..MaxOwner, pid : Pids \cup {0}, gen : 0..MaxGen,
                 force : BOOLEAN, restart : BOOLEAN]
Clients == [op : Ops \cup {"none"}, pc : ClientSteps, pid : Pids \cup {0}, inc : 0..MaxOwner,
            gen : 0..MaxGen, was : BOOLEAN, quell : BOOLEAN, boot : BOOLEAN]

TypeOK ==
  /\ sup \in [Pids -> Processes] /\ gens \in 0..MaxGen
  /\ lock \in Pids \cup {0} /\ lockPid \in Pids \cup {0}
  /\ owner \in Owners /\ owned \in OwnerStates /\ request \in StopRequests
  /\ marker \in BOOLEAN /\ loaded \in BOOLEAN /\ stopped \in 0..MaxOwner
  /\ cli \in Clients /\ ops \in 0..MaxOps /\ faults \in 0..MaxFaults

(***************************************************************************)
(* A machine where nothing runs yet, or where a direct supervisor serves;  *)
(* the service may be installed.                                           *)
(***************************************************************************)
Init ==
  /\ \/ sup = [p \in Pids |-> Dead] /\ lock = 0 /\ lockPid = 0
     \/ \E p \in Pids : /\ sup = [q \in Pids |-> IF q = p THEN Started("up", 0) ELSE Dead]
                        /\ lock = p /\ lockPid = p
  /\ gens = 0
  /\ owner = Down /\ owned = [inc |-> 0, child |-> 0, gen |-> 0] /\ request = NoRequest
  /\ marker \in BOOLEAN /\ loaded = marker
  /\ cli = Idle /\ ops = 0 /\ faults = 0 /\ stopped = 0

-----------------------------------------------------------------------------
(* Supervisor processes.                                                    *)

Live(p) == sup[p].st \in {"check", "boot", "up"}

\* runtime.status is answered: a supervisor serves and is not stuck.
Answering == lock # 0 /\ ~sup[lock].hung

\* An exited child stays a zombie until its owner waits for it.
Exits(p) ==
  /\ sup' = [sup EXCEPT ![p] = IF owner.child = p THEN Started("zombie", @.gen) ELSE Dead]
  /\ lock' = IF lock = p THEN 0 ELSE lock

\* Child::kill and Child::wait
Killed(p) ==
  /\ sup' = [sup EXCEPT ![p] = Dead]
  /\ lock' = IF lock = p THEN 0 ELSE lock

Becomes(p, process) == sup' = [sup EXCEPT ![p] = process] /\ UNCHANGED lock

\* A supervisor that ensure_running has started skips the transition lock, but
\* looks at the marker.
Check(p) ==
  /\ sup[p].st = "check"
  /\ Becomes(p, IF marker THEN Dead ELSE Started("boot", 0))
  /\ UNCHANGED <<gens, lockPid, owner, files, service, client, faults>>

\* acquire_supervisor_process_lock; the loser of a race ends.
Boot(p) ==
  /\ sup[p].st = "boot"
  /\ IF lock = 0
       THEN /\ sup' = [sup EXCEPT ![p].st = "up"]
            /\ lock' = p /\ lockPid' = p
       ELSE Exits(p) /\ UNCHANGED lockPid
  /\ UNCHANGED <<gens, owner, files, service, client, faults>>

Works(p) == sup[p].st = "up" /\ ~sup[p].hung

BeginRun(p) ==
  /\ Works(p) /\ ~sup[p].run /\ ~sup[p].quiet
  /\ Becomes(p, [sup[p] EXCEPT !.run = TRUE])
  /\ UNCHANGED <<gens, lockPid, owner, files, service, client, faults>>

EndRun(p) ==
  /\ Works(p) /\ sup[p].run
  /\ Becomes(p, [sup[p] EXCEPT !.run = FALSE])
  /\ UNCHANGED <<gens, lockPid, owner, files, service, client, faults>>

\* quiesce_if_idle lets no run begin from here on.
Quiesced(p) == [sup[p] EXCEPT !.quiet = TRUE]
MayQuiesce(p) == ~sup[p].run

\* Mutant: the end of the pipe is taken as a signal.
ClosedPipeEnds(p) == sup[p].eof

\* The end of the owner's pipe asks for a shutdown as soon as no run is active.
PipeSaysStop(p) == sup[p].eof /\ MayQuiesce(p)

PipeClosed(p) ==
  /\ Works(p) /\ ~sup[p].quiet /\ PipeSaysStop(p)
  /\ Becomes(p, Quiesced(p))
  /\ UNCHANGED <<gens, lockPid, owner, files, service, client, faults>>

\* The accept loop sees the shutdown flag.
Exit(p) ==
  /\ Works(p) /\ sup[p].quiet
  /\ Exits(p)
  /\ UNCHANGED <<gens, lockPid, owner, files, service, client, faults>>

-----------------------------------------------------------------------------
(* The owner: one pass of the loop of watch_managed is cut where it waits,  *)
(* and between the end of a child and the files that tell of it.            *)

At(pc) == owner.pc = pc
Awake == [owner EXCEPT !.quit = @ \/ ~marker]

\* owner_stop_request_for_child, watch_stop_request_for_owner
NamesOwner == owner.inc # 0 /\ request.inc = owner.inc
NamesChild == NamesOwner /\ request.pid = owner.child /\ request.gen = owner.gen

\* The child is gone, and owner_state_path does not say so yet.
Childless(clear, backoff) ==
  [Awake EXCEPT !.pc = "unlist", !.child = 0, !.gen = 0,
                !.clear = clear, !.backoff = @ \/ backoff]

\* launchd starts the job (RunAtLoad, KeepAlive, kickstart); the new owner takes
\* the owner lock, publishes itself and clears the request.
LaunchOwner ==
  /\ At("down") /\ loaded /\ marker /\ owned.inc < MaxOwner
  /\ owner' = [Down EXCEPT !.pc = "tick", !.inc = owned.inc + 1]
  /\ owned' = [inc |-> owned.inc + 1, child |-> 0, gen |-> 0]
  /\ request' = NoRequest
  /\ UNCHANGED <<kernel, service, client, faults>>

ForcedOut ==
  /\ At("tick") /\ owner.child # 0 /\ NamesChild /\ request.force
  /\ Killed(owner.child)
  /\ owner' = Childless(request.restart, request.restart)
  /\ UNCHANGED <<gens, lockPid, files, service, client, faults>>

\* owned_child_exit_should_restart
ShouldRestart == NamesChild => request.restart

\* The request may have come after the look for a forced stop.
Reap ==
  /\ At("tick") /\ owner.child # 0 /\ sup[owner.child].st = "zombie"
  /\ Killed(owner.child)
  /\ owner' = [Childless(NamesChild /\ ShouldRestart, ShouldRestart) EXCEPT !.fails = 0]
  /\ UNCHANGED <<gens, lockPid, files, service, client, faults>>

\* update_child(None), and the request that has been answered is cleared.
Unlist ==
  /\ At("unlist")
  /\ owned' = [owned EXCEPT !.child = 0, !.gen = 0]
  /\ request' = IF owner.clear THEN NoRequest ELSE request
  /\ owner' = [owner EXCEPT !.pc = "tick", !.clear = FALSE]
  /\ UNCHANGED <<kernel, service, client, faults>>

Serves(p) == Answering /\ lock = p
Undisturbed == /\ owner.child # 0 /\ sup[owner.child].st # "zombie"
               /\ ~(NamesChild /\ request.force)

\* stop_watched_child_if_idle: the child answers, is idle and has quiesced.
StopChild ==
  /\ At("tick") /\ Undisturbed /\ Awake.quit
  /\ Serves(owner.child) /\ MayQuiesce(owner.child)
  /\ Becomes(owner.child, [Quiesced(owner.child) EXCEPT !.eof = TRUE])
  /\ owner' = [Awake EXCEPT !.pc = "drain"]
  /\ UNCHANGED <<gens, lockPid, files, service, client, faults>>

\* The child has ended, or five seconds are over and it is killed.
Drained ==
  /\ At("drain")
  /\ Killed(owner.child)
  /\ owned' = [owned EXCEPT !.child = 0, !.gen = 0]
  /\ owner' = Down
  /\ UNCHANGED <<gens, lockPid, request, service, client, faults>>

Probe ==
  /\ At("tick") /\ Undisturbed
  /\ owner' = [Awake EXCEPT !.pc = "probe"]
  /\ UNCHANGED <<kernel, files, service, client, faults>>

ProbeSucceeds ==
  /\ At("probe") /\ Serves(owner.child)
  /\ owner' = [owner EXCEPT !.pc = "tick", !.fails = 0]
  /\ UNCHANGED <<kernel, files, service, client, faults>>

\* Mutant: a failure in a row starts the count again.
CountsAfresh == IF owner.grace THEN owner.fails ELSE 1

\* Failures count once the graces for starting and for waking are over.
Failures == IF owner.grace THEN owner.fails ELSE owner.fails + 1

ProbeFails ==
  /\ At("probe") /\ ~Serves(owner.child)
  /\ IF Failures < FailureThreshold
       THEN /\ owner' = [owner EXCEPT !.pc = "tick", !.fails = Failures]
            /\ UNCHANGED <<sup, lock>>
       ELSE /\ owner' = [Childless(FALSE, TRUE) EXCEPT !.fails = 0]
            /\ Killed(owner.child)
  /\ UNCHANGED <<gens, lockPid, files, service, client, faults>>

Leave ==
  /\ At("tick") /\ owner.child = 0 /\ Awake.quit
  /\ owner' = Down
  /\ UNCHANGED <<kernel, files, service, client, faults>>

\* Mutant: a request that names no child is nobody's.
MaySpawnUnasked == ~owner.backoff /\ lock = 0

\* A request for this owner, a back-off, and a supervisor of other origin that
\* still holds its lock keep the owner from starting a child.
MaySpawn == ~NamesOwner /\ ~owner.backoff /\ lock = 0

Spawn ==
  /\ At("tick") /\ owner.child = 0 /\ ~Awake.quit /\ MaySpawn /\ gens < MaxGen
  /\ gens' = gens + 1
  /\ \E p \in Pids :
       /\ sup[p] = Dead
       /\ Becomes(p, Started("boot", gens + 1))
       /\ owner' = [owner EXCEPT !.pc = "list", !.child = p, !.gen = gens + 1]
  /\ UNCHANGED <<lockPid, files, service, client, faults>>

\* update_child(Some), and the grace of the new child.
List ==
  /\ At("list")
  /\ owned' = [owned EXCEPT !.child = owner.child, !.gen = owner.gen]
  /\ owner' = [owner EXCEPT !.pc = "tick", !.grace = TRUE]
  /\ UNCHANGED <<kernel, request, service, client, faults>>

\* A child boots within the grace for starting.
TimePasses ==
  /\ \/ owner.backoff /\ owner' = [owner EXCEPT !.backoff = FALSE]
     \/ owner.grace /\ (owner.child # 0 => sup[owner.child].st # "boot")
        /\ owner' = [owner EXCEPT !.grace = FALSE]
  /\ UNCHANGED <<kernel, files, service, client, faults>>

-----------------------------------------------------------------------------
(* Clients, one at a time under the transition lock.                        *)

Go(pc) == cli' = [cli EXCEPT !.pc = pc]
Return == cli' = Idle
Reading(pid) == cli' = [cli EXCEPT !.pc = "read", !.pid = pid]
Stands(pc) == cli.pc = pc

\* Which way a command goes depends on the marker. Without it, shutdown does
\* not look at --force, and restart is force_shutdown.
FirstStep(op) ==
  CASE op = "ensure"  -> "ask"
    [] op = "stop"    -> IF marker THEN "status" ELSE "shutdown"
    [] op = "force"   -> IF marker THEN "pid" ELSE "shutdown"
    [] op = "restart" -> IF marker THEN "child" ELSE "sigterm"
    [] op = "serve"   -> "serve"
    [] OTHER          -> "plan"

\* The transition lock is taken and the marker is read; ensure_running clears
\* the request of a managed owner before it asks anything.
Begin(op) ==
  /\ cli = Idle /\ ops < MaxOps
  /\ ops' = ops + 1
  /\ cli' = [Idle EXCEPT !.op = op, !.pc = FirstStep(op), !.was = marker]
  /\ request' = IF op = "ensure" /\ marker THEN NoRequest ELSE request
  /\ stopped' = 0
  /\ UNCHANGED <<kernel, owner, owned, service, faults>>

\* Killed, or an error that no step below mentions.
ClientDies ==
  /\ cli # Idle /\ Return
  /\ UNCHANGED <<kernel, owner, files, service, ops, stopped, faults>>

\* ensure_running: kickstart_managed_owner leaves it to launchd; a direct
\* supervisor is spawned when nobody holds either lock.
Ask ==
  /\ Stands("ask")
  /\ CASE Answering \/ (cli.was /\ ~loaded)    -> Return /\ UNCHANGED <<sup, lock>>
       [] ~Answering /\ ~cli.was /\ At("down") /\ lock = 0 ->
            Go("await") /\ \E p \in Pids : sup[p] = Dead /\ Becomes(p, Started("check", 0))
       [] OTHER -> Go("await") /\ UNCHANGED <<sup, lock>>
  /\ UNCHANGED <<gens, lockPid, owner, files, service, ops, stopped, faults>>

\* `supervisor serve' without the bypass: refused while the marker exists, and
\* its process lock is taken before the transition lock is released.
Serve ==
  /\ Stands("serve") /\ Return
  /\ IF ~cli.was /\ lock = 0
       THEN \E p \in Pids : /\ sup[p] = Dead
                           /\ sup' = [sup EXCEPT ![p] = Started("up", 0)]
                           /\ lock' = p /\ lockPid' = p
       ELSE UNCHANGED <<sup, lock, lockPid>>
  /\ UNCHANGED <<gens, owner, files, service, ops, stopped, faults>>

Await ==
  /\ Stands("await") /\ Answering
  /\ Return
  /\ UNCHANGED <<kernel, owner, files, service, ops, stopped, faults>>

\* shutdown of a managed supervisor: whom to name in the request.
Status ==
  /\ Stands("status")
  /\ IF Answering THEN Reading(lock) ELSE Return
  /\ UNCHANGED <<kernel, owner, files, service, ops, stopped, faults>>

LockedPid ==
  /\ Stands("pid")
  /\ IF lockPid # 0 THEN Reading(lockPid) ELSE Return
  /\ UNCHANGED <<kernel, owner, files, service, ops, stopped, faults>>

\* restart of a managed supervisor; without a child it is a kickstart.
PublishedChild ==
  /\ Stands("child")
  /\ IF ~At("down") /\ owned.child # 0
       THEN Reading(owned.child) /\ UNCHANGED request
       ELSE request' = NoRequest /\ IF loaded THEN Go("await") ELSE Return
  /\ UNCHANGED <<kernel, owner, owned, service, ops, stopped, faults>>

\* request_managed_owner_stop_with_action: the lock of the owner is probed and
\* its state is read, then the request is written.
Read ==
  /\ Stands("read")
  /\ CASE At("down") -> IF cli.op = "stop" THEN Go("shutdown")
                        ELSE IF cli.quell THEN Go("idle") ELSE Return
       [] ~At("down") /\ owned.child # cli.pid -> Return
       [] OTHER -> cli' = [cli EXCEPT !.pc = "write", !.inc = owned.inc, !.gen = owned.gen]
  /\ UNCHANGED <<kernel, owner, files, service, ops, stopped, faults>>

Write ==
  /\ Stands("write")
  /\ request' = [inc |-> cli.inc, pid |-> cli.pid, gen |-> cli.gen,
                 force |-> cli.op \in {"force", "restart"}, restart |-> cli.op = "restart"]
  /\ Go(IF cli.op = "stop" THEN "shutdown" ELSE IF cli.quell THEN "idle" ELSE "release")
  /\ UNCHANGED <<kernel, owner, owned, service, ops, stopped, faults>>

\* runtime.shutdown_if_idle is served.
QuiescesLock == Answering /\ MayQuiesce(lock) /\ Becomes(lock, Quiesced(lock))

TakesBack(mine) == request' = IF mine THEN NoRequest ELSE request

\* A shutdown that is refused or whose call or answer is lost takes the request of a managed
\* owner back, served or not.
Shutdown ==
  /\ Stands("shutdown") /\ Return
  /\ \/ /\ QuiescesLock
        /\ stopped' = IF sup[lock].gen = cli.gen THEN cli.inc ELSE 0
        /\ UNCHANGED request
     \/ /\ QuiescesLock \/ UNCHANGED <<sup, lock>>
        /\ TakesBack(cli.was)
        /\ UNCHANGED stopped
  /\ UNCHANGED <<gens, lockPid, owner, owned, service, ops, faults>>

\* The forced request is served when the lock of the child is free.
Released ==
  /\ Stands("release") /\ lock = 0
  /\ IF cli.op = "force" THEN Return ELSE Go("await")
  /\ UNCHANGED <<kernel, owner, files, service, ops, stopped, faults>>

\* force_shutdown: SIGTERM to the pid in the lock file, SIGKILL if it remains.
Sigterm ==
  /\ Stands("sigterm")
  /\ IF lock = 0 \/ lockPid = 0 THEN Return
     ELSE cli' = [cli EXCEPT !.pc = "kill", !.pid = lockPid]
  /\ UNCHANGED <<kernel, owner, files, service, ops, stopped, faults>>

Kill ==
  /\ Stands("kill") /\ Return
  /\ IF Live(cli.pid) THEN Exits(cli.pid) ELSE UNCHANGED <<sup, lock>>
  /\ UNCHANGED <<gens, lockPid, owner, files, service, ops, stopped, faults>>

-----------------------------------------------------------------------------
(* service install and uninstall. The program arguments in the plist are    *)
(* taken to be the same as before.                                          *)

Must == cli.op = "reinstall" /\ loaded

\* What has to end first: the owner and its child, or a direct supervisor. The
\* owner is only told of the child it has published, if any.
Plan ==
  /\ Stands("plan")
  /\ LET quell == Must \/ (cli.op = "uninstall" /\ loaded) \/ (~loaded /\ ~At("down"))
         names == quell /\ ~At("down") /\ owned.child # 0
         next  == CASE cli.op = "uninstall" /\ ~cli.was -> "none"
                    [] names -> "read"
                    [] quell \/ cli.op = "uninstall" \/ (~loaded /\ lock # 0) -> "idle"
                    [] OTHER -> "mark"
     IN cli' = IF next = "none" THEN Idle
               ELSE [cli EXCEPT !.pc = next, !.quell = quell,
                                !.pid = IF names THEN owned.child ELSE 0,
                                !.boot = IF cli.op = "uninstall" THEN loaded ELSE ~loaded \/ Must]
  /\ UNCHANGED <<kernel, owner, files, service, ops, stopped, faults>>

Onward == CASE cli.op = "uninstall" -> IF cli.boot THEN "bootout" ELSE "gone"
            [] Must                 -> "bootout"
            [] OTHER                -> "gone"

\* stop_supervisor_if_idle; its failure takes the request back.
StopIdle ==
  /\ Stands("idle")
  /\ IF lock = 0 THEN Go(Onward) /\ UNCHANGED <<sup, lock, request>>
     ELSE \/ QuiescesLock /\ Go("released") /\ UNCHANGED request
          \/ /\ QuiescesLock \/ UNCHANGED <<sup, lock>>
             /\ TakesBack(cli.quell) /\ Return
  /\ UNCHANGED <<gens, lockPid, owner, owned, service, ops, stopped, faults>>

StopReleased ==
  /\ Stands("released") /\ lock = 0
  /\ Go(Onward)
  /\ UNCHANGED <<kernel, owner, files, service, ops, stopped, faults>>

StopTimesOut ==
  /\ Stands("released") /\ lock # 0
  /\ Return
  /\ TakesBack(cli.quell)
  /\ UNCHANGED <<kernel, owner, owned, service, ops, stopped, faults>>

\* launchctl bootout ends the job with SIGTERM to the owner.
Unload == /\ loaded' = FALSE
          /\ owner' = IF At("down") THEN owner ELSE [owner EXCEPT !.quit = TRUE]

Bootout ==
  /\ Stands("bootout") /\ Unload /\ Go("gone")
  /\ UNCHANGED <<kernel, files, marker, ops, stopped, faults>>

\* Both locks are waited for, the owner's alone when the job was not loaded. What install
\* then asks the owner of an unloaded job was already told to it by the bootout.
Gone ==
  /\ Stands("gone") /\ At("down")
  /\ lock = 0 \/ (cli.op = "install" /\ ~loaded)
  /\ Go(IF cli.op = "uninstall" THEN "unmark" ELSE "mark")
  /\ UNCHANGED <<kernel, owner, files, service, ops, stopped, faults>>

\* The marker is published before the job is loaded.
Mark ==
  /\ Stands("mark")
  /\ marker' = TRUE
  /\ Go(IF cli.boot THEN "load" ELSE "ready")
  /\ UNCHANGED <<kernel, owner, files, loaded, ops, stopped, faults>>

\* Mutant: what launchctl says is taken for what launchd did.
FailedLoadForgets == marker' = cli.was

\* A failed bootstrap may have loaded the job all the same: the marker goes back
\* to what it was only if the job is known not to be loaded.
FailedLoad == marker' = IF loaded' THEN marker ELSE cli.was

Bootstrap ==
  /\ Stands("load")
  /\ \/ loaded' = TRUE /\ Go("ready") /\ UNCHANGED marker
     \/ loaded' \in BOOLEAN /\ FailedLoad /\ Return
  /\ UNCHANGED <<kernel, owner, files, ops, stopped, faults>>

Ready ==
  /\ Stands("ready")
  /\ owned.child # 0 /\ Serves(owned.child)
  /\ Return
  /\ UNCHANGED <<kernel, owner, files, service, ops, stopped, faults>>

\* rollback_new_owner: the job is unloaded and its owner gone before the marker is.
NotReady ==
  /\ Stands("ready")
  /\ IF cli.was \/ ~cli.boot THEN Return /\ UNCHANGED <<owner, loaded>>
     ELSE Unload /\ Go("undo")
  /\ UNCHANGED <<kernel, files, marker, ops, stopped, faults>>

Unmark ==
  /\ (Stands("undo") /\ At("down")) \/ Stands("unmark")
  /\ marker' = FALSE /\ Return
  /\ UNCHANGED <<kernel, owner, files, loaded, ops, stopped, faults>>

-----------------------------------------------------------------------------
(* Faults.                                                                  *)

Fault == faults < MaxFaults /\ faults' = faults + 1

Crash(p) ==
  /\ Live(p) /\ Fault /\ Exits(p)
  /\ UNCHANGED <<gens, lockPid, owner, files, service, client>>

Hang(p) ==
  /\ Works(p) /\ Fault
  /\ Becomes(p, [sup[p] EXCEPT !.hung = TRUE])
  /\ UNCHANGED <<gens, lockPid, owner, files, service, client>>

Recover(p) ==
  /\ sup[p].hung
  /\ Becomes(p, [sup[p] EXCEPT !.hung = FALSE])
  /\ UNCHANGED <<gens, lockPid, owner, files, service, client, faults>>

\* The machine slept: probes that failed meanwhile are forgotten.
Wakes ==
  /\ At("tick") /\ owner.child # 0 /\ Fault
  /\ owner' = [owner EXCEPT !.fails = 0, !.grace = TRUE]
  /\ UNCHANGED <<kernel, files, service, client>>

SpawnFails ==
  /\ At("tick") /\ owner.child = 0 /\ ~Awake.quit /\ MaySpawn /\ Fault
  /\ owner' = [owner EXCEPT !.backoff = TRUE]
  /\ UNCHANGED <<kernel, files, service, client>>

\* The pipe of its child ends; launchd may end the group of the job, too.
OwnerDies ==
  /\ ~At("down") /\ Fault
  /\ owner' = Down
  /\ IF owner.child = 0 THEN UNCHANGED <<sup, lock>>
     ELSE \/ Killed(owner.child)
          \/ Live(owner.child) /\ Becomes(owner.child, [sup[owner.child] EXCEPT !.eof = TRUE])
  /\ UNCHANGED <<gens, lockPid, files, service, client>>

\* The user boots the job out by hand.
BootedOut ==
  /\ loaded /\ Fault /\ Unload
  /\ UNCHANGED <<kernel, files, marker, client>>

-----------------------------------------------------------------------------
Process(p) == Check(p) \/ Boot(p) \/ PipeClosed(p) \/ Exit(p) \/ EndRun(p)

OwnerStep == \/ ForcedOut \/ Reap \/ Unlist \/ StopChild \/ Drained \/ Probe \/ ProbeSucceeds
             \/ ProbeFails \/ Leave \/ Spawn \/ List

ClientStep == \/ Ask \/ Await \/ Status \/ LockedPid \/ PublishedChild \/ Read \/ Write
              \/ Shutdown \/ Released \/ Serve \/ Sigterm \/ Kill
              \/ Plan \/ StopIdle \/ StopReleased \/ StopTimesOut \/ Bootout \/ Gone
              \/ Mark \/ Bootstrap \/ Ready \/ NotReady \/ Unmark

Next ==
  \/ \E p \in Pids : Process(p) \/ BeginRun(p) \/ Crash(p) \/ Hang(p) \/ Recover(p)
  \/ LaunchOwner \/ OwnerStep \/ TimePasses
  \/ \E op \in Ops : Begin(op)
  \/ ClientStep \/ ClientDies
  \/ Wakes \/ SpawnFails \/ OwnerDies \/ BootedOut

Spec == Init /\ [][Next]_vars

\* launchd keeps its job alive, the loop of the owner and the supervisors that
\* do not hang go on, back-offs and graces end. Nothing is asked of clients.
Fairness ==
  /\ \A p \in Pids : WF_vars(Check(p) \/ Boot(p)) /\ WF_vars(PipeClosed(p)) /\ WF_vars(Exit(p))
  /\ WF_vars(LaunchOwner) /\ WF_vars(OwnerStep) /\ WF_vars(TimePasses)

LiveSpec == Spec /\ Fairness

-----------------------------------------------------------------------------
(* Properties.                                                              *)

Forced(p) == \/ request.force /\ request.pid = p /\ request.gen = sup[p].gen
             \/ Stands("kill") /\ cli.pid = p

SparesRuns ==
  faults' = faults =>
    \A p \in Pids : sup[p].run /\ sup'[p].st # "up" => sup[p].hung \/ Forced(p)

\* Whatever clients, owners and launchd do together, a supervisor whose run is
\* active ends only if it hangs or if somebody asked for it by force; shutdown,
\* install, uninstall and a dying owner wait (supervisor.rs 6054, 6311, 2498).
NoRunIsCut == [][SparesRuns]_vars

\* When a shutdown without force has stopped the child it named, the owner of the
\* child starts no other, however the child ended and however late it is reaped,
\* until the next command (watch_managed, 6558).
StopHolds == [][stopped # 0 /\ stopped = owner.inc => gens' = gens]_vars

\* launchd never has the job without the marker, at whatever step an install,
\* its rollback or an uninstall stops: other launchers route to the owner
\* (supervisor_service.rs 171, 233, 472).
JobHasMarker == loaded => marker

\* A supervisor answers again and again as long as the service is installed and
\* nobody asked for a stop: crashes, hangs, lost owners and lost races are all
\* recovered from, except a stuck supervisor that the owner did not start.
Recovers ==
  []<>(\/ Answering \/ request # NoRequest \/ ~loaded \/ ~marker
       \/ \E p \in Pids : sup[p].hung /\ owner.child # p)

\* A request to restart is followed by a supervisor that answers
\* (restart_intent_restarts_child_even_if_it_exits_before_owner_handles_request).
RestartReturns == request.restart ~> (Answering \/ ~loaded)
=============================================================================
