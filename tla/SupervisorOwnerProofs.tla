------------------------ MODULE SupervisorOwnerProofs ------------------------
(***************************************************************************)
(* Types, the marker of a loaded job, that no run is cut, and that a child *)
(* which a shutdown stopped has no successor, for any process ids,         *)
(* commands and bounds.                                                    *)
(***************************************************************************)
EXTENDS SupervisorOwner, TLAPS

-----------------------------------------------------------------------------
(* The records.                                                             *)

LEMMA StartedTypes ==
  ASSUME NEW st \in {"dead", "check", "boot", "up", "zombie"}, NEW gen \in 0..MaxGen
  PROVE  Started(st, gen) \in Processes /\ Started(st, 0) \in Processes /\ Dead \in Processes
<1>1. ASSUME NEW g \in 0..MaxGen PROVE Started(st, g) \in Processes
  BY DEF Started, Dead, Processes
<1>2. 0 \in 0..MaxGen
  BY OwnerAssumption
<1>3. Dead \in Processes
  BY <1>2 DEF Dead, Processes
<1> QED BY <1>1, <1>2, <1>3

LEMMA ProcessEdits ==
  ASSUME NEW x \in Processes, NEW b \in BOOLEAN
  PROVE  /\ [x EXCEPT !.run = b] \in Processes /\ [x EXCEPT !.quiet = b] \in Processes
         /\ [x EXCEPT !.hung = b] \in Processes /\ [x EXCEPT !.eof = b] \in Processes
         /\ [x EXCEPT !.st = "up"] \in Processes
         /\ x.gen \in 0..MaxGen
  BY DEF Processes

LEMMA OwnerFields ==
  ASSUME owner \in Owners
  PROVE  /\ owner.pc \in {"down", "tick", "unlist", "list", "probe", "drain"}
         /\ owner.inc \in 0..MaxOwner /\ owner.child \in Pids \cup {0}
         /\ owner.gen \in 0..MaxGen /\ owner.fails \in 0..FailureThreshold
         /\ \A s : [owner EXCEPT !.quit = s].pc = owner.pc /\ [owner EXCEPT !.quit = s].child = owner.child
  BY DEF Owners

LEMMA OwnerEdits ==
  ASSUME NEW x \in Owners
  PROVE  /\ \A pc \in {"down", "tick", "unlist", "list", "probe", "drain"} :
              [x EXCEPT !.pc = pc] \in Owners
         /\ \A pc \in {"down", "tick", "unlist", "list", "probe", "drain"} :
              [x EXCEPT !.pc = pc, !.fails = 0] \in Owners
         /\ [x EXCEPT !.quit = TRUE] \in Owners /\ [x EXCEPT !.fails = 0] \in Owners
         /\ [x EXCEPT !.backoff = FALSE] \in Owners /\ [x EXCEPT !.backoff = TRUE] \in Owners
         /\ [x EXCEPT !.grace = FALSE] \in Owners
         /\ [x EXCEPT !.fails = 0, !.grace = TRUE] \in Owners
<1>1. 0 \in 0..FailureThreshold
  BY OwnerAssumption
<1>2. \A pc \in {"down", "tick", "unlist", "list", "probe", "drain"} :
        [x EXCEPT !.pc = pc] \in Owners /\ [x EXCEPT !.pc = pc, !.fails = 0] \in Owners
  BY <1>1 DEF Owners
<1>3. [x EXCEPT !.quit = TRUE] \in Owners /\ [x EXCEPT !.fails = 0] \in Owners
  BY <1>1 DEF Owners
<1>4. [x EXCEPT !.backoff = FALSE] \in Owners /\ [x EXCEPT !.backoff = TRUE] \in Owners
  BY DEF Owners
<1>5. [x EXCEPT !.grace = FALSE] \in Owners /\ [x EXCEPT !.fails = 0, !.grace = TRUE] \in Owners
  BY <1>1 DEF Owners
<1> QED BY <1>2, <1>3, <1>4, <1>5

LEMMA DownTypes == Down \in Owners
  BY OwnerAssumption DEF Down, Owners

LEMMA AwakeTypes == ASSUME owner \in Owners PROVE Awake \in Owners
<1>1. (owner.quit \/ ~marker) \in BOOLEAN
  OBVIOUS
<1> QED BY <1>1 DEF Awake, Owners

LEMMA ChildlessTypes ==
  ASSUME owner \in Owners, NEW clear \in BOOLEAN, NEW backoff \in BOOLEAN
  PROVE  Childless(clear, backoff) \in Owners
<1>1. (Awake.backoff \/ backoff) \in BOOLEAN
  OBVIOUS
<1>2. ASSUME NEW x \in Owners, NEW b \in BOOLEAN
      PROVE  [x EXCEPT !.pc = "unlist", !.child = 0, !.gen = 0, !.clear = clear, !.backoff = b] \in Owners
  <2>1. 0 \in 0..MaxGen
    BY OwnerAssumption
  <2> QED BY <2>1, <1>2 DEF Owners
<1> QED BY <1>1, <1>2, AwakeTypes DEF Childless

LEMMA OwnedFields ==
  ASSUME owned \in OwnerStates
  PROVE  owned.inc \in 0..MaxOwner /\ owned.child \in Pids \cup {0} /\ owned.gen \in 0..MaxGen
  BY DEF OwnerStates

LEMMA OwnedEdits ==
  ASSUME owned \in OwnerStates
  PROVE  /\ [owned EXCEPT !.child = 0, !.gen = 0] \in OwnerStates
         /\ \A inc \in 0..MaxOwner : [inc |-> inc, child |-> 0, gen |-> 0] \in OwnerStates
<1>1. 0 \in 0..MaxGen
  BY OwnerAssumption
<1> QED BY <1>1 DEF OwnerStates

LEMMA RequestFields ==
  ASSUME request \in StopRequests PROVE request.force \in BOOLEAN /\ request.restart \in BOOLEAN
  BY DEF StopRequests

LEMMA NoRequestTypes == NoRequest \in StopRequests
  BY OwnerAssumption DEF NoRequest, StopRequests

LEMMA IdleTypes == Idle \in Clients
  BY OwnerAssumption DEF Idle, Clients, ClientSteps

LEMMA ClientFields ==
  ASSUME cli \in Clients
  PROVE  /\ cli.pid \in Pids \cup {0} /\ cli.inc \in 0..MaxOwner /\ cli.gen \in 0..MaxGen
         /\ cli.was \in BOOLEAN
         /\ (cli.op \in {"force", "restart"}) \in BOOLEAN /\ (cli.op = "restart") \in BOOLEAN
  BY DEF Clients

LEMMA GoTypes == ASSUME cli \in Clients, NEW pc \in ClientSteps, Go(pc) PROVE cli' \in Clients
  BY DEF Go, Clients

LEMMA ReturnTypes == ASSUME Return PROVE cli' \in Clients
  BY IdleTypes DEF Return

LEMMA ReadingTypes == ASSUME cli \in Clients, NEW pid \in Pids, Reading(pid) PROVE cli' \in Clients
  BY DEF Reading, Clients, ClientSteps

LEMMA GoSays ==
  ASSUME cli \in Clients
  PROVE  /\ \A pc \in ClientSteps : Go(pc) => cli'.pc = pc /\ cli'.op = cli.op /\ cli'.boot = cli.boot
         /\ Return => cli'.pc = "none"
         /\ \A pid \in Pids : Reading(pid) => /\ cli'.pc = "read" /\ cli'.op = cli.op
                                             /\ cli'.boot = cli.boot
<1>1. ASSUME NEW pc \in ClientSteps, Go(pc)
      PROVE  cli'.pc = pc /\ cli'.op = cli.op /\ cli'.boot = cli.boot
  BY <1>1 DEF Go, Clients
<1>2. ASSUME Return PROVE cli'.pc = "none"
  BY <1>2 DEF Return, Idle
<1>3. ASSUME NEW pid \in Pids, Reading(pid)
      PROVE  cli'.pc = "read" /\ cli'.op = cli.op /\ cli'.boot = cli.boot
  BY <1>3 DEF Reading, Clients
<1> QED BY <1>1, <1>2, <1>3

LEMMA OnwardTypes == Onward \in ClientSteps
  BY DEF Onward, ClientSteps

-----------------------------------------------------------------------------
(* Types.                                                                   *)

\* While the owner waits for an answer or an end it has a child.
HasChild == At("probe") \/ At("drain") => owner.child # 0

\* Whoever is sent SIGKILL is somebody.
HasVictim == Stands("kill") => cli.pid # 0

TypeInv == TypeOK /\ HasChild /\ HasVictim

\* What becomes of a process has its type.
LEMMA BecomesTypes ==
  ASSUME TypeOK, NEW p \in Pids, NEW x \in Processes, Becomes(p, x)
  PROVE  sup' \in [Pids -> Processes] /\ lock' \in Pids \cup {0}
  BY DEF Becomes, TypeOK

LEMMA ExitsTypes ==
  ASSUME TypeOK, NEW p \in Pids, Exits(p) PROVE sup' \in [Pids -> Processes] /\ lock' \in Pids \cup {0}
<1>1. sup[p].gen \in 0..MaxGen
  BY ProcessEdits DEF TypeOK
<1> QED BY <1>1, StartedTypes DEF Exits, TypeOK

LEMMA KilledTypes ==
  ASSUME TypeOK, NEW p \in Pids, Killed(p) PROVE sup' \in [Pids -> Processes] /\ lock' \in Pids \cup {0}
  BY StartedTypes, OwnerAssumption DEF Killed, TypeOK

\* A client kills the process whose pid it read in the lock file.
LEMMA KillTypes ==
  ASSUME TypeOK, cli.pid \in Pids, IF Live(cli.pid) THEN Exits(cli.pid) ELSE UNCHANGED <<sup, lock>>
  PROVE  sup' \in [Pids -> Processes] /\ lock' \in Pids \cup {0}
  BY ExitsTypes DEF TypeOK

LEMMA UnloadTypes ==
  ASSUME TypeInv, Unload PROVE owner' \in Owners /\ HasChild'
  BY OwnerFields DEF Unload, TypeInv, TypeOK, HasChild, At, Owners

LEMMA TypeInit == Init => TypeInv
<1> SUFFICES ASSUME Init PROVE TypeInv
  OBVIOUS
<1>1. sup \in [Pids -> Processes]
  BY StartedTypes, OwnerAssumption DEF Init
<1>2. owner \in Owners /\ request \in StopRequests /\ cli \in Clients
  BY DownTypes, NoRequestTypes, IdleTypes DEF Init
<1>3. owned \in OwnerStates
  BY OwnerAssumption DEF Init, OwnerStates
<1>4. HasChild /\ HasVictim
  BY DEF Init, HasChild, HasVictim, At, Stands, Down, Idle
<1> QED
  BY <1>1, <1>2, <1>3, <1>4, OwnerAssumption DEF Init, TypeInv, TypeOK

LEMMA TypeStep == TypeInv /\ [Next]_vars => TypeInv'
<1> SUFFICES ASSUME TypeInv, [Next]_vars PROVE TypeInv'
  OBVIOUS
<1> USE OwnerAssumption
        DEF TypeInv, TypeOK, HasChild, HasVictim, At, Stands, kernel, files, service, client
<1>0. CASE UNCHANGED vars
  BY <1>0 DEF vars
<1>1. ASSUME NEW p \in Pids, Check(p) PROVE TypeInv'
  <2>1. sup' \in [Pids -> Processes] /\ lock' \in Pids \cup {0}
    BY <1>1, BecomesTypes, StartedTypes DEF Check
  <2> QED
    BY <1>1, <2>1 DEF Check
<1>2. ASSUME NEW p \in Pids, Boot(p) PROVE TypeInv'
  <2>1. [sup[p] EXCEPT !.st = "up"] \in Processes
    BY <1>2, ProcessEdits
  <2>2. sup' \in [Pids -> Processes] /\ lock' \in Pids \cup {0}
    BY <1>2, <2>1, ExitsTypes DEF Boot
  <2> QED
    BY <1>2, <2>1, <2>2 DEF Boot
<1>3. ASSUME NEW p \in Pids, PipeClosed(p) PROVE TypeInv'
  <2>1. sup' \in [Pids -> Processes] /\ lock' \in Pids \cup {0}
    BY <1>3, BecomesTypes, ProcessEdits DEF PipeClosed, Quiesced
  <2> QED
    BY <1>3, <2>1 DEF PipeClosed
<1>4. ASSUME NEW p \in Pids, Exit(p) PROVE TypeInv'
  <2>1. sup' \in [Pids -> Processes] /\ lock' \in Pids \cup {0}
    BY <1>4, ExitsTypes DEF Exit
  <2> QED
    BY <1>4, <2>1 DEF Exit
<1>5. ASSUME NEW p \in Pids, EndRun(p) PROVE TypeInv'
  <2>1. sup' \in [Pids -> Processes] /\ lock' \in Pids \cup {0}
    BY <1>5, BecomesTypes, ProcessEdits DEF EndRun
  <2> QED
    BY <1>5, <2>1 DEF EndRun
<1>6. ASSUME NEW p \in Pids, BeginRun(p) PROVE TypeInv'
  <2>1. sup' \in [Pids -> Processes] /\ lock' \in Pids \cup {0}
    BY <1>6, BecomesTypes, ProcessEdits DEF BeginRun
  <2> QED
    BY <1>6, <2>1 DEF BeginRun
<1>7. ASSUME NEW p \in Pids, Crash(p) PROVE TypeInv'
  <2>1. sup' \in [Pids -> Processes] /\ lock' \in Pids \cup {0}
    BY <1>7, ExitsTypes DEF Crash
  <2> QED
    BY <1>7, <2>1 DEF Crash, Fault
<1>8. ASSUME NEW p \in Pids, Hang(p) PROVE TypeInv'
  <2>1. sup' \in [Pids -> Processes] /\ lock' \in Pids \cup {0}
    BY <1>8, BecomesTypes, ProcessEdits DEF Hang
  <2> QED
    BY <1>8, <2>1 DEF Hang, Fault
<1>9. ASSUME NEW p \in Pids, Recover(p) PROVE TypeInv'
  <2>1. sup' \in [Pids -> Processes] /\ lock' \in Pids \cup {0}
    BY <1>9, BecomesTypes, ProcessEdits DEF Recover
  <2> QED
    BY <1>9, <2>1 DEF Recover
<1>10. CASE LaunchOwner
  <2>1. owned.inc + 1 \in 0..MaxOwner
    BY <1>10, OwnedFields DEF LaunchOwner
  <2>2. owner' \in Owners
    BY <1>10, <2>1, DownTypes DEF LaunchOwner, Owners
  <2>3. owned' \in OwnerStates
    BY <1>10, <2>1, OwnedEdits DEF LaunchOwner
  <2>4. request' \in StopRequests
    BY <1>10 DEF LaunchOwner, NoRequest, StopRequests
  <2>5. HasChild'
    BY <1>10 DEF LaunchOwner, Down
  <2> QED
    BY <1>10, <2>1, <2>2, <2>3, <2>4, <2>5 DEF LaunchOwner
<1>11. CASE ForcedOut
  <2>1. sup' \in [Pids -> Processes] /\ lock' \in Pids \cup {0}
    BY <1>11, OwnerFields, KilledTypes DEF ForcedOut
  <2>2. owner' \in Owners
    BY <1>11, ChildlessTypes, RequestFields DEF ForcedOut
  <2>3. HasChild'
    BY <1>11, OwnerFields DEF ForcedOut, Childless, Awake
  <2> QED
    BY <1>11, <2>1, <2>2, <2>3 DEF ForcedOut
<1>12. CASE Reap
  <2>1. sup' \in [Pids -> Processes] /\ lock' \in Pids \cup {0}
    BY <1>12, OwnerFields, KilledTypes DEF Reap
  <2>2. (NamesChild /\ ShouldRestart) \in BOOLEAN /\ ShouldRestart \in BOOLEAN
    BY <1>12 DEF ShouldRestart, NamesChild, NamesOwner
  <2>3. Childless(NamesChild /\ ShouldRestart, ShouldRestart) \in Owners
    BY <1>12, ChildlessTypes, <2>2
  <2>4. owner' \in Owners
    BY <1>12, OwnerEdits, <2>3 DEF Reap
  <2>5. HasChild'
    BY <1>12, OwnerFields DEF Reap, Childless, Awake
  <2> QED
    BY <1>12, <2>1, <2>2, <2>3, <2>4, <2>5 DEF Reap
<1>13. CASE Unlist
  <2>1. owner' \in Owners
    BY <1>13 DEF Unlist, Owners
  <2>2. owned' \in OwnerStates
    BY <1>13, OwnedEdits DEF Unlist
  <2>3. request' \in StopRequests
    BY <1>13, NoRequestTypes DEF Unlist
  <2>4. HasChild'
    BY <1>13, OwnerFields DEF Unlist
  <2> QED
    BY <1>13, <2>1, <2>2, <2>3, <2>4 DEF Unlist
<1>14. CASE StopChild
  <2>1. owner.child \in Pids
    BY <1>14, OwnerFields DEF StopChild, Undisturbed
  <2>2. [Quiesced(owner.child) EXCEPT !.eof = TRUE] \in Processes
    BY <1>14, ProcessEdits, <2>1 DEF Quiesced
  <2>3. sup' \in [Pids -> Processes] /\ lock' \in Pids \cup {0}
    BY <1>14, BecomesTypes, <2>1, <2>2 DEF StopChild
  <2>4. owner' \in Owners
    BY <1>14, AwakeTypes, OwnerEdits DEF StopChild
  <2>5. HasChild'
    BY <1>14, OwnerFields, <2>1 DEF StopChild, Awake
  <2> QED
    BY <1>14, <2>1, <2>2, <2>3, <2>4, <2>5 DEF StopChild
<1>15. CASE Drained
  <2>1. sup' \in [Pids -> Processes] /\ lock' \in Pids \cup {0}
    BY <1>15, OwnerFields, KilledTypes DEF Drained
  <2>2. owner' \in Owners
    BY <1>15, DownTypes DEF Drained
  <2>3. owned' \in OwnerStates
    BY <1>15, OwnedEdits DEF Drained
  <2>4. HasChild'
    BY <1>15 DEF Drained, Down
  <2> QED
    BY <1>15, <2>1, <2>2, <2>3, <2>4 DEF Drained
<1>16. CASE Probe
  <2>1. owner' \in Owners
    BY <1>16, AwakeTypes, OwnerEdits DEF Probe
  <2>2. HasChild'
    BY <1>16, OwnerFields DEF Probe, Undisturbed, Awake
  <2> QED
    BY <1>16, <2>1, <2>2 DEF Probe
<1>17. CASE ProbeSucceeds
  <2>1. owner' \in Owners
    BY <1>17, OwnerEdits DEF ProbeSucceeds
  <2>2. HasChild'
    BY <1>17, OwnerFields DEF ProbeSucceeds
  <2> QED
    BY <1>17, <2>1, <2>2 DEF ProbeSucceeds
<1>18. CASE ProbeFails
  <2>1. owner.child \in Pids
    BY <1>18, OwnerFields DEF ProbeFails
  <2>2. sup' \in [Pids -> Processes] /\ lock' \in Pids \cup {0}
    BY <1>18, KilledTypes, <2>1 DEF ProbeFails
  <2>3. Failures \in Nat
    BY <1>18, OwnerFields DEF Failures
  <2>4. Childless(FALSE, TRUE) \in Owners
    BY <1>18, ChildlessTypes
  <2>5. owner' \in Owners
    <3>1. CASE Failures < FailureThreshold
      <4>1. Failures \in 0..FailureThreshold
        BY <3>1, <2>3
      <4> QED BY <1>18, <3>1, <4>1, ZenonT(60) DEF ProbeFails, Owners
    <3>2. CASE ~(Failures < FailureThreshold)
      BY <1>18, <3>2, <2>4, OwnerEdits DEF ProbeFails
    <3> QED BY <3>1, <3>2
  <2>6. Childless(FALSE, TRUE).pc = "unlist"
    BY <1>18, AwakeTypes DEF Childless, Owners
  <2>7. owner'.pc \in {"tick", "unlist"}
    BY <1>18, <2>6, <2>4 DEF ProbeFails, Owners
  <2>8. HasChild'
    BY <1>18, <2>7
  <2> QED
    BY <1>18, <2>1, <2>2, <2>3, <2>4, <2>5, <2>6, <2>7, <2>8 DEF ProbeFails
<1>19. CASE Leave
  <2>1. owner' \in Owners
    BY <1>19, DownTypes DEF Leave
  <2>2. HasChild'
    BY <1>19 DEF Leave, Down
  <2> QED
    BY <1>19, <2>1, <2>2 DEF Leave
<1>20. CASE Spawn
  <2>1. gens + 1 \in 0..MaxGen
    BY <1>20 DEF Spawn
  <2>2. sup' \in [Pids -> Processes] /\ lock' \in Pids \cup {0}
    BY <1>20, BecomesTypes, StartedTypes, <2>1 DEF Spawn
  <2>3. \E p \in Pids : owner' = [owner EXCEPT !.pc = "list", !.child = p, !.gen = gens + 1]
    BY <1>20 DEF Spawn
  <2>4. owner' \in Owners
    BY <1>20, <2>1, <2>3, ZenonT(60) DEF Owners
  <2>5. HasChild'
    BY <1>20, OwnerFields, <2>3
  <2> QED
    BY <1>20, <2>1, <2>2, <2>3, <2>4, <2>5 DEF Spawn
<1>21. CASE List
  <2>1. owner' \in Owners
    BY <1>21 DEF List, Owners
  <2>2. owned' \in OwnerStates
    BY <1>21, OwnedFields, OwnerFields DEF List, OwnerStates
  <2>3. HasChild'
    BY <1>21, OwnerFields DEF List
  <2> QED
    BY <1>21, <2>1, <2>2, <2>3 DEF List
<1>22. CASE TimePasses
  <2>1. owner' \in Owners
    BY <1>22, OwnerEdits DEF TimePasses
  <2>2. owner'.pc = owner.pc /\ owner'.child = owner.child
    BY <1>22 DEF TimePasses, Owners
  <2>3. HasChild'
    BY <1>22, <2>2
  <2> QED
    BY <1>22, <2>1, <2>2, <2>3 DEF TimePasses
<1>23. ASSUME NEW op \in Ops, Begin(op) PROVE TypeInv'
  <2>1. cli' = [Idle EXCEPT !.op = op, !.pc = FirstStep(op), !.was = marker]
    BY <1>23 DEF Begin
  <2>2. FirstStep(op) \in ClientSteps
    BY <1>23 DEF FirstStep, ClientSteps
  <2>3. cli' \in Clients
    BY <1>23, <2>1, <2>2, IdleTypes DEF Clients
  <2>4. request' \in StopRequests
    BY <1>23, NoRequestTypes DEF Begin
  <2>5. HasChild'
    BY <1>23 DEF Begin
  <2>6. HasVictim'
    BY <1>23 DEF Begin, Idle, FirstStep
  <2> QED
    BY <1>23, <2>1, <2>2, <2>3, <2>4, <2>5, <2>6 DEF Begin, Begin
<1>24. CASE ClientDies
  <2>1. cli' \in Clients
    BY <1>24, GoTypes, ReturnTypes DEF ClientDies
  <2>2. HasVictim'
    BY <1>24, GoSays DEF ClientDies, ClientSteps
  <2> QED
    BY <1>24, <2>1, <2>2 DEF ClientDies
<1>25. CASE Ask
  <2>1. cli' \in Clients
    BY <1>25, GoTypes, ReturnTypes DEF Ask, ClientSteps
  <2>2. sup' \in [Pids -> Processes] /\ lock' \in Pids \cup {0}
    BY <1>25, BecomesTypes, StartedTypes DEF Ask
  <2>3. HasVictim'
    BY <1>25, GoSays DEF Ask, ClientSteps
  <2> QED
    BY <1>25, <2>1, <2>2, <2>3 DEF Ask
<1>26. CASE Serve
  <2>1. cli' \in Clients
    BY <1>26, GoTypes, ReturnTypes DEF Serve
  <2>2. sup' \in [Pids -> Processes] /\ lock' \in Pids \cup {0}
    BY <1>26, StartedTypes DEF Serve
  <2>3. HasVictim'
    BY <1>26, GoSays DEF Serve, ClientSteps
  <2> QED
    BY <1>26, <2>1, <2>2, <2>3 DEF Serve
<1>27. CASE Await
  <2>1. cli' \in Clients
    BY <1>27, GoTypes, ReturnTypes DEF Await
  <2>2. HasVictim'
    BY <1>27, GoSays DEF Await, ClientSteps
  <2> QED
    BY <1>27, <2>1, <2>2 DEF Await
<1>28. CASE Status
  <2>1. cli' \in Clients
    BY <1>28, GoTypes, ReturnTypes, ReadingTypes DEF Status, Answering
  <2>2. HasVictim'
    BY <1>28, GoSays DEF Status, Answering, ClientSteps
  <2> QED
    BY <1>28, <2>1, <2>2 DEF Status
<1>29. CASE LockedPid
  <2>1. cli' \in Clients
    BY <1>29, GoTypes, ReturnTypes, ReadingTypes DEF LockedPid
  <2>2. HasVictim'
    BY <1>29, GoSays DEF LockedPid, ClientSteps
  <2> QED
    BY <1>29, <2>1, <2>2 DEF LockedPid
<1>30. CASE PublishedChild
  <2>1. cli' \in Clients
    BY <1>30, GoTypes, ReturnTypes, ReadingTypes, OwnedFields DEF PublishedChild,
       ClientSteps
  <2>2. request' \in StopRequests
    BY <1>30, NoRequestTypes DEF PublishedChild
  <2>3. HasVictim'
    BY <1>30, GoSays, OwnedFields DEF PublishedChild, ClientSteps
  <2> QED
    BY <1>30, <2>1, <2>2, <2>3 DEF PublishedChild
<1>31. CASE Read
  <2>1. [cli EXCEPT !.pc = "write", !.inc = owned.inc, !.gen = owned.gen] \in Clients
    BY <1>31, OwnedFields DEF Clients, ClientSteps
  <2>2. cli' \in Clients
    BY <1>31, GoTypes, ReturnTypes, <2>1 DEF Read, ClientSteps
  <2>3. [cli EXCEPT !.pc = "write", !.inc = owned.inc, !.gen = owned.gen].pc = "write"
    BY <1>31 DEF Clients
  <2>4. HasVictim'
    BY <1>31, GoSays, <2>3 DEF Read, ClientSteps
  <2> QED
    BY <1>31, <2>1, <2>2, <2>3, <2>4 DEF Read
<1>32. CASE Write
  <2>1. cli' \in Clients
    BY <1>32, GoTypes, ReturnTypes DEF Write, ClientSteps
  <2>2. request' \in StopRequests
    BY <1>32, ClientFields DEF Write, StopRequests
  <2>3. HasVictim'
    BY <1>32, GoSays DEF Write, ClientSteps
  <2> QED
    BY <1>32, <2>1, <2>2, <2>3 DEF Write
<1>33. CASE Shutdown
  <2>1. cli' \in Clients
    BY <1>33, GoTypes, ReturnTypes DEF Shutdown, QuiescesLock, TakesBack
  <2>2. sup' \in [Pids -> Processes] /\ lock' \in Pids \cup {0}
    BY <1>33, BecomesTypes, ProcessEdits DEF Shutdown, QuiescesLock, TakesBack, Answering, Quiesced
  <2>3. request' \in StopRequests
    BY <1>33, NoRequestTypes DEF Shutdown, QuiescesLock, TakesBack
  <2>4. stopped' \in 0..MaxOwner
    BY <1>33, ClientFields DEF Shutdown, QuiescesLock, TakesBack
  <2>5. HasVictim'
    BY <1>33, GoSays DEF Shutdown, QuiescesLock, TakesBack, ClientSteps
  <2> QED
    BY <1>33, <2>1, <2>2, <2>3, <2>4, <2>5 DEF Shutdown, QuiescesLock, TakesBack
<1>34. CASE Released
  <2>1. cli' \in Clients
    BY <1>34, GoTypes, ReturnTypes DEF Released, ClientSteps
  <2>2. HasVictim'
    BY <1>34, GoSays DEF Released, ClientSteps
  <2> QED
    BY <1>34, <2>1, <2>2 DEF Released
<1>35. CASE Sigterm
  <2>1. lockPid # 0 => [cli EXCEPT !.pc = "kill", !.pid = lockPid] \in Clients
    BY <1>35 DEF Clients, ClientSteps
  <2>2. cli' \in Clients
    BY <1>35, GoTypes, ReturnTypes, <2>1 DEF Sigterm
  <2>3. [cli EXCEPT !.pc = "kill", !.pid = lockPid].pid = lockPid
    BY <1>35 DEF Clients
  <2>4. HasVictim'
    BY <1>35, GoSays, <2>3 DEF Sigterm, ClientSteps
  <2> QED
    BY <1>35, <2>1, <2>2, <2>3, <2>4 DEF Sigterm
<1>36. CASE Kill
  <2>1. cli' \in Clients
    BY <1>36, GoTypes, ReturnTypes DEF Kill
  <2>2. sup' \in [Pids -> Processes] /\ lock' \in Pids \cup {0}
    BY <1>36, ClientFields, KillTypes DEF Kill
  <2>3. HasVictim'
    BY <1>36, GoSays DEF Kill, ClientSteps
  <2> QED
    BY <1>36, <2>1, <2>2, <2>3 DEF Kill
<1>37. CASE Plan
  <2>1. cli' \in Clients
    <3>1. ASSUME NEW next \in {"read", "idle", "mark"}, NEW quell \in BOOLEAN,
                 NEW pid \in Pids \cup {0}, NEW boot \in BOOLEAN
          PROVE  [cli EXCEPT !.pc = next, !.quell = quell, !.pid = pid, !.boot = boot] \in Clients
      BY <3>1 DEF Clients, ClientSteps
    <3> DEFINE quell == Must \/ (cli.op = "uninstall" /\ loaded) \/ (~loaded /\ ~At("down"))
               names == quell /\ ~At("down") /\ owned.child # 0
               pid   == IF names THEN owned.child ELSE 0
               boot  == IF cli.op = "uninstall" THEN loaded ELSE ~loaded \/ Must
    <3>2. pid \in Pids \cup {0} /\ boot \in BOOLEAN /\ quell \in BOOLEAN
      BY OwnedFields DEF Must
    <3> DEFINE next == CASE cli.op = "uninstall" /\ ~cli.was -> "none"
                         [] names -> "read"
                         [] quell \/ cli.op = "uninstall" \/ (~loaded /\ lock # 0) -> "idle"
                         [] OTHER -> "mark"
    <3>3. next \in {"none", "read", "idle", "mark"}
      OBVIOUS
    <3>4. cli' = IF next = "none" THEN Idle
                 ELSE [cli EXCEPT !.pc = next, !.quell = quell, !.pid = pid, !.boot = boot]
      BY <1>37 DEF Plan
    <3> HIDE DEF quell, pid, boot, next
    <3>5. CASE next = "none"
      BY <3>4, <3>5, IdleTypes
    <3>6. CASE next # "none"
      BY <3>1, <3>2, <3>3, <3>4, <3>6
    <3> QED BY <3>5, <3>6
  <2> QED
    BY <1>37, <2>1 DEF Plan
<1>38. CASE StopIdle
  <2>1. cli' \in Clients
    BY <1>38, GoTypes, ReturnTypes, OnwardTypes DEF StopIdle, QuiescesLock, TakesBack, ClientSteps
  <2>2. sup' \in [Pids -> Processes] /\ lock' \in Pids \cup {0}
    BY <1>38, BecomesTypes, ProcessEdits DEF StopIdle, QuiescesLock, TakesBack, Answering, Quiesced
  <2>3. request' \in StopRequests
    BY <1>38, NoRequestTypes DEF StopIdle, QuiescesLock, TakesBack
  <2>4. HasVictim'
    BY <1>38, GoSays DEF StopIdle, QuiescesLock, TakesBack, Onward, ClientSteps
  <2> QED
    BY <1>38, <2>1, <2>2, <2>3, <2>4 DEF StopIdle, QuiescesLock, TakesBack
<1>39. CASE StopReleased
  <2>1. cli' \in Clients
    BY <1>39, GoTypes, ReturnTypes, OnwardTypes DEF StopReleased
  <2>2. HasVictim'
    BY <1>39, GoSays DEF StopReleased, Onward, ClientSteps
  <2> QED
    BY <1>39, <2>1, <2>2 DEF StopReleased
<1>40. CASE StopTimesOut
  <2>1. cli' \in Clients
    BY <1>40, GoTypes, ReturnTypes DEF StopTimesOut, TakesBack
  <2>2. request' \in StopRequests
    BY <1>40, NoRequestTypes DEF StopTimesOut, TakesBack
  <2>3. HasVictim'
    BY <1>40, GoSays DEF StopTimesOut, TakesBack, ClientSteps
  <2> QED
    BY <1>40, <2>1, <2>2, <2>3 DEF StopTimesOut, TakesBack
<1>41. CASE Bootout
  <2>1. cli' \in Clients
    BY <1>41, GoTypes, ReturnTypes DEF Bootout, ClientSteps
  <2>2. owner' \in Owners
    BY <1>41, UnloadTypes DEF Bootout
  <2>3. HasChild'
    BY <1>41, UnloadTypes DEF Bootout
  <2>4. HasVictim'
    BY <1>41, GoSays DEF Bootout, ClientSteps
  <2> QED
    BY <1>41, <2>1, <2>2, <2>3, <2>4 DEF Bootout, Unload
<1>42. CASE Gone
  <2>1. cli' \in Clients
    BY <1>42, GoTypes, ReturnTypes DEF Gone, ClientSteps
  <2>2. HasVictim'
    BY <1>42, GoSays DEF Gone, ClientSteps
  <2> QED
    BY <1>42, <2>1, <2>2 DEF Gone
<1>43. CASE Mark
  <2>1. cli' \in Clients
    BY <1>43, GoTypes, ReturnTypes DEF Mark, ClientSteps
  <2>2. HasVictim'
    BY <1>43, GoSays DEF Mark, ClientSteps
  <2> QED
    BY <1>43, <2>1, <2>2 DEF Mark
<1>44. CASE Bootstrap
  <2>1. cli' \in Clients
    BY <1>44, GoTypes, ReturnTypes DEF Bootstrap, ClientSteps
  <2>2. marker' \in BOOLEAN /\ loaded' \in BOOLEAN
    BY <1>44, ClientFields DEF Bootstrap, FailedLoad
  <2>3. HasVictim'
    BY <1>44, GoSays DEF Bootstrap, ClientSteps
  <2> QED
    BY <1>44, <2>1, <2>2, <2>3 DEF Bootstrap
<1>45. CASE Ready
  <2>1. cli' \in Clients
    BY <1>45, GoTypes, ReturnTypes DEF Ready
  <2>2. HasVictim'
    BY <1>45, GoSays DEF Ready, ClientSteps
  <2> QED
    BY <1>45, <2>1, <2>2 DEF Ready
<1>46. CASE NotReady
  <2>1. cli' \in Clients
    BY <1>46, GoTypes, ReturnTypes DEF NotReady, ClientSteps
  <2>2. owner' \in Owners
    BY <1>46, UnloadTypes DEF NotReady
  <2>3. HasChild'
    BY <1>46, UnloadTypes DEF NotReady
  <2>4. HasVictim'
    BY <1>46, GoSays DEF NotReady, ClientSteps
  <2> QED
    BY <1>46, <2>1, <2>2, <2>3, <2>4 DEF NotReady, Unload
<1>47. CASE Unmark
  <2>1. cli' \in Clients
    BY <1>47, GoTypes, ReturnTypes DEF Unmark
  <2>2. HasVictim'
    BY <1>47, GoSays DEF Unmark, ClientSteps
  <2> QED
    BY <1>47, <2>1, <2>2 DEF Unmark
<1>48. CASE Wakes
  <2>1. owner' \in Owners
    BY <1>48, OwnerEdits DEF Wakes
  <2>2. HasChild'
    BY <1>48, OwnerFields DEF Wakes
  <2> QED
    BY <1>48, <2>1, <2>2 DEF Wakes, Fault
<1>49. CASE SpawnFails
  <2>1. owner' \in Owners
    BY <1>49, OwnerEdits DEF SpawnFails
  <2>2. HasChild'
    BY <1>49, OwnerFields DEF SpawnFails
  <2> QED
    BY <1>49, <2>1, <2>2 DEF SpawnFails, Fault
<1>50. CASE OwnerDies
  <2>1. sup' \in [Pids -> Processes] /\ lock' \in Pids \cup {0}
    BY <1>50, OwnerFields, KilledTypes, BecomesTypes, ProcessEdits DEF OwnerDies
  <2>2. owner' \in Owners
    BY <1>50, DownTypes DEF OwnerDies
  <2>3. HasChild'
    BY <1>50 DEF OwnerDies, Down
  <2> QED
    BY <1>50, <2>1, <2>2, <2>3 DEF OwnerDies, Fault
<1>51. CASE BootedOut
  <2>1. owner' \in Owners
    BY <1>51, UnloadTypes DEF BootedOut
  <2>2. HasChild'
    BY <1>51, UnloadTypes DEF BootedOut
  <2>3. loaded' = FALSE
    BY <1>51 DEF BootedOut, Unload
  <2>4. faults' \in 0..MaxFaults
    BY <1>51 DEF BootedOut, Fault
  <2> QED
    BY <1>51, <2>1, <2>2, <2>3, <2>4 DEF BootedOut
<1> QED
  BY <1>0, <1>1, <1>2, <1>3, <1>4, <1>5, <1>6, <1>7, <1>8, <1>9, <1>10, <1>11, <1>12,
     <1>13, <1>14, <1>15, <1>16, <1>17, <1>18, <1>19, <1>20, <1>21, <1>22, <1>23, <1>24,
     <1>25, <1>26, <1>27, <1>28, <1>29, <1>30, <1>31, <1>32, <1>33, <1>34, <1>35, <1>36,
     <1>37, <1>38, <1>39, <1>40, <1>41, <1>42, <1>43, <1>44, <1>45, <1>46, <1>47, <1>48,
     <1>49, <1>50, <1>51 DEF Next, Process, OwnerStep, ClientStep

\* The types hold in every behaviour (the files, locks and processes of supervisor.rs 5543-5972).
THEOREM TypeCorrect == Spec => []TypeOK
<1>1. TypeInv => TypeOK
  BY DEF TypeInv
<1> QED
  BY <1>1, TypeInit, TypeStep, PTL DEF Spec

-----------------------------------------------------------------------------
(* The marker.                                                              *)

\* What a client knows of launchd at the steps that lead to the end of the marker.
JobInv ==
  /\ loaded => marker
  /\ Stands("load") => marker
  /\ Stands("undo") \/ Stands("unmark") => ~loaded
  /\ cli.pc \in {"status", "pid", "child"} => cli.op # "uninstall"
  /\ cli.op = "uninstall" /\ Stands("gone") => ~loaded
  /\ cli.op = "uninstall" /\ ~cli.boot /\ cli.pc \in {"read", "write", "idle", "released"} => ~loaded

LEMMA JobInit == Init => JobInv
  BY DEF Init, JobInv, Stands, Idle

LEMMA JobStep == TypeInv /\ JobInv /\ [Next]_vars => JobInv'
<1> SUFFICES ASSUME TypeInv, JobInv, [Next]_vars PROVE JobInv'
  OBVIOUS
<1> USE DEF TypeInv, TypeOK, JobInv, HasVictim, Stands, service, client
<1>0. CASE UNCHANGED vars
  BY <1>0 DEF vars
<1>1. ASSUME NEW p \in Pids, Check(p) PROVE JobInv'
  BY <1>1 DEF Check
<1>2. ASSUME NEW p \in Pids, Boot(p) PROVE JobInv'
  BY <1>2 DEF Boot
<1>3. ASSUME NEW p \in Pids, PipeClosed(p) PROVE JobInv'
  BY <1>3 DEF PipeClosed
<1>4. ASSUME NEW p \in Pids, Exit(p) PROVE JobInv'
  BY <1>4 DEF Exit
<1>5. ASSUME NEW p \in Pids, EndRun(p) PROVE JobInv'
  BY <1>5 DEF EndRun
<1>6. ASSUME NEW p \in Pids, BeginRun(p) PROVE JobInv'
  BY <1>6 DEF BeginRun
<1>7. ASSUME NEW p \in Pids, Crash(p) PROVE JobInv'
  BY <1>7 DEF Crash, Fault
<1>8. ASSUME NEW p \in Pids, Hang(p) PROVE JobInv'
  BY <1>8 DEF Hang, Fault
<1>9. ASSUME NEW p \in Pids, Recover(p) PROVE JobInv'
  BY <1>9 DEF Recover
<1>10. CASE LaunchOwner
  BY <1>10 DEF LaunchOwner
<1>11. CASE ForcedOut
  BY <1>11 DEF ForcedOut
<1>12. CASE Reap
  BY <1>12 DEF Reap
<1>13. CASE Unlist
  BY <1>13 DEF Unlist
<1>14. CASE StopChild
  BY <1>14 DEF StopChild
<1>15. CASE Drained
  BY <1>15 DEF Drained
<1>16. CASE Probe
  BY <1>16 DEF Probe
<1>17. CASE ProbeSucceeds
  BY <1>17 DEF ProbeSucceeds
<1>18. CASE ProbeFails
  BY <1>18 DEF ProbeFails
<1>19. CASE Leave
  BY <1>19 DEF Leave
<1>20. CASE Spawn
  BY <1>20 DEF Spawn
<1>21. CASE List
  BY <1>21 DEF List
<1>22. CASE TimePasses
  BY <1>22 DEF TimePasses
<1>23. ASSUME NEW op \in Ops, Begin(op) PROVE JobInv'
  <2>1. cli' = [Idle EXCEPT !.op = op, !.pc = FirstStep(op), !.was = marker] /\ UNCHANGED service
    BY <1>23 DEF Begin
  <2>2. /\ FirstStep(op) \in {"ask", "status", "shutdown", "pid", "child", "sigterm",
                            "serve", "plan"}
        /\ op = "uninstall" => FirstStep(op) = "plan"
    BY DEF FirstStep
  <2>3. cli'.pc = FirstStep(op) /\ cli'.op = op
    BY <2>1 DEF Idle
  <2>4. cli'.pc \notin {"load", "undo", "unmark", "gone", "read", "write", "idle", "released"}
    BY <2>2, <2>3
  <2>5. cli'.pc \in {"status", "pid", "child"} => cli'.op # "uninstall"
    BY <2>2, <2>3
  <2>6. loaded' => marker'
    BY <2>1
  <2> HIDE DEF TypeInv, TypeOK, HasVictim
  <2> QED BY <2>4, <2>5, <2>6
<1>24. CASE ClientDies
  BY <1>24, GoSays DEF ClientDies
<1>25. CASE Ask
  BY <1>25, GoSays DEF Ask, ClientSteps
<1>26. CASE Serve
  BY <1>26, GoSays DEF Serve
<1>27. CASE Await
  BY <1>27, GoSays DEF Await
<1>28. CASE Status
  BY <1>28, GoSays DEF Status, Answering
<1>29. CASE LockedPid
  BY <1>29, GoSays DEF LockedPid
<1>30. CASE PublishedChild
  BY <1>30, GoSays, OwnedFields DEF PublishedChild, ClientSteps
<1>31. CASE Read
  <2>1. CASE cli' = [cli EXCEPT !.pc = "write", !.inc = owned.inc, !.gen = owned.gen]
    <3>1. cli'.pc = "write" /\ cli'.op = cli.op /\ cli'.boot = cli.boot
      BY <2>1 DEF Clients
    <3> QED BY <1>31, <3>1 DEF Read
  <2>2. CASE Return \/ Go("shutdown") \/ Go("idle")
    BY <1>31, <2>2, GoSays DEF Read, ClientSteps
  <2> QED BY <1>31, <2>1, <2>2 DEF Read
<1>32. CASE Write
  BY <1>32, GoSays DEF Write, ClientSteps
<1>33. CASE Shutdown
  BY <1>33, GoSays DEF Shutdown, QuiescesLock, TakesBack
<1>34. CASE Released
  BY <1>34, GoSays DEF Released, ClientSteps
<1>35. CASE Sigterm
  <2>1. CASE Return
    BY <1>35, <2>1, GoSays DEF Sigterm
  <2>2. CASE cli' = [cli EXCEPT !.pc = "kill", !.pid = lockPid]
    <3>1. cli'.pc = "kill"
      BY <2>2 DEF Clients
    <3> QED BY <1>35, <3>1 DEF Sigterm
  <2> QED BY <1>35, <2>1, <2>2 DEF Sigterm
<1>36. CASE Kill
  BY <1>36, GoSays DEF Kill
<1>37. CASE Plan
  <2> DEFINE quell == Must \/ (cli.op = "uninstall" /\ loaded) \/ (~loaded /\ ~At("down"))
             names == quell /\ ~At("down") /\ owned.child # 0
             pid   == IF names THEN owned.child ELSE 0
             boot  == IF cli.op = "uninstall" THEN loaded ELSE ~loaded \/ Must
             next  == CASE cli.op = "uninstall" /\ ~cli.was -> "none"
                        [] names -> "read"
                        [] quell \/ cli.op = "uninstall" \/ (~loaded /\ lock # 0) -> "idle"
                        [] OTHER -> "mark"
  <2>1. next \in {"none", "read", "idle", "mark"} /\ (cli.op = "uninstall" => (boot <=> loaded))
    OBVIOUS
  <2>2. cli' = IF next = "none" THEN Idle
               ELSE [cli EXCEPT !.pc = next, !.quell = quell, !.pid = pid, !.boot = boot]
    BY <1>37 DEF Plan
  <2> HIDE DEF quell, pid, boot, next
  <2>3. \/ cli'.pc = "none"
        \/ cli'.pc = next /\ cli'.op = cli.op /\ (cli'.boot = boot)
    <3>1. CASE next = "none"
      BY <2>2, <3>1 DEF Idle
    <3>2. CASE next # "none"
      BY <2>2, <3>2 DEF Clients
    <3> QED BY <3>1, <3>2
  <2> QED BY <1>37, <2>1, <2>3 DEF Plan
<1>38. CASE StopIdle
  BY <1>38, GoSays DEF StopIdle, QuiescesLock, TakesBack, Onward, Must, ClientSteps
<1>39. CASE StopReleased
  BY <1>39, GoSays DEF StopReleased, Onward, Must, ClientSteps
<1>40. CASE StopTimesOut
  BY <1>40, GoSays DEF StopTimesOut, TakesBack
<1>41. CASE Bootout
  BY <1>41, GoSays DEF Bootout, Unload, ClientSteps
<1>42. CASE Gone
  BY <1>42, GoSays DEF Gone, ClientSteps
<1>43. CASE Mark
  BY <1>43, GoSays DEF Mark, ClientSteps
<1>44. CASE Bootstrap
  BY <1>44, GoSays DEF Bootstrap, FailedLoad, ClientSteps
<1>45. CASE Ready
  BY <1>45, GoSays DEF Ready
<1>46. CASE NotReady
  BY <1>46, GoSays DEF NotReady, Unload, ClientSteps
<1>47. CASE Unmark
  BY <1>47, GoSays DEF Unmark
<1>48. CASE Wakes
  BY <1>48 DEF Wakes
<1>49. CASE SpawnFails
  BY <1>49 DEF SpawnFails
<1>50. CASE OwnerDies
  BY <1>50 DEF OwnerDies
<1>51. CASE BootedOut
  BY <1>51 DEF BootedOut, Unload
<1> QED
  BY <1>0, <1>1, <1>2, <1>3, <1>4, <1>5, <1>6, <1>7, <1>8, <1>9, <1>10, <1>11, <1>12,
     <1>13, <1>14, <1>15, <1>16, <1>17, <1>18, <1>19, <1>20, <1>21, <1>22, <1>23, <1>24,
     <1>25, <1>26, <1>27, <1>28, <1>29, <1>30, <1>31, <1>32, <1>33, <1>34, <1>35, <1>36,
     <1>37, <1>38, <1>39, <1>40, <1>41, <1>42, <1>43, <1>44, <1>45, <1>46, <1>47, <1>48,
     <1>49, <1>50, <1>51 DEF Next, Process, OwnerStep, ClientStep

\* launchd never has the job without the marker, wherever an install, its rollback or an uninstall
\* stops (supervisor_service.rs 171, 233, 472).
THEOREM JobHasMarkerHolds == Spec => []JobHasMarker
<1>1. JobInv => JobHasMarker
  BY DEF JobInv, JobHasMarker
<1> QED
  BY <1>1, TypeInit, TypeStep, JobInit, JobStep, PTL DEF Spec

-----------------------------------------------------------------------------
(* Runs.                                                                    *)

\* A supervisor holds the lock exactly as long as it serves.
LockIsUp == \A p \in Pids : sup[p].st = "up" <=> lock = p

\* A run lives in a supervisor that serves and has not quiesced.
RunsAreUp == \A p \in Pids : sup[p].run => sup[p].st = "up" /\ ~sup[p].quiet

\* The child of the owner is the process it has started, up to the moment it waits for it.
ChildInv ==
  owner.child # 0 => /\ sup[owner.child].st \in {"boot", "up", "zombie"}
                     /\ sup[owner.child].gen = owner.gen

\* The child that the owner drains has quiesced, or ended.
DrainInv == At("drain") => sup[owner.child].quiet \/ sup[owner.child].st = "zombie"

RunInv == LockIsUp /\ RunsAreUp /\ ChildInv /\ DrainInv

LEMMA StartedFields ==
  /\ \A st, gen : /\ Started(st, gen).st = st /\ Started(st, gen).gen = gen
                  /\ ~Started(st, gen).run /\ ~Started(st, gen).quiet
  /\ Dead.st = "dead" /\ ~Dead.run /\ ~Dead.quiet
  BY DEF Started, Dead

LEMMA ChildlessFields ==
  owner \in Owners => \A clear, backoff : /\ Childless(clear, backoff).child = 0
                      /\ Childless(clear, backoff).pc = "unlist"
<1> SUFFICES ASSUME owner \in Owners, NEW clear, NEW backoff
             PROVE  Childless(clear, backoff).child = 0 /\ Childless(clear, backoff).pc = "unlist"
  OBVIOUS
<1> QED BY AwakeTypes DEF Childless, Owners

\* What an edit of a process leaves as it is.
Edited(p, x) ==
  /\ x.st = sup[p].st /\ x.gen = sup[p].gen
  /\ sup[p].quiet => x.quiet
  /\ x.run => x.st = "up" /\ ~x.quiet

LEMMA ProcessKeeps ==
  ASSUME NEW x \in Processes, NEW b \in BOOLEAN
  PROVE  /\ [x EXCEPT !.run = b].st = x.st /\ [x EXCEPT !.run = b].gen = x.gen
         /\ [x EXCEPT !.run = b].quiet = x.quiet /\ [x EXCEPT !.run = b].run = b
         /\ [x EXCEPT !.quiet = b].st = x.st /\ [x EXCEPT !.quiet = b].gen = x.gen
         /\ [x EXCEPT !.quiet = b].quiet = b /\ [x EXCEPT !.quiet = b].run = x.run
         /\ [x EXCEPT !.hung = b].st = x.st /\ [x EXCEPT !.hung = b].gen = x.gen
         /\ [x EXCEPT !.hung = b].quiet = x.quiet /\ [x EXCEPT !.hung = b].run = x.run
         /\ [x EXCEPT !.eof = b].st = x.st /\ [x EXCEPT !.eof = b].gen = x.gen
         /\ [x EXCEPT !.eof = b].quiet = x.quiet /\ [x EXCEPT !.eof = b].run = x.run
  BY DEF Processes

\* The owner lets its child go, or keeps it and does not begin to drain it.
OwnerKeeps ==
  \/ owner'.child = 0 /\ owner'.pc # "drain"
  \/ owner'.child = owner.child /\ owner'.gen = owner.gen /\ (owner'.pc = "drain" => owner.pc = "drain")

LEMMA OwnerMoves ==
  ASSUME TypeInv, RunInv, UNCHANGED <<sup, lock>>, OwnerKeeps \/ UNCHANGED owner
  PROVE  RunInv' /\ SparesRuns
  BY DEF TypeInv, TypeOK, HasChild, RunInv, LockIsUp, RunsAreUp, ChildInv, DrainInv, At, OwnerKeeps, SparesRuns

LEMMA BecomesKeeps ==
  ASSUME TypeInv, RunInv, NEW p \in Pids, NEW x, Becomes(p, x), Edited(p, x),
         OwnerKeeps \/ UNCHANGED owner
  PROVE  RunInv' /\ SparesRuns
<1>1. sup'[p] = x /\ \A q \in Pids \ {p} : sup'[q] = sup[q]
  BY DEF Becomes, TypeInv, TypeOK
<1>2. \A q \in Pids : /\ sup'[q].st = sup[q].st /\ sup'[q].gen = sup[q].gen
                      /\ sup[q].quiet => sup'[q].quiet
  BY <1>1 DEF Edited
<1>3. UNCHANGED lock
  BY DEF Becomes
<1>4. RunsAreUp'
  BY <1>1 DEF Edited, RunInv, RunsAreUp
<1>5. ChildInv' /\ DrainInv'
  BY <1>2, OwnerFields DEF TypeInv, TypeOK, HasChild, RunInv, ChildInv, DrainInv, At, OwnerKeeps
<1> QED
  BY <1>2, <1>3, <1>4, <1>5 DEF RunInv, LockIsUp, RunsAreUp, SparesRuns

LEMMA BirthKeeps ==
  ASSUME TypeInv, RunInv, NEW p \in Pids, sup[p] = Dead, Becomes(p, Started("check", 0)), UNCHANGED owner
  PROVE  RunInv' /\ SparesRuns
<1>1. /\ sup[p].st = "dead" /\ ~sup[p].run /\ sup'[p].st = "check" /\ ~sup'[p].run
      /\ \A q \in Pids \ {p} : sup'[q] = sup[q]
  BY StartedFields DEF Becomes, TypeInv, TypeOK
<1>2. p # owner.child
  BY <1>1, OwnerAssumption DEF RunInv, ChildInv
<1> QED
  BY <1>1, <1>2 DEF Becomes, RunInv, LockIsUp, RunsAreUp, ChildInv, DrainInv, SparesRuns, At,
     TypeInv, HasChild

LEMMA ExitsKeeps ==
  ASSUME TypeInv, RunInv, NEW p \in Pids, Exits(p), Live(p), UNCHANGED owner,
         faults' = faults /\ sup[p].run => sup[p].hung \/ Forced(p)
  PROVE  RunInv' /\ SparesRuns
<1>1. /\ ~sup'[p].run /\ sup'[p].st \in {"zombie", "dead"}
      /\ owner.child = p => sup'[p].st = "zombie" /\ sup'[p].gen = sup[p].gen
      /\ \A q \in Pids \ {p} : sup'[q] = sup[q]
  BY StartedFields DEF Exits, TypeInv, TypeOK
<1>2. lock' = IF lock = p THEN 0 ELSE lock
  BY DEF Exits
<1>3. LockIsUp' /\ RunsAreUp' /\ SparesRuns
  BY <1>1, <1>2, OwnerAssumption DEF RunInv, LockIsUp, RunsAreUp, SparesRuns
<1>4. ChildInv'
  <2>1. CASE owner.child = p
    BY <1>1, <2>1 DEF RunInv, ChildInv
  <2>2. CASE owner.child # p
    BY <1>1, <2>2, OwnerFields DEF RunInv, ChildInv, TypeInv, TypeOK
  <2> QED BY <2>1, <2>2
<1>5. DrainInv'
  <2>1. CASE owner.child = p
    BY <1>1, <2>1 DEF DrainInv
  <2>2. CASE owner.child # p
    BY <1>1, <2>2, OwnerFields DEF RunInv, DrainInv, At, TypeInv, TypeOK, HasChild
  <2> QED BY <2>1, <2>2
<1> QED BY <1>3, <1>4, <1>5 DEF RunInv

LEMMA KilledKeeps ==
  ASSUME TypeInv, RunInv, NEW p \in Pids, Killed(p), owner'.child = 0, owner'.pc # "drain",
         faults' = faults /\ sup[p].run => sup[p].hung \/ Forced(p)
  PROVE  RunInv' /\ SparesRuns
<1>1. ~sup'[p].run /\ sup'[p].st = "dead" /\ \A q \in Pids \ {p} : sup'[q] = sup[q]
  BY StartedFields DEF Killed, TypeInv, TypeOK
<1>2. lock' = IF lock = p THEN 0 ELSE lock
  BY DEF Killed
<1> QED
  BY <1>1, <1>2, OwnerAssumption DEF RunInv, LockIsUp, RunsAreUp, ChildInv, DrainInv, SparesRuns, At

LEMMA RunInit == Init => RunInv
  BY StartedFields, OwnerAssumption
     DEF Init, RunInv, LockIsUp, RunsAreUp, ChildInv, DrainInv, At, Down

LEMMA RunStep == TypeInv /\ RunInv /\ [Next]_vars => RunInv' /\ (UNCHANGED vars \/ SparesRuns)
<1> SUFFICES ASSUME TypeInv, RunInv, [Next]_vars PROVE RunInv' /\ (UNCHANGED vars \/ SparesRuns)
  OBVIOUS
<1> USE DEF TypeInv, TypeOK, HasChild, HasVictim, At, Stands, kernel
<1>0. CASE UNCHANGED vars
  BY <1>0, OwnerMoves DEF vars
<1>1. ASSUME NEW p \in Pids, Check(p) PROVE RunInv' /\ SparesRuns
  <2>1. sup[p].st = "check" /\ p # owner.child
    BY <1>1, OwnerAssumption DEF Check, RunInv, ChildInv
  <2> QED
    BY <1>1, <2>1, StartedFields DEF Check, Becomes, RunInv, LockIsUp, RunsAreUp,
       ChildInv, DrainInv, SparesRuns
<1>2. ASSUME NEW p \in Pids, Boot(p) PROVE RunInv' /\ SparesRuns
  <2>1. CASE lock = 0
    <3>1. sup[p].st = "boot" /\ sup' = [sup EXCEPT ![p] = [sup[p] EXCEPT !.st = "up"]]
      BY <1>2, <2>1 DEF Boot, Processes
    <3>2. /\ sup'[p].st = "up" /\ sup'[p].run = sup[p].run /\ sup'[p].gen = sup[p].gen
          /\ sup'[p].quiet = sup[p].quiet
      BY <3>1 DEF Processes
    <3>3. \A q \in Pids \ {p} : sup'[q] = sup[q]
      BY <3>1
    <3>4. lock' = p /\ UNCHANGED owner
      BY <1>2, <2>1 DEF Boot
    <3>5. LockIsUp' /\ RunsAreUp' /\ SparesRuns
      BY <2>1, <3>1, <3>2, <3>3, <3>4, OwnerAssumption DEF RunInv, LockIsUp, RunsAreUp, SparesRuns
    <3>6. ChildInv' /\ DrainInv'
      <4>1. CASE owner.child = p
        BY <3>1, <3>2, <3>4, <4>1 DEF RunInv, ChildInv, DrainInv
      <4>2. CASE owner.child # p
        BY <3>3, <3>4, <4>2, OwnerFields DEF RunInv, ChildInv, DrainInv
      <4> QED BY <4>1, <4>2
    <3> QED BY <3>5, <3>6 DEF RunInv
  <2>2. CASE lock # 0
    <3>1. Live(p) /\ ~sup[p].run
      BY <1>2 DEF Boot, Live, RunInv, RunsAreUp
    <3> QED BY <1>2, <2>2, <3>1, ExitsKeeps DEF Boot
  <2> QED BY <2>1, <2>2
<1>3. ASSUME NEW p \in Pids, PipeClosed(p) PROVE RunInv' /\ SparesRuns
  <2>1. Edited(p, [sup[p] EXCEPT !.quiet = TRUE])
    BY <1>3, ProcessKeeps DEF PipeClosed, Edited, Works, MayQuiesce, PipeSaysStop,
       RunInv, RunsAreUp
  <2> QED
    BY <1>3, <2>1, BecomesKeeps DEF PipeClosed, Quiesced
<1>4. ASSUME NEW p \in Pids, Exit(p) PROVE RunInv' /\ SparesRuns
  <2>1. Live(p) /\ (sup[p].run => FALSE)
    BY <1>4 DEF Exit, Works, Live, RunInv, RunsAreUp
  <2> QED
    BY <1>4, <2>1, ExitsKeeps DEF Exit
<1>5. ASSUME NEW p \in Pids, EndRun(p) PROVE RunInv' /\ SparesRuns
  <2>1. Edited(p, [sup[p] EXCEPT !.run = FALSE])
    BY <1>5, ProcessKeeps DEF EndRun, Edited, Works, MayQuiesce, PipeSaysStop, RunInv,
       RunsAreUp
  <2> QED
    BY <1>5, <2>1, BecomesKeeps DEF EndRun
<1>6. ASSUME NEW p \in Pids, BeginRun(p) PROVE RunInv' /\ SparesRuns
  <2>1. Edited(p, [sup[p] EXCEPT !.run = TRUE])
    BY <1>6, ProcessKeeps DEF BeginRun, Edited, Works, MayQuiesce, PipeSaysStop, RunInv,
       RunsAreUp
  <2> QED
    BY <1>6, <2>1, BecomesKeeps DEF BeginRun
<1>7. ASSUME NEW p \in Pids, Crash(p) PROVE RunInv' /\ SparesRuns
  <2>1. Live(p) /\ faults' # faults
    BY <1>7 DEF Crash, Fault
  <2> QED
    BY <1>7, <2>1, ExitsKeeps DEF Crash
<1>8. ASSUME NEW p \in Pids, Hang(p) PROVE RunInv' /\ SparesRuns
  <2>1. Edited(p, [sup[p] EXCEPT !.hung = TRUE])
    BY <1>8, ProcessKeeps DEF Hang, Edited, Works, MayQuiesce, PipeSaysStop, RunInv,
       RunsAreUp
  <2> QED
    BY <1>8, <2>1, BecomesKeeps DEF Hang
<1>9. ASSUME NEW p \in Pids, Recover(p) PROVE RunInv' /\ SparesRuns
  <2>1. Edited(p, [sup[p] EXCEPT !.hung = FALSE])
    BY <1>9, ProcessKeeps DEF Recover, Edited, Works, MayQuiesce, PipeSaysStop, RunInv,
       RunsAreUp
  <2> QED
    BY <1>9, <2>1, BecomesKeeps DEF Recover
<1>10. CASE LaunchOwner
  <2>1. owner'.child = 0 /\ owner'.pc # "drain"
    BY <1>10 DEF LaunchOwner, Down
  <2> QED
    BY <1>10, <2>1, OwnerMoves DEF LaunchOwner, OwnerKeeps
<1>11. CASE ForcedOut
  <2>1. owner.child \in Pids
    BY <1>11, OwnerFields DEF ForcedOut
  <2>2. owner'.child = 0 /\ owner'.pc # "drain"
    BY <1>11, ChildlessFields DEF ForcedOut
  <2>3. Forced(owner.child)
    BY <1>11, <2>1 DEF ForcedOut, Forced, NamesChild, RunInv, ChildInv
  <2> QED
    BY <1>11, <2>1, <2>2, <2>3, KilledKeeps DEF ForcedOut
<1>12. CASE Reap
  <2>1. owner.child \in Pids
    BY <1>12, OwnerFields DEF Reap
  <2>2. owner'.child = 0 /\ owner'.pc # "drain"
    BY <1>12, ChildlessFields, ChildlessTypes DEF Reap, Owners
  <2>3. ~sup[owner.child].run
    BY <1>12, <2>1 DEF Reap, RunInv, RunsAreUp
  <2> QED
    BY <1>12, <2>1, <2>2, <2>3, KilledKeeps DEF Reap
<1>13. CASE Unlist
  <2>1. OwnerKeeps
    BY <1>13, OwnerFields DEF Unlist, OwnerKeeps, Owners
  <2> QED
    BY <1>13, <2>1, OwnerMoves DEF Unlist
<1>14. CASE StopChild
  <2>1. owner.child \in Pids
    BY <1>14, OwnerFields DEF StopChild, Undisturbed
  <2>2. /\ sup'[owner.child].quiet /\ sup'[owner.child].run = sup[owner.child].run
        /\ sup'[owner.child].st = sup[owner.child].st /\ sup'[owner.child].gen = sup[owner.child].gen
    <3>1. sup'[owner.child] = [Quiesced(owner.child) EXCEPT !.eof = TRUE]
      BY <1>14, <2>1 DEF StopChild, Becomes
    <3>2. Quiesced(owner.child) \in Processes
      BY <2>1, ProcessEdits DEF Quiesced
    <3> QED BY <2>1, <3>1, <3>2, ProcessKeeps DEF Quiesced
  <2>3. \A q \in Pids \ {owner.child} : sup'[q] = sup[q]
    BY <1>14 DEF StopChild, Becomes
  <2>4. owner'.child = owner.child /\ owner'.gen = owner.gen
    BY <1>14 DEF StopChild, Awake, Owners
  <2>5. UNCHANGED lock /\ ~sup[owner.child].run
    BY <1>14 DEF StopChild, Becomes, MayQuiesce
  <2> QED
    BY <2>1, <2>2, <2>3, <2>4, <2>5 DEF RunInv, LockIsUp, RunsAreUp, ChildInv, DrainInv, SparesRuns
<1>15. CASE Drained
  <2>1. owner.child \in Pids
    BY <1>15, OwnerFields DEF Drained
  <2>2. owner'.child = 0 /\ owner'.pc # "drain"
    BY <1>15 DEF Drained, Down
  <2>3. ~sup[owner.child].run
    BY <1>15, <2>1 DEF Drained, RunInv, RunsAreUp, DrainInv
  <2> QED
    BY <1>15, <2>1, <2>2, <2>3, KilledKeeps DEF Drained
<1>16. CASE Probe
  <2>1. OwnerKeeps
    BY <1>16, OwnerFields DEF Probe, OwnerKeeps, Awake, Owners
  <2> QED
    BY <1>16, <2>1, OwnerMoves DEF Probe
<1>17. CASE ProbeSucceeds
  <2>1. OwnerKeeps
    BY <1>17, OwnerFields DEF ProbeSucceeds, OwnerKeeps, Owners
  <2> QED
    BY <1>17, <2>1, OwnerMoves DEF ProbeSucceeds
<1>18. CASE ProbeFails
  <2>1. owner.child \in Pids
    BY <1>18, OwnerFields DEF ProbeFails
  <2>2. CASE Failures < FailureThreshold
    <3>1. OwnerKeeps
      BY <1>18, <2>2, OwnerFields DEF ProbeFails, OwnerKeeps, Owners
    <3> QED BY <1>18, <2>2, <3>1, OwnerMoves DEF ProbeFails
  <2>3. CASE ~(Failures < FailureThreshold)
    <3>1. owner'.child = 0 /\ owner'.pc # "drain"
      <4>1. owner' = [Childless(FALSE, TRUE) EXCEPT !.fails = 0]
        BY <1>18, <2>3 DEF ProbeFails
      <4>2. Childless(FALSE, TRUE) \in Owners
        BY ChildlessTypes
      <4> QED BY <4>1, <4>2, ChildlessFields DEF Owners
    <3>2. sup[owner.child].run => sup[owner.child].hung
      BY <1>18, <2>1 DEF ProbeFails, Serves, Answering, RunInv, RunsAreUp, LockIsUp
    <3> QED BY <1>18, <2>1, <2>3, <3>1, <3>2, KilledKeeps DEF ProbeFails
  <2> QED BY <2>2, <2>3
<1>19. CASE Leave
  <2>1. owner'.child = 0 /\ owner'.pc # "drain"
    BY <1>19 DEF Leave, Down
  <2> QED
    BY <1>19, <2>1, OwnerMoves DEF Leave, OwnerKeeps
<1>20. CASE Spawn
  <2>1. PICK p \in Pids : /\ sup[p] = Dead /\ Becomes(p, Started("boot", gens + 1))
                          /\ owner' = [owner EXCEPT !.pc = "list", !.child = p, !.gen = gens + 1]
    BY <1>20 DEF Spawn
  <2>2. owner'.child = p /\ owner'.gen = gens + 1 /\ owner'.pc = "list"
    BY <2>1 DEF Owners
  <2>3. sup' = [sup EXCEPT ![p] = Started("boot", gens + 1)] /\ UNCHANGED lock
    BY <2>1 DEF Becomes
  <2>4. /\ sup[p].st = "dead" /\ sup'[p].st = "boot" /\ sup'[p].gen = gens + 1
        /\ ~sup'[p].run /\ ~sup[p].run /\ \A q \in Pids \ {p} : sup'[q] = sup[q]
    BY <2>1, <2>3, StartedFields
  <2> QED
    BY <2>2, <2>3, <2>4 DEF RunInv, LockIsUp, RunsAreUp, ChildInv, DrainInv, SparesRuns
<1>21. CASE List
  <2>1. OwnerKeeps
    BY <1>21, OwnerFields DEF List, OwnerKeeps, Owners
  <2> QED
    BY <1>21, <2>1, OwnerMoves DEF List
<1>22. CASE TimePasses
  <2>1. OwnerKeeps
    BY <1>22, OwnerFields DEF TimePasses, OwnerKeeps, Owners
  <2> QED
    BY <1>22, <2>1, OwnerMoves DEF TimePasses
<1>23. ASSUME NEW op \in Ops, Begin(op) PROVE RunInv' /\ SparesRuns
  BY <1>23, OwnerMoves DEF Begin
<1>24. CASE ClientDies
  BY <1>24, OwnerMoves DEF ClientDies
<1>25. CASE Ask
  <2>1. UNCHANGED owner
    BY <1>25 DEF Ask
  <2>2. CASE UNCHANGED <<sup, lock>>
    BY <2>1, <2>2, OwnerMoves
  <2>3. ASSUME NEW p \in Pids, sup[p] = Dead, Becomes(p, Started("check", 0)) PROVE RunInv' /\ SparesRuns
    BY <2>1, <2>3, BirthKeeps
  <2> QED
    BY <1>25, <2>2, <2>3 DEF Ask
<1>26. CASE Serve
  <2>1. CASE ~cli.was /\ lock = 0
    <3>1. PICK p \in Pids : /\ sup[p] = Dead /\ sup' = [sup EXCEPT ![p] = Started("up", 0)]
                            /\ lock' = p
      BY <1>26, <2>1 DEF Serve
    <3>2. /\ sup[p].st = "dead" /\ sup'[p].st = "up" /\ ~sup'[p].run /\ ~sup[p].run
          /\ \A q \in Pids \ {p} : sup'[q] = sup[q]
      BY <3>1, StartedFields
    <3>3. p # owner.child
      BY <3>2, OwnerAssumption DEF RunInv, ChildInv
    <3>4. UNCHANGED owner
      BY <1>26 DEF Serve
    <3>5. LockIsUp' /\ RunsAreUp' /\ SparesRuns
      BY <2>1, <3>1, <3>2, OwnerAssumption DEF RunInv, LockIsUp, RunsAreUp, SparesRuns
    <3>6. ChildInv' /\ DrainInv'
      BY <3>2, <3>3, <3>4, OwnerFields DEF RunInv, ChildInv, DrainInv
    <3> QED BY <3>5, <3>6 DEF RunInv
  <2>2. CASE UNCHANGED <<sup, lock>>
    BY <1>26, <2>2, OwnerMoves DEF Serve
  <2> QED BY <1>26, <2>1, <2>2 DEF Serve
<1>27. CASE Await
  BY <1>27, OwnerMoves DEF Await
<1>28. CASE Status
  BY <1>28, OwnerMoves DEF Status
<1>29. CASE LockedPid
  BY <1>29, OwnerMoves DEF LockedPid
<1>30. CASE PublishedChild
  BY <1>30, OwnerMoves DEF PublishedChild
<1>31. CASE Read
  BY <1>31, OwnerMoves DEF Read
<1>32. CASE Write
  BY <1>32, OwnerMoves DEF Write
<1>33. CASE Shutdown
  <2>1. UNCHANGED owner
    BY <1>33 DEF Shutdown, QuiescesLock, TakesBack
  <2>2. CASE UNCHANGED <<sup, lock>>
    BY <2>1, <2>2, OwnerMoves
  <2>3. CASE lock \in Pids /\ MayQuiesce(lock) /\ Becomes(lock, Quiesced(lock))
    <3>1. Edited(lock, [sup[lock] EXCEPT !.quiet = TRUE])
      BY <2>3, ProcessKeeps DEF Edited, MayQuiesce
    <3> QED BY <2>1, <2>3, <3>1, BecomesKeeps DEF Quiesced
  <2> QED BY <1>33, <2>2, <2>3 DEF Shutdown, QuiescesLock, TakesBack, Answering
<1>34. CASE Released
  BY <1>34, OwnerMoves DEF Released
<1>35. CASE Sigterm
  BY <1>35, OwnerMoves DEF Sigterm
<1>36. CASE Kill
  <2>1. cli.pid \in Pids /\ Forced(cli.pid)
    BY <1>36, ClientFields DEF Kill, Forced
  <2>2. CASE Live(cli.pid)
    BY <1>36, <2>1, <2>2, ExitsKeeps DEF Kill
  <2>3. CASE ~Live(cli.pid)
    BY <1>36, <2>3, OwnerMoves DEF Kill
  <2> QED BY <2>2, <2>3
<1>37. CASE Plan
  BY <1>37, OwnerMoves DEF Plan
<1>38. CASE StopIdle
  <2>1. UNCHANGED owner
    BY <1>38 DEF StopIdle, QuiescesLock, TakesBack
  <2>2. CASE UNCHANGED <<sup, lock>>
    BY <2>1, <2>2, OwnerMoves
  <2>3. CASE lock \in Pids /\ MayQuiesce(lock) /\ Becomes(lock, Quiesced(lock))
    <3>1. Edited(lock, [sup[lock] EXCEPT !.quiet = TRUE])
      BY <2>3, ProcessKeeps DEF Edited, MayQuiesce
    <3> QED BY <2>1, <2>3, <3>1, BecomesKeeps DEF Quiesced
  <2> QED BY <1>38, <2>2, <2>3 DEF StopIdle, QuiescesLock, TakesBack, Answering
<1>39. CASE StopReleased
  BY <1>39, OwnerMoves DEF StopReleased
<1>40. CASE StopTimesOut
  BY <1>40, OwnerMoves DEF StopTimesOut, TakesBack
<1>41. CASE Bootout
  <2>1. OwnerKeeps
    BY <1>41, OwnerFields DEF Bootout, Unload, OwnerKeeps, Owners
  <2> QED
    BY <1>41, <2>1, OwnerMoves DEF Bootout
<1>42. CASE Gone
  BY <1>42, OwnerMoves DEF Gone
<1>43. CASE Mark
  BY <1>43, OwnerMoves DEF Mark
<1>44. CASE Bootstrap
  BY <1>44, OwnerMoves DEF Bootstrap
<1>45. CASE Ready
  BY <1>45, OwnerMoves DEF Ready
<1>46. CASE NotReady
  <2>1. OwnerKeeps
    BY <1>46, OwnerFields DEF NotReady, Unload, OwnerKeeps, Owners
  <2> QED
    BY <1>46, <2>1, OwnerMoves DEF NotReady
<1>47. CASE Unmark
  BY <1>47, OwnerMoves DEF Unmark
<1>48. CASE Wakes
  <2>1. OwnerKeeps
    BY <1>48, OwnerFields DEF Wakes, OwnerKeeps, Owners
  <2> QED
    BY <1>48, <2>1, OwnerMoves DEF Wakes
<1>49. CASE SpawnFails
  <2>1. OwnerKeeps
    BY <1>49, OwnerFields DEF SpawnFails, OwnerKeeps, Owners
  <2> QED
    BY <1>49, <2>1, OwnerMoves DEF SpawnFails
<1>50. CASE OwnerDies
  <2>1. owner'.child = 0 /\ owner'.pc # "drain" /\ faults' # faults
    BY <1>50 DEF OwnerDies, Down, Fault
  <2>2. CASE UNCHANGED <<sup, lock>>
    BY <2>1, <2>2, OwnerMoves DEF OwnerKeeps
  <2>3. CASE owner.child \in Pids /\ Killed(owner.child)
    BY <2>1, <2>3, KilledKeeps
  <2>4. CASE owner.child \in Pids /\ Becomes(owner.child, [sup[owner.child] EXCEPT !.eof = TRUE])
    <3>1. Edited(owner.child, [sup[owner.child] EXCEPT !.eof = TRUE])
      BY <2>4, ProcessKeeps DEF Edited, RunInv, RunsAreUp
    <3> QED BY <2>1, <2>4, <3>1, BecomesKeeps DEF OwnerKeeps
  <2> QED BY <1>50, <2>2, <2>3, <2>4, OwnerFields DEF OwnerDies
<1>51. CASE BootedOut
  <2>1. OwnerKeeps
    BY <1>51, OwnerFields DEF BootedOut, Unload, OwnerKeeps, Owners
  <2> QED
    BY <1>51, <2>1, OwnerMoves DEF BootedOut
<1> QED
  BY <1>0, <1>1, <1>2, <1>3, <1>4, <1>5, <1>6, <1>7, <1>8, <1>9, <1>10, <1>11, <1>12,
     <1>13, <1>14, <1>15, <1>16, <1>17, <1>18, <1>19, <1>20, <1>21, <1>22, <1>23, <1>24,
     <1>25, <1>26, <1>27, <1>28, <1>29, <1>30, <1>31, <1>32, <1>33, <1>34, <1>35, <1>36,
     <1>37, <1>38, <1>39, <1>40, <1>41, <1>42, <1>43, <1>44, <1>45, <1>46, <1>47, <1>48,
     <1>49, <1>50, <1>51 DEF Next, Process, OwnerStep, ClientStep

\* No step of clients, owners or supervisors ends a healthy supervisor with an active run, unless
\* it was forced (supervisor.rs 6054, 6311, 2498).
THEOREM NoRunIsCutHolds == Spec => NoRunIsCut
<1>1. TypeInv /\ RunInv /\ [Next]_vars => [SparesRuns]_vars
  BY RunStep
<1> QED
  BY <1>1, TypeInit, TypeStep, RunInit, RunStep, PTL DEF Spec, NoRunIsCut

-----------------------------------------------------------------------------
(* A shutdown that stopped the child it named.                              *)

Up == ~At("down")

\* Whoever has generation g is the owner's child.
Sole(g) == \A p \in Pids : sup[p].gen = g => owner.child = p

\* Generations are given out once.
GensInv ==
  /\ \A p \in Pids : sup[p].gen <= gens
  /\ owner.gen <= gens /\ owned.gen <= gens /\ cli.gen <= gens

\* The file of the running owner names it, and its child if any.
FileInv ==
  /\ At("down") => owner.inc = 0 /\ owner.gen = 0 /\ ~owner.clear /\ owner.child = 0
  /\ Up => owner.inc = owned.inc /\ owned.inc # 0
  /\ owner.clear \/ At("unlist") => owner.child = 0 /\ At("unlist")
  /\ owned.child # 0 => owned.gen # 0
  /\ owner.child # 0 => owner.gen # 0
  /\ owner.gen # 0 => Sole(owner.gen)
  /\ Up /\ owned.gen # 0 => Sole(owned.gen)

Stops == Stands("write") \/ Stands("shutdown")

\* A client that has read the owner's file names a child that this owner has, or nobody.
ClientInv ==
  /\ cli.pc \in {"status", "pid", "child", "plan", "read"} => cli.inc = 0
  /\ Stands("read") => cli.pid # 0
  /\ cli.inc <= owned.inc
  /\ Stops /\ cli.inc # 0 => cli.gen # 0 /\ (cli.inc = owner.inc => Sole(cli.gen))

\* The request to stop, which does not force and does not restart.
Asked(inc) == request.inc = inc /\ ~request.force /\ ~request.restart

StopInv ==
  /\ Stands("shutdown") /\ cli.inc # 0 /\ cli.inc = owner.inc /\ (\E p \in Pids : sup[p].gen = cli.gen)
     => Asked(cli.inc)
  /\ stopped <= owned.inc
  /\ stopped # 0 => cli = Idle
  /\ stopped # 0 /\ stopped = owner.inc => Asked(stopped) /\ ~owner.clear

-----------------------------------------------------------------------------
\* No process gets a generation it did not have.
GensKept == \A p \in Pids : sup'[p].gen \in {sup[p].gen, 0}

\* The owner keeps its child, and what it still has to clear.
OwnerSame ==
  /\ owner'.inc = owner.inc /\ owner'.child = owner.child /\ owner'.gen = owner.gen
  /\ owner'.clear = owner.clear
  /\ owner'.pc = "down" <=> owner.pc = "down"
  /\ owner'.pc = "unlist" <=> owner.pc = "unlist"

\* The client keeps the generation it knows, reads it from the file, or forgets it.
ClientGen == cli'.gen \in {cli.gen, owned.gen, 0}

\* Generations, and the numbers of owners, are numbers.
LEMMA GensAreNumbers ==
  ASSUME TypeOK
  PROVE  /\ gens \in Nat /\ owner.gen \in Nat /\ owned.gen \in Nat /\ cli.gen \in Nat
         /\ owned.inc \in Nat /\ owner.inc \in Nat /\ cli.inc \in Nat /\ stopped \in Nat
         /\ \A p \in Pids : sup[p].gen \in Nat
<1>1. MaxGen \in Nat /\ MaxOwner \in Nat
  BY OwnerAssumption
<1>2. \A p \in Pids : sup[p].gen \in 0..MaxGen
  BY ProcessEdits DEF TypeOK
<1> QED BY <1>1, <1>2, OwnerFields, OwnedFields, ClientFields DEF TypeOK

\* A process that goes on keeps its generation.
LEMMA BecomesGens ==
  ASSUME TypeOK, NEW p \in Pids, NEW x, Becomes(p, x), x.gen \in {sup[p].gen, 0}
  PROVE  GensKept
BY DEF Becomes, TypeOK, GensKept

\* An edit of a process keeps its generation.
LEMMA EditsGens ==
  ASSUME TypeOK, NEW p \in Pids, NEW b \in BOOLEAN,
         \/ Becomes(p, [sup[p] EXCEPT !.run = b]) \/ Becomes(p, [sup[p] EXCEPT !.quiet = b])
         \/ Becomes(p, [sup[p] EXCEPT !.hung = b]) \/ Becomes(p, [sup[p] EXCEPT !.eof = b])
  PROVE  GensKept
<1>1. sup[p] \in Processes
  BY DEF TypeOK
<1>2. /\ [sup[p] EXCEPT !.run = b].gen = sup[p].gen /\ [sup[p] EXCEPT !.quiet = b].gen = sup[p].gen
      /\ [sup[p] EXCEPT !.hung = b].gen = sup[p].gen /\ [sup[p] EXCEPT !.eof = b].gen = sup[p].gen
  BY <1>1, ProcessKeeps
<1> QED BY <1>2, BecomesGens

\* A process that ends is a zombie with its generation, or dead without one.
LEMMA EndsGens ==
  ASSUME TypeOK, NEW p \in Pids, Exits(p) \/ Killed(p)
  PROVE  GensKept
<1>1. Dead.gen = 0 /\ \A g : Started("zombie", g).gen = g
  BY StartedFields DEF Dead
<1>2. sup'[p].gen \in {sup[p].gen, 0} /\ \A q \in Pids \ {p} : sup'[q] = sup[q]
  BY <1>1 DEF Exits, Killed, TypeOK
<1> QED BY <1>2 DEF GensKept

\* A process that is killed has no generation any more.
LEMMA KilledGen ==
  ASSUME TypeOK, NEW p \in Pids, Killed(p)
  PROVE  sup'[p].gen = 0 /\ GensKept
<1>1. Dead.gen = 0
  BY DEF Dead
<1> QED BY <1>1, EndsGens DEF Killed, TypeOK

\* A step that changes neither the file nor the child.
LEMMA FilesStay ==
  ASSUME TypeOK, GensInv, FileInv, GensKept, OwnerSame \/ UNCHANGED owner,
         UNCHANGED <<gens, owned>>, ClientGen
  PROVE  GensInv' /\ FileInv'
<1> USE DEF GensKept
<1>1. GensInv'
  BY GensAreNumbers DEF GensInv, OwnerSame, ClientGen
<1>2. \A g : g # 0 /\ Sole(g) => Sole(g)'
  BY DEF Sole, OwnerSame
<1> QED BY <1>1, <1>2 DEF FileInv, Up, At, OwnerSame

\* The owner has waited for its child, which is dead.
LEMMA FilesChildless ==
  ASSUME TypeOK, GensInv, FileInv, owner.child \in Pids, ~At("down"), Killed(owner.child),
         owner'.inc = owner.inc, owner'.child = 0, owner'.gen = 0, owner'.pc = "unlist",
         UNCHANGED <<gens, owned, cli>>
  PROVE  GensInv' /\ FileInv'
<1>1. sup'[owner.child].gen = 0 /\ GensKept
  BY KilledGen
<1>2. GensInv'
  BY <1>1, GensAreNumbers DEF GensInv, GensKept
<1>3. \A g : g # 0 /\ Sole(g) => Sole(g)'
  BY <1>1 DEF Sole, GensKept
<1> QED BY <1>2, <1>3 DEF FileInv, Up, At

\* The owner ends.
LEMMA FilesDown ==
  ASSUME TypeOK, GensInv, FileInv, GensKept, owner' = Down, UNCHANGED <<gens, cli>>,
         \/ UNCHANGED owned
         \/ owned'.child = 0 /\ owned'.gen = 0
  PROVE  GensInv' /\ FileInv'
<1>1. /\ owner'.inc = 0 /\ owner'.child = 0 /\ owner'.gen = 0 /\ owner'.pc = "down"
      /\ ~owner'.clear
  BY DEF Down
<1>2. GensInv'
  BY <1>1, GensAreNumbers DEF GensInv, GensKept
<1> QED BY <1>1, <1>2 DEF FileInv, Up, At

\* What a client that goes on keeps, and what one that returns has.
LEMMA ClientGoes ==
  ASSUME cli \in Clients
  PROVE  /\ \A pc \in ClientSteps : Go(pc) => cli'.pc = pc /\ cli'.inc = cli.inc /\ cli'.gen = cli.gen
         /\ Return => cli'.pc = "none" /\ cli'.inc = 0 /\ cli'.gen = 0
         /\ \A pid \in Pids : Reading(pid) => /\ cli'.pc = "read" /\ cli'.pid = pid
                                             /\ cli'.inc = cli.inc /\ cli'.gen = cli.gen
<1>1. ASSUME NEW pc \in ClientSteps, Go(pc)
      PROVE  cli'.pc = pc /\ cli'.inc = cli.inc /\ cli'.gen = cli.gen
  BY <1>1 DEF Go, Clients
<1>2. ASSUME Return PROVE cli'.pc = "none" /\ cli'.inc = 0 /\ cli'.gen = 0
  BY <1>2 DEF Return, Idle
<1>3. ASSUME NEW pid \in Pids, Reading(pid)
      PROVE  cli'.pc = "read" /\ cli'.pid = pid /\ cli'.inc = cli.inc /\ cli'.gen = cli.gen
  BY <1>3 DEF Reading, Clients
<1> QED BY <1>1, <1>2, <1>3

\* The fields of the state in which there is no client.
LEMMA IdleFields == Idle.pc = "none" /\ Idle.inc = 0 /\ Idle.gen = 0 /\ Idle.pid = 0
BY DEF Idle

\* An owner without a child remembers only its number, and what it has to clear.
LEMMA ChildlessSays ==
  ASSUME owner \in Owners, NEW clear \in BOOLEAN, NEW backoff \in BOOLEAN,
         \/ owner' = Childless(clear, backoff)
         \/ owner' = [Childless(clear, backoff) EXCEPT !.fails = 0]
  PROVE  /\ owner'.inc = owner.inc /\ owner'.child = 0 /\ owner'.gen = 0
         /\ owner'.pc = "unlist" /\ owner'.clear = clear
<1>1. Awake \in Owners /\ Awake.inc = owner.inc
  BY AwakeTypes DEF Awake, Owners
<1>2. ASSUME NEW w \in Owners, NEW b,
             LET x == [w EXCEPT !.pc = "unlist", !.child = 0, !.gen = 0, !.clear = clear, !.backoff = b]
             IN  owner' = x \/ owner' = [x EXCEPT !.fails = 0]
      PROVE  /\ owner'.inc = w.inc /\ owner'.child = 0 /\ owner'.gen = 0
             /\ owner'.pc = "unlist" /\ owner'.clear = clear
  BY <1>2 DEF Owners
<1> QED BY <1>1, <1>2 DEF Childless

\* A plan names the child of the file, or nobody.
LEMMA PlanSays ==
  ASSUME cli \in Clients, owned \in OwnerStates, Plan
  PROVE  \/ cli' = Idle /\ cli'.inc = 0 /\ cli'.gen = 0 /\ cli'.pc = "none"
         \/ /\ cli'.inc = cli.inc /\ cli'.gen = cli.gen /\ cli'.pc \in {"read", "idle", "mark"}
            /\ cli'.pc = "read" => cli'.pid = owned.child /\ owned.child # 0
<1> DEFINE quell == Must \/ (cli.op = "uninstall" /\ loaded) \/ (~loaded /\ ~At("down"))
           names == quell /\ ~At("down") /\ owned.child # 0
           pid   == IF names THEN owned.child ELSE 0
           boot  == IF cli.op = "uninstall" THEN loaded ELSE ~loaded \/ Must
           next  == CASE cli.op = "uninstall" /\ ~cli.was -> "none"
                      [] names -> "read"
                      [] quell \/ cli.op = "uninstall" \/ (~loaded /\ lock # 0) -> "idle"
                      [] OTHER -> "mark"
<1>1. next \in {"none", "read", "idle", "mark"}
  OBVIOUS
<1>2. next = "read" => names
  OBVIOUS
<1>3. names => pid = owned.child /\ owned.child # 0
  OBVIOUS
<1>4. cli' = IF next = "none" THEN Idle
             ELSE [cli EXCEPT !.pc = next, !.quell = quell, !.pid = pid, !.boot = boot]
  BY DEF Plan
<1> HIDE DEF quell, names, pid, boot, next
<1>5. CASE next = "none"
  BY <1>4, <1>5 DEF Idle
<1>6. CASE next # "none"
  <2>1. cli'.inc = cli.inc /\ cli'.gen = cli.gen /\ cli'.pc = next /\ cli'.pid = pid
    BY <1>4, <1>6 DEF Clients
  <2> QED BY <1>1, <1>2, <1>3, <1>6, <2>1
<1> QED BY <1>5, <1>6

\* Every step keeps generations unique, and the file of the owner in step with its child.
LEMMA FilesStep ==
  TypeInv /\ RunInv /\ GensInv /\ FileInv /\ [Next]_vars => GensInv' /\ FileInv'
<1> SUFFICES ASSUME TypeInv, RunInv, GensInv, FileInv, [Next]_vars PROVE GensInv' /\ FileInv'
  OBVIOUS
<1> USE DEF TypeInv, HasChild, HasVictim, Stands, kernel, files, service, client
<1>0. CASE UNCHANGED vars
  BY <1>0, FilesStay DEF vars, GensKept, ClientGen
<1>1. ASSUME NEW p \in Pids, Check(p) PROVE GensInv' /\ FileInv'
  <2>1. Dead.gen = 0 /\ Started("boot", 0).gen = 0
    BY StartedFields DEF Dead
  <2>2. GensKept
    BY <1>1, <2>1, BecomesGens DEF Check
  <2> QED BY <1>1, <2>2, FilesStay DEF Check, ClientGen
<1>2. ASSUME NEW p \in Pids, Boot(p) PROVE GensInv' /\ FileInv'
  <2>1. CASE lock = 0
    <3>1. sup' = [sup EXCEPT ![p].st = "up"]
      BY <1>2, <2>1 DEF Boot
    <3>2. GensKept
      BY <3>1 DEF GensKept, TypeOK, Processes
    <3> QED BY <1>2, <3>2, FilesStay DEF Boot, ClientGen
  <2>2. CASE lock # 0
    BY <1>2, <2>2, EndsGens, FilesStay DEF Boot, ClientGen
  <2> QED BY <2>1, <2>2
<1>3. ASSUME NEW p \in Pids, PipeClosed(p) PROVE GensInv' /\ FileInv'
  <2>1. GensKept
    BY <1>3, EditsGens DEF PipeClosed, Quiesced
  <2> QED BY <1>3, <2>1, FilesStay DEF PipeClosed, Fault, ClientGen
<1>4. ASSUME NEW p \in Pids, Exit(p) PROVE GensInv' /\ FileInv'
  BY <1>4, EndsGens, FilesStay DEF Exit, Fault, ClientGen
<1>5. ASSUME NEW p \in Pids, EndRun(p) PROVE GensInv' /\ FileInv'
  <2>1. GensKept
    BY <1>5, EditsGens DEF EndRun, Quiesced
  <2> QED BY <1>5, <2>1, FilesStay DEF EndRun, Fault, ClientGen
<1>6. ASSUME NEW p \in Pids, BeginRun(p) PROVE GensInv' /\ FileInv'
  <2>1. GensKept
    BY <1>6, EditsGens DEF BeginRun, Quiesced
  <2> QED BY <1>6, <2>1, FilesStay DEF BeginRun, Fault, ClientGen
<1>7. ASSUME NEW p \in Pids, Crash(p) PROVE GensInv' /\ FileInv'
  BY <1>7, EndsGens, FilesStay DEF Crash, Fault, ClientGen
<1>8. ASSUME NEW p \in Pids, Hang(p) PROVE GensInv' /\ FileInv'
  <2>1. GensKept
    BY <1>8, EditsGens DEF Hang, Quiesced
  <2> QED BY <1>8, <2>1, FilesStay DEF Hang, Fault, ClientGen
<1>9. ASSUME NEW p \in Pids, Recover(p) PROVE GensInv' /\ FileInv'
  <2>1. GensKept
    BY <1>9, EditsGens DEF Recover, Quiesced
  <2> QED BY <1>9, <2>1, FilesStay DEF Recover, Fault, ClientGen
<1>10. CASE LaunchOwner
  <2>1. /\ owner'.inc = owned.inc + 1 /\ owner'.child = 0 /\ owner'.gen = 0
        /\ owner'.pc = "tick" /\ ~owner'.clear
    BY <1>10 DEF LaunchOwner, Down
  <2>2. owned'.inc = owned.inc + 1 /\ owned'.child = 0 /\ owned'.gen = 0
    BY <1>10 DEF LaunchOwner
  <2>3. UNCHANGED <<sup, gens, cli>>
    BY <1>10 DEF LaunchOwner
  <2> QED BY <2>1, <2>2, <2>3, GensAreNumbers DEF GensInv, FileInv, Up, At
<1>11. CASE ForcedOut
  <2>1. owner.child \in Pids /\ ~At("down")
    BY <1>11, OwnerFields DEF ForcedOut, At, TypeOK
  <2>2. owner'.inc = owner.inc /\ owner'.child = 0 /\ owner'.gen = 0 /\ owner'.pc = "unlist"
    <3>1. PICK x \in BOOLEAN, y \in BOOLEAN :
            owner' = Childless(x, y) \/ owner' = [Childless(x, y) EXCEPT !.fails = 0]
      BY <1>11, RequestFields DEF ForcedOut, NamesChild, NamesOwner, ShouldRestart, TypeOK
    <3> QED BY <3>1, ChildlessSays DEF TypeOK
  <2> QED BY <1>11, <2>1, <2>2, FilesChildless DEF ForcedOut
<1>12. CASE Reap
  <2>1. owner.child \in Pids /\ ~At("down")
    BY <1>12, OwnerFields DEF Reap, At, TypeOK
  <2>2. owner'.inc = owner.inc /\ owner'.child = 0 /\ owner'.gen = 0 /\ owner'.pc = "unlist"
    <3>1. PICK x \in BOOLEAN, y \in BOOLEAN :
            owner' = Childless(x, y) \/ owner' = [Childless(x, y) EXCEPT !.fails = 0]
      BY <1>12, RequestFields DEF Reap, NamesChild, NamesOwner, ShouldRestart, TypeOK
    <3> QED BY <3>1, ChildlessSays DEF TypeOK
  <2> QED BY <1>12, <2>1, <2>2, FilesChildless DEF Reap
<1>13. CASE Unlist
  <2>1. /\ owner'.inc = owner.inc /\ owner'.child = owner.child /\ owner'.gen = owner.gen
        /\ owner'.pc = "tick" /\ ~owner'.clear
    BY <1>13 DEF Unlist, TypeOK, Owners
  <2>2. owned'.inc = owned.inc /\ owned'.child = 0 /\ owned'.gen = 0
    BY <1>13 DEF Unlist, TypeOK, OwnerStates
  <2>3. UNCHANGED <<sup, gens, cli>> /\ At("unlist")
    BY <1>13 DEF Unlist
  <2>4. Sole(owner.gen) => Sole(owner.gen)'
    BY <2>1, <2>3 DEF Sole
  <2> QED BY <2>1, <2>2, <2>3, <2>4, GensAreNumbers DEF GensInv, FileInv, Up, At, Sole
<1>14. CASE StopChild
  <2>1. owner.child \in Pids
    BY <1>14, OwnerFields DEF StopChild, Undisturbed, TypeOK
  <2>2. [Quiesced(owner.child) EXCEPT !.eof = TRUE].gen = sup[owner.child].gen
    <3>1. Quiesced(owner.child) \in Processes /\ Quiesced(owner.child).gen = sup[owner.child].gen
      BY <2>1, ProcessEdits, ProcessKeeps DEF Quiesced, TypeOK
    <3> QED BY <3>1, ProcessKeeps
  <2>3. GensKept
    BY <1>14, <2>1, <2>2, BecomesGens DEF StopChild
  <2>4. OwnerSame
    BY <1>14 DEF StopChild, OwnerSame, Awake, At, TypeOK, Owners
  <2> QED BY <1>14, <2>3, <2>4, FilesStay DEF StopChild, ClientGen
<1>15. CASE Drained
  <2>1. owner.child \in Pids
    BY <1>15, OwnerFields DEF Drained, TypeOK
  <2>2. GensKept
    BY <1>15, <2>1, EndsGens DEF Drained
  <2>3. owned'.child = 0 /\ owned'.gen = 0
    BY <1>15 DEF Drained, TypeOK, OwnerStates
  <2> QED BY <1>15, <2>2, <2>3, FilesDown DEF Drained
<1>16. CASE Probe
  <2>1. OwnerSame
    BY <1>16 DEF Probe, OwnerSame, Awake, At, TypeOK, Owners
  <2> QED BY <1>16, <2>1, FilesStay DEF Probe, Fault, GensKept, ClientGen
<1>17. CASE ProbeSucceeds
  <2>1. OwnerSame
    BY <1>17 DEF ProbeSucceeds, OwnerSame, Awake, At, TypeOK, Owners
  <2> QED BY <1>17, <2>1, FilesStay DEF ProbeSucceeds, Fault, GensKept, ClientGen
<1>18. CASE ProbeFails
  <2>1. CASE Failures < FailureThreshold
    <3>1. OwnerSame
      BY <1>18, <2>1 DEF ProbeFails, OwnerSame, At, TypeOK, Owners
    <3> QED BY <1>18, <2>1, <3>1, FilesStay DEF ProbeFails, GensKept, ClientGen
  <2>2. CASE ~(Failures < FailureThreshold)
    <3>1. owner.child \in Pids /\ ~At("down")
      BY <1>18, OwnerFields DEF ProbeFails, At, TypeOK
    <3>2. /\ owner'.inc = owner.inc /\ owner'.child = 0 /\ owner'.gen = 0
          /\ owner'.pc = "unlist"
      <4>1. owner' = [Childless(FALSE, TRUE) EXCEPT !.fails = 0]
        BY <1>18, <2>2 DEF ProbeFails
      <4> QED BY <4>1, ChildlessSays DEF TypeOK
    <3> QED BY <1>18, <2>2, <3>1, <3>2, FilesChildless DEF ProbeFails
  <2> QED BY <2>1, <2>2
<1>19. CASE Leave
  BY <1>19, FilesDown DEF Leave, GensKept
<1>20. CASE Spawn
  <2>1. PICK p \in Pids : /\ sup[p] = Dead /\ Becomes(p, Started("boot", gens + 1))
                          /\ owner' = [owner EXCEPT !.pc = "list", !.child = p, !.gen = gens + 1]
    BY <1>20 DEF Spawn
  <2>2. /\ owner'.inc = owner.inc /\ owner'.child = p /\ owner'.gen = gens + 1 /\ owner'.pc = "list"
        /\ owner'.clear = owner.clear
    BY <2>1 DEF TypeOK, Owners
  <2>3. sup'[p].gen = gens + 1 /\ \A q \in Pids \ {p} : sup'[q] = sup[q]
    BY <2>1, StartedFields DEF Becomes, TypeOK
  <2>4. /\ gens' = gens + 1 /\ UNCHANGED <<owned, cli>> /\ owner.child = 0 /\ At("tick")
        /\ p # 0
    BY <1>20, OwnerAssumption DEF Spawn
  <2>5. GensInv'
    BY <2>2, <2>3, <2>4, GensAreNumbers DEF GensInv
  <2>6. \A q \in Pids : sup'[q].gen = gens + 1 => owner'.child = q
    BY <2>2, <2>3, <2>4, GensAreNumbers DEF GensInv, Sole
  <2>7. ASSUME owned.gen # 0, Sole(owned.gen) PROVE Sole(owned.gen)'
    <3>1. owned.gen # gens + 1 /\ \A q \in Pids : sup[q].gen # owned.gen
      BY <2>4, <2>7, GensAreNumbers, OwnerAssumption DEF GensInv, Sole
    <3> QED BY <2>3, <2>4, <3>1 DEF Sole
  <2>8. ~owner.clear
    BY <2>4 DEF FileInv, At
  <2>9. gens + 1 # 0
    BY GensAreNumbers
  <2> QED BY <2>2, <2>4, <2>5, <2>6, <2>7, <2>8, <2>9 DEF FileInv, Up, At, Sole
<1>21. CASE List
  <2>1. OwnerSame
    BY <1>21 DEF List, OwnerSame, At, TypeOK, Owners
  <2>2. owned'.inc = owned.inc /\ owned'.child = owner.child /\ owned'.gen = owner.gen
    BY <1>21 DEF List, TypeOK, OwnerStates
  <2>3. UNCHANGED <<sup, gens, cli>>
    BY <1>21 DEF List
  <2>4. Sole(owner.gen) => Sole(owner.gen)' /\ Sole(owned.gen)'
    BY <2>1, <2>2, <2>3 DEF Sole, OwnerSame
  <2> QED BY <2>1, <2>2, <2>3, <2>4, GensAreNumbers DEF GensInv, FileInv, OwnerSame, Up, At, Sole
<1>22. CASE TimePasses
  <2>1. OwnerSame
    BY <1>22 DEF TimePasses, OwnerSame, Awake, At, TypeOK, Owners
  <2> QED BY <1>22, <2>1, FilesStay DEF TimePasses, Fault, GensKept, ClientGen
<1>23. ASSUME NEW op \in Ops, Begin(op) PROVE GensInv' /\ FileInv'
  <2>1. cli'.gen = 0
    BY <1>23 DEF Begin, Idle
  <2> QED BY <1>23, <2>1, FilesStay DEF Begin, GensKept, ClientGen
<1>24. CASE ClientDies
  <2>1. ClientGen
    BY <1>24, ClientGoes, OnwardTypes, OwnedFields DEF ClientDies, ClientGen, ClientSteps, Answering, TypeOK
  <2> QED BY <1>24, <2>1, FilesStay DEF ClientDies, GensKept
<1>25. CASE Ask
  <2>1. ClientGen
    BY <1>25, ClientGoes DEF Ask, ClientGen, ClientSteps, TypeOK
  <2>2. GensKept
    <3>1. CASE UNCHANGED <<sup, lock>>
      BY <3>1 DEF GensKept
    <3>2. ASSUME NEW p \in Pids, Becomes(p, Started("check", 0)) PROVE GensKept
      BY <3>2, BecomesGens, StartedFields
    <3> QED BY <1>25, <3>1, <3>2 DEF Ask
  <2> QED BY <1>25, <2>1, <2>2, FilesStay DEF Ask
<1>26. CASE Serve
  <2>1. ClientGen
    BY <1>26, ClientGoes DEF Serve, ClientGen, TypeOK
  <2>2. GensKept
    <3>1. CASE UNCHANGED sup
      BY <3>1 DEF GensKept
    <3>2. ASSUME NEW p \in Pids, sup' = [sup EXCEPT ![p] = Started("up", 0)] PROVE GensKept
      BY <3>2, StartedFields DEF GensKept, TypeOK
    <3> QED BY <1>26, <3>1, <3>2 DEF Serve
  <2> QED BY <1>26, <2>1, <2>2, FilesStay DEF Serve
<1>27. CASE Await
  <2>1. ClientGen
    BY <1>27, ClientGoes, OnwardTypes, OwnedFields DEF Await, ClientGen, ClientSteps, Answering, TypeOK
  <2> QED BY <1>27, <2>1, FilesStay DEF Await, GensKept
<1>28. CASE Status
  <2>1. ClientGen
    BY <1>28, ClientGoes, OnwardTypes, OwnedFields DEF Status, ClientGen, ClientSteps, Answering, TypeOK
  <2> QED BY <1>28, <2>1, FilesStay DEF Status, GensKept
<1>29. CASE LockedPid
  <2>1. ClientGen
    BY <1>29, ClientGoes, OnwardTypes, OwnedFields DEF LockedPid, ClientGen, ClientSteps, Answering, TypeOK
  <2> QED BY <1>29, <2>1, FilesStay DEF LockedPid, GensKept
<1>30. CASE PublishedChild
  <2>1. ClientGen
    BY <1>30, ClientGoes, OnwardTypes, OwnedFields DEF PublishedChild, ClientGen, ClientSteps, Answering, TypeOK
  <2> QED BY <1>30, <2>1, FilesStay DEF PublishedChild, GensKept
<1>31. CASE Read
  <2>1. ClientGen
    <3>1. CASE cli' = [cli EXCEPT !.pc = "write", !.inc = owned.inc, !.gen = owned.gen]
      BY <3>1 DEF ClientGen, TypeOK, Clients
    <3>2. CASE Return \/ Go("shutdown") \/ Go("idle")
      BY <3>2, ClientGoes DEF ClientGen, ClientSteps, TypeOK
    <3> QED BY <1>31, <3>1, <3>2 DEF Read
  <2> QED BY <1>31, <2>1, FilesStay DEF Read, GensKept
<1>32. CASE Write
  <2>1. ClientGen
    BY <1>32, ClientGoes, OnwardTypes, OwnedFields DEF Write, ClientGen, ClientSteps, Answering, TypeOK
  <2> QED BY <1>32, <2>1, FilesStay DEF Write, GensKept
<1>33. CASE Shutdown
  <2>1. ClientGen
    BY <1>33, ClientGoes, OnwardTypes DEF Shutdown, QuiescesLock, TakesBack, ClientGen, ClientSteps, TypeOK
  <2>2. GensKept
    <3>1. CASE UNCHANGED <<sup, lock>>
      BY <3>1 DEF GensKept
    <3>2. CASE lock \in Pids /\ Becomes(lock, Quiesced(lock))
      BY <3>2, EditsGens DEF Quiesced
    <3> QED BY <1>33, <3>1, <3>2 DEF Shutdown, QuiescesLock, TakesBack, Answering, TypeOK
  <2> QED BY <1>33, <2>1, <2>2, FilesStay DEF Shutdown, QuiescesLock, TakesBack
<1>34. CASE Released
  <2>1. ClientGen
    BY <1>34, ClientGoes, OnwardTypes, OwnedFields DEF Released, ClientGen, ClientSteps, Answering, TypeOK
  <2> QED BY <1>34, <2>1, FilesStay DEF Released, GensKept
<1>35. CASE Sigterm
  <2>1. ClientGen
    <3>1. CASE cli' = [cli EXCEPT !.pc = "kill", !.pid = lockPid]
      BY <3>1 DEF ClientGen, TypeOK, Clients
    <3>2. CASE Return
      BY <3>2, ClientGoes DEF ClientGen, TypeOK
    <3> QED BY <1>35, <3>1, <3>2 DEF Sigterm
  <2> QED BY <1>35, <2>1, FilesStay DEF Sigterm, GensKept
<1>36. CASE Kill
  <2>1. ClientGen
    BY <1>36, ClientGoes DEF Kill, ClientGen, TypeOK
  <2>2. GensKept
    <3>1. CASE UNCHANGED <<sup, lock>>
      BY <3>1 DEF GensKept
    <3>2. CASE cli.pid \in Pids /\ Exits(cli.pid)
      BY <3>2, EndsGens
    <3> QED BY <1>36, <3>1, <3>2, ClientFields DEF Kill, TypeOK
  <2> QED BY <1>36, <2>1, <2>2, FilesStay DEF Kill
<1>37. CASE Plan
  <2>1. ClientGen
    BY <1>37, PlanSays DEF ClientGen, TypeOK
  <2> QED BY <1>37, <2>1, FilesStay DEF Plan, GensKept
<1>38. CASE StopIdle
  <2>1. ClientGen
    BY <1>38, ClientGoes, OnwardTypes DEF StopIdle, QuiescesLock, TakesBack, ClientGen, ClientSteps, TypeOK
  <2>2. GensKept
    <3>1. CASE UNCHANGED <<sup, lock>>
      BY <3>1 DEF GensKept
    <3>2. CASE lock \in Pids /\ Becomes(lock, Quiesced(lock))
      BY <3>2, EditsGens DEF Quiesced
    <3> QED BY <1>38, <3>1, <3>2 DEF StopIdle, QuiescesLock, TakesBack, Answering, TypeOK
  <2> QED BY <1>38, <2>1, <2>2, FilesStay DEF StopIdle, QuiescesLock, TakesBack
<1>39. CASE StopReleased
  <2>1. ClientGen
    BY <1>39, ClientGoes, OnwardTypes, OwnedFields DEF StopReleased, ClientGen, ClientSteps, Answering, TypeOK
  <2> QED BY <1>39, <2>1, FilesStay DEF StopReleased, GensKept
<1>40. CASE StopTimesOut
  <2>1. ClientGen
    BY <1>40, ClientGoes, OnwardTypes, OwnedFields DEF StopTimesOut, TakesBack, ClientGen, ClientSteps, Answering, TypeOK
  <2> QED BY <1>40, <2>1, FilesStay DEF StopTimesOut, TakesBack, GensKept
<1>41. CASE Bootout
  <2>1. OwnerSame \/ UNCHANGED owner
    BY <1>41 DEF Bootout, Unload, OwnerSame, At, TypeOK, Owners
  <2>2. ClientGen
    BY <1>41, ClientGoes DEF Bootout, ClientGen, ClientSteps, TypeOK
  <2> QED BY <1>41, <2>1, <2>2, FilesStay DEF Bootout, Fault, GensKept
<1>42. CASE Gone
  <2>1. ClientGen
    BY <1>42, ClientGoes, OnwardTypes, OwnedFields DEF Gone, ClientGen, ClientSteps, Answering, TypeOK
  <2> QED BY <1>42, <2>1, FilesStay DEF Gone, GensKept
<1>43. CASE Mark
  <2>1. ClientGen
    BY <1>43, ClientGoes, OnwardTypes, OwnedFields DEF Mark, ClientGen, ClientSteps, Answering, TypeOK
  <2> QED BY <1>43, <2>1, FilesStay DEF Mark, GensKept
<1>44. CASE Bootstrap
  <2>1. ClientGen
    BY <1>44, ClientGoes, OnwardTypes, OwnedFields DEF Bootstrap, ClientGen, ClientSteps, Answering, TypeOK
  <2> QED BY <1>44, <2>1, FilesStay DEF Bootstrap, GensKept
<1>45. CASE Ready
  <2>1. ClientGen
    BY <1>45, ClientGoes, OnwardTypes, OwnedFields DEF Ready, ClientGen, ClientSteps, Answering, TypeOK
  <2> QED BY <1>45, <2>1, FilesStay DEF Ready, GensKept
<1>46. CASE NotReady
  <2>1. OwnerSame \/ UNCHANGED owner
    BY <1>46 DEF NotReady, Unload, OwnerSame, At, TypeOK, Owners
  <2>2. ClientGen
    BY <1>46, ClientGoes DEF NotReady, ClientGen, ClientSteps, TypeOK
  <2> QED BY <1>46, <2>1, <2>2, FilesStay DEF NotReady, Fault, GensKept
<1>47. CASE Unmark
  <2>1. ClientGen
    BY <1>47, ClientGoes, OnwardTypes, OwnedFields DEF Unmark, ClientGen, ClientSteps, Answering, TypeOK
  <2> QED BY <1>47, <2>1, FilesStay DEF Unmark, GensKept
<1>48. CASE Wakes
  <2>1. OwnerSame
    BY <1>48 DEF Wakes, OwnerSame, Awake, At, TypeOK, Owners
  <2> QED BY <1>48, <2>1, FilesStay DEF Wakes, Fault, GensKept, ClientGen
<1>49. CASE SpawnFails
  <2>1. OwnerSame
    BY <1>49 DEF SpawnFails, OwnerSame, Awake, At, TypeOK, Owners
  <2> QED BY <1>49, <2>1, FilesStay DEF SpawnFails, Fault, GensKept, ClientGen
<1>50. CASE OwnerDies
  <2>1. GensKept
    <3>1. CASE UNCHANGED <<sup, lock>>
      BY <3>1 DEF GensKept
    <3>2. CASE owner.child \in Pids /\ Killed(owner.child)
      BY <3>2, EndsGens
    <3>3. CASE owner.child \in Pids /\ Becomes(owner.child, [sup[owner.child] EXCEPT !.eof = TRUE])
      BY <3>3, EditsGens
    <3> QED BY <1>50, <3>1, <3>2, <3>3, OwnerFields DEF OwnerDies, TypeOK
  <2> QED BY <1>50, <2>1, FilesDown DEF OwnerDies
<1>51. CASE BootedOut
  <2>1. OwnerSame \/ UNCHANGED owner
    BY <1>51 DEF BootedOut, Unload, OwnerSame, At, TypeOK, Owners
  <2>2. ClientGen
    BY <1>51 DEF BootedOut, ClientGen, ClientSteps, TypeOK
  <2> QED BY <1>51, <2>1, <2>2, FilesStay DEF BootedOut, Fault, GensKept
<1> QED
  BY <1>0, <1>1, <1>2, <1>3, <1>4, <1>5, <1>6, <1>7, <1>8, <1>9, <1>10, <1>11, <1>12,
     <1>13, <1>14, <1>15, <1>16, <1>17, <1>18, <1>19, <1>20, <1>21, <1>22, <1>23, <1>24,
     <1>25, <1>26, <1>27, <1>28, <1>29, <1>30, <1>31, <1>32, <1>33, <1>34, <1>35, <1>36,
     <1>37, <1>38, <1>39, <1>40, <1>41, <1>42, <1>43, <1>44, <1>45, <1>46, <1>47, <1>48,
     <1>49, <1>50, <1>51 DEF Next, Process, OwnerStep, ClientStep

-----------------------------------------------------------------------------
\* A step that is no client's: what a client knows stays true as long as the owner is the same.
LEMMA OwnerActs ==
  ASSUME TypeOK, GensInv, FileInv, ClientInv, StopInv, UNCHANGED <<cli, stopped>>,
         owned'.inc \in Nat, owned'.inc >= owned.inc,
         \A p \in Pids : sup'[p].gen \in {sup[p].gen, 0} \/ sup'[p].gen > gens,
         owner'.inc \in {owner.inc, 0} \/ owner'.inc > owned.inc, owner'.inc \in Nat,
         owner'.inc = owner.inc /\ owner.inc # 0 =>
           /\ \A g \in 1..gens : Sole(g) => Sole(g)'
           /\ UNCHANGED request \/ owner.clear
           /\ owner'.clear => owner.clear \/ (NamesOwner /\ (request.force \/ request.restart))
  PROVE  ClientInv' /\ StopInv'
<1>1. cli.gen # 0 => cli.gen \in 1..gens
  BY GensAreNumbers DEF GensInv
<1>2. \A n \in {cli.inc, stopped} : n # 0 /\ n = owner'.inc => owner'.inc = owner.inc /\ owner.inc # 0
  BY GensAreNumbers DEF ClientInv, StopInv
<1>3. cli.inc <= owned'.inc /\ stopped <= owned'.inc
  BY GensAreNumbers DEF ClientInv, StopInv
<1>4. ClientInv'
  BY <1>1, <1>2, <1>3 DEF ClientInv, Stops, Stands
<1>5. ASSUME Stands("shutdown"), cli.inc # 0, cli.inc = owner'.inc,
             NEW p \in Pids, sup'[p].gen = cli.gen
      PROVE  Asked(cli.inc)'
  <2>1. owner'.inc = owner.inc /\ owner.inc # 0 /\ cli.gen # 0 /\ Sole(cli.gen)
    BY <1>2, <1>5 DEF ClientInv, Stops
  <2>2. sup[p].gen = cli.gen
    BY <1>5, <2>1, GensAreNumbers DEF GensInv
  <2>3. Asked(cli.inc)
    BY <1>5, <2>1, <2>2 DEF StopInv
  <2>4. owner.child = p
    BY <2>1, <2>2 DEF Sole
  <2>5. ~owner.clear
    BY <2>4, OwnerAssumption DEF FileInv
  <2> QED BY <2>1, <2>3, <2>5 DEF Asked
<1>6. ASSUME stopped # 0, stopped = owner'.inc PROVE Asked(stopped)' /\ ~owner'.clear
  <2>1. owner'.inc = owner.inc /\ owner.inc # 0
    BY <1>2, <1>6
  <2>2. Asked(stopped) /\ ~owner.clear
    BY <1>6, <2>1 DEF StopInv
  <2> QED BY <2>1, <2>2 DEF Asked
<1> QED BY <1>3, <1>4, <1>5, <1>6 DEF StopInv, Stands

\* A step that changes neither the child nor the request.
LEMMA StopQuiet ==
  ASSUME TypeOK, GensInv, FileInv, ClientInv, StopInv, GensKept, OwnerSame \/ UNCHANGED owner,
         owned'.inc = owned.inc, UNCHANGED <<cli, stopped, request>>
  PROVE  ClientInv' /\ StopInv'
<1>1. \A g \in 1..gens : Sole(g) => Sole(g)'
  BY DEF GensKept, Sole, OwnerSame
<1>2. owner'.inc = owner.inc /\ (owner'.clear => owner.clear)
  BY DEF OwnerSame
<1> QED BY <1>1, <1>2, OwnerActs, GensAreNumbers DEF GensKept

\* The owner has waited for its child: it clears a request that forced or restarts.
LEMMA StopChildless ==
  ASSUME TypeOK, GensInv, FileInv, ClientInv, StopInv, owner.child \in Pids, Killed(owner.child),
         owner'.inc = owner.inc, UNCHANGED <<cli, stopped, request, owned>>,
         owner'.clear => NamesOwner /\ (request.force \/ request.restart)
  PROVE  ClientInv' /\ StopInv'
<1>1. sup'[owner.child].gen = 0 /\ GensKept
  BY KilledGen
<1>2. \A g \in 1..gens : Sole(g) => Sole(g)'
  BY <1>1 DEF GensKept, Sole
<1> QED BY <1>1, <1>2, OwnerActs, GensAreNumbers DEF GensKept

\* The owner is gone, and with it what clients know of its child.
LEMMA StopDown ==
  ASSUME TypeOK, GensInv, FileInv, ClientInv, StopInv, GensKept, owner' = Down,
         owned'.inc = owned.inc, UNCHANGED <<cli, stopped>>
  PROVE  ClientInv' /\ StopInv'
<1>1. owner'.inc = 0
  BY DEF Down
<1> QED BY <1>1, OwnerActs, GensAreNumbers DEF GensKept

\* A client that is not about to stop a child.
LEMMA ClientMoves ==
  ASSUME TypeOK, ClientInv, stopped' = 0, UNCHANGED owned, cli'.inc \in {0, cli.inc},
         cli'.pc \in {"status", "pid", "child", "plan", "read", "write", "shutdown"} => cli'.inc = 0,
         cli'.pc = "read" => cli'.pid # 0
  PROVE  ClientInv' /\ StopInv'
<1>1. cli'.inc <= owned'.inc /\ stopped' <= owned'.inc
  BY GensAreNumbers DEF ClientInv
<1> QED BY <1>1 DEF ClientInv, StopInv, Stops, Stands

\* While a client is at work, no child counts as stopped.
LEMMA BusyClient ==
  ASSUME StopInv, cli.pc # "none" PROVE stopped = 0
BY IdleFields DEF StopInv

\* Every step keeps what a client that stops a child knows, and its request until the next command.
LEMMA StopStep ==
  TypeInv /\ RunInv /\ GensInv /\ FileInv /\ ClientInv /\ StopInv /\ [Next]_vars => ClientInv' /\ StopInv'
<1> SUFFICES ASSUME TypeInv, RunInv, GensInv, FileInv, ClientInv, StopInv, [Next]_vars
             PROVE  ClientInv' /\ StopInv'
  OBVIOUS
<1> USE DEF TypeInv, HasChild, HasVictim, Stands, kernel, files, service, client
<1>0. CASE UNCHANGED vars
  BY <1>0, StopQuiet DEF vars, GensKept
<1>1. ASSUME NEW p \in Pids, Check(p) PROVE ClientInv' /\ StopInv'
  <2>1. Dead.gen = 0 /\ Started("boot", 0).gen = 0
    BY StartedFields DEF Dead
  <2>2. GensKept
    BY <1>1, <2>1, BecomesGens DEF Check
  <2> QED BY <1>1, <2>2, StopQuiet DEF Check
<1>2. ASSUME NEW p \in Pids, Boot(p) PROVE ClientInv' /\ StopInv'
  <2>1. CASE lock = 0
    <3>1. sup' = [sup EXCEPT ![p].st = "up"]
      BY <1>2, <2>1 DEF Boot
    <3>2. GensKept
      BY <3>1 DEF GensKept, TypeOK, Processes
    <3> QED BY <1>2, <3>2, StopQuiet DEF Boot
  <2>2. CASE lock # 0
    BY <1>2, <2>2, EndsGens, StopQuiet DEF Boot
  <2> QED BY <2>1, <2>2
<1>3. ASSUME NEW p \in Pids, PipeClosed(p) PROVE ClientInv' /\ StopInv'
  <2>1. GensKept
    BY <1>3, EditsGens DEF PipeClosed, Quiesced
  <2> QED BY <1>3, <2>1, StopQuiet DEF PipeClosed, Fault
<1>4. ASSUME NEW p \in Pids, Exit(p) PROVE ClientInv' /\ StopInv'
  BY <1>4, EndsGens, StopQuiet DEF Exit, Fault
<1>5. ASSUME NEW p \in Pids, EndRun(p) PROVE ClientInv' /\ StopInv'
  <2>1. GensKept
    BY <1>5, EditsGens DEF EndRun, Quiesced
  <2> QED BY <1>5, <2>1, StopQuiet DEF EndRun, Fault
<1>6. ASSUME NEW p \in Pids, BeginRun(p) PROVE ClientInv' /\ StopInv'
  <2>1. GensKept
    BY <1>6, EditsGens DEF BeginRun, Quiesced
  <2> QED BY <1>6, <2>1, StopQuiet DEF BeginRun, Fault
<1>7. ASSUME NEW p \in Pids, Crash(p) PROVE ClientInv' /\ StopInv'
  BY <1>7, EndsGens, StopQuiet DEF Crash, Fault
<1>8. ASSUME NEW p \in Pids, Hang(p) PROVE ClientInv' /\ StopInv'
  <2>1. GensKept
    BY <1>8, EditsGens DEF Hang, Quiesced
  <2> QED BY <1>8, <2>1, StopQuiet DEF Hang, Fault
<1>9. ASSUME NEW p \in Pids, Recover(p) PROVE ClientInv' /\ StopInv'
  <2>1. GensKept
    BY <1>9, EditsGens DEF Recover, Quiesced
  <2> QED BY <1>9, <2>1, StopQuiet DEF Recover, Fault
<1>10. CASE LaunchOwner
  <2>1. owner'.inc = owned.inc + 1 /\ owned'.inc = owned.inc + 1
    BY <1>10 DEF LaunchOwner, Down
  <2>2. UNCHANGED <<sup, cli, stopped>> /\ owner.inc = 0
    BY <1>10 DEF LaunchOwner, FileInv
  <2>3. /\ owned'.inc \in Nat /\ owned'.inc >= owned.inc
        /\ owner'.inc \in Nat /\ owner'.inc > owned.inc /\ owner'.inc # owner.inc
    BY <2>1, <2>2, GensAreNumbers
  <2> QED BY <2>2, <2>3, OwnerActs
<1>11. CASE ForcedOut
  <2>1. owner.child \in Pids
    BY <1>11, OwnerFields DEF ForcedOut, TypeOK
  <2>2. owner'.inc = owner.inc /\ owner'.clear = request.restart
    BY <1>11, ChildlessSays, RequestFields DEF ForcedOut, TypeOK
  <2>3. NamesOwner /\ request.force
    BY <1>11 DEF ForcedOut, NamesChild
  <2> QED BY <1>11, <2>1, <2>2, <2>3, StopChildless DEF ForcedOut
<1>12. CASE Reap
  <2>1. owner.child \in Pids
    BY <1>12, OwnerFields DEF Reap, TypeOK
  <2>2. (NamesChild /\ ShouldRestart) \in BOOLEAN /\ ShouldRestart \in BOOLEAN
    BY RequestFields DEF NamesChild, NamesOwner, ShouldRestart, TypeOK
  <2>3. owner'.inc = owner.inc /\ owner'.clear = (NamesChild /\ ShouldRestart)
    BY <1>12, <2>2, ChildlessSays DEF Reap, TypeOK
  <2>4. owner'.clear => NamesOwner /\ request.restart
    BY <2>3 DEF NamesChild, ShouldRestart
  <2> QED BY <1>12, <2>1, <2>3, <2>4, StopChildless DEF Reap
<1>13. CASE Unlist
  <2>1. owner'.inc = owner.inc /\ owner'.child = owner.child /\ ~owner'.clear
    BY <1>13 DEF Unlist, TypeOK, Owners
  <2>2. owned'.inc = owned.inc
    BY <1>13 DEF Unlist, TypeOK, OwnerStates
  <2>3. UNCHANGED <<sup, cli, stopped>> /\ (UNCHANGED request \/ owner.clear)
    BY <1>13 DEF Unlist
  <2>4. \A g \in 1..gens : Sole(g) => Sole(g)'
    BY <2>1, <2>3 DEF Sole
  <2> QED BY <2>1, <2>2, <2>3, <2>4, OwnerActs, GensAreNumbers
<1>14. CASE StopChild
  <2>1. owner.child \in Pids
    BY <1>14, OwnerFields DEF StopChild, Undisturbed, TypeOK
  <2>2. [Quiesced(owner.child) EXCEPT !.eof = TRUE].gen = sup[owner.child].gen
    <3>1. Quiesced(owner.child) \in Processes /\ Quiesced(owner.child).gen = sup[owner.child].gen
      BY <2>1, ProcessEdits, ProcessKeeps DEF Quiesced, TypeOK
    <3> QED BY <3>1, ProcessKeeps
  <2>3. GensKept
    BY <1>14, <2>1, <2>2, BecomesGens DEF StopChild
  <2>4. OwnerSame
    BY <1>14 DEF StopChild, OwnerSame, Awake, At, TypeOK, Owners
  <2> QED BY <1>14, <2>3, <2>4, StopQuiet DEF StopChild
<1>15. CASE Drained
  <2>1. owner.child \in Pids
    BY <1>15, OwnerFields DEF Drained, TypeOK
  <2>2. GensKept
    BY <1>15, <2>1, EndsGens DEF Drained
  <2>3. owned'.inc = owned.inc
    BY <1>15 DEF Drained, TypeOK, OwnerStates
  <2> QED BY <1>15, <2>2, <2>3, StopDown DEF Drained
<1>16. CASE Probe
  <2>1. OwnerSame
    BY <1>16 DEF Probe, OwnerSame, Awake, At, TypeOK, Owners
  <2> QED BY <1>16, <2>1, StopQuiet DEF Probe, Fault, GensKept
<1>17. CASE ProbeSucceeds
  <2>1. OwnerSame
    BY <1>17 DEF ProbeSucceeds, OwnerSame, Awake, At, TypeOK, Owners
  <2> QED BY <1>17, <2>1, StopQuiet DEF ProbeSucceeds, Fault, GensKept
<1>18. CASE ProbeFails
  <2>1. CASE Failures < FailureThreshold
    <3>1. OwnerSame
      BY <1>18, <2>1 DEF ProbeFails, OwnerSame, At, TypeOK, Owners
    <3> QED BY <1>18, <2>1, <3>1, StopQuiet DEF ProbeFails, GensKept
  <2>2. CASE ~(Failures < FailureThreshold)
    <3>1. owner.child \in Pids
      BY <1>18, OwnerFields DEF ProbeFails, At, TypeOK
    <3>2. owner' = [Childless(FALSE, TRUE) EXCEPT !.fails = 0]
      BY <1>18, <2>2 DEF ProbeFails
    <3>3. owner'.inc = owner.inc /\ ~owner'.clear
      BY <3>2, ChildlessSays DEF TypeOK
    <3> QED BY <1>18, <2>2, <3>1, <3>3, StopChildless DEF ProbeFails
  <2> QED BY <2>1, <2>2
<1>19. CASE Leave
  BY <1>19, StopDown DEF Leave, GensKept
<1>20. CASE Spawn
  <2>1. PICK p \in Pids : /\ sup[p] = Dead /\ Becomes(p, Started("boot", gens + 1))
                          /\ owner' = [owner EXCEPT !.pc = "list", !.child = p, !.gen = gens + 1]
    BY <1>20 DEF Spawn
  <2>2. owner'.inc = owner.inc /\ owner'.clear = owner.clear
    BY <2>1 DEF TypeOK, Owners
  <2>3. sup'[p].gen = gens + 1 /\ \A q \in Pids \ {p} : sup'[q] = sup[q]
    BY <2>1, StartedFields DEF Becomes, TypeOK
  <2>4. UNCHANGED <<owned, cli, stopped, request>> /\ owner.child = 0
    BY <1>20 DEF Spawn
  <2>5. \A g \in 1..gens : Sole(g) => Sole(g)'
    BY <2>3, <2>4, GensAreNumbers, OwnerAssumption DEF Sole
  <2>6. \A q \in Pids : sup'[q].gen \in {sup[q].gen, 0} \/ sup'[q].gen > gens
    BY <2>3, GensAreNumbers
  <2> QED BY <2>2, <2>4, <2>5, <2>6, OwnerActs, GensAreNumbers
<1>21. CASE List
  <2>1. OwnerSame
    BY <1>21 DEF List, OwnerSame, At, TypeOK, Owners
  <2>2. owned'.inc = owned.inc
    BY <1>21 DEF List, TypeOK, OwnerStates
  <2> QED BY <1>21, <2>1, <2>2, StopQuiet DEF List, GensKept
<1>22. CASE TimePasses
  <2>1. OwnerSame
    BY <1>22 DEF TimePasses, OwnerSame, Awake, At, TypeOK, Owners
  <2> QED BY <1>22, <2>1, StopQuiet DEF TimePasses, Fault, GensKept
<1>23. ASSUME NEW op \in Ops, Begin(op) PROVE ClientInv' /\ StopInv'
  <2>1. cli'.inc = 0 /\ cli'.pc = FirstStep(op)
    BY <1>23 DEF Begin, Idle
  <2>2. FirstStep(op) # "read"
    BY DEF FirstStep
  <2> QED BY <1>23, <2>1, <2>2, ClientMoves DEF Begin
<1>24. CASE ClientDies
  <2>1. stopped = 0
    BY <1>24 DEF ClientDies, StopInv
  <2> QED BY <1>24, <2>1, ClientGoes, ClientMoves DEF ClientDies, TypeOK
<1>25. CASE Ask
  <2>1. stopped' = 0 /\ UNCHANGED owned
    BY <1>25, BusyClient DEF Ask
  <2>2. /\ cli'.inc \in {0, cli.inc} /\ (cli'.pc = "read" => cli'.pid # 0)
        /\ cli'.pc \in {"status", "pid", "child", "plan", "read", "write", "shutdown"} => cli'.inc = 0
    BY <1>25, ClientGoes, OwnedFields, OwnerAssumption
       DEF Ask, ClientInv, ClientSteps, Answering, TypeOK
  <2> QED BY <2>1, <2>2, ClientMoves
<1>26. CASE Serve
  <2>1. stopped' = 0 /\ UNCHANGED owned
    BY <1>26, BusyClient DEF Serve
  <2>2. /\ cli'.inc \in {0, cli.inc} /\ (cli'.pc = "read" => cli'.pid # 0)
        /\ cli'.pc \in {"status", "pid", "child", "plan", "read", "write", "shutdown"} => cli'.inc = 0
    BY <1>26, ClientGoes, OwnedFields, OwnerAssumption
       DEF Serve, ClientInv, ClientSteps, Answering, TypeOK
  <2> QED BY <2>1, <2>2, ClientMoves
<1>27. CASE Await
  <2>1. stopped' = 0 /\ UNCHANGED owned
    BY <1>27, BusyClient DEF Await
  <2>2. /\ cli'.inc \in {0, cli.inc} /\ (cli'.pc = "read" => cli'.pid # 0)
        /\ cli'.pc \in {"status", "pid", "child", "plan", "read", "write", "shutdown"} => cli'.inc = 0
    BY <1>27, ClientGoes, OwnedFields, OwnerAssumption
       DEF Await, ClientInv, ClientSteps, Answering, TypeOK
  <2> QED BY <2>1, <2>2, ClientMoves
<1>28. CASE Status
  <2>1. stopped' = 0 /\ UNCHANGED owned
    BY <1>28, BusyClient DEF Status
  <2>2. /\ cli'.inc \in {0, cli.inc} /\ (cli'.pc = "read" => cli'.pid # 0)
        /\ cli'.pc \in {"status", "pid", "child", "plan", "read", "write", "shutdown"} => cli'.inc = 0
    BY <1>28, ClientGoes, OwnedFields, OwnerAssumption
       DEF Status, ClientInv, ClientSteps, Answering, TypeOK
  <2> QED BY <2>1, <2>2, ClientMoves
<1>29. CASE LockedPid
  <2>1. stopped' = 0 /\ UNCHANGED owned
    BY <1>29, BusyClient DEF LockedPid
  <2>2. /\ cli'.inc \in {0, cli.inc} /\ (cli'.pc = "read" => cli'.pid # 0)
        /\ cli'.pc \in {"status", "pid", "child", "plan", "read", "write", "shutdown"} => cli'.inc = 0
    BY <1>29, ClientGoes, OwnedFields, OwnerAssumption
       DEF LockedPid, ClientInv, ClientSteps, Answering, TypeOK
  <2> QED BY <2>1, <2>2, ClientMoves
<1>30. CASE PublishedChild
  <2>1. stopped' = 0 /\ UNCHANGED owned
    BY <1>30, BusyClient DEF PublishedChild
  <2>2. /\ cli'.inc \in {0, cli.inc} /\ (cli'.pc = "read" => cli'.pid # 0)
        /\ cli'.pc \in {"status", "pid", "child", "plan", "read", "write", "shutdown"} => cli'.inc = 0
    BY <1>30, ClientGoes, OwnedFields, OwnerAssumption
       DEF PublishedChild, ClientInv, ClientSteps, Answering, TypeOK
  <2> QED BY <2>1, <2>2, ClientMoves
<1>31. CASE Read
  <2>1. stopped' = 0 /\ UNCHANGED <<sup, owner, owned>> /\ cli.inc = 0 /\ cli.pid # 0
    BY <1>31, BusyClient DEF Read, ClientInv
  <2>2. CASE /\ ~At("down") /\ owned.child = cli.pid
             /\ cli' = [cli EXCEPT !.pc = "write", !.inc = owned.inc, !.gen = owned.gen]
    <3>1. cli'.pc = "write" /\ cli'.inc = owned.inc /\ cli'.gen = owned.gen
      BY <2>2 DEF TypeOK, Clients
    <3>2. owned.gen # 0 /\ Sole(owned.gen)
      BY <2>1, <2>2 DEF FileInv, Up
    <3>3. Sole(cli.gen)'
      BY <2>1, <3>1, <3>2 DEF Sole
    <3>4. owned.inc <= owned.inc /\ 0 <= owned.inc
      BY GensAreNumbers
    <3> QED BY <2>1, <3>1, <3>2, <3>3, <3>4 DEF ClientInv, StopInv, Stops
  <2>3. CASE Return \/ Go("shutdown") \/ Go("idle")
    BY <2>1, <2>3, ClientGoes, ClientMoves DEF ClientSteps, TypeOK
  <2> QED BY <1>31, <2>2, <2>3 DEF Read
<1>32. CASE Write
  <2>1. stopped' = 0 /\ stopped = 0 /\ UNCHANGED <<sup, owner, owned>> /\ cli.pc = "write"
    BY <1>32, BusyClient DEF Write
  <2>2. CASE cli.op = "stop"
    <3>1. cli'.pc = "shutdown" /\ cli'.inc = cli.inc /\ cli'.gen = cli.gen
      BY <1>32, <2>2, ClientGoes DEF Write, ClientSteps, TypeOK
    <3>2. Asked(cli.inc)'
      BY <1>32, <2>2, <3>1 DEF Write, Asked
    <3>3. cli'.gen # 0 /\ Sole(cli.gen) => Sole(cli.gen)'
      BY <2>1, <3>1 DEF Sole
    <3> QED BY <2>1, <3>1, <3>2, <3>3 DEF ClientInv, StopInv, Stops
  <2>3. CASE cli.op # "stop"
    <3>1. cli'.pc \in {"idle", "release"} /\ cli'.inc = cli.inc
      BY <1>32, <2>3, ClientGoes DEF Write, ClientSteps, TypeOK
    <3> QED BY <2>1, <3>1, ClientMoves
  <2> QED BY <2>2, <2>3
<1>33. CASE Shutdown
  <2>1. stopped = 0 /\ UNCHANGED <<owner, owned>> /\ cli.pc = "shutdown"
    BY <1>33, BusyClient DEF Shutdown, QuiescesLock, TakesBack
  <2>2. cli' = Idle /\ cli'.pc = "none" /\ cli'.inc = 0
    BY <1>33, IdleFields DEF Shutdown, QuiescesLock, TakesBack, Return
  <2>3. CASE stopped' = 0
    BY <2>1, <2>2, <2>3, ClientMoves
  <2>4. CASE stopped' # 0
    <3>1. /\ lock \in Pids /\ sup[lock].gen = cli.gen /\ stopped' = cli.inc /\ UNCHANGED request
      BY <1>33, <2>1, <2>4 DEF Shutdown, QuiescesLock, TakesBack, Answering, TypeOK
    <3>2. ASSUME cli.inc = owner.inc PROVE Asked(cli.inc) /\ ~owner.clear
      <4>1. Asked(cli.inc) /\ Sole(cli.gen)
        BY <2>1, <2>4, <3>1, <3>2 DEF StopInv, ClientInv, Stops
      <4>2. owner.child = lock
        BY <3>1, <4>1 DEF Sole
      <4> QED BY <3>1, <4>1, <4>2, OwnerAssumption DEF FileInv
    <3>3. ClientInv'
      BY <2>1, <2>2, GensAreNumbers DEF ClientInv, Stops
    <3>4. stopped' <= owned'.inc
      BY <2>1, <3>1 DEF ClientInv
    <3> QED BY <2>1, <2>2, <3>1, <3>2, <3>3, <3>4 DEF StopInv, Asked
  <2> QED BY <2>3, <2>4
<1>34. CASE Released
  <2>1. stopped' = 0 /\ UNCHANGED owned
    BY <1>34, BusyClient DEF Released
  <2>2. /\ cli'.inc \in {0, cli.inc} /\ (cli'.pc = "read" => cli'.pid # 0)
        /\ cli'.pc \in {"status", "pid", "child", "plan", "read", "write", "shutdown"} => cli'.inc = 0
    BY <1>34, ClientGoes, OwnedFields, OwnerAssumption
       DEF Released, ClientInv, ClientSteps, Answering, TypeOK
  <2> QED BY <2>1, <2>2, ClientMoves
<1>35. CASE Sigterm
  <2>1. stopped' = 0 /\ UNCHANGED owned
    BY <1>35, BusyClient DEF Sigterm
  <2>2. CASE cli' = [cli EXCEPT !.pc = "kill", !.pid = lockPid]
    <3>1. cli'.pc = "kill" /\ cli'.inc = cli.inc
      BY <2>2 DEF TypeOK, Clients
    <3> QED BY <2>1, <3>1, ClientMoves
  <2>3. CASE Return
    BY <2>1, <2>3, ClientGoes, ClientMoves DEF TypeOK
  <2> QED BY <1>35, <2>2, <2>3 DEF Sigterm
<1>36. CASE Kill
  <2>1. stopped' = 0 /\ UNCHANGED owned
    BY <1>36, BusyClient DEF Kill
  <2>2. /\ cli'.inc \in {0, cli.inc} /\ (cli'.pc = "read" => cli'.pid # 0)
        /\ cli'.pc \in {"status", "pid", "child", "plan", "read", "write", "shutdown"} => cli'.inc = 0
    BY <1>36, ClientGoes, OwnedFields, OwnerAssumption
       DEF Kill, ClientInv, ClientSteps, Answering, TypeOK
  <2> QED BY <2>1, <2>2, ClientMoves
<1>37. CASE Plan
  <2>1. stopped' = 0 /\ UNCHANGED owned /\ cli.inc = 0
    BY <1>37, BusyClient DEF Plan, ClientInv
  <2> QED BY <1>37, <2>1, PlanSays, ClientMoves DEF TypeOK
<1>38. CASE StopIdle
  <2>1. stopped' = 0 /\ UNCHANGED owned
    BY <1>38, BusyClient DEF StopIdle, QuiescesLock, TakesBack
  <2>2. /\ cli'.inc \in {0, cli.inc} /\ (cli'.pc = "read" => cli'.pid # 0)
        /\ cli'.pc \in {"status", "pid", "child", "plan", "read", "write", "shutdown"} => cli'.inc = 0
    BY <1>38, ClientGoes, OwnedFields, OwnerAssumption
       DEF StopIdle, QuiescesLock, TakesBack, ClientInv, ClientSteps, Answering, TypeOK, Onward
  <2> QED BY <2>1, <2>2, ClientMoves
<1>39. CASE StopReleased
  <2>1. stopped' = 0 /\ UNCHANGED owned
    BY <1>39, BusyClient DEF StopReleased
  <2>2. /\ cli'.inc \in {0, cli.inc} /\ (cli'.pc = "read" => cli'.pid # 0)
        /\ cli'.pc \in {"status", "pid", "child", "plan", "read", "write", "shutdown"} => cli'.inc = 0
    BY <1>39, ClientGoes, OwnedFields, OwnerAssumption
       DEF StopReleased, ClientInv, ClientSteps, Answering, TypeOK, Onward
  <2> QED BY <2>1, <2>2, ClientMoves
<1>40. CASE StopTimesOut
  <2>1. stopped' = 0 /\ UNCHANGED owned
    BY <1>40, BusyClient DEF StopTimesOut, TakesBack
  <2>2. /\ cli'.inc \in {0, cli.inc} /\ (cli'.pc = "read" => cli'.pid # 0)
        /\ cli'.pc \in {"status", "pid", "child", "plan", "read", "write", "shutdown"} => cli'.inc = 0
    BY <1>40, ClientGoes, OwnedFields, OwnerAssumption
       DEF StopTimesOut, TakesBack, ClientInv, ClientSteps, Answering, TypeOK
  <2> QED BY <2>1, <2>2, ClientMoves
<1>41. CASE Bootout
  <2>1. stopped' = 0 /\ UNCHANGED owned
    BY <1>41, BusyClient DEF Bootout
  <2>2. /\ cli'.inc \in {0, cli.inc} /\ (cli'.pc = "read" => cli'.pid # 0)
        /\ cli'.pc \in {"status", "pid", "child", "plan", "read", "write", "shutdown"} => cli'.inc = 0
    BY <1>41, ClientGoes, OwnedFields, OwnerAssumption
       DEF Bootout, ClientInv, ClientSteps, Answering, TypeOK
  <2> QED BY <2>1, <2>2, ClientMoves
<1>42. CASE Gone
  <2>1. stopped' = 0 /\ UNCHANGED owned
    BY <1>42, BusyClient DEF Gone
  <2>2. /\ cli'.inc \in {0, cli.inc} /\ (cli'.pc = "read" => cli'.pid # 0)
        /\ cli'.pc \in {"status", "pid", "child", "plan", "read", "write", "shutdown"} => cli'.inc = 0
    BY <1>42, ClientGoes, OwnedFields, OwnerAssumption
       DEF Gone, ClientInv, ClientSteps, Answering, TypeOK
  <2> QED BY <2>1, <2>2, ClientMoves
<1>43. CASE Mark
  <2>1. stopped' = 0 /\ UNCHANGED owned
    BY <1>43, BusyClient DEF Mark
  <2>2. /\ cli'.inc \in {0, cli.inc} /\ (cli'.pc = "read" => cli'.pid # 0)
        /\ cli'.pc \in {"status", "pid", "child", "plan", "read", "write", "shutdown"} => cli'.inc = 0
    BY <1>43, ClientGoes, OwnedFields, OwnerAssumption
       DEF Mark, ClientInv, ClientSteps, Answering, TypeOK
  <2> QED BY <2>1, <2>2, ClientMoves
<1>44. CASE Bootstrap
  <2>1. stopped' = 0 /\ UNCHANGED owned
    BY <1>44, BusyClient DEF Bootstrap
  <2>2. /\ cli'.inc \in {0, cli.inc} /\ (cli'.pc = "read" => cli'.pid # 0)
        /\ cli'.pc \in {"status", "pid", "child", "plan", "read", "write", "shutdown"} => cli'.inc = 0
    BY <1>44, ClientGoes, OwnedFields, OwnerAssumption
       DEF Bootstrap, ClientInv, ClientSteps, Answering, TypeOK
  <2> QED BY <2>1, <2>2, ClientMoves
<1>45. CASE Ready
  <2>1. stopped' = 0 /\ UNCHANGED owned
    BY <1>45, BusyClient DEF Ready
  <2>2. /\ cli'.inc \in {0, cli.inc} /\ (cli'.pc = "read" => cli'.pid # 0)
        /\ cli'.pc \in {"status", "pid", "child", "plan", "read", "write", "shutdown"} => cli'.inc = 0
    BY <1>45, ClientGoes, OwnedFields, OwnerAssumption
       DEF Ready, ClientInv, ClientSteps, Answering, TypeOK
  <2> QED BY <2>1, <2>2, ClientMoves
<1>46. CASE NotReady
  <2>1. stopped' = 0 /\ UNCHANGED owned
    BY <1>46, BusyClient DEF NotReady
  <2>2. /\ cli'.inc \in {0, cli.inc} /\ (cli'.pc = "read" => cli'.pid # 0)
        /\ cli'.pc \in {"status", "pid", "child", "plan", "read", "write", "shutdown"} => cli'.inc = 0
    BY <1>46, ClientGoes, OwnedFields, OwnerAssumption
       DEF NotReady, ClientInv, ClientSteps, Answering, TypeOK
  <2> QED BY <2>1, <2>2, ClientMoves
<1>47. CASE Unmark
  <2>1. stopped' = 0 /\ UNCHANGED owned
    BY <1>47, BusyClient DEF Unmark
  <2>2. /\ cli'.inc \in {0, cli.inc} /\ (cli'.pc = "read" => cli'.pid # 0)
        /\ cli'.pc \in {"status", "pid", "child", "plan", "read", "write", "shutdown"} => cli'.inc = 0
    BY <1>47, ClientGoes, OwnedFields, OwnerAssumption
       DEF Unmark, ClientInv, ClientSteps, Answering, TypeOK
  <2> QED BY <2>1, <2>2, ClientMoves
<1>48. CASE Wakes
  <2>1. OwnerSame
    BY <1>48 DEF Wakes, OwnerSame, Awake, At, TypeOK, Owners
  <2> QED BY <1>48, <2>1, StopQuiet DEF Wakes, Fault, GensKept
<1>49. CASE SpawnFails
  <2>1. OwnerSame
    BY <1>49 DEF SpawnFails, OwnerSame, Awake, At, TypeOK, Owners
  <2> QED BY <1>49, <2>1, StopQuiet DEF SpawnFails, Fault, GensKept
<1>50. CASE OwnerDies
  <2>1. GensKept
    <3>1. CASE UNCHANGED <<sup, lock>>
      BY <3>1 DEF GensKept
    <3>2. CASE owner.child \in Pids /\ Killed(owner.child)
      BY <3>2, EndsGens
    <3>3. CASE owner.child \in Pids /\ Becomes(owner.child, [sup[owner.child] EXCEPT !.eof = TRUE])
      BY <3>3, EditsGens
    <3> QED BY <1>50, <3>1, <3>2, <3>3, OwnerFields DEF OwnerDies, TypeOK
  <2> QED BY <1>50, <2>1, StopDown DEF OwnerDies
<1>51. CASE BootedOut
  <2>1. OwnerSame \/ UNCHANGED owner
    BY <1>51 DEF BootedOut, Unload, OwnerSame, At, TypeOK, Owners
  <2> QED BY <1>51, <2>1, StopQuiet DEF BootedOut, Fault, GensKept
<1> QED
  BY <1>0, <1>1, <1>2, <1>3, <1>4, <1>5, <1>6, <1>7, <1>8, <1>9, <1>10, <1>11, <1>12,
     <1>13, <1>14, <1>15, <1>16, <1>17, <1>18, <1>19, <1>20, <1>21, <1>22, <1>23, <1>24,
     <1>25, <1>26, <1>27, <1>28, <1>29, <1>30, <1>31, <1>32, <1>33, <1>34, <1>35, <1>36,
     <1>37, <1>38, <1>39, <1>40, <1>41, <1>42, <1>43, <1>44, <1>45, <1>46, <1>47, <1>48,
     <1>49, <1>50, <1>51 DEF Next, Process, OwnerStep, ClientStep

\* When a shutdown without force has stopped the child it named, the child's owner starts no
\* other until the next command, however the child ended (watch_managed, 6558).
THEOREM StopHoldsHolds == Spec => StopHolds
<1> DEFINE Inv == TypeInv /\ RunInv /\ GensInv /\ FileInv /\ ClientInv /\ StopInv
<1>1. Init => GensInv /\ FileInv /\ ClientInv /\ StopInv
  <2> SUFFICES ASSUME Init PROVE GensInv /\ FileInv /\ ClientInv /\ StopInv
    OBVIOUS
  <2>1. /\ owner.pc = "down" /\ owner.inc = 0 /\ owner.child = 0 /\ owner.gen = 0 /\ ~owner.clear
        /\ owned.inc = 0 /\ owned.child = 0 /\ owned.gen = 0 /\ gens = 0 /\ stopped = 0
    BY DEF Init, Down
  <2>2. cli.pc = "none" /\ cli.inc = 0 /\ cli.gen = 0
    BY IdleFields DEF Init
  <2>3. \A p \in Pids : sup[p].gen = 0
    BY StartedFields DEF Init, Dead
  <2> QED BY <2>1, <2>2, <2>3 DEF GensInv, FileInv, ClientInv, StopInv, Up, At, Stops, Stands
<1>2. Inv /\ [Next]_vars => Inv'
  BY TypeStep, RunStep, FilesStep, StopStep
<1>3. Inv /\ [Next]_vars => [stopped # 0 /\ stopped = owner.inc => gens' = gens]_vars
  <2> SUFFICES ASSUME StopInv, Next, stopped # 0, stopped = owner.inc PROVE gens' = gens
    BY DEF vars, kernel
  <2>1. NamesOwner
    BY DEF StopInv, Asked, NamesOwner
  <2>2. ~Spawn
    BY <2>1 DEF Spawn, MaySpawn
  <2> QED BY <2>2 DEF Next, Process, OwnerStep, ClientStep, kernel, Check, Boot, PipeClosed,
     Exit, EndRun, BeginRun, Crash, Hang, Recover, LaunchOwner, ForcedOut, Reap, Unlist,
     StopChild, Drained, Probe, ProbeSucceeds, ProbeFails, Leave, List, TimePasses, Begin,
     ClientDies, Ask, Serve, Await, Status, LockedPid, PublishedChild, Read, Write, Shutdown,
     Released, Sigterm, Kill, Plan, StopIdle, StopReleased, StopTimesOut, Bootout, Gone, Mark,
     Bootstrap, Ready, NotReady, Unmark, Wakes, SpawnFails, OwnerDies, BootedOut
<1> QED BY <1>1, <1>2, <1>3, TypeInit, RunInit, PTL DEF Spec, StopHolds
=============================================================================
