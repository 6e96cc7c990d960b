-------------------------- MODULE SlotAndLeaseProofs --------------------------
(***************************************************************************)
(* That what is admitted is alone, for the two that admit: the run slot of *)
(* the supervisor, and the lease of a step in a session of the extension.  *)
(* They share no state, and each theorem is about one of them.             *)
(*                                                                         *)
(* RunSlot: types, and its safety for any runs, clients and bounds;        *)
(* SlotInv is inductive and implies the three invariants.                  *)
(*                                                                         *)
(* BrokerLease: types, answers, the one current step and the tabs of the   *)
(* session, for any requests, tabs, ports and faults.                      *)
(***************************************************************************)
EXTENDS RunSlot, BrokerLease, FiniteSetTheorems, TLAPS

-----------------------------------------------------------------------------
(* The run slot.                                                           *)

\* No run is the absent one, and none is both local and of a CLI.
LEMMA RunsAndNil == Nil \notin Runs /\ LocalRuns \cap CliRuns = {}
  BY RunsAssumption DEF Runs

\* The type invariant is preserved by every step: flags, phases, files in flight.
THEOREM SlotTypeCorrect == Spec => []TypeOK
<1>1. Init => TypeOK
  <2> SUFFICES ASSUME Init PROVE TypeOK
    OBVIOUS
  <2>1. calls \in [Clients -> CallType]
    BY DEF Init, IdleCall, CallType, Contents
  <2> QED BY <2>1 DEF Init, TypeOK, Phases, Contents
<1>2. TypeOK /\ [Next]_vars => TypeOK'
  <2> SUFFICES ASSUME TypeOK, [Next]_vars PROVE TypeOK'
    OBVIOUS
  <2> USE DEF TypeOK, Phases
  <2>0. CASE UNCHANGED vars
    BY <2>0 DEF vars, control, pausing, actors
  <2>1. ASSUME NEW r \in Runs, Ask(r) PROVE TypeOK'
    BY <2>1 DEF Ask, control, pausing
  <2>2. ASSUME NEW r \in Runs, Begin(r) PROVE TypeOK'
    BY <2>2 DEF Begin, Enter, pausing
  <2>3. ASSUME NEW r \in Runs, SeeCancel(r) PROVE TypeOK'
    BY <2>3 DEF SeeCancel, control, pausing
  <2>4. ASSUME NEW r \in LocalRuns, FinishLocal(r) PROVE TypeOK'
    BY <2>4 DEF FinishLocal, Leave, pausing, Runs
  <2>5. ASSUME NEW r \in CliRuns, FinishCli(r) PROVE TypeOK'
    BY <2>5 DEF FinishCli, control, pausing, Runs
  <2>6. ASSUME NEW r \in CliRuns, Release(r) PROVE TypeOK'
    BY <2>6 DEF Release, Leave, pausing
  <2>7. ASSUME NEW r \in CliRuns, ExitCli(r) PROVE TypeOK'
    BY <2>7 DEF ExitCli, control, pausing, Runs
  <2>8. ASSUME NEW r \in CliRuns, ReusePid(r) PROVE TypeOK'
    BY <2>8 DEF ReusePid, control, pausing
  <2>9. ASSUME NEW r \in Runs \cup {Nil}, CancelRun(r) PROVE TypeOK'
    <3>1. running \in Runs
      BY <2>9 DEF CancelRun
    <3> QED BY <2>9, <3>1 DEF CancelRun, pausing, actors
  <2>10. ASSUME NEW c \in Clients, NEW withCancel \in BOOLEAN, Pause(c, withCancel) PROVE TypeOK'
    <3>1. calls' \in [Clients -> CallType]
      BY <2>10 DEF Pause, Called, CallType
    <3> QED BY <2>10, <3>1 DEF Pause, Called, SetPaused, actors
  <2>11. ASSUME NEW c \in Clients, Resume(c) PROVE TypeOK'
    <3>1. calls' \in [Clients -> CallType]
      BY <2>11 DEF Resume, Called, CallType
    <3>2. paused' \in BOOLEAN
      BY <2>11, Zenon DEF Resume
    <3>3. ncalls' = ncalls + 1
          /\ UNCHANGED <<up, boot, quiesced, running, file, actors, cancel, targeted>>
      BY <2>11, Zenon DEF Resume, Called
    <3> QED BY <3>1, <3>2, <3>3 DEF actors
  <2>12. ASSUME NEW c \in Clients, PersistRead(c) PROVE TypeOK'
    <3>1. calls' \in [Clients -> CallType]
      BY <2>12 DEF PersistRead, CallType, Contents
    <3> QED BY <2>12, <3>1 DEF PersistRead, control, actors
  <2>13. ASSUME NEW c \in Clients, PersistTruncate(c) PROVE TypeOK'
    <3>1. calls' \in [Clients -> CallType]
      BY <2>13 DEF PersistTruncate, CallType
    <3> QED BY <2>13, <3>1 DEF PersistTruncate, Contents, control, actors
  <2>14. ASSUME NEW c \in Clients, PersistWrite(c) PROVE TypeOK'
    <3>1. calls' \in [Clients -> CallType] /\ file' \in Contents
      BY <2>14 DEF PersistWrite, CallType, Contents, IdleCall
    <3> QED BY <2>14, <3>1 DEF PersistWrite, control, actors
  <2>15. CASE Quiesce
    BY <2>15 DEF Quiesce, pausing, actors
  <2>16. CASE Start
    <3>1. paused' \in BOOLEAN
      BY <2>16, Zenon DEF Start
    <3>2. up' \in BOOLEAN /\ cancel' \in BOOLEAN /\ quiesced' \in BOOLEAN
      BY <2>16, Zenon DEF Start
    <3>3. boot' = boot + 1 /\ running' = Nil /\ UNCHANGED <<pausing, actors, targeted>>
      BY <2>16, Zenon DEF Start
    <3> QED BY <3>1, <3>2, <3>3 DEF pausing, actors
  <2>17. CASE Stop
    <3>1. calls' \in [Clients -> CallType]
      BY <2>17 DEF Stop, CallType, Contents, IdleCall
    <3> QED BY <2>17, <3>1 DEF Stop, control
  <2> QED
    BY <2>0, <2>1, <2>2, <2>3, <2>4, <2>5, <2>6, <2>7, <2>8, <2>9, <2>10, <2>11, <2>12,
       <2>13, <2>14, <2>15, <2>16, <2>17 DEF Next
<1> QED
  BY <1>1, <1>2, PTL DEF Spec

-----------------------------------------------------------------------------
\* A release on its way belongs to a run that is over.
ReleasesAreStale == \A r \in releases : phase[r] \in {"releasing", "done"}

\* Claims date from this supervisor or an earlier one; a local run from this one.
ClaimsAreDated ==
  \A r \in Runs : phase[r] = "active" =>
    claimedIn[r] <= boot /\ (r \in LocalRuns => up /\ claimedIn[r] = boot)

\* While the flag is set, whoever holds the slot was the target of a cancellation.
FlagHasTarget == up /\ cancel /\ running # Nil => running \in targeted

QuiescedIsEmpty == up /\ quiesced => running = Nil

\* The inductive invariant.  SlotIsExclusive alone is not: a late release could free
\* a live run's slot, and the flag of a reclaimed run could stop its successor.
SlotInv ==
  /\ SlotIsExclusive /\ StopsOnlyItsTarget
  /\ ReleasesAreStale /\ ClaimsAreDated /\ FlagHasTarget /\ QuiescedIsEmpty

USE DEF Runs

\* Not busy: no live run claimed the slot from this supervisor.
LEMMA IdleSlot ==
  ASSUME TypeOK, SlotInv, up, ~Busy, NEW q \in Runs, phase[q] = "active", claimedIn[q] = boot
  PROVE FALSE
  BY RunsAndNil DEF SlotInv, SlotIsExclusive, Busy, OwnerIsLive, TypeOK

\* Every step preserves the invariant.
LEMMA SlotInvStep == TypeOK /\ SlotInv /\ [Next]_vars => SlotInv'
<1> SUFFICES ASSUME TypeOK, SlotInv, [Next]_vars PROVE SlotInv'
  OBVIOUS
<1> USE DEF SlotInv, SlotIsExclusive, StopsOnlyItsTarget, ReleasesAreStale, ClaimsAreDated,
            FlagHasTarget, QuiescedIsEmpty
<1>0. CASE UNCHANGED vars
  BY <1>0 DEF vars, control, pausing, actors
<1>1. ASSUME NEW r \in Runs, Ask(r) PROVE SlotInv'
  BY <1>1 DEF Ask, control, pausing, TypeOK
<1>2. ASSUME NEW r \in Runs, Begin(r) PROVE SlotInv'
  <2>1. CASE quiesced \/ Busy
    BY <1>2, <2>1 DEF Begin, pausing, TypeOK
  <2>2. CASE ~(quiesced \/ Busy)
    <3>1. /\ up /\ up' /\ boot' = boot /\ running' = r /\ ~cancel' /\ ~quiesced'
          /\ phase' = [phase EXCEPT ![r] = "active"]
          /\ claimedIn' = [claimedIn EXCEPT ![r] = boot]
          /\ phase[r] = "admitted"
          /\ UNCHANGED <<stopped, releases, targeted>>
      BY <1>2, <2>2 DEF Begin, Enter
    <3>2. SlotIsExclusive'
      <4> SUFFICES ASSUME NEW q \in Runs, phase'[q] = "active", claimedIn'[q] = boot, q # r
                   PROVE FALSE
        BY <3>1 DEF SlotIsExclusive
      <4>1. phase[q] = "active" /\ claimedIn[q] = boot
        BY <3>1 DEF TypeOK
      <4> QED BY <2>2, <3>1, <4>1, IdleSlot
    <3>3. ReleasesAreStale'
      BY <3>1 DEF TypeOK
    <3>4. ClaimsAreDated'
      BY <3>1 DEF TypeOK
    <3> QED BY <3>1, <3>2, <3>3, <3>4
  <2> QED BY <2>1, <2>2
<1>3. ASSUME NEW r \in Runs, SeeCancel(r) PROVE SlotInv'
  <2>1. r \in targeted
    BY <1>3, RunsAndNil DEF SeeCancel, CancelledFor
  <2> QED BY <1>3, <2>1 DEF SeeCancel, control, pausing
<1>4. ASSUME NEW r \in LocalRuns, FinishLocal(r) PROVE SlotInv'
  BY <1>4 DEF FinishLocal, Leave, pausing, TypeOK
<1>5. ASSUME NEW r \in CliRuns, FinishCli(r) PROVE SlotInv'
  BY <1>5 DEF FinishCli, control, pausing, TypeOK
<1>6. ASSUME NEW r \in CliRuns, Release(r) PROVE SlotInv'
  BY <1>6 DEF Release, Leave, pausing, TypeOK
<1>7. ASSUME NEW r \in CliRuns, ExitCli(r) PROVE SlotInv'
  BY <1>7 DEF ExitCli, control, pausing, TypeOK
<1>8. ASSUME NEW r \in CliRuns, ReusePid(r) PROVE SlotInv'
  BY <1>8 DEF ReusePid, control, pausing
<1>9. ASSUME NEW r \in Runs \cup {Nil}, CancelRun(r) PROVE SlotInv'
  BY <1>9 DEF CancelRun, pausing, actors
<1>10. ASSUME NEW c \in Clients, NEW withCancel \in BOOLEAN, Pause(c, withCancel) PROVE SlotInv'
  BY <1>10 DEF Pause, Called, SetPaused, actors
<1>11. ASSUME NEW c \in Clients, Resume(c) PROVE SlotInv'
  BY <1>11 DEF Resume, Called, actors
<1>12. ASSUME NEW c \in Clients, PersistRead(c) PROVE SlotInv'
  BY <1>12 DEF PersistRead, control, actors
<1>13. ASSUME NEW c \in Clients, PersistTruncate(c) PROVE SlotInv'
  BY <1>13 DEF PersistTruncate, Contents, control, actors
<1>14. ASSUME NEW c \in Clients, PersistWrite(c) PROVE SlotInv'
  BY <1>14 DEF PersistWrite, control, actors
<1>15. CASE Quiesce
  <2>1. /\ up /\ up' /\ ~Busy /\ running' = Nil
        /\ UNCHANGED <<boot, cancel, phase, claimedIn, stopped, releases, targeted>>
    BY <1>15 DEF Quiesce, Quiesces, actors
  <2>2. SlotIsExclusive'
    BY <2>1, IdleSlot
  <2> QED BY <2>1, <2>2
<1>16. CASE Start
  BY <1>16 DEF Start, pausing, actors, TypeOK
<1>17. CASE Stop
  BY <1>17 DEF Stop, control, TypeOK
<1> QED
  BY <1>0, <1>1, <1>2, <1>3, <1>4, <1>5, <1>6, <1>7, <1>8, <1>9, <1>10, <1>11, <1>12,
     <1>13, <1>14, <1>15, <1>16, <1>17 DEF Next

\* SlotInv holds in every reachable state.
THEOREM SlotInvHolds == Spec => []SlotInv
<1>1. Init => SlotInv
  BY DEF Init, SlotInv, SlotIsExclusive, StopsOnlyItsTarget, ReleasesAreStale, ClaimsAreDated,
         FlagHasTarget, QuiescedIsEmpty
<1> QED
  BY <1>1, SlotTypeCorrect, SlotInvStep, PTL DEF Spec

\* A live run that claimed the slot of this supervisor holds it (try_begin_run_owned,
\* end_run_if).
THEOREM SlotIsExclusiveHolds == Spec => []SlotIsExclusive
<1>1. SlotInv => SlotIsExclusive
  BY DEF SlotInv
<1> QED BY <1>1, SlotInvHolds, PTL

\* Only the target of a cancellation is stopped by it (cancel, cancel_requested_for).
THEOREM StopsOnlyItsTargetHolds == Spec => []StopsOnlyItsTarget
<1>1. SlotInv => StopsOnlyItsTarget
  BY DEF SlotInv
<1> QED BY <1>1, SlotInvHolds, PTL

\* A quiesced supervisor has no live run of its own (quiesce_if_idle).
THEOREM ShutdownSparesRunsHolds == Spec => []ShutdownSparesRuns
<1>1. SlotInv => ShutdownSparesRuns
  BY RunsAndNil DEF SlotInv, SlotIsExclusive, QuiescedIsEmpty, ShutdownSparesRuns
<1> QED BY <1>1, SlotInvHolds, PTL

-----------------------------------------------------------------------------
(* The leases of a session: types.                                         *)

\* Where a request waits or works.
LEMMA PhaseFacts ==
  /\ Running \subseteq LeasePhases
  /\ "new" \in LeasePhases \ Running /\ "queued" \in LeasePhases \ Running /\ "over" \in LeasePhases \ Running
  /\ {"loading", "creating", "guarded", "unguarded", "disposing"} = Running
  BY DEF LeasePhases, Running

\* What Behind leaves of a queue: all of it, or all but its head.
LEMMA BehindFacts ==
  ASSUME NEW S, NEW queue \in Seq(S), NEW r
  PROVE  /\ Behind(queue, r) \in Seq(S)
         /\ queue # <<>> /\ queue[1] = r =>
              /\ Len(Behind(queue, r)) = Len(queue) - 1
              /\ \A i \in 1..Len(Behind(queue, r)) : Behind(queue, r)[i] = queue[i + 1]
         /\ ~(queue # <<>> /\ queue[1] = r) => Behind(queue, r) = queue
  BY DEF Behind

\* Ports and epochs that a step may set.
LEMMA LeaseNumbers ==
  ASSUME LeaseTypeOK
  PROVE  /\ OfPort \subseteq Requests /\ Cardinality(OfPort) \in Nat
         /\ port \in Nat /\ MaxPort \in Nat /\ session.epoch \in Nat
         /\ session.tab \in Tabs \cup {None}
         /\ \A n \in Nat : [session EXCEPT !.epoch = @ + n] \in [epoch : Nat, tab : Tabs \cup {None}]
<1>1. IsFiniteSet(OfPort)
  BY FS_Subset, LeaseAssumption DEF OfPort
<1>2. \A n \in Nat : [session EXCEPT !.epoch = @ + n] \in [epoch : Nat, tab : Tabs \cup {None}]
  <2>1. session.epoch \in Nat /\ session \in [epoch : Nat, tab : Tabs \cup {None}]
    BY DEF LeaseTypeOK
  <2>2. \A n \in Nat : session.epoch + n \in Nat
    BY <2>1
  <2> QED BY <2>1, <2>2
<1>3. OfPort \subseteq Requests /\ Cardinality(OfPort) \in Nat
  BY <1>1, FS_CardinalityType DEF OfPort
<1> QED BY <1>2, <1>3, LeaseAssumption DEF LeaseTypeOK

\* The fields of a lease, and what may be put into them.
LEMMA LeaseFields ==
  ASSUME LeaseTypeOK, NEW r \in Requests
  PROVE  /\ lease[r] \in Leases
         /\ lease[r].phase \in LeasePhases /\ lease[r].port \in 0..MaxPort /\ lease[r].epoch \in Nat
         /\ lease[r].cancelled \in BOOLEAN /\ lease[r].timedOut \in BOOLEAN
         /\ lease[r].tab \in Tabs \cup {None}
         /\ \A p \in LeasePhases : [lease[r] EXCEPT !.phase = p] \in Leases
  BY DEF LeaseTypeOK, Leases

\* What the steps make of a lease.
LEMMA LeaseUpdates ==
  ASSUME LeaseTypeOK, NEW r \in Requests
  PROVE  /\ \A p \in LeasePhases, n \in 0..MaxPort : [lease[r] EXCEPT !.phase = p, !.port = n] \in Leases
         /\ \A p \in LeasePhases, n \in Nat : [lease[r] EXCEPT !.phase = p, !.epoch = n] \in Leases
         /\ \A p \in LeasePhases, t \in Tabs \cup {None} : [lease[r] EXCEPT !.phase = p, !.tab = t] \in Leases
         /\ [lease[r] EXCEPT !.cancelled = TRUE] \in Leases
         /\ [lease[r] EXCEPT !.cancelled = TRUE, !.timedOut = TRUE] \in Leases
         /\ [lease[r] EXCEPT !.cancelled = @ \/ r \in OfPort] \in Leases
         /\ [lease[r] EXCEPT !.cancelled = @ \/ Registered(r)] \in Leases
<1>1. lease[r] \in Leases
  BY LeaseFields
<1>2. \A p \in LeasePhases, n \in 0..MaxPort : [lease[r] EXCEPT !.phase = p, !.port = n] \in Leases
  BY <1>1 DEF Leases
<1>3. \A p \in LeasePhases, n \in Nat : [lease[r] EXCEPT !.phase = p, !.epoch = n] \in Leases
  BY <1>1 DEF Leases
<1>4. \A p \in LeasePhases, t \in Tabs \cup {None} : [lease[r] EXCEPT !.phase = p, !.tab = t] \in Leases
  BY <1>1 DEF Leases
<1>5. [lease[r] EXCEPT !.cancelled = TRUE] \in Leases
  BY <1>1 DEF Leases
<1>6. [lease[r] EXCEPT !.cancelled = TRUE, !.timedOut = TRUE] \in Leases
  BY <1>1 DEF Leases
<1>7. [lease[r] EXCEPT !.cancelled = @ \/ r \in OfPort] \in Leases
  BY <1>1 DEF Leases
<1>8. [lease[r] EXCEPT !.cancelled = @ \/ Registered(r)] \in Leases
  BY <1>1 DEF Leases
<1> QED BY <1>2, <1>3, <1>4, <1>5, <1>6, <1>7, <1>8

\* The handler's end keeps the types.
LEMMA EndsTypes ==
  ASSUME LeaseTypeOK, NEW r \in Requests, EndsWithAnswer(r)
  PROVE  /\ lease' \in [Requests -> Leases]
         /\ fifo' \in Seq(Steps) /\ forsaken' \in Seq(Steps)
         /\ answers' \in [Requests -> Seq(0..MaxPort)]
<1>1. [lease[r] EXCEPT !.phase = "over", !.epoch = 0, !.tab = None, !.keep = FALSE] \in Leases
  BY LeaseFields, PhaseFacts DEF Leases
<1>2. lease' \in [Requests -> Leases]
  BY <1>1 DEF LeaseTypeOK, EndsWithAnswer
<1>3. fifo' \in Seq(Steps) /\ forsaken' \in Seq(Steps)
  BY BehindFacts DEF LeaseTypeOK, EndsWithAnswer
<1>4. answers' \in [Requests -> Seq(0..MaxPort)]
  BY DEF LeaseTypeOK, EndsWithAnswer, Answered
<1> QED BY <1>2, <1>3, <1>4

\* Tabs that somebody knows have been opened.
TabsKnown ==
  /\ session.tab \in opened \cup {None}
  /\ \A r \in Requests : made[r] \in opened \cup {None}
  /\ ~loaded => Stored \in opened \cup {None}

LeaseTypeInv == LeaseTypeOK /\ TabsKnown

\* The types are preserved by every step: leases, queues, tabs, answers.
LEMMA LeaseTypeStep == LeaseTypeInv /\ [LeaseNext]_leaseVars => LeaseTypeInv'
<1> SUFFICES ASSUME LeaseTypeInv, [LeaseNext]_leaseVars PROVE LeaseTypeInv'
  OBVIOUS
<1> USE DEF LeaseTypeInv, LeaseTypeOK, TabsKnown, chrome, tabs
<1>0. CASE UNCHANGED leaseVars
  BY <1>0 DEF leaseVars
<1>1. CASE Connect
  BY <1>1, LeaseAssumption DEF Connect
<1>2. CASE Disconnect
  <2>1. session' \in [epoch : Nat, tab : Tabs \cup {None}] /\ session'.tab = session.tab
    <3> HIDE DEF OfPort
    <3>1. session' = [session EXCEPT !.epoch = @ + Cardinality(OfPort)]
      BY <1>2 DEF Disconnect
    <3> QED BY <3>1, LeaseNumbers
  <2>2. lease' \in [Requests -> Leases]
    <3>1. \A r \in Requests : [lease[r] EXCEPT !.cancelled = @ \/ r \in OfPort] \in Leases
      BY LeaseUpdates
    <3> QED BY <1>2, <3>1 DEF Disconnect
  <2>3. port' \in 0..MaxPort /\ faults' \in 0..MaxFaults
    BY <1>2, LeaseAssumption DEF Disconnect, Fault
  <2> QED BY <1>2, <2>1, <2>2, <2>3 DEF Disconnect
<1>3. CASE Load
  <2>1. session' \in [epoch : Nat, tab : Tabs \cup {None}] /\ session'.tab \in opened \cup {None}
    BY <1>3, LeaseAssumption DEF Load
  <2>2. fifo' \in Seq(Steps) /\ forsaken' \in Seq(Steps)
    <3>1. \/ fifo' = fifo /\ forsaken' = forsaken
          \/ forsaken' = fifo /\ fifo' = <<>>
      BY <1>3 DEF Load
    <3>2. <<>> \in Seq(Steps) /\ fifo \in Seq(Steps) /\ forsaken \in Seq(Steps)
      OBVIOUS
    <3> QED BY <3>1, <3>2, Zenon
  <2> QED BY <1>3, <2>1, <2>2 DEF Load
<1>4. CASE Prune
  BY <1>4 DEF Prune
<1>5. ASSUME NEW r \in Requests, Deliver(r) PROVE LeaseTypeInv'
  <2>1. [lease[r] EXCEPT !.phase = "queued", !.port = port] \in Leases
    BY PhaseFacts, LeaseUpdates
  <2> QED BY <1>5, <2>1 DEF Deliver
<1>6. ASSUME NEW r \in Requests, DeliverClose(r) PROVE LeaseTypeInv'
  <2>1. PICK keep \in BOOLEAN :
          lease' = [q \in Requests |->
                     IF q = r THEN [lease[q] EXCEPT !.phase = "loading", !.port = port,
                                                    !.epoch = session.epoch + 1, !.keep = keep]
                     ELSE [lease[q] EXCEPT !.cancelled = @ \/ Registered(q)]]
    BY <1>6 DEF DeliverClose
  <2>2. [lease[r] EXCEPT !.phase = "loading", !.port = port, !.epoch = session.epoch + 1, !.keep = keep] \in Leases
    <3>1. session.epoch + 1 \in Nat /\ port \in 0..MaxPort /\ "loading" \in LeasePhases
      BY PhaseFacts, LeaseNumbers
    <3>2. lease[r] \in Leases
      OBVIOUS
    <3> HIDE DEF LeaseTypeOK
    <3> QED BY <3>1, <3>2 DEF Leases
  <2>3. \A q \in Requests : [lease[q] EXCEPT !.cancelled = @ \/ Registered(q)] \in Leases
    BY LeaseUpdates
  <2>4. lease' \in [Requests -> Leases]
    BY <2>1, <2>2, <2>3
  <2>5. session' \in [epoch : Nat, tab : Tabs \cup {None}] /\ session'.tab = session.tab
    BY <1>6, LeaseNumbers DEF DeliverClose
  <2> QED BY <1>6, <2>4, <2>5 DEF DeliverClose
<1>7. ASSUME NEW r \in Requests, CancelRequest(r) PROVE LeaseTypeInv'
  <2>1. [lease[r] EXCEPT !.cancelled = TRUE] \in Leases
    BY LeaseUpdates
  <2> QED BY <1>7, <2>1, LeaseAssumption DEF CancelRequest, Fault
<1>8. ASSUME NEW r \in Requests, Drop(r) \/ EndsStale(r) \/ Unwind(r) \/ CloseReturns(r) \/ WorkReturns(r)
      PROVE LeaseTypeInv'
  <2>1. EndsWithAnswer(r) /\ UNCHANGED <<port, loaded, session, quarantine, chrome>>
    BY <1>8 DEF Drop, EndsStale, Unwind, CloseReturns, WorkReturns
  <2> QED BY <2>1, EndsTypes
<1>9. ASSUME NEW r \in Requests, TakesTurn(r) PROVE LeaseTypeInv'
  <2>1. [lease[r] EXCEPT !.phase = "loading", !.epoch = session.epoch] \in Leases
    BY PhaseFacts, LeaseUpdates
  <2> QED BY <1>9, <2>1 DEF TakesTurn
<1>10. ASSUME NEW r \in Requests, Loaded(r) PROVE LeaseTypeInv'
  <2>1. PICK next \in {"creating", "guarded", "unguarded"} :
          /\ lease' = [lease EXCEPT ![r].phase = next]
          /\ asked' = IF next = "creating" THEN asked \cup {r} ELSE asked
    BY <1>10 DEF Loaded
  <2>2. [lease[r] EXCEPT !.phase = next] \in Leases
    BY PhaseFacts, LeaseFields
  <2> QED BY <1>10, <2>1, <2>2 DEF Loaded
<1>11. ASSUME NEW r \in Requests, CreateReturns(r) PROVE LeaseTypeInv'
  <2>1. /\ made' \in [Requests -> Tabs \cup {None}] /\ \A q \in Requests : made'[q] \in opened \cup {None}
        /\ UNCHANGED <<asked, opened, closed, retained, faults, removing, port, loaded, quarantine>>
    BY <1>11 DEF CreateReturns, Seen
  <2>2. CASE Current(r)
    <3>1. PICK next \in {"guarded", "unguarded"} : lease' = [lease EXCEPT ![r].phase = next]
      BY <1>11, <2>2 DEF CreateReturns
    <3>2. [lease[r] EXCEPT !.phase = next] \in Leases
      BY PhaseFacts, LeaseFields
    <3>3. session' \in [epoch : Nat, tab : Tabs \cup {None}] /\ session'.tab \in opened \cup {None}
      BY <1>11, <2>2 DEF CreateReturns
    <3>4. UNCHANGED <<fifo, forsaken, answers>>
      BY <1>11, <2>2 DEF CreateReturns
    <3> QED BY <2>1, <3>1, <3>2, <3>3, <3>4
  <2>3. CASE ~Current(r)
    BY <1>11, <2>1, <2>3, EndsTypes DEF CreateReturns
  <2> QED BY <2>2, <2>3
<1>12. ASSUME NEW r \in Requests, CreateReturnsLate(r) PROVE LeaseTypeInv'
  <2>1. removing' \subseteq opened
    BY <1>12, LeaseAssumption DEF CreateReturnsLate, Late
  <2> QED BY <1>12, <2>1 DEF CreateReturnsLate, Seen
<1>13. ASSUME NEW r \in Requests, CloseAtOnce(r) PROVE LeaseTypeInv'
  <2>1. session' \in [epoch : Nat, tab : Tabs \cup {None}] /\ session'.tab = None
    BY <1>13 DEF CloseAtOnce, Forget
  <2> QED BY <1>13, <2>1, EndsTypes DEF CloseAtOnce
<1>14. ASSUME NEW r \in Requests, CloseTab(r) PROVE LeaseTypeInv'
  <2>1. session' \in [epoch : Nat, tab : Tabs \cup {None}] /\ session'.tab = None
    BY <1>14 DEF CloseTab, Forget
  <2>2. [lease[r] EXCEPT !.phase = "disposing", !.tab = session.tab] \in Leases
    BY PhaseFacts, LeaseUpdates
  <2> QED BY <1>14, <2>1, <2>2 DEF CloseTab
<1>15. ASSUME NEW r \in Requests, ChromeCreates(r) PROVE LeaseTypeInv'
  <2>1. PICK t \in Tabs \ opened : made' = [made EXCEPT ![r] = t] /\ opened' = opened \cup {t}
    BY <1>15 DEF ChromeCreates
  <2>2. /\ asked' = asked \ {r}
        /\ UNCHANGED <<port, loaded, session, fifo, forsaken, lease, quarantine, closed, removing,
                       retained, faults, answers>>
    BY <1>15 DEF ChromeCreates
  <2>3. made' \in [Requests -> Tabs \cup {None}] /\ \A q \in Requests : made'[q] \in opened' \cup {None}
    BY <2>1
  <2> QED BY <2>1, <2>2, <2>3
<1>16. ASSUME NEW r \in Requests, Watchdog(r) PROVE LeaseTypeInv'
  <2>1. answers' \in [Requests -> Seq(0..MaxPort)]
    BY <1>16 DEF Watchdog, Answered
  <2>2. fifo' \in Seq(Steps) /\ forsaken' \in Seq(Steps)
    BY <1>16, BehindFacts DEF Watchdog, Passes
  <2>3. [lease[r] EXCEPT !.cancelled = TRUE, !.timedOut = TRUE] \in Leases
    BY LeaseUpdates
  <2>4. session' \in [epoch : Nat, tab : Tabs \cup {None}] /\ session'.tab = session.tab
    BY <1>16, LeaseNumbers DEF Watchdog, Fence
  <2> QED BY <1>16, <2>1, <2>2, <2>3, <2>4 DEF Watchdog, Fence
<1>17. ASSUME NEW r \in Requests, QuarantineDisposes(r) PROVE LeaseTypeInv'
  <2>1. session' \in [epoch : Nat, tab : Tabs \cup {None}] /\ session'.tab = None
    BY <1>17 DEF QuarantineDisposes, Forget
  <2> QED BY <1>17, <2>1 DEF QuarantineDisposes
<1>18. ASSUME NEW t \in Tabs, ChromeCloses(t) \/ UserCloses(t) PROVE LeaseTypeInv'
  <2>1. session' \in [epoch : Nat, tab : Tabs \cup {None}] /\ session'.tab \in {session.tab, None}
    BY <1>18 DEF ChromeCloses, UserCloses, Unbound
  <2>2. faults' \in 0..MaxFaults
    BY <1>18, LeaseAssumption DEF ChromeCloses, UserCloses, Fault
  <2> QED BY <1>18, <2>1, <2>2 DEF ChromeCloses, UserCloses, Open
<1> QED
  BY <1>0, <1>1, <1>2, <1>3, <1>4, <1>5, <1>6, <1>7, <1>8, <1>9, <1>10, <1>11, <1>12,
     <1>13, <1>14, <1>15, <1>16, <1>17, <1>18 DEF LeaseNext, Handler

\* The types hold at the start.
LEMMA LeaseTypeInit == LeaseInit => LeaseTypeInv
<1> SUFFICES ASSUME LeaseInit PROVE LeaseTypeInv
  OBVIOUS
<1>1. lease \in [Requests -> Leases]
  BY PhaseFacts, LeaseAssumption DEF LeaseInit, Leases
<1>2. 1 \in Tabs /\ 1 # None
  BY LeaseAssumption DEF Tabs
<1>3. session \in [epoch : Nat, tab : Tabs \cup {None}] /\ session.tab = IF loaded THEN 1 ELSE None
  BY <1>2 DEF LeaseInit
<1>4. /\ opened \subseteq Tabs /\ session.tab \in opened \cup {None}
      /\ ~loaded => Stored \in opened \cup {None}
  BY <1>2, <1>3, LeaseAssumption DEF LeaseInit
<1>5. 1 \in 0..MaxPort /\ 0 \in 0..MaxFaults
  BY LeaseAssumption
<1>6. fifo \in Seq(Steps) /\ forsaken \in Seq(Steps) /\ answers \in [Requests -> Seq(0..MaxPort)]
  BY DEF LeaseInit
<1>7. made \in [Requests -> Tabs \cup {None}] /\ \A r \in Requests : made[r] = None
  BY DEF LeaseInit
<1>8. /\ port \in 0..MaxPort /\ faults \in 0..MaxFaults /\ loaded \in BOOLEAN
      /\ quarantine = {} /\ asked = {} /\ closed = {} /\ removing = {} /\ retained = {}
  BY <1>5 DEF LeaseInit
<1> QED BY <1>1, <1>3, <1>4, <1>6, <1>7, <1>8 DEF LeaseTypeInv, LeaseTypeOK, TabsKnown

\* Leases, queues, tabs and answers keep their types, and no tab is known before it was opened.
THEOREM LeaseTypeCorrect == LeaseSpec => []LeaseTypeInv
  BY LeaseTypeInit, LeaseTypeStep, PTL DEF LeaseSpec

-----------------------------------------------------------------------------
(* The FIFO of a session, and its only step.                               *)

\* A request in a queue waits, or has it: its watchdog has not fired.
Lining(r) == lease[r].phase \in {"queued"} \cup Running /\ ~lease[r].timedOut

\* Requests are in at most one queue, once; and a step that works, and has not timed
\* out, is the first of one.
Orderly(queue) ==
  /\ \A i \in 1..Len(queue) : Lining(queue[i])
  /\ \A i, j \in 1..Len(queue) : queue[i] = queue[j] => i = j
QueueInv ==
  /\ Orderly(fifo) /\ Orderly(forsaken)
  /\ \A i \in 1..Len(fifo), j \in 1..Len(forsaken) : fifo[i] # forsaken[j]
  /\ \A r \in Steps : Registered(r) /\ ~lease[r].timedOut => First(r)

\* The session object is replaced once.
LoadedInv == ~loaded => forsaken = <<>>

\* Timed out leases are cancelled, and only requests that began have timed out.
TimedOutInv ==
  \A r \in Requests :
    lease[r].timedOut => lease[r].cancelled /\ lease[r].phase \notin {"new", "queued"}

\* Nothing is disturbed as long as those in a queue stay, and only its first works.
LEMMA QueuesKeep ==
  ASSUME LeaseTypeOK, QueueInv, UNCHANGED <<fifo, forsaken>>,
         \A q \in Steps : Lining(q) => lease'[q].phase \in {"queued"} \cup Running /\ ~lease'[q].timedOut,
         \A q \in Steps : lease'[q].phase \in Running /\ ~lease'[q].timedOut => First(q)
  PROVE  QueueInv'
<1>1. \A i \in 1..Len(fifo) : fifo[i] \in Steps
  BY DEF LeaseTypeOK
<1>2. \A i \in 1..Len(forsaken) : forsaken[i] \in Steps
  BY DEF LeaseTypeOK
<1>3. Orderly(fifo)' /\ Orderly(forsaken)'
  BY <1>1, <1>2 DEF QueueInv, Orderly, Lining
<1> QED BY <1>3 DEF QueueInv, Registered, First

\* A queue whose first is r goes on without it; any other stays as it is.
LEMMA OrderlyBehind ==
  ASSUME NEW queue \in Seq(Steps), NEW r \in Requests, Orderly(queue),
         \/ queue # <<>> /\ queue[1] = r
         \/ \A i \in 1..Len(queue) : queue[i] # r
  PROVE  /\ \A i \in 1..Len(Behind(queue, r)) :
              /\ Behind(queue, r)[i] \in Steps \ {r}
              /\ Lining(Behind(queue, r)[i])
         /\ \A i, j \in 1..Len(Behind(queue, r)) : Behind(queue, r)[i] = Behind(queue, r)[j] => i = j
         /\ \A i \in 1..Len(Behind(queue, r)) : \E j \in 1..Len(queue) : Behind(queue, r)[i] = queue[j]
<1> DEFINE B == Behind(queue, r)
<1>1. B \in Seq(Steps)
  BY BehindFacts
<1>2. CASE queue # <<>> /\ queue[1] = r
  <2>1. Len(B) = Len(queue) - 1 /\ Len(queue) \in Nat /\ \A i \in 1..Len(B) : B[i] = queue[i + 1]
    BY <1>2, BehindFacts
  <2>2. \A i \in 1..Len(B) : i + 1 \in 1..Len(queue) /\ i \in Nat /\ i + 1 # 1
    BY <2>1
  <2>3. 1 \in 1..Len(queue)
    BY <1>2
  <2> HIDE DEF B
  <2>4. \A i \in 1..Len(B) : B[i] \in Steps \ {r} /\ Lining(B[i])
    BY <1>1, <1>2, <2>1, <2>2, <2>3 DEF Orderly
  <2>5. \A i, j \in 1..Len(B) : B[i] = B[j] => i = j
    BY <2>1, <2>2 DEF Orderly
  <2>6. \A i \in 1..Len(B) : \E j \in 1..Len(queue) : B[i] = queue[j]
    BY <2>1, <2>2
  <2> QED BY <2>4, <2>5, <2>6 DEF B
<1>3. CASE ~(queue # <<>> /\ queue[1] = r)
  <2>1. B = queue
    BY <1>3, BehindFacts
  <2>2. \A i \in 1..Len(queue) : queue[i] # r /\ queue[i] \in Steps
    BY <1>3
  <2> QED BY <2>1, <2>2 DEF Orderly
<1> QED BY <1>2, <1>3

\* The queues go on behind a request that ends or times out.
LEMMA QueuesGoOn ==
  ASSUME LeaseTypeOK, QueueInv, NEW r \in Requests,
         \A q \in Requests : q # r => lease'[q] = lease[q],
         lease'[r].timedOut \/ lease'[r].phase = "over",
         fifo' = Behind(fifo, r), forsaken' = Behind(forsaken, r),
         First(r) \/ lease[r].timedOut \/ r \notin Steps
  PROVE  QueueInv'
<1>1. fifo \in Seq(Steps) /\ forsaken \in Seq(Steps) /\ fifo' \in Seq(Steps) /\ forsaken' \in Seq(Steps)
  BY BehindFacts DEF LeaseTypeOK
<1>2. \A q \in Steps \ {r} : lease'[q] = lease[q]
  BY DEF Requests
<1>3. /\ \A i \in 1..Len(fifo) : fifo[i] \in Steps /\ Lining(fifo[i])
      /\ \A i \in 1..Len(forsaken) : forsaken[i] \in Steps /\ Lining(forsaken[i])
  BY <1>1 DEF QueueInv, Orderly
<1>4. fifo # <<>> => 1 \in 1..Len(fifo)
  BY <1>1
<1>5. forsaken # <<>> => 1 \in 1..Len(forsaken)
  BY <1>1
<1>6. \/ fifo # <<>> /\ fifo[1] = r
      \/ \A i \in 1..Len(fifo) : fifo[i] # r
  BY <1>3, <1>5 DEF First, Lining, QueueInv
<1>7. \/ forsaken # <<>> /\ forsaken[1] = r
      \/ \A i \in 1..Len(forsaken) : forsaken[i] # r
  BY <1>3, <1>4 DEF First, Lining, QueueInv
<1>8. Orderly(fifo) /\ Orderly(forsaken)
  BY DEF QueueInv
<1>9. /\ \A i \in 1..Len(fifo') : fifo'[i] \in Steps \ {r} /\ Lining(fifo'[i])
      /\ \A i, j \in 1..Len(fifo') : fifo'[i] = fifo'[j] => i = j
      /\ \A i \in 1..Len(fifo') : \E j \in 1..Len(fifo) : fifo'[i] = fifo[j]
  <2>1. /\ \A i \in 1..Len(Behind(fifo, r)) : Behind(fifo, r)[i] \in Steps \ {r} /\ Lining(Behind(fifo, r)[i])
        /\ \A i, j \in 1..Len(Behind(fifo, r)) : Behind(fifo, r)[i] = Behind(fifo, r)[j] => i = j
        /\ \A i \in 1..Len(Behind(fifo, r)) : \E j \in 1..Len(fifo) : Behind(fifo, r)[i] = fifo[j]
    <3> HIDE DEF QueueInv
    <3> QED BY <1>1, <1>6, <1>8, OrderlyBehind, Zenon
  <2>2. fifo' = Behind(fifo, r)
    OBVIOUS
  <2> HIDE DEF Behind
  <2> QED BY <2>1, <2>2, Zenon
<1>10. /\ \A i \in 1..Len(forsaken') : forsaken'[i] \in Steps \ {r} /\ Lining(forsaken'[i])
       /\ \A i, j \in 1..Len(forsaken') : forsaken'[i] = forsaken'[j] => i = j
       /\ \A i \in 1..Len(forsaken') : \E j \in 1..Len(forsaken) : forsaken'[i] = forsaken[j]
  <2>1. /\ \A i \in 1..Len(Behind(forsaken, r)) : Behind(forsaken, r)[i] \in Steps \ {r} /\ Lining(Behind(forsaken, r)[i])
        /\ \A i, j \in 1..Len(Behind(forsaken, r)) : Behind(forsaken, r)[i] = Behind(forsaken, r)[j] => i = j
        /\ \A i \in 1..Len(Behind(forsaken, r)) : \E j \in 1..Len(forsaken) : Behind(forsaken, r)[i] = forsaken[j]
    <3> HIDE DEF QueueInv
    <3> QED BY <1>1, <1>7, <1>8, OrderlyBehind, Zenon
  <2>2. forsaken' = Behind(forsaken, r)
    OBVIOUS
  <2> HIDE DEF Behind
  <2> QED BY <2>1, <2>2, Zenon
<1>11. \A i \in 1..Len(fifo'), j \in 1..Len(forsaken') : fifo'[i] # forsaken'[j]
  BY <1>9, <1>10 DEF QueueInv
<1>12. ASSUME NEW q \in Steps, Registered(q)', ~lease'[q].timedOut PROVE First(q)'
  <2>1. q # r
    BY <1>12 DEF Registered, Running
  <2>2. First(q)
    BY <1>2, <1>12, <2>1 DEF QueueInv, Registered
  <2>3. CASE fifo # <<>> /\ q = fifo[1]
    BY <1>1, <2>1, <2>3, BehindFacts DEF First
  <2>4. CASE forsaken # <<>> /\ q = forsaken[1]
    BY <1>1, <2>1, <2>4, BehindFacts DEF First
  <2> QED BY <2>2, <2>3, <2>4 DEF First
<1>13. Orderly(fifo)'
  BY <1>2, <1>9 DEF Orderly, Lining
<1>14. Orderly(forsaken)'
  BY <1>2, <1>10 DEF Orderly, Lining
<1> QED BY <1>11, <1>12, <1>13, <1>14 DEF QueueInv

\* Who ends: a request that works, or one that is dropped when its turn comes.
Ends(r) ==
  \/ Drop(r) \/ EndsStale(r) \/ Unwind(r) \/ WorkReturns(r) \/ CloseReturns(r) \/ CloseAtOnce(r)
  \/ CreateReturns(r) /\ ~Current(r)

\* An end is one of the handler, and what it does besides concerns tabs only.
LEMMA EndsFacts ==
  ASSUME LeaseTypeInv, NEW r \in Requests, Ends(r)
  PROVE  /\ EndsWithAnswer(r) /\ UNCHANGED <<port, loaded, quarantine, asked, faults>>
         /\ session'.epoch = session.epoch
         /\ lease' = [lease EXCEPT ![r] = lease'[r]] /\ lease'[r].phase = "over"
         /\ lease'[r].port = lease[r].port /\ lease'[r].timedOut = lease[r].timedOut
         /\ lease'[r].cancelled = lease[r].cancelled
         /\ Registered(r) \/ (lease[r].phase = "queued" /\ First(r) /\ lease[r].port # port)
<1>1. EndsWithAnswer(r)
  BY DEF Ends, Drop, EndsStale, Unwind, WorkReturns, CloseReturns, CloseAtOnce, CreateReturns
<1>2. lease \in [Requests -> Leases] /\ lease[r] \in Leases
  BY DEF LeaseTypeInv, LeaseTypeOK
<1>3. lease' = [lease EXCEPT ![r] = [@ EXCEPT !.phase = "over", !.epoch = 0, !.tab = None, !.keep = FALSE]]
  BY <1>1 DEF EndsWithAnswer
<1>4. /\ lease' = [lease EXCEPT ![r] = lease'[r]] /\ lease'[r].phase = "over"
      /\ lease'[r].port = lease[r].port /\ lease'[r].timedOut = lease[r].timedOut
      /\ lease'[r].cancelled = lease[r].cancelled
  BY <1>2, <1>3 DEF Leases
<1>5. UNCHANGED <<port, loaded, quarantine, asked, faults>>
  BY DEF Ends, Drop, EndsStale, Unwind, WorkReturns, CloseReturns, CloseAtOnce, CreateReturns, Seen, chrome, tabs
<1>6. session'.epoch = session.epoch
  BY DEF Ends, Drop, EndsStale, Unwind, WorkReturns, CloseReturns, CloseAtOnce, CreateReturns, Forget,
         LeaseTypeInv, LeaseTypeOK
<1>7. Registered(r) \/ (lease[r].phase = "queued" /\ First(r) /\ lease[r].port # port)
  BY DEF Ends, Drop, EndsStale, Unwind, WorkReturns, CloseReturns, CloseAtOnce, CreateReturns, Registered,
         Running
<1> QED BY <1>1, <1>4, <1>5, <1>6, <1>7

\* Every step, by what it does to requests.
LEMMA LeaseMoves ==
  ASSUME [LeaseNext]_leaseVars
  PROVE  \/ UNCHANGED leaseVars \/ Connect \/ Disconnect \/ Load \/ Prune
         \/ \E r \in Requests :
              \/ Deliver(r) \/ DeliverClose(r) \/ CancelRequest(r) \/ TakesTurn(r) \/ Loaded(r)
              \/ CreateReturns(r) /\ Current(r)
              \/ CreateReturnsLate(r) \/ CloseTab(r) \/ ChromeCreates(r)
              \/ Watchdog(r) \/ QuarantineDisposes(r) \/ Ends(r)
         \/ \E t \in Tabs : ChromeCloses(t) \/ UserCloses(t)
  BY DEF LeaseNext, Handler, Ends

\* Every step keeps the queues in order.
LEMMA QueueStep ==
  LeaseTypeInv /\ QueueInv /\ LoadedInv /\ TimedOutInv /\ [LeaseNext]_leaseVars
    => QueueInv' /\ LoadedInv' /\ TimedOutInv'
<1> SUFFICES ASSUME LeaseTypeInv, QueueInv, LoadedInv, TimedOutInv, [LeaseNext]_leaseVars
             PROVE  QueueInv' /\ LoadedInv' /\ TimedOutInv'
  OBVIOUS
<1> DEFINE Q == QueueInv' /\ LoadedInv' /\ TimedOutInv'
<1>a. /\ LeaseTypeOK /\ lease \in [Requests -> Leases] /\ \A q \in Requests : lease[q] \in Leases
      /\ fifo \in Seq(Steps) /\ forsaken \in Seq(Steps)
      /\ \A q \in Steps : q \in Requests
      /\ Steps \cap Closes = {}
  BY LeaseAssumption DEF LeaseTypeInv, LeaseTypeOK, Requests
\* Leases that change neither phase nor watchdog, or move on among those that work.
<1>b. ASSUME UNCHANGED <<fifo, forsaken, loaded>>,
             \A q \in Requests :
               /\ \/ lease'[q].phase = lease[q].phase
                  \/ lease[q].phase \in Running /\ lease'[q].phase \in Running
               /\ lease'[q].timedOut = lease[q].timedOut
               /\ lease[q].cancelled => lease'[q].cancelled
      PROVE  Q
  <2>1. TimedOutInv'
    BY <1>b, PhaseFacts DEF TimedOutInv
  <2>2. \A q \in Steps : Lining(q) => lease'[q].phase \in {"queued"} \cup Running /\ ~lease'[q].timedOut
    BY <1>a, <1>b DEF Lining
  <2>3. \A q \in Steps : lease'[q].phase \in Running /\ ~lease'[q].timedOut => First(q)
    BY <1>a, <1>b, PhaseFacts DEF QueueInv, Registered
  <2>4. QueueInv'
    BY <1>a, <1>b, <2>2, <2>3, QueuesKeep
  <2> QED BY <1>b, <2>1, <2>4 DEF LoadedInv
<1>0. CASE UNCHANGED leaseVars \/ Connect \/ Prune
  BY <1>0, <1>b DEF leaseVars, Connect, Prune
<1>1. CASE Disconnect
  <2>1. lease' = [q \in Requests |-> [lease[q] EXCEPT !.cancelled = @ \/ q \in OfPort]]
    BY <1>1 DEF Disconnect
  <2>2. \A q \in Requests : /\ lease'[q].phase = lease[q].phase /\ lease'[q].timedOut = lease[q].timedOut
                            /\ lease[q].cancelled => lease'[q].cancelled
    BY <1>a, <2>1 DEF Leases
  <2> QED BY <1>1, <1>b, <2>2 DEF Disconnect
<1>2. CASE Load
  <2>1. UNCHANGED lease /\ loaded'
    BY <1>2 DEF Load
  <2>2. CASE UNCHANGED <<fifo, forsaken>>
    BY <2>1, <2>2 DEF QueueInv, Orderly, Lining, Registered, First, LoadedInv, TimedOutInv
  <2>3. CASE forsaken' = fifo /\ fifo' = <<>>
    <3>1. forsaken = <<>>
      BY <1>2 DEF Load, LoadedInv
    <3>2. Orderly(fifo)' /\ Orderly(forsaken)'
      BY <2>1, <2>3 DEF QueueInv, Orderly, Lining
    <3>3. \A r \in Steps : Registered(r)' /\ ~lease'[r].timedOut => First(r)'
      BY <2>1, <2>3, <3>1 DEF QueueInv, Registered, First
    <3>4. \A i \in 1..Len(fifo'), j \in 1..Len(forsaken') : fifo'[i] # forsaken'[j]
      BY <2>3
    <3> QED BY <2>1, <3>2, <3>3, <3>4 DEF QueueInv, LoadedInv, TimedOutInv
  <2> QED BY <1>2, <2>2, <2>3 DEF Load
<1>3. ASSUME NEW r \in Requests, Deliver(r) PROVE Q
  <2>1. /\ r \in Steps /\ lease[r].phase = "new" /\ fifo' = Append(fifo, r)
        /\ lease' = [lease EXCEPT ![r] = [@ EXCEPT !.phase = "queued", !.port = port]]
        /\ UNCHANGED <<loaded, forsaken>>
    BY <1>3 DEF Deliver, Arrives
  <2>2. /\ lease'[r].phase = "queued" /\ lease'[r].timedOut = lease[r].timedOut
        /\ \A q \in Requests \ {r} : lease'[q] = lease[q]
    BY <1>a, <2>1 DEF Leases
  <2>3. ~lease[r].timedOut
    BY <2>1 DEF TimedOutInv
  <2>4. /\ \A i \in 1..Len(fifo) : fifo[i] \in Steps \ {r} /\ Lining(fifo[i])
        /\ \A i \in 1..Len(forsaken) : forsaken[i] \in Steps \ {r} /\ Lining(forsaken[i])
    BY <1>a, <2>1, PhaseFacts DEF QueueInv, Orderly, Lining
  <2>5. /\ Len(fifo') = Len(fifo) + 1 /\ Len(fifo) \in Nat /\ fifo'[Len(fifo) + 1] = r
        /\ \A i \in 1..Len(fifo) : fifo'[i] = fifo[i]
    BY <1>a, <2>1
  <2>6. \A i \in 1..Len(fifo') : i \in 1..Len(fifo) \/ i = Len(fifo) + 1
    BY <2>5
  <2>7. Orderly(fifo)'
    <3>1. \A i \in 1..Len(fifo') : lease'[fifo'[i]].phase \in {"queued"} \cup Running /\ ~lease'[fifo'[i]].timedOut
      BY <1>a, <2>2, <2>3, <2>4, <2>5, <2>6 DEF Lining
    <3>2. \A i, j \in 1..Len(fifo') : fifo'[i] = fifo'[j] => i = j
      BY <2>4, <2>5, <2>6 DEF QueueInv, Orderly
    <3> QED BY <3>1, <3>2 DEF Orderly, Lining
  <2>8. Orderly(forsaken)'
    BY <1>a, <2>1, <2>2, <2>4 DEF QueueInv, Orderly, Lining
  <2>9. \A i \in 1..Len(fifo'), j \in 1..Len(forsaken') : fifo'[i] # forsaken'[j]
    BY <2>1, <2>4, <2>5, <2>6 DEF QueueInv
  <2>10. ASSUME NEW q \in Steps, Registered(q)', ~lease'[q].timedOut PROVE First(q)'
    <3>1. q # r
      BY <2>2, <2>10, PhaseFacts DEF Registered
    <3>2. First(q)
      BY <1>a, <2>2, <2>10, <3>1 DEF QueueInv, Registered
    <3>3. fifo # <<>> => fifo' # <<>> /\ fifo'[1] = fifo[1]
      BY <1>a, <2>5
    <3> QED BY <2>1, <3>2, <3>3 DEF First
  <2>11. TimedOutInv'
    BY <2>2, <2>3 DEF TimedOutInv
  <2> QED BY <2>1, <2>7, <2>8, <2>9, <2>10, <2>11 DEF QueueInv, LoadedInv
<1>4. ASSUME NEW r \in Requests, DeliverClose(r) PROVE Q
  <2>1. /\ r \in Closes /\ lease[r].phase = "new" /\ UNCHANGED <<loaded, fifo, forsaken>>
        /\ \E keep \in BOOLEAN :
             lease' = [q \in Requests |->
                        IF q = r THEN [lease[q] EXCEPT !.phase = "loading", !.port = port,
                                                       !.epoch = session.epoch + 1, !.keep = keep]
                        ELSE [lease[q] EXCEPT !.cancelled = @ \/ Registered(q)]]
    BY <1>4 DEF DeliverClose, Arrives
  <2>2. /\ lease'[r].timedOut = lease[r].timedOut
        /\ \A q \in Requests \ {r} : /\ lease'[q].phase = lease[q].phase /\ lease'[q].timedOut = lease[q].timedOut
                                     /\ lease[q].cancelled => lease'[q].cancelled
    <3>1. \A q \in Requests : /\ [lease[q] EXCEPT !.cancelled = @ \/ Registered(q)].phase = lease[q].phase
                              /\ [lease[q] EXCEPT !.cancelled = @ \/ Registered(q)].timedOut = lease[q].timedOut
                              /\ lease[q].cancelled => [lease[q] EXCEPT !.cancelled = @ \/ Registered(q)].cancelled
      BY <1>a DEF Leases
    <3>2. \A keep \in BOOLEAN :
            [lease[r] EXCEPT !.phase = "loading", !.port = port,
                             !.epoch = session.epoch + 1, !.keep = keep].timedOut = lease[r].timedOut
      BY <1>a DEF Leases
    <3> HIDE DEF Leases
    <3> QED BY <2>1, <3>1, <3>2
  <2>3. TimedOutInv'
    BY <2>1, <2>2 DEF TimedOutInv
  <2>4. \A q \in Steps : lease'[q].phase = lease[q].phase /\ lease'[q].timedOut = lease[q].timedOut
    BY <1>a, <2>1, <2>2
  <2>5. QueueInv'
    BY <1>a, <2>1, <2>4, QueuesKeep DEF Lining, QueueInv, Registered
  <2> QED BY <2>1, <2>3, <2>5 DEF LoadedInv
<1>5. ASSUME NEW r \in Requests, CancelRequest(r) PROVE Q
  <2>1. lease' = [lease EXCEPT ![r].cancelled = TRUE] /\ UNCHANGED <<loaded, fifo, forsaken>>
    BY <1>5 DEF CancelRequest
  <2>2. \A q \in Requests : /\ lease'[q].phase = lease[q].phase /\ lease'[q].timedOut = lease[q].timedOut
                            /\ lease[q].cancelled => lease'[q].cancelled
    BY <1>a, <2>1 DEF Leases
  <2> QED BY <1>b, <2>1, <2>2
<1>6. ASSUME NEW r \in Requests, TakesTurn(r) PROVE Q
  <2>1. /\ lease[r].phase = "queued" /\ First(r) /\ UNCHANGED <<loaded, fifo, forsaken>>
        /\ lease' = [lease EXCEPT ![r] = [@ EXCEPT !.phase = "loading", !.epoch = session.epoch]]
    BY <1>6 DEF TakesTurn
  <2>2. /\ lease'[r].phase = "loading" /\ lease'[r].timedOut = lease[r].timedOut
        /\ \A q \in Requests \ {r} : lease'[q] = lease[q]
    BY <1>a, <2>1 DEF Leases
  <2>3. TimedOutInv'
    BY <2>1, <2>2 DEF TimedOutInv
  <2>4. \A q \in Steps : Lining(q) => lease'[q].phase \in {"queued"} \cup Running /\ ~lease'[q].timedOut
    BY <1>a, <2>2, PhaseFacts DEF Lining
  <2>5. \A q \in Steps : lease'[q].phase \in Running /\ ~lease'[q].timedOut => First(q)
    BY <1>a, <2>1, <2>2 DEF QueueInv, Registered
  <2>6. QueueInv'
    BY <1>a, <2>1, <2>4, <2>5, QueuesKeep
  <2> QED BY <2>1, <2>3, <2>6 DEF LoadedInv
<1>7. ASSUME NEW r \in Requests, Loaded(r) \/ (CreateReturns(r) /\ Current(r)) \/ CloseTab(r) PROVE Q
  <2>1. /\ \/ \E next \in Running : lease' = [lease EXCEPT ![r].phase = next]
           \/ lease' = [lease EXCEPT ![r] = [@ EXCEPT !.phase = "disposing", !.tab = session.tab]]
        /\ UNCHANGED <<loaded, fifo, forsaken>>
        /\ lease[r].phase \in Running
    BY <1>7, PhaseFacts DEF Loaded, CreateReturns, CloseTab
  <2>2. /\ lease'[r].phase \in Running /\ lease'[r].timedOut = lease[r].timedOut
        /\ lease'[r].cancelled = lease[r].cancelled
        /\ \A q \in Requests \ {r} : lease'[q] = lease[q]
    <3>1. CASE \E next \in Running : lease' = [lease EXCEPT ![r].phase = next]
      BY <1>a, <3>1 DEF Leases
    <3>2. CASE lease' = [lease EXCEPT ![r] = [@ EXCEPT !.phase = "disposing", !.tab = session.tab]]
      BY <1>a, <3>2, PhaseFacts DEF Leases
    <3> QED BY <2>1, <3>1, <3>2
  <2> QED BY <1>b, <2>1, <2>2
<1>8. ASSUME NEW r \in Requests, CreateReturnsLate(r) \/ ChromeCreates(r) \/ QuarantineDisposes(r) PROVE Q
  BY <1>8, <1>b DEF CreateReturnsLate, ChromeCreates, QuarantineDisposes
<1>9. ASSUME NEW t \in Tabs, ChromeCloses(t) \/ UserCloses(t) PROVE Q
  BY <1>9, <1>b DEF ChromeCloses, UserCloses
<1>10. ASSUME NEW r \in Requests, Watchdog(r) PROVE Q
  <2>1. /\ r \in Steps /\ Registered(r) /\ ~lease[r].timedOut /\ UNCHANGED loaded
        /\ lease' = [lease EXCEPT ![r] = [@ EXCEPT !.cancelled = TRUE, !.timedOut = TRUE]]
        /\ fifo' = Behind(fifo, r) /\ forsaken' = Behind(forsaken, r)
    BY <1>10 DEF Watchdog, Fence, Passes
  <2>2. /\ lease'[r].phase = lease[r].phase /\ lease'[r].timedOut /\ lease'[r].cancelled
        /\ \A q \in Requests \ {r} : lease'[q] = lease[q]
    BY <1>a, <2>1 DEF Leases
  <2>3. QueueInv'
    BY <1>a, <2>1, <2>2, QueuesGoOn DEF QueueInv
  <2>4. TimedOutInv'
    BY <2>1, <2>2, PhaseFacts DEF TimedOutInv, Registered
  <2> QED BY <2>1, <2>3, <2>4 DEF LoadedInv, Behind
<1>11. ASSUME NEW r \in Requests, Ends(r) PROVE Q
  <2>1. /\ lease' = [lease EXCEPT ![r] = lease'[r]] /\ lease'[r].phase = "over"
        /\ lease'[r].timedOut = lease[r].timedOut /\ lease'[r].cancelled = lease[r].cancelled
        /\ EndsWithAnswer(r) /\ UNCHANGED loaded
        /\ Registered(r) \/ First(r)
    BY <1>11, EndsFacts
  <2>2. fifo' = Behind(fifo, r) /\ forsaken' = Behind(forsaken, r)
    BY <2>1 DEF EndsWithAnswer
  <2>3. \A q \in Requests : q # r => lease'[q] = lease[q]
    BY <1>a, <2>1
  <2>4. QueueInv'
    <3>1. First(r) \/ lease[r].timedOut \/ r \notin Steps
      BY <2>1 DEF QueueInv
    <3> QED BY <1>a, <2>1, <2>2, <2>3, <3>1, QueuesGoOn
  <2>5. TimedOutInv'
    BY <2>1, <2>3, PhaseFacts DEF TimedOutInv
  <2> QED BY <2>1, <2>2, <2>4, <2>5 DEF LoadedInv, Behind
<1> QED BY <1>0, <1>1, <1>2, <1>3, <1>4, <1>5, <1>6, <1>7, <1>8, <1>9, <1>10, <1>11, LeaseMoves

\* The queues are in order in every reachable state.
LEMMA QueuesHold == LeaseSpec => [](LeaseTypeInv /\ QueueInv /\ LoadedInv /\ TimedOutInv)
<1>1. LeaseInit => QueueInv /\ LoadedInv /\ TimedOutInv
  <2> SUFFICES ASSUME LeaseInit PROVE QueueInv /\ LoadedInv /\ TimedOutInv
    OBVIOUS
  <2>1. fifo = <<>> /\ forsaken = <<>> /\ Len(fifo) = 0 /\ Len(forsaken) = 0 /\ 1..0 = {}
    BY DEF LeaseInit
  <2>2. \A r \in Requests : lease[r].phase = "new" /\ ~lease[r].timedOut
    BY DEF LeaseInit
  <2>3. \A r \in Steps : ~Registered(r)
    BY <2>2, PhaseFacts DEF Registered, Requests
  <2>4. Orderly(fifo) /\ Orderly(forsaken)
    BY <2>1 DEF Orderly
  <2> QED BY <2>1, <2>2, <2>3, <2>4 DEF QueueInv, LoadedInv, TimedOutInv
<1> QED BY <1>1, LeaseTypeInit, LeaseTypeStep, QueueStep, PTL DEF LeaseSpec

\* No two steps of the session hold a current lease, however long the handler of an abandoned
\* one goes on (registerBrokerRequestLease, the watchdog of handleBrokerMessageWithWatchdog).
THEOREM OneCurrentStepHolds == LeaseSpec => []OneCurrentStep
<1>1. LeaseTypeInv /\ QueueInv /\ TimedOutInv => OneCurrentStep
  <2> SUFFICES ASSUME LeaseTypeInv, QueueInv, TimedOutInv, Undivided, NEW q \in Steps, NEW r \in Steps,
                      Registered(q), Registered(r), Current(q), Current(r)
               PROVE  q = r
    BY DEF OneCurrentStep
  <2>1. ~lease[q].timedOut /\ ~lease[r].timedOut
    BY DEF TimedOutInv, Current, Requests
  <2> QED BY <2>1 DEF QueueInv, First, Undivided
<1> QED BY <1>1, QueuesHold, PTL

-----------------------------------------------------------------------------
(* Answers.                                                                *)

\* Whoever has an answer is over, or its watchdog gave it.
AnswerInv ==
  /\ AnsweredOnceAtHome
  /\ \A r \in Requests : answers[r] # <<>> => lease[r].phase = "over" \/ lease[r].timedOut

\* An answer appended to none is the only one, and is on the port of the request.
LEMMA OneAnswer ==
  ASSUME LeaseTypeInv, NEW r \in Requests, answers[r] = <<>>, lease[r].port = port
  PROVE  /\ Answered(r)[r] = <<lease[r].port>>
         /\ \A q \in Requests \ {r} : Answered(r)[q] = answers[q]
  BY DEF LeaseTypeInv, LeaseTypeOK, Answered

\* Every step keeps answers single and at home.
LEMMA AnswerStep ==
  LeaseTypeInv /\ TimedOutInv /\ AnswerInv /\ [LeaseNext]_leaseVars => AnswerInv'
<1> SUFFICES ASSUME LeaseTypeInv, TimedOutInv, AnswerInv, [LeaseNext]_leaseVars PROVE AnswerInv'
  OBVIOUS
<1>a. lease \in [Requests -> Leases] /\ \A q \in Requests : lease[q] \in Leases
  BY DEF LeaseTypeInv, LeaseTypeOK
\* Nobody is answered, and those who were keep their port and stay over or timed out.
<1>b. ASSUME UNCHANGED answers,
             \A q \in Requests :
               answers[q] # <<>> =>
                 /\ lease'[q].port = lease[q].port
                 /\ lease[q].phase = "over" => lease'[q].phase = "over"
                 /\ lease[q].timedOut => lease'[q].timedOut
      PROVE  AnswerInv'
  <2> SUFFICES ASSUME NEW q \in Requests
               PROVE  /\ Len(answers'[q]) <= 1 /\ \A i \in 1..Len(answers'[q]) : answers'[q][i] = lease'[q].port
                      /\ answers'[q] # <<>> => lease'[q].phase = "over" \/ lease'[q].timedOut
    BY DEF AnswerInv, AnsweredOnceAtHome
  <2>1. CASE answers[q] = <<>>
    BY <1>b, <2>1
  <2>2. CASE answers[q] # <<>>
    BY <1>b, <2>2 DEF AnswerInv, AnsweredOnceAtHome
  <2> QED BY <2>1, <2>2
<1>0. CASE UNCHANGED leaseVars \/ Connect \/ Prune \/ Load
  BY <1>0, <1>b DEF leaseVars, Connect, Prune, Load
<1>1. CASE Disconnect
  <2>1. lease' = [q \in Requests |-> [lease[q] EXCEPT !.cancelled = @ \/ q \in OfPort]]
    BY <1>1 DEF Disconnect
  <2>2. \A q \in Requests : /\ lease'[q].phase = lease[q].phase /\ lease'[q].timedOut = lease[q].timedOut
                            /\ lease'[q].port = lease[q].port
    BY <1>a, <2>1 DEF Leases
  <2> QED BY <1>1, <1>b, <2>2 DEF Disconnect
<1>2. ASSUME NEW r \in Requests, Deliver(r) \/ TakesTurn(r) PROVE AnswerInv'
  <2>1. lease[r].phase \in {"new", "queued"} /\ answers[r] = <<>>
    BY <1>2 DEF Deliver, TakesTurn, Arrives, AnswerInv, TimedOutInv
  <2>2. UNCHANGED answers /\ \A q \in Requests \ {r} : lease'[q] = lease[q]
    BY <1>2, <1>a DEF Deliver, TakesTurn
  <2> QED BY <1>b, <2>1, <2>2
<1>3. ASSUME NEW r \in Requests, DeliverClose(r) PROVE AnswerInv'
  <2>1. lease[r].phase = "new" /\ answers[r] = <<>>
    BY <1>3 DEF DeliverClose, Arrives, AnswerInv, TimedOutInv
  <2>2. \A q \in Requests \ {r} : lease'[q] = [lease[q] EXCEPT !.cancelled = @ \/ Registered(q)]
    BY <1>3 DEF DeliverClose
  <2>3. \A q \in Requests \ {r} : /\ lease'[q].phase = lease[q].phase /\ lease'[q].timedOut = lease[q].timedOut
                                  /\ lease'[q].port = lease[q].port
    BY <1>a, <2>2 DEF Leases
  <2>4. UNCHANGED answers
    BY <1>3 DEF DeliverClose
  <2> QED BY <1>b, <2>1, <2>3, <2>4
<1>4. ASSUME NEW r \in Requests,
             CancelRequest(r) \/ Loaded(r) \/ (CreateReturns(r) /\ Current(r)) \/ CloseTab(r)
      PROVE  AnswerInv'
  <2>1. /\ \/ \E next \in Running : lease' = [lease EXCEPT ![r].phase = next]
           \/ lease' = [lease EXCEPT ![r].cancelled = TRUE]
           \/ lease' = [lease EXCEPT ![r] = [@ EXCEPT !.phase = "disposing", !.tab = session.tab]]
        /\ UNCHANGED answers
        /\ lease[r].phase \in Running
    BY <1>4, PhaseFacts DEF CancelRequest, Registered, Loaded, CreateReturns, CloseTab
  <2>2. /\ lease'[r].timedOut = lease[r].timedOut /\ lease'[r].port = lease[r].port
        /\ \A q \in Requests \ {r} : lease'[q] = lease[q]
    BY <1>a, <2>1 DEF Leases
  <2> QED BY <1>b, <2>1, <2>2, PhaseFacts
<1>5. ASSUME NEW r \in Requests, CreateReturnsLate(r) \/ ChromeCreates(r) \/ QuarantineDisposes(r) PROVE AnswerInv'
  BY <1>5, <1>b DEF CreateReturnsLate, ChromeCreates, QuarantineDisposes
<1>6. ASSUME NEW t \in Tabs, ChromeCloses(t) \/ UserCloses(t) PROVE AnswerInv'
  BY <1>6, <1>b DEF ChromeCloses, UserCloses
\* A request without an answer gets one, as it ends or times out.
<1>c. ASSUME NEW r \in Requests, answers[r] = <<>>, lease'[r].port = lease[r].port,
             \A q \in Requests \ {r} : lease'[q] = lease[q],
             answers' = answers \/ (answers' = Answered(r) /\ lease[r].port = port),
             lease'[r].phase = "over" \/ lease'[r].timedOut
      PROVE  AnswerInv'
  <2>1. CASE answers' = answers
    BY <1>b, <1>c, <2>1
  <2>2. CASE answers' = Answered(r) /\ lease[r].port = port
    <3>1. answers'[r] = <<lease[r].port>> /\ \A q \in Requests \ {r} : answers'[q] = answers[q]
      BY <1>c, <2>2, OneAnswer
    <3>2. Len(answers'[r]) <= 1 /\ \A i \in 1..Len(answers'[r]) : answers'[r][i] = lease'[r].port
      BY <1>c, <3>1
    <3>3. \A q \in Requests \ {r} :
            /\ Len(answers'[q]) <= 1 /\ \A i \in 1..Len(answers'[q]) : answers'[q][i] = lease'[q].port
            /\ answers'[q] # <<>> => lease'[q].phase = "over" \/ lease'[q].timedOut
      BY <1>c, <3>1 DEF AnswerInv, AnsweredOnceAtHome
    <3> QED BY <1>c, <3>2, <3>3 DEF AnswerInv, AnsweredOnceAtHome
  <2> QED BY <1>c, <2>1, <2>2
<1>7. ASSUME NEW r \in Requests, Watchdog(r) PROVE AnswerInv'
  <2>1. /\ Registered(r) /\ ~lease[r].timedOut
        /\ lease' = [lease EXCEPT ![r] = [@ EXCEPT !.cancelled = TRUE, !.timedOut = TRUE]]
        /\ answers' = answers \/ (answers' = Answered(r) /\ lease[r].port = port)
    BY <1>7 DEF Watchdog, Fence
  <2>2. /\ lease'[r].timedOut /\ lease'[r].port = lease[r].port
        /\ \A q \in Requests \ {r} : lease'[q] = lease[q]
    BY <1>a, <2>1 DEF Leases
  <2>3. answers[r] = <<>>
    BY <2>1, PhaseFacts DEF AnswerInv, Registered
  <2> QED BY <1>c, <2>1, <2>2, <2>3
<1>8. ASSUME NEW r \in Requests, Ends(r) PROVE AnswerInv'
  <2>1. /\ lease' = [lease EXCEPT ![r] = lease'[r]] /\ lease'[r].phase = "over"
        /\ lease'[r].port = lease[r].port /\ lease'[r].timedOut = lease[r].timedOut
        /\ EndsWithAnswer(r) /\ lease[r].phase \in {"queued"} \cup Running
    BY <1>8, EndsFacts DEF Registered
  <2>2. \A q \in Requests \ {r} : lease'[q] = lease[q]
    BY <1>a, <2>1
  <2>3. CASE lease[r].timedOut
    <3>1. UNCHANGED answers
      BY <2>1, <2>3 DEF EndsWithAnswer, Deliverable
    <3> QED BY <1>b, <2>1, <2>2, <3>1
  <2>4. CASE ~lease[r].timedOut
    <3>1. answers[r] = <<>>
      BY <2>1, <2>4, PhaseFacts DEF AnswerInv
    <3>2. answers' = answers \/ (answers' = Answered(r) /\ lease[r].port = port)
      BY <2>1 DEF EndsWithAnswer, Deliverable
    <3> QED BY <1>c, <2>1, <2>2, <3>1, <3>2
  <2> QED BY <2>3, <2>4
<1> QED BY <1>0, <1>1, <1>2, <1>3, <1>4, <1>5, <1>6, <1>7, <1>8, LeaseMoves

\* A request is answered at most once, by its handler or by its watchdog, and only on the
\* port it came from (sendResponseToBroker, allowAfterWatchdog).
THEOREM AnsweredOnceAtHomeHolds == LeaseSpec => []AnsweredOnceAtHome
<1>1. LeaseInit => AnswerInv
  BY DEF LeaseInit, AnswerInv, AnsweredOnceAtHome
<1>2. AnswerInv => AnsweredOnceAtHome
  BY DEF AnswerInv
<1> QED BY <1>1, <1>2, AnswerStep, QueuesHold, PTL DEF LeaseSpec

-----------------------------------------------------------------------------
(* Uncancelled leases, and the tabs of a session that nothing divides.     *)

\* An uncancelled lease is of the connected port, and that of a step of the epoch: all
\* that moves the one or the other cancels those that run.
FreshInv ==
  /\ \A r \in Requests : Registered(r) /\ ~lease[r].cancelled => lease[r].port = port /\ Connected
  /\ \A r \in Requests : lease[r].phase = "queued" => lease[r].port % 2 = 1
  /\ \A r \in Steps : Registered(r) /\ ~lease[r].cancelled => lease[r].epoch = session.epoch

\* Of the steps of an undivided session one is uncancelled, the first of the FIFO.
LEMMA OneUncancelled ==
  ASSUME LeaseTypeInv, QueueInv, TimedOutInv, Undivided, NEW q \in Steps, Registered(q), ~lease[q].cancelled
  PROVE  /\ fifo # <<>> /\ q = fifo[1]
         /\ \A r \in Steps : Registered(r) /\ ~lease[r].cancelled => r = q
<1>1. \A r \in Steps : Registered(r) /\ ~lease[r].cancelled => fifo # <<>> /\ r = fifo[1]
  <2>1. \A r \in Steps : ~lease[r].cancelled => ~lease[r].timedOut
    BY LeaseTypeInv DEF TimedOutInv, Requests
  <2> QED BY <2>1 DEF QueueInv, First, Undivided
<1> QED BY <1>1

\* Every step that leaves the session undivided keeps uncancelled leases fresh.
LEMMA FreshStep ==
  LeaseTypeInv /\ QueueInv /\ TimedOutInv /\ FreshInv /\ Undivided /\ Undivided' /\ [LeaseNext]_leaseVars
    => FreshInv'
<1> SUFFICES ASSUME LeaseTypeInv, QueueInv, TimedOutInv, FreshInv, Undivided, Undivided', [LeaseNext]_leaseVars
             PROVE  FreshInv'
  OBVIOUS
<1>a. /\ lease \in [Requests -> Leases] /\ \A q \in Requests : lease[q] \in Leases
      /\ port \in Nat /\ session.epoch \in Nat
      /\ \A q \in Steps : q \in Requests
      /\ Steps \cap Closes = {}
  BY LeaseAssumption DEF LeaseTypeInv, LeaseTypeOK, Requests
\* Leases that keep port and epoch, and are no more queued, registered or uncancelled than before.
<1>b. ASSUME NEW S \in SUBSET Requests,
             \A q \in S :
               /\ lease'[q].port = lease[q].port /\ lease'[q].epoch = lease[q].epoch
               /\ lease'[q].phase = "queued" => lease[q].phase = "queued"
               /\ lease'[q].phase \in Running => lease[q].phase \in Running
               /\ lease[q].cancelled => lease'[q].cancelled
      PROVE  /\ \A q \in S : /\ Registered(q)' => Registered(q)
                             /\ lease'[q].phase = "queued" => lease'[q].port % 2 = 1
             /\ \A q \in S : Registered(q)' /\ ~lease'[q].cancelled =>
                  Registered(q) /\ ~lease[q].cancelled /\ lease'[q].port = port /\ Connected
             /\ \A q \in Steps \cap S : Registered(q)' /\ ~lease'[q].cancelled => lease'[q].epoch = session.epoch
  BY <1>b DEF FreshInv, Registered
<1>c. ASSUME UNCHANGED port, session'.epoch = session.epoch,
             \A q \in Requests :
               /\ lease'[q].port = lease[q].port /\ lease'[q].epoch = lease[q].epoch
               /\ lease'[q].phase = "queued" => lease[q].phase = "queued"
               /\ lease'[q].phase \in Running => lease[q].phase \in Running
               /\ lease[q].cancelled => lease'[q].cancelled
      PROVE  FreshInv'
  <2>1. Requests \in SUBSET Requests /\ Steps \cap Requests = Steps
    BY DEF Requests
  <2> QED BY <1>b, <1>c, <2>1 DEF FreshInv, Connected
<1>0. CASE UNCHANGED leaseVars
  BY <1>0, <1>c DEF leaseVars
<1>1. CASE Connect
  <2>1. \A q \in Requests : Registered(q) => lease[q].cancelled
    BY <1>1 DEF Connect, FreshInv
  <2> QED BY <1>1, <1>a, <2>1 DEF Connect, FreshInv, Registered
<1>2. CASE Disconnect
  <2>1. lease' = [q \in Requests |-> [lease[q] EXCEPT !.cancelled = @ \/ q \in OfPort]]
    BY <1>2 DEF Disconnect
  <2>2. \A q \in Requests : /\ lease'[q].phase = lease[q].phase /\ lease'[q].port = lease[q].port
                            /\ Registered(q) => lease'[q].cancelled
    <3>1. \A q \in Requests : /\ lease'[q].phase = lease[q].phase /\ lease'[q].port = lease[q].port
                              /\ lease[q].cancelled \/ q \in OfPort => lease'[q].cancelled
      BY <1>a, <2>1 DEF Leases
    <3> QED BY <3>1 DEF FreshInv, OfPort
  <2> QED BY <1>a, <2>2 DEF FreshInv, Registered
<1>3. CASE Load
  <2>1. UNCHANGED <<port, lease>>
    BY <1>3 DEF Load
  <2>2. CASE UNCHANGED session
    BY <1>c, <2>1, <2>2
  <2>3. CASE forsaken' = fifo
    <3>1. fifo = <<>>
      BY <2>3 DEF Undivided
    <3>2. \A q \in Steps : Registered(q) => lease[q].cancelled
      BY <3>1, OneUncancelled
    <3> QED BY <1>a, <2>1, <3>2 DEF FreshInv, Registered, Connected
  <2> QED BY <1>3, <2>2, <2>3 DEF Load
<1>4. CASE Prune
  <2>1. /\ \A q \in Requests : ~Registered(q)
        /\ UNCHANGED <<port, lease>>
    BY <1>4 DEF Prune, Idle
  <2> QED BY <1>a, <2>1 DEF FreshInv, Registered
<1>5. ASSUME NEW r \in Requests, Deliver(r) PROVE FreshInv'
  <2>1. /\ lease' = [lease EXCEPT ![r] = [@ EXCEPT !.phase = "queued", !.port = port]]
        /\ Connected /\ UNCHANGED <<port, session>>
    BY <1>5 DEF Deliver, Arrives
  <2>2. /\ lease'[r].phase = "queued" /\ lease'[r].port = port
        /\ \A q \in Requests \ {r} : lease'[q] = lease[q]
    BY <1>a, <2>1 DEF Leases
  <2> QED BY <1>a, <2>1, <2>2, PhaseFacts DEF FreshInv, Registered, Connected
<1>6. ASSUME NEW r \in Requests, DeliverClose(r) PROVE FreshInv'
  <2>1. /\ r \in Closes /\ Connected /\ UNCHANGED port
        /\ \E keep \in BOOLEAN :
             lease' = [q \in Requests |->
                        IF q = r THEN [lease[q] EXCEPT !.phase = "loading", !.port = port,
                                                       !.epoch = session.epoch + 1, !.keep = keep]
                        ELSE [lease[q] EXCEPT !.cancelled = @ \/ Registered(q)]]
    BY <1>6 DEF DeliverClose, Arrives
  <2>2. /\ lease'[r].phase = "loading" /\ lease'[r].port = port
        /\ \A q \in Requests \ {r} : /\ lease'[q].phase = lease[q].phase /\ lease'[q].port = lease[q].port
                                     /\ Registered(q) => lease'[q].cancelled
    <3>1. \A q \in Requests : /\ [lease[q] EXCEPT !.cancelled = @ \/ Registered(q)].phase = lease[q].phase
                              /\ [lease[q] EXCEPT !.cancelled = @ \/ Registered(q)].port = lease[q].port
                              /\ Registered(q) => [lease[q] EXCEPT !.cancelled = @ \/ Registered(q)].cancelled
      BY <1>a DEF Leases
    <3>2. \A keep \in BOOLEAN :
            LET new == [lease[r] EXCEPT !.phase = "loading", !.port = port,
                                        !.epoch = session.epoch + 1, !.keep = keep]
            IN  new.phase = "loading" /\ new.port = port
      BY <1>a DEF Leases
    <3> HIDE DEF Leases
    <3> QED BY <2>1, <3>1, <3>2
  <2> QED BY <1>a, <2>1, <2>2 DEF FreshInv, Registered, Connected
<1>7. ASSUME NEW r \in Requests, CancelRequest(r) PROVE FreshInv'
  <2>1. lease' = [lease EXCEPT ![r].cancelled = TRUE] /\ UNCHANGED <<port, session>>
    BY <1>7 DEF CancelRequest
  <2>2. \A q \in Requests : /\ lease'[q].port = lease[q].port /\ lease'[q].epoch = lease[q].epoch
                            /\ lease'[q].phase = lease[q].phase
                            /\ lease[q].cancelled => lease'[q].cancelled
    BY <1>a, <2>1 DEF Leases
  <2> QED BY <1>c, <2>1, <2>2
<1>8. ASSUME NEW r \in Requests, TakesTurn(r) PROVE FreshInv'
  <2>1. /\ lease[r].phase = "queued" /\ lease[r].port = port /\ UNCHANGED <<port, session>>
        /\ lease' = [lease EXCEPT ![r] = [@ EXCEPT !.phase = "loading", !.epoch = session.epoch]]
    BY <1>8 DEF TakesTurn
  <2>2. /\ lease'[r].phase = "loading" /\ lease'[r].port = lease[r].port /\ lease'[r].epoch = session.epoch
        /\ \A q \in Requests \ {r} : lease'[q] = lease[q]
    BY <1>a, <2>1 DEF Leases
  <2> QED BY <1>a, <2>1, <2>2, PhaseFacts DEF FreshInv, Registered, Connected
<1>9. ASSUME NEW r \in Requests, Loaded(r) \/ (CreateReturns(r) /\ Current(r)) \/ CloseTab(r) PROVE FreshInv'
  <2>1. /\ \/ \E next \in Running : lease' = [lease EXCEPT ![r].phase = next]
           \/ lease' = [lease EXCEPT ![r] = [@ EXCEPT !.phase = "disposing", !.tab = session.tab]]
        /\ UNCHANGED port /\ session'.epoch = session.epoch
        /\ lease[r].phase \in Running
    BY <1>9, PhaseFacts DEF Loaded, CreateReturns, CloseTab, Forget, LeaseTypeInv, LeaseTypeOK
  <2>2. /\ lease'[r].port = lease[r].port /\ lease'[r].epoch = lease[r].epoch
        /\ lease'[r].cancelled = lease[r].cancelled /\ lease'[r].phase \in Running
        /\ \A q \in Requests \ {r} : lease'[q] = lease[q]
    <3>1. CASE \E next \in Running : lease' = [lease EXCEPT ![r].phase = next]
      BY <1>a, <3>1 DEF Leases
    <3>2. CASE lease' = [lease EXCEPT ![r] = [@ EXCEPT !.phase = "disposing", !.tab = session.tab]]
      BY <1>a, <3>2, PhaseFacts DEF Leases
    <3> QED BY <2>1, <3>1, <3>2
  <2> QED BY <1>c, <2>1, <2>2, PhaseFacts
<1>10. ASSUME NEW r \in Requests, CreateReturnsLate(r) \/ ChromeCreates(r) \/ QuarantineDisposes(r) PROVE FreshInv'
  <2>1. UNCHANGED <<port, lease>> /\ session'.epoch = session.epoch
    BY <1>10 DEF CreateReturnsLate, ChromeCreates, QuarantineDisposes, Forget, LeaseTypeInv, LeaseTypeOK
  <2> QED BY <1>c, <2>1
<1>11. ASSUME NEW t \in Tabs, ChromeCloses(t) \/ UserCloses(t) PROVE FreshInv'
  <2>1. UNCHANGED <<port, lease>> /\ session'.epoch = session.epoch
    BY <1>11 DEF ChromeCloses, UserCloses, Unbound, LeaseTypeInv, LeaseTypeOK
  <2> QED BY <1>c, <2>1
<1>12. ASSUME NEW r \in Requests, Watchdog(r) PROVE FreshInv'
  <2>1. /\ r \in Steps /\ Registered(r) /\ ~lease[r].timedOut /\ UNCHANGED port
        /\ lease' = [lease EXCEPT ![r] = [@ EXCEPT !.cancelled = TRUE, !.timedOut = TRUE]]
    BY <1>12 DEF Watchdog, Fence
  <2>2. /\ lease'[r].cancelled /\ lease'[r].phase = lease[r].phase /\ lease'[r].port = lease[r].port
        /\ \A q \in Requests \ {r} : lease'[q] = lease[q]
    BY <1>a, <2>1 DEF Leases
  <2>3. First(r)
    BY <2>1 DEF QueueInv
  <2>4. \A q \in Steps \ {r} : Registered(q) => lease[q].cancelled
    <3>1. \A q \in Steps : Registered(q) /\ ~lease[q].cancelled => q = fifo[1]
      BY OneUncancelled
    <3> QED BY <2>3, <3>1 DEF First, Undivided
  <2> QED BY <1>a, <2>1, <2>2, <2>4 DEF FreshInv, Registered, Connected
<1>13. ASSUME NEW r \in Requests, Ends(r) PROVE FreshInv'
  <2>1. /\ lease' = [lease EXCEPT ![r] = lease'[r]] /\ lease'[r].phase = "over"
        /\ UNCHANGED port /\ session'.epoch = session.epoch
    BY <1>13, EndsFacts
  <2>2. \A q \in Requests \ {r} : lease'[q] = lease[q]
    BY <1>a, <2>1
  <2> QED BY <1>a, <2>1, <2>2, PhaseFacts DEF FreshInv, Registered, Connected
<1> QED BY <1>0, <1>1, <1>2, <1>3, <1>4, <1>5, <1>6, <1>7, <1>8, <1>9, <1>10, <1>11, <1>12, <1>13, LeaseMoves

\* As long as nothing divides the session, a step that runs uncancelled is current: its
\* answer finds its port, its tab its session (brokerLeaseIsCurrent).
THEOREM UncancelledIsCurrent ==
  LeaseSpec /\ []Undivided => [](\A r \in Steps : Registered(r) /\ ~lease[r].cancelled => Current(r) /\ Connected)
<1>1. LeaseInit => FreshInv
  BY PhaseFacts DEF LeaseInit, FreshInv, Registered, Requests
<1>2. FreshInv => \A r \in Steps : Registered(r) /\ ~lease[r].cancelled => Current(r) /\ Connected
  BY DEF FreshInv, Current, Requests
<1> QED BY <1>1, <1>2, FreshStep, QueuesHold, PTL DEF LeaseSpec

\* A request that Chrome opens a tab for, or has opened one for, waits for it or was
\* cancelled meanwhile; and it asks only in a session that has no tab.
Asking(r) ==
  /\ r \in asked => made[r] = None
  /\ r \in asked \/ made[r] # None =>
       loaded /\ (lease[r].phase = "creating" \/ (lease[r].phase = "over" /\ lease[r].cancelled))
  /\ lease[r].phase = "creating" =>
       loaded /\ r \in Steps /\ (lease[r].cancelled \/ session.tab = None)

\* Before the sessions are loaded there is no tab but the stored one.
TabInv ==
  /\ \A r \in Requests : Asking(r)
  /\ ~loaded => session.tab = None /\ opened \subseteq {Stored}
  /\ TabsAreOwned

\* Nothing is asked or made, and a tab that the session lets go of is closed, about to be
\* or left to the user: TabInv is kept.
LEMMA TabsKeep ==
  ASSUME LeaseTypeInv, TabInv, UNCHANGED <<loaded, asked, made, opened>>,
         \A q \in Requests :
           /\ lease[q].cancelled => lease'[q].cancelled
           /\ \/ lease'[q].phase = lease[q].phase
              \/ lease[q].phase \notin {"creating", "over"} /\ lease'[q].phase # "creating"
              \/ lease[q].phase = "creating" /\ lease[q].cancelled /\ lease'[q].phase = "over",
         \/ session'.tab = session.tab
         \/ session'.tab = None /\ session.tab \in removing' \cup retained' \cup closed' \cup {None},
         removing \subseteq removing' \cup closed', retained \subseteq retained', closed \subseteq closed'
  PROVE  TabInv'
<1>1. \A r \in Requests : Asking(r)'
  BY DEF TabInv, Asking
<1>2. ~loaded' => session'.tab = None /\ opened' \subseteq {Stored}
  BY DEF TabInv
<1>3. ASSUME NEW t \in Open'
      PROVE  \/ ~loaded' \/ t = session'.tab \/ t \in removing' \/ t \in retained'
             \/ \E r \in Requests : made'[r] = t
  <2>1. t \in Open /\ t \notin closed' /\ t # None
    BY LeaseAssumption DEF Open, LeaseTypeInv, LeaseTypeOK
  <2>2. \/ ~loaded \/ t = session.tab \/ t \in removing \/ t \in retained
        \/ \E r \in Requests : made[r] = t
    BY <2>1 DEF TabInv, TabsAreOwned
  <2> QED BY <2>1, <2>2
<1> QED BY <1>1, <1>2, <1>3 DEF TabInv, TabsAreOwned

\* Every step that leaves the session undivided keeps its tabs owned.
LEMMA TabStep ==
  LeaseTypeInv /\ QueueInv /\ TimedOutInv /\ FreshInv /\ TabInv /\ Undivided /\ [LeaseNext]_leaseVars
    => TabInv'
<1> SUFFICES ASSUME LeaseTypeInv, QueueInv, TimedOutInv, FreshInv, TabInv, Undivided, [LeaseNext]_leaseVars
             PROVE  TabInv'
  OBVIOUS
<1>a. /\ lease \in [Requests -> Leases] /\ \A q \in Requests : lease[q] \in Leases
      /\ session \in [epoch : Nat, tab : Tabs \cup {None}]
      /\ made \in [Requests -> Tabs \cup {None}]
      /\ \A q \in Steps : q \in Requests
      /\ Steps \cap Closes = {} /\ None \notin Tabs
      /\ opened \subseteq Tabs /\ closed \subseteq opened
  BY LeaseAssumption DEF LeaseTypeInv, LeaseTypeOK, Requests
<1>0. CASE UNCHANGED leaseVars \/ Connect \/ Prune
  <2>1. UNCHANGED <<loaded, asked, made, opened, lease, removing, retained, closed>> /\ session'.tab = session.tab
    BY <1>0, <1>a DEF leaseVars, Connect, Prune, chrome, tabs
  <2> QED BY <2>1, TabsKeep
<1>1. CASE Disconnect
  <2>1. /\ lease' = [q \in Requests |-> [lease[q] EXCEPT !.cancelled = @ \/ q \in OfPort]]
        /\ session'.tab = session.tab
        /\ UNCHANGED <<loaded, asked, made, opened, removing, retained, closed>>
    BY <1>1, <1>a DEF Disconnect, tabs
  <2>2. \A q \in Requests : lease'[q].phase = lease[q].phase /\ (lease[q].cancelled => lease'[q].cancelled)
    BY <1>a, <2>1 DEF Leases
  <2> QED BY <2>1, <2>2, TabsKeep
<1>2. CASE Load
  <2>1. /\ ~loaded /\ loaded' /\ UNCHANGED <<lease, asked, made, opened, removing, retained, closed>>
        /\ Stored = None => UNCHANGED session
        /\ Stored # None => session'.tab = Stored
    BY <1>2 DEF Load, chrome, tabs
  <2>2. opened \subseteq {Stored} /\ session.tab = None
    BY <2>1 DEF TabInv
  <2>3. \A r \in Requests : lease[r].phase # "creating" /\ r \notin asked /\ made[r] = None
    BY <2>1 DEF TabInv, Asking
  <2>4. \A r \in Requests : Asking(r)'
    BY <2>1, <2>3 DEF Asking
  <2>5. \A t \in Open' : t = session'.tab
    BY <1>a, <2>1, <2>2 DEF Open
  <2> QED BY <2>1, <2>4, <2>5 DEF TabInv, TabsAreOwned
<1>3. ASSUME NEW r \in Requests, Deliver(r) \/ TakesTurn(r) PROVE TabInv'
  <2>1. /\ lease[r].phase \in {"new", "queued"} /\ \A q \in Requests \ {r} : lease'[q] = lease[q]
        /\ UNCHANGED <<session, loaded, asked, made, opened, removing, retained, closed>>
    BY <1>3, <1>a DEF Deliver, TakesTurn, Arrives, chrome, tabs
  <2>2. lease'[r].phase \in {"queued", "loading"} /\ lease'[r].cancelled = lease[r].cancelled
    <3>1. CASE Deliver(r)
      BY <1>a, <3>1 DEF Deliver, Leases
    <3>2. CASE TakesTurn(r)
      BY <1>a, <3>2 DEF TakesTurn, Leases
    <3> QED BY <1>3, <3>1, <3>2
  <2> QED BY <2>1, <2>2, TabsKeep
<1>3a. ASSUME NEW r \in Requests, CancelRequest(r) PROVE TabInv'
  <2>1. /\ lease' = [lease EXCEPT ![r].cancelled = TRUE]
        /\ UNCHANGED <<session, loaded, asked, made, opened, removing, retained, closed>>
    BY <1>3a DEF CancelRequest, tabs
  <2>2. /\ lease'[r].phase = lease[r].phase /\ lease'[r].cancelled
        /\ \A q \in Requests \ {r} : lease'[q] = lease[q]
    BY <1>a, <2>1 DEF Leases
  <2> QED BY <2>1, <2>2, TabsKeep
<1>4. ASSUME NEW r \in Requests, DeliverClose(r) PROVE TabInv'
  <2>1. /\ lease[r].phase = "new" /\ session'.tab = session.tab
        /\ UNCHANGED <<loaded, asked, made, opened, removing, retained, closed>>
        /\ \E keep \in BOOLEAN :
             lease' = [q \in Requests |->
                        IF q = r THEN [lease[q] EXCEPT !.phase = "loading", !.port = port,
                                                       !.epoch = session.epoch + 1, !.keep = keep]
                        ELSE [lease[q] EXCEPT !.cancelled = @ \/ Registered(q)]]
    BY <1>4, <1>a DEF DeliverClose, Arrives, chrome, tabs
  <2>2. /\ lease'[r].phase = "loading" /\ (lease[r].cancelled => lease'[r].cancelled)
        /\ \A q \in Requests \ {r} : lease'[q].phase = lease[q].phase /\ (lease[q].cancelled => lease'[q].cancelled)
    <3>1. \A q \in Requests : LET new == [lease[q] EXCEPT !.cancelled = @ \/ Registered(q)]
                              IN  new.phase = lease[q].phase /\ (lease[q].cancelled => new.cancelled)
      BY <1>a DEF Leases
    <3>2. \A keep \in BOOLEAN :
            LET new == [lease[r] EXCEPT !.phase = "loading", !.port = port,
                                        !.epoch = session.epoch + 1, !.keep = keep]
            IN  new.phase = "loading" /\ new.cancelled = lease[r].cancelled
      BY <1>a DEF Leases
    <3> HIDE DEF Leases
    <3> QED BY <2>1, <3>1, <3>2
  <2> QED BY <2>1, <2>2, TabsKeep
<1>5. ASSUME NEW r \in Requests, Loaded(r) PROVE TabInv'
  <2>1. PICK next \in {"creating", "guarded", "unguarded"} :
          /\ next = "creating" => session.tab = None
          /\ lease' = [lease EXCEPT ![r].phase = next]
          /\ asked' = IF next = "creating" THEN asked \cup {r} ELSE asked
    BY <1>5 DEF Loaded
  <2>2. /\ r \in Steps /\ lease[r].phase = "loading" /\ loaded
        /\ UNCHANGED <<session, loaded, made, opened, removing, retained, closed>>
    BY <1>5 DEF Loaded
  <2>3. /\ lease'[r].phase = next /\ lease'[r].cancelled = lease[r].cancelled
        /\ \A q \in Requests \ {r} : lease'[q] = lease[q]
    BY <1>a, <2>1 DEF Leases
  <2>4. made[r] = None /\ r \notin asked
    BY <2>2 DEF TabInv, Asking
  <2>5. Asking(r)'
    BY <2>1, <2>2, <2>3, <2>4 DEF Asking
  <2>6. \A q \in Requests \ {r} : Asking(q)'
    BY <2>1, <2>2, <2>3 DEF TabInv, Asking
  <2> QED BY <2>2, <2>5, <2>6 DEF TabInv, TabsAreOwned, Open
<1>6. ASSUME NEW r \in Requests, ChromeCreates(r) PROVE TabInv'
  <2>1. PICK t \in Tabs \ opened : made' = [made EXCEPT ![r] = t] /\ opened' = opened \cup {t}
    BY <1>6 DEF ChromeCreates
  <2>2. /\ r \in asked /\ asked' = asked \ {r}
        /\ UNCHANGED <<loaded, session, lease, removing, retained, closed>>
    BY <1>6 DEF ChromeCreates
  <2>3. made'[r] = t /\ made[r] = None /\ loaded /\ \A q \in Requests \ {r} : made'[q] = made[q]
    BY <1>a, <2>1, <2>2 DEF TabInv, Asking
  <2>4. \A q \in Requests : Asking(q)'
    BY <2>2, <2>3 DEF TabInv, Asking
  <2>5. ASSUME NEW u \in Open'
        PROVE  \/ u = session.tab \/ u \in removing \/ u \in retained
               \/ \E q \in Requests : made'[q] = u
    <3>1. CASE u = t
      BY <2>3, <3>1
    <3>2. CASE u # t
      <4>1. u \in Open /\ u # None
        BY <1>a, <2>1, <2>2, <3>2 DEF Open
      <4> QED BY <2>3, <4>1 DEF TabInv, TabsAreOwned
    <3> QED BY <3>1, <3>2
  <2> QED BY <2>2, <2>3, <2>4, <2>5 DEF TabInv, TabsAreOwned
<1>7. ASSUME NEW r \in Requests, CreateReturns(r) /\ Current(r) PROVE TabInv'
  <2>1. /\ made[r] # None /\ lease[r].phase = "creating" /\ ~lease[r].cancelled
        /\ made' = [made EXCEPT ![r] = None]
        /\ UNCHANGED <<asked, opened, closed, retained, loaded, removing>>
        /\ session' = [session EXCEPT !.tab = made[r]]
    BY <1>7 DEF CreateReturns, Seen
  <2>2. PICK next \in {"guarded", "unguarded"} : lease' = [lease EXCEPT ![r].phase = next]
    BY <1>7 DEF CreateReturns
  <2>3. /\ lease'[r].phase = next /\ next # "creating"
        /\ \A q \in Requests \ {r} : lease'[q] = lease[q]
    BY <1>a, <2>2 DEF Leases
  <2>4. /\ session.tab = None /\ loaded /\ r \in Steps /\ r \notin asked
        /\ made'[r] = None /\ session'.tab = made[r]
        /\ \A q \in Requests \ {r} : made'[q] = made[q]
    BY <1>a, <2>1 DEF TabInv, Asking
  <2>5. \A q \in Requests \ {r} : lease[q].phase = "creating" => lease[q].cancelled
    <3>1. \A q \in Steps : Registered(q) /\ ~lease[q].cancelled => q = r
      BY <2>1, <2>4, OneUncancelled, PhaseFacts DEF Registered
    <3>2. \A q \in Requests : lease[q].phase = "creating" => q \in Steps /\ Registered(q)
      BY PhaseFacts DEF TabInv, Asking, Registered
    <3> QED BY <3>1, <3>2
  <2>6. \A q \in Requests \ {r} : Asking(q)'
    BY <2>1, <2>3, <2>4, <2>5 DEF TabInv, Asking
  <2>7. Asking(r)'
    BY <2>1, <2>3, <2>4 DEF Asking
  <2>8. ASSUME NEW t \in Open'
        PROVE  \/ t = session'.tab \/ t \in removing' \/ t \in retained'
               \/ \E q \in Requests : made'[q] = t
    <3>1. t \in Open /\ t # None
      BY <1>a, <2>1 DEF Open
    <3>2. t \in removing \/ t \in retained \/ \E q \in Requests : made[q] = t
      BY <2>4, <3>1 DEF TabInv, TabsAreOwned
    <3> QED BY <2>1, <2>4, <3>2
  <2> QED BY <2>1, <2>4, <2>6, <2>7, <2>8 DEF TabInv, TabsAreOwned
<1>8. ASSUME NEW r \in Requests, CreateReturnsLate(r) PROVE TabInv'
  <2>1. /\ made[r] # None /\ made' = [made EXCEPT ![r] = None]
        /\ UNCHANGED <<asked, opened, closed, retained, loaded, lease, session>>
        /\ lease[r].phase = "over"
    BY <1>8 DEF CreateReturnsLate, Seen
  <2>2. lease[r].cancelled /\ r \notin asked
    BY <2>1 DEF TabInv, Asking
  <2>3. removing' = removing \cup {made[r]}
    BY <1>8, <2>2 DEF CreateReturnsLate, Late, Current
  <2>4. made'[r] = None /\ \A q \in Requests \ {r} : made'[q] = made[q]
    BY <1>a, <2>1
  <2>5. \A q \in Requests : Asking(q)'
    BY <2>1, <2>2, <2>4 DEF TabInv, Asking
  <2>6. ASSUME NEW t \in Open'
        PROVE  \/ ~loaded' \/ t = session'.tab \/ t \in removing' \/ t \in retained'
               \/ \E q \in Requests : made'[q] = t
    <3>1. t \in Open
      BY <2>1 DEF Open
    <3> QED BY <2>1, <2>3, <2>4, <3>1 DEF TabInv, TabsAreOwned
  <2> QED BY <2>1, <2>5, <2>6 DEF TabInv, TabsAreOwned
<1>9. ASSUME NEW r \in Requests, CloseTab(r) PROVE TabInv'
  <2>1. /\ lease[r].phase = "loading"
        /\ lease' = [lease EXCEPT ![r] = [@ EXCEPT !.phase = "disposing", !.tab = session.tab]]
        /\ session'.tab = None /\ removing' = removing \cup {session.tab}
        /\ UNCHANGED <<loaded, asked, made, opened, retained, closed>>
    BY <1>9, <1>a DEF CloseTab, Forget
  <2>2. /\ lease'[r].phase = "disposing" /\ lease'[r].cancelled = lease[r].cancelled
        /\ \A q \in Requests \ {r} : lease'[q] = lease[q]
    BY <1>a, <2>1 DEF Leases
  <2> QED BY <2>1, <2>2, TabsKeep
<1>10. ASSUME NEW r \in Requests, QuarantineDisposes(r) PROVE TabInv'
  <2>1. /\ session'.tab = None /\ removing' = removing \cup ({session.tab} \ {None})
        /\ UNCHANGED <<loaded, asked, made, opened, retained, closed, lease>>
    BY <1>10, <1>a DEF QuarantineDisposes, Forget
  <2> QED BY <2>1, TabsKeep
<1>11. ASSUME NEW t \in Tabs, ChromeCloses(t) \/ UserCloses(t) PROVE TabInv'
  <2>1. /\ closed' = closed \cup {t} /\ removing' \in {removing, removing \ {t}}
        /\ session'.tab = IF session.tab = t THEN None ELSE session.tab
        /\ UNCHANGED <<loaded, asked, made, opened, retained, lease>>
    BY <1>11, <1>a DEF ChromeCloses, UserCloses, Unbound
  <2> QED BY <2>1, TabsKeep
<1>12. ASSUME NEW r \in Requests, Watchdog(r) PROVE TabInv'
  <2>1. /\ lease' = [lease EXCEPT ![r] = [@ EXCEPT !.cancelled = TRUE, !.timedOut = TRUE]]
        /\ session'.tab = session.tab
        /\ UNCHANGED <<loaded, asked, made, opened, removing, retained, closed>>
    BY <1>12, <1>a DEF Watchdog, Fence, chrome, tabs
  <2>2. /\ lease'[r].phase = lease[r].phase /\ lease'[r].cancelled
        /\ \A q \in Requests \ {r} : lease'[q] = lease[q]
    BY <1>a, <2>1 DEF Leases
  <2> QED BY <2>1, <2>2, TabsKeep
<1>13. ASSUME NEW r \in Requests, Ends(r) PROVE TabInv'
  <2>1. /\ lease' = [lease EXCEPT ![r] = lease'[r]] /\ lease'[r].phase = "over"
        /\ lease'[r].cancelled = lease[r].cancelled /\ UNCHANGED <<loaded, asked>>
    BY <1>13, EndsFacts
  <2>2. \A q \in Requests \ {r} : lease'[q] = lease[q]
    BY <1>a, <2>1
  <2>3. ~(CreateReturns(r) /\ ~Current(r))
    <3>1. SUFFICES ASSUME CreateReturns(r) PROVE Current(r)
      OBVIOUS
    <3>2. lease[r].phase = "creating" /\ ~lease[r].cancelled
      BY <3>1 DEF CreateReturns
    <3>3. r \in Steps /\ Registered(r)
      BY <3>2, PhaseFacts DEF TabInv, Asking, Registered
    <3> QED BY <3>2, <3>3 DEF FreshInv, Current
  <2>4. CASE CloseAtOnce(r)
    <3>1. /\ lease[r].phase = "loading" /\ session'.tab = None
          /\ retained' = retained \cup ({session.tab} \ {None})
          /\ UNCHANGED <<made, opened, closed, removing>>
      BY <2>4, <1>a DEF CloseAtOnce, Forget
    <3> QED BY <2>1, <2>2, <3>1, TabsKeep
  <2>5. CASE ~CloseAtOnce(r)
    <3>1. /\ UNCHANGED <<session, made, opened, closed, removing, retained>>
          /\ lease[r].phase = "creating" => lease[r].cancelled
          /\ lease[r].phase # "over"
      BY <1>13, <2>3, <2>5 DEF Ends, Drop, EndsStale, Unwind, WorkReturns, CloseReturns, chrome, tabs
    <3> QED BY <2>1, <2>2, <3>1, TabsKeep
  <2> QED BY <2>4, <2>5
<1> QED BY <1>0, <1>1, <1>2, <1>3, <1>3a, <1>4, <1>5, <1>6, <1>7, <1>8, <1>9, <1>10, <1>11, <1>12, <1>13, LeaseMoves

\* No tab of the session is lost, as long as loading the stored sessions does not divide it
\* (cleanupLateBrokerSideEffectResult, disposeWorkflowSession, commitWorkflowTabIdForLease);
\* this covers every run up to its division, for such a beginning may stutter from then on.
THEOREM TabsAreOwnedHolds == LeaseSpec /\ []Undivided => []TabsAreOwned
<1>1. LeaseInit => FreshInv
  BY PhaseFacts DEF LeaseInit, FreshInv, Registered, Requests
<1>2. LeaseInit => TabInv
  <2> SUFFICES ASSUME LeaseInit PROVE TabInv
    OBVIOUS
  <2>1. \A r \in Requests : lease[r].phase = "new" /\ made[r] = None /\ r \notin asked
    BY DEF LeaseInit
  <2>2. /\ session.tab = IF loaded THEN 1 ELSE None
        /\ opened = (IF loaded THEN {1} ELSE {Stored}) \ {None}
    BY DEF LeaseInit
  <2> QED BY <2>1, <2>2 DEF TabInv, Asking, TabsAreOwned, Open
<1>3. TabInv => TabsAreOwned
  BY DEF TabInv
<1> QED BY <1>1, <1>2, <1>3, FreshStep, TabStep, QueuesHold, PTL DEF LeaseSpec

\* Nothing divides a session that no earlier worker has stored
\* (loadWorkflowSessionsFromStorage finds none).
THEOREM NothingStored ==
  ASSUME Stored = None
  PROVE  LeaseSpec => []Undivided
<1>1. LeaseInit => Undivided
  BY DEF LeaseInit, Undivided
<1>2. Undivided /\ [LeaseNext]_leaseVars => Undivided'
  <2> SUFFICES ASSUME Undivided, [LeaseNext]_leaseVars PROVE forsaken' = <<>>
    BY DEF Undivided
  <2>1. \A r \in Requests : Behind(forsaken, r) = <<>>
    BY DEF Undivided, Behind
  <2>2. CASE UNCHANGED forsaken
    BY <2>2 DEF Undivided
  <2>3. ASSUME NEW r \in Requests, Watchdog(r) \/ Ends(r) PROVE forsaken' = <<>>
    <3>1. Ends(r) => EndsWithAnswer(r)
      BY DEF Ends, Drop, EndsStale, Unwind, WorkReturns, CloseReturns, CloseAtOnce, CreateReturns
    <3> QED BY <2>1, <2>3, <3>1 DEF Watchdog, Passes, EndsWithAnswer
  <2>4. CASE Connect \/ Disconnect \/ Load \/ Prune
    BY <2>4, <2>2 DEF Connect, Disconnect, Load, Prune
  <2>5. ASSUME NEW r \in Requests,
               \/ Deliver(r) \/ DeliverClose(r) \/ CancelRequest(r) \/ TakesTurn(r) \/ Loaded(r)
               \/ CreateReturns(r) /\ Current(r)
               \/ CreateReturnsLate(r) \/ CloseTab(r) \/ ChromeCreates(r) \/ QuarantineDisposes(r)
        PROVE  forsaken' = <<>>
    BY <2>5, <2>2 DEF Deliver, DeliverClose, CancelRequest, TakesTurn, Loaded, CreateReturns,
                      CreateReturnsLate, CloseTab, ChromeCreates, QuarantineDisposes
  <2>6. ASSUME NEW t \in Tabs, ChromeCloses(t) \/ UserCloses(t) PROVE forsaken' = <<>>
    BY <2>6, <2>2 DEF ChromeCloses, UserCloses
  <2> QED BY <2>2, <2>3, <2>4, <2>5, <2>6, LeaseMoves DEF leaseVars
<1> QED BY <1>1, <1>2, PTL DEF LeaseSpec
=============================================================================
