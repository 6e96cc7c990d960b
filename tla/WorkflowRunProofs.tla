-------------------------- MODULE WorkflowRunProofs --------------------------
(***************************************************************************)
(* Type correctness of a workflow run, that a paused site is left alone,   *)
(* that an external write is applied once and that a tab left open is the  *)
(* tab of the state file, for any runs, workflow and bounds.               *)
(***************************************************************************)
EXTENDS WorkflowRun, TLAPS

\* A call in flight, or about to be sent again, is one of the steps of the workflow.
CallsAreSteps == \A r \in Runs : pc[r] \in {"call", "delay"} => at[r] \in Steps

TypeInv == TypeOK /\ CallsAreSteps

\* Where a run can be.
Labels == {"idle", "queued", "ready", "claim", "open", "step", "call", "delay", "snapshot", "close",
           "release", "record", "ran", "done", "refused", "broken", "dead"}

\* Arithmetic of the counters.
LEMMA NextStep == ASSUME NEW n \in Steps PROVE n + 1 \in 1..(Length + 1)
  BY WorkflowAssumption DEF Steps

LEMMA OneMore == ASSUME NEW m \in Nat, NEW n \in 0..m, n < m PROVE n + 1 \in 0..m
  OBVIOUS

LEMMA OneLess == ASSUME NEW n \in Nat, n > 0 PROVE n - 1 \in Nat
  OBVIOUS

\* What a call that is given up leaves has the types of its variables.
LEMMA GiveUpTypes ==
  ASSUME TypeInv, NEW r \in Runs, pc[r] = "call", GiveUp(r)
  PROVE  /\ effect' \in [Runs -> {"none", "pending", "applied"}]
         /\ late' \in [Runs -> [Steps -> Nat]]
         /\ UNCHANGED <<open, own, applied>>
<1>1. at[r] \in Steps
  BY DEF TypeInv, CallsAreSteps
<1>2. late[r] \in [Steps -> Nat] /\ late[r][at[r]] + 1 \in Nat
  BY <1>1 DEF TypeInv, TypeOK
<1>3. [late[r] EXCEPT ![at[r]] = @ + 1] \in [Steps -> Nat]
  BY <1>1, <1>2
<1> QED
  BY <1>3 DEF GiveUp, TypeInv, TypeOK

\* So has what a step that is applied leaves.
LEMMA AppliesTypes ==
  ASSUME TypeInv, NEW r \in Runs, NEW i \in Steps, Applies(r, i)
  PROVE  /\ applied' \in [Runs -> [Writes -> Nat]]
         /\ open' \subseteq Tabs /\ own' \in [Runs -> Tabs \cup {None}]
<1>1. applied' \in [Runs -> [Writes -> Nat]]
  <2>1. CASE i \in Writes
    <3>1. [applied[r] EXCEPT ![i] = @ + 1] \in [Writes -> Nat]
      BY <2>1 DEF TypeInv, TypeOK
    <3> QED BY <2>1, <3>1 DEF Applies, TypeInv, TypeOK
  <2> QED BY <2>1 DEF Applies, TypeInv, TypeOK
<1>2. open' \subseteq Tabs /\ own' \in [Runs -> Tabs \cup {None}]
  <2>1. CASE UNCHANGED <<open, own>>
    BY <2>1 DEF TypeInv, TypeOK
  <2>2. ASSUME NEW t \in Unused, open' = open \cup {t}, own' = [own EXCEPT ![r] = t]
        PROVE  open' \subseteq Tabs /\ own' \in [Runs -> Tabs \cup {None}]
    BY <2>2 DEF Unused, TypeInv, TypeOK
  <2> QED BY <2>1, <2>2 DEF Applies
<1> QED BY <1>1, <1>2

\* So has what a process that ends leaves.
LEMMA ExitTypes ==
  ASSUME TypeInv, NEW r \in Runs, Exit(r)
  PROVE  /\ at' \in [Runs -> 1..(Length + 1)] /\ retries' \in [Runs -> 0..MaxRetries]
         /\ parked' \in [Runs -> Tabs \cup {None}] /\ error' \in [Runs -> Errors]
         /\ cancelled' \in [Runs -> {"no", "asked", "signal"}] /\ session' \in [Runs -> BOOLEAN]
         /\ lock' \in Runs \cup {None}
         /\ \A q \in Runs \ {r} : at'[q] = at[q]
  BY WorkflowAssumption DEF Exit, TypeInv, TypeOK, Errors

\* A tab a call works in is a tab.
LEMMA TabOfType == ASSUME TypeInv, NEW r \in Runs PROVE TabOf(r) \in Tabs \cup {None}
  BY DEF TypeInv, TypeOK, TabOf

\* A run that makes no call itself leaves the calls of the others as they were.
LEMMA OthersCall ==
  ASSUME CallsAreSteps, NEW r \in Runs, pc'[r] \notin {"call", "delay"},
         \A q \in Runs \ {r} : pc'[q] = pc[q] /\ at'[q] = at[q]
  PROVE  CallsAreSteps'
  BY DEF CallsAreSteps

\* A step that succeeds takes the run to its next, or to the end.
LEMMA SucceedsTypes ==
  ASSUME TypeInv, NEW r \in Runs, Succeeds(r)
  PROVE  TypeInv'
<1>1. at[r] \in Steps
  BY DEF Succeeds, TypeInv, CallsAreSteps
<1>2. at' = [at EXCEPT ![r] = at[r] + 1] /\ at[r] + 1 \in 1..(Length + 1)
  <2>1. at' = [at EXCEPT ![r] = at[r] + 1]
    BY DEF Succeeds
  <2>2. at[r] + 1 \in 1..(Length + 1)
    BY ONLY <1>1, NextStep
  <2> QED BY <2>1, <2>2
<1>3. at' \in [Runs -> 1..(Length + 1)] /\ \A q \in Runs \ {r} : at'[q] = at[q]
  <2>1. at \in [Runs -> 1..(Length + 1)]
    BY DEF TypeInv, TypeOK
  <2> QED BY ONLY <1>2, <2>1
<1>4. pc' = [pc EXCEPT ![r] = "step"] \/ pc' = [pc EXCEPT ![r] = "close"]
  BY DEF Succeeds, Go
<1>5. pc \in [Runs -> Labels] /\ pc'[r] \in {"step", "close"}
        /\ \A q \in Runs \ {r} : pc'[q] = pc[q]
  <2>1. pc \in [Runs -> Labels]
    BY DEF TypeInv, TypeOK, Labels
  <2> QED BY ONLY <1>4, <2>1, r \in Runs
<1>6. CallsAreSteps'
  BY ONLY <1>3, <1>5, OthersCall, TypeInv, r \in Runs DEF TypeInv
<1>7. seen' \in [Runs -> Tabs \cup {None}]
  <2>1. seen' = seen \/ seen' = [seen EXCEPT ![r] = TabOf(r)]
    BY DEF Succeeds, SeesTab
  <2>2. seen \in [Runs -> Tabs \cup {None}]
    BY DEF TypeInv, TypeOK
  <2> QED BY ONLY <2>1, <2>2, TabOfType, TypeInv, r \in Runs
<1>8. retries' \in [Runs -> 0..MaxRetries] /\ effect' \in [Runs -> {"none", "pending", "applied"}]
  BY WorkflowAssumption DEF Succeeds, TypeInv, TypeOK
<1>9. UNCHANGED <<lock, site, parked, slot, ref, again, error, cancelled, session, open, own,
                  late, applied, faults, left>>
  BY DEF Succeeds, queue
<1>10. pc' \in [Runs -> Labels]
  BY ONLY <1>4, <1>5 DEF Labels
<1> QED BY <1>3, <1>6, <1>7, <1>8, <1>9, <1>10 DEF TypeInv, TypeOK, Labels

\* A step that fails takes the run to the end, with or without a snapshot.
LEMMA FailTypes ==
  ASSUME TypeInv, NEW r \in Runs, NEW e \in Errors, pc[r] = "call", Fail(r, e), UNCHANGED at
  PROVE  /\ error' \in [Runs -> Errors]
         /\ pc' \in [Runs -> Labels]
         /\ CallsAreSteps'
<1>1. pc' = [pc EXCEPT ![r] = "snapshot"] \/ pc' = [pc EXCEPT ![r] = "close"]
  BY DEF Fail, Go
<1>2. pc \in [Runs -> Labels]
  BY DEF TypeInv, TypeOK, Labels
<1>3. pc'[r] \in {"snapshot", "close"} /\ \A q \in Runs \ {r} : pc'[q] = pc[q] /\ at'[q] = at[q]
  BY ONLY <1>1, <1>2, r \in Runs, UNCHANGED at
<1>4. CallsAreSteps'
  BY ONLY <1>3, OthersCall, TypeInv, r \in Runs DEF TypeInv
<1>5. error' \in [Runs -> Errors]
  BY DEF Fail, TypeInv, TypeOK
<1>6. pc' \in [Runs -> Labels]
  BY ONLY <1>1, <1>2 DEF Labels
<1> QED BY <1>4, <1>5, <1>6

\* Every step preserves the types; that the counters of a call are of one of its steps is
\* what CallsAreSteps is for.
LEMMA TypeStep == TypeInv /\ [Next]_vars => TypeInv'
<1> SUFFICES ASSUME TypeInv, [Next]_vars PROVE TypeInv'
  OBVIOUS
<1> USE WorkflowAssumption
        DEF TypeInv, TypeOK, CallsAreSteps, Errors, Steps, Go, queue, course, tabs, browser
<1>0. CASE UNCHANGED vars
  BY <1>0 DEF vars
<1>1. ASSUME NEW r \in Runs, Start(r) PROVE TypeInv'
  BY <1>1 DEF Start
<1>2. ASSUME NEW r \in Runs, Acquire(r) PROVE TypeInv'
  BY <1>2 DEF Acquire
<1>3. ASSUME NEW r \in Runs, Refused(r) PROVE TypeInv'
  BY <1>3 DEF Refused
<1>4. ASSUME NEW r \in Runs, Ready(r) PROVE TypeInv'
  BY <1>4 DEF Ready
<1>5. ASSUME NEW r \in Runs, Claim(r) PROVE TypeInv'
  BY <1>5 DEF Claim
<1>6. ASSUME NEW r \in Runs, OpenSession(r) PROVE TypeInv'
  BY <1>6 DEF OpenSession
<1>7. ASSUME NEW r \in Runs, NotReady(r) PROVE TypeInv'
  BY <1>7 DEF NotReady
<1>8. ASSUME NEW r \in Runs, ClaimFails(r) PROVE TypeInv'
  BY <1>8 DEF ClaimFails
<1>9. ASSUME NEW r \in Runs, OpenFails(r) PROVE TypeInv'
  BY <1>9 DEF OpenFails
<1>9a. ASSUME NEW r \in Runs, StoreFails(r) PROVE TypeInv'
  BY <1>9a DEF StoreFails
<1>10. ASSUME NEW r \in Runs, Send(r) PROVE TypeInv'
  BY <1>10 DEF Send
<1>11. ASSUME NEW r \in Runs, WaitLocally(r) PROVE TypeInv'
  <2>1. at[r] \in Steps /\ at' = [at EXCEPT ![r] = at[r] + 1]
    BY <1>11 DEF WaitLocally
  <2>2. at' \in [Runs -> 1..(Length + 1)]
    <3>1. at[r] + 1 \in 1..(Length + 1)
      BY ONLY <2>1, NextStep
    <3> QED BY <2>1, <3>1
  <2>3. retries' \in [Runs -> 0..MaxRetries]
    BY <1>11 DEF WaitLocally
  <2> QED BY <1>11, <2>2, <2>3 DEF WaitLocally
<1>12. ASSUME NEW r \in Runs, Finish(r) PROVE TypeInv'
  BY <1>12 DEF Finish
<1>13. ASSUME NEW r \in Runs, Apply(r) PROVE TypeInv'
  <2>1. at[r] \in Steps
    BY <1>13 DEF Apply
  <2>2. /\ applied' \in [Runs -> [Writes -> Nat]]
        /\ open' \subseteq Tabs /\ own' \in [Runs -> Tabs \cup {None}]
    BY <1>13, <2>1, AppliesTypes DEF Apply
  <2> QED BY <1>13, <2>2 DEF Apply
<1>14. ASSUME NEW r \in Runs, Succeeds(r) PROVE TypeInv'
  BY ONLY <1>14, SucceedsTypes, TypeInv
<1>15. ASSUME NEW r \in Runs, RetryTransient(r) PROVE TypeInv'
  <2>1. pc[r] = "call" /\ GiveUp(r)
    BY <1>15 DEF RetryTransient
  <2>2. retries' \in [Runs -> 0..MaxRetries]
    <3>1. retries[r] < MaxRetries /\ retries' = [retries EXCEPT ![r] = retries[r] + 1]
      BY <1>15 DEF RetryTransient, MayRetry
    <3>2. retries[r] + 1 \in 0..MaxRetries
      BY <3>1, OneMore
    <3> QED BY <3>1, <3>2
  <2> QED BY <1>15, <2>1, <2>2, GiveUpTypes DEF RetryTransient
<1>16. ASSUME NEW r \in Runs, Resend(r) PROVE TypeInv'
  BY <1>16 DEF Resend
<1>17. ASSUME NEW r \in Runs, StepFails(r) PROVE TypeInv'
  <2>1. pc[r] = "call" /\ GiveUp(r) /\ Fail(r, "other") /\ UNCHANGED at /\ "other" \in Errors
        /\ UNCHANGED <<lock, site, parked, slot, retries, ref, seen, again, cancelled, session, faults, left>>
    BY ONLY <1>17 DEF StepFails, queue, course, tabs, Errors
  <2>2. /\ error' \in [Runs -> Errors] /\ CallsAreSteps'
        /\ pc' \in [Runs -> Labels]
    BY ONLY <2>1, FailTypes, TypeInv, r \in Runs
  <2>3. /\ effect' \in [Runs -> {"none", "pending", "applied"}]
        /\ late' \in [Runs -> [Steps -> Nat]]
        /\ UNCHANGED <<open, own, applied>>
    BY ONLY <2>1, GiveUpTypes, TypeInv, r \in Runs
  <2> QED BY ONLY <2>1, <2>2, <2>3, TypeInv DEF TypeInv, TypeOK, Labels
<1>18. ASSUME NEW r \in Runs, TabMissing(r) PROVE TypeInv'
  <2>1. pc[r] = "call" /\ Fail(r, "missing") /\ UNCHANGED at /\ "missing" \in Errors
        /\ effect' = [effect EXCEPT ![r] = "none"]
        /\ UNCHANGED <<lock, site, parked, slot, retries, ref, seen, again, cancelled, session, open,
                       own, late, applied, faults, left>>
    BY ONLY <1>18 DEF TabMissing, queue, course, tabs, Errors
  <2>2. /\ error' \in [Runs -> Errors] /\ CallsAreSteps'
        /\ pc' \in [Runs -> Labels]
    BY ONLY <2>1, FailTypes, TypeInv, r \in Runs
  <2> QED BY ONLY <2>1, <2>2, TypeInv, r \in Runs DEF TypeInv, TypeOK, Labels
<1>19. ASSUME NEW r \in Runs, Challenge(r) PROVE TypeInv'
  <2>1. pc[r] = "call" /\ GiveUp(r) /\ Fail(r, "challenge") /\ UNCHANGED at /\ "challenge" \in Errors
        /\ UNCHANGED <<lock, site, parked, slot, retries, ref, seen, again, cancelled, session, left>>
    BY ONLY <1>19 DEF Challenge, queue, course, tabs, Errors
  <2>2. /\ error' \in [Runs -> Errors] /\ CallsAreSteps'
        /\ pc' \in [Runs -> Labels]
    BY ONLY <2>1, FailTypes, TypeInv, r \in Runs
  <2>3. faults' \in 0..MaxFaults
    BY <1>19, OneMore DEF Challenge, Fault
  <2>4. /\ effect' \in [Runs -> {"none", "pending", "applied"}]
        /\ late' \in [Runs -> [Steps -> Nat]]
        /\ UNCHANGED <<open, own, applied>>
    BY ONLY <2>1, GiveUpTypes, TypeInv, r \in Runs
  <2> QED BY ONLY <2>1, <2>2, <2>3, <2>4, TypeInv DEF TypeInv, TypeOK, Labels
<1>20. ASSUME NEW r \in Runs, Snapshot(r) PROVE TypeInv'
  BY <1>20 DEF Snapshot
<1>21. ASSUME NEW r \in Runs, Cancel(r) PROVE TypeInv'
  BY <1>21 DEF Cancel
<1>22. ASSUME NEW r \in Runs, CtrlC(r) PROVE TypeInv'
  BY <1>22 DEF CtrlC
<1>23. ASSUME NEW r \in Runs, Interrupt(r) PROVE TypeInv'
  <2>1. CASE pc[r] = "call"
    <3>1. GiveUp(r)
      BY <1>23, <2>1 DEF Interrupt
    <3> QED BY <1>23, <2>1, <3>1, GiveUpTypes DEF Interrupt
  <2>2. CASE pc[r] # "call"
    <3>1. /\ error' = [error EXCEPT ![r] = "cancelled"] /\ pc' = [pc EXCEPT ![r] = "close"]
          /\ UNCHANGED <<lock, site, parked, slot, at, retries, ref, seen, again, cancelled, session,
                         open, own, effect, late, applied, faults, left>>
      BY ONLY <1>23, <2>2 DEF Interrupt, queue, course, tabs, browser
    <3> QED BY <3>1
  <2> QED BY <2>1, <2>2
<1>24. ASSUME NEW r \in Runs, Close(r) PROVE TypeInv'
  <2>1. error' \in [Runs -> Errors]
    BY <1>24 DEF Close, Outcome
  <2>2. TabOf(r) \in Tabs \cup {None}
    BY DEF TabOf
  <2>3. left' \in [Runs -> Tabs \cup {None}] /\ open' \subseteq Tabs
    <3>1. CASE session[r] /\ ~Keeps(r)
      BY <1>24, <3>1 DEF Close
    <3>2. CASE ~(session[r] /\ ~Keeps(r))
      <4>1. left' = [left EXCEPT ![r] = IF session[r] THEN TabOf(r) ELSE @] /\ open' = open
        BY <1>24, <3>2 DEF Close
      <4> QED BY <2>2, <4>1
    <3> QED BY <3>1, <3>2
  <2> QED BY <1>24, <2>1, <2>3 DEF Close
<1>25. ASSUME NEW r \in Runs, CloseFails(r) PROVE TypeInv'
  BY <1>25 DEF CloseFails, Outcome
<1>26. ASSUME NEW r \in Runs, Release(r) PROVE TypeInv'
  BY <1>26 DEF Release
<1>26a. ASSUME NEW r \in Runs, ReleaseLost(r) PROVE TypeInv'
  BY <1>26a DEF ReleaseLost
<1>26b. ASSUME NEW r \in Runs, ReleaseLate(r) PROVE TypeInv'
  BY <1>26b DEF ReleaseLate
<1>27. ASSUME NEW r \in Runs, Record(r) PROVE TypeInv'
  BY <1>27 DEF Record
<1>28. ASSUME NEW r \in Runs, RecordFails(r) PROVE TypeInv'
  BY <1>28 DEF RecordFails
<1>29. ASSUME NEW r \in Runs, Rerun(r) PROVE TypeInv'
  <2>1. late' \in [Runs -> [Steps -> Nat]]
    BY <1>29 DEF Rerun
  <2>2. at' \in [Runs -> 1..(Length + 1)] /\ retries' \in [Runs -> 0..MaxRetries]
    BY <1>29 DEF Rerun
  <2> QED BY <1>29, <2>1, <2>2 DEF Rerun
<1>30. ASSUME NEW r \in Runs, Leave(r) PROVE TypeInv'
  <2>1. site' \in [tab : Tabs \cup {None}, target : {Target[q] : q \in Runs} \cup {None}, paused : BOOLEAN]
    BY <1>30 DEF Leave
  <2>2. Exit(r)
    BY <1>30 DEF Leave
  <2>3. TypeOK'
    BY <1>30, <2>1, <2>2, ExitTypes DEF Leave
  <2>4. pc'[r] = "done" /\ \A q \in Runs \ {r} : pc'[q] = pc[q]
    BY <1>30 DEF Leave
  <2>5. \A q \in Runs \ {r} : at'[q] = at[q]
    BY ONLY <2>2, ExitTypes, TypeInv, r \in Runs
  <2>6. CallsAreSteps'
    BY ONLY <2>4, <2>5, OthersCall, TypeInv, r \in Runs DEF TypeInv
  <2> QED BY <2>3, <2>6
<1>31. ASSUME NEW r \in Runs, LeaveFails(r) PROVE TypeInv'
  <2>1. Exit(r)
    BY <1>31 DEF LeaveFails
  <2>2. TypeOK'
    BY <1>31, <2>1, ExitTypes DEF LeaveFails
  <2>3. CallsAreSteps'
    BY <1>31, <2>1, ExitTypes DEF LeaveFails
  <2> QED BY <2>2, <2>3
<1>32. ASSUME NEW r \in Runs, LateStep(r) PROVE TypeInv'
  <2> PICK i \in Steps : ApplyLate(r, i)
    BY <1>32 DEF LateStep
  <2>1. late[r] \in [Steps -> Nat] /\ late[r][i] - 1 \in Nat
    <3>1. late[r][i] \in Nat /\ late[r][i] > 0
      BY DEF ApplyLate
    <3> QED BY <3>1, OneLess
  <2>2. [late[r] EXCEPT ![i] = @ - 1] \in [Steps -> Nat]
    BY <2>1
  <2>3. late' \in [Runs -> [Steps -> Nat]]
    BY <2>2 DEF ApplyLate
  <2> QED BY <2>3, AppliesTypes DEF ApplyLate
<1>33. ASSUME NEW r \in Runs, Kill(r) PROVE TypeInv'
  <2>1. Exit(r) /\ pc' = [pc EXCEPT ![r] = "dead"] /\ UNCHANGED <<site, slot, tabs, left>>
    BY <1>33 DEF Kill
  <2>2. faults' \in 0..MaxFaults
    BY <1>33, OneMore DEF Kill, Fault
  <2>3. /\ effect' \in [Runs -> {"none", "pending", "applied"}]
        /\ late' \in [Runs -> [Steps -> Nat]]
        /\ UNCHANGED <<open, own, applied>>
    BY <1>33, GiveUpTypes DEF Kill
  <2>4. TypeOK'
    BY <2>1, <2>2, <2>3, ExitTypes
  <2>5. CallsAreSteps'
    <3>1. ASSUME NEW q \in Runs, q # r PROVE pc'[q] = pc[q] /\ at'[q] = at[q]
      <4>1. pc'[q] = pc[q]
        BY <3>1, <2>1
      <4>2. at' = [at EXCEPT ![r] = 1]
        BY <2>1 DEF Exit
      <4>3. at'[q] = at[q]
        BY <3>1, <4>2
      <4> QED BY <4>1, <4>3
    <3>2. pc'[r] = "dead"
      BY <2>1
    <3> QED BY <3>1, <3>2
  <2> QED BY <2>4, <2>5
<1>34. CASE OtherClaims
  BY <1>34 DEF OtherClaims, Fault
<1>35. CASE OtherReleases
  BY <1>35 DEF OtherReleases
<1>36. CASE CooldownElapses
  BY <1>36 DEF CooldownElapses
<1>37. CASE UserClosesTab
  BY <1>37 DEF UserClosesTab, Fault
<1> QED
  BY <1>0, <1>1, <1>2, <1>3, <1>4, <1>5, <1>6, <1>7, <1>8, <1>9, <1>9a, <1>10, <1>11, <1>12, <1>13, <1>14, <1>15, <1>16, <1>17, <1>18, <1>19, <1>20, <1>21, <1>22, <1>23, <1>24, <1>25, <1>26, <1>26a, <1>26b, <1>27, <1>28, <1>29, <1>30, <1>31, <1>32, <1>33, <1>34, <1>35, <1>36, <1>37
     DEF Next, QueueStep, SetupStep, SetupFails, StepStep, EndStep

\* The type invariant holds throughout: phases, tabs, flags and the counters of calls.
THEOREM TypeCorrect == Spec => []TypeOK
<1>1. Init => TypeInv
  BY WorkflowAssumption DEF Init, TypeInv, TypeOK, CallsAreSteps, Errors, Steps
<1>2. TypeInv => TypeOK
  BY DEF TypeInv
<1> QED
  BY <1>1, <1>2, TypeStep, PTL DEF Spec

-----------------------------------------------------------------------------
\* It passed the gate of its site and has not ended.
Inside(r) == pc[r] \notin {"idle", "queued"} /\ ~Ended(r)

\* The inductive invariant. PausedSiteIsLeftAlone alone is not: the run that pauses the site
\* leaves it empty only because a run inside holds the lock.
GateInv ==
  /\ \A r \in Runs : Inside(r) => lock = r
  /\ PausedSiteIsLeftAlone

LEMMA GateStep == TypeInv /\ GateInv /\ [Next]_vars => GateInv'
<1> SUFFICES ASSUME TypeInv, GateInv, [Next]_vars PROVE GateInv'
  OBVIOUS
<1>a. pc = [q \in Runs |-> pc[q]] /\ lock \in Runs \cup {None} /\ None \notin Runs
  BY WorkflowAssumption DEF TypeInv, TypeOK
<1>b. site = [site EXCEPT !.paused = site.paused] /\ site.paused \in BOOLEAN
  BY DEF TypeInv, TypeOK
<1> USE <1>a DEF GateInv, Inside, PausedSiteIsLeftAlone, Ended, Go, queue
<1>0. CASE UNCHANGED vars
  BY <1>0 DEF vars
<1>1. ASSUME NEW r \in Runs, Start(r) PROVE GateInv'
  BY <1>1 DEF Start
<1>2. ASSUME NEW r \in Runs, Acquire(r) PROVE GateInv'
  BY <1>2 DEF Acquire
<1>3. ASSUME NEW r \in Runs, Refused(r) PROVE GateInv'
  BY <1>3 DEF Refused
<1>4. ASSUME NEW r \in Runs, Ready(r) PROVE GateInv'
  BY <1>4 DEF Ready
<1>5. ASSUME NEW r \in Runs, Claim(r) PROVE GateInv'
  BY <1>5 DEF Claim
<1>6. ASSUME NEW r \in Runs, OpenSession(r) PROVE GateInv'
  BY <1>6 DEF OpenSession
<1>7. ASSUME NEW r \in Runs, NotReady(r) PROVE GateInv'
  BY <1>7 DEF NotReady
<1>8. ASSUME NEW r \in Runs, ClaimFails(r) PROVE GateInv'
  BY <1>8 DEF ClaimFails
<1>9. ASSUME NEW r \in Runs, OpenFails(r) PROVE GateInv'
  BY <1>9 DEF OpenFails
<1>9a. ASSUME NEW r \in Runs, StoreFails(r) PROVE GateInv'
  BY <1>9a DEF StoreFails
<1>10. ASSUME NEW r \in Runs, Send(r) PROVE GateInv'
  BY <1>10 DEF Send
<1>11. ASSUME NEW r \in Runs, WaitLocally(r) PROVE GateInv'
  BY <1>11 DEF WaitLocally
<1>12. ASSUME NEW r \in Runs, Finish(r) PROVE GateInv'
  BY <1>12 DEF Finish
<1>13. ASSUME NEW r \in Runs, Apply(r) PROVE GateInv'
  BY <1>13 DEF Apply, Applies, TabOf, Unused
<1>14. ASSUME NEW r \in Runs, Succeeds(r) PROVE GateInv'
  BY <1>14 DEF Succeeds, SeesTab, TabOf
<1>15. ASSUME NEW r \in Runs, RetryTransient(r) PROVE GateInv'
  BY <1>15 DEF RetryTransient, GiveUp
<1>16. ASSUME NEW r \in Runs, Resend(r) PROVE GateInv'
  BY <1>16 DEF Resend
<1>17. ASSUME NEW r \in Runs, StepFails(r) PROVE GateInv'
  BY <1>17 DEF StepFails, GiveUp, Fail
<1>18. ASSUME NEW r \in Runs, TabMissing(r) PROVE GateInv'
  BY <1>18 DEF TabMissing, Fail
<1>19. ASSUME NEW r \in Runs, Challenge(r) PROVE GateInv'
  BY <1>19 DEF Challenge, GiveUp, Fail, Fault
<1>20. ASSUME NEW r \in Runs, Snapshot(r) PROVE GateInv'
  BY <1>20 DEF Snapshot
<1>21. ASSUME NEW r \in Runs, Cancel(r) PROVE GateInv'
  BY <1>21 DEF Cancel
<1>22. ASSUME NEW r \in Runs, CtrlC(r) PROVE GateInv'
  BY <1>22 DEF CtrlC
<1>23. ASSUME NEW r \in Runs, Interrupt(r) PROVE GateInv'
  BY <1>23 DEF Interrupt, Cancellable
<1>24. ASSUME NEW r \in Runs, Close(r) PROVE GateInv'
  BY <1>24 DEF Close, TabOf, Outcome
<1>25. ASSUME NEW r \in Runs, CloseFails(r) PROVE GateInv'
  BY <1>25 DEF CloseFails, Outcome
<1>26. ASSUME NEW r \in Runs, Release(r) PROVE GateInv'
  BY <1>26 DEF Release
<1>26a. ASSUME NEW r \in Runs, ReleaseLost(r) PROVE GateInv'
  BY <1>26a DEF ReleaseLost
<1>26b. ASSUME NEW r \in Runs, ReleaseLate(r) PROVE GateInv'
  BY <1>26b DEF ReleaseLate
<1>27. ASSUME NEW r \in Runs, Record(r) PROVE GateInv'
  BY <1>27 DEF Record
<1>28. ASSUME NEW r \in Runs, RecordFails(r) PROVE GateInv'
  BY <1>28 DEF RecordFails
<1>29. ASSUME NEW r \in Runs, Rerun(r) PROVE GateInv'
  BY <1>29 DEF Rerun
<1>30. ASSUME NEW r \in Runs, Leave(r) PROVE GateInv'
  BY <1>30 DEF Leave, Exit
<1>31. ASSUME NEW r \in Runs, LeaveFails(r) PROVE GateInv'
  BY <1>31 DEF LeaveFails, Exit
<1>32. ASSUME NEW r \in Runs, LateStep(r) PROVE GateInv'
  BY <1>32 DEF LateStep, ApplyLate, Applies, TabOf, Unused
<1>33. ASSUME NEW r \in Runs, Kill(r) PROVE GateInv'
  BY <1>33 DEF Kill, Exit, GiveUp, Fault
<1>34. CASE OtherClaims
  BY <1>34 DEF OtherClaims, Fault
<1>35. CASE OtherReleases
  BY <1>35 DEF OtherReleases
<1>36. CASE CooldownElapses
  BY <1>36, <1>b DEF CooldownElapses
<1>37. CASE UserClosesTab
  BY <1>37 DEF UserClosesTab, Fault
<1> QED
  BY <1>0, <1>1, <1>2, <1>3, <1>4, <1>5, <1>6, <1>7, <1>8, <1>9, <1>9a, <1>10, <1>11, <1>12, <1>13, <1>14, <1>15, <1>16, <1>17, <1>18, <1>19, <1>20, <1>21, <1>22, <1>23, <1>24, <1>25, <1>26, <1>26a, <1>26b, <1>27, <1>28, <1>29, <1>30, <1>31, <1>32, <1>33, <1>34, <1>35, <1>36, <1>37
     DEF Next, QueueStep, SetupStep, SetupFails, StepStep, EndStep

\* While a site is paused no run of its queue is under way.
THEOREM PausedSiteIsLeftAloneHolds == Spec => []PausedSiteIsLeftAlone
<1>1. Init => TypeInv /\ GateInv
  BY WorkflowAssumption
     DEF Init, TypeInv, TypeOK, CallsAreSteps, Errors, Steps, GateInv, Inside, PausedSiteIsLeftAlone
<1>2. TypeInv /\ GateInv /\ [Next]_vars => (TypeInv /\ GateInv)'
  BY TypeStep, GateStep
<1>3. GateInv => PausedSiteIsLeftAlone
  BY DEF GateInv
<1> QED
  BY <1>1, <1>2, <1>3, PTL DEF Spec

-----------------------------------------------------------------------------
Unsent(r, i) == applied[r][i] = 0 /\ late[r][i] = 0

InFlight(r, i) == pc[r] = "call" /\ at[r] = i /\ effect[r] = "pending"

\* A write that was sent is on its way, waiting to be applied late, or applied.
SentOnce(r, i) ==
  /\ applied[r][i] + late[r][i] <= 1
  /\ InFlight(r, i) => Unsent(r, i)

\* What the run has yet to reach or to send was not sent.
AheadIsUnsent(r, i) ==
  ~Ended(r) =>
    /\ i > at[r] => Unsent(r, i)
    /\ i = at[r] /\ pc[r] \in {"idle", "queued", "ready", "claim", "open", "step"} => Unsent(r, i)

\* Until its first answer that names a tab, a run has passed no step that gives one.
NothingSeen(r) ==
  ~Ended(r) /\ seen[r] = None => \A k \in Steps : k < at[r] => k \in Silent \cup Local

\* A call is under way only while it is waited for, in a tab that exists; an external write
\* is never waiting to be sent again.
CallInv(r) ==
  /\ effect[r] # "none" => pc[r] = "call"
  /\ effect[r] = "applied" => TabOf(r) # None
  /\ pc[r] = "delay" => at[r] \notin Writes

RunInv(r) ==
  /\ CallInv(r) /\ NothingSeen(r)
  /\ \A i \in Writes : NamedBefore(i) => SentOnce(r, i) /\ AheadIsUnsent(r, i)

\* The inductive invariant: what WritesOnce is about, with all that is on its way or ahead.
WriteInv == \A r \in Runs : RunInv(r)

\* What RunInv says of a run.
View(q) == <<pc[q], at[q], effect[q], applied[q], late[q], seen[q], ref[q], own[q]>>

LEMMA SameView == ASSUME NEW q \in Runs, RunInv(q), UNCHANGED View(q) PROVE RunInv(q)'
  BY DEF RunInv, CallInv, NothingSeen, SentOnce, AheadIsUnsent, Unsent, InFlight, NamedBefore, TabOf,
         Ended, View

\* A call that is given up is counted as late, if it was not applied.
LEMMA GiveUpKeeps ==
  ASSUME TypeInv, NEW r \in Runs, RunInv(r), pc[r] = "call", GiveUp(r), NEW i \in Writes, NamedBefore(i)
  PROVE  /\ applied'[r][i] + late'[r][i] <= 1
         /\ i > at[r] => applied'[r][i] = 0 /\ late'[r][i] = 0
         /\ effect'[r] = "none" /\ applied'[r] = applied[r] /\ own'[r] = own[r]
<1>1. at[r] \in Steps /\ i \in Steps /\ Steps \subseteq Nat
  BY WorkflowAssumption DEF TypeInv, CallsAreSteps, Steps
<1>2. applied' = applied /\ own' = own /\ effect' = [effect EXCEPT ![r] = "none"]
  BY DEF GiveUp
<1>3. effect \in [Runs -> {"none", "pending", "applied"}] /\ late \in [Runs -> [Steps -> Nat]]
      /\ applied \in [Runs -> [Writes -> Nat]]
  BY DEF TypeInv, TypeOK
<1>4. SentOnce(r, i) /\ AheadIsUnsent(r, i)
  BY DEF RunInv
<1>5. CASE effect[r] = "pending"
  <2>1. late' = [late EXCEPT ![r][at[r]] = @ + 1]
    BY <1>5 DEF GiveUp
  <2>2. late'[r][i] = IF i = at[r] THEN late[r][i] + 1 ELSE late[r][i]
    BY <1>1, <1>3, <2>1
  <2> QED BY <1>1, <1>2, <1>3, <1>4, <1>5, <2>2 DEF SentOnce, AheadIsUnsent, Unsent, InFlight, Ended
<1>6. CASE effect[r] # "pending"
  <2>1. late' = late
    BY <1>6 DEF GiveUp
  <2> QED BY <1>1, <1>2, <1>3, <1>4, <2>1 DEF SentOnce, AheadIsUnsent, Unsent, Ended
<1> QED BY <1>5, <1>6

\* A run that gave up its call and then fails or ends keeps what is said of it.
LEMMA GivenUp ==
  ASSUME TypeInv, NEW r \in Runs, RunInv(r), pc[r] = "call", GiveUp(r),
         pc'[r] \in {"delay", "snapshot", "close", "dead"},
         pc'[r] = "delay" => at[r] \notin Writes,
         pc'[r] = "dead" \/ at'[r] = at[r],
         UNCHANGED <<seen[r], ref[r]>>
  PROVE  RunInv(r)'
<1>1. effect'[r] = "none"
  BY DEF GiveUp, TypeInv, TypeOK
<1>2. CallInv(r)'
  <2>1. pc'[r] = "dead" \/ at'[r] = at[r]
    OBVIOUS
  <2> QED BY <1>1, <2>1 DEF CallInv
<1>3. NothingSeen(r)'
  BY DEF RunInv, NothingSeen, Ended
<1>4. ASSUME NEW i \in Writes, NamedBefore(i)' PROVE SentOnce(r, i)' /\ AheadIsUnsent(r, i)'
  <2>1. NamedBefore(i)
    BY <1>4 DEF NamedBefore
  <2> QED BY <2>1, GiveUpKeeps DEF SentOnce, AheadIsUnsent, Unsent, InFlight, Ended
<1> QED BY <1>2, <1>3, <1>4 DEF RunInv

\* A step of one run leaves what is known of the others.
LEMMA StepOfOne ==
  ASSUME NEW r \in Runs, WriteInv, RunInv(r)', \A q \in Runs \ {r} : UNCHANGED View(q)
  PROVE  WriteInv'
  BY SameView DEF WriteInv

LEMMA WriteStep == TypeInv /\ WriteInv /\ [Next]_vars => WriteInv'
<1> SUFFICES ASSUME TypeInv, WriteInv, [Next]_vars PROVE WriteInv'
  OBVIOUS
<1>a. /\ pc = [q \in Runs |-> pc[q]] /\ at \in [Runs -> Nat]
      /\ effect = [q \in Runs |-> effect[q]] /\ error = [q \in Runs |-> error[q]]
      /\ applied \in [Runs -> [Writes -> Nat]] /\ late \in [Runs -> [Steps -> Nat]]
      /\ seen \in [Runs -> Tabs \cup {None}] /\ ref \in [Runs -> Tabs \cup {None}]
      /\ own \in [Runs -> Tabs \cup {None}]
      /\ Writes \subseteq Steps /\ None \notin Tabs
  BY WorkflowAssumption DEF TypeInv, TypeOK
<1> USE <1>a DEF Go, course, tabs, browser, View
<1>0. CASE UNCHANGED vars
  <2>1. \A q \in Runs : UNCHANGED View(q)
    BY <1>0 DEF vars
  <2> QED BY <2>1, SameView DEF WriteInv
<1>1. ASSUME NEW r \in Runs, Start(r) PROVE WriteInv'
  <2>1. \A q \in Runs \ {r} : UNCHANGED View(q)
    BY <1>1 DEF Start
  <2>2. RunInv(r)'
    BY <1>1 DEF Start, WriteInv, RunInv, CallInv, NothingSeen, SentOnce, AheadIsUnsent,
       Unsent, InFlight, NamedBefore, TabOf, Ended
  <2> QED BY <2>1, <2>2, StepOfOne
<1>2. ASSUME NEW r \in Runs, Acquire(r) PROVE WriteInv'
  <2>1. \A q \in Runs \ {r} : UNCHANGED View(q)
    BY <1>2 DEF Acquire
  <2>2. RunInv(r)'
    BY <1>2 DEF Acquire, WriteInv, RunInv, CallInv, NothingSeen, SentOnce, AheadIsUnsent,
       Unsent, InFlight, NamedBefore, TabOf, Ended
  <2> QED BY <2>1, <2>2, StepOfOne
<1>3. ASSUME NEW r \in Runs, Refused(r) PROVE WriteInv'
  <2>1. \A q \in Runs \ {r} : UNCHANGED View(q)
    BY <1>3 DEF Refused
  <2>2. RunInv(r)'
    BY <1>3 DEF Refused, WriteInv, RunInv, CallInv, NothingSeen, SentOnce, AheadIsUnsent,
       Unsent, InFlight, NamedBefore, TabOf, Ended
  <2> QED BY <2>1, <2>2, StepOfOne
<1>4. ASSUME NEW r \in Runs, Ready(r) PROVE WriteInv'
  <2>1. \A q \in Runs \ {r} : UNCHANGED View(q)
    BY <1>4 DEF Ready
  <2>2. RunInv(r)'
    BY <1>4 DEF Ready, WriteInv, RunInv, CallInv, NothingSeen, SentOnce, AheadIsUnsent,
       Unsent, InFlight, NamedBefore, TabOf, Ended
  <2> QED BY <2>1, <2>2, StepOfOne
<1>5. ASSUME NEW r \in Runs, Claim(r) PROVE WriteInv'
  <2>1. \A q \in Runs \ {r} : UNCHANGED View(q)
    BY <1>5 DEF Claim
  <2>2. RunInv(r)'
    BY <1>5 DEF Claim, WriteInv, RunInv, CallInv, NothingSeen, SentOnce, AheadIsUnsent,
       Unsent, InFlight, NamedBefore, TabOf, Ended
  <2> QED BY <2>1, <2>2, StepOfOne
<1>6. ASSUME NEW r \in Runs, OpenSession(r) PROVE WriteInv'
  <2>1. \A q \in Runs \ {r} : UNCHANGED View(q)
    BY <1>6 DEF OpenSession
  <2>2. RunInv(r)'
    BY <1>6 DEF OpenSession, WriteInv, RunInv, CallInv, NothingSeen, SentOnce, AheadIsUnsent,
       Unsent, InFlight, NamedBefore, TabOf, Ended
  <2> QED BY <2>1, <2>2, StepOfOne
<1>7. ASSUME NEW r \in Runs, NotReady(r) PROVE WriteInv'
  <2>1. \A q \in Runs \ {r} : UNCHANGED View(q)
    BY <1>7 DEF NotReady
  <2>2. RunInv(r)'
    BY <1>7 DEF NotReady, WriteInv, RunInv, CallInv, NothingSeen, SentOnce, AheadIsUnsent,
       Unsent, InFlight, NamedBefore, TabOf, Ended
  <2> QED BY <2>1, <2>2, StepOfOne
<1>8. ASSUME NEW r \in Runs, ClaimFails(r) PROVE WriteInv'
  <2>1. \A q \in Runs \ {r} : UNCHANGED View(q)
    BY <1>8 DEF ClaimFails
  <2>2. RunInv(r)'
    BY <1>8 DEF ClaimFails, WriteInv, RunInv, CallInv, NothingSeen, SentOnce, AheadIsUnsent,
       Unsent, InFlight, NamedBefore, TabOf, Ended
  <2> QED BY <2>1, <2>2, StepOfOne
<1>9. ASSUME NEW r \in Runs, OpenFails(r) PROVE WriteInv'
  <2>1. \A q \in Runs \ {r} : UNCHANGED View(q)
    BY <1>9 DEF OpenFails
  <2>2. RunInv(r)'
    BY <1>9 DEF OpenFails, WriteInv, RunInv, CallInv, NothingSeen, SentOnce, AheadIsUnsent,
       Unsent, InFlight, NamedBefore, TabOf, Ended
  <2> QED BY <2>1, <2>2, StepOfOne
<1>9a. ASSUME NEW r \in Runs, StoreFails(r) PROVE WriteInv'
  <2>1. \A q \in Runs \ {r} : UNCHANGED View(q)
    BY <1>9a DEF StoreFails
  <2>2. RunInv(r)'
    BY <1>9a DEF StoreFails, WriteInv, RunInv, CallInv, NothingSeen, SentOnce, AheadIsUnsent,
       Unsent, InFlight, NamedBefore, TabOf, Ended
  <2> QED BY <2>1, <2>2, StepOfOne
<1>10. ASSUME NEW r \in Runs, Send(r) PROVE WriteInv'
  <2>1. \A q \in Runs \ {r} : UNCHANGED View(q)
    BY <1>10 DEF Send
  <2>2. RunInv(r)'
    BY <1>10 DEF Send, WriteInv, RunInv, CallInv, NothingSeen, SentOnce, AheadIsUnsent,
       Unsent, InFlight, NamedBefore, TabOf, Ended
  <2> QED BY <2>1, <2>2, StepOfOne
<1>11. ASSUME NEW r \in Runs, WaitLocally(r) PROVE WriteInv'
  <2>1. \A q \in Runs \ {r} : UNCHANGED View(q)
    BY <1>11 DEF WaitLocally
  <2>2. RunInv(r)'
    <3>1. RunInv(r)
      BY DEF WriteInv
    <3>2. at'[r] = at[r] + 1 /\ at[r] \in Nat
      BY <1>11 DEF WaitLocally
    <3>3. pc'[r] = "step" /\ error'[r] = error[r] /\ effect'[r] = effect[r]
      BY <1>11 DEF WaitLocally
    <3>4. UNCHANGED <<applied, late, seen, ref, own>> /\ at[r] \in Local
      BY <1>11 DEF WaitLocally
    <3>5. CallInv(r)'
      BY <1>11, <3>1, <3>3, <3>4 DEF WaitLocally, RunInv, CallInv, TabOf
    <3>6. NothingSeen(r)'
      <4> SUFFICES ASSUME seen'[r] = None, NEW k \in Steps, k < at'[r], ~Ended(r)'
                   PROVE  k \in Silent \cup Local
        BY DEF NothingSeen
      <4>1. seen[r] = None /\ at[r] \in Silent \cup Local
        BY <1>11, <3>1, <3>4 DEF WaitLocally, SeesTab, RunInv, CallInv, TabOf
      <4>2. ~Ended(r)
        BY <1>11 DEF WaitLocally, Ended
      <4>3. k < at[r] \/ k = at[r]
        BY <3>2, WorkflowAssumption DEF Steps
      <4> QED BY <3>1, <4>1, <4>2, <4>3 DEF RunInv, NothingSeen
    <3>7. ASSUME NEW i \in Writes, NamedBefore(i)' PROVE SentOnce(r, i)' /\ AheadIsUnsent(r, i)'
      <4>1. SentOnce(r, i) /\ AheadIsUnsent(r, i) /\ i \in Nat
        BY <1>11, <3>1, <3>7, WorkflowAssumption DEF RunInv, NamedBefore, Steps
      <4>2. ~Ended(r)
        BY <1>11 DEF WaitLocally, Ended
      <4>3. applied'[r][i] = applied[r][i] /\ late'[r][i] = late[r][i]
        BY <3>4
      <4>4. i >= at'[r] => Unsent(r, i)
        BY <3>2, <4>1, <4>2 DEF AheadIsUnsent
      <4>5. i > at'[r] => i >= at'[r]
        BY <3>2, <4>1
      <4>6. SentOnce(r, i)'
        BY <3>3, <4>1, <4>3 DEF SentOnce, Unsent, InFlight
      <4>7. AheadIsUnsent(r, i)'
        BY <3>2, <4>1, <4>3, <4>4, <4>5 DEF AheadIsUnsent, Unsent
      <4> QED BY <4>6, <4>7
    <3> QED BY <3>5, <3>6, <3>7 DEF RunInv
  <2> QED BY <2>1, <2>2, StepOfOne
<1>12. ASSUME NEW r \in Runs, Finish(r) PROVE WriteInv'
  <2>1. \A q \in Runs \ {r} : UNCHANGED View(q)
    BY <1>12 DEF Finish
  <2>2. RunInv(r)'
    BY <1>12 DEF Finish, WriteInv, RunInv, CallInv, NothingSeen, SentOnce, AheadIsUnsent,
       Unsent, InFlight, NamedBefore, TabOf, Ended
  <2> QED BY <2>1, <2>2, StepOfOne
<1>13. ASSUME NEW r \in Runs, Apply(r) PROVE WriteInv'
  <2>1. \A q \in Runs \ {r} : UNCHANGED View(q)
    BY <1>13 DEF Apply, Applies, TabOf, Unused
  <2>2. RunInv(r)'
    <3>1. RunInv(r) /\ pc[r] = "call" /\ effect[r] = "pending" /\ Applies(r, at[r]) /\ at[r] \in Steps
      BY <1>13 DEF Apply, WriteInv, TypeInv, CallsAreSteps
    <3>2. /\ effect'[r] = "applied" /\ late'[r] = late[r]
          /\ UNCHANGED <<pc, at, error, seen, ref>>
      BY <1>13 DEF Apply
    <3>3. TabOf(r)' # None
      BY <3>1, <3>2 DEF Applies, TabOf, Unused, TypeInv, TypeOK
    <3>4. CallInv(r)' /\ NothingSeen(r)'
      BY <3>1, <3>2, <3>3 DEF RunInv, CallInv, NothingSeen, Ended
    <3>5. ASSUME NEW i \in Writes, NamedBefore(i)' PROVE SentOnce(r, i)' /\ AheadIsUnsent(r, i)'
      <4>1. SentOnce(r, i) /\ AheadIsUnsent(r, i) /\ at[r] \in Nat /\ i \in Nat
        BY <3>1, <3>5, WorkflowAssumption DEF RunInv, NamedBefore, Steps
      <4>2. applied'[r][i] = IF i = at[r] THEN applied[r][i] + 1 ELSE applied[r][i]
        BY <3>1 DEF Applies
      <4>3. ~Ended(r)
        BY <3>1 DEF Ended
      <4> QED BY <3>1, <3>2, <4>1, <4>2, <4>3 DEF SentOnce, AheadIsUnsent, Unsent, InFlight, Ended
    <3> QED BY <3>4, <3>5 DEF RunInv
  <2> QED BY <2>1, <2>2, StepOfOne
<1>14. ASSUME NEW r \in Runs, Succeeds(r) PROVE WriteInv'
  <2>1. \A q \in Runs \ {r} : UNCHANGED View(q)
    BY <1>14 DEF Succeeds, SeesTab, TabOf
  <2>2. RunInv(r)'
    <3>1. RunInv(r)
      BY DEF WriteInv
    <3>2. at'[r] = at[r] + 1 /\ at[r] \in Nat
      BY <1>14 DEF Succeeds
    <3>3. pc'[r] \in {"step", "close"} /\ error'[r] = error[r] /\ effect'[r] = "none"
      BY <1>14 DEF Succeeds
    <3>4. UNCHANGED <<applied, late, ref, own>> /\ pc[r] = "call" /\ effect[r] = "applied"
      BY <1>14 DEF Succeeds
    <3>5. CallInv(r)'
      BY <1>14, <3>1, <3>3, <3>4 DEF Succeeds, RunInv, CallInv, TabOf
    <3>6. NothingSeen(r)'
      <4> SUFFICES ASSUME seen'[r] = None, NEW k \in Steps, k < at'[r], ~Ended(r)'
                   PROVE  k \in Silent \cup Local
        BY DEF NothingSeen
      <4>1. seen[r] = None /\ at[r] \in Silent \cup Local
        BY <1>14, <3>1, <3>4 DEF Succeeds, SeesTab, RunInv, CallInv, TabOf
      <4>2. ~Ended(r)
        BY <1>14 DEF Succeeds, Ended
      <4>3. k < at[r] \/ k = at[r]
        BY <3>2, WorkflowAssumption DEF Steps
      <4> QED BY <3>1, <4>1, <4>2, <4>3 DEF RunInv, NothingSeen
    <3>7. ASSUME NEW i \in Writes, NamedBefore(i)' PROVE SentOnce(r, i)' /\ AheadIsUnsent(r, i)'
      <4>1. SentOnce(r, i) /\ AheadIsUnsent(r, i) /\ i \in Nat
        BY <1>14, <3>1, <3>7, WorkflowAssumption DEF RunInv, NamedBefore, Steps
      <4>2. ~Ended(r)
        BY <1>14 DEF Succeeds, Ended
      <4>3. applied'[r][i] = applied[r][i] /\ late'[r][i] = late[r][i]
        BY <3>4
      <4>4. i >= at'[r] => Unsent(r, i)
        BY <3>2, <4>1, <4>2 DEF AheadIsUnsent
      <4>5. i > at'[r] => i >= at'[r]
        BY <3>2, <4>1
      <4>6. SentOnce(r, i)'
        BY <3>3, <4>1, <4>3 DEF SentOnce, Unsent, InFlight
      <4>7. AheadIsUnsent(r, i)'
        BY <3>2, <4>1, <4>3, <4>4, <4>5 DEF AheadIsUnsent, Unsent
      <4> QED BY <4>6, <4>7
    <3> QED BY <3>5, <3>6, <3>7 DEF RunInv
  <2> QED BY <2>1, <2>2, StepOfOne
<1>15. ASSUME NEW r \in Runs, RetryTransient(r) PROVE WriteInv'
  <2>1. \A q \in Runs \ {r} : UNCHANGED View(q)
    BY <1>15 DEF RetryTransient, GiveUp
  <2>2. RunInv(r)'
    <3>1. pc[r] = "call" /\ GiveUp(r) /\ RunInv(r)
      BY <1>15 DEF RetryTransient, WriteInv
    <3> QED BY <1>15, <3>1, GivenUp DEF RetryTransient, MayRetry, WriteInv, RunInv, CallInv
  <2> QED BY <2>1, <2>2, StepOfOne
<1>16. ASSUME NEW r \in Runs, Resend(r) PROVE WriteInv'
  <2>1. \A q \in Runs \ {r} : UNCHANGED View(q)
    BY <1>16 DEF Resend
  <2>2. RunInv(r)'
    BY <1>16 DEF Resend, WriteInv, RunInv, CallInv, NothingSeen, SentOnce, AheadIsUnsent,
       Unsent, InFlight, NamedBefore, TabOf, Ended
  <2> QED BY <2>1, <2>2, StepOfOne
<1>17. ASSUME NEW r \in Runs, StepFails(r) PROVE WriteInv'
  <2>1. \A q \in Runs \ {r} : UNCHANGED View(q)
    BY <1>17 DEF StepFails, GiveUp, Fail
  <2>2. RunInv(r)'
    <3>1. pc[r] = "call" /\ GiveUp(r) /\ RunInv(r)
      BY <1>17 DEF StepFails, WriteInv
    <3> QED BY <1>17, <3>1, GivenUp DEF StepFails, Fail, WriteInv
  <2> QED BY <2>1, <2>2, StepOfOne
<1>18. ASSUME NEW r \in Runs, TabMissing(r) PROVE WriteInv'
  <2>1. \A q \in Runs \ {r} : UNCHANGED View(q)
    BY <1>18 DEF TabMissing, Fail
  <2>2. RunInv(r)'
    BY <1>18 DEF TabMissing, Fail, WriteInv, RunInv, CallInv, NothingSeen, SentOnce, AheadIsUnsent,
       Unsent, InFlight, NamedBefore, TabOf, Ended
  <2> QED BY <2>1, <2>2, StepOfOne
<1>19. ASSUME NEW r \in Runs, Challenge(r) PROVE WriteInv'
  <2>1. \A q \in Runs \ {r} : UNCHANGED View(q)
    BY <1>19 DEF Challenge, GiveUp, Fail, Fault
  <2>2. RunInv(r)'
    BY <1>19 DEF Challenge, GiveUp, Fail, Fault, WriteInv, RunInv, CallInv, NothingSeen, SentOnce, AheadIsUnsent,
       Unsent, InFlight, NamedBefore, TabOf, Ended
  <2> QED BY <2>1, <2>2, StepOfOne
<1>20. ASSUME NEW r \in Runs, Snapshot(r) PROVE WriteInv'
  <2>1. \A q \in Runs \ {r} : UNCHANGED View(q)
    BY <1>20 DEF Snapshot
  <2>2. RunInv(r)'
    BY <1>20 DEF Snapshot, WriteInv, RunInv, CallInv, NothingSeen, SentOnce, AheadIsUnsent,
       Unsent, InFlight, NamedBefore, TabOf, Ended
  <2> QED BY <2>1, <2>2, StepOfOne
<1>21. ASSUME NEW r \in Runs, Cancel(r) PROVE WriteInv'
  <2>1. \A q \in Runs \ {r} : UNCHANGED View(q)
    BY <1>21 DEF Cancel
  <2>2. RunInv(r)'
    BY <1>21 DEF Cancel, WriteInv, RunInv, CallInv, NothingSeen, SentOnce, AheadIsUnsent,
       Unsent, InFlight, NamedBefore, TabOf, Ended
  <2> QED BY <2>1, <2>2, StepOfOne
<1>22. ASSUME NEW r \in Runs, CtrlC(r) PROVE WriteInv'
  <2>1. \A q \in Runs \ {r} : UNCHANGED View(q)
    BY <1>22 DEF CtrlC
  <2>2. RunInv(r)'
    BY <1>22 DEF CtrlC, WriteInv, RunInv, CallInv, NothingSeen, SentOnce, AheadIsUnsent,
       Unsent, InFlight, NamedBefore, TabOf, Ended
  <2> QED BY <2>1, <2>2, StepOfOne
<1>23. ASSUME NEW r \in Runs, Interrupt(r) PROVE WriteInv'
  <2>1. \A q \in Runs \ {r} : UNCHANGED View(q)
    BY <1>23 DEF Interrupt, GiveUp, Cancellable
  <2>2. RunInv(r)'
    <3>1. RunInv(r)
      BY DEF WriteInv
    <3>2. CASE pc[r] = "call"
      <4>1. GiveUp(r)
        BY <1>23, <3>2 DEF Interrupt
      <4> QED BY <1>23, <3>1, <3>2, <4>1, GivenUp DEF Interrupt, Cancellable
    <3>3. CASE pc[r] # "call"
      BY <1>23, <3>1, <3>3
         DEF Interrupt, Cancellable, RunInv, CallInv, NothingSeen, SentOnce, AheadIsUnsent,
         Unsent, InFlight, NamedBefore, TabOf, Ended
    <3> QED BY <3>2, <3>3
  <2> QED BY <2>1, <2>2, StepOfOne
<1>24. ASSUME NEW r \in Runs, Close(r) PROVE WriteInv'
  <2>1. \A q \in Runs \ {r} : UNCHANGED View(q)
    BY <1>24 DEF Close, TabOf, Outcome
  <2>2. RunInv(r)'
    BY <1>24 DEF Close, TabOf, Outcome, WriteInv, RunInv, CallInv, NothingSeen, SentOnce, AheadIsUnsent,
       Unsent, InFlight, NamedBefore, Ended
  <2> QED BY <2>1, <2>2, StepOfOne
<1>25. ASSUME NEW r \in Runs, CloseFails(r) PROVE WriteInv'
  <2>1. \A q \in Runs \ {r} : UNCHANGED View(q)
    BY <1>25 DEF CloseFails, Outcome
  <2>2. RunInv(r)'
    BY <1>25 DEF CloseFails, Outcome, WriteInv, RunInv, CallInv, NothingSeen, SentOnce, AheadIsUnsent,
       Unsent, InFlight, NamedBefore, TabOf, Ended
  <2> QED BY <2>1, <2>2, StepOfOne
<1>26. ASSUME NEW r \in Runs, Release(r) PROVE WriteInv'
  <2>1. \A q \in Runs \ {r} : UNCHANGED View(q)
    BY <1>26 DEF Release
  <2>2. RunInv(r)'
    BY <1>26 DEF Release, WriteInv, RunInv, CallInv, NothingSeen, SentOnce, AheadIsUnsent,
       Unsent, InFlight, NamedBefore, TabOf, Ended
  <2> QED BY <2>1, <2>2, StepOfOne
<1>26a. ASSUME NEW r \in Runs, ReleaseLost(r) PROVE WriteInv'
  <2>1. \A q \in Runs \ {r} : UNCHANGED View(q)
    BY <1>26a DEF ReleaseLost
  <2>2. RunInv(r)'
    BY <1>26a DEF ReleaseLost, WriteInv, RunInv, CallInv, NothingSeen, SentOnce, AheadIsUnsent,
       Unsent, InFlight, NamedBefore, TabOf, Ended
  <2> QED BY <2>1, <2>2, StepOfOne
<1>26b. ASSUME NEW r \in Runs, ReleaseLate(r) PROVE WriteInv'
  <2>1. \A q \in Runs \ {r} : UNCHANGED View(q)
    BY <1>26b DEF ReleaseLate
  <2>2. RunInv(r)'
    BY <1>26b DEF ReleaseLate, WriteInv, RunInv, CallInv, NothingSeen, SentOnce, AheadIsUnsent,
       Unsent, InFlight, NamedBefore, TabOf, Ended
  <2> QED BY <2>1, <2>2, StepOfOne
<1>27. ASSUME NEW r \in Runs, Record(r) PROVE WriteInv'
  <2>1. \A q \in Runs \ {r} : UNCHANGED View(q)
    BY <1>27 DEF Record
  <2>2. RunInv(r)'
    BY <1>27 DEF Record, WriteInv, RunInv, CallInv, NothingSeen, SentOnce, AheadIsUnsent,
       Unsent, InFlight, NamedBefore, TabOf, Ended
  <2> QED BY <2>1, <2>2, StepOfOne
<1>28. ASSUME NEW r \in Runs, RecordFails(r) PROVE WriteInv'
  <2>1. \A q \in Runs \ {r} : UNCHANGED View(q)
    BY <1>28 DEF RecordFails
  <2>2. RunInv(r)'
    BY <1>28 DEF RecordFails, WriteInv, RunInv, CallInv, NothingSeen, SentOnce, AheadIsUnsent,
       Unsent, InFlight, NamedBefore, TabOf, Ended
  <2> QED BY <2>1, <2>2, StepOfOne
<1>29. ASSUME NEW r \in Runs, Rerun(r) PROVE WriteInv'
  <2>1. \A q \in Runs \ {r} : UNCHANGED View(q)
    BY <1>29 DEF Rerun
  <2>2. RunInv(r)'
    <3>1. RunInv(r) /\ seen[r] = None /\ error[r] = "missing" /\ ~Ended(r)
      BY <1>29 DEF Rerun, MustRerun, WriteInv, Ended
    <3>2. /\ pc'[r] = "ready" /\ at'[r] = 1 /\ error'[r] = "none"
          /\ UNCHANGED <<effect, applied, seen, own>>
      BY <1>29 DEF Rerun
    <3>3. \A i \in Steps : late'[r][i] = 0
      BY <1>29 DEF Rerun
    <3>4. CallInv(r)' /\ NothingSeen(r)'
      <4>1. effect[r] = "none"
        BY <1>29, <3>1 DEF Rerun, RunInv, CallInv
      <4> QED BY <3>2, <4>1, WorkflowAssumption DEF CallInv, NothingSeen, Steps
    <3>5. ASSUME NEW i \in Writes, NamedBefore(i)' PROVE SentOnce(r, i)' /\ AheadIsUnsent(r, i)'
      <4>1. PICK k \in 1..(i - 1) : k \notin Silent \cup Local
        BY <3>5 DEF NamedBefore
      <4>2. i \in Steps /\ at[r] \in Nat
        BY WorkflowAssumption
      <4>3. k \in Steps /\ k < i
        BY <4>1, <4>2, WorkflowAssumption DEF Steps
      <4>4. Unsent(r, i)
        <5>1. ~(k < at[r])
          BY <3>1, <4>1, <4>3 DEF RunInv, NothingSeen
        <5>2. i > at[r]
          BY ONLY <4>2, <4>3, <5>1, WorkflowAssumption DEF Steps
        <5> QED BY <3>1, <3>5, <5>2 DEF RunInv, AheadIsUnsent
      <4>5. applied'[r][i] = 0 /\ late'[r][i] = 0
        BY <3>2, <3>3, <4>4 DEF Unsent
      <4> QED BY <3>2, <4>5 DEF SentOnce, AheadIsUnsent, Unsent, InFlight
    <3> QED BY <3>4, <3>5 DEF RunInv
  <2> QED BY <2>1, <2>2, StepOfOne
<1>30. ASSUME NEW r \in Runs, Leave(r) PROVE WriteInv'
  <2>1. \A q \in Runs \ {r} : UNCHANGED View(q)
    BY <1>30 DEF Leave, Exit
  <2>2. RunInv(r)'
    BY <1>30 DEF Leave, Exit, WriteInv, RunInv, CallInv, NothingSeen, SentOnce, AheadIsUnsent,
       Unsent, InFlight, NamedBefore, TabOf, Ended
  <2> QED BY <2>1, <2>2, StepOfOne
<1>31. ASSUME NEW r \in Runs, LeaveFails(r) PROVE WriteInv'
  <2>1. \A q \in Runs \ {r} : UNCHANGED View(q)
    BY <1>31 DEF LeaveFails, Exit
  <2>2. RunInv(r)'
    BY <1>31 DEF LeaveFails, Exit, WriteInv, RunInv, CallInv, NothingSeen, SentOnce, AheadIsUnsent,
       Unsent, InFlight, NamedBefore, TabOf, Ended
  <2> QED BY <2>1, <2>2, StepOfOne
<1>32. ASSUME NEW r \in Runs, LateStep(r) PROVE WriteInv'
  <2>1. \A q \in Runs \ {r} : UNCHANGED View(q)
    BY <1>32 DEF LateStep, ApplyLate, Applies, TabOf, Unused
  <2>2. RunInv(r)'
    BY <1>32 DEF LateStep, ApplyLate, Applies, TabOf, Unused, WriteInv, RunInv, CallInv, NothingSeen, SentOnce, AheadIsUnsent,
       Unsent, InFlight, NamedBefore, Ended
  <2> QED BY <2>1, <2>2, StepOfOne
<1>33. ASSUME NEW r \in Runs, Kill(r) PROVE WriteInv'
  <2>1. \A q \in Runs \ {r} : UNCHANGED View(q)
    BY <1>33 DEF Kill, Exit, GiveUp, Fault
  <2>2. RunInv(r)'
    <3>1. RunInv(r)
      BY DEF WriteInv
    <3>2. CASE pc[r] = "call"
      <4>1. GiveUp(r)
        BY <1>33, <3>2 DEF Kill
      <4> QED BY <1>33, <3>1, <3>2, <4>1, GivenUp DEF Kill, Exit
    <3>3. CASE pc[r] # "call"
      BY <1>33, <3>1, <3>3
         DEF Kill, Exit, RunInv, CallInv, NothingSeen, SentOnce, AheadIsUnsent,
         Unsent, InFlight, NamedBefore, TabOf, Ended
    <3> QED BY <3>2, <3>3
  <2> QED BY <2>1, <2>2, StepOfOne
<1>34. CASE OtherClaims
  <2>1. \A q \in Runs : UNCHANGED View(q)
    BY <1>34 DEF OtherClaims, Fault
  <2> QED BY <2>1, SameView DEF WriteInv
<1>35. CASE OtherReleases
  <2>1. \A q \in Runs : UNCHANGED View(q)
    BY <1>35 DEF OtherReleases
  <2> QED BY <2>1, SameView DEF WriteInv
<1>36. CASE CooldownElapses
  <2>1. \A q \in Runs : UNCHANGED View(q)
    BY <1>36 DEF CooldownElapses
  <2> QED BY <2>1, SameView DEF WriteInv
<1>37. CASE UserClosesTab
  <2>1. \A q \in Runs : UNCHANGED View(q)
    BY <1>37 DEF UserClosesTab, Fault
  <2> QED BY <2>1, SameView DEF WriteInv
<1> QED
  BY <1>0, <1>1, <1>2, <1>3, <1>4, <1>5, <1>6, <1>7, <1>8, <1>9, <1>9a, <1>10, <1>11, <1>12, <1>13, <1>14, <1>15, <1>16, <1>17, <1>18, <1>19, <1>20, <1>21, <1>22, <1>23, <1>24, <1>25, <1>26, <1>26a, <1>26b, <1>27, <1>28, <1>29, <1>30, <1>31, <1>32, <1>33, <1>34, <1>35, <1>36, <1>37
     DEF Next, QueueStep, SetupStep, SetupFails, StepStep, EndStep

\* A write that comes after a step whose answer names the tab is applied at most once for a
\* run: that answer rules the rerun out, and a write is never sent again within an attempt.
THEOREM WritesOnceHolds == Spec => []WritesOnce
<1>1. Init => TypeInv /\ WriteInv
  <2> SUFFICES ASSUME Init PROVE TypeInv /\ WriteInv
    OBVIOUS
  <2>1. TypeInv
    BY WorkflowAssumption DEF Init, TypeInv, TypeOK, CallsAreSteps, Errors, Steps
  <2>2. WriteInv
    BY WorkflowAssumption
       DEF Init, WriteInv, RunInv, CallInv, NothingSeen, SentOnce, AheadIsUnsent, Unsent, InFlight,
           NamedBefore, Steps
  <2> QED BY <2>1, <2>2
<1>2. TypeInv /\ WriteInv /\ [Next]_vars => (TypeInv /\ WriteInv)'
  BY TypeStep, WriteStep
<1>3. TypeInv /\ WriteInv => WritesOnce
  <2> SUFFICES ASSUME TypeInv, WriteInv, NEW r \in Runs, NEW i \in Writes,
                      NamedBefore(i)
               PROVE  applied[r][i] <= 1
    BY DEF WritesOnce
  <2>1. applied[r][i] + late[r][i] <= 1
    BY DEF WriteInv, RunInv, SentOnce
  <2>2. applied[r][i] \in Nat /\ late[r][i] \in Nat
    BY WorkflowAssumption DEF TypeInv, TypeOK
  <2> QED BY <2>1, <2>2
<1> QED
  BY <1>1, <1>2, <1>3, PTL DEF Spec

-----------------------------------------------------------------------------
(* The tab that is left open for the next run, where all runs ask for the  *)
(* same browser.                                                           *)

SameBrowsers == \A q, r \in Runs : Target[q] = Target[r]

Waiting == {"idle", "queued"}
Working == {"ready", "claim", "open", "step", "call", "delay", "snapshot", "close"}
Closing == {"release", "record", "ran"}

\* The tab that a run saw last is the one it was given, or that of its session, unless
\* that was closed.
SeenInv(r) ==
  IF ref[r] # None THEN seen[r] \in {None, ref[r]}
                   ELSE seen[r] \in {None, own[r]} \/ seen[r] \notin open

\* A run inside was given the tab of the state file; it runs again only because that is gone.
GivenInv(r) ==
  /\ pc[r] \in Waiting => ~again[r] /\ ref[r] = None /\ seen[r] = None /\ error[r] # "missing"
  /\ pc[r] \in Working \cup Closing =>
       IF again[r] THEN parked[r] = None /\ ref[r] = None /\ site.tab \notin open
                   ELSE parked[r] = site.tab /\ ref[r] = site.tab
  /\ pc[r] \in Working \cup Closing /\ error[r] = "missing" /\ ref[r] # None => ref[r] \notin open

Kept(r) == left[r] \in open /\ seen[r] \in open \cup {None}

\* What a run leaves open is what it will write to the state file.
LeftInv(r) ==
  /\ pc[r] \in Waiting \cup Working => left[r] \notin open
  /\ pc[r] \in Closing /\ Kept(r) => left[r] = IF seen[r] # None THEN seen[r] ELSE parked[r]
  /\ pc[r] = "done" /\ Kept(r) => site.tab = left[r]

TabInv(r) == SeenInv(r) /\ GivenInv(r) /\ LeftInv(r)

\* The inductive invariant: the state file is about the browser of all, and each run is as above.
ParkInv ==
  SameBrowsers =>
    /\ site.tab # None => \A r \in Runs : site.target = Target[r]
    /\ \A r \in Runs : TabInv(r)

TabsOf(r) == <<ref[r], seen[r], own[r], again[r], left[r]>>

\* A tab that is opened is one that nobody knows; what is known of a run stays.
LEMMA SameTabs ==
  ASSUME TypeInv, NEW r \in Runs, TabInv(r),
         UNCHANGED <<pc[r], error[r], parked[r], ref[r], seen[r], again[r], left[r], site.tab>>,
         \A t \in open' : t \in open \/ t \in Unused,
         own'[r] = own[r] \/ own[r] \notin open
  PROVE  TabInv(r)'
<1>1. None \notin open /\ None \notin open' /\ \A t \in {site.tab, ref[r], seen[r], left[r]} : t \notin Unused
  BY WorkflowAssumption DEF TypeInv, TypeOK, Unused
<1>2. \A t \in {site.tab, ref[r], seen[r], left[r]} : t \in open' => t \in open
  BY <1>1
<1>3. SeenInv(r)'
  BY <1>2 DEF TabInv, SeenInv
<1>4. GivenInv(r)'
  BY <1>2 DEF TabInv, GivenInv
<1>5. LeftInv(r)'
  BY <1>2 DEF TabInv, LeftInv, Kept
<1> QED BY <1>3, <1>4, <1>5 DEF TabInv

\* So it does when a run goes on without touching a tab, or ends without an answer.
LEMMA QuietTabs ==
  ASSUME TypeInv, NEW r \in Runs, TabInv(r), UNCHANGED <<TabsOf(r), open, site.tab>>,
         \/ pc'[r] \in {"refused", "broken", "dead"}
         \/ /\ parked'[r] = parked[r] /\ (error'[r] = "missing" => error[r] = "missing")
            /\ \/ pc[r] \in Waiting /\ pc'[r] \in Waiting
               \/ pc[r] \in Working /\ pc'[r] \in Working \cup Closing
               \/ pc[r] \in Closing /\ pc'[r] \in Closing
  PROVE  TabInv(r)'
<1>1. SeenInv(r)'
  BY DEF TabInv, SeenInv, TabsOf
<1>2. CASE pc'[r] \in {"refused", "broken", "dead"}
  BY <1>1, <1>2 DEF TabInv, GivenInv, LeftInv, Waiting, Working, Closing
<1>3. CASE /\ parked'[r] = parked[r] /\ (error'[r] = "missing" => error[r] = "missing")
           /\ pc[r] \in Waiting /\ pc'[r] \in Waiting
  BY <1>1, <1>3 DEF TabInv, GivenInv, LeftInv, Kept, Waiting, Working, Closing, TabsOf
<1>4. CASE /\ parked'[r] = parked[r] /\ (error'[r] = "missing" => error[r] = "missing")
           /\ pc[r] \in Working /\ pc'[r] \in Working \cup Closing
  BY <1>1, <1>4 DEF TabInv, GivenInv, LeftInv, Kept, Waiting, Working, Closing, TabsOf
<1>5. CASE /\ parked'[r] = parked[r] /\ (error'[r] = "missing" => error[r] = "missing")
           /\ pc[r] \in Closing /\ pc'[r] \in Closing
  BY <1>1, <1>5 DEF TabInv, GivenInv, LeftInv, Kept, Waiting, Working, Closing, TabsOf
<1> QED BY <1>2, <1>3, <1>4, <1>5

\* A step of one run leaves what is known of the others, unless it writes the state file.
LEMMA TabsOfOne ==
  ASSUME TypeInv, ParkInv, NEW r \in Runs, SameBrowsers => TabInv(r)',
         \A q \in Runs \ {r} : UNCHANGED <<pc[q], error[q], parked[q], TabsOf(q)>>,
         UNCHANGED site, \A t \in open' : t \in open \/ t \in Unused
  PROVE  ParkInv'
<1> SUFFICES ASSUME SameBrowsers
             PROVE  /\ site'.tab # None => \A q \in Runs : site'.target = Target[q]
                    /\ \A q \in Runs : TabInv(q)'
  BY DEF ParkInv, SameBrowsers
<1>1. \A q \in Runs \ {r} : TabInv(q)'
  <2> TAKE q \in Runs \ {r}
  <2>1. TabInv(q)
    BY DEF ParkInv
  <2> QED BY <2>1, SameTabs DEF TabsOf
<1> QED BY <1>1 DEF ParkInv

\* A quiet step.
LEMMA QuietPark ==
  ASSUME TypeInv, ParkInv, NEW r \in Runs, UNCHANGED <<tabs, own, left, open, site>>,
         \A q \in Runs \ {r} : UNCHANGED <<pc[q], error[q], parked[q]>>,
         \/ pc'[r] \in {"refused", "broken", "dead"}
         \/ /\ parked'[r] = parked[r] /\ (error'[r] = "missing" => error[r] = "missing")
            /\ \/ pc[r] \in Waiting /\ pc'[r] \in Waiting
               \/ pc[r] \in Working /\ pc'[r] \in Working \cup Closing
               \/ pc[r] \in Closing /\ pc'[r] \in Closing
  PROVE  ParkInv'
<1>1. \A q \in Runs : UNCHANGED TabsOf(q)
  BY DEF TabsOf, tabs
<1>2. SameBrowsers => TabInv(r)'
  BY <1>1, QuietTabs DEF ParkInv
<1> QED BY <1>1, <1>2, TabsOfOne

\* The browser applies a call, in time or late.
LEMMA AppliesPark ==
  ASSUME TypeInv, ParkInv, NEW r \in Runs, NEW i, Applies(r, i),
         UNCHANGED <<pc, error, parked, tabs, left, site>>
  PROVE  ParkInv'
<1>1. \A t \in open' : t \in open \/ t \in Unused
  BY DEF Applies
<1>2. own' = own \/ (own[r] \notin open /\ \E t : own' = [own EXCEPT ![r] = t])
  BY DEF Applies
<1>3. \A q \in Runs : own'[q] = own[q] \/ own[q] \notin open
  BY <1>2 DEF TypeInv, TypeOK
<1>4. \A q \in Runs : TabInv(q) => TabInv(q)'
  BY <1>1, <1>3, SameTabs DEF tabs
<1> QED BY <1>4 DEF ParkInv, SameBrowsers

\* A step keeps what is known of the parked tab.
LEMMA ParkStep == TypeInv /\ GateInv /\ ParkInv /\ [Next]_vars => ParkInv'
<1> SUFFICES ASSUME TypeInv, GateInv, ParkInv, [Next]_vars PROVE ParkInv'
  OBVIOUS
<1>a. /\ pc \in [Runs -> Labels] /\ error \in [Runs -> Errors] /\ parked \in [Runs -> Tabs \cup {None}]
      /\ seen \in [Runs -> Tabs \cup {None}] /\ ref \in [Runs -> Tabs \cup {None}]
      /\ own \in [Runs -> Tabs \cup {None}] /\ left \in [Runs -> Tabs \cup {None}]
      /\ again \in [Runs -> BOOLEAN]
      /\ open \subseteq Tabs /\ None \notin Tabs /\ None \notin open
  BY WorkflowAssumption DEF TypeInv, TypeOK, Labels
<1> USE <1>a DEF Go
<1>0. ASSUME UNCHANGED <<pc, error, parked, tabs, own, left>>, site'.tab = site.tab, site'.target = site.target,
             open' \subseteq open
      PROVE  ParkInv'
  <2>1. \A r \in Runs : TabInv(r) => TabInv(r)'
    BY <1>0, SameTabs DEF tabs
  <2> QED BY <1>0, <2>1 DEF ParkInv, SameBrowsers
<1>1. ASSUME NEW r \in Runs, Start(r) PROVE ParkInv'
  <2>1. /\ UNCHANGED <<tabs, own, left, open, site>>
        /\ \A p \in Runs \ {r} : UNCHANGED <<pc[p], error[p], parked[p]>>
    BY <1>1 DEF Start, queue, browser
  <2>2. \/ pc'[r] \in {"refused", "broken", "dead"}
        \/ /\ parked'[r] = parked[r] /\ (error'[r] = "missing" => error[r] = "missing")
           /\ \/ pc[r] \in Waiting /\ pc'[r] \in Waiting
              \/ pc[r] \in Working /\ pc'[r] \in Working \cup Closing
              \/ pc[r] \in Closing /\ pc'[r] \in Closing
    BY <1>1 DEF Start, queue, Waiting, Working, Closing
  <2> QED BY <2>1, <2>2, QuietPark
<1>2. ASSUME NEW r \in Runs, Acquire(r) PROVE ParkInv'
  <2>1. /\ pc[r] = "queued" /\ pc'[r] = "ready" /\ parked'[r] = site.tab
        /\ ref'[r] = (IF site.target = Target[r] THEN site.tab ELSE None)
        /\ UNCHANGED <<seen, again, own, left, open, site, error>>
        /\ \A p \in Runs \ {r} : UNCHANGED <<pc[p], error[p], parked[p], ref[p]>>
    BY <1>2 DEF Acquire, browser
  <2>2. ASSUME SameBrowsers PROVE TabInv(r)'
    <3>1. site.tab # None => site.target = Target[r]
      BY <2>2 DEF ParkInv
    <3>2. ref'[r] = site.tab
      BY <2>1, <3>1
    <3>3. ~again[r] /\ ref[r] = None /\ seen[r] = None /\ left[r] \notin open /\ error[r] # "missing"
      BY <2>1, <2>2 DEF ParkInv, TabInv, GivenInv, LeftInv, Waiting
    <3>4. SeenInv(r)'
      BY <2>1, <3>3 DEF SeenInv
    <3>5. LeftInv(r)'
      BY <2>1, <3>3 DEF LeftInv, Waiting, Working, Closing
    <3>6. GivenInv(r)'
      BY <2>1, <3>2, <3>3 DEF GivenInv, Waiting
    <3> QED BY <3>4, <3>5, <3>6 DEF TabInv
  <2> QED BY <2>1, <2>2, TabsOfOne DEF TabsOf
<1>3. ASSUME NEW r \in Runs, Refused(r) PROVE ParkInv'
  <2>1. /\ UNCHANGED <<tabs, own, left, open, site>>
        /\ \A p \in Runs \ {r} : UNCHANGED <<pc[p], error[p], parked[p]>>
    BY <1>3 DEF Refused, queue, browser
  <2>2. \/ pc'[r] \in {"refused", "broken", "dead"}
        \/ /\ parked'[r] = parked[r] /\ (error'[r] = "missing" => error[r] = "missing")
           /\ \/ pc[r] \in Waiting /\ pc'[r] \in Waiting
              \/ pc[r] \in Working /\ pc'[r] \in Working \cup Closing
              \/ pc[r] \in Closing /\ pc'[r] \in Closing
    BY <1>3 DEF Refused, queue, Waiting, Working, Closing
  <2> QED BY <2>1, <2>2, QuietPark
<1>4. ASSUME NEW r \in Runs, Ready(r) PROVE ParkInv'
  <2>1. /\ UNCHANGED <<tabs, own, left, open, site>>
        /\ \A p \in Runs \ {r} : UNCHANGED <<pc[p], error[p], parked[p]>>
    BY <1>4 DEF Ready, queue, browser
  <2>2. \/ pc'[r] \in {"refused", "broken", "dead"}
        \/ /\ parked'[r] = parked[r] /\ (error'[r] = "missing" => error[r] = "missing")
           /\ \/ pc[r] \in Waiting /\ pc'[r] \in Waiting
              \/ pc[r] \in Working /\ pc'[r] \in Working \cup Closing
              \/ pc[r] \in Closing /\ pc'[r] \in Closing
    BY <1>4 DEF Ready, queue, Waiting, Working, Closing
  <2> QED BY <2>1, <2>2, QuietPark
<1>5. ASSUME NEW r \in Runs, Claim(r) PROVE ParkInv'
  <2>1. /\ UNCHANGED <<tabs, own, left, open, site>>
        /\ \A p \in Runs \ {r} : UNCHANGED <<pc[p], error[p], parked[p]>>
    BY <1>5 DEF Claim, queue, browser
  <2>2. \/ pc'[r] \in {"refused", "broken", "dead"}
        \/ /\ parked'[r] = parked[r] /\ (error'[r] = "missing" => error[r] = "missing")
           /\ \/ pc[r] \in Waiting /\ pc'[r] \in Waiting
              \/ pc[r] \in Working /\ pc'[r] \in Working \cup Closing
              \/ pc[r] \in Closing /\ pc'[r] \in Closing
    BY <1>5 DEF Claim, queue, Waiting, Working, Closing
  <2> QED BY <2>1, <2>2, QuietPark
<1>6. ASSUME NEW r \in Runs, OpenSession(r) PROVE ParkInv'
  <2>1. /\ UNCHANGED <<tabs, own, left, open, site>>
        /\ \A p \in Runs \ {r} : UNCHANGED <<pc[p], error[p], parked[p]>>
    BY <1>6 DEF OpenSession, queue, browser
  <2>2. \/ pc'[r] \in {"refused", "broken", "dead"}
        \/ /\ parked'[r] = parked[r] /\ (error'[r] = "missing" => error[r] = "missing")
           /\ \/ pc[r] \in Waiting /\ pc'[r] \in Waiting
              \/ pc[r] \in Working /\ pc'[r] \in Working \cup Closing
              \/ pc[r] \in Closing /\ pc'[r] \in Closing
    BY <1>6 DEF OpenSession, queue, Waiting, Working, Closing
  <2> QED BY <2>1, <2>2, QuietPark
<1>7. ASSUME NEW r \in Runs, NotReady(r) PROVE ParkInv'
  <2>1. /\ UNCHANGED <<tabs, own, left, open, site>>
        /\ \A p \in Runs \ {r} : UNCHANGED <<pc[p], error[p], parked[p]>>
    BY <1>7 DEF NotReady, queue, browser
  <2>2. \/ pc'[r] \in {"refused", "broken", "dead"}
        \/ /\ parked'[r] = parked[r] /\ (error'[r] = "missing" => error[r] = "missing")
           /\ \/ pc[r] \in Waiting /\ pc'[r] \in Waiting
              \/ pc[r] \in Working /\ pc'[r] \in Working \cup Closing
              \/ pc[r] \in Closing /\ pc'[r] \in Closing
    BY <1>7 DEF NotReady, queue, Waiting, Working, Closing
  <2> QED BY <2>1, <2>2, QuietPark
<1>8. ASSUME NEW r \in Runs, ClaimFails(r) PROVE ParkInv'
  <2>1. /\ UNCHANGED <<tabs, own, left, open, site>>
        /\ \A p \in Runs \ {r} : UNCHANGED <<pc[p], error[p], parked[p]>>
    BY <1>8 DEF ClaimFails, queue, browser
  <2>2. \/ pc'[r] \in {"refused", "broken", "dead"}
        \/ /\ parked'[r] = parked[r] /\ (error'[r] = "missing" => error[r] = "missing")
           /\ \/ pc[r] \in Waiting /\ pc'[r] \in Waiting
              \/ pc[r] \in Working /\ pc'[r] \in Working \cup Closing
              \/ pc[r] \in Closing /\ pc'[r] \in Closing
    BY <1>8 DEF ClaimFails, queue, Waiting, Working, Closing
  <2> QED BY <2>1, <2>2, QuietPark
<1>9. ASSUME NEW r \in Runs, OpenFails(r) PROVE ParkInv'
  <2>1. /\ UNCHANGED <<tabs, own, left, open, site>>
        /\ \A p \in Runs \ {r} : UNCHANGED <<pc[p], error[p], parked[p]>>
    BY <1>9 DEF OpenFails, queue, browser
  <2>2. \/ pc'[r] \in {"refused", "broken", "dead"}
        \/ /\ parked'[r] = parked[r] /\ (error'[r] = "missing" => error[r] = "missing")
           /\ \/ pc[r] \in Waiting /\ pc'[r] \in Waiting
              \/ pc[r] \in Working /\ pc'[r] \in Working \cup Closing
              \/ pc[r] \in Closing /\ pc'[r] \in Closing
    BY <1>9 DEF OpenFails, queue, Waiting, Working, Closing
  <2> QED BY <2>1, <2>2, QuietPark
<1>9a. ASSUME NEW r \in Runs, StoreFails(r) PROVE ParkInv'
  <2>1. /\ UNCHANGED <<tabs, own, left, open, site>>
        /\ \A p \in Runs \ {r} : UNCHANGED <<pc[p], error[p], parked[p]>>
    BY <1>9a DEF StoreFails, queue, browser
  <2>2. \/ pc'[r] \in {"refused", "broken", "dead"}
        \/ /\ parked'[r] = parked[r] /\ (error'[r] = "missing" => error[r] = "missing")
           /\ \/ pc[r] \in Waiting /\ pc'[r] \in Waiting
              \/ pc[r] \in Working /\ pc'[r] \in Working \cup Closing
              \/ pc[r] \in Closing /\ pc'[r] \in Closing
    BY <1>9a DEF StoreFails, queue, Waiting, Working, Closing
  <2> QED BY <2>1, <2>2, QuietPark
<1>10. ASSUME NEW r \in Runs, Send(r) PROVE ParkInv'
  <2>1. /\ UNCHANGED <<tabs, own, left, open, site>>
        /\ \A p \in Runs \ {r} : UNCHANGED <<pc[p], error[p], parked[p]>>
    BY <1>10 DEF Send, queue, browser
  <2>2. \/ pc'[r] \in {"refused", "broken", "dead"}
        \/ /\ parked'[r] = parked[r] /\ (error'[r] = "missing" => error[r] = "missing")
           /\ \/ pc[r] \in Waiting /\ pc'[r] \in Waiting
              \/ pc[r] \in Working /\ pc'[r] \in Working \cup Closing
              \/ pc[r] \in Closing /\ pc'[r] \in Closing
    BY <1>10 DEF Send, queue, Waiting, Working, Closing
  <2> QED BY <2>1, <2>2, QuietPark
<1>11. ASSUME NEW r \in Runs, WaitLocally(r) PROVE ParkInv'
  <2>1. /\ UNCHANGED <<tabs, own, left, open, site>>
        /\ \A p \in Runs \ {r} : UNCHANGED <<pc[p], error[p], parked[p]>>
    BY <1>11 DEF WaitLocally, queue, browser
  <2>2. \/ pc'[r] \in {"refused", "broken", "dead"}
        \/ /\ parked'[r] = parked[r] /\ (error'[r] = "missing" => error[r] = "missing")
           /\ \/ pc[r] \in Waiting /\ pc'[r] \in Waiting
              \/ pc[r] \in Working /\ pc'[r] \in Working \cup Closing
              \/ pc[r] \in Closing /\ pc'[r] \in Closing
    BY <1>11 DEF WaitLocally, queue, Waiting, Working, Closing
  <2> QED BY <2>1, <2>2, QuietPark
<1>12. ASSUME NEW r \in Runs, Finish(r) PROVE ParkInv'
  <2>1. /\ UNCHANGED <<tabs, own, left, open, site>>
        /\ \A p \in Runs \ {r} : UNCHANGED <<pc[p], error[p], parked[p]>>
    BY <1>12 DEF Finish, queue, browser
  <2>2. \/ pc'[r] \in {"refused", "broken", "dead"}
        \/ /\ parked'[r] = parked[r] /\ (error'[r] = "missing" => error[r] = "missing")
           /\ \/ pc[r] \in Waiting /\ pc'[r] \in Waiting
              \/ pc[r] \in Working /\ pc'[r] \in Working \cup Closing
              \/ pc[r] \in Closing /\ pc'[r] \in Closing
    BY <1>12 DEF Finish, queue, Waiting, Working, Closing
  <2> QED BY <2>1, <2>2, QuietPark
<1>13. ASSUME NEW r \in Runs, Apply(r) PROVE ParkInv'
  BY <1>13, AppliesPark DEF Apply, queue
<1>14. ASSUME NEW r \in Runs, Succeeds(r) PROVE ParkInv'
  <2>1. /\ pc[r] = "call" /\ pc'[r] \in {"step", "close"} /\ seen'[r] \in {seen[r], TabOf(r)}
        /\ UNCHANGED <<ref, again, own, left, open, site, parked, error>>
        /\ \A p \in Runs \ {r} : UNCHANGED <<pc[p], seen[p]>>
    BY <1>14 DEF Succeeds, SeesTab, queue
  <2>2. ASSUME SameBrowsers PROVE TabInv(r)'
    <3>1. TabInv(r)
      BY <2>2 DEF ParkInv
    <3>2. SeenInv(r)'
      BY <2>1, <3>1 DEF TabInv, SeenInv, TabOf
    <3>3. GivenInv(r)'
      BY <2>1, <3>1 DEF TabInv, GivenInv, Waiting, Working, Closing
    <3>4. LeftInv(r)'
      BY <2>1, <3>1 DEF TabInv, LeftInv, Waiting, Working, Closing
    <3> QED BY <3>2, <3>3, <3>4 DEF TabInv
  <2> QED BY <2>1, <2>2, TabsOfOne DEF TabsOf
<1>15. ASSUME NEW r \in Runs, RetryTransient(r) PROVE ParkInv'
  <2>1. /\ UNCHANGED <<tabs, own, left, open, site>>
        /\ \A p \in Runs \ {r} : UNCHANGED <<pc[p], error[p], parked[p]>>
    BY <1>15 DEF RetryTransient, GiveUp, queue, browser
  <2>2. \/ pc'[r] \in {"refused", "broken", "dead"}
        \/ /\ parked'[r] = parked[r] /\ (error'[r] = "missing" => error[r] = "missing")
           /\ \/ pc[r] \in Waiting /\ pc'[r] \in Waiting
              \/ pc[r] \in Working /\ pc'[r] \in Working \cup Closing
              \/ pc[r] \in Closing /\ pc'[r] \in Closing
    BY <1>15 DEF RetryTransient, GiveUp, queue, Waiting, Working, Closing
  <2> QED BY <2>1, <2>2, QuietPark
<1>16. ASSUME NEW r \in Runs, Resend(r) PROVE ParkInv'
  <2>1. /\ UNCHANGED <<tabs, own, left, open, site>>
        /\ \A p \in Runs \ {r} : UNCHANGED <<pc[p], error[p], parked[p]>>
    BY <1>16 DEF Resend, queue, browser
  <2>2. \/ pc'[r] \in {"refused", "broken", "dead"}
        \/ /\ parked'[r] = parked[r] /\ (error'[r] = "missing" => error[r] = "missing")
           /\ \/ pc[r] \in Waiting /\ pc'[r] \in Waiting
              \/ pc[r] \in Working /\ pc'[r] \in Working \cup Closing
              \/ pc[r] \in Closing /\ pc'[r] \in Closing
    BY <1>16 DEF Resend, queue, Waiting, Working, Closing
  <2> QED BY <2>1, <2>2, QuietPark
<1>17. ASSUME NEW r \in Runs, StepFails(r) PROVE ParkInv'
  <2>1. /\ UNCHANGED <<tabs, own, left, open, site>>
        /\ \A p \in Runs \ {r} : UNCHANGED <<pc[p], error[p], parked[p]>>
    BY <1>17 DEF StepFails, GiveUp, Fail, queue, browser
  <2>2. \/ pc'[r] \in {"refused", "broken", "dead"}
        \/ /\ parked'[r] = parked[r] /\ (error'[r] = "missing" => error[r] = "missing")
           /\ \/ pc[r] \in Waiting /\ pc'[r] \in Waiting
              \/ pc[r] \in Working /\ pc'[r] \in Working \cup Closing
              \/ pc[r] \in Closing /\ pc'[r] \in Closing
    BY <1>17 DEF StepFails, GiveUp, Fail, queue, Waiting, Working, Closing
  <2> QED BY <2>1, <2>2, QuietPark
<1>18. ASSUME NEW r \in Runs, TabMissing(r) PROVE ParkInv'
  <2>1. /\ pc[r] = "call" /\ pc'[r] \in {"snapshot", "close"} /\ TabOf(r) \notin open
        /\ UNCHANGED <<tabs, own, left, open, site, parked>>
        /\ \A p \in Runs \ {r} : UNCHANGED <<pc[p], error[p]>>
    BY <1>18 DEF TabMissing, Fail, queue
  <2>2. ASSUME SameBrowsers PROVE TabInv(r)'
    <3>1. TabInv(r)
      BY <2>2 DEF ParkInv
    <3>2. SeenInv(r)'
      BY <2>1, <3>1 DEF TabInv, SeenInv, tabs
    <3>3. GivenInv(r)'
      BY <2>1, <3>1 DEF TabInv, GivenInv, Waiting, Working, Closing, TabOf, tabs
    <3>4. LeftInv(r)'
      BY <2>1, <3>1 DEF TabInv, LeftInv, Waiting, Working, Closing, tabs
    <3> QED BY <3>2, <3>3, <3>4 DEF TabInv
  <2> QED BY <2>1, <2>2, TabsOfOne DEF TabsOf, tabs
<1>19. ASSUME NEW r \in Runs, Challenge(r) PROVE ParkInv'
  <2>1. /\ UNCHANGED <<tabs, own, left, open, site>>
        /\ \A p \in Runs \ {r} : UNCHANGED <<pc[p], error[p], parked[p]>>
    BY <1>19 DEF Challenge, GiveUp, Fail, queue, browser
  <2>2. \/ pc'[r] \in {"refused", "broken", "dead"}
        \/ /\ parked'[r] = parked[r] /\ (error'[r] = "missing" => error[r] = "missing")
           /\ \/ pc[r] \in Waiting /\ pc'[r] \in Waiting
              \/ pc[r] \in Working /\ pc'[r] \in Working \cup Closing
              \/ pc[r] \in Closing /\ pc'[r] \in Closing
    BY <1>19 DEF Challenge, GiveUp, Fail, queue, Waiting, Working, Closing
  <2> QED BY <2>1, <2>2, QuietPark
<1>20. ASSUME NEW r \in Runs, Snapshot(r) PROVE ParkInv'
  <2>1. /\ UNCHANGED <<tabs, own, left, open, site>>
        /\ \A p \in Runs \ {r} : UNCHANGED <<pc[p], error[p], parked[p]>>
    BY <1>20 DEF Snapshot, queue, browser
  <2>2. \/ pc'[r] \in {"refused", "broken", "dead"}
        \/ /\ parked'[r] = parked[r] /\ (error'[r] = "missing" => error[r] = "missing")
           /\ \/ pc[r] \in Waiting /\ pc'[r] \in Waiting
              \/ pc[r] \in Working /\ pc'[r] \in Working \cup Closing
              \/ pc[r] \in Closing /\ pc'[r] \in Closing
    BY <1>20 DEF Snapshot, queue, Waiting, Working, Closing
  <2> QED BY <2>1, <2>2, QuietPark
<1>21. ASSUME NEW r \in Runs, Cancel(r) PROVE ParkInv'
  <2>1. /\ UNCHANGED <<tabs, own, left, open, site>>
        /\ \A p \in Runs \ {r} : UNCHANGED <<pc[p], error[p], parked[p]>>
    BY <1>21 DEF Cancel, Cancellable, queue, browser
  <2>2. \/ pc'[r] \in {"refused", "broken", "dead"}
        \/ /\ parked'[r] = parked[r] /\ (error'[r] = "missing" => error[r] = "missing")
           /\ \/ pc[r] \in Waiting /\ pc'[r] \in Waiting
              \/ pc[r] \in Working /\ pc'[r] \in Working \cup Closing
              \/ pc[r] \in Closing /\ pc'[r] \in Closing
    BY <1>21 DEF Cancel, Cancellable, queue, Waiting, Working, Closing
  <2> QED BY <2>1, <2>2, QuietPark
<1>22. ASSUME NEW r \in Runs, CtrlC(r) PROVE ParkInv'
  <2>1. /\ UNCHANGED <<tabs, own, left, open, site>>
        /\ \A p \in Runs \ {r} : UNCHANGED <<pc[p], error[p], parked[p]>>
    BY <1>22 DEF CtrlC, Cancellable, queue, browser
  <2>2. \/ pc'[r] \in {"refused", "broken", "dead"}
        \/ /\ parked'[r] = parked[r] /\ (error'[r] = "missing" => error[r] = "missing")
           /\ \/ pc[r] \in Waiting /\ pc'[r] \in Waiting
              \/ pc[r] \in Working /\ pc'[r] \in Working \cup Closing
              \/ pc[r] \in Closing /\ pc'[r] \in Closing
    BY <1>22 DEF CtrlC, Cancellable, queue, Waiting, Working, Closing
  <2> QED BY <2>1, <2>2, QuietPark
<1>23. ASSUME NEW r \in Runs, Interrupt(r) PROVE ParkInv'
  <2>1. /\ UNCHANGED <<tabs, own, left, open, site>>
        /\ \A p \in Runs \ {r} : UNCHANGED <<pc[p], error[p], parked[p]>>
    BY <1>23 DEF Interrupt, GiveUp, Cancellable, queue, browser
  <2>2. \/ pc'[r] \in {"refused", "broken", "dead"}
        \/ /\ parked'[r] = parked[r] /\ (error'[r] = "missing" => error[r] = "missing")
           /\ \/ pc[r] \in Waiting /\ pc'[r] \in Waiting
              \/ pc[r] \in Working /\ pc'[r] \in Working \cup Closing
              \/ pc[r] \in Closing /\ pc'[r] \in Closing
    BY <1>23 DEF Interrupt, GiveUp, Cancellable, queue, Waiting, Working, Closing
  <2> QED BY <2>1, <2>2, QuietPark
<1>24. ASSUME NEW r \in Runs, Close(r) PROVE ParkInv'
  <2>1. /\ pc[r] = "close" /\ pc'[r] = "release" /\ error'[r] \in {"cancelled", error[r]}
        /\ open' \subseteq open
        /\ left'[r] = left[r] \/ (Keeps(r) /\ left'[r] = TabOf(r))
        /\ UNCHANGED <<tabs, own, site, parked>>
        /\ \A p \in Runs \ {r} : UNCHANGED <<pc[p], error[p], left[p]>>
    BY <1>24 DEF Close, Outcome, queue
  <2>2. ASSUME SameBrowsers PROVE TabInv(r)'
    <3>1. TabInv(r)
      BY <2>2 DEF ParkInv
    <3>2. SeenInv(r)'
      BY <2>1, <3>1 DEF TabInv, SeenInv, tabs
    <3>3. GivenInv(r)'
      BY <2>1, <3>1 DEF TabInv, GivenInv, Waiting, Working, Closing, tabs
    <3>4. LeftInv(r)'
      <4>1. CASE left'[r] = left[r]
        BY <2>1, <3>1, <4>1 DEF TabInv, LeftInv, Kept, Waiting, Working, Closing
      <4>2. CASE Keeps(r) /\ left'[r] = TabOf(r)
        <5>1. CASE ref[r] # None
          <6>1. TabOf(r) = ref[r] /\ seen[r] \in {None, ref[r]} /\ parked[r] = ref[r]
            BY <2>1, <3>1, <5>1 DEF TabOf, TabInv, SeenInv, GivenInv, Working
          <6> QED BY <2>1, <4>2, <6>1 DEF LeftInv, Kept, Waiting, Working, Closing, tabs
        <5>2. CASE ref[r] = None
          <6>1. TabOf(r) = own[r] /\ seen[r] # None /\ (seen[r] = own[r] \/ seen[r] \notin open)
            BY <3>1, <4>2, <5>2 DEF TabOf, Keeps, TabInv, SeenInv
          <6> QED BY <2>1, <4>2, <6>1 DEF LeftInv, Kept, Waiting, Working, Closing, tabs
        <5> QED BY <5>1, <5>2
      <4> QED BY <2>1, <4>1, <4>2
    <3> QED BY <3>2, <3>3, <3>4 DEF TabInv
  <2> QED BY <2>1, <2>2, TabsOfOne DEF TabsOf, tabs
<1>25. ASSUME NEW r \in Runs, CloseFails(r) PROVE ParkInv'
  <2>1. /\ UNCHANGED <<tabs, own, left, open, site>>
        /\ \A p \in Runs \ {r} : UNCHANGED <<pc[p], error[p], parked[p]>>
    BY <1>25 DEF CloseFails, Outcome, queue, browser
  <2>2. \/ pc'[r] \in {"refused", "broken", "dead"}
        \/ /\ parked'[r] = parked[r] /\ (error'[r] = "missing" => error[r] = "missing")
           /\ \/ pc[r] \in Waiting /\ pc'[r] \in Waiting
              \/ pc[r] \in Working /\ pc'[r] \in Working \cup Closing
              \/ pc[r] \in Closing /\ pc'[r] \in Closing
    BY <1>25 DEF CloseFails, Outcome, queue, Waiting, Working, Closing
  <2> QED BY <2>1, <2>2, QuietPark
<1>26. ASSUME NEW r \in Runs, Release(r) PROVE ParkInv'
  <2>1. /\ UNCHANGED <<tabs, own, left, open, site>>
        /\ \A p \in Runs \ {r} : UNCHANGED <<pc[p], error[p], parked[p]>>
    BY <1>26 DEF Release, queue, browser
  <2>2. \/ pc'[r] \in {"refused", "broken", "dead"}
        \/ /\ parked'[r] = parked[r] /\ (error'[r] = "missing" => error[r] = "missing")
           /\ \/ pc[r] \in Waiting /\ pc'[r] \in Waiting
              \/ pc[r] \in Working /\ pc'[r] \in Working \cup Closing
              \/ pc[r] \in Closing /\ pc'[r] \in Closing
    BY <1>26 DEF Release, queue, Waiting, Working, Closing
  <2> QED BY <2>1, <2>2, QuietPark
<1>26a. ASSUME NEW r \in Runs, ReleaseLost(r) PROVE ParkInv'
  <2>1. /\ UNCHANGED <<tabs, own, left, open, site>>
        /\ \A p \in Runs \ {r} : UNCHANGED <<pc[p], error[p], parked[p]>>
    BY <1>26a DEF ReleaseLost, queue, browser
  <2>2. \/ pc'[r] \in {"refused", "broken", "dead"}
        \/ /\ parked'[r] = parked[r] /\ (error'[r] = "missing" => error[r] = "missing")
           /\ \/ pc[r] \in Waiting /\ pc'[r] \in Waiting
              \/ pc[r] \in Working /\ pc'[r] \in Working \cup Closing
              \/ pc[r] \in Closing /\ pc'[r] \in Closing
    BY <1>26a DEF ReleaseLost, queue, Waiting, Working, Closing
  <2> QED BY <2>1, <2>2, QuietPark
<1>26b. ASSUME NEW r \in Runs, ReleaseLate(r) PROVE ParkInv'
  <2>1. /\ UNCHANGED <<tabs, own, left, open, site>>
        /\ \A p \in Runs \ {r} : UNCHANGED <<pc[p], error[p], parked[p]>>
    BY <1>26b DEF ReleaseLate, queue, browser
  <2>2. \/ pc'[r] \in {"refused", "broken", "dead"}
        \/ /\ parked'[r] = parked[r] /\ (error'[r] = "missing" => error[r] = "missing")
           /\ \/ pc[r] \in Waiting /\ pc'[r] \in Waiting
              \/ pc[r] \in Working /\ pc'[r] \in Working \cup Closing
              \/ pc[r] \in Closing /\ pc'[r] \in Closing
    BY <1>26b DEF ReleaseLate, queue, Waiting, Working, Closing
  <2> QED BY <2>1, <2>2, QuietPark
<1>27. ASSUME NEW r \in Runs, Record(r) PROVE ParkInv'
  <2>1. /\ UNCHANGED <<tabs, own, left, open, site>>
        /\ \A p \in Runs \ {r} : UNCHANGED <<pc[p], error[p], parked[p]>>
    BY <1>27 DEF Record, queue, browser
  <2>2. \/ pc'[r] \in {"refused", "broken", "dead"}
        \/ /\ parked'[r] = parked[r] /\ (error'[r] = "missing" => error[r] = "missing")
           /\ \/ pc[r] \in Waiting /\ pc'[r] \in Waiting
              \/ pc[r] \in Working /\ pc'[r] \in Working \cup Closing
              \/ pc[r] \in Closing /\ pc'[r] \in Closing
    BY <1>27 DEF Record, queue, Waiting, Working, Closing
  <2> QED BY <2>1, <2>2, QuietPark
<1>28. ASSUME NEW r \in Runs, RecordFails(r) PROVE ParkInv'
  <2>1. /\ UNCHANGED <<tabs, own, left, open, site>>
        /\ \A p \in Runs \ {r} : UNCHANGED <<pc[p], error[p], parked[p]>>
    BY <1>28 DEF RecordFails, queue, browser
  <2>2. \/ pc'[r] \in {"refused", "broken", "dead"}
        \/ /\ parked'[r] = parked[r] /\ (error'[r] = "missing" => error[r] = "missing")
           /\ \/ pc[r] \in Waiting /\ pc'[r] \in Waiting
              \/ pc[r] \in Working /\ pc'[r] \in Working \cup Closing
              \/ pc[r] \in Closing /\ pc'[r] \in Closing
    BY <1>28 DEF RecordFails, queue, Waiting, Working, Closing
  <2> QED BY <2>1, <2>2, QuietPark
<1>29. ASSUME NEW r \in Runs, Rerun(r) PROVE ParkInv'
  <2>1. /\ pc[r] = "ran" /\ pc'[r] = "ready" /\ again'[r] = TRUE /\ parked'[r] = None /\ ref'[r] = None
        /\ error'[r] = "none" /\ ~again[r] /\ ref[r] # None /\ error[r] = "missing" /\ seen[r] = None
        /\ UNCHANGED <<seen, own, left, open, site>>
        /\ \A p \in Runs \ {r} : UNCHANGED <<pc[p], error[p], parked[p], ref[p], again[p]>>
    BY <1>29 DEF Rerun, MustRerun
  <2>2. ASSUME SameBrowsers PROVE TabInv(r)'
    <3>1. TabInv(r)
      BY <2>2 DEF ParkInv
    <3>2. parked[r] = site.tab /\ ref[r] = site.tab /\ site.tab \notin open
      BY <2>1, <3>1 DEF TabInv, GivenInv, Closing
    <3>3. left[r] \notin open
      BY <2>1, <3>1, <3>2 DEF TabInv, LeftInv, Kept, Closing
    <3>4. SeenInv(r)'
      BY <2>1 DEF SeenInv
    <3>5. GivenInv(r)'
      BY <2>1, <3>2 DEF GivenInv, Waiting
    <3>6. LeftInv(r)'
      BY <2>1, <3>3 DEF LeftInv, Working, Closing
    <3> QED BY <3>4, <3>5, <3>6 DEF TabInv
  <2> QED BY <2>1, <2>2, TabsOfOne DEF TabsOf
<1>30. ASSUME NEW r \in Runs, Leave(r) PROVE ParkInv'
  <2>1. /\ pc[r] = "ran" /\ pc'[r] = "done"
        /\ site'.tab = (IF seen[r] # None THEN seen[r] ELSE parked[r])
        /\ site'.target = (IF seen[r] # None THEN Target[r] ELSE site.target)
        /\ UNCHANGED <<tabs, own, left, open>>
        /\ \A p \in Runs \ {r} : UNCHANGED <<pc[p], error[p], parked[p]>>
    BY <1>30 DEF Leave, Exit, browser
  <2> SUFFICES ASSUME SameBrowsers
               PROVE  /\ site'.tab # None => \A q \in Runs : site'.target = Target[q]
                      /\ \A q \in Runs : TabInv(q)'
    BY DEF ParkInv, SameBrowsers
  <2>2. TabInv(r) /\ (site.tab # None => \A q \in Runs : site.target = Target[q])
    BY DEF ParkInv
  <2>3. IF again[r] THEN parked[r] = None /\ ref[r] = None /\ site.tab \notin open
                    ELSE parked[r] = site.tab /\ ref[r] = site.tab
    BY <2>1, <2>2 DEF TabInv, GivenInv, Closing
  <2>4. site'.tab # None => \A q \in Runs : site'.target = Target[q]
    BY <2>1, <2>2, <2>3 DEF SameBrowsers
  <2>5. TabInv(r)'
    <3>1. SeenInv(r)'
      BY <2>1, <2>2 DEF TabInv, SeenInv, tabs
    <3>2. GivenInv(r)'
      BY <2>1 DEF GivenInv, Waiting, Working, Closing
    <3>3. LeftInv(r)'
      BY <2>1, <2>2 DEF TabInv, LeftInv, Kept, Waiting, Working, Closing, tabs
    <3> QED BY <3>1, <3>2, <3>3 DEF TabInv
  <2>6. ASSUME NEW q \in Runs \ {r} PROVE TabInv(q)'
    <3>1. TabInv(q)
      BY DEF ParkInv
    <3>2. pc[q] \notin Working \cup Closing
      BY <2>1 DEF GateInv, Inside, Ended, Working, Closing
    <3>3. SeenInv(q)'
      BY <2>1, <3>1 DEF TabInv, SeenInv, tabs
    <3>4. GivenInv(q)'
      BY <2>1, <3>1, <3>2 DEF TabInv, GivenInv, tabs
    <3>5. LeftInv(q)'
      <4>1. site.tab \in open => site'.tab = site.tab
        BY <2>1, <2>2, <2>3 DEF TabInv, SeenInv
      <4> QED BY <2>1, <3>1, <3>2, <4>1 DEF TabInv, LeftInv, Kept, tabs
    <3> QED BY <3>3, <3>4, <3>5 DEF TabInv
  <2> QED BY <2>4, <2>5, <2>6
<1>31. ASSUME NEW r \in Runs, LeaveFails(r) PROVE ParkInv'
  <2>1. /\ UNCHANGED <<tabs, own, left, open, site>>
        /\ \A p \in Runs \ {r} : UNCHANGED <<pc[p], error[p], parked[p]>>
    BY <1>31 DEF LeaveFails, Exit, queue, browser
  <2>2. \/ pc'[r] \in {"refused", "broken", "dead"}
        \/ /\ parked'[r] = parked[r] /\ (error'[r] = "missing" => error[r] = "missing")
           /\ \/ pc[r] \in Waiting /\ pc'[r] \in Waiting
              \/ pc[r] \in Working /\ pc'[r] \in Working \cup Closing
              \/ pc[r] \in Closing /\ pc'[r] \in Closing
    BY <1>31 DEF LeaveFails, Exit, queue, Waiting, Working, Closing
  <2> QED BY <2>1, <2>2, QuietPark
<1>32. ASSUME NEW r \in Runs, LateStep(r) PROVE ParkInv'
  BY <1>32, AppliesPark DEF LateStep, ApplyLate, queue
<1>33. ASSUME NEW r \in Runs, Kill(r) PROVE ParkInv'
  <2>1. /\ UNCHANGED <<tabs, own, left, open, site>>
        /\ \A p \in Runs \ {r} : UNCHANGED <<pc[p], error[p], parked[p]>>
    BY <1>33 DEF Kill, Exit, GiveUp, Ended, queue, browser
  <2>2. \/ pc'[r] \in {"refused", "broken", "dead"}
        \/ /\ parked'[r] = parked[r] /\ (error'[r] = "missing" => error[r] = "missing")
           /\ \/ pc[r] \in Waiting /\ pc'[r] \in Waiting
              \/ pc[r] \in Working /\ pc'[r] \in Working \cup Closing
              \/ pc[r] \in Closing /\ pc'[r] \in Closing
    BY <1>33 DEF Kill, Exit, GiveUp, Ended, queue, Waiting, Working, Closing
  <2> QED BY <2>1, <2>2, QuietPark
<1>34. CASE OtherClaims
  BY <1>34, <1>0 DEF OtherClaims, queue, browser, TypeInv, TypeOK
<1>35. CASE OtherReleases
  BY <1>35, <1>0 DEF OtherReleases, queue, browser, TypeInv, TypeOK
<1>36. CASE CooldownElapses
  BY <1>36, <1>0 DEF CooldownElapses, queue, browser, TypeInv, TypeOK
<1>37. CASE UserClosesTab
  BY <1>37, <1>0 DEF UserClosesTab, queue, browser, TypeInv, TypeOK
<1>38. CASE UNCHANGED vars
  BY <1>38, <1>0 DEF vars, queue, browser, TypeInv, TypeOK
<1> QED BY <1>1, <1>2, <1>3, <1>4, <1>5, <1>6, <1>7, <1>8, <1>9, <1>9a, <1>10, <1>11, <1>12, <1>13, <1>14, <1>15, <1>16, <1>17, <1>18, <1>19, <1>20, <1>21, <1>22, <1>23, <1>24, <1>25, <1>26, <1>26a, <1>26b, <1>27, <1>28, <1>29, <1>30, <1>31, <1>32, <1>33, <1>34, <1>35, <1>36, <1>37, <1>38
        DEF Next, QueueStep, SetupStep, SetupFails, StepStep, EndStep

\* A tab that a run left open for the next one is the tab of the state file, once that run
\* ended and unless it lost the tab it saw last.
THEOREM KeptTabIsParkedHolds == Spec => []KeptTabIsParked
<1>1. Init => TypeInv /\ GateInv /\ ParkInv
  <2> SUFFICES ASSUME Init PROVE TypeInv /\ GateInv /\ ParkInv
    OBVIOUS
  <2>1. TypeInv /\ GateInv
    BY WorkflowAssumption
       DEF Init, TypeInv, TypeOK, CallsAreSteps, Errors, Steps, GateInv, Inside, PausedSiteIsLeftAlone
  <2>2. ASSUME NEW r \in Runs PROVE TabInv(r)
    BY <2>2 DEF Init, TabInv, SeenInv, GivenInv, LeftInv, Kept, Waiting, Working, Closing
  <2> QED BY <2>1, <2>2 DEF Init, ParkInv
<1>2. TypeInv /\ GateInv /\ ParkInv /\ [Next]_vars => (TypeInv /\ GateInv /\ ParkInv)'
  BY TypeStep, GateStep, ParkStep
<1>3. ParkInv => KeptTabIsParked
  <2> SUFFICES ASSUME ParkInv, SameBrowsers, NEW r \in Runs, pc[r] = "done", Kept(r)
               PROVE  site.tab = left[r]
    BY DEF KeptTabIsParked, SameBrowsers, Kept
  <2> QED BY DEF ParkInv, TabInv, LeftInv
<1> QED
  BY <1>1, <1>2, <1>3, PTL DEF Spec
=============================================================================
