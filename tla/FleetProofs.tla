----------------------------- MODULE FleetProofs -----------------------------
(***************************************************************************)
(* Proofs about Fleet: whatever crashes, stops and redeliveries there are, *)
(* a job runs once at most and the server is told the truth about it.      *)
(***************************************************************************)
EXTENDS Fleet, TLAPS

-----------------------------------------------------------------------------
(* The inductive invariant.                                                *)

InHand == {"spawned", "running", "executing", "ending", "crashed"}

Flushing == {"flushing", "awaiting", "removing"}

\* No trace of j outside the journal: nothing stored, posted or recorded.
Unreported(j) ==
  /\ results[j] = Nil /\ stored[j] = Nil /\ recorded[j] = Nil
  /\ \A p \in sent : p.job # j

\* A loop that starts or ends has no job in hand.
LoopInv ==
  /\ loop \in {"off", "reconciling"} => current = Nil
  /\ (loop \in Flushing /\ back = "off") => current = Nil
  /\ loop = "finishing" => stage = "crashed"
  /\ loop = "awaiting" => post.outcome = results[post.job]
  /\ loop = "removing" => recorded[post.job] # Nil

\* What the journal says of a job, and who may still change it.
JournalInv ==
  /\ \A j \in Jobs : journal[j] = "posted" => recorded[j] # Nil
  /\ \A j \in Jobs : journal[j] \in {"accepted", "running"} =>
       \/ current = j
       \/ loop = "off"
       \/ loop = "reconciling" /\ j \in todo
  /\ \A j \in Jobs : journal[j] = "none" /\ recorded[j] = Nil => Unreported(j) /\ runs[j] = 0
  /\ stage # "none" => journal[current] # "none"
  /\ stage = "spawned" => ~Done(current)
  /\ stage = "done" => Done(current)

\* The job in hand has left no trace before its task or the loop stores a result.
HandInv ==
  /\ (stage \in InHand /\ loop # "finishing") => Unreported(current)
  /\ stage \in {"spawned", "running"} => runs[current] = 0
  /\ stage = "executing" => runs[current] = 1

\* Where a success may be found, and what the posts of a stored result say.
ReportInv ==
  /\ outcome = "succeeded" => runs[current] = 1
  /\ \A j \in Jobs : results[j] = "succeeded" => runs[j] = 1
  /\ \A p \in sent : p.outcome = "succeeded" => runs[p.job] = 1
  /\ \A j \in Jobs : recorded[j] = Nil /\ stored[j] # Nil =>
       /\ results[j] = stored[j]
       /\ \A p \in sent : p.job = j => p.outcome = stored[j]

Inv ==
  /\ TypeOK
  /\ LoopInv
  /\ JournalInv
  /\ HandInv
  /\ ReportInv
  /\ RunsOnce
  /\ ReportsAreTrue
-----------------------------------------------------------------------------
(* Every step preserves each part of it.                                   *)

\* Every step of the loop, of the task, of the server and of the process keeps the types.
LEMMA TypePreserved ==
  ASSUME TypeOK, [Next]_vars
  PROVE  TypeOK'
<1> USE FleetAssumption DEF TypeOK, Outcomes, Posts, disk, flushing, job, server, bounds, history
<1>1. CASE Start
  BY <1>1, ZenonT(60) DEF Start
<1>2. CASE Compact
  BY <1>2 DEF Compact, Flush, Kept
<1>3. CASE Flushed
  BY <1>3 DEF Flushed
<1>4. CASE Acknowledged
  BY <1>4 DEF Acknowledged, Journal
<1>5. CASE PostFails
  BY <1>5 DEF PostFails, KeepsFile
<1>6. CASE Remove
  BY <1>6 DEF Remove, Store
<1>7. CASE SeeStop
  BY <1>7 DEF SeeStop
<1>8. CASE Reap
  BY <1>8 DEF Reap, Flush, NoJob
<1>9. CASE ReapCrashed
  BY <1>9 DEF ReapCrashed
<1>10. CASE GoOn
  BY <1>10 DEF GoOn, Flush
<1>11. CASE NothingToDo
  BY <1>11 DEF NothingToDo
<1>12. CASE CancelJob
  BY <1>12 DEF CancelJob
<1>13. CASE StoppedByServer
  BY <1>13 DEF StoppedByServer
<1>14. ASSUME NEW j \in Jobs, ReconcileAbort(j) PROVE TypeOK'
  BY <1>14 DEF ReconcileAbort, MustAbort, Store
<1>15. ASSUME NEW j \in Jobs, Reconcile(j) PROVE TypeOK'
  BY <1>15 DEF Reconcile, MustAbort, Store, Journal
<1>16. ASSUME NEW j \in Jobs, Post(j) PROVE TypeOK'
  <2>1. [job |-> j, outcome |-> results[j]] \in Posts
    BY <1>16 DEF Post
  <2> QED
    BY <1>16, <2>1 DEF Post
<1>17. ASSUME NEW j \in Jobs, Deduplicate(j) PROVE TypeOK'
  BY <1>17 DEF Deduplicate, Flush
<1>18. ASSUME NEW j \in Jobs, StartJob(j) PROVE TypeOK'
  BY <1>18 DEF StartJob, Journal, Assigned
<1>19. CASE Stopped
  BY <1>19 DEF Stopped, NoJob, Flush
<1>20. CASE StopWaitsNoMore
  BY <1>20 DEF StopWaitsNoMore
<1>21. CASE AbortSpared
  BY <1>21 DEF AbortSpared, NoJob, Flush
<1>22. CASE AbortStore
  BY <1>22 DEF AbortStore, Store
<1>23. CASE AbortFinish
  BY <1>23 DEF AbortFinish, Journal, NoJob, Flush
<1>24. CASE Begin
  BY <1>24 DEF Begin, Journal
<1>25. CASE CannotExecute
  BY <1>25 DEF CannotExecute
<1>26. CASE Execute
  BY <1>26 DEF Execute
<1>27. CASE Complete
  BY <1>27 DEF Complete
<1>28. CASE Panic
  BY <1>28 DEF Panic
<1>29. CASE StoreResult
  BY <1>29 DEF StoreResult, Store
<1>30. CASE Finish
  BY <1>30 DEF Finish, Journal
<1>31. CASE RequestStop
  BY <1>31 DEF RequestStop
<1>32. CASE Arrives
  BY <1>32 DEF Arrives
<1>33. ASSUME NEW p \in sent, Record(p) PROVE TypeOK'
  BY <1>33 DEF Record
<1>34. CASE Crash
  <2>1. crashes' \in 0..MaxCrashes /\ stops' \in 0..MaxStops
    BY <1>34 DEF Crash, Ends
  <2>2. current' = Nil /\ stage' = "none" /\ outcome' = Nil /\ cancel' = FALSE
    BY <1>34 DEF Crash, Ends, NoJob
  <2> QED
    BY <1>34, <2>1, <2>2 DEF Crash, Ends
<1>35. CASE PowerFails
  <2>1. crashes' \in 0..MaxCrashes /\ stops' \in 0..MaxStops
    BY <1>35 DEF PowerFails, Ends
  <2>2. current' = Nil /\ stage' = "none" /\ outcome' = Nil /\ cancel' = FALSE
    BY <1>35 DEF PowerFails, Ends, NoJob
  <2>3. results' \in [Jobs -> Outcomes \cup {Nil}] /\ stored' \in [Jobs -> Outcomes \cup {Nil}]
    BY <1>35 DEF PowerFails
  <2> QED
    BY <1>35, <2>1, <2>2, <2>3 DEF PowerFails, Ends
<1>36. CASE UNCHANGED vars
  BY <1>36 DEF vars
<1> QED
  BY <1>1, <1>2, <1>3, <1>4, <1>5, <1>6, <1>7, <1>8, <1>9, <1>10, <1>11, <1>12, <1>13, <1>14,
     <1>15, <1>16, <1>17, <1>18, <1>19, <1>20, <1>21, <1>22, <1>23, <1>24, <1>25, <1>26, <1>27,
     <1>28, <1>29, <1>30, <1>31, <1>32, <1>33, <1>34, <1>35, <1>36 DEF Next, LoopStep, TaskStep

\* A loop that starts, ends or posts its last results has let go of its job, and a result file is
\* removed only after the server recorded an outcome (run, flush_pending).
LEMMA LoopPreserved ==
  ASSUME Inv, TypeOK', [Next]_vars
  PROVE  LoopInv'
<1> USE FleetAssumption DEF Inv, LoopInv, JournalInv, HandInv, Unreported, InHand, Done, Flushing,
        TypeOK, Outcomes, Posts, disk, flushing, job, server, bounds, history
<1>1. CASE Start
  BY <1>1 DEF Start
<1>2. CASE Compact
  BY <1>2 DEF Compact, Flush, Kept
<1>3. CASE Flushed
  BY <1>3 DEF Flushed
<1>4. CASE Acknowledged
  BY <1>4 DEF Acknowledged, Journal
<1>5. CASE PostFails
  BY <1>5 DEF PostFails, KeepsFile
<1>6. CASE Remove
  BY <1>6 DEF Remove, Store
<1>7. CASE SeeStop
  BY <1>7 DEF SeeStop
<1>8. CASE Reap
  BY <1>8 DEF Reap, Flush, NoJob
<1>9. CASE ReapCrashed
  BY <1>9 DEF ReapCrashed
<1>10. CASE GoOn
  BY <1>10 DEF GoOn, Flush
<1>11. CASE NothingToDo
  BY <1>11 DEF NothingToDo
<1>12. CASE CancelJob
  BY <1>12 DEF CancelJob
<1>13. CASE StoppedByServer
  BY <1>13 DEF StoppedByServer
<1>14. ASSUME NEW j \in Jobs, ReconcileAbort(j) PROVE LoopInv'
  BY <1>14 DEF ReconcileAbort, MustAbort, Store
<1>15. ASSUME NEW j \in Jobs, Reconcile(j) PROVE LoopInv'
  BY <1>15 DEF Reconcile, MustAbort, Store, Journal
<1>16. ASSUME NEW j \in Jobs, Post(j) PROVE LoopInv'
  BY <1>16 DEF Post
<1>17. ASSUME NEW j \in Jobs, Deduplicate(j) PROVE LoopInv'
  BY <1>17 DEF Deduplicate, Flush
<1>18. ASSUME NEW j \in Jobs, StartJob(j) PROVE LoopInv'
  BY <1>18 DEF StartJob, Journal, Assigned
<1>19. CASE Stopped
  BY <1>19 DEF Stopped, NoJob, Flush
<1>20. CASE StopWaitsNoMore
  BY <1>20 DEF StopWaitsNoMore
<1>21. CASE AbortSpared
  BY <1>21 DEF AbortSpared, NoJob, Flush
<1>22. CASE AbortStore
  BY <1>22 DEF AbortStore, Store
<1>23. CASE AbortFinish
  BY <1>23 DEF AbortFinish, Journal, NoJob, Flush
<1>24. CASE Begin
  BY <1>24 DEF Begin, Journal
<1>25. CASE CannotExecute
  BY <1>25 DEF CannotExecute
<1>26. CASE Execute
  BY <1>26 DEF Execute
<1>27. CASE Complete
  BY <1>27 DEF Complete
<1>28. CASE Panic
  BY <1>28 DEF Panic
<1>29. CASE StoreResult
  BY <1>29 DEF StoreResult, Store
<1>30. CASE Finish
  BY <1>30 DEF Finish, Journal
<1>31. CASE RequestStop
  BY <1>31 DEF RequestStop
<1>32. CASE Arrives
  BY <1>32 DEF Arrives
<1>33. ASSUME NEW p \in sent, Record(p) PROVE LoopInv'
  BY <1>33 DEF Record
<1>34. CASE Crash
  BY <1>34 DEF Crash, Ends, NoJob
<1>35. CASE PowerFails
  BY <1>35 DEF PowerFails, Ends, NoJob
<1>36. CASE UNCHANGED vars
  BY <1>36 DEF vars
<1> QED
  BY <1>1, <1>2, <1>3, <1>4, <1>5, <1>6, <1>7, <1>8, <1>9, <1>10, <1>11, <1>12, <1>13, <1>14,
     <1>15, <1>16, <1>17, <1>18, <1>19, <1>20, <1>21, <1>22, <1>23, <1>24, <1>25, <1>26, <1>27,
     <1>28, <1>29, <1>30, <1>31, <1>32, <1>33, <1>34, <1>35, <1>36 DEF Next, LoopStep, TaskStep

\* The journal: posted means recorded, accepted and running belong to the job in hand or to one
\* that reconcile_startup has still to look at, and a job it does not know left no trace.
LEMMA JournalPreserved ==
  ASSUME Inv, TypeOK', [Next]_vars
  PROVE  JournalInv'
<1> USE FleetAssumption DEF Inv, LoopInv, JournalInv, HandInv, Unreported, InHand, Done, Flushing,
        TypeOK, Outcomes, Posts, disk, flushing, job, server, bounds, history
<1>1. CASE Start
  BY <1>1 DEF Start
<1>2. CASE Compact
  BY <1>2 DEF Compact, Flush, Kept
<1>3. CASE Flushed
  BY <1>3 DEF Flushed
<1>4. CASE Acknowledged
  BY <1>4 DEF Acknowledged, Journal
<1>5. CASE PostFails
  BY <1>5 DEF PostFails, KeepsFile
<1>6. CASE Remove
  BY <1>6 DEF Remove, Store
<1>7. CASE SeeStop
  BY <1>7 DEF SeeStop
<1>8. CASE Reap
  BY <1>8 DEF Reap, Flush, NoJob
<1>9. CASE ReapCrashed
  BY <1>9 DEF ReapCrashed
<1>10. CASE GoOn
  BY <1>10 DEF GoOn, Flush
<1>11. CASE NothingToDo
  BY <1>11 DEF NothingToDo
<1>12. CASE CancelJob
  BY <1>12 DEF CancelJob
<1>13. CASE StoppedByServer
  BY <1>13 DEF StoppedByServer
<1>14. ASSUME NEW j \in Jobs, ReconcileAbort(j) PROVE JournalInv'
  BY <1>14 DEF ReconcileAbort, MustAbort, Store
<1>15. ASSUME NEW j \in Jobs, Reconcile(j) PROVE JournalInv'
  BY <1>15 DEF Reconcile, MustAbort, Store, Journal
<1>16. ASSUME NEW j \in Jobs, Post(j) PROVE JournalInv'
  BY <1>16 DEF Post
<1>17. ASSUME NEW j \in Jobs, Deduplicate(j) PROVE JournalInv'
  BY <1>17 DEF Deduplicate, Flush
<1>18. ASSUME NEW j \in Jobs, StartJob(j) PROVE JournalInv'
  BY <1>18 DEF StartJob, Journal, Assigned
<1>19. CASE Stopped
  BY <1>19 DEF Stopped, NoJob, Flush
<1>20. CASE StopWaitsNoMore
  BY <1>20 DEF StopWaitsNoMore
<1>21. CASE AbortSpared
  BY <1>21 DEF AbortSpared, NoJob, Flush
<1>22. CASE AbortStore
  <2>1. (\A k \in Jobs : journal[k] = "posted" => recorded[k] # Nil)'
    BY <1>22 DEF AbortStore, Store
  <2>2. (\A k \in Jobs : journal[k] \in {"accepted", "running"} =>
           current = k \/ loop = "off" \/ (loop = "reconciling" /\ k \in todo))'
    BY <1>22 DEF AbortStore, Store
  <2>3. (\A k \in Jobs : journal[k] = "none" /\ recorded[k] = Nil => Unreported(k) /\ runs[k] = 0)'
    BY <1>22 DEF AbortStore, Store
  <2>4. ((stage # "none" => journal[current] # "none")
         /\ (stage = "spawned" => ~Done(current)) /\ (stage = "done" => Done(current)))'
    BY <1>22 DEF AbortStore, Store
  <2> QED
    BY <2>1, <2>2, <2>3, <2>4
<1>23. CASE AbortFinish
  BY <1>23 DEF AbortFinish, Journal, NoJob, Flush
<1>24. CASE Begin
  BY <1>24 DEF Begin, Journal
<1>25. CASE CannotExecute
  BY <1>25 DEF CannotExecute
<1>26. CASE Execute
  <2>1. (\A k \in Jobs : journal[k] = "posted" => recorded[k] # Nil)'
    BY <1>26 DEF Execute
  <2>2. (\A k \in Jobs : journal[k] \in {"accepted", "running"} =>
           current = k \/ loop = "off" \/ (loop = "reconciling" /\ k \in todo))'
    BY <1>26 DEF Execute
  <2>3. (\A k \in Jobs : journal[k] = "none" /\ recorded[k] = Nil => Unreported(k) /\ runs[k] = 0)'
    BY <1>26 DEF Execute
  <2>4. ((stage # "none" => journal[current] # "none")
         /\ (stage = "spawned" => ~Done(current)) /\ (stage = "done" => Done(current)))'
    BY <1>26 DEF Execute
  <2> QED
    BY <2>1, <2>2, <2>3, <2>4
<1>27. CASE Complete
  BY <1>27 DEF Complete
<1>28. CASE Panic
  BY <1>28 DEF Panic
<1>29. CASE StoreResult
  <2>1. (\A k \in Jobs : journal[k] = "posted" => recorded[k] # Nil)'
    BY <1>29 DEF StoreResult, Store
  <2>2. (\A k \in Jobs : journal[k] \in {"accepted", "running"} =>
           current = k \/ loop = "off" \/ (loop = "reconciling" /\ k \in todo))'
    BY <1>29 DEF StoreResult, Store
  <2>3. (\A k \in Jobs : journal[k] = "none" /\ recorded[k] = Nil => Unreported(k) /\ runs[k] = 0)'
    BY <1>29 DEF StoreResult, Store
  <2>4. ((stage # "none" => journal[current] # "none")
         /\ (stage = "spawned" => ~Done(current)) /\ (stage = "done" => Done(current)))'
    BY <1>29 DEF StoreResult, Store
  <2> QED
    BY <2>1, <2>2, <2>3, <2>4
<1>30. CASE Finish
  BY <1>30 DEF Finish, Journal
<1>31. CASE RequestStop
  BY <1>31 DEF RequestStop
<1>32. CASE Arrives
  BY <1>32 DEF Arrives
<1>33. ASSUME NEW p \in sent, Record(p) PROVE JournalInv'
  BY <1>33 DEF Record
<1>34. CASE Crash
  BY <1>34 DEF Crash, Ends, NoJob
<1>35. CASE PowerFails
  BY <1>35 DEF PowerFails, Ends, NoJob
<1>36. CASE UNCHANGED vars
  BY <1>36 DEF vars
<1> QED
  BY <1>1, <1>2, <1>3, <1>4, <1>5, <1>6, <1>7, <1>8, <1>9, <1>10, <1>11, <1>12, <1>13, <1>14,
     <1>15, <1>16, <1>17, <1>18, <1>19, <1>20, <1>21, <1>22, <1>23, <1>24, <1>25, <1>26, <1>27,
     <1>28, <1>29, <1>30, <1>31, <1>32, <1>33, <1>34, <1>35, <1>36 DEF Next, LoopStep, TaskStep

\* maybe_start_job takes only jobs without a trace, and they leave none until persist_result.
LEMMA HandPreserved ==
  ASSUME Inv, TypeOK', [Next]_vars
  PROVE  HandInv'
<1> USE FleetAssumption DEF Inv, LoopInv, JournalInv, HandInv, Unreported, InHand, Done, Flushing,
        TypeOK, Outcomes, Posts, disk, flushing, job, server, bounds, history
<1>1. CASE Start
  BY <1>1 DEF Start
<1>2. CASE Compact
  BY <1>2 DEF Compact, Flush, Kept
<1>3. CASE Flushed
  BY <1>3 DEF Flushed
<1>4. CASE Acknowledged
  BY <1>4 DEF Acknowledged, Journal
<1>5. CASE PostFails
  BY <1>5 DEF PostFails, KeepsFile
<1>6. CASE Remove
  BY <1>6 DEF Remove, Store
<1>7. CASE SeeStop
  BY <1>7 DEF SeeStop
<1>8. CASE Reap
  BY <1>8 DEF Reap, Flush, NoJob
<1>9. CASE ReapCrashed
  BY <1>9 DEF ReapCrashed
<1>10. CASE GoOn
  BY <1>10 DEF GoOn, Flush
<1>11. CASE NothingToDo
  BY <1>11 DEF NothingToDo
<1>12. CASE CancelJob
  BY <1>12 DEF CancelJob
<1>13. CASE StoppedByServer
  BY <1>13 DEF StoppedByServer
<1>14. ASSUME NEW j \in Jobs, ReconcileAbort(j) PROVE HandInv'
  BY <1>14 DEF ReconcileAbort, MustAbort, Store
<1>15. ASSUME NEW j \in Jobs, Reconcile(j) PROVE HandInv'
  BY <1>15 DEF Reconcile, MustAbort, Store, Journal
<1>16. ASSUME NEW j \in Jobs, Post(j) PROVE HandInv'
  BY <1>16 DEF Post
<1>17. ASSUME NEW j \in Jobs, Deduplicate(j) PROVE HandInv'
  BY <1>17 DEF Deduplicate, Flush
<1>18. ASSUME NEW j \in Jobs, StartJob(j) PROVE HandInv'
  BY <1>18 DEF StartJob, Journal, Assigned
<1>19. CASE Stopped
  BY <1>19 DEF Stopped, NoJob, Flush
<1>20. CASE StopWaitsNoMore
  BY <1>20 DEF StopWaitsNoMore
<1>21. CASE AbortSpared
  BY <1>21 DEF AbortSpared, NoJob, Flush
<1>22. CASE AbortStore
  BY <1>22 DEF AbortStore, Store
<1>23. CASE AbortFinish
  BY <1>23 DEF AbortFinish, Journal, NoJob, Flush
<1>24. CASE Begin
  BY <1>24 DEF Begin, Journal
<1>25. CASE CannotExecute
  BY <1>25 DEF CannotExecute
<1>26. CASE Execute
  BY <1>26 DEF Execute
<1>27. CASE Complete
  BY <1>27 DEF Complete
<1>28. CASE Panic
  BY <1>28 DEF Panic
<1>29. CASE StoreResult
  BY <1>29 DEF StoreResult, Store
<1>30. CASE Finish
  BY <1>30 DEF Finish, Journal
<1>31. CASE RequestStop
  BY <1>31 DEF RequestStop
<1>32. CASE Arrives
  BY <1>32 DEF Arrives
<1>33. ASSUME NEW p \in sent, Record(p) PROVE HandInv'
  BY <1>33 DEF Record
<1>34. CASE Crash
  BY <1>34 DEF Crash, Ends, NoJob
<1>35. CASE PowerFails
  BY <1>35 DEF PowerFails, Ends, NoJob
<1>36. CASE UNCHANGED vars
  BY <1>36 DEF vars
<1> QED
  BY <1>1, <1>2, <1>3, <1>4, <1>5, <1>6, <1>7, <1>8, <1>9, <1>10, <1>11, <1>12, <1>13, <1>14,
     <1>15, <1>16, <1>17, <1>18, <1>19, <1>20, <1>21, <1>22, <1>23, <1>24, <1>25, <1>26, <1>27,
     <1>28, <1>29, <1>30, <1>31, <1>32, <1>33, <1>34, <1>35, <1>36 DEF Next, LoopStep, TaskStep

\* A success is found only of a job that ran, and posts repeat the stored result until one of
\* them is recorded (persist_result, flush_pending, reconcile_startup).
LEMMA ReportPreserved ==
  ASSUME Inv, TypeOK', [Next]_vars
  PROVE  ReportInv'
<1> USE FleetAssumption DEF Inv, LoopInv, JournalInv, HandInv, ReportInv, RunsOnce, Unreported,
        InHand, Done, Flushing, TypeOK, Outcomes, Posts, disk, flushing, job, server, bounds,
        history
<1>1. CASE Start
  BY <1>1 DEF Start
<1>2. CASE Compact
  BY <1>2 DEF Compact, Flush, Kept
<1>3. CASE Flushed
  BY <1>3 DEF Flushed
<1>4. CASE Acknowledged
  BY <1>4 DEF Acknowledged, Journal
<1>5. CASE PostFails
  BY <1>5 DEF PostFails, KeepsFile
<1>6. CASE Remove
  BY <1>6 DEF Remove, Store
<1>7. CASE SeeStop
  BY <1>7 DEF SeeStop
<1>8. CASE Reap
  BY <1>8 DEF Reap, Flush, NoJob
<1>9. CASE ReapCrashed
  BY <1>9 DEF ReapCrashed
<1>10. CASE GoOn
  BY <1>10 DEF GoOn, Flush
<1>11. CASE NothingToDo
  BY <1>11 DEF NothingToDo
<1>12. CASE CancelJob
  BY <1>12 DEF CancelJob
<1>13. CASE StoppedByServer
  BY <1>13 DEF StoppedByServer
<1>14. ASSUME NEW j \in Jobs, ReconcileAbort(j) PROVE ReportInv'
  BY <1>14 DEF ReconcileAbort, MustAbort, Store
<1>15. ASSUME NEW j \in Jobs, Reconcile(j) PROVE ReportInv'
  BY <1>15 DEF Reconcile, MustAbort, Store, Journal
<1>16. ASSUME NEW j \in Jobs, Post(j) PROVE ReportInv'
  BY <1>16 DEF Post
<1>17. ASSUME NEW j \in Jobs, Deduplicate(j) PROVE ReportInv'
  BY <1>17 DEF Deduplicate, Flush
<1>18. ASSUME NEW j \in Jobs, StartJob(j) PROVE ReportInv'
  BY <1>18 DEF StartJob, Journal, Assigned
<1>19. CASE Stopped
  BY <1>19 DEF Stopped, NoJob, Flush
<1>20. CASE StopWaitsNoMore
  BY <1>20 DEF StopWaitsNoMore
<1>21. CASE AbortSpared
  BY <1>21 DEF AbortSpared, NoJob, Flush
<1>22. CASE AbortStore
  BY <1>22 DEF AbortStore, Store
<1>23. CASE AbortFinish
  BY <1>23 DEF AbortFinish, Journal, NoJob, Flush
<1>24. CASE Begin
  BY <1>24 DEF Begin, Journal
<1>25. CASE CannotExecute
  BY <1>25 DEF CannotExecute
<1>26. CASE Execute
  BY <1>26 DEF Execute
<1>27. CASE Complete
  <2>1. (outcome = "succeeded" => runs[current] = 1)'
    BY <1>27 DEF Complete
  <2>2. (\A k \in Jobs : results[k] = "succeeded" => runs[k] = 1)'
    BY <1>27 DEF Complete
  <2>3. (\A p \in sent : p.outcome = "succeeded" => runs[p.job] = 1)'
    BY <1>27 DEF Complete
  <2>4. (\A k \in Jobs : recorded[k] = Nil /\ stored[k] # Nil =>
           results[k] = stored[k] /\ \A p \in sent : p.job = k => p.outcome = stored[k])'
    BY <1>27 DEF Complete
  <2> QED
    BY <2>1, <2>2, <2>3, <2>4
<1>28. CASE Panic
  BY <1>28 DEF Panic
<1>29. CASE StoreResult
  BY <1>29 DEF StoreResult, Store
<1>30. CASE Finish
  BY <1>30 DEF Finish, Journal
<1>31. CASE RequestStop
  BY <1>31 DEF RequestStop
<1>32. CASE Arrives
  BY <1>32 DEF Arrives
<1>33. ASSUME NEW p \in sent, Record(p) PROVE ReportInv'
  BY <1>33 DEF Record
<1>34. CASE Crash
  BY <1>34 DEF Crash, Ends, NoJob
<1>35. CASE PowerFails
  BY <1>35 DEF PowerFails, Ends, NoJob
<1>36. CASE UNCHANGED vars
  BY <1>36 DEF vars
<1> QED
  BY <1>1, <1>2, <1>3, <1>4, <1>5, <1>6, <1>7, <1>8, <1>9, <1>10, <1>11, <1>12, <1>13, <1>14,
     <1>15, <1>16, <1>17, <1>18, <1>19, <1>20, <1>21, <1>22, <1>23, <1>24, <1>25, <1>26, <1>27,
     <1>28, <1>29, <1>30, <1>31, <1>32, <1>33, <1>34, <1>35, <1>36 DEF Next, LoopStep, TaskStep

\* No step runs a job again or has the server record what is not so.
LEMMA PromisesPreserved ==
  ASSUME Inv, TypeOK', [Next]_vars
  PROVE  (RunsOnce /\ ReportsAreTrue)'
<1> USE FleetAssumption DEF Inv, LoopInv, JournalInv, HandInv, ReportInv, RunsOnce,
        ReportsAreTrue, Unreported, InHand, Done, Flushing, TypeOK, Outcomes, Posts, disk,
        flushing, job, server, bounds, history
<1>1. CASE Start
  BY <1>1 DEF Start
<1>2. CASE Compact
  BY <1>2 DEF Compact, Flush, Kept
<1>3. CASE Flushed
  BY <1>3 DEF Flushed
<1>4. CASE Acknowledged
  BY <1>4 DEF Acknowledged, Journal
<1>5. CASE PostFails
  BY <1>5 DEF PostFails, KeepsFile
<1>6. CASE Remove
  BY <1>6 DEF Remove, Store
<1>7. CASE SeeStop
  BY <1>7 DEF SeeStop
<1>8. CASE Reap
  BY <1>8 DEF Reap, Flush, NoJob
<1>9. CASE ReapCrashed
  BY <1>9 DEF ReapCrashed
<1>10. CASE GoOn
  BY <1>10 DEF GoOn, Flush
<1>11. CASE NothingToDo
  BY <1>11 DEF NothingToDo
<1>12. CASE CancelJob
  BY <1>12 DEF CancelJob
<1>13. CASE StoppedByServer
  BY <1>13 DEF StoppedByServer
<1>14. ASSUME NEW j \in Jobs, ReconcileAbort(j) PROVE (RunsOnce /\ ReportsAreTrue)'
  BY <1>14 DEF ReconcileAbort, MustAbort, Store
<1>15. ASSUME NEW j \in Jobs, Reconcile(j) PROVE (RunsOnce /\ ReportsAreTrue)'
  BY <1>15 DEF Reconcile, MustAbort, Store, Journal
<1>16. ASSUME NEW j \in Jobs, Post(j) PROVE (RunsOnce /\ ReportsAreTrue)'
  BY <1>16 DEF Post
<1>17. ASSUME NEW j \in Jobs, Deduplicate(j) PROVE (RunsOnce /\ ReportsAreTrue)'
  BY <1>17 DEF Deduplicate, Flush
<1>18. ASSUME NEW j \in Jobs, StartJob(j) PROVE (RunsOnce /\ ReportsAreTrue)'
  BY <1>18 DEF StartJob, Journal, Assigned
<1>19. CASE Stopped
  BY <1>19 DEF Stopped, NoJob, Flush
<1>20. CASE StopWaitsNoMore
  BY <1>20 DEF StopWaitsNoMore
<1>21. CASE AbortSpared
  BY <1>21 DEF AbortSpared, NoJob, Flush
<1>22. CASE AbortStore
  BY <1>22 DEF AbortStore, Store
<1>23. CASE AbortFinish
  BY <1>23 DEF AbortFinish, Journal, NoJob, Flush
<1>24. CASE Begin
  BY <1>24 DEF Begin, Journal
<1>25. CASE CannotExecute
  BY <1>25 DEF CannotExecute
<1>26. CASE Execute
  BY <1>26 DEF Execute
<1>27. CASE Complete
  BY <1>27 DEF Complete
<1>28. CASE Panic
  BY <1>28 DEF Panic
<1>29. CASE StoreResult
  BY <1>29 DEF StoreResult, Store
<1>30. CASE Finish
  BY <1>30 DEF Finish, Journal
<1>31. CASE RequestStop
  BY <1>31 DEF RequestStop
<1>32. CASE Arrives
  BY <1>32 DEF Arrives
<1>33. ASSUME NEW p \in sent, Record(p) PROVE (RunsOnce /\ ReportsAreTrue)'
  BY <1>33 DEF Record
<1>34. CASE Crash
  BY <1>34 DEF Crash, Ends, NoJob
<1>35. CASE PowerFails
  BY <1>35 DEF PowerFails, Ends, NoJob
<1>36. CASE UNCHANGED vars
  BY <1>36 DEF vars
<1> QED
  BY <1>1, <1>2, <1>3, <1>4, <1>5, <1>6, <1>7, <1>8, <1>9, <1>10, <1>11, <1>12, <1>13, <1>14,
     <1>15, <1>16, <1>17, <1>18, <1>19, <1>20, <1>21, <1>22, <1>23, <1>24, <1>25, <1>26, <1>27,
     <1>28, <1>29, <1>30, <1>31, <1>32, <1>33, <1>34, <1>35, <1>36 DEF Next, LoopStep, TaskStep

-----------------------------------------------------------------------------
(* The theorems.                                                           *)

\* The inductive invariant holds of every reachable state.
THEOREM InvHolds == Spec => []Inv
<1>1. Init => Inv
  <2> SUFFICES ASSUME Init PROVE Inv
    OBVIOUS
  <2> USE FleetAssumption DEF Init
  <2>1. TypeOK
    <3>1. crashes \in 0..MaxCrashes /\ stops \in 0..MaxStops
      OBVIOUS
    <3>2. /\ journal \in [Jobs -> {"none", "accepted", "running", "finished", "posted"}]
          /\ results \in [Jobs -> Outcomes \cup {Nil}] /\ recorded \in [Jobs -> Outcomes \cup {Nil}]
          /\ runs \in [Jobs -> Nat] /\ stored \in [Jobs -> Outcomes \cup {Nil}]
      OBVIOUS
    <3> QED
      BY <3>1, <3>2 DEF TypeOK
  <2>2. LoopInv
    BY DEF LoopInv, Flushing
  <2>3. JournalInv
    BY DEF JournalInv, Unreported
  <2>4. HandInv
    BY DEF HandInv, InHand
  <2>5. ReportInv
    BY DEF ReportInv, Outcomes
  <2>6. RunsOnce /\ ReportsAreTrue
    BY DEF RunsOnce, ReportsAreTrue
  <2> QED
    BY <2>1, <2>2, <2>3, <2>4, <2>5, <2>6 DEF Inv
<1>2. Inv /\ [Next]_vars => Inv'
  <2> SUFFICES ASSUME Inv, [Next]_vars PROVE Inv'
    OBVIOUS
  <2>1. TypeOK'
    BY TypePreserved DEF Inv
  <2>2. LoopInv'
    BY <2>1, LoopPreserved
  <2>3. JournalInv'
    BY <2>1, JournalPreserved
  <2>4. HandInv'
    BY <2>1, HandPreserved
  <2>5. ReportInv'
    BY <2>1, ReportPreserved
  <2>6. (RunsOnce /\ ReportsAreTrue)'
    BY <2>1, PromisesPreserved
  <2> QED
    BY <2>1, <2>2, <2>3, <2>4, <2>5, <2>6 DEF Inv
<1> QED
  BY <1>1, <1>2, PTL DEF Spec

\* For any jobs, and however often the process ends and the loop is stopped, the state of the
\* loop, the journal and the results has its types.
THEOREM TypeCorrect == Spec => []TypeOK
<1>1. Inv => TypeOK
  BY DEF Inv
<1> QED
  BY <1>1, InvHolds, PTL

\* A job is executed once at most, whatever is redelivered and whenever the process ends:
\* maybe_start_job and reconcile_startup together do what the header of the file says.
THEOREM RunsOnceHolds == Spec => []RunsOnce
<1>1. Inv => RunsOnce
  BY DEF Inv
<1> QED
  BY <1>1, InvHolds, PTL

\* The server keeps the outcome that the task of the job stored, if it stored one, and keeps a
\* success only of a job that was executed.
THEOREM ReportsAreTrueHolds == Spec => []ReportsAreTrue
<1>1. Inv => ReportsAreTrue
  BY DEF Inv
<1> QED
  BY <1>1, InvHolds, PTL

\* The journal forgets a completed job, by compaction or by a later entry, only after the
\* server recorded its outcome.
THEOREM CompletedIsRememberedHolds == Spec => CompletedIsRemembered
<1> DEFINE Remembered == \A j \in Jobs : journal[j] \in {"finished", "posted"} =>
                           journal'[j] \in {"finished", "posted"} \/ recorded[j] # Nil
<1>1. Inv /\ [Next]_vars => Remembered
  <2> SUFFICES ASSUME Inv, Next PROVE Remembered
    BY DEF vars, disk
  <2> USE DEF Inv, TypeOK
  <2>1. CASE Compact
    BY <2>1 DEF Compact, Kept, JournalInv
  <2>2. CASE Acknowledged
    BY <2>2 DEF Acknowledged, Journal
  <2>3. ASSUME NEW k \in Jobs, Reconcile(k) PROVE Remembered
    BY <2>3 DEF Reconcile, Journal
  <2>4. ASSUME NEW k \in Jobs, StartJob(k) PROVE Remembered
    BY <2>4 DEF StartJob, Journal, Done
  <2>5. CASE Begin
    BY <2>5 DEF Begin, Journal, JournalInv, Done
  <2>6. CASE Finish
    BY <2>6 DEF Finish, Journal
  <2>7. CASE AbortFinish
    BY <2>7 DEF AbortFinish, Journal
  <2>8. CASE UNCHANGED journal
    BY <2>8
  <2>9. ASSUME NEW k \in Jobs, ReconcileAbort(k) \/ Post(k) \/ Deduplicate(k)
        PROVE  UNCHANGED journal
    BY <2>9 DEF ReconcileAbort, Post, Deduplicate, disk
  <2>10. ASSUME \/ Start \/ Flushed \/ PostFails \/ Remove \/ SeeStop \/ Reap \/ ReapCrashed \/ GoOn
                \/ NothingToDo \/ CancelJob \/ StoppedByServer \/ Stopped \/ StopWaitsNoMore
                \/ AbortSpared \/ AbortStore
         PROVE  UNCHANGED journal
    BY <2>10 DEF Start, Flushed, PostFails, Remove, SeeStop, Reap, ReapCrashed, GoOn, NothingToDo,
       CancelJob, StoppedByServer, Stopped, StopWaitsNoMore, AbortSpared, AbortStore, disk
  <2>11. ASSUME \/ CannotExecute \/ Execute \/ Complete \/ Panic \/ StoreResult \/ RequestStop \/ Arrives
                \/ Crash \/ PowerFails \/ \E p \in sent : Record(p)
         PROVE  UNCHANGED journal
    BY <2>11 DEF CannotExecute, Execute, Complete, Panic, StoreResult, RequestStop, Arrives,
       Crash,
       PowerFails, Ends, Record, disk
  <2> QED
    BY <2>1, <2>2, <2>3, <2>4, <2>5, <2>6, <2>7, <2>8, <2>9, <2>10, <2>11
    DEF Next, LoopStep, TaskStep
<1> QED
  BY <1>1, InvHolds, PTL DEF Spec, CompletedIsRemembered
=============================================================================
