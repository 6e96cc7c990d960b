------------------------ MODULE CloudReceiptsProofs ------------------------
(***************************************************************************)
(* Theorems of CloudReceipts for every number of scopes, commands and      *)
(* fingerprints, every capacity and every bound.                           *)
(***************************************************************************)
EXTENDS CloudReceipts, TLAPS

EntriesType == [Keys -> ReceiptType]

StoreType(r) ==
  /\ r.ok \in BOOLEAN /\ r.opened \in BOOLEAN
  /\ r.journal \in EntriesType /\ r.disk \in EntriesType

-----------------------------------------------------------------------------
(* Types.                                                                  *)

\* The receipts the operators of the journal build are receipts.
LEMMA EntriesTyped ==
  ASSUME NEW entries \in EntriesType
  PROVE  /\ Recovered(entries) \in EntriesType
         /\ \A time \in Nat : Pruned(entries, time) \in EntriesType
         /\ \A k \in Keys : entries[k] \in ReceiptType
         /\ \A k \in Keys, receipt \in ReceiptType : [entries EXCEPT ![k] = receipt] \in EntriesType
<1>1. \A k \in Keys : entries[k] \in ReceiptType
  BY DEF EntriesType
<1>2. \A k \in Keys : Recovered(entries)[k] \in ReceiptType
  BY <1>1 DEF Recovered, Receipt, NoReceipt, ReceiptType, Results
<1>3. Recovered(entries) \in EntriesType
  BY <1>2 DEF Recovered, EntriesType
<1>4. ASSUME NEW time \in Nat PROVE Pruned(entries, time) \in EntriesType
  <2>1. \A k \in Keys : Pruned(entries, time)[k] \in ReceiptType
    BY <1>1 DEF Pruned, NoReceipt, ReceiptType
  <2> QED BY <2>1 DEF Pruned, EntriesType
<1> QED BY <1>1, <1>3, <1>4 DEF EntriesType

\* The outcomes of a write, one by one.
LEMMA WriteOutcomes ==
  ASSUME NEW file, NEW entries, NEW w \in Writes(file, entries)
  PROVE  /\ w.ok \in BOOLEAN
         /\ w.disk \in {file, entries}
         /\ w.ok => w.disk = entries
<1>1. \/ w = [ok |-> TRUE, disk |-> entries]
      \/ w = [ok |-> FALSE, disk |-> file]
      \/ w = [ok |-> FALSE, disk |-> entries]
  <2>1. CASE faults < MaxFaults BY <2>1 DEF Writes
  <2>2. CASE ~(faults < MaxFaults) BY <2>2 DEF Writes
  <2> QED BY <2>1, <2>2
<1>2. CASE w = [ok |-> TRUE, disk |-> entries] BY <1>2
<1>3. CASE w = [ok |-> FALSE, disk |-> file] BY <1>3
<1>4. CASE w = [ok |-> FALSE, disk |-> entries] BY <1>4
<1> QED BY <1>1, <1>2, <1>3, <1>4

\* What reopening the journal, or retrying it, can lead to: nothing changed, or
\* the recovered entries are in memory and the old or the new ones on disk, or
\* the first open failed and only the disk may have changed.
Unchanged(r) == r.opened = opened /\ r.journal = journal /\ r.disk = disk
Reloaded(r) == r.opened = TRUE /\ r.journal = Recovered(disk) /\ r.disk \in {disk, Recovered(disk)}
StillClosed(r) == opened = FALSE /\ r.opened = FALSE /\ r.journal = journal /\ r.disk \in {disk, Recovered(disk)}

\* Reading the file again changes nothing, replaces memory and disk by the recovered
\* entries, or fails with the journal closed (CommandReceiptJournal::open, reload_async).
LEMMA ReopenOutcomes ==
  ASSUME opened \in BOOLEAN, NEW r \in Reopens
  PROVE  /\ r.ok \in BOOLEAN
         /\ Unchanged(r) \/ Reloaded(r) \/ StillClosed(r)
         /\ r.ok => Reloaded(r) /\ r.disk = Recovered(disk)
<1> DEFINE found == Recovered(disk)
           unread == [ok |-> FALSE, opened |-> opened, journal |-> journal, disk |-> disk]
           writes == IF found = disk THEN {[ok |-> TRUE, disk |-> disk]} ELSE Writes(disk, found)
           After(w) == [ok |-> w.ok, opened |-> opened \/ w.ok,
                        journal |-> IF opened \/ w.ok THEN found ELSE journal, disk |-> w.disk]
<1>1. r = unread \/ \E w \in writes : r = After(w)
  <2>1. CASE faults < MaxFaults BY <2>1 DEF Reopens
  <2>2. CASE ~(faults < MaxFaults) BY <2>2 DEF Reopens
  <2> QED BY <2>1, <2>2
<1>2. CASE r = unread
  BY <1>2 DEF Unchanged
<1>3. ASSUME NEW w \in writes, r = After(w)
      PROVE  /\ r.ok \in BOOLEAN
             /\ Unchanged(r) \/ Reloaded(r) \/ StillClosed(r)
             /\ r.ok => Reloaded(r) /\ r.disk = Recovered(disk)
  <2>1. \/ w.ok = TRUE /\ w.disk = found
        \/ w.ok = FALSE /\ w.disk \in {disk, found}
    <3>1. CASE found = disk BY <3>1
    <3>2. CASE found # disk
      <4> HIDE DEF found
      <4>1. w \in Writes(disk, found) BY <3>2
      <4> QED BY <4>1, WriteOutcomes
    <3> QED BY <3>1, <3>2
  <2> HIDE DEF found
  <2>2. r.ok = w.ok /\ r.opened = (opened \/ w.ok) /\ r.disk = w.disk
        /\ r.journal = IF opened \/ w.ok THEN found ELSE journal
    BY <1>3
  <2> USE DEF found
  <2>3. CASE w.ok = TRUE
    BY <2>1, <2>2, <2>3 DEF Reloaded
  <2>4. CASE w.ok = FALSE /\ opened
    BY <2>1, <2>2, <2>4 DEF Reloaded
  <2>5. CASE w.ok = FALSE /\ ~opened
    BY <2>1, <2>2, <2>5 DEF StillClosed
  <2> QED BY <2>1, <2>3, <2>4, <2>5
<1> QED BY <1>1, <1>2, <1>3

\* retry_receipt_journal succeeds only by reloading, or at once if the journal is not
\* failing.
LEMMA RetryOutcomes ==
  ASSUME opened \in BOOLEAN, NEW r \in Retries
  PROVE  /\ r.ok \in BOOLEAN
         /\ Unchanged(r) \/ Reloaded(r) \/ StillClosed(r)
         /\ r.ok => Reloaded(r) \/ (Unchanged(r) /\ ~failing)
<1>1. CASE ~failing
  <2>1. r = [ok |-> TRUE, opened |-> opened, journal |-> journal, disk |-> disk]
    BY <1>1 DEF Retries
  <2> QED BY <1>1, <2>1 DEF Unchanged
<1>2. CASE failing /\ (~NoneInflight \/ backoff)
  <2>1. r = [ok |-> FALSE, opened |-> opened, journal |-> journal, disk |-> disk]
    BY <1>2 DEF Retries
  <2> QED BY <2>1 DEF Unchanged
<1>3. CASE failing /\ ~(~NoneInflight \/ backoff)
  <2>1. r \in Reopens BY <1>3 DEF Retries
  <2> QED BY <2>1, ReopenOutcomes
<1> QED BY <1>1, <1>2, <1>3

\* Whatever a write or a retry leaves behind is well typed.
LEMMA StoreTyped ==
  ASSUME TypeOK
  PROVE  /\ \A r \in Retries \cup Reopens : StoreType(r)
         /\ \A file, entries \in EntriesType : \A w \in Writes(file, entries) :
              w.ok \in BOOLEAN /\ w.disk \in EntriesType
<1>1. disk \in EntriesType /\ journal \in EntriesType /\ opened \in BOOLEAN
  BY DEF TypeOK, EntriesType
<1>2. Recovered(disk) \in EntriesType
  BY <1>1, EntriesTyped
<1>3. ASSUME NEW r \in Retries \cup Reopens PROVE StoreType(r)
  BY <1>1, <1>2, <1>3, RetryOutcomes, ReopenOutcomes
     DEF StoreType, Unchanged, Reloaded, StillClosed
<1>4. ASSUME NEW file \in EntriesType, NEW entries \in EntriesType, NEW w \in Writes(file, entries)
      PROVE  w.ok \in BOOLEAN /\ w.disk \in EntriesType
  BY WriteOutcomes
<1> QED BY <1>3, <1>4

\* Inserting a result keeps the cache well typed.
LEMMA InsertTyped ==
  ASSUME TypeOK, NEW c \in Commands, NEW fp \in Fingerprints, NEW result \in Results,
         Insert(c, fp, result)
  PROVE  /\ order' \in Seq(Commands)
         /\ cached' \in [Commands -> EntryType]
<1> DEFINE grown == IF cached[c] = NoEntry THEN Append(order, c) ELSE order
           entries == [cached EXCEPT ![c] = [fp |-> fp, result |-> result]]
<1>1. grown \in Seq(Commands)
  BY DEF TypeOK
<1>2. entries \in [Commands -> EntryType]
  BY DEF TypeOK, EntryType
<1>3. Len(grown) > Capacity => grown # <<>>
  BY <1>1, BoundsAssumption
<1>4. Len(grown) > Capacity => (Tail(grown) \in Seq(Commands) /\ Head(grown) \in Commands)
  BY <1>1, <1>3
<1>5. NoEntry \in EntryType
  BY DEF EntryType
<1>6. /\ order' = IF Len(grown) > Capacity THEN Tail(grown) ELSE grown
      /\ cached' = IF Len(grown) > Capacity THEN [entries EXCEPT ![Head(grown)] = NoEntry] ELSE entries
  BY DEF Insert
<1> HIDE DEF grown, entries
<1> QED BY <1>1, <1>2, <1>4, <1>5, <1>6

\* The answer of an admission keeps the worker and the history well typed.
LEMMA AnswersTyped ==
  ASSUME TypeOK, NEW e \in Envelopes, NEW live \in BOOLEAN
  PROVE  /\ \A verdicts \in SUBSET Verdicts : Reject(e, live, verdicts) =>
              (worker' \in WorkerType /\ told' \in [Envelopes -> SUBSET Verdicts])
         /\ \A result \in Results \cup {Nil} : Accept(e, live, result) =>
              (worker' \in WorkerType /\ told' \in [Envelopes -> SUBSET Verdicts])
         /\ Admitting(e, live) => orphans' \subseteq Envelopes
         /\ KeyOf(e) \in Keys /\ e[1] \in Scopes /\ e[2] \in Commands /\ e[3] \in Fingerprints
<1>1. KeyOf(e) \in Keys /\ e[1] \in Scopes /\ e[2] \in Commands /\ e[3] \in Fingerprints
  BY DEF KeyOf, Keys, Envelopes
<1>2. ASSUME NEW verdicts \in SUBSET Verdicts, Reject(e, live, verdicts)
      PROVE  worker' \in WorkerType /\ told' \in [Envelopes -> SUBSET Verdicts]
  BY <1>2 DEF TypeOK, Reject, NoWork, WorkerType
<1>3. ASSUME NEW result \in Results \cup {Nil}, Accept(e, live, result)
      PROVE  worker' \in WorkerType /\ told' \in [Envelopes -> SUBSET Verdicts]
  <2>1. {"ack"} \subseteq Verdicts BY DEF Verdicts
  <2> QED BY <1>3, <2>1 DEF TypeOK, Accept, WorkerType
<1>4. Admitting(e, live) => orphans' \subseteq Envelopes
  BY DEF TypeOK, Admitting
<1> QED BY <1>1, <1>2, <1>3, <1>4

\* The types of the variables that StoreBecomes sets.
StoreTypeOK ==
  /\ disk \in EntriesType /\ journal \in EntriesType
  /\ opened \in BOOLEAN /\ failing \in BOOLEAN /\ backoff \in BOOLEAN /\ faults \in Nat

\* Writing entries over a file keeps memory and disk well-typed.
LEMMA StoreBecomesTyped ==
  ASSUME TypeOK, NEW r, StoreType(r), NEW entries \in EntriesType, NEW file \in EntriesType,
         NEW ok \in BOOLEAN, StoreBecomes(r, entries, file, ok)
  PROVE  StoreTypeOK'
BY DEF TypeOK, StoreType, StoreBecomes, StoreTypeOK

CacheTypeOK ==
  /\ order \in Seq(Commands)
  /\ cached \in [Commands -> EntryType]
  /\ inflight \in [Commands -> Fingerprints \cup {Nil}]

\* An emptied cache and an ended session are well typed.
LEMMA ResetTyped ==
  ASSUME TypeOK
  PROVE  /\ (order' = <<>> /\ cached' = [c \in Commands |-> NoEntry]
               /\ inflight' = [c \in Commands |-> Nil]) => CacheTypeOK'
         /\ Disconnected =>
              (session' = "none" /\ worker' \in WorkerType /\ orphans' \subseteq Envelopes)
         /\ NoWork \in WorkerType
<1>1. NoWork \in WorkerType
  BY DEF NoWork, WorkerType
<1>2. NoEntry \in EntryType
  BY DEF EntryType
<1>3. <<>> \in Seq(Commands)
  OBVIOUS
<1>4. ASSUME Disconnected PROVE orphans' \subseteq Envelopes
  <2>1. CASE worker.state = "admitting"
    <3>1. worker.env \in Envelopes
      BY <2>1 DEF TypeOK, WorkerType, NoWork
    <3>2. orphans' = orphans \cup {worker.env}
      BY <1>4, <2>1 DEF Disconnected
    <3> QED BY <3>1, <3>2 DEF TypeOK
  <2>2. CASE worker.state # "admitting"
    BY <1>4, <2>2 DEF Disconnected, TypeOK
  <2> QED BY <2>1, <2>2
<1> QED BY <1>1, <1>2, <1>3, <1>4 DEF CacheTypeOK, Disconnected

\* The variables keep their types.
THEOREM TypeCorrect == Spec => []TypeOK
<1>1. Init => TypeOK
  <2> SUFFICES ASSUME Init PROVE TypeOK
    OBVIOUS
  <2>1. NoReceipts \in EntriesType
    BY DEF NoReceipts, NoReceipt, EntriesType, ReceiptType
  <2>2. order \in Seq(Commands) /\ tasks \subseteq TaskType
    BY DEF Init
  <2> QED BY <2>1, <2>2 DEF Init, TypeOK, EntriesType, EntryType, WorkerType
<1>2. TypeOK /\ [Next]_vars => TypeOK'
  <2> SUFFICES ASSUME TypeOK, [Next]_vars PROVE TypeOK'
    OBVIOUS
  <2>0. /\ disk \in EntriesType /\ journal \in EntriesType /\ opened \in BOOLEAN
        /\ now \in Nat
    BY DEF TypeOK, EntriesType
  <2>a. ASSUME NEW e \in Envelopes, NEW live \in BOOLEAN, Admit(e, live) PROVE TypeOK'
    <3>0. KeyOf(e) \in Keys /\ e[1] \in Scopes /\ e[2] \in Commands /\ e[3] \in Fingerprints
      BY AnswersTyped
    <3>1. CASE AdmitStale(e, live)
      BY <3>1, AnswersTyped DEF AdmitStale, TypeOK, store, cache
    <3>2. CASE AdmitCached(e, live)
      <4>1. cached[e[2]].result \in Results \cup {Nil}
        BY <3>0 DEF TypeOK, EntryType, NoEntry
      <4> QED BY <3>2, <4>1, AnswersTyped DEF AdmitCached, TypeOK, store, cache
    <3>3. CASE AdmitInflight(e, live)
      BY <3>3, AnswersTyped DEF AdmitInflight, TypeOK, store, cache
    <3>4. CASE AdmitUnavailable(e, live)
      <4>1. PICK r \in Retries : StoreBecomes(r, r.journal, r.disk, FALSE)
        BY <3>4 DEF AdmitUnavailable
      <4>2. StoreTypeOK'
        BY <4>1, StoreTyped, StoreBecomesTyped DEF StoreType
      <4> QED BY <3>4, <4>2, AnswersTyped
              DEF AdmitUnavailable, Consulting, TypeOK, StoreTypeOK, EntriesType, cache
    <3>5. CASE AdmitKnown(e, live)
      <4> DEFINE k == KeyOf(e)
                 Settled(r) == [r.journal EXCEPT ![k] = Receipt("completed", e[3], "indeterminate")]
      <4>0. \A r \in Retries : /\ StoreType(r) /\ r.journal[k] \in ReceiptType
                               /\ Settled(r) \in EntriesType
        <5> SUFFICES ASSUME NEW r \in Retries
                     PROVE  /\ StoreType(r) /\ r.journal[k] \in ReceiptType
                            /\ Settled(r) \in EntriesType
          OBVIOUS
        <5>1. StoreType(r)
          BY StoreTyped
        <5>2. Receipt("completed", e[3], "indeterminate") \in ReceiptType
          BY <3>0 DEF Receipt, ReceiptType, Results
        <5> QED BY <3>0, <5>1, <5>2, EntriesTyped DEF StoreType
      <4>1. PICK r \in Retries :
              \/ /\ StoreBecomes(r, r.journal, r.disk, TRUE)
                 /\ Reject(e, live, {})
                 /\ UNCHANGED <<order, cached>>
              \/ /\ r.journal[k].state = "completed"
                 /\ StoreBecomes(r, r.journal, r.disk, TRUE)
                 /\ Insert(e[2], e[3], r.journal[k].result)
                 /\ Accept(e, live, r.journal[k].result)
              \/ \E w \in Writes(r.disk, Settled(r)) :
                   \/ /\ StoreBecomes(r, Settled(r), w.disk, TRUE)
                      /\ Insert(e[2], e[3], "indeterminate")
                      /\ Accept(e, live, "indeterminate")
                   \/ /\ StoreBecomes(r, r.journal, w.disk, FALSE)
                      /\ Reject(e, live, {})
                      /\ UNCHANGED <<order, cached>>
        BY <3>5 DEF AdmitKnown
      <4>2. /\ StoreTypeOK'
            /\ order' \in Seq(Commands) /\ cached' \in [Commands -> EntryType]
            /\ worker' \in WorkerType /\ told' \in [Envelopes -> SUBSET Verdicts]
        <5>1. CASE /\ StoreBecomes(r, r.journal, r.disk, TRUE)
                   /\ Reject(e, live, {})
                   /\ UNCHANGED <<order, cached>>
          <6>1. StoreTypeOK'
            BY <4>0, <5>1, StoreBecomesTyped DEF StoreType
          <6> QED BY <5>1, <6>1, AnswersTyped DEF TypeOK
        <5>2. CASE /\ r.journal[k].state = "completed"
                   /\ StoreBecomes(r, r.journal, r.disk, TRUE)
                   /\ Insert(e[2], e[3], r.journal[k].result)
                   /\ Accept(e, live, r.journal[k].result)
          <6>1. StoreTypeOK'
            BY <4>0, <5>2, StoreBecomesTyped DEF StoreType
          <6>2. r.journal[k].result \in Results
            <7>1. r.journal[k] \in ReceiptType
              BY <4>0
            <7> QED BY <5>2, <7>1 DEF ReceiptType, NoReceipt
          <6> QED BY <3>0, <5>2, <6>1, <6>2, AnswersTyped, InsertTyped
        <5>3. ASSUME NEW w \in Writes(r.disk, Settled(r)),
                     \/ /\ StoreBecomes(r, Settled(r), w.disk, TRUE)
                        /\ Insert(e[2], e[3], "indeterminate")
                        /\ Accept(e, live, "indeterminate")
                     \/ /\ StoreBecomes(r, r.journal, w.disk, FALSE)
                        /\ Reject(e, live, {})
                        /\ UNCHANGED <<order, cached>>
              PROVE  /\ StoreTypeOK'
                     /\ order' \in Seq(Commands) /\ cached' \in [Commands -> EntryType]
                     /\ worker' \in WorkerType /\ told' \in [Envelopes -> SUBSET Verdicts]
          <6> HIDE DEF Settled
          <6>1. w.disk \in EntriesType
            BY <4>0, StoreTyped DEF StoreType
          <6>2. StoreTypeOK'
            BY <4>0, <5>3, <6>1, StoreBecomesTyped DEF StoreType
          <6>3. "indeterminate" \in Results
            BY DEF Results
          <6>4. CASE Insert(e[2], e[3], "indeterminate") /\ Accept(e, live, "indeterminate")
            BY <3>0, <6>2, <6>3, <6>4, AnswersTyped, InsertTyped
          <6>5. CASE Reject(e, live, {}) /\ UNCHANGED <<order, cached>>
            BY <6>2, <6>5, AnswersTyped DEF TypeOK
          <6> QED BY <5>3, <6>4, <6>5
        <5> QED BY <4>1, <5>1, <5>2, <5>3
      <4> QED BY <3>5, <4>2, AnswersTyped
              DEF AdmitKnown, Consulting, TypeOK, StoreTypeOK, EntriesType
    <3>6. CASE AdmitExpired(e, live)
      <4>1. PICK r \in Retries : StoreBecomes(r, r.journal, r.disk, TRUE)
        BY <3>6 DEF AdmitExpired
      <4>2. StoreTypeOK'
        BY <4>1, StoreTyped, StoreBecomesTyped DEF StoreType
      <4>3. {"expired"} \in SUBSET Verdicts
        BY DEF Verdicts
      <4> QED BY <3>6, <4>2, <4>3, AnswersTyped
              DEF AdmitExpired, Consulting, TypeOK, StoreTypeOK, EntriesType, cache
    <3>7. CASE AdmitOverload(e, live)
      <4>1. PICK r \in Retries :
              \/ StoreBecomes(r, r.journal, r.disk, TRUE)
              \/ StoreBecomes(r, Pruned(r.journal, now), r.disk, TRUE)
        BY <3>7 DEF AdmitOverload
      <4>2. StoreType(r)
        BY StoreTyped
      <4>3. Pruned(r.journal, now) \in EntriesType
        BY <2>0, <4>2, EntriesTyped DEF StoreType
      <4>4. StoreTypeOK'
        BY <4>1, <4>2, <4>3, StoreBecomesTyped DEF StoreType
      <4> QED BY <3>7, <4>4, AnswersTyped
              DEF AdmitOverload, Consulting, TypeOK, StoreTypeOK, EntriesType, cache
    <3>8. CASE AdmitNew(e, live)
      <4> DEFINE pruned(r) == Pruned(r.journal, now)
                 accepted(r) == [pruned(r) EXCEPT ![KeyOf(e)] = Receipt("accepted", e[3], Nil)]
                 task == [env |-> e, generation |-> generation, state |-> "spawned"]
      <4>0. task \in TaskType
        BY DEF TaskType, TypeOK
      <4>1. PICK r \in Retries : \E w \in Writes(r.disk, accepted(r)) :
              \/ /\ StoreBecomes(r, accepted(r), w.disk, TRUE)
                 /\ inflight' = [inflight EXCEPT ![e[2]] = e[3]]
                 /\ tasks' = tasks \cup {task}
                 /\ Accept(e, live, Nil)
              \/ /\ StoreBecomes(r, pruned(r), w.disk, FALSE)
                 /\ Reject(e, live, {})
                 /\ UNCHANGED <<inflight, tasks>>
        BY <3>8 DEF AdmitNew
      <4>2. StoreType(r) /\ pruned(r) \in EntriesType
        BY <2>0, StoreTyped, EntriesTyped DEF StoreType
      <4>3. Receipt("accepted", e[3], Nil) \in ReceiptType
        BY <3>0 DEF Receipt, ReceiptType
      <4>4. accepted(r) \in EntriesType
        BY <3>0, <4>2, <4>3, EntriesTyped
      <4> HIDE DEF pruned, accepted, task
      <4>5. PICK w \in Writes(r.disk, accepted(r)) :
              \/ /\ StoreBecomes(r, accepted(r), w.disk, TRUE)
                 /\ inflight' = [inflight EXCEPT ![e[2]] = e[3]]
                 /\ tasks' = tasks \cup {task}
                 /\ Accept(e, live, Nil)
              \/ /\ StoreBecomes(r, pruned(r), w.disk, FALSE)
                 /\ Reject(e, live, {})
                 /\ UNCHANGED <<inflight, tasks>>
        BY <4>1
      <4>6. w.disk \in EntriesType
        BY <4>2, <4>4, StoreTyped DEF StoreType
      <4>7. StoreTypeOK'
        BY <4>2, <4>4, <4>5, <4>6, StoreBecomesTyped
      <4>8. inflight' \in [Commands -> Fingerprints \cup {Nil}] /\ tasks' \subseteq TaskType
        BY <3>0, <4>0, <4>5 DEF TypeOK
      <4>9. worker' \in WorkerType /\ told' \in [Envelopes -> SUBSET Verdicts]
        BY <4>5, AnswersTyped
      <4> QED BY <3>8, <4>7, <4>8, <4>9, AnswersTyped
              DEF AdmitNew, Consulting, TypeOK, StoreTypeOK, EntriesType
    <3> QED BY <2>a, <3>1, <3>2, <3>3, <3>4, <3>5, <3>6, <3>7, <3>8 DEF Admit
  <2>b. ASSUME NEW t \in tasks, TaskCheck(t) \/ TaskDispatch(t) \/ TaskFinish(t) PROVE TypeOK'
    <3>0. t \in TaskType
      BY DEF TypeOK
    <3>1. ASSUME NEW state \in {"spawned", "admitted", "running", "refused"}, Step(t, state)
          PROVE  tasks' \subseteq TaskType
      BY <3>0, <3>1 DEF Step, TaskType, TypeOK
    <3>2. CASE TaskCheck(t)
      BY <3>1, <3>2 DEF TaskCheck, TypeOK, store, cache, link, history
    <3>3. CASE TaskDispatch(t)
      <4>1. tasks' \subseteq TaskType
        BY <3>1, <3>3 DEF TaskDispatch
      <4>2. ran' \in [Envelopes -> Nat]
        BY <3>0, <3>3 DEF TaskDispatch, TaskType, TypeOK
      <4> QED BY <3>3, <4>1, <4>2 DEF TaskDispatch, TypeOK, store, cache, link
    <3>4. CASE TaskFinish(t)
      <4> DEFINE k == KeyOf(t.env)
                 outcome == IF t.state = "running" THEN "result" ELSE "undispatched"
                 done == [journal EXCEPT ![k] = [@ EXCEPT !.state = "completed", !.result = outcome]]
      <4>1. k \in Keys /\ t.env[3] \in Fingerprints /\ k[2] \in Commands
        BY <3>0 DEF TaskType, Envelopes, KeyOf, Keys
      <4>2. journal[k].state # "none" => done \in EntriesType
        <5> SUFFICES ASSUME journal[k].state # "none" PROVE done \in EntriesType
          OBVIOUS
        <5>1. journal[k] \in ReceiptType
          BY <2>0, <4>1 DEF EntriesType
        <5>2. [journal[k] EXCEPT !.state = "completed", !.result = outcome] \in ReceiptType
          <6>1. outcome \in Results
            BY DEF Results
          <6>2. CASE journal[k] \in [state : {"accepted"}, fp : Fingerprints, result : {Nil}]
            BY <6>1, <6>2 DEF ReceiptType
          <6>3. CASE journal[k] \in [state : {"completed"}, fp : Fingerprints, result : Results]
            BY <6>1, <6>3 DEF ReceiptType
          <6> QED BY <5>1, <6>2, <6>3 DEF ReceiptType, NoReceipt
        <5> QED BY <2>0, <4>1, <5>2 DEF EntriesType
      <4> HIDE DEF done
      <4>3. PICK result \in {outcome, "indeterminate"} :
              /\ \/ /\ UNCHANGED <<opened, journal, disk, faults>>
                    /\ failing' = TRUE /\ backoff' = TRUE
                 \/ \E w \in Writes(disk, done) :
                      /\ journal[k].state # "none"
                      /\ opened' = opened
                      /\ journal' = IF w.ok THEN done ELSE journal
                      /\ disk' = w.disk
                      /\ failing' = (failing \/ ~w.ok)
                      /\ backoff' = (backoff \/ ~w.ok)
                      /\ faults' = IF w.ok THEN faults ELSE faults + 1
              /\ IF t.generation = generation
                 THEN /\ inflight' = [inflight EXCEPT ![k[2]] = Nil]
                      /\ Insert(k[2], t.env[3], result)
                 ELSE UNCHANGED <<inflight, order, cached>>
              /\ Wake(k, result)
        BY <3>4 DEF TaskFinish, Retire, done
      <4>4. result \in Results
        BY <4>3 DEF Results
      <4>5. StoreTypeOK'
        <5>1. CASE UNCHANGED <<opened, journal, disk, faults>> /\ failing' = TRUE /\ backoff' = TRUE
          BY <5>1 DEF TypeOK, StoreTypeOK, EntriesType
        <5>2. ASSUME NEW w \in Writes(disk, done),
                     /\ journal[k].state # "none"
                     /\ opened' = opened
                     /\ journal' = IF w.ok THEN done ELSE journal
                     /\ disk' = w.disk
                     /\ failing' = (failing \/ ~w.ok)
                     /\ backoff' = (backoff \/ ~w.ok)
                     /\ faults' = IF w.ok THEN faults ELSE faults + 1
              PROVE  StoreTypeOK'
          <6>1. w.ok \in BOOLEAN /\ w.disk \in EntriesType
            BY <2>0, <4>2, <5>2, StoreTyped
          <6> QED BY <2>0, <4>2, <5>2, <6>1 DEF TypeOK, StoreTypeOK
        <5> QED BY <4>3, <5>1, <5>2
      <4>6. CacheTypeOK' /\ worker' \in WorkerType
        <5>0. worker' \in WorkerType
          BY <4>3, <4>4 DEF Wake, WorkerType, NoWork, TypeOK
        <5>1. CASE t.generation = generation
          <6>1. /\ Insert(k[2], t.env[3], result)
                /\ inflight' = [inflight EXCEPT ![k[2]] = Nil]
            BY <4>3, <5>1
          <6>2. inflight' \in [Commands -> Fingerprints \cup {Nil}]
            BY <4>1, <6>1 DEF TypeOK
          <6> QED BY <4>1, <4>4, <5>0, <6>1, <6>2, InsertTyped DEF CacheTypeOK
        <5>2. CASE t.generation # generation
          BY <4>3, <5>0, <5>2 DEF TypeOK, CacheTypeOK
        <5> QED BY <5>1, <5>2
      <4> QED BY <3>4, <4>5, <4>6
              DEF TaskFinish, TypeOK, StoreTypeOK, CacheTypeOK, EntriesType, history
    <3> QED BY <2>b, <3>2, <3>3, <3>4
  <2>c. CASE JournalGate
    <3>1. PICK r \in Retries : StoreBecomes(r, r.journal, r.disk, r.ok)
      BY <2>c DEF JournalGate
    <3>2. StoreTypeOK'
      BY <3>1, StoreTyped, StoreBecomesTyped DEF StoreType
    <3> QED BY <2>c, <3>2 DEF JournalGate, TypeOK, StoreTypeOK, EntriesType, cache, link, history
  <2>d. CASE Connect
    BY <2>d DEF Connect, TypeOK, store, cache, history
  <2>e. CASE ActorReady
    <3>1. generation' \in Nat /\ active' \in Scopes \cup {Nil} /\ CacheTypeOK'
      BY <2>e, ResetTyped DEF ActorReady, ClearCache, TypeOK, CacheTypeOK, cache
    <3> QED BY <2>e, <3>1 DEF ActorReady, TypeOK, CacheTypeOK, store, history
  <2>f. ASSUME NEW e \in Envelopes, Receive(e) PROVE TypeOK'
    BY <2>f DEF Receive, TypeOK, WorkerType, store, cache, history
  <2>g. CASE Reply
    BY <2>g DEF Reply, TypeOK, NoWork, WorkerType, Results, Verdicts, store, cache
  <2>h. CASE SessionEnds
    BY <2>h, ResetTyped DEF SessionEnds, TypeOK, store, cache, history
  <2>i. ASSUME NEW next \in Scopes \cup {Nil}, ApplyConfig(next) PROVE TypeOK'
    <3>1. generation' \in Nat /\ CacheTypeOK'
      BY <2>i, ResetTyped DEF ApplyConfig, ClearCache, TypeOK
    <3> QED BY <2>i, <3>1, ResetTyped DEF ApplyConfig, TypeOK, CacheTypeOK, store, history
  <2>j. CASE ReloadConfig
    BY <2>j DEF ReloadConfig, TypeOK, store, cache, history
  <2>k. CASE Start
    <3>1. PICK r \in Reopens : StoreBecomes(r, r.journal, r.disk, r.ok)
      BY <2>k DEF Start
    <3>2. StoreTypeOK'
      BY <3>1, StoreTyped, StoreBecomesTyped DEF StoreType
    <3> QED BY <2>k, <3>2 DEF Start, TypeOK, StoreTypeOK, EntriesType, cache, link, history
  <2>l. CASE Crash
    <3>1. NoReceipts \in EntriesType
      BY DEF NoReceipts, NoReceipt, EntriesType, ReceiptType
    <3>2. CacheTypeOK' /\ worker' \in WorkerType
      BY <2>l, ResetTyped DEF Crash
    <3>3. tasks' \subseteq TaskType /\ orphans' \subseteq Envelopes /\ generation' \in Nat
      BY <2>l DEF Crash
    <3>4. crashes' \in Nat
      BY <2>l DEF Crash, TypeOK
    <3>5. StoreTypeOK'
      BY <2>0, <2>l, <3>1 DEF Crash, TypeOK, StoreTypeOK
    <3> QED BY <2>l, <3>2, <3>3, <3>4, <3>5 DEF Crash, StoreTypeOK, TypeOK, CacheTypeOK, EntriesType, history
  <2>m. CASE Tick
    BY <2>m DEF Tick, TypeOK, store, cache, link, history
  <2>n. CASE BackoffElapses
    BY <2>n DEF BackoffElapses, TypeOK, cache, link, history
  <2>o. CASE UNCHANGED vars
    BY <2>o DEF vars, TypeOK, store, cache, link, history
  <2> QED BY <2>a, <2>b, <2>c, <2>d, <2>e, <2>f, <2>g, <2>h, <2>i, <2>j, <2>k, <2>l, <2>m, <2>n,
             <2>o DEF Next
<1> QED BY <1>1, <1>2, PTL DEF Spec

-----------------------------------------------------------------------------
(* At most one dispatch.  First what the store operators preserve: while a *)
(* command has not expired, its receipt survives whatever happens to the   *)
(* file and to the entries in memory.                                      *)

Within(entries, file) ==
  \A k \in Keys : entries[k].state # "none" => file[k].state # "none" /\ file[k].fp = entries[k].fp

Durable(e) == Holds(disk, e) /\ (opened => Holds(journal, e))

\* Recovery keeps every receipt and its fingerprint: it only settles accepted ones.
LEMMA RecoveredKeeps ==
  ASSUME NEW entries \in EntriesType, NEW k \in Keys
  PROVE  /\ Recovered(entries)[k].state = "none" <=> entries[k].state = "none"
         /\ Recovered(entries)[k].fp = entries[k].fp
BY DEF Recovered, Receipt

\* prune_expired_completed drops expired receipts and leaves every other one as it is.
LEMMA PrunedKeeps ==
  ASSUME NEW entries \in EntriesType, NEW k \in Keys
  PROVE  /\ Pruned(entries, now)[k].state # "none" => Pruned(entries, now)[k] = entries[k]
         /\ ~(Deadline[k[2]] <= now) => Pruned(entries, now)[k] = entries[k]
BY DEF Pruned, NoReceipt

\* A retry or a (re)open keeps every durable receipt and the agreement of memory
\* and disk, and never closes an open journal.
LEMMA RetryKeeps ==
  ASSUME TypeOK, JournalIsOnDisk, JournalIsOpen, NEW r \in Retries \cup Reopens
  PROVE  /\ StoreType(r)
         /\ Within(r.journal, r.disk)
         /\ opened => r.opened
         /\ ~r.opened => r.journal = NoReceipts
         /\ \A e \in Envelopes : Durable(e) =>
              Holds(r.disk, e) /\ (r.opened => Holds(r.journal, e))
         /\ r \in Retries /\ r.ok /\ up => r.opened
<1>0. disk \in EntriesType /\ journal \in EntriesType /\ opened \in BOOLEAN
  BY DEF TypeOK, EntriesType
<1>1. StoreType(r)
  BY StoreTyped
<1>2. Unchanged(r) \/ Reloaded(r) \/ StillClosed(r)
  BY <1>0, RetryOutcomes, ReopenOutcomes
<1>3. /\ Within(journal, disk)
      /\ ~opened => journal = NoReceipts
      /\ Within(Recovered(disk), disk) /\ Within(Recovered(disk), Recovered(disk))
  BY <1>0, RecoveredKeeps DEF JournalIsOnDisk, JournalIsOpen, Within
<1>4. \A e \in Envelopes : KeyOf(e) \in Keys
  BY AnswersTyped
<1>5. ASSUME NEW e \in Envelopes, Holds(disk, e) PROVE Holds(Recovered(disk), e)
  BY <1>0, <1>4, <1>5, RecoveredKeeps DEF Holds
<1>6. Within(NoReceipts, disk) /\ Within(NoReceipts, Recovered(disk))
  BY DEF Within, NoReceipts, NoReceipt
<1>7. CASE Unchanged(r)
  <2>1. ASSUME r \in Retries, r.ok, up PROVE opened
    <3>1. Reloaded(r) \/ ~failing
      BY <1>0, <2>1, RetryOutcomes
    <3>2. CASE ~failing
      BY <2>1, <3>2 DEF JournalIsOpen
    <3>3. CASE Reloaded(r)
      BY <1>7, <3>3 DEF Reloaded, Unchanged
    <3> QED BY <3>1, <3>2, <3>3
  <2> QED BY <1>1, <1>3, <1>7, <2>1 DEF Unchanged, Durable
<1>8. CASE Reloaded(r)
  BY <1>1, <1>3, <1>5, <1>8 DEF Reloaded, Durable
<1>9. CASE StillClosed(r)
  <2>1. ~r.ok \/ Reloaded(r) \/ r \notin Retries \/ (Unchanged(r) /\ ~failing)
    BY <1>0, RetryOutcomes
  <2> QED BY <1>1, <1>3, <1>5, <1>6, <1>9, <2>1
          DEF StillClosed, Durable, Reloaded, Unchanged, JournalIsOpen
<1> QED BY <1>2, <1>7, <1>8, <1>9

\* What a step may do to the store.
StoreKeeps ==
  /\ \A e \in Envelopes : now < Deadline[e[2]] /\ Durable(e) => Durable(e)'
  /\ JournalIsOnDisk'
  /\ opened => opened'
  /\ ~opened' => journal' = NoReceipts

\* After a retry, the entries may be pruned, and the receipt of one command
\* replaced in memory, on disk or on both, as long as it keeps its fingerprint.
LEMMA StoreBecomesKeeps ==
  ASSUME TypeOK, JournalIsOnDisk, JournalIsOpen, NEW r \in Retries \cup Reopens,
         NEW ok \in BOOLEAN, NEW entries \in {r.journal, Pruned(r.journal, now)},
         StoreBecomes(r, entries, r.disk, ok)
  PROVE  StoreKeeps
<1>0. now \in Nat /\ \A e \in Envelopes : KeyOf(e) \in Keys /\ KeyOf(e)[2] = e[2] /\ Deadline[e[2]] \in Nat
  BY DeadlineAssumption, AnswersTyped DEF TypeOK, KeyOf
<1>1. StoreType(r) /\ r.journal \in EntriesType
  BY RetryKeeps DEF StoreType
<1>2. opened' = r.opened /\ journal' = entries /\ disk' = r.disk
  BY DEF StoreBecomes
<1>3. \A k \in Keys : entries[k].state # "none" => entries[k] = r.journal[k]
  BY <1>1, PrunedKeeps
<1>4. JournalIsOnDisk'
  BY <1>2, <1>3, RetryKeeps DEF JournalIsOnDisk, Within
<1>5. ASSUME NEW e \in Envelopes, now < Deadline[e[2]], Durable(e) PROVE Durable(e)'
  <2>1. entries[KeyOf(e)] = r.journal[KeyOf(e)]
    BY <1>0, <1>1, <1>5, PrunedKeeps
  <2> QED BY <1>2, <1>5, <2>1, RetryKeeps DEF Durable, Holds
<1>6. ~opened' => journal' = NoReceipts
  <2>1. Pruned(NoReceipts, now) = NoReceipts
    BY DEF Pruned, NoReceipts, NoReceipt
  <2> QED BY <1>2, <2>1, RetryKeeps
<1> QED BY <1>2, <1>4, <1>5, <1>6, RetryKeeps DEF StoreKeeps

\* A receipt that is added to the entries, whether or not the write reports success, costs
\* no live receipt, in memory or on disk.
LEMMA WrittenKeeps ==
  ASSUME NEW base \in EntriesType, NEW file, NEW k \in Keys, NEW receipt \in ReceiptType,
         Within(base, file), receipt.state # "none",
         base[k].state = "none" \/ base[k].fp = receipt.fp,
         \A e \in Envelopes : now < Deadline[e[2]] /\ Durable(e) => Holds(base, e) /\ Holds(file, e),
         NEW w \in Writes(file, [base EXCEPT ![k] = receipt]),
         disk' = w.disk, opened' = TRUE,
         journal' = base \/ (w.ok /\ journal' = [base EXCEPT ![k] = receipt])
  PROVE  StoreKeeps
<1> DEFINE written == [base EXCEPT ![k] = receipt]
<1>1. \A e \in Envelopes : KeyOf(e) \in Keys
  BY DEF KeyOf, Keys, Envelopes
<1>2. written[k] = receipt /\ \A j \in Keys \ {k} : written[j] = base[j]
  BY DEF EntriesType
<1>3. Within(base, written) /\ Within(written, written)
  BY <1>2 DEF Within
<1>4. ASSUME NEW e \in Envelopes, now < Deadline[e[2]], Durable(e)
      PROVE  Holds(base, e) /\ Holds(file, e) /\ Holds(written, e)
  <2>1. Holds(base, e) /\ Holds(file, e)
    BY <1>4
  <2>2. CASE KeyOf(e) = k
    BY <1>2, <2>1, <2>2 DEF Holds
  <2>3. CASE KeyOf(e) # k
    BY <1>1, <1>2, <2>1, <2>3 DEF Holds
  <2> QED BY <2>1, <2>2, <2>3
<1>5. w.disk \in {file, written} /\ (w.ok => w.disk = written)
  BY WriteOutcomes
<1> HIDE DEF written
<1>6. JournalIsOnDisk'
  BY <1>3, <1>5 DEF JournalIsOnDisk, Within, written
<1>7. ASSUME NEW e \in Envelopes, now < Deadline[e[2]], Durable(e) PROVE Durable(e)'
  BY <1>4, <1>5, <1>7 DEF Durable, Holds, written
<1> QED BY <1>6, <1>7 DEF StoreKeeps

\* The same for every write of admission and completion: after a retry, with or without
\* pruning.
LEMMA WriteKeeps ==
  ASSUME TypeOK, JournalIsOnDisk, JournalIsOpen, NEW r \in Retries, r.opened,
         NEW entries \in {r.journal, Pruned(r.journal, now)},
         NEW k \in Keys, NEW receipt \in ReceiptType, receipt.state # "none",
         r.journal[k].state = "none" \/ r.journal[k].fp = receipt.fp,
         NEW w \in Writes(r.disk, [entries EXCEPT ![k] = receipt]),
         NEW ok \in BOOLEAN,
         \/ StoreBecomes(r, [entries EXCEPT ![k] = receipt], w.disk, ok) /\ w.ok
         \/ StoreBecomes(r, entries, w.disk, ok)
  PROVE  StoreKeeps
<1>0. now \in Nat /\ \A e \in Envelopes : KeyOf(e) \in Keys /\ KeyOf(e)[2] = e[2] /\ Deadline[e[2]] \in Nat
  BY DeadlineAssumption, AnswersTyped DEF TypeOK, KeyOf
<1>1. StoreType(r) /\ r.journal \in EntriesType /\ entries \in EntriesType
  <2>1. StoreType(r) /\ r.journal \in EntriesType
    BY RetryKeeps DEF StoreType
  <2> QED BY <1>0, <2>1, EntriesTyped
<1>2. \A j \in Keys : entries[j].state # "none" => entries[j] = r.journal[j]
  BY <1>1, PrunedKeeps
<1>3. Within(entries, r.disk)
  BY <1>2, RetryKeeps DEF Within
<1>4. ASSUME NEW e \in Envelopes, now < Deadline[e[2]], Durable(e)
      PROVE  Holds(entries, e) /\ Holds(r.disk, e)
  <2>1. Holds(r.journal, e) /\ Holds(r.disk, e)
    BY <1>4, RetryKeeps
  <2>2. entries[KeyOf(e)] = r.journal[KeyOf(e)]
    BY <1>0, <1>1, <1>4, PrunedKeeps
  <2> QED BY <2>1, <2>2 DEF Holds
<1>5. entries[k].state = "none" \/ entries[k].fp = receipt.fp
  BY <1>2
<1>6. disk' = w.disk /\ opened' = TRUE
      /\ (journal' = entries \/ (w.ok /\ journal' = [entries EXCEPT ![k] = receipt]))
  BY <1>1 DEF StoreBecomes, StoreType
<1> QED BY <1>1, <1>3, <1>4, <1>5, <1>6, WrittenKeeps

\* Claims survive a step that keeps the store and adds no claim that is not durable.
LEMMA ClaimsKept ==
  ASSUME TypeOK, ClaimsAreDurable, StoreKeeps, now' \in Nat, now' >= now,
         \A e \in Envelopes : Claimed(e)' => Claimed(e) \/ (now < Deadline[e[2]] => Durable(e)')
  PROVE  ClaimsAreDurable'
<1> SUFFICES ASSUME NEW e \in Envelopes, Claimed(e)', now' < Deadline[e[2]]
             PROVE  Durable(e)'
  BY DEF ClaimsAreDurable, Durable
<1>1. now < Deadline[e[2]]
  BY DeadlineAssumption, AnswersTyped DEF TypeOK
<1>2. CASE Claimed(e)
  BY <1>1, <1>2 DEF ClaimsAreDurable, StoreKeeps, Durable
<1> QED BY <1>1, <1>2

\* Envelopes are equal when their parts are.
LEMMA SameEnvelope ==
  ASSUME NEW e \in Envelopes, NEW f \in Envelopes, e[1] = f[1], e[2] = f[2], e[3] = f[3]
  PROVE  e = f
BY DEF Envelopes

\* An admission that leaves dispatchers and history of runs alone: what it claims,
\* by an ack or by caching, is what the journal holds.
LEMMA AdmissionKeeps ==
  ASSUME TypeOK, DispatchInv, NEW e \in Envelopes, NEW live \in BOOLEAN,
         active = e[1], up, StoreKeeps, UNCHANGED <<now, up, generation, active, tasks, ran>>,
         up' /\ ~failing' => opened',
         \/ /\ UNCHANGED <<cached, inflight>>
            /\ \E verdicts \in SUBSET {"expired"} : Reject(e, live, verdicts)
         \/ /\ now < Deadline[e[2]] => Durable(e)'
            /\ UNCHANGED inflight
            /\ \A c \in Commands : cached'[c] \in {cached[c], NoEntry} \/ (c = e[2] /\ cached'[c].fp = e[3])
            /\ \E result \in Results \cup {Nil} : Accept(e, live, result)
  PROVE  DispatchInv'
<1>0. e[2] \in Commands /\ Nil \notin Fingerprints /\ \A f \in Envelopes : f[2] \in Commands /\ f[3] \in Fingerprints
  BY NilAssumption, AnswersTyped
<1>1. ASSUME NEW f \in Envelopes, Claimed(f)'
      PROVE  Claimed(f) \/ (now < Deadline[f[2]] => Durable(f)')
  <2>1. CASE f = e /\ (now < Deadline[e[2]] => Durable(e)')
    BY <2>1
  <2>2. CASE "ack" \in told'[f] /\ "ack" \notin told[f]
    <3>1. f = e /\ (now < Deadline[e[2]] => Durable(e)')
      BY <2>2 DEF TypeOK, Reject, Accept
    <3> QED BY <2>1, <3>1
  <2>3. CASE active' = f[1] /\ cached'[f[2]].fp = f[3] /\ cached[f[2]].fp # f[3]
    <3>1. f[2] = e[2] /\ f[3] = e[3] /\ (now < Deadline[e[2]] => Durable(e)')
      BY <1>0, <2>3 DEF NoEntry
    <3>2. f[1] = e[1]
      BY <2>3
    <3>3. f = e
      BY <3>1, <3>2, SameEnvelope
    <3> QED BY <2>1, <3>1, <3>3
  <2> QED BY <1>1, <2>2, <2>3 DEF Claimed
<1>2. ClaimsAreDurable'
  BY <1>1, ClaimsKept DEF DispatchInv, TypeOK
<1>3. OneTaskPerCommand' /\ AtMostOneDispatch'
  BY DEF DispatchInv, OneTaskPerCommand, AtMostOneDispatch
<1>4. JournalIsOpen'
  BY DEF DispatchInv, JournalIsOpen, StoreKeeps
<1> QED BY <1>2, <1>3, <1>4 DEF DispatchInv, StoreKeeps

\* Every other step that touches neither dispatchers nor history adds no claim.
LEMMA QuietKeeps ==
  ASSUME TypeOK, DispatchInv, StoreKeeps, now' \in Nat, now' >= now,
         UNCHANGED <<tasks, ran>>,
         \A e \in Envelopes : "ack" \in told'[e] => "ack" \in told[e],
         \/ UNCHANGED <<generation, active, cached, inflight>>
         \/ ClearCache,
         up' /\ ~failing' => opened', ~up' => ~opened'
  PROVE  DispatchInv'
<1>0. Nil \notin Fingerprints /\ \A f \in Envelopes : f[2] \in Commands /\ f[3] \in Fingerprints
  BY NilAssumption, AnswersTyped
<1>1. ASSUME NEW f \in Envelopes, Claimed(f)' PROVE Claimed(f)
  BY <1>0, <1>1 DEF Claimed, ClearCache, NoEntry
<1>2. ClaimsAreDurable'
  BY <1>1, ClaimsKept DEF DispatchInv
<1>3. OneTaskPerCommand'
  <2>1. \A t \in tasks : t.generation \in Nat
    BY DEF TypeOK, TaskType
  <2>2. generation' = generation + 1 => \A t \in tasks : t.generation <= generation' /\ t.generation # generation'
    BY <2>1 DEF DispatchInv, OneTaskPerCommand, TypeOK
  <2> QED BY <2>2 DEF DispatchInv, OneTaskPerCommand, ClearCache
<1>4. AtMostOneDispatch' /\ JournalIsOpen'
  BY DEF DispatchInv, AtMostOneDispatch, JournalIsOpen, StoreKeeps
<1> QED BY <1>2, <1>3, <1>4 DEF DispatchInv, StoreKeeps

\* A step that leaves the store alone keeps it.
LEMMA UnchangedStoreKeeps ==
  ASSUME TypeOK, DispatchInv, UNCHANGED <<disk, opened, journal>>
  PROVE  StoreKeeps
BY DEF StoreKeeps, Durable, Holds, DispatchInv, JournalIsOnDisk, JournalIsOpen

\* Inserting a result changes the cache at that command, and evicts.
LEMMA InsertChanges ==
  ASSUME TypeOK, NEW c \in Commands, NEW fp \in Fingerprints, NEW result \in Results,
         Insert(c, fp, result)
  PROVE  \A d \in Commands : cached'[d] \in {cached[d], NoEntry} \/ (d = c /\ cached'[d].fp = fp)
<1> DEFINE grown == IF cached[c] = NoEntry THEN Append(order, c) ELSE order
           entries == [cached EXCEPT ![c] = [fp |-> fp, result |-> result]]
<1>1. entries \in [Commands -> EntryType] /\ entries[c].fp = fp
      /\ \A d \in Commands : d # c => entries[d] = cached[d]
  BY DEF TypeOK, EntryType
<1>2. cached' = IF Len(grown) > Capacity THEN [entries EXCEPT ![Head(grown)] = NoEntry] ELSE entries
  BY DEF Insert
<1> HIDE DEF grown, entries
<1> QED BY <1>1, <1>2

\* A command id reaches the browser at most once, under one fingerprint.
THEOREM DispatchSafe == Spec => []DispatchInv
<1>1. Init => DispatchInv
  <2> SUFFICES ASSUME Init PROVE DispatchInv
    OBVIOUS
  <2>1. \A e \in Envelopes : ~Claimed(e)
    BY NilAssumption, AnswersTyped DEF Init, Claimed, NoEntry, Envelopes
  <2>2. ClaimsAreDurable /\ JournalIsOpen /\ AtMostOneDispatch /\ OneTaskPerCommand
    BY <2>1 DEF Init, ClaimsAreDurable, JournalIsOpen, AtMostOneDispatch, OneTaskPerCommand
  <2>3. JournalIsOnDisk
    BY DEF Init, JournalIsOnDisk
  <2> QED BY <2>2, <2>3 DEF DispatchInv
<1>2. TypeOK /\ DispatchInv /\ [Next]_vars => DispatchInv'
  <2> SUFFICES ASSUME TypeOK, DispatchInv, [Next]_vars PROVE DispatchInv'
    OBVIOUS
  <2>0. /\ JournalIsOnDisk /\ JournalIsOpen /\ ClaimsAreDurable /\ now \in Nat
        /\ up \in BOOLEAN /\ opened \in BOOLEAN /\ failing \in BOOLEAN
    BY DEF DispatchInv, TypeOK
  <2>a. ASSUME NEW e \in Envelopes, NEW live \in BOOLEAN, Admit(e, live) PROVE DispatchInv'
    <3>0. /\ KeyOf(e) \in Keys /\ e[1] \in Scopes /\ e[2] \in Commands /\ e[3] \in Fingerprints
          /\ up
      BY <2>a, AnswersTyped DEF Admit, AdmitStale, AdmitCached, AdmitInflight, AdmitUnavailable,
         AdmitKnown, AdmitExpired, AdmitOverload, AdmitNew, Consulting, Admitting
    <3>r. ASSUME NEW verdicts \in {{}, {"expired"}}, Reject(e, live, verdicts)
          PROVE  \A f \in Envelopes : "ack" \in told'[f] => "ack" \in told[f]
      BY <3>r DEF Reject, TypeOK
    <3>1. CASE AdmitStale(e, live)
      BY <2>0, <3>0, <3>r, <3>1, QuietKeeps, UnchangedStoreKeeps
         DEF AdmitStale, JournalIsOpen, store, cache
    <3>2. CASE AdmitCached(e, live)
      <4>1. StoreKeeps
        BY <3>2, UnchangedStoreKeeps DEF AdmitCached, store
      <4>2. CASE cached[e[2]].fp = e[3]
        <5>1. now < Deadline[e[2]] => Durable(e)'
          BY <2>0, <3>2, <4>1, <4>2 DEF AdmitCached, Claimed, ClaimsAreDurable, StoreKeeps, Durable
        <5>2. \E result \in Results \cup {Nil} : Accept(e, live, result)
          BY <3>0, <3>2, <4>2 DEF AdmitCached, TypeOK, EntryType, NoEntry
        <5> QED BY <2>0, <3>0, <3>2, <4>1, <5>1, <5>2, AdmissionKeeps
                DEF AdmitCached, JournalIsOpen, store, cache
      <4>3. CASE cached[e[2]].fp # e[3]
        BY <2>0, <3>0, <3>r, <3>2, <4>1, <4>3, QuietKeeps DEF AdmitCached, JournalIsOpen, store, cache
      <4> QED BY <4>2, <4>3
    <3>3. CASE AdmitInflight(e, live)
      <4>1. StoreKeeps
        BY <3>3, UnchangedStoreKeeps DEF AdmitInflight, store
      <4>2. CASE inflight[e[2]] = e[3]
        <5>1. now < Deadline[e[2]] => Durable(e)'
          BY <2>0, <3>3, <4>1, <4>2 DEF AdmitInflight, Claimed, ClaimsAreDurable, StoreKeeps, Durable
        <5>2. \E result \in Results \cup {Nil} : Accept(e, live, result)
          BY <3>0, <3>3, <4>2 DEF AdmitInflight, TypeOK, EntryType, NoEntry
        <5> QED BY <2>0, <3>0, <3>3, <4>1, <5>1, <5>2, AdmissionKeeps
                DEF AdmitInflight, JournalIsOpen, store, cache
      <4>3. CASE inflight[e[2]] # e[3]
        BY <2>0, <3>0, <3>r, <3>3, <4>1, <4>3, QuietKeeps DEF AdmitInflight, JournalIsOpen, store, cache
      <4> QED BY <4>2, <4>3
    <3>4. CASE AdmitUnavailable(e, live)
      <4>1. PICK r \in Retries : StoreBecomes(r, r.journal, r.disk, FALSE)
        BY <3>4 DEF AdmitUnavailable
      <4>2. StoreKeeps
        BY <2>0, <4>1, StoreBecomesKeeps
      <4>3. failing' = TRUE
        BY <4>1 DEF StoreBecomes
      <4> QED BY <2>0, <3>0, <3>r, <3>4, <4>2, <4>3, QuietKeeps DEF AdmitUnavailable, cache
    <3>5. CASE AdmitKnown(e, live)
      <4> DEFINE k == KeyOf(e)
                 receipt == Receipt("completed", e[3], "indeterminate")
                 Settled(r) == [r.journal EXCEPT ![k] = receipt]
                 Conflict(r) == /\ r.journal[k].fp # e[3]
                                /\ StoreBecomes(r, r.journal, r.disk, TRUE)
                                /\ Reject(e, live, {})
                                /\ UNCHANGED <<order, cached>>
                 Replay(r) == /\ r.journal[k].fp = e[3] /\ r.journal[k].state = "completed"
                              /\ StoreBecomes(r, r.journal, r.disk, TRUE)
                              /\ Insert(e[2], e[3], r.journal[k].result)
                              /\ Accept(e, live, r.journal[k].result)
                 Settle(r, w) == /\ w.ok
                                 /\ StoreBecomes(r, Settled(r), w.disk, TRUE)
                                 /\ Insert(e[2], e[3], "indeterminate")
                                 /\ Accept(e, live, "indeterminate")
                 Fail(r, w) == /\ ~w.ok
                               /\ StoreBecomes(r, r.journal, w.disk, FALSE)
                               /\ Reject(e, live, {})
                               /\ UNCHANGED <<order, cached>>
      <4>1. PICK r \in Retries :
              /\ r.ok /\ r.journal[k].state # "none"
              /\ \/ Conflict(r)
                 \/ Replay(r)
                 \/ /\ r.journal[k].fp = e[3] /\ r.journal[k].state = "accepted"
                    /\ \E w \in Writes(r.disk, Settled(r)) : Settle(r, w) \/ Fail(r, w)
        BY <3>5 DEF AdmitKnown
      <4>2. /\ StoreType(r) /\ r.opened /\ Within(r.journal, r.disk)
            /\ r.journal \in EntriesType /\ r.journal[k] \in ReceiptType
            /\ receipt \in ReceiptType
        <5>1. StoreType(r) /\ r.opened /\ Within(r.journal, r.disk)
          BY <2>0, <3>0, <4>1, RetryKeeps
        <5>2. r.journal \in EntriesType
          BY <5>1 DEF StoreType
        <5> QED BY <3>0, <5>1, <5>2, EntriesTyped DEF Receipt, ReceiptType, Results
      <4>3. active = e[1] /\ UNCHANGED <<now, up, generation, active, inflight, tasks, ran>>
        BY <3>5 DEF AdmitKnown, Consulting
      <4>4. CASE Conflict(r)
        <5>1. StoreKeeps /\ opened'
          BY <2>0, <4>2, <4>4, StoreBecomesKeeps DEF StoreBecomes
        <5> QED BY <2>0, <3>0, <3>r, <4>3, <4>4, <5>1, QuietKeeps
      <4>5. CASE Replay(r)
        <5>1. StoreKeeps /\ opened' /\ journal' = r.journal /\ disk' = r.disk
          BY <2>0, <4>2, <4>5, StoreBecomesKeeps DEF StoreBecomes
        <5>2. Durable(e)'
          BY <3>0, <4>1, <4>2, <4>5, <5>1 DEF Durable, Holds, Within
        <5>3. r.journal[k].result \in Results
          BY <4>2, <4>5 DEF ReceiptType, NoReceipt
        <5> QED BY <3>0, <4>3, <4>5, <5>1, <5>2, <5>3, InsertChanges, AdmissionKeeps
      <4>6. ASSUME NEW w \in Writes(r.disk, Settled(r)), r.journal[k].fp = e[3],
                   Settle(r, w) \/ Fail(r, w)
            PROVE  DispatchInv'
        <5>1. receipt.state = "completed" /\ receipt.fp = e[3]
          BY DEF Receipt
        <5> HIDE DEF receipt
        <5>2. StoreKeeps
          BY <2>0, <3>0, <4>2, <4>6, <5>1, WriteKeeps
        <5>3. opened' = r.opened
          BY <4>6 DEF StoreBecomes
        <5>4. CASE Settle(r, w)
          <6>1. journal' = Settled(r) /\ disk' = Settled(r)
            BY <5>4, WriteOutcomes DEF StoreBecomes
          <6>2. Settled(r)[k] = receipt
            BY <3>0, <4>2 DEF EntriesType
          <6>3. Durable(e)'
            BY <5>1, <6>1, <6>2 DEF Durable, Holds
          <6>4. "indeterminate" \in Results
            BY DEF Results
          <6> QED BY <3>0, <4>2, <4>3, <5>2, <5>3, <5>4, <6>3, <6>4, InsertChanges, AdmissionKeeps
        <5>5. CASE Fail(r, w)
          BY <2>0, <3>0, <3>r, <4>2, <4>3, <5>2, <5>3, <5>5, QuietKeeps
        <5> QED BY <4>6, <5>4, <5>5
      <4> QED BY <4>1, <4>4, <4>5, <4>6
    <3>6. CASE AdmitExpired(e, live)
      <4>1. PICK r \in Retries : r.ok /\ StoreBecomes(r, r.journal, r.disk, TRUE)
        BY <3>6 DEF AdmitExpired
      <4>2. StoreKeeps
        BY <2>0, <4>1, StoreBecomesKeeps
      <4>3. opened'
        BY <2>0, <3>0, <4>1, RetryKeeps DEF StoreBecomes
      <4> QED BY <2>0, <3>0, <3>r, <3>6, <4>2, <4>3, QuietKeeps DEF AdmitExpired, cache
    <3>7. CASE AdmitOverload(e, live)
      <4>1. PICK r \in Retries :
              /\ r.ok
              /\ \/ StoreBecomes(r, r.journal, r.disk, TRUE)
                 \/ StoreBecomes(r, Pruned(r.journal, now), r.disk, TRUE)
        BY <3>7 DEF AdmitOverload
      <4>2. StoreKeeps
        BY <2>0, <4>1, StoreBecomesKeeps
      <4>3. opened'
        BY <2>0, <3>0, <4>1, RetryKeeps DEF StoreBecomes
      <4> QED BY <2>0, <3>0, <3>r, <3>7, <4>2, <4>3, QuietKeeps DEF AdmitOverload, cache
    <3>8. CASE AdmitNew(e, live)
      <4> DEFINE k == KeyOf(e)
                 pruned(r) == Pruned(r.journal, now)
                 receipt == Receipt("accepted", e[3], Nil)
                 accepted(r) == [pruned(r) EXCEPT ![k] = receipt]
                 task == [env |-> e, generation |-> generation, state |-> "spawned"]
                 Spawn(r, w) == /\ w.ok
                                /\ StoreBecomes(r, accepted(r), w.disk, TRUE)
                                /\ inflight' = [inflight EXCEPT ![e[2]] = e[3]]
                                /\ tasks' = tasks \cup {task}
                                /\ Accept(e, live, Nil)
                 Fail(r, w) == /\ ~w.ok
                               /\ StoreBecomes(r, pruned(r), w.disk, FALSE)
                               /\ Reject(e, live, {})
                               /\ UNCHANGED <<inflight, tasks>>
      <4>1. PICK r \in Retries :
              /\ r.ok /\ r.journal[k].state = "none"
              /\ \E w \in Writes(r.disk, accepted(r)) : Spawn(r, w) \/ Fail(r, w)
        BY <3>8 DEF AdmitNew
      <4>2. /\ StoreType(r) /\ r.opened /\ r.journal \in EntriesType
            /\ pruned(r) \in EntriesType /\ receipt \in ReceiptType
        <5>1. StoreType(r) /\ r.opened
          BY <2>0, <3>0, <4>1, RetryKeeps
        <5>2. r.journal \in EntriesType
          BY <5>1 DEF StoreType
        <5> QED BY <2>0, <3>0, <5>1, <5>2, EntriesTyped DEF Receipt, ReceiptType
      <4>3. /\ active = e[1] /\ now < Deadline[e[2]]
            /\ UNCHANGED <<now, up, generation, active, order, cached, ran>>
        <5>1. Deadline[e[2]] \in Nat /\ Deadline[e[2]] > now
          BY <3>0, <3>8, DeadlineAssumption DEF AdmitNew
        <5> QED BY <2>0, <3>8, <5>1 DEF AdmitNew, Consulting
      <4>4. ASSUME NEW f \in Envelopes, KeyOf(f) = k PROVE ~Claimed(f)
        <5>1. now < Deadline[f[2]]
          BY <4>3, <4>4 DEF KeyOf
        <5>2. ~Holds(r.journal, f)
          BY <4>1, <4>4 DEF Holds
        <5> QED BY <2>0, <4>2, <5>1, <5>2, RetryKeeps DEF ClaimsAreDurable, Durable
      <4>5. PICK w \in Writes(r.disk, accepted(r)) : Spawn(r, w) \/ Fail(r, w)
        BY <4>1
      <4>6. receipt.state = "accepted" /\ receipt.fp = e[3]
        BY DEF Receipt
      <4> HIDE DEF receipt
      <4>7. StoreKeeps /\ opened'
        <5>1. StoreKeeps
          BY <2>0, <3>0, <4>1, <4>2, <4>5, <4>6, WriteKeeps
        <5> QED BY <4>2, <4>5, <5>1 DEF StoreBecomes
      <4>8. CASE Spawn(r, w)
        <5>1. Durable(e)'
          <6>1. journal' = accepted(r) /\ disk' = accepted(r)
            BY <4>8, WriteOutcomes DEF StoreBecomes
          <6>2. accepted(r)[k] = receipt
            BY <3>0, <4>2 DEF EntriesType
          <6> QED BY <4>6, <6>1, <6>2 DEF Durable, Holds
        <5>2. ASSUME NEW f \in Envelopes, Claimed(f)' PROVE Claimed(f) \/ Durable(f)'
          <6>1. CASE f = e
            BY <5>1, <6>1
          <6>2. CASE f # e
            <7>1. "ack" \in told'[f] => "ack" \in told[f]
              BY <4>8, <6>2 DEF Accept, TypeOK
            <7>2. (\E t \in tasks' : t.env = f) => \E t \in tasks : t.env = f
              BY <4>8, <6>2
            <7>3. ~(f[1] = e[1] /\ f[2] = e[2] /\ f[3] = e[3])
              BY <6>2, SameEnvelope
            <7>4. active = f[1] /\ inflight'[f[2]] = f[3] => inflight[f[2]] = f[3]
              BY <3>0, <4>3, <4>8, <7>3, AnswersTyped DEF TypeOK
            <7> QED BY <4>3, <5>2, <7>1, <7>2, <7>4 DEF Claimed
          <6> QED BY <6>1, <6>2
        <5>3. ClaimsAreDurable'
          BY <2>0, <4>3, <4>7, <5>2, ClaimsKept
        <5>4. OneTaskPerCommand'
          <6>1. \A t \in tasks : KeyOf(t.env) # k
            <7>1. \A t \in tasks : t.env \in Envelopes
              BY DEF TypeOK, TaskType
            <7> QED BY <4>4, <7>1 DEF Claimed
          <6>2. \A f \in Envelopes : KeyOf(f) = k => ran[f] = 0
            BY <4>4 DEF Claimed, TypeOK
          <6>3. tasks' = tasks \cup {task} /\ task.env = e /\ task.generation = generation
            BY <4>8
          <6>4. generation <= generation
            BY DEF TypeOK
          <6> HIDE DEF task, k
          <6>5. \A t, u \in tasks' : KeyOf(t.env) = KeyOf(u.env) => t = u
            BY <6>1, <6>3 DEF DispatchInv, OneTaskPerCommand, k
          <6>6. ASSUME NEW t \in tasks'
                PROVE  /\ t.generation <= generation'
                       /\ t.generation = generation' => active' = t.env[1]
                       /\ t.state \in {"spawned", "admitted"} =>
                            \A f \in Envelopes : KeyOf(f) = KeyOf(t.env) => ran'[f] = 0
            <7>1. CASE t \in tasks
              BY <4>3, <7>1 DEF DispatchInv, OneTaskPerCommand
            <7>2. CASE t = task
              BY <4>3, <6>2, <6>3, <6>4, <7>2 DEF k
            <7> QED BY <6>3, <7>1, <7>2
          <6> QED BY <6>5, <6>6 DEF OneTaskPerCommand
        <5> QED BY <2>0, <3>0, <4>3, <4>7, <5>3, <5>4
                DEF DispatchInv, AtMostOneDispatch, JournalIsOpen, StoreKeeps
      <4>9. CASE Fail(r, w)
        BY <2>0, <3>0, <3>r, <4>3, <4>7, <4>9, QuietKeeps
      <4> QED BY <4>5, <4>8, <4>9
    <3> QED BY <2>a, <3>1, <3>2, <3>3, <3>4, <3>5, <3>6, <3>7, <3>8 DEF Admit
  <2>b. ASSUME NEW t \in tasks, TaskCheck(t) \/ TaskDispatch(t) \/ TaskFinish(t)
        PROVE  DispatchInv'
    <3>0. /\ t.env \in Envelopes /\ t.generation \in Nat /\ Claimed(t.env) /\ opened
          /\ KeyOf(t.env) \in Keys
      BY <2>0, AnswersTyped DEF TypeOK, TaskType, Claimed, JournalIsOpen
    <3>1. ASSUME NEW state, Step(t, state), UNCHANGED <<generation, active>>,
                 state \in {"spawned", "admitted"} => t.state \in {"spawned", "admitted"},
                 UNCHANGED ran \/ (state \notin {"spawned", "admitted"} /\ ran' = [ran EXCEPT ![t.env] = @ + 1])
          PROVE  /\ OneTaskPerCommand'
                 /\ \A f : (\E u \in tasks' : u.env = f) => \E u \in tasks : u.env = f
      <4> DEFINE next == [t EXCEPT !.state = state]
      <4>1. next.env = t.env /\ next.generation = t.generation /\ next.state = state
        BY DEF TypeOK, TaskType
      <4>2. tasks' = (tasks \ {t}) \cup {next}
        BY <3>1 DEF Step
      <4> HIDE DEF next
      <4>3. \A u, v \in tasks' : KeyOf(u.env) = KeyOf(v.env) => u = v
        BY <4>1, <4>2 DEF DispatchInv, OneTaskPerCommand
      <4>4. ASSUME NEW u \in tasks'
            PROVE  /\ u.generation <= generation'
                   /\ u.generation = generation' => active' = u.env[1]
                   /\ u.state \in {"spawned", "admitted"} =>
                        \A e \in Envelopes : KeyOf(e) = KeyOf(u.env) => ran'[e] = 0
        <5>1. CASE u = next
          BY <3>1, <4>1, <5>1 DEF DispatchInv, OneTaskPerCommand
        <5>2. CASE u \in tasks \ {t}
          BY <3>0, <3>1, <5>2 DEF DispatchInv, OneTaskPerCommand, TypeOK
        <5> QED BY <4>2, <5>1, <5>2
      <4> QED BY <4>1, <4>2, <4>3, <4>4 DEF OneTaskPerCommand
    <3>c. ASSUME StoreKeeps, UNCHANGED <<now, active>>, now \in Nat,
                 \A e \in Envelopes : Claimed(e)' => Claimed(e)
          PROVE  ClaimsAreDurable'
      BY <2>0, <3>c, ClaimsKept
    <3>2. CASE TaskCheck(t)
      <4>1. StoreKeeps
        BY <3>2, UnchangedStoreKeeps DEF TaskCheck, store
      <4>2. /\ OneTaskPerCommand'
            /\ \A f : (\E u \in tasks' : u.env = f) => \E u \in tasks : u.env = f
        BY <3>1, <3>2 DEF TaskCheck, cache, history
      <4>3. ClaimsAreDurable'
        BY <2>0, <3>2, <3>c, <4>1, <4>2 DEF TaskCheck, Claimed, cache, history
      <4> QED BY <2>0, <3>0, <3>2, <4>1, <4>2, <4>3
              DEF TaskCheck, DispatchInv, AtMostOneDispatch, JournalIsOpen, StoreKeeps, store, history
    <3>3. CASE TaskDispatch(t)
      <4>1. StoreKeeps
        BY <3>3, UnchangedStoreKeeps DEF TaskDispatch, store
      <4>2. /\ OneTaskPerCommand'
            /\ \A f : (\E u \in tasks' : u.env = f) => \E u \in tasks : u.env = f
        BY <3>1, <3>3 DEF TaskDispatch, cache
      <4>3. \A e \in Envelopes : ran'[e] > 0 => ran[e] > 0 \/ e = t.env
        BY <3>0, <3>3 DEF TaskDispatch, TypeOK
      <4>4. ClaimsAreDurable'
        BY <2>0, <3>0, <3>3, <3>c, <4>1, <4>2, <4>3 DEF TaskDispatch, Claimed, cache
      <4>5. AtMostOneDispatch'
        <5>1. CASE UNCHANGED ran
          BY <5>1 DEF DispatchInv, AtMostOneDispatch
        <5>2. CASE ran' = [ran EXCEPT ![t.env] = @ + 1]
          <6>1. \A e \in Envelopes : KeyOf(e) = KeyOf(t.env) => ran[e] = 0
            BY <3>3 DEF TaskDispatch, DispatchInv, OneTaskPerCommand
          <6>2. ran'[t.env] = 1 /\ \A e \in Envelopes : e # t.env => ran'[e] = ran[e]
            BY <3>0, <5>2, <6>1 DEF TypeOK
          <6> QED BY <3>0, <6>1, <6>2 DEF DispatchInv, AtMostOneDispatch
        <5> QED BY <3>3, <5>1, <5>2 DEF TaskDispatch
      <4> QED BY <2>0, <3>0, <3>3, <4>1, <4>2, <4>4, <4>5
              DEF TaskDispatch, DispatchInv, JournalIsOpen, StoreKeeps, store
    <3>4. CASE TaskFinish(t)
      <4> DEFINE k == KeyOf(t.env)
                 outcome == IF t.state = "running" THEN "result" ELSE "undispatched"
                 receipt == [journal[k] EXCEPT !.state = "completed", !.result = outcome]
                 done == [journal EXCEPT ![k] = [@ EXCEPT !.state = "completed", !.result = outcome]]
      <4>1. done = [journal EXCEPT ![k] = receipt]
        BY DEF TypeOK
      <4>2. PICK result \in {outcome, "indeterminate"} :
              /\ \/ UNCHANGED <<opened, journal, disk>>
                 \/ /\ journal[k].state # "none"
                    /\ \E w \in Writes(disk, done) :
                         /\ opened' = opened
                         /\ journal' = IF w.ok THEN done ELSE journal
                         /\ disk' = w.disk
              /\ IF t.generation = generation
                 THEN /\ inflight' = [inflight EXCEPT ![k[2]] = Nil]
                      /\ Insert(k[2], t.env[3], result)
                 ELSE UNCHANGED <<inflight, order, cached>>
        BY <3>4 DEF TaskFinish, Retire
      <4>3. /\ UNCHANGED <<now, up, generation, active, ran, told>>
            /\ tasks' = tasks \ {t} /\ opened'
        BY <3>0, <3>4 DEF TaskFinish, history
      <4>4. StoreKeeps
        <5>1. CASE UNCHANGED <<opened, journal, disk>>
          BY <5>1, UnchangedStoreKeeps
        <5>2. ASSUME journal[k].state # "none", NEW w \in Writes(disk, done),
                     opened' = opened, journal' = IF w.ok THEN done ELSE journal, disk' = w.disk
              PROVE  StoreKeeps
          <6>1. receipt \in ReceiptType /\ receipt.state = "completed" /\ receipt.fp = journal[k].fp
            <7>1. journal[k] \in ReceiptType
              BY <3>0 DEF TypeOK
            <7>2. outcome \in Results
              BY DEF Results
            <7>3. CASE journal[k] \in [state : {"accepted"}, fp : Fingerprints, result : {Nil}]
              BY <7>2, <7>3 DEF ReceiptType
            <7>4. CASE journal[k] \in [state : {"completed"}, fp : Fingerprints, result : Results]
              BY <7>2, <7>4 DEF ReceiptType
            <7> QED BY <5>2, <7>1, <7>3, <7>4 DEF ReceiptType, NoReceipt
          <6>2. Within(journal, disk) /\ journal \in EntriesType
            BY <2>0 DEF JournalIsOnDisk, Within, TypeOK, EntriesType
          <6>3. \A e \in Envelopes : Durable(e) => Holds(journal, e) /\ Holds(disk, e)
            BY <3>0 DEF Durable
          <6>4. opened' = TRUE
            BY <2>0, <3>0, <5>2
          <6>5. w.ok \in BOOLEAN
            BY WriteOutcomes
          <6>6. w \in Writes(disk, [journal EXCEPT ![k] = receipt])
            BY <4>1, <5>2
          <6>7. journal' = journal \/ (w.ok /\ journal' = [journal EXCEPT ![k] = receipt])
            BY <4>1, <5>2, <6>5
          <6> HIDE DEF receipt, done
          <6> QED BY <3>0, <5>2, <6>1, <6>2, <6>3, <6>4, <6>6, <6>7, WrittenKeeps
        <5> QED BY <4>2, <5>1, <5>2
      <4>5. ASSUME NEW e \in Envelopes, Claimed(e)' PROVE Claimed(e)
        <5>1. CASE t.generation = generation
          <6>1. active = t.env[1]
            BY <5>1 DEF DispatchInv, OneTaskPerCommand
          <6>2. /\ t.env[2] \in Commands /\ t.env[3] \in Fingerprints /\ k[2] = t.env[2]
                /\ e[2] \in Commands /\ e[3] \in Fingerprints /\ result \in Results
            BY <3>0, <4>2, AnswersTyped DEF KeyOf, Results
          <6>3. cached'[e[2]].fp = e[3] =>
                  cached[e[2]].fp = e[3] \/ (e[2] = t.env[2] /\ e[3] = t.env[3])
            BY <4>2, <5>1, <6>2, NilAssumption, InsertChanges DEF NoEntry
          <6>4. inflight'[e[2]] = e[3] => inflight[e[2]] = e[3]
            BY <4>2, <5>1, <6>2, NilAssumption DEF TypeOK
          <6>5. active = e[1] /\ e[2] = t.env[2] /\ e[3] = t.env[3] => e = t.env
            BY <3>0, <6>1, SameEnvelope
          <6> QED BY <3>0, <4>3, <4>5, <6>3, <6>4, <6>5 DEF Claimed
        <5>2. CASE t.generation # generation
          BY <4>2, <4>3, <4>5, <5>2 DEF Claimed
        <5> QED BY <5>1, <5>2
      <4>6. ClaimsAreDurable'
        BY <2>0, <3>c, <4>3, <4>4, <4>5
      <4>7. OneTaskPerCommand'
        BY <4>3 DEF DispatchInv, OneTaskPerCommand
      <4> QED BY <2>0, <3>0, <4>3, <4>4, <4>6, <4>7
              DEF DispatchInv, AtMostOneDispatch, JournalIsOpen, StoreKeeps
    <3> QED BY <2>b, <3>2, <3>3, <3>4
  <2>c. CASE JournalGate
    <3>1. PICK r \in Retries : StoreBecomes(r, r.journal, r.disk, r.ok)
      BY <2>c DEF JournalGate
    <3>2. StoreType(r)
      BY <2>0, RetryKeeps
    <3>3. StoreKeeps
      BY <2>0, <3>1, <3>2, StoreBecomesKeeps DEF StoreType
    <3>4. up /\ r.ok => r.opened
      BY <2>0, RetryOutcomes DEF JournalIsOpen, Reloaded, Unchanged
    <3>5. (up' /\ ~failing' => opened') /\ up'
      BY <2>0, <2>c, <3>1, <3>2, <3>4 DEF JournalGate, StoreBecomes, StoreType
    <3> QED BY <2>0, <2>c, <3>3, <3>5, QuietKeeps DEF JournalGate, cache, link, history
  <2>d. CASE Connect
    BY <2>0, <2>d, QuietKeeps, UnchangedStoreKeeps DEF Connect, JournalIsOpen, store, cache, history
  <2>e. CASE ActorReady
    BY <2>0, <2>e, QuietKeeps, UnchangedStoreKeeps
       DEF ActorReady, JournalIsOpen, store, cache, history
  <2>f. ASSUME NEW e \in Envelopes, Receive(e) PROVE DispatchInv'
    BY <2>0, <2>f, QuietKeeps, UnchangedStoreKeeps DEF Receive, JournalIsOpen, store, cache, history
  <2>g. CASE Reply
    <3>1. \A e \in Envelopes : "ack" \in told'[e] => "ack" \in told[e]
      BY <2>g DEF Reply, TypeOK, WorkerType, NoWork, Results
    <3> QED BY <2>0, <2>g, <3>1, QuietKeeps, UnchangedStoreKeeps
            DEF Reply, JournalIsOpen, store, cache
  <2>h. CASE SessionEnds
    BY <2>0, <2>h, QuietKeeps, UnchangedStoreKeeps
       DEF SessionEnds, JournalIsOpen, store, cache, history
  <2>i. ASSUME NEW next \in Scopes \cup {Nil}, ApplyConfig(next) PROVE DispatchInv'
    BY <2>0, <2>i, QuietKeeps, UnchangedStoreKeeps DEF ApplyConfig, JournalIsOpen, store, history
  <2>j. CASE ReloadConfig
    BY <2>0, <2>j, QuietKeeps, UnchangedStoreKeeps
       DEF ReloadConfig, JournalIsOpen, store, cache, history
  <2>k. CASE Start
    <3>1. PICK r \in Reopens : StoreBecomes(r, r.journal, r.disk, r.ok)
      BY <2>k DEF Start
    <3>2. StoreType(r)
      BY <2>0, RetryKeeps
    <3>3. StoreKeeps
      BY <2>0, <3>1, <3>2, StoreBecomesKeeps DEF StoreType
    <3>4. r.ok => r.opened
      BY <2>0, ReopenOutcomes DEF Reloaded
    <3>5. (up' /\ ~failing' => opened') /\ up'
      BY <2>0, <2>k, <3>1, <3>2, <3>4 DEF Start, StoreBecomes, StoreType
    <3> QED BY <2>0, <2>k, <3>3, <3>5, QuietKeeps DEF Start, cache, link, history
  <2>l. CASE Crash
    <3>1. ASSUME NEW e \in Envelopes, Claimed(e)' PROVE Claimed(e)
      BY <2>l, <3>1, NilAssumption, AnswersTyped DEF Crash, Claimed, NoEntry, history
    <3>2. ClaimsAreDurable'
      BY <2>l, <3>1 DEF Crash, DispatchInv, ClaimsAreDurable, Holds
    <3>3. JournalIsOnDisk'
      BY <2>l DEF Crash, JournalIsOnDisk, NoReceipts, NoReceipt
    <3> QED BY <2>l, <3>2, <3>3 DEF Crash, DispatchInv, OneTaskPerCommand, JournalIsOpen,
                                    AtMostOneDispatch, history
  <2>m. CASE Tick
    <3>1. now' \in Nat /\ now' >= now
      BY <2>0, <2>m DEF Tick
    <3> QED BY <2>0, <2>m, <3>1, QuietKeeps, UnchangedStoreKeeps
            DEF Tick, JournalIsOpen, store, cache, link, history
  <2>n. CASE BackoffElapses
    BY <2>0, <2>n, QuietKeeps, UnchangedStoreKeeps
       DEF BackoffElapses, JournalIsOpen, cache, link, history
  <2>o. CASE UNCHANGED vars
    BY <2>0, <2>o, QuietKeeps, UnchangedStoreKeeps
       DEF vars, JournalIsOpen, store, cache, link, history
  <2> QED BY <2>a, <2>b, <2>c, <2>d, <2>e, <2>f, <2>g, <2>h, <2>i, <2>j, <2>k, <2>l, <2>m, <2>n,
             <2>o DEF Next
<1> QED BY <1>1, <1>2, TypeCorrect, PTL DEF Spec

\* The safety properties the runs check, for every instance.
THEOREM AtMostOneDispatchHolds == Spec => []AtMostOneDispatch
<1>1. DispatchInv => AtMostOneDispatch
  BY DEF DispatchInv
<1> QED BY <1>1, DispatchSafe, PTL

\* An acknowledged or dispatched command keeps its receipt on disk until its deadline.
THEOREM AckedIsDurableHolds == Spec => []AckedIsDurable
<1>1. DispatchInv => AckedIsDurable
  BY DEF DispatchInv, ClaimsAreDurable, Claimed, AckedIsDurable, Holds
<1> QED BY <1>1, DispatchSafe, PTL

-----------------------------------------------------------------------------
(* What the backend is told.  A verdict is on its way in a receipt, in the *)
(* cache or with the worker long before it is told, and stays in the       *)
(* receipts long after; it is true, and final, in each of these places.    *)

\* The claims of a command, its receipt included, are of one fingerprint.
OneClaim ==
  /\ \A e, f \in Envelopes : Claimed(e) /\ Claimed(f) /\ KeyOf(e) = KeyOf(f) => e = f
  /\ \A e \in Envelopes : Claimed(e) /\ disk[KeyOf(e)].state # "none" => disk[KeyOf(e)].fp = e[3]

\* Who waits for an answer waits for a dispatcher of its own configuration, and the state
\* of a dispatcher tells whether it ran.
Own(e) == \E t \in tasks : t.env = e /\ t.generation = generation

WaitersHaveTasks ==
  /\ session # "ready" => worker = NoWork
  /\ worker.state = "waiting" =>
       "ack" \in told[worker.env] /\ active = worker.env[1] /\ (worker.result = Nil => Own(worker.env))
  /\ \A e \in Envelopes : active = e[1] /\ inflight[e[2]] = e[3] => Own(e)

TasksRan ==
  \A t \in tasks :
    /\ t.state = "running" => ran[t.env] > 0
    /\ t.state = "refused" => \A f \in Envelopes : KeyOf(f) = KeyOf(t.env) => ran[f] = 0

Says(entries, e, v) == entries[KeyOf(e)] = Receipt("completed", e[3], v)
FinalIn(entries, e) == entries[KeyOf(e)].state = "none" \/ Says(entries, e, "result")
Pending(e, v) == worker.state = "waiting" /\ worker.env = e /\ worker.result = v
Remembered(e, v) == active = e[1] /\ cached[e[2]] = [fp |-> e[3], result |-> v]
Reported(e, v) == v \in told[e] \/ Pending(e, v) \/ Remembered(e, v)
NoTask(e) == \A t \in tasks : KeyOf(t.env) # KeyOf(e)

\* A result in memory is on disk.
JournalResults == \A k \in Keys : journal[k].result = "result" => disk[k] = journal[k]

\* Once the result of a command is reported, nothing else can be found out about it.
ResultsAreFinal ==
  \A e \in Envelopes :
    /\ Reported(e, "result") =>
         /\ ran[e] > 0 /\ NoTask(e)
         /\ FinalIn(disk, e) /\ FinalIn(journal, e)
         /\ ~Remembered(e, "indeterminate")
    /\ "result" \in told[e] => ~Pending(e, "indeterminate")
    /\ Says(disk, e, "result") => ran[e] > 0 /\ NoTask(e)

\* Once a command is known not to have been dispatched, it will not be.
Undispatched(e) ==
  Reported(e, "undispatched") \/ Says(disk, e, "undispatched") \/ Says(journal, e, "undispatched")

UndispatchedIsFinal ==
  \A e \in Envelopes :
    Undispatched(e) =>
      /\ \A f \in Envelopes : KeyOf(f) = KeyOf(e) => ran[f] = 0
      /\ NoTask(e)
      /\ now < Deadline[e[2]] => Durable(e)

VerdictInv ==
  /\ OneClaim /\ WaitersHaveTasks /\ TasksRan
  /\ JournalResults /\ ResultsAreFinal /\ UndispatchedIsFinal

\* The receipts a step may leave at a key: an old one, recovered or not, none, or a new one.
Old(k, x) ==
  \/ x.state = "none"
  \/ x \in {disk[k], journal[k]}
  \/ disk[k].state = "accepted" /\ x = Receipt("completed", disk[k].fp, "indeterminate")

Tame(k, receipt) ==
  /\ Old(k, disk'[k]) \/ disk'[k] = receipt
  /\ Old(k, journal'[k]) \/ journal'[k] = receipt
  /\ journal'[k].result = "result" => disk'[k] = journal'[k]

\* Nil is no verdict, and a receipt without a result has none.
LEMMA Verdictless ==
  /\ Nil \notin Results
  /\ \A x \in ReceiptType : x.state # "completed" => x.result = Nil
BY NilAssumption DEF Results, ReceiptType, NoReceipt

\* A retry, or opening the file again, leaves old receipts.
LEMMA RetryTame ==
  ASSUME TypeOK, DispatchInv, JournalResults, NEW r \in Retries \cup Reopens, NEW k \in Keys
  PROVE  /\ Old(k, r.disk[k]) /\ Old(k, r.journal[k])
         /\ r.journal[k].result = "result" => r.disk[k] = r.journal[k]
         /\ r.disk[k] \in ReceiptType /\ r.journal[k] \in ReceiptType
<1>0. opened \in BOOLEAN /\ disk[k] \in ReceiptType /\ JournalIsOnDisk /\ JournalIsOpen
  BY DEF TypeOK, DispatchInv
<1>1. Unchanged(r) \/ Reloaded(r) \/ StillClosed(r)
  BY <1>0, RetryOutcomes, ReopenOutcomes
<1>2. Recovered(disk)[k] = IF disk[k].state = "accepted"
                           THEN Receipt("completed", disk[k].fp, "indeterminate") ELSE disk[k]
  BY DEF Recovered
<1>3. Recovered(disk)[k].result = "result" => Recovered(disk)[k] = disk[k]
  BY <1>2 DEF Receipt
<1>4. StoreType(r)
  BY <1>0, RetryKeeps
<1>5. r.disk[k] \in ReceiptType /\ r.journal[k] \in ReceiptType
  BY <1>4 DEF StoreType, EntriesType
<1>6. CASE Unchanged(r)
  BY <1>5, <1>6 DEF Unchanged, Old, JournalResults
<1>7. CASE Reloaded(r)
  BY <1>2, <1>3, <1>5, <1>7 DEF Reloaded, Old
<1>8. CASE StillClosed(r)
  <2>1. journal[k] = NoReceipt
    BY <1>0, <1>8 DEF StillClosed, JournalIsOpen, NoReceipts
  <2>2. journal[k].state = "none" /\ journal[k].result # "result"
    BY <2>1, Verdictless DEF NoReceipt, Results
  <2> QED BY <1>2, <1>5, <1>8, <2>2 DEF StillClosed, Old
<1> QED BY <1>1, <1>6, <1>7, <1>8

\* So does pruning after it.
LEMMA StoreTame ==
  ASSUME TypeOK, DispatchInv, JournalResults, NEW r \in Retries \cup Reopens, NEW ok,
         NEW entries \in {r.journal, Pruned(r.journal, now)}, StoreBecomes(r, entries, r.disk, ok)
  PROVE  \A k \in Keys : Tame(k, NoReceipt)
<1> SUFFICES ASSUME NEW k \in Keys PROVE Tame(k, NoReceipt)
  OBVIOUS
<1>1. entries[k] = r.journal[k] \/ entries[k] = NoReceipt
  BY DEF Pruned
<1>2. journal' = entries /\ disk' = r.disk
  BY DEF StoreBecomes
<1>3. NoReceipt.state = "none" /\ NoReceipt.result # "result"
  BY Verdictless DEF NoReceipt, Results
<1> QED BY <1>1, <1>2, <1>3, RetryTame DEF Tame, Old

\* And a write after that leaves the new receipt at its key only.
LEMMA WriteTame ==
  ASSUME TypeOK, DispatchInv, JournalResults, NEW r \in Retries \cup Reopens, NEW ok,
         NEW entries \in {r.journal, Pruned(r.journal, now)}, NEW k \in Keys, NEW receipt,
         r.journal[k].result # "result", receipt.result # "result",
         NEW w \in Writes(r.disk, [entries EXCEPT ![k] = receipt]),
         \/ StoreBecomes(r, [entries EXCEPT ![k] = receipt], w.disk, ok) /\ w.ok
         \/ StoreBecomes(r, entries, w.disk, ok)
  PROVE  \A j \in Keys : Tame(j, IF j = k THEN receipt ELSE NoReceipt)
<1> DEFINE written == [entries EXCEPT ![k] = receipt]
<1>0. \A j \in Keys : entries[j] = r.journal[j] \/ entries[j] = NoReceipt
  BY DEF Pruned
<1>1. NoReceipt.state = "none" /\ NoReceipt.result # "result"
  BY Verdictless DEF NoReceipt, Results
<1>2. r.journal \in EntriesType /\ now \in Nat
  BY RetryKeeps DEF StoreType, DispatchInv, TypeOK
<1>3. entries \in EntriesType
  BY <1>2, EntriesTyped
<1>4. written[k] = receipt /\ \A j \in Keys \ {k} : written[j] = entries[j]
  BY <1>3 DEF EntriesType
<1>5. w.disk \in {r.disk, written} /\ (w.ok => w.disk = written)
  BY WriteOutcomes
<1>6. /\ disk' = w.disk
      /\ journal' = entries \/ (journal' = written /\ disk' = written)
  BY <1>5 DEF StoreBecomes
<1> HIDE DEF written
<1> SUFFICES ASSUME NEW j \in Keys PROVE Tame(j, IF j = k THEN receipt ELSE NoReceipt)
  OBVIOUS
<1>7. Old(j, r.disk[j]) /\ Old(j, entries[j]) /\ (entries[j].result = "result" => r.disk[j] = entries[j])
  BY <1>0, <1>1, RetryTame DEF Old
<1>8. CASE j = k
  <2>1. entries[k].result # "result"
    BY <1>0, <1>1
  <2>2. Old(j, disk'[j]) \/ disk'[j] = receipt
    BY <1>4, <1>5, <1>6, <1>7, <1>8
  <2>3. (Old(j, journal'[j]) \/ journal'[j] = receipt) /\ journal'[j].result # "result"
    BY <1>4, <1>6, <1>7, <1>8, <2>1
  <2> QED BY <1>8, <2>2, <2>3 DEF Tame
<1>9. CASE j # k
  <2>1. written[j] = entries[j]
    BY <1>4, <1>9
  <2>2. disk'[j] \in {r.disk[j], entries[j]} /\ journal'[j] = entries[j]
    BY <1>5, <1>6, <2>1
  <2> QED BY <1>7, <1>9, <2>2 DEF Tame
<1> QED BY <1>8, <1>9

\* What old receipts keep of a verdict; and what they keep if the command was not accepted anew.
SaysFaithful(e) ==
  /\ Says(disk, e, "result")' => Says(disk, e, "result")
  /\ Says(disk, e, "undispatched")' \/ Says(journal, e, "undispatched")' =>
       Says(disk, e, "undispatched") \/ Says(journal, e, "undispatched")

KeepsReceipt(e) ==
  /\ FinalIn(disk, e) /\ FinalIn(journal, e) => FinalIn(disk, e)' /\ FinalIn(journal, e)'
  /\ disk'[KeyOf(e)].state # "none" =>
       disk[KeyOf(e)].state # "none" /\ disk'[KeyOf(e)].fp = disk[KeyOf(e)].fp

\* Old receipts, and a settled one, say no verdict that was not there.
LEMMA TameFaithful ==
  ASSUME TypeOK, DispatchInv, JournalResults, NEW e \in Envelopes, NEW receipt,
         Tame(KeyOf(e), receipt),
         receipt.result \notin {"result", "undispatched"}
  PROVE  /\ SaysFaithful(e)
         /\ receipt.state = "none" \/ (/\ disk[KeyOf(e)].state # "none"
                                       /\ receipt.fp = disk[KeyOf(e)].fp
                                       /\ disk[KeyOf(e)].state = "accepted" \/ journal[KeyOf(e)].state = "accepted")
              => KeepsReceipt(e)
<1> DEFINE k == KeyOf(e)
<1>0. k \in Keys /\ disk[k] \in ReceiptType /\ journal[k] \in ReceiptType
  BY AnswersTyped DEF TypeOK
<1>1. /\ Receipt("completed", disk[k].fp, "indeterminate").result = "indeterminate"
      /\ Receipt("completed", disk[k].fp, "indeterminate").fp = disk[k].fp
      /\ \A v : /\ Receipt("completed", e[3], v).result = v
                /\ Receipt("completed", e[3], v).state = "completed"
  BY DEF Receipt
<1>2. journal[k].state # "none" => disk[k].state # "none" /\ disk[k].fp = journal[k].fp
  BY <1>0 DEF DispatchInv, JournalIsOnDisk
<1>3. journal[k].result = "result" => disk[k] = journal[k]
  BY <1>0 DEF JournalResults
<1>4. Old(k, disk'[k]) \/ disk'[k] = receipt
  BY DEF Tame
<1>5. Old(k, journal'[k]) \/ journal'[k] = receipt
  BY DEF Tame
<1> HIDE DEF k
<1>6. Says(disk, e, "result")' => Says(disk, e, "result")
  BY <1>1, <1>3, <1>4 DEF Says, Old, k
<1>7. Says(disk, e, "undispatched")' \/ Says(journal, e, "undispatched")' =>
       Says(disk, e, "undispatched") \/ Says(journal, e, "undispatched")
  BY <1>1, <1>4, <1>5 DEF Says, Old, k
<1>8. ASSUME \/ receipt.state = "none"
             \/ /\ disk[k].state # "none" /\ receipt.fp = disk[k].fp
                /\ disk[k].state = "accepted" \/ journal[k].state = "accepted"
      PROVE  KeepsReceipt(e)
  <2>1. disk'[k].state # "none" => disk[k].state # "none" /\ disk'[k].fp = disk[k].fp
    BY <1>1, <1>2, <1>4, <1>8 DEF Old
  <2>2. ASSUME FinalIn(disk, e), FinalIn(journal, e)
        PROVE  FinalIn(disk, e)' /\ FinalIn(journal, e)'
    <3>1. disk[k].state # "accepted" /\ journal[k].state # "accepted"
      BY <1>1, <2>2 DEF FinalIn, Says, k
    <3>2. \A x : Old(k, x) \/ x = receipt => x.state = "none" \/ x = Receipt("completed", e[3], "result")
      BY <1>8, <2>2, <3>1 DEF Old, FinalIn, Says, k
    <3> QED BY <1>4, <1>5, <3>2 DEF FinalIn, Says, k
  <2> QED BY <2>1, <2>2 DEF KeepsReceipt, k
<1> QED BY <1>6, <1>7, <1>8 DEF SaysFaithful, k

\* A step that leaves the receipts alone keeps all of it.
LEMMA UnchangedFaithful ==
  ASSUME UNCHANGED <<disk, journal>>
  PROVE  \A e \in Envelopes : SaysFaithful(e) /\ KeepsReceipt(e)
BY DEF SaysFaithful, KeepsReceipt, Says, FinalIn

\* The claims of a command after a step that claims only what is claimed or held already.
LEMMA OneClaimKept ==
  ASSUME OneClaim,
         \A e \in Envelopes : Claimed(e) \/ Claimed(e)' => KeepsReceipt(e),
         \A e \in Envelopes : Claimed(e)' =>
           \/ Claimed(e)
           \/ disk[KeyOf(e)].state # "none" /\ disk[KeyOf(e)].fp = e[3]
  PROVE  OneClaim'
<1>1. ASSUME NEW e \in Envelopes, NEW f \in Envelopes, Claimed(e)', Claimed(f)', KeyOf(e) = KeyOf(f)
      PROVE  e = f
  <2>1. CASE Claimed(e) /\ Claimed(f)
    BY <1>1, <2>1 DEF OneClaim
  <2>2. CASE ~(Claimed(e) /\ Claimed(f))
    <3>1. e[3] = f[3]
      BY <1>1, <2>2 DEF OneClaim
    <3>2. e[1] = f[1] /\ e[2] = f[2]
      BY <1>1 DEF KeyOf
    <3> QED BY <3>1, <3>2, SameEnvelope
  <2> QED BY <2>1, <2>2
<1>2. ASSUME NEW e \in Envelopes, Claimed(e)', disk'[KeyOf(e)].state # "none"
      PROVE  disk'[KeyOf(e)].fp = e[3]
  BY <1>2 DEF OneClaim, KeepsReceipt
<1>3. \A e \in Envelopes : KeyOf(e)' = KeyOf(e)
  BY DEF KeyOf
<1> QED BY <1>1, <1>2, <1>3 DEF OneClaim

\* Verdicts after a step that runs and finishes no command, and reports only what was
\* reported or is in the journal.
LEMMA VerdictsKept ==
  ASSUME TypeOK, DispatchInv, OneClaim, ResultsAreFinal, UndispatchedIsFinal, JournalResults',
         now \in Nat, now' \in Nat, now' >= now,
         UNCHANGED ran, \A t \in tasks' : \E u \in tasks : u.env = t.env,
         \A e \in Envelopes : now < Deadline[e[2]] /\ Durable(e) => Durable(e)',
         \A e \in Envelopes : SaysFaithful(e) /\ (Claimed(e) => KeepsReceipt(e)),
         \A e \in Envelopes : Reported(e, "result")' =>
           Reported(e, "result") \/ (Says(journal, e, "result")' /\ ~Remembered(e, "indeterminate")'),
         \A e \in Envelopes : Reported(e, "undispatched")' =>
           Reported(e, "undispatched") \/ Says(journal, e, "undispatched")',
         \A e \in Envelopes : Remembered(e, "indeterminate")' =>
           Remembered(e, "indeterminate") \/ ~Reported(e, "result"),
         \A e \in Envelopes : "result" \in told'[e] /\ Pending(e, "indeterminate")' =>
           "result" \in told[e] /\ (Pending(e, "indeterminate") \/ ~Reported(e, "result"))
  PROVE  ResultsAreFinal' /\ UndispatchedIsFinal'
<1>0. \A e \in Envelopes : KeyOf(e) \in Keys /\ KeyOf(e)' = KeyOf(e) /\ Deadline[e[2]] \in Nat
  BY DeadlineAssumption, AnswersTyped DEF KeyOf
<1>1. ASSUME NEW e \in Envelopes, NoTask(e) PROVE NoTask(e)'
  <2> SUFFICES ASSUME NEW t \in tasks' PROVE KeyOf(t.env) # KeyOf(e)
    BY <1>0 DEF NoTask, KeyOf
  <2>1. PICK u \in tasks : u.env = t.env
    OBVIOUS
  <2> QED BY <1>1, <2>1 DEF NoTask
<1>2. ASSUME NEW e \in Envelopes, Says(journal, e, "result")' PROVE Says(disk, e, "result")'
  BY <1>0, <1>2 DEF Says, JournalResults, Receipt
<1>3. ASSUME NEW e \in Envelopes, Says(disk, e, "result")' PROVE ran'[e] > 0 /\ NoTask(e)'
  <2>1. Says(disk, e, "result")
    BY <1>3 DEF SaysFaithful
  <2> QED BY <1>1, <2>1 DEF ResultsAreFinal
<1>4. ASSUME NEW e \in Envelopes, Reported(e, "result")'
      PROVE  /\ ran'[e] > 0 /\ NoTask(e)'
             /\ FinalIn(disk, e)' /\ FinalIn(journal, e)'
             /\ ~Remembered(e, "indeterminate")'
  <2>1. CASE Reported(e, "result")
    <3>1. ran[e] > 0 /\ NoTask(e) /\ FinalIn(disk, e) /\ FinalIn(journal, e) /\ ~Remembered(e, "indeterminate")
      BY <2>1 DEF ResultsAreFinal
    <3>2. KeepsReceipt(e)
      BY <3>1 DEF Claimed
    <3>3. FinalIn(disk, e)' /\ FinalIn(journal, e)'
      BY <3>1, <3>2 DEF KeepsReceipt
    <3>4. ~Remembered(e, "indeterminate")'
      BY <2>1, <3>1
    <3> QED BY <1>1, <3>1, <3>3, <3>4
  <2>2. CASE Says(journal, e, "result")' /\ ~Remembered(e, "indeterminate")'
    BY <1>2, <1>3, <2>2 DEF FinalIn
  <2> QED BY <1>4, <2>1, <2>2
<1>5. ASSUME NEW e \in Envelopes, "result" \in told'[e] PROVE ~Pending(e, "indeterminate")'
  <2> SUFFICES ASSUME Pending(e, "indeterminate")' PROVE FALSE
    OBVIOUS
  <2>1. "result" \in told[e] /\ (Pending(e, "indeterminate") \/ ~Reported(e, "result"))
    BY <1>5
  <2> QED BY <2>1 DEF ResultsAreFinal, Reported
<1>6. ResultsAreFinal'
  BY <1>3, <1>4, <1>5 DEF ResultsAreFinal
<1>7. ASSUME NEW e \in Envelopes, Undispatched(e)'
      PROVE  /\ \A f \in Envelopes : KeyOf(f) = KeyOf(e) => ran'[f] = 0
             /\ NoTask(e)'
             /\ now' < Deadline[e[2]] => Durable(e)'
  <2>1. Undispatched(e)
    BY <1>7 DEF Undispatched, SaysFaithful
  <2>2. /\ \A f \in Envelopes : KeyOf(f) = KeyOf(e) => ran[f] = 0
        /\ NoTask(e)
        /\ now < Deadline[e[2]] => Durable(e)
    BY <2>1 DEF UndispatchedIsFinal
  <2>3. now' < Deadline[e[2]] => now < Deadline[e[2]]
    BY <1>0
  <2> QED BY <1>1, <2>2, <2>3
<1>8. UndispatchedIsFinal'
  BY <1>0, <1>7 DEF UndispatchedIsFinal
<1> QED BY <1>6, <1>8

\* The waiters after a step that leaves dispatchers and configuration alone.
LEMMA WaitersQuiet ==
  ASSUME TypeOK, WaitersHaveTasks, UNCHANGED <<tasks, generation, active, inflight>>,
         \A e \in Envelopes : "ack" \in told[e] => "ack" \in told'[e],
         session' # "ready" => worker' = NoWork,
         \/ UNCHANGED worker
         \/ worker'.state # "waiting"
         \/ \E e \in Envelopes : /\ worker'.env = e /\ active = e[1] /\ "ack" \in told'[e]
                                 /\ worker'.result = Nil => Own(e)
  PROVE  WaitersHaveTasks'
<1>1. \A e : Own(e)' <=> Own(e)
  BY DEF Own
<1>2. worker.state = "waiting" => worker.env \in Envelopes
  BY DEF TypeOK, WorkerType, NoWork
<1>3. CASE worker' = worker
  BY <1>1, <1>2, <1>3 DEF WaitersHaveTasks
<1>4. CASE worker'.state # "waiting"
  BY <1>1, <1>4 DEF WaitersHaveTasks
<1>5. ASSUME NEW e \in Envelopes, worker'.env = e, active = e[1], "ack" \in told'[e],
             worker'.result = Nil => Own(e)
      PROVE  WaitersHaveTasks'
  BY <1>1, <1>5 DEF WaitersHaveTasks
<1> QED BY <1>3, <1>4, <1>5

\* An emptied cache has no waiters.
LEMMA WaitersReset ==
  ASSUME TypeOK, worker' = NoWork, inflight' = [c \in Commands |-> Nil]
  PROVE  WaitersHaveTasks'
<1>1. \A e \in Envelopes : e[2] \in Commands /\ e[3] # Nil
  BY NilAssumption, AnswersTyped
<1> QED BY <1>1 DEF WaitersHaveTasks, NoWork

\* Inserting a result stores it, or evicts it at once.
LEMMA InsertStores ==
  ASSUME TypeOK, NEW c \in Commands, NEW fp \in Fingerprints, NEW result \in Results,
         Insert(c, fp, result)
  PROVE  /\ cached'[c] \in {NoEntry, [fp |-> fp, result |-> result]}
         /\ \A d \in Commands \ {c} : cached'[d] \in {NoEntry, cached[d]}
<1> DEFINE grown == IF cached[c] = NoEntry THEN Append(order, c) ELSE order
           entries == [cached EXCEPT ![c] = [fp |-> fp, result |-> result]]
<1>1. entries \in [Commands -> EntryType] /\ entries[c] = [fp |-> fp, result |-> result]
      /\ \A d \in Commands : d # c => entries[d] = cached[d]
  BY DEF TypeOK, EntryType
<1>2. cached' = IF Len(grown) > Capacity THEN [entries EXCEPT ![Head(grown)] = NoEntry] ELSE entries
  BY DEF Insert
<1> HIDE DEF grown, entries
<1> QED BY <1>1, <1>2

\* What is remembered after a result was inserted.
LEMMA InsertReports ==
  ASSUME TypeOK, NEW e \in Envelopes, NEW result \in Results, Insert(e[2], e[3], result),
         active = e[1], UNCHANGED active
  PROVE  \A f \in Envelopes, v \in Results :
           Remembered(f, v)' => IF f = e THEN v = result ELSE Remembered(f, v)
<1>0. Nil \notin Fingerprints /\ \A f \in Envelopes : f[2] \in Commands /\ f[3] \in Fingerprints
  BY NilAssumption, AnswersTyped
<1> SUFFICES ASSUME NEW f \in Envelopes, NEW v \in Results, Remembered(f, v)'
             PROVE  IF f = e THEN v = result ELSE Remembered(f, v)
  OBVIOUS
<1>1. active = f[1] /\ cached'[f[2]] = [fp |-> f[3], result |-> v]
  BY DEF Remembered
<1>2. cached'[f[2]] # NoEntry
  BY <1>0, <1>1 DEF NoEntry
<1>3. CASE f[2] = e[2]
  <2>1. [fp |-> f[3], result |-> v] = [fp |-> e[3], result |-> result]
    BY <1>0, <1>1, <1>2, <1>3, InsertStores
  <2>2. f[3] = e[3] /\ v = result
    BY <2>1
  <2>3. f = e
    BY <1>1, <1>3, <2>2, SameEnvelope
  <2> QED BY <2>2, <2>3
<1>4. CASE f[2] # e[2]
  <2>1. cached'[f[2]] = cached[f[2]]
    BY <1>0, <1>2, <1>4, InsertStores
  <2> QED BY <1>1, <1>4, <2>1 DEF Remembered
<1> QED BY <1>3, <1>4

\* What is told and pending after an admission was answered.
LEMMA AnswerReports ==
  ASSUME TypeOK, NEW e \in Envelopes, NEW live \in BOOLEAN
  PROVE  /\ \A verdicts \in SUBSET {"expired"} : Reject(e, live, verdicts) =>
              /\ worker' \in {worker, NoWork} /\ (~live => worker' = worker)
              /\ \A f \in Envelopes : /\ \A v \in Results \cup {"ack"} : v \in told'[f] <=> v \in told[f]
                                      /\ \A v \in Results : Pending(f, v)' => Pending(f, v)
         /\ \A result \in Results \cup {Nil} : Accept(e, live, result) =>
              /\ IF live THEN /\ worker'.state = "waiting" /\ worker'.env = e /\ worker'.result = result
                              /\ "ack" \in told'[e]
                         ELSE UNCHANGED worker
              /\ \A f \in Envelopes :
                   /\ \A v \in Results : v \in told'[f] <=> v \in told[f]
                   /\ "ack" \in told[f] => "ack" \in told'[f]
                   /\ "ack" \in told'[f] => "ack" \in told[f] \/ f = e
                   /\ \A v \in Results : Pending(f, v)' => Pending(f, v) \/ (f = e /\ v = result)
<1>1. ASSUME NEW verdicts \in SUBSET {"expired"}, Reject(e, live, verdicts)
      PROVE  /\ worker' \in {worker, NoWork} /\ (~live => worker' = worker)
             /\ \A f \in Envelopes : /\ \A v \in Results \cup {"ack"} : v \in told'[f] <=> v \in told[f]
                                     /\ \A v \in Results : Pending(f, v)' => Pending(f, v)
  <2>1. worker' \in {worker, NoWork} /\ (~live => worker' = worker)
    BY <1>1 DEF Reject
  <2>2. \A f \in Envelopes, v \in Results \cup {"ack"} : v \in told'[f] <=> v \in told[f]
    BY <1>1 DEF Reject, TypeOK, Results
  <2>3. \A f \in Envelopes, v \in Results : Pending(f, v)' => Pending(f, v)
    BY <2>1 DEF Pending, NoWork
  <2> QED BY <2>1, <2>2, <2>3
<1>2. ASSUME NEW result \in Results \cup {Nil}, Accept(e, live, result)
      PROVE  /\ IF live THEN /\ worker'.state = "waiting" /\ worker'.env = e /\ worker'.result = result
                             /\ "ack" \in told'[e]
                        ELSE UNCHANGED worker
             /\ \A f \in Envelopes :
                  /\ \A v \in Results : v \in told'[f] <=> v \in told[f]
                  /\ "ack" \in told[f] => "ack" \in told'[f]
                  /\ "ack" \in told'[f] => "ack" \in told[f] \/ f = e
                  /\ \A v \in Results : Pending(f, v)' => Pending(f, v) \/ (f = e /\ v = result)
  <2>1. IF live THEN /\ worker'.state = "waiting" /\ worker'.env = e /\ worker'.result = result
                     /\ "ack" \in told'[e]
                ELSE UNCHANGED worker
    BY <1>2 DEF Accept, TypeOK
  <2>2. \A f \in Envelopes : /\ \A v \in Results : v \in told'[f] <=> v \in told[f]
                             /\ "ack" \in told[f] => "ack" \in told'[f]
                             /\ "ack" \in told'[f] => "ack" \in told[f] \/ f = e
    BY <1>2 DEF Accept, TypeOK, Results
  <2>3. \A f \in Envelopes, v \in Results : Pending(f, v)' => Pending(f, v) \/ (f = e /\ v = result)
    BY <2>1 DEF Pending
  <2> QED BY <2>1, <2>2, <2>3
<1> QED BY <1>1, <1>2

\* Verdicts after an admission that is rejected.
LEMMA RejectKeeps ==
  ASSUME TypeOK, DispatchInv, VerdictInv, JournalResults', NEW e \in Envelopes, NEW live \in BOOLEAN,
         live => worker.state = "admitting",
         \E verdicts \in SUBSET {"expired"} : Reject(e, live, verdicts),
         StoreKeeps, UNCHANGED <<now, generation, active, cached, inflight, tasks, session, ran>>,
         \A f \in Envelopes : SaysFaithful(f) /\ (Claimed(f) => KeepsReceipt(f))
  PROVE  VerdictInv'
<1>1. /\ worker' \in {worker, NoWork} /\ (~live => worker' = worker)
      /\ \A f \in Envelopes : /\ \A v \in Results \cup {"ack"} : v \in told'[f] <=> v \in told[f]
                              /\ \A v \in Results : Pending(f, v)' => Pending(f, v)
  BY AnswerReports
<1>2. "result" \in Results /\ "undispatched" \in Results /\ "indeterminate" \in Results
  BY DEF Results
<1>3. \A f \in Envelopes : Claimed(f)' => Claimed(f)
  BY <1>1 DEF Claimed
<1>4. \A f, v : Remembered(f, v)' <=> Remembered(f, v)
  BY DEF Remembered
<1>5. \A f \in Envelopes, v \in Results : Reported(f, v)' => Reported(f, v)
  BY <1>1, <1>4 DEF Reported
<1>6. OneClaim'
  BY <1>3, OneClaimKept DEF VerdictInv
<1>7. WaitersHaveTasks'
  <2>1. session' # "ready" => worker' = NoWork
    BY <1>1 DEF VerdictInv, WaitersHaveTasks
  <2>2. worker' = worker \/ worker'.state # "waiting"
    BY <1>1 DEF NoWork
  <2> QED BY <1>1, <2>1, <2>2, WaitersQuiet DEF VerdictInv
<1>8. TasksRan'
  BY DEF VerdictInv, TasksRan
<1>9. ResultsAreFinal' /\ UndispatchedIsFinal'
  <2>1. now \in Nat /\ now' \in Nat /\ now' >= now
    BY DEF TypeOK
  <2>2. \A f \in Envelopes : now < Deadline[f[2]] /\ Durable(f) => Durable(f)'
    BY DEF StoreKeeps
  <2>3. \A f \in Envelopes :
          /\ Reported(f, "result")' => Reported(f, "result")
          /\ Reported(f, "undispatched")' => Reported(f, "undispatched")
          /\ Remembered(f, "indeterminate")' => Remembered(f, "indeterminate")
          /\ "result" \in told'[f] /\ Pending(f, "indeterminate")' =>
               "result" \in told[f] /\ Pending(f, "indeterminate")
    BY <1>1, <1>2, <1>4, <1>5
  <2> QED BY <2>1, <2>2, <2>3, VerdictsKept DEF VerdictInv
<1> QED BY <1>6, <1>7, <1>8, <1>9 DEF VerdictInv

\* Verdicts after an admission that is accepted: with what the cache or the journal says, or
\* with nothing but the prospect of a dispatcher's.
LEMMA AcceptKeeps ==
  ASSUME TypeOK, DispatchInv, VerdictInv, JournalResults', NEW e \in Envelopes, NEW live \in BOOLEAN,
         live => worker.state = "admitting",
         NEW result \in Results \cup {Nil}, Accept(e, live, result), active = e[1],
         StoreKeeps, UNCHANGED <<now, generation, active, inflight, tasks, session, ran>>,
         \A f \in Envelopes : SaysFaithful(f) /\ KeepsReceipt(f),
         Claimed(e) \/ (disk[KeyOf(e)].state # "none" /\ disk[KeyOf(e)].fp = e[3]),
         \/ /\ UNCHANGED cached
            /\ IF result = Nil THEN Own(e) ELSE Remembered(e, result)
         \/ /\ result \in Results /\ Insert(e[2], e[3], result)
            /\ IF result = "indeterminate" THEN ~Reported(e, "result") ELSE Says(journal, e, result)'
  PROVE  VerdictInv'
<1>1. /\ IF live THEN /\ worker'.state = "waiting" /\ worker'.env = e /\ worker'.result = result
                      /\ "ack" \in told'[e]
                 ELSE UNCHANGED worker
      /\ \A f \in Envelopes :
           /\ \A v \in Results : v \in told'[f] <=> v \in told[f]
           /\ "ack" \in told[f] => "ack" \in told'[f]
           /\ "ack" \in told'[f] => "ack" \in told[f] \/ f = e
           /\ \A v \in Results : Pending(f, v)' => Pending(f, v) \/ (f = e /\ v = result)
  BY AnswerReports
<1>2. /\ "result" \in Results /\ "undispatched" \in Results /\ "indeterminate" \in Results /\ Nil \notin Results
      /\ "result" # "indeterminate" /\ "undispatched" # "indeterminate"
  BY Verdictless DEF Results
<1>3. \A f \in Envelopes, v \in Results :
        Remembered(f, v)' => Remembered(f, v) \/ (f = e /\ v = result)
  <2>1. CASE UNCHANGED cached
    BY <2>1 DEF Remembered
  <2>2. CASE result \in Results /\ Insert(e[2], e[3], result)
    BY <2>2, InsertReports
  <2> QED BY <2>1, <2>2
<1>i. Nil \notin Fingerprints /\ \A f \in Envelopes : f[2] \in Commands /\ f[3] \in Fingerprints
  BY NilAssumption, AnswersTyped
<1>4. ASSUME NEW f \in Envelopes, Claimed(f)'
      PROVE  Claimed(f) \/ (disk[KeyOf(f)].state # "none" /\ disk[KeyOf(f)].fp = f[3])
  <2>1. CASE f = e
    BY <2>1
  <2>2. CASE f # e
    <3>1. active = f[1] /\ cached'[f[2]].fp = f[3] => cached[f[2]].fp = f[3]
      <4> SUFFICES ASSUME active = f[1], cached'[f[2]].fp = f[3], cached' # cached
                   PROVE  cached[f[2]].fp = f[3]
        OBVIOUS
      <4>1. ~(f[2] = e[2] /\ f[3] = e[3])
        BY <2>2, SameEnvelope
      <4>2. /\ cached'[e[2]] \in {NoEntry, [fp |-> e[3], result |-> result]}
            /\ \A d \in Commands \ {e[2]} : cached'[d] \in {NoEntry, cached[d]}
        BY <1>i, InsertStores
      <4> QED BY <1>i, <4>1, <4>2 DEF NoEntry
    <3> QED BY <1>1, <1>4, <2>2, <3>1 DEF Claimed
  <2> QED BY <2>1, <2>2
<1>5. OneClaim'
  BY <1>4, OneClaimKept DEF VerdictInv
<1>6. WaitersHaveTasks'
  <2>1. session' # "ready" => worker' = NoWork
    <3>1. live => session = "ready"
      BY DEF VerdictInv, WaitersHaveTasks, NoWork
    <3> QED BY <1>1, <3>1 DEF VerdictInv, WaitersHaveTasks
  <2>2. CASE live
    BY <1>1, <1>2, <2>1, <2>2, WaitersQuiet DEF VerdictInv
  <2>3. CASE ~live
    BY <1>1, <2>1, <2>3, WaitersQuiet DEF VerdictInv
  <2> QED BY <2>2, <2>3
<1>7. TasksRan'
  BY DEF VerdictInv, TasksRan
<1>8. ResultsAreFinal' /\ UndispatchedIsFinal'
  <2>1. now \in Nat /\ now' \in Nat /\ now' >= now
    BY DEF TypeOK
  <2>2. \A f \in Envelopes : now < Deadline[f[2]] /\ Durable(f) => Durable(f)'
    BY DEF StoreKeeps
  <2>3. \A f \in Envelopes, v \in Results : f # e \/ v # result => (Reported(f, v)' => Reported(f, v))
    BY <1>1, <1>3 DEF Reported
  <2>4. ASSUME UNCHANGED cached, IF result = Nil THEN Own(e) ELSE Remembered(e, result)
        PROVE  /\ \A f \in Envelopes, v \in Results : Reported(f, v)' => Reported(f, v)
               /\ \A f \in Envelopes, v \in Results : Remembered(f, v)' => Remembered(f, v)
               /\ \A f \in Envelopes : "result" \in told'[f] /\ Pending(f, "indeterminate")' =>
                    "result" \in told[f] /\ (Pending(f, "indeterminate") \/ ~Reported(f, "result"))
    <3>1. \A f \in Envelopes, v \in Results : Reported(f, v)' => Reported(f, v)
      BY <1>2, <2>3, <2>4 DEF Reported
    <3>2. \A f \in Envelopes, v \in Results : Remembered(f, v)' => Remembered(f, v)
      BY <2>4 DEF Remembered
    <3>3. ASSUME NEW f \in Envelopes, "result" \in told'[f], Pending(f, "indeterminate")'
          PROVE  "result" \in told[f] /\ (Pending(f, "indeterminate") \/ ~Reported(f, "result"))
      <4>1. "result" \in told[f]
        BY <1>1, <1>2, <3>3
      <4>2. CASE Pending(f, "indeterminate")
        BY <4>1, <4>2
      <4>3. CASE f = e /\ result = "indeterminate"
        <5>1. Remembered(f, "indeterminate")
          BY <1>2, <2>4, <4>3
        <5> QED BY <4>1, <5>1 DEF VerdictInv, ResultsAreFinal
      <4> QED BY <1>1, <1>2, <3>3, <4>2, <4>3
    <3> QED BY <3>1, <3>2, <3>3
  <2>5. CASE UNCHANGED cached /\ IF result = Nil THEN Own(e) ELSE Remembered(e, result)
    BY <1>2, <2>1, <2>2, <2>4, <2>5, VerdictsKept DEF VerdictInv
  <2>6. CASE /\ result \in Results /\ Insert(e[2], e[3], result)
             /\ IF result = "indeterminate" THEN ~Reported(e, "result") ELSE Says(journal, e, result)'
    <3>0. \A f \in Envelopes, v \in Results :
            Remembered(f, v)' => IF f = e THEN v = result ELSE Remembered(f, v)
      BY <2>6, InsertReports
    <3>1. ASSUME NEW f \in Envelopes, Reported(f, "result")'
          PROVE  Reported(f, "result") \/ (Says(journal, f, "result")' /\ ~Remembered(f, "indeterminate")')
      BY <1>2, <2>3, <2>6, <3>0, <3>1
    <3>2. ASSUME NEW f \in Envelopes, Reported(f, "undispatched")'
          PROVE  Reported(f, "undispatched") \/ Says(journal, f, "undispatched")'
      BY <1>2, <2>3, <2>6, <3>2
    <3>3. ASSUME NEW f \in Envelopes, Remembered(f, "indeterminate")'
          PROVE  Remembered(f, "indeterminate") \/ ~Reported(f, "result")
      BY <1>2, <2>6, <3>0, <3>3
    <3>4. ASSUME NEW f \in Envelopes, "result" \in told'[f], Pending(f, "indeterminate")'
          PROVE  "result" \in told[f] /\ (Pending(f, "indeterminate") \/ ~Reported(f, "result"))
      BY <1>1, <1>2, <2>6, <3>4
    <3> QED BY <2>1, <2>2, <3>1, <3>2, <3>3, <3>4, VerdictsKept DEF VerdictInv
  <2> QED BY <2>5, <2>6
<1> QED BY <1>5, <1>6, <1>7, <1>8 DEF VerdictInv

\* Every admission keeps the verdicts.
LEMMA AdmitVerdicts ==
  ASSUME TypeOK, DispatchInv, VerdictInv, NEW e \in Envelopes, NEW live \in BOOLEAN, Admit(e, live)
  PROVE  VerdictInv'
<1> DEFINE k == KeyOf(e)
<1>0. /\ k \in Keys /\ e[1] \in Scopes /\ e[2] \in Commands /\ e[3] \in Fingerprints
      /\ JournalIsOnDisk /\ JournalIsOpen /\ JournalResults /\ now \in Nat /\ up \in BOOLEAN
  BY AnswersTyped DEF DispatchInv, TypeOK, VerdictInv
<1>1. Admitting(e, live)
  BY DEF Admit, AdmitStale, AdmitCached, AdmitInflight, AdmitUnavailable, AdmitKnown, AdmitExpired,
     AdmitOverload, AdmitNew, Consulting
<1>2. live => worker.state = "admitting"
  BY <1>1 DEF Admitting
<1>3. up
  BY <1>1 DEF Admitting
<1>4. {} \in SUBSET {"expired"} /\ {"expired"} \in SUBSET {"expired"}
  OBVIOUS
<1>5. /\ "result" \in Results /\ "undispatched" \in Results /\ "indeterminate" \in Results /\ Nil \notin Results
      /\ NoReceipt.state = "none" /\ NoReceipt.result = Nil
  BY Verdictless DEF Results, NoReceipt
\* A store that was only retried or pruned.
<1>6. ASSUME NEW r \in Retries, NEW ok \in BOOLEAN, NEW entries \in {r.journal, Pruned(r.journal, now)},
             StoreBecomes(r, entries, r.disk, ok)
      PROVE  /\ StoreKeeps /\ JournalResults'
             /\ \A f \in Envelopes : SaysFaithful(f) /\ KeepsReceipt(f)
  <2>1. StoreKeeps
    BY <1>0, <1>6, StoreBecomesKeeps
  <2>2. \A j \in Keys : Tame(j, NoReceipt)
    BY <1>0, <1>6, StoreTame
  <2>3. JournalResults'
    BY <2>2 DEF Tame, JournalResults
  <2>4. ASSUME NEW f \in Envelopes PROVE SaysFaithful(f) /\ KeepsReceipt(f)
    <3>1. Tame(KeyOf(f), NoReceipt) /\ NoReceipt.result \notin {"result", "undispatched"}
      BY <1>5, <2>2, AnswersTyped
    <3> QED BY <1>0, <1>5, <3>1, TameFaithful
  <2> QED BY <2>1, <2>3, <2>4
\* A store that is left alone.
<1>7. ASSUME UNCHANGED <<disk, opened, journal>>
      PROVE  /\ StoreKeeps /\ JournalResults'
             /\ \A f \in Envelopes : SaysFaithful(f) /\ KeepsReceipt(f)
  BY <1>0, <1>7, UnchangedStoreKeeps, UnchangedFaithful DEF JournalResults
<1>8. CASE AdmitStale(e, live)
  BY <1>2, <1>4, <1>7, <1>8, RejectKeeps DEF AdmitStale, store, cache
<1>9. CASE AdmitCached(e, live)
  <2>1. CASE cached[e[2]].fp = e[3]
    <3>1. /\ cached[e[2]].result \in Results
          /\ cached[e[2]] = [fp |-> e[3], result |-> cached[e[2]].result]
      BY <1>0, <1>9, <2>1 DEF AdmitCached, TypeOK, EntryType
    <3>2. Remembered(e, cached[e[2]].result) /\ Claimed(e)
      BY <1>9, <2>1, <3>1 DEF AdmitCached, Remembered, Claimed
    <3>3. Accept(e, live, cached[e[2]].result) /\ active = e[1]
      BY <1>9, <2>1 DEF AdmitCached
    <3>4. UNCHANGED <<disk, opened, journal, now, generation, active, cached, inflight, tasks, session, ran>>
      BY <1>9 DEF AdmitCached, store, cache
    <3> QED BY <1>2, <1>5, <1>7, <3>1, <3>2, <3>3, <3>4, AcceptKeeps
  <2>2. CASE cached[e[2]].fp # e[3]
    BY <1>2, <1>4, <1>7, <1>9, <2>2, RejectKeeps DEF AdmitCached, store, cache
  <2> QED BY <2>1, <2>2
<1>10. CASE AdmitInflight(e, live)
  <2>1. CASE inflight[e[2]] = e[3]
    <3>1. Own(e) /\ Claimed(e)
      BY <1>10, <2>1 DEF AdmitInflight, VerdictInv, WaitersHaveTasks, Claimed
    <3>2. Accept(e, live, Nil) /\ active = e[1]
      BY <1>10, <2>1 DEF AdmitInflight
    <3>3. UNCHANGED <<disk, opened, journal, now, generation, active, cached, inflight, tasks, session, ran>>
      BY <1>10 DEF AdmitInflight, store, cache
    <3> QED BY <1>2, <1>7, <3>1, <3>2, <3>3, AcceptKeeps
  <2>2. CASE inflight[e[2]] # e[3]
    BY <1>2, <1>4, <1>7, <1>10, <2>2, RejectKeeps DEF AdmitInflight, store, cache
  <2> QED BY <2>1, <2>2
<1>11. CASE AdmitUnavailable(e, live)
  <2>1. PICK r \in Retries : StoreBecomes(r, r.journal, r.disk, FALSE)
    BY <1>11 DEF AdmitUnavailable
  <2>2. StoreKeeps /\ JournalResults' /\ \A f \in Envelopes : SaysFaithful(f) /\ KeepsReceipt(f)
    BY <1>6, <2>1
  <2> QED BY <1>2, <1>4, <1>11, <2>2, RejectKeeps DEF AdmitUnavailable, cache
<1>12. CASE AdmitExpired(e, live)
  <2>1. PICK r \in Retries : StoreBecomes(r, r.journal, r.disk, TRUE)
    BY <1>12 DEF AdmitExpired
  <2>2. StoreKeeps /\ JournalResults' /\ \A f \in Envelopes : SaysFaithful(f) /\ KeepsReceipt(f)
    BY <1>6, <2>1
  <2> QED BY <1>2, <1>4, <1>12, <2>2, RejectKeeps DEF AdmitExpired, cache
<1>13. CASE AdmitOverload(e, live)
  <2>1. PICK r \in Retries : \/ StoreBecomes(r, r.journal, r.disk, TRUE)
                             \/ StoreBecomes(r, Pruned(r.journal, now), r.disk, TRUE)
    BY <1>13 DEF AdmitOverload
  <2>2. StoreKeeps /\ JournalResults' /\ \A f \in Envelopes : SaysFaithful(f) /\ KeepsReceipt(f)
    BY <1>6, <2>1
  <2> QED BY <1>2, <1>4, <1>13, <2>2, RejectKeeps DEF AdmitOverload, cache
<1>14. CASE AdmitKnown(e, live)
  <2> DEFINE receipt == Receipt("completed", e[3], "indeterminate")
             Settled(r) == [r.journal EXCEPT ![k] = receipt]
             Conflict(r) == /\ StoreBecomes(r, r.journal, r.disk, TRUE)
                            /\ Reject(e, live, {})
                            /\ UNCHANGED <<order, cached>>
             Replay(r) == /\ r.journal[k].fp = e[3] /\ r.journal[k].state = "completed"
                          /\ StoreBecomes(r, r.journal, r.disk, TRUE)
                          /\ Insert(e[2], e[3], r.journal[k].result)
                          /\ Accept(e, live, r.journal[k].result)
             Settle(r, w) == /\ w.ok
                             /\ StoreBecomes(r, Settled(r), w.disk, TRUE)
                             /\ Insert(e[2], e[3], "indeterminate")
                             /\ Accept(e, live, "indeterminate")
             Fail(r, w) == /\ ~w.ok
                           /\ StoreBecomes(r, r.journal, w.disk, FALSE)
                           /\ Reject(e, live, {})
                           /\ UNCHANGED <<order, cached>>
  <2>1. PICK r \in Retries :
          /\ r.ok /\ r.journal[k].state # "none"
          /\ \/ Conflict(r)
             \/ Replay(r)
             \/ /\ r.journal[k].fp = e[3] /\ r.journal[k].state = "accepted"
                /\ \E w \in Writes(r.disk, Settled(r)) : Settle(r, w) \/ Fail(r, w)
    BY <1>14 DEF AdmitKnown
  <2>2. active = e[1] /\ UNCHANGED <<now, up, generation, active, inflight, tasks, session, ran>>
    BY <1>14 DEF AdmitKnown, Consulting
  <2>3. /\ StoreType(r) /\ r.opened /\ r.journal \in EntriesType /\ r.journal[k] \in ReceiptType
        /\ receipt \in ReceiptType
    <3>1. StoreType(r) /\ r.opened
      BY <1>0, <1>3, <2>1, RetryKeeps
    <3>2. r.journal \in EntriesType
      BY <3>1 DEF StoreType
    <3> QED BY <1>0, <3>1, <3>2, EntriesTyped DEF Receipt, ReceiptType, Results
  <2>4. Old(k, r.journal[k])
    BY <1>0, RetryTame
  \* What the journal holds, the file did.
  <2>5. disk[k].state # "none" /\ disk[k].fp = r.journal[k].fp
    BY <1>0, <2>1, <2>4 DEF Old, JournalIsOnDisk, Receipt
  \* If the result was reported, the journal still has it.
  <2>6. Reported(e, "result") => r.journal[k] = Receipt("completed", e[3], "result")
    <3> SUFFICES ASSUME Reported(e, "result") PROVE r.journal[k] = Receipt("completed", e[3], "result")
      OBVIOUS
    <3>1. FinalIn(disk, e) /\ FinalIn(journal, e)
      BY DEF VerdictInv, ResultsAreFinal
    <3>2. disk[k].state # "accepted"
      BY <3>1 DEF FinalIn, Says, Receipt
    <3> QED BY <2>1, <2>4, <3>1, <3>2 DEF Old, FinalIn, Says
  <2>7. /\ Receipt("completed", e[3], "result").state = "completed"
        /\ Receipt("completed", e[3], "result").result = "result"
        /\ receipt.state = "completed" /\ receipt.fp = e[3] /\ receipt.result = "indeterminate"
    BY DEF Receipt
  <2>8. CASE Conflict(r)
    <3>1. StoreKeeps /\ JournalResults' /\ \A f \in Envelopes : SaysFaithful(f) /\ KeepsReceipt(f)
      BY <1>6, <2>8
    <3> QED BY <1>2, <1>4, <2>2, <2>8, <3>1, RejectKeeps
  <2>9. CASE Replay(r)
    <3>1. StoreKeeps /\ JournalResults' /\ \A f \in Envelopes : SaysFaithful(f) /\ KeepsReceipt(f)
      BY <1>6, <2>9
    <3>2. journal' = r.journal
      BY <2>9 DEF StoreBecomes
    <3>3. r.journal[k].result \in Results /\ r.journal[k] = Receipt("completed", e[3], r.journal[k].result)
      BY <2>3, <2>9 DEF ReceiptType, NoReceipt, Receipt
    <3>4. /\ Says(journal, e, r.journal[k].result)'
          /\ r.journal[k].result = "indeterminate" => ~Reported(e, "result")
      BY <2>6, <2>7, <3>2, <3>3 DEF Says, KeyOf
    <3>5. disk[k].state # "none" /\ disk[k].fp = e[3]
      BY <2>5, <2>9
    <3> QED BY <1>2, <2>2, <2>9, <3>1, <3>3, <3>4, <3>5, AcceptKeeps
  <2>10. ASSUME NEW w \in Writes(r.disk, Settled(r)),
                r.journal[k].fp = e[3], r.journal[k].state = "accepted", Settle(r, w) \/ Fail(r, w)
         PROVE  VerdictInv'
    <3> HIDE DEF receipt
    <3>1. StoreKeeps
      BY <1>0, <2>3, <2>7, <2>10, WriteKeeps
    <3>2. \A j \in Keys : Tame(j, IF j = k THEN receipt ELSE NoReceipt)
      <4>1. r.journal[k].result # "result" /\ receipt.result # "result"
        BY <1>5, <2>3, <2>7, <2>10, Verdictless
      <4> QED BY <1>0, <2>10, <4>1, WriteTame
    <3>3. JournalResults'
      BY <3>2 DEF Tame, JournalResults
    <3>4. ASSUME NEW f \in Envelopes PROVE SaysFaithful(f) /\ KeepsReceipt(f)
      <4>1. KeyOf(f) \in Keys
        BY AnswersTyped
      <4>2. CASE KeyOf(f) = k
        <5>1. disk[k].state = "accepted" \/ journal[k].state = "accepted"
          BY <2>4, <2>10 DEF Old, Receipt
        <5>2. Tame(KeyOf(f), receipt) /\ receipt.result \notin {"result", "undispatched"}
          BY <2>7, <3>2, <4>1, <4>2
        <5> QED BY <1>0, <2>5, <2>7, <2>10, <4>2, <5>1, <5>2, TameFaithful
      <4>3. CASE KeyOf(f) # k
        <5>1. Tame(KeyOf(f), NoReceipt) /\ NoReceipt.result \notin {"result", "undispatched"}
          BY <1>5, <3>2, <4>1, <4>3
        <5> QED BY <1>0, <1>5, <5>1, TameFaithful
      <4> QED BY <4>2, <4>3
    <3>5. CASE Settle(r, w)
      <4>1. ~Reported(e, "result")
        BY <2>6, <2>7, <2>10
      <4>2. disk[k].state # "none" /\ disk[k].fp = e[3]
        BY <2>5, <2>10
      <4> QED BY <1>2, <1>5, <2>2, <3>1, <3>3, <3>4, <3>5, <4>1, <4>2, AcceptKeeps
    <3>6. CASE Fail(r, w)
      BY <1>2, <1>4, <2>2, <3>1, <3>3, <3>4, <3>6, RejectKeeps
    <3> QED BY <2>10, <3>5, <3>6
  <2> QED BY <2>1, <2>8, <2>9, <2>10
<1>15. CASE AdmitNew(e, live)
  <2> DEFINE pruned(r) == Pruned(r.journal, now)
             receipt == Receipt("accepted", e[3], Nil)
             accepted(r) == [pruned(r) EXCEPT ![k] = receipt]
             task == [env |-> e, generation |-> generation, state |-> "spawned"]
             Spawn(r, w) == /\ w.ok
                            /\ StoreBecomes(r, accepted(r), w.disk, TRUE)
                            /\ inflight' = [inflight EXCEPT ![e[2]] = e[3]]
                            /\ tasks' = tasks \cup {task}
                            /\ Accept(e, live, Nil)
             Fail(r, w) == /\ ~w.ok
                           /\ StoreBecomes(r, pruned(r), w.disk, FALSE)
                           /\ Reject(e, live, {})
                           /\ UNCHANGED <<inflight, tasks>>
  <2>1. PICK r \in Retries :
          /\ r.ok /\ r.journal[k].state = "none"
          /\ \E w \in Writes(r.disk, accepted(r)) : Spawn(r, w) \/ Fail(r, w)
    BY <1>15 DEF AdmitNew
  <2>2. PICK w \in Writes(r.disk, accepted(r)) : Spawn(r, w) \/ Fail(r, w)
    BY <2>1
  <2>3. /\ StoreType(r) /\ r.opened /\ r.journal \in EntriesType /\ r.journal[k] \in ReceiptType
        /\ pruned(r) \in EntriesType /\ receipt \in ReceiptType
    <3>1. StoreType(r) /\ r.opened
      BY <1>0, <1>3, <2>1, RetryKeeps
    <3>2. r.journal \in EntriesType
      BY <3>1 DEF StoreType
    <3> QED BY <1>0, <3>1, <3>2, EntriesTyped DEF Receipt, ReceiptType
  <2>4. /\ active = e[1] /\ now < Deadline[e[2]]
        /\ UNCHANGED <<now, up, generation, active, cached, session, ran>>
    <3>1. Deadline[e[2]] \in Nat /\ Deadline[e[2]] > now
      BY <1>0, <1>15, DeadlineAssumption DEF AdmitNew
    <3> QED BY <1>0, <1>15, <3>1 DEF AdmitNew, Consulting
  <2>5. receipt.state = "accepted" /\ receipt.fp = e[3] /\ receipt.result = Nil
    BY DEF Receipt
  \* The command is new: nobody has claimed it, and nothing was ever said about it.
  <2>6. ASSUME NEW f \in Envelopes, KeyOf(f) = k
        PROVE  ~Claimed(f) /\ ~Undispatched(f) /\ ~Reported(f, "result") /\ ~Says(disk, f, "result")
    <3>1. now < Deadline[f[2]]
      BY <2>4, <2>6 DEF KeyOf
    <3>2. ~Holds(r.journal, f)
      BY <2>1, <2>6 DEF Holds
    <3>3. ~Durable(f)
      BY <1>0, <2>3, <3>2, RetryKeeps
    <3>4. ~Claimed(f)
      BY <3>1, <3>3 DEF DispatchInv, ClaimsAreDurable, Durable
    <3>5. ~Undispatched(f)
      BY <3>1, <3>3 DEF VerdictInv, UndispatchedIsFinal
    <3>6. ~(ran[f] > 0)
      BY <3>4 DEF Claimed
    <3> QED BY <3>4, <3>5, <3>6 DEF VerdictInv, ResultsAreFinal
  <2> HIDE DEF receipt
  <2>7. StoreKeeps
    BY <1>0, <2>1, <2>2, <2>3, <2>5, WriteKeeps
  <2>8. \A j \in Keys : Tame(j, IF j = k THEN receipt ELSE NoReceipt)
    <3>1. r.journal[k].result # "result" /\ receipt.result # "result"
      BY <1>5, <2>1, <2>3, <2>5, Verdictless
    <3> QED BY <1>0, <2>2, <3>1, WriteTame
  <2>9. JournalResults'
    BY <2>8 DEF Tame, JournalResults
  <2>10. ASSUME NEW f \in Envelopes
         PROVE  SaysFaithful(f) /\ (KeyOf(f) # k => KeepsReceipt(f))
    <3>1. KeyOf(f) \in Keys
      BY AnswersTyped
    <3>2. CASE KeyOf(f) = k
      <4>1. Tame(KeyOf(f), receipt) /\ receipt.result \notin {"result", "undispatched"}
        BY <1>5, <2>5, <2>8, <3>1, <3>2
      <4> QED BY <1>0, <3>2, <4>1, TameFaithful
    <3>3. CASE KeyOf(f) # k
      <4>1. Tame(KeyOf(f), NoReceipt) /\ NoReceipt.result \notin {"result", "undispatched"}
        BY <1>5, <2>8, <3>1, <3>3
      <4> QED BY <1>0, <1>5, <4>1, TameFaithful
    <3> QED BY <3>2, <3>3
  <2>11. CASE Fail(r, w)
    BY <1>2, <1>4, <2>4, <2>6, <2>7, <2>9, <2>10, <2>11, RejectKeeps
  <2>12. CASE Spawn(r, w)
    <3>1. disk'[k] = receipt
      <4>1. disk' = accepted(r)
        BY <2>12, WriteOutcomes DEF StoreBecomes
      <4> QED BY <1>0, <2>3, <4>1 DEF EntriesType
    <3>2. tasks' = tasks \cup {task} /\ task.env = e /\ task.generation = generation /\ task.state = "spawned"
      BY <2>12
    <3> HIDE DEF task
    <3>3. /\ IF live THEN /\ worker'.state = "waiting" /\ worker'.env = e /\ worker'.result = Nil
                          /\ "ack" \in told'[e]
                     ELSE UNCHANGED worker
          /\ \A f \in Envelopes :
               /\ \A v \in Results : v \in told'[f] <=> v \in told[f]
               /\ "ack" \in told[f] => "ack" \in told'[f]
               /\ "ack" \in told'[f] => "ack" \in told[f] \/ f = e
               /\ \A v \in Results : Pending(f, v)' => Pending(f, v) \/ (f = e /\ v = Nil)
      BY <2>12, AnswerReports
    <3>4. \A f \in Envelopes, v \in Results :
            /\ Pending(f, v)' => Pending(f, v)
            /\ Remembered(f, v)' <=> Remembered(f, v)
            /\ Reported(f, v)' => Reported(f, v)
      BY <1>5, <2>4, <3>3 DEF Remembered, Reported
    <3>5. \A f \in Envelopes : Own(f) => Own(f)'
      BY <2>4, <3>2 DEF Own
    <3>6. Own(e)'
      BY <2>4, <3>2 DEF Own
    <3>7. ASSUME NEW f \in Envelopes, active = f[1], inflight'[f[2]] = f[3]
          PROVE  f = e \/ inflight[f[2]] = f[3]
      <4>1. f = e \/ f[2] # e[2] \/ f[3] # e[3]
        BY <2>4, <3>7, SameEnvelope
      <4> QED BY <1>0, <2>12, <3>7, <4>1, AnswersTyped DEF TypeOK
    <3>8. ASSUME NEW f \in Envelopes, Claimed(f)' PROVE Claimed(f) \/ f = e
      BY <2>4, <3>2, <3>3, <3>7, <3>8 DEF Claimed
    <3>9. OneClaim'
      <4>1. ASSUME NEW f \in Envelopes, NEW g \in Envelopes, Claimed(f)', Claimed(g)', KeyOf(f) = KeyOf(g)
            PROVE  f = g
        BY <2>6, <3>8, <4>1 DEF VerdictInv, OneClaim
      <4>2. ASSUME NEW f \in Envelopes, Claimed(f)', disk'[KeyOf(f)].state # "none"
            PROVE  disk'[KeyOf(f)].fp = f[3]
        <5>1. CASE f = e
          BY <2>5, <3>1, <5>1
        <5>2. CASE f # e
          <6>1. Claimed(f) /\ KeyOf(f) # k
            BY <2>6, <3>8, <4>2, <5>2
          <6> QED BY <2>10, <4>2, <6>1 DEF KeepsReceipt, VerdictInv, OneClaim
        <5> QED BY <5>1, <5>2
      <4>3. \A f \in Envelopes : KeyOf(f)' = KeyOf(f)
        BY DEF KeyOf
      <4> QED BY <4>1, <4>2, <4>3 DEF OneClaim
    <3>10. WaitersHaveTasks'
      <4>1. session' # "ready" => worker' = NoWork
        <5>1. live => session = "ready"
          BY <1>2 DEF VerdictInv, WaitersHaveTasks, NoWork
        <5> QED BY <2>4, <3>3, <5>1 DEF VerdictInv, WaitersHaveTasks
      <4>2. \A f \in Envelopes : active' = f[1] /\ inflight'[f[2]] = f[3] => Own(f)'
        BY <2>4, <3>5, <3>6, <3>7 DEF VerdictInv, WaitersHaveTasks
      <4>3. worker'.state = "waiting" =>
              /\ "ack" \in told'[worker'.env] /\ active' = worker'.env[1]
              /\ worker'.result = Nil => \E t \in tasks' : t.env = worker'.env /\ t.generation = generation'
        <5>1. CASE live
          BY <2>4, <3>2, <3>3, <5>1
        <5>2. CASE ~live
          <6>1. worker.state = "waiting" => worker.env \in Envelopes
            BY DEF TypeOK, WorkerType, NoWork
          <6>2. worker' = worker
            BY <3>3, <5>2
          <6>3. worker.state = "waiting" =>
                  /\ "ack" \in told[worker.env] /\ active = worker.env[1]
                  /\ worker.result = Nil => \E t \in tasks : t.env = worker.env /\ t.generation = generation
            BY DEF VerdictInv, WaitersHaveTasks, Own
          <6> QED BY <2>4, <3>2, <3>3, <6>1, <6>2, <6>3
        <5> QED BY <5>1, <5>2
      <4> QED BY <4>1, <4>2, <4>3 DEF WaitersHaveTasks, Own
    <3>11. TasksRan'
      BY <2>4, <3>2 DEF VerdictInv, TasksRan, KeyOf
    <3>12. ASSUME NEW f \in Envelopes, NoTask(f), KeyOf(f) # k PROVE NoTask(f)'
      BY <3>2, <3>12 DEF NoTask, KeyOf
    <3>13. ResultsAreFinal'
      <4>1. ASSUME NEW f \in Envelopes, Reported(f, "result")'
            PROVE  /\ ran'[f] > 0 /\ NoTask(f)'
                   /\ FinalIn(disk, f)' /\ FinalIn(journal, f)'
                   /\ ~Remembered(f, "indeterminate")'
        <5>1. Reported(f, "result") /\ KeyOf(f) # k
          BY <1>5, <2>6, <3>4, <4>1
        <5>2. /\ ran[f] > 0 /\ NoTask(f) /\ FinalIn(disk, f) /\ FinalIn(journal, f)
              /\ ~Remembered(f, "indeterminate")
          BY <5>1 DEF VerdictInv, ResultsAreFinal
        <5>3. FinalIn(disk, f)' /\ FinalIn(journal, f)'
          BY <2>10, <5>1, <5>2 DEF KeepsReceipt
        <5> QED BY <1>5, <2>4, <3>4, <3>12, <5>1, <5>2, <5>3
      <4>2. ASSUME NEW f \in Envelopes, Says(disk, f, "result")' PROVE ran'[f] > 0 /\ NoTask(f)'
        <5>1. Says(disk, f, "result") /\ KeyOf(f) # k
          BY <2>6, <2>10, <4>2 DEF SaysFaithful
        <5> QED BY <2>4, <3>12, <5>1 DEF VerdictInv, ResultsAreFinal
      <4>3. ASSUME NEW f \in Envelopes, "result" \in told'[f] PROVE ~Pending(f, "indeterminate")'
        BY <1>5, <3>3, <3>4, <4>3 DEF VerdictInv, ResultsAreFinal
      <4> QED BY <4>1, <4>2, <4>3 DEF ResultsAreFinal
    <3>14. ASSUME NEW f \in Envelopes, Undispatched(f)'
           PROVE  /\ \A g \in Envelopes : KeyOf(g) = KeyOf(f) => ran'[g] = 0
                  /\ NoTask(f)'
                  /\ now' < Deadline[f[2]] => Durable(f)'
      <4>1. Undispatched(f) /\ KeyOf(f) # k
        BY <1>5, <2>6, <2>10, <3>4, <3>14 DEF Undispatched, SaysFaithful
      <4>2. /\ \A g \in Envelopes : KeyOf(g) = KeyOf(f) => ran[g] = 0
            /\ NoTask(f) /\ (now < Deadline[f[2]] => Durable(f))
        BY <4>1 DEF VerdictInv, UndispatchedIsFinal
      <4> QED BY <2>4, <2>7, <3>12, <4>1, <4>2 DEF StoreKeeps
    <3>15. UndispatchedIsFinal'
      BY <3>14 DEF UndispatchedIsFinal, KeyOf
    <3> QED BY <2>9, <3>9, <3>10, <3>11, <3>13, <3>15 DEF VerdictInv
  <2> QED BY <2>2, <2>11, <2>12
<1> QED BY <1>8, <1>9, <1>10, <1>11, <1>12, <1>13, <1>14, <1>15 DEF Admit

\* Completing a receipt keeps its fingerprint.
LEMMA CompletedReceipt ==
  ASSUME NEW x \in ReceiptType, x.state # "none", NEW v \in Results
  PROVE  /\ Receipt("completed", x.fp, v) \in ReceiptType
         /\ Receipt("completed", x.fp, v) = [x EXCEPT !.state = "completed", !.result = v]
<1> DEFINE y == [x EXCEPT !.state = "completed", !.result = v]
           Finished == [state : {"completed"}, fp : Fingerprints, result : Results]
<1>1. y \in Finished /\ y.fp = x.fp /\ y.state = "completed" /\ y.result = v
  <2>1. CASE x \in [state : {"accepted"}, fp : Fingerprints, result : {Nil}]
    BY <2>1
  <2>2. CASE x \in [state : {"completed"}, fp : Fingerprints, result : Results]
    BY <2>2
  <2> QED BY <2>1, <2>2 DEF ReceiptType, NoReceipt
<1> HIDE DEF y
<1>2. y = [state |-> "completed", fp |-> x.fp, result |-> v]
  BY <1>1
<1> QED BY <1>1, <1>2 DEF Receipt, ReceiptType, y

\* A dispatcher writes the receipt of its own command, and loses no other.
LEMMA FinishWrites ==
  ASSUME TypeOK, DispatchInv, NEW k \in Keys, NEW outcome \in Results,
         journal[k].state # "none", opened, UNCHANGED opened,
         NEW w \in Writes(disk, [journal EXCEPT ![k] = [@ EXCEPT !.state = "completed", !.result = outcome]]),
         journal' = IF w.ok THEN [journal EXCEPT ![k] = [@ EXCEPT !.state = "completed", !.result = outcome]]
                    ELSE journal,
         disk' = w.disk
  PROVE  LET receipt == Receipt("completed", journal[k].fp, outcome)
         IN  /\ StoreKeeps
             /\ disk' \in {disk, [journal EXCEPT ![k] = receipt]}
             /\ IF w.ok THEN disk' = [journal EXCEPT ![k] = receipt] /\ journal' = disk'
                ELSE journal' = journal
<1> DEFINE receipt == Receipt("completed", journal[k].fp, outcome)
           done == [journal EXCEPT ![k] = receipt]
<1>1. receipt \in ReceiptType /\ receipt = [journal[k] EXCEPT !.state = "completed", !.result = outcome]
  BY CompletedReceipt DEF TypeOK
<1>2. [journal EXCEPT ![k] = [@ EXCEPT !.state = "completed", !.result = outcome]] = done
  BY <1>1
<1>3. receipt.state = "completed" /\ receipt.fp = journal[k].fp
  BY DEF Receipt
<1>4. Within(journal, disk) /\ journal \in EntriesType
  BY DEF DispatchInv, JournalIsOnDisk, Within, TypeOK, EntriesType
<1>5. \A e \in Envelopes : Durable(e) => Holds(journal, e) /\ Holds(disk, e)
  BY DEF Durable
<1>6. opened' = TRUE
  BY DEF TypeOK
<1> HIDE DEF receipt
<1>7. w \in Writes(disk, done) /\ w.ok \in BOOLEAN /\ w.disk \in {disk, done} /\ (w.ok => w.disk = done)
  <2>1. w \in Writes(disk, done)
    BY <1>2
  <2> QED BY <2>1, WriteOutcomes
<1>8. journal' = IF w.ok THEN done ELSE journal
  BY <1>2
<1>9. journal' = journal \/ (w.ok /\ journal' = done)
  BY <1>7, <1>8
<1>10. StoreKeeps
  BY <1>1, <1>3, <1>4, <1>5, <1>6, <1>7, <1>9, WrittenKeeps
<1> QED BY <1>7, <1>8, <1>10 DEF receipt

\* The check of the configuration, and the dispatch, of a command that nothing is known of yet.
LEMMA CheckKeeps ==
  ASSUME TypeOK, DispatchInv, VerdictInv, NEW t \in tasks, TaskCheck(t)
  PROVE  VerdictInv'
<1> DEFINE next == [t EXCEPT !.state = IF t.generation = generation THEN "admitted" ELSE "refused"]
<1>1. /\ tasks' = (tasks \ {t}) \cup {next}
      /\ t.state = "spawned" /\ next.env = t.env /\ next.generation = t.generation
      /\ next.state \in {"admitted", "refused"} /\ t.env \in Envelopes
  BY DEF TaskCheck, Step, TypeOK, TaskType
<1>2. UNCHANGED <<now, generation, active, cached, inflight, disk, opened, journal, session, worker, ran, told>>
  BY DEF TaskCheck, store, cache, link, history
<1> HIDE DEF next
<1>3. \A e : Own(e)' <=> Own(e)
  BY <1>1, <1>2 DEF Own
<1>4. WaitersHaveTasks'
  BY <1>2, <1>3 DEF VerdictInv, WaitersHaveTasks
<1>5. TasksRan'
  <2>1. \A f \in Envelopes : KeyOf(f) = KeyOf(t.env) => ran[f] = 0
    BY <1>1 DEF DispatchInv, OneTaskPerCommand
  <2> QED BY <1>1, <1>2, <2>1 DEF VerdictInv, TasksRan, KeyOf
<1>6. \A e \in Envelopes : Claimed(e)' => Claimed(e)
  BY <1>1, <1>2 DEF Claimed
<1>7. \A e \in Envelopes : SaysFaithful(e) /\ KeepsReceipt(e)
  BY <1>2, UnchangedFaithful
<1>8. OneClaim'
  BY <1>6, <1>7, OneClaimKept DEF VerdictInv
<1>9. JournalResults'
  BY <1>2 DEF VerdictInv, JournalResults
<1>10. \A e, v : (Reported(e, v)' <=> Reported(e, v)) /\ (Pending(e, v)' <=> Pending(e, v))
                 /\ (Remembered(e, v)' <=> Remembered(e, v)) /\ (v \in told'[e] <=> v \in told[e])
  BY <1>2 DEF Reported, Pending, Remembered
<1>11. \A u \in tasks' : \E v \in tasks : v.env = u.env
  BY <1>1
<1>12. now \in Nat /\ now' \in Nat /\ now' >= now
  BY <1>2 DEF TypeOK
<1>13. \A e \in Envelopes : Durable(e) => Durable(e)'
  BY <1>2 DEF Durable, Holds
<1>14. ResultsAreFinal' /\ UndispatchedIsFinal'
  BY <1>2, <1>7, <1>9, <1>10, <1>11, <1>12, <1>13, VerdictsKept DEF VerdictInv
<1> QED BY <1>4, <1>5, <1>8, <1>9, <1>14 DEF VerdictInv

\* The dispatch, or its refusal at the deadline, of a command that nothing is known of yet.
LEMMA DispatchKeeps ==
  ASSUME TypeOK, DispatchInv, VerdictInv, NEW t \in tasks, TaskDispatch(t)
  PROVE  VerdictInv'
<1> DEFINE e == t.env
           next == [t EXCEPT !.state = IF Deadline[t.env[2]] <= now THEN "refused" ELSE "running"]
<1>1. /\ tasks' = (tasks \ {t}) \cup {next}
      /\ t.state = "admitted" /\ next.env = e /\ next.generation = t.generation /\ e \in Envelopes
  BY DEF TaskDispatch, Step, TypeOK, TaskType
<1>2. UNCHANGED <<now, generation, active, cached, inflight, disk, opened, journal, session, worker, told>>
  BY DEF TaskDispatch, store, cache, link
<1>3. \A f \in Envelopes : KeyOf(f) = KeyOf(e) => ran[f] = 0
  BY <1>1 DEF DispatchInv, OneTaskPerCommand
<1>4. /\ ran' = ran \/ ran' = [ran EXCEPT ![e] = @ + 1]
      /\ next.state = "refused" => ran' = ran
      /\ next.state = "running" => ran' = [ran EXCEPT ![e] = @ + 1]
      /\ next.state \in {"refused", "running"}
  BY DEF TaskDispatch, TypeOK, TaskType
<1> HIDE DEF next, e
<1>5. \A f \in Envelopes : f # e => ran'[f] = ran[f]
  BY <1>4 DEF TypeOK
<1>6. next.state = "running" => ran'[e] > 0
  BY <1>1, <1>3, <1>4 DEF TypeOK
<1>7. \A f \in Envelopes : Claimed(f)' => Claimed(f)
  <2>1. Claimed(e)
    BY <1>1 DEF Claimed, e
  <2> QED BY <1>1, <1>2, <1>5, <2>1 DEF Claimed
<1>8. \A f \in Envelopes : SaysFaithful(f) /\ KeepsReceipt(f)
  BY <1>2, UnchangedFaithful
<1>9. OneClaim'
  BY <1>7, <1>8, OneClaimKept DEF VerdictInv
<1>10. WaitersHaveTasks'
  <2>1. \A f : Own(f)' <=> Own(f)
    BY <1>1, <1>2 DEF Own, e
  <2> QED BY <1>2, <2>1 DEF VerdictInv, WaitersHaveTasks
<1>11. TasksRan'
  <2>1. \A u \in tasks \ {t} : KeyOf(u.env) # KeyOf(e) /\ u.env # e
    BY DEF DispatchInv, OneTaskPerCommand, e
  <2>2. \A u \in tasks : u.env \in Envelopes
    BY DEF TypeOK, TaskType
  <2>3. ASSUME NEW u \in tasks'
        PROVE  /\ u.state = "running" => ran'[u.env] > 0
               /\ u.state = "refused" => \A f \in Envelopes : KeyOf(f) = KeyOf(u.env) => ran'[f] = 0
    <3>1. CASE u = next
      BY <1>1, <1>3, <1>4, <1>6, <3>1
    <3>2. CASE u \in tasks \ {t}
      BY <1>5, <2>1, <2>2, <3>2 DEF VerdictInv, TasksRan
    <3> QED BY <1>1, <2>3, <3>1, <3>2
  <2> QED BY <2>3 DEF TasksRan, KeyOf
<1>12. JournalResults'
  BY <1>2 DEF VerdictInv, JournalResults
<1>13. \A f, v : (Reported(f, v)' <=> Reported(f, v)) /\ (Pending(f, v)' <=> Pending(f, v))
                 /\ (Remembered(f, v)' <=> Remembered(f, v)) /\ (v \in told'[f] <=> v \in told[f])
                 /\ (Says(disk, f, v)' <=> Says(disk, f, v)) /\ (Says(journal, f, v)' <=> Says(journal, f, v))
                 /\ (FinalIn(disk, f)' <=> FinalIn(disk, f)) /\ (FinalIn(journal, f)' <=> FinalIn(journal, f))
                 /\ (NoTask(f)' <=> NoTask(f)) /\ (Durable(f)' <=> Durable(f))
  BY <1>1, <1>2 DEF Reported, Pending, Remembered, Says, FinalIn, NoTask, KeyOf, Durable, Holds, e
<1>14. \A f \in Envelopes : NoTask(f) => KeyOf(f) # KeyOf(e)
  BY <1>1 DEF NoTask, e
<1>15. \A f \in Envelopes : ran[f] > 0 => ran'[f] > 0
  BY <1>1, <1>3, <1>5
<1>16. ResultsAreFinal'
  BY <1>13, <1>15 DEF VerdictInv, ResultsAreFinal
<1>17. UndispatchedIsFinal'
  <2>1. \A f \in Envelopes : NoTask(f) => \A g \in Envelopes : KeyOf(g) = KeyOf(f) => g # e
    BY <1>14
  <2> QED BY <1>2, <1>5, <1>13, <2>1 DEF VerdictInv, UndispatchedIsFinal, Undispatched, KeyOf
<1> QED BY <1>9, <1>10, <1>11, <1>12, <1>16, <1>17 DEF VerdictInv

\* While a command has its dispatcher, nothing has been found out about it, and the
\* dispatcher's envelope is the only one that claims the command.
LEMMA TaskIsOpen ==
  ASSUME TypeOK, DispatchInv, VerdictInv, NEW t \in tasks
  PROVE  /\ t.env \in Envelopes /\ Claimed(t.env) /\ opened /\ KeyOf(t.env) \in Keys
         /\ t.generation = generation => active = t.env[1]
         /\ \A f \in Envelopes : KeyOf(f) = KeyOf(t.env) =>
              /\ ~Reported(f, "result") /\ ~Undispatched(f) /\ ~Says(disk, f, "result")
              /\ Claimed(f) => f = t.env
         /\ disk[KeyOf(t.env)].state # "none" => disk[KeyOf(t.env)].fp = t.env[3]
         /\ journal[KeyOf(t.env)].state # "none" =>
              disk[KeyOf(t.env)].state # "none" /\ journal[KeyOf(t.env)].fp = t.env[3]
         /\ journal[KeyOf(t.env)].result # "result"
         /\ now < Deadline[t.env[2]] => Durable(t.env)
<1> DEFINE e == t.env
           k == KeyOf(e)
<1>1. e \in Envelopes /\ Claimed(e) /\ opened /\ k \in Keys
  BY AnswersTyped DEF TypeOK, TaskType, Claimed, DispatchInv, JournalIsOpen
<1>2. t.generation = generation => active = e[1]
  BY DEF DispatchInv, OneTaskPerCommand
<1>3. ASSUME NEW f \in Envelopes, KeyOf(f) = k
      PROVE  /\ ~Reported(f, "result") /\ ~Undispatched(f) /\ ~Says(disk, f, "result")
             /\ Claimed(f) => f = e
  <2>1. ~NoTask(f)
    BY <1>3 DEF NoTask
  <2>2. ~Reported(f, "result") /\ ~Says(disk, f, "result")
    BY <2>1 DEF VerdictInv, ResultsAreFinal
  <2>3. ~Undispatched(f)
    BY <2>1 DEF VerdictInv, UndispatchedIsFinal
  <2>4. Claimed(f) => f = e
    BY <1>1, <1>3 DEF VerdictInv, OneClaim
  <2> QED BY <2>2, <2>3, <2>4
<1>4. disk[k].state # "none" => disk[k].fp = e[3]
  BY <1>1 DEF VerdictInv, OneClaim
<1>5. journal[k].state # "none" => disk[k].state # "none" /\ journal[k].fp = e[3]
  BY <1>1, <1>4 DEF DispatchInv, JournalIsOnDisk
<1>6. journal[k].result # "result"
  <2> SUFFICES ASSUME journal[k].result = "result" PROVE FALSE
    OBVIOUS
  <2>1. journal[k] \in ReceiptType /\ disk[k] = journal[k]
    BY <1>1 DEF TypeOK, VerdictInv, JournalResults
  <2>2. journal[k].state = "completed"
    BY <2>1, Verdictless DEF Results
  <2>3. journal[k] = Receipt("completed", e[3], "result")
    BY <1>5, <2>1, <2>2 DEF ReceiptType, Receipt, NoReceipt
  <2> QED BY <1>1, <1>3, <2>1, <2>3 DEF Says
<1>7. now < Deadline[e[2]] => Durable(e)
  BY <1>1 DEF DispatchInv, ClaimsAreDurable, Durable
<1> QED BY <1>1, <1>2, <1>3, <1>4, <1>5, <1>6, <1>7

\* The receipts after a dispatcher finished: its own is written or not, the others are old.
LEMMA FinishStores ==
  ASSUME TypeOK, DispatchInv, VerdictInv, NEW t \in tasks, TaskFinish(t)
  PROVE  LET k == KeyOf(t.env)
             outcome == IF t.state = "running" THEN "result" ELSE "undispatched"
             receipt == Receipt("completed", t.env[3], outcome)
         IN  \E result \in {outcome, "indeterminate"} :
               /\ StoreKeeps /\ JournalResults'
               /\ \A j \in Keys \ {k} : Tame(j, NoReceipt)
               /\ disk'[k] \in {disk[k], receipt} /\ journal'[k] \in {journal[k], receipt}
               /\ result = outcome => disk'[k] = receipt /\ journal'[k] = receipt
               /\ disk[k].state = "none" \/ journal[k].state = "none" => UNCHANGED <<disk, journal>>
               /\ IF t.generation = generation THEN Retire(k[2], t.env[3], result)
                                               ELSE UNCHANGED <<inflight, order, cached>>
               /\ Wake(k, result)
<1> DEFINE e == t.env
           k == KeyOf(e)
           outcome == IF t.state = "running" THEN "result" ELSE "undispatched"
           receipt == Receipt("completed", e[3], outcome)
           done == [journal EXCEPT ![k] = [@ EXCEPT !.state = "completed", !.result = outcome]]
           After(result) ==
             /\ IF t.generation = generation THEN Retire(k[2], t.env[3], result)
                                             ELSE UNCHANGED <<inflight, order, cached>>
             /\ Wake(k, result)
<1>1. PICK result \in {outcome, "indeterminate"} :
        /\ \/ /\ result = "indeterminate"
              /\ UNCHANGED <<opened, journal, disk>>
           \/ /\ journal[k].state # "none"
              /\ \E w \in Writes(disk, done) :
                   /\ result = IF w.ok THEN outcome ELSE "indeterminate"
                   /\ opened' = opened
                   /\ journal' = IF w.ok THEN done ELSE journal
                   /\ disk' = w.disk
        /\ After(result)
  BY DEF TaskFinish
<1> HIDE DEF After
<1>2. outcome \in Results /\ outcome # "indeterminate"
  BY DEF Results
<1>3. /\ e \in Envelopes /\ opened /\ k \in Keys
      /\ journal[k].state # "none" => disk[k].state # "none" /\ journal[k].fp = e[3]
      /\ journal[k].result # "result"
  BY TaskIsOpen
<1>4. ASSUME result = "indeterminate", UNCHANGED <<opened, journal, disk>>
      PROVE  /\ StoreKeeps /\ JournalResults'
             /\ \A j \in Keys \ {k} : Tame(j, NoReceipt)
             /\ disk'[k] \in {disk[k], receipt} /\ journal'[k] \in {journal[k], receipt}
             /\ result = outcome => disk'[k] = receipt /\ journal'[k] = receipt
             /\ disk[k].state = "none" \/ journal[k].state = "none" => UNCHANGED <<disk, journal>>
  <2>1. StoreKeeps
    BY <1>4, UnchangedStoreKeeps
  <2>2. \A j \in Keys : Tame(j, NoReceipt)
    BY <1>4 DEF Tame, Old, VerdictInv, JournalResults
  <2> QED BY <1>2, <1>4, <2>1, <2>2 DEF VerdictInv, JournalResults
<1>5. ASSUME journal[k].state # "none", NEW w \in Writes(disk, done),
             result = (IF w.ok THEN outcome ELSE "indeterminate"),
             opened' = opened, journal' = (IF w.ok THEN done ELSE journal), disk' = w.disk
      PROVE  /\ StoreKeeps /\ JournalResults'
             /\ \A j \in Keys \ {k} : Tame(j, NoReceipt)
             /\ disk'[k] \in {disk[k], receipt} /\ journal'[k] \in {journal[k], receipt}
             /\ result = outcome => disk'[k] = receipt /\ journal'[k] = receipt
             /\ disk[k].state = "none" \/ journal[k].state = "none" => UNCHANGED <<disk, journal>>
  <2> DEFINE written == [journal EXCEPT ![k] = receipt]
  <2>1. receipt = Receipt("completed", journal[k].fp, outcome)
    BY <1>3, <1>5
  <2>2. /\ StoreKeeps
        /\ disk' \in {disk, written}
        /\ IF w.ok THEN disk' = written /\ journal' = disk' ELSE journal' = journal
    <3> HIDE DEF outcome, k, receipt
    <3>1. LET r == Receipt("completed", journal[k].fp, outcome)
          IN  /\ StoreKeeps
              /\ disk' \in {disk, [journal EXCEPT ![k] = r]}
              /\ IF w.ok THEN disk' = [journal EXCEPT ![k] = r] /\ journal' = disk'
                 ELSE journal' = journal
      BY ONLY TypeOK, DispatchInv, <1>2, <1>3, <1>5, FinishWrites DEF done
    <3> QED BY ONLY <2>1, <3>1 DEF written
  <2> HIDE DEF receipt
  <2>3. written[k] = receipt /\ \A j \in Keys \ {k} : written[j] = journal[j]
    BY <1>3 DEF TypeOK
  <2> HIDE DEF written
  <2>4. \A j \in Keys : journal[j].result = "result" => disk[j] = journal[j]
    BY DEF VerdictInv, JournalResults
  <2>5. ASSUME NEW j \in Keys \ {k} PROVE Tame(j, NoReceipt)
    <3>1. disk'[j] \in {disk[j], journal[j]} /\ journal'[j] = journal[j]
      BY <2>2, <2>3
    <3> QED BY <2>4, <3>1 DEF Tame, Old
  <2>6. disk'[k] \in {disk[k], receipt} /\ journal'[k] \in {journal[k], receipt}
    BY <2>2, <2>3
  <2>7. w.ok \in BOOLEAN
    BY WriteOutcomes
  <2>8. result = outcome => disk'[k] = receipt /\ journal'[k] = receipt
    BY <1>2, <1>5, <2>2, <2>3, <2>7
  <2>9. journal'[k].result = "result" => disk'[k] = journal'[k]
    BY <1>3, <2>2, <2>7
  <2>10. JournalResults'
    BY <2>5, <2>9 DEF Tame, JournalResults
  <2> QED BY <1>3, <1>5, <2>2, <2>5, <2>6, <2>8, <2>10
<1> HIDE DEF done, receipt
<1> QED BY <1>1, <1>4, <1>5 DEF After, receipt

\* A dispatcher that finishes tells the truth to those who wait, and what it writes and
\* caches is final: it was the only dispatcher of its command.
LEMMA FinishKeeps ==
  ASSUME TypeOK, DispatchInv, VerdictInv, NEW t \in tasks, TaskFinish(t)
  PROVE  VerdictInv'
<1> DEFINE e == t.env
           k == KeyOf(e)
           outcome == IF t.state = "running" THEN "result" ELSE "undispatched"
           receipt == Receipt("completed", e[3], outcome)
<1>1. PICK result \in {outcome, "indeterminate"} :
        /\ StoreKeeps /\ JournalResults'
        /\ \A j \in Keys \ {k} : Tame(j, NoReceipt)
        /\ disk'[k] \in {disk[k], receipt} /\ journal'[k] \in {journal[k], receipt}
        /\ result = outcome => disk'[k] = receipt /\ journal'[k] = receipt
        /\ disk[k].state = "none" \/ journal[k].state = "none" => UNCHANGED <<disk, journal>>
        /\ IF t.generation = generation THEN Retire(k[2], e[3], result)
                                        ELSE UNCHANGED <<inflight, order, cached>>
        /\ Wake(k, result)
  BY FinishStores
<1>2. /\ UNCHANGED <<now, generation, active, session, ran, told>>
      /\ tasks' = tasks \ {t} /\ t.state \in {"running", "refused"}
  BY DEF TaskFinish, history
<1>3. /\ e \in Envelopes /\ Claimed(e) /\ opened /\ k \in Keys
      /\ t.generation = generation => active = e[1]
      /\ \A f \in Envelopes : KeyOf(f) = k =>
           /\ ~Reported(f, "result") /\ ~Undispatched(f) /\ ~Says(disk, f, "result")
           /\ Claimed(f) => f = e
      /\ disk[k].state # "none" => disk[k].fp = e[3]
      /\ journal[k].state # "none" => disk[k].state # "none" /\ journal[k].fp = e[3]
      /\ now < Deadline[e[2]] => Durable(e)
  BY TaskIsOpen
<1>4. /\ t.state = "running" => ran[e] > 0
      /\ t.state = "refused" => \A f \in Envelopes : KeyOf(f) = k => ran[f] = 0
  BY DEF VerdictInv, TasksRan
<1>5. /\ "result" \in Results /\ "undispatched" \in Results /\ "indeterminate" \in Results
      /\ Nil \notin Results /\ outcome \in Results /\ result \in Results /\ Nil \notin Fingerprints
      /\ NoReceipt.state = "none" /\ NoReceipt.result = Nil
  BY Verdictless, NilAssumption DEF Results, NoReceipt
<1>6. /\ k[2] = e[2] /\ e[2] \in Commands /\ e[3] \in Fingerprints
      /\ \A f \in Envelopes : /\ f[2] \in Commands /\ f[3] \in Fingerprints /\ KeyOf(f) \in Keys
                              /\ KeyOf(f)' = KeyOf(f)
                              /\ KeyOf(f) = k => f[1] = e[1] /\ f[2] = e[2]
  BY <1>3, AnswersTyped DEF KeyOf
<1>7. receipt.state = "completed" /\ receipt.fp = e[3] /\ receipt.result = outcome
      /\ \A f \in Envelopes : \A v : receipt = Receipt("completed", f[3], v) => f[3] = e[3] /\ outcome = v
  BY DEF Receipt
<1>8. \A u \in tasks' : u \in tasks /\ KeyOf(u.env) # k
  BY <1>2 DEF DispatchInv, OneTaskPerCommand
<1> HIDE DEF receipt, k, e
<1>9. \A f \in Envelopes : KeyOf(f) = k => NoTask(f)'
  BY <1>6, <1>8 DEF NoTask, KeyOf
<1>10. \A f \in Envelopes : NoTask(f) => NoTask(f)'
  BY <1>8 DEF NoTask, KeyOf
\* The worker: it is woken only for this command.
<1>11. /\ worker' = worker \/ (worker' = [worker EXCEPT !.result = result] /\ worker.state = "waiting"
                              /\ worker.result = Nil /\ KeyOf(worker.env) = k)
       /\ worker.state = "waiting" /\ worker.result = Nil /\ KeyOf(worker.env) = k => worker'.result = result
       /\ worker'.state = worker.state /\ worker'.env = worker.env
       /\ worker.state = "waiting" => worker.env \in Envelopes
  BY <1>1 DEF Wake, TypeOK, WorkerType, NoWork
<1>12. worker.state = "waiting" /\ worker.result = Nil /\ KeyOf(worker.env) = k =>
         worker.env = e /\ t.generation = generation
  <2> SUFFICES ASSUME worker.state = "waiting", worker.result = Nil, KeyOf(worker.env) = k
               PROVE  worker.env = e /\ t.generation = generation
    OBVIOUS
  <2>1. Own(worker.env) /\ "ack" \in told[worker.env]
    BY DEF VerdictInv, WaitersHaveTasks
  <2>2. PICK u \in tasks : u.env = worker.env /\ u.generation = generation
    BY <2>1 DEF Own
  <2>3. u = t
    BY <1>2, <1>8, <2>2
  <2> QED BY <2>2, <2>3 DEF e
<1>13. ASSUME NEW f \in Envelopes, NEW v \in Results, Pending(f, v)'
       PROVE  Pending(f, v) \/ (f = e /\ v = result /\ t.generation = generation)
  BY <1>11, <1>12, <1>13 DEF Pending, TypeOK, WorkerType, NoWork
\* The cache: the result is remembered for this command only.
<1>14. ASSUME NEW f \in Envelopes, NEW v \in Results, Remembered(f, v)'
       PROVE  IF f = e /\ t.generation = generation THEN v = result ELSE Remembered(f, v)
  <2>1. CASE t.generation = generation
    <3>1. Insert(e[2], e[3], result) /\ active = e[1] /\ active' = active
      BY <1>1, <1>2, <1>3, <1>6, <2>1 DEF Retire
    <3> QED BY <1>3, <1>5, <1>14, <2>1, <3>1, InsertReports
  <2>2. CASE t.generation # generation
    BY <1>1, <1>2, <1>14, <2>2 DEF Remembered
  <2> QED BY <2>1, <2>2
<1>15. ASSUME NEW f \in Envelopes, NEW v \in Results, Reported(f, v)', ~Reported(f, v)
       PROVE  f = e /\ v = result /\ t.generation = generation
  BY <1>2, <1>13, <1>14, <1>15 DEF Reported
\* The receipts.
<1>16. ASSUME NEW f \in Envelopes, KeyOf(f) # k
       PROVE  SaysFaithful(f) /\ KeepsReceipt(f)
  <2>1. Tame(KeyOf(f), NoReceipt) /\ NoReceipt.result \notin {"result", "undispatched"}
    BY <1>1, <1>5, <1>6, <1>16
  <2> QED BY <1>5, <2>1, TameFaithful DEF VerdictInv
<1>17. KeepsReceipt(e)
  <2>1. disk'[k].state # "none" => disk[k].state # "none" /\ disk'[k].fp = disk[k].fp
    BY <1>1, <1>3, <1>7
  <2>2. ASSUME FinalIn(disk, e), FinalIn(journal, e)
        PROVE  FinalIn(disk, e)' /\ FinalIn(journal, e)'
    <3>1. disk[k].state = "none"
      BY <1>3, <2>2 DEF FinalIn, k
    <3>2. UNCHANGED <<disk, journal>>
      BY <1>1, <3>1
    <3> QED BY <2>2, <3>2 DEF FinalIn, Says, KeyOf, e
  <2>3. KeyOf(e)' = k /\ KeyOf(e) = k
    BY <1>3, <1>6 DEF k
  <2> QED BY <2>1, <2>2, <2>3 DEF KeepsReceipt
<1>18. ASSUME NEW f \in Envelopes, Claimed(f) \/ Claimed(f)' PROVE Claimed(f) /\ KeepsReceipt(f)
  <2>1. Claimed(f)
    <3> SUFFICES ASSUME Claimed(f)', ~Claimed(f) PROVE FALSE
      BY <1>18
    <3>1. f # e
      BY <1>3
    <3>2. active = f[1] /\ (cached'[f[2]].fp = f[3] \/ inflight'[f[2]] = f[3])
      BY <1>2, <1>8 DEF Claimed
    <3>3. t.generation = generation
      BY <1>1, <1>2, <3>2 DEF Claimed
    <3>4. active = e[1] /\ inflight' = [inflight EXCEPT ![e[2]] = Nil] /\ Insert(e[2], e[3], result)
      BY <1>1, <1>3, <1>6, <3>3 DEF Retire
    <3>5. inflight'[f[2]] # f[3]
      BY <1>5, <1>6, <3>2, <3>4 DEF Claimed, TypeOK
    <3>6. cached'[f[2]] \in {cached[f[2]], NoEntry} \/ (f[2] = e[2] /\ cached'[f[2]].fp = e[3])
      BY <1>5, <1>6, <3>4, InsertChanges
    <3>7. f[2] = e[2] /\ f[3] = e[3]
      BY <1>5, <1>6, <3>2, <3>5, <3>6 DEF Claimed, NoEntry
    <3> QED BY <1>3, <3>1, <3>2, <3>4, <3>7, SameEnvelope
  <2>2. KeepsReceipt(f)
    BY <1>3, <1>16, <1>17, <2>1
  <2> QED BY <2>1, <2>2
<1>19. OneClaim'
  BY <1>18, OneClaimKept DEF VerdictInv
<1>20. WaitersHaveTasks'
  <2>1. session' # "ready" => worker' = NoWork
    BY <1>2, <1>11 DEF VerdictInv, WaitersHaveTasks, NoWork
  <2>2. ASSUME worker'.state = "waiting"
        PROVE  /\ "ack" \in told'[worker'.env] /\ active' = worker'.env[1]
               /\ worker'.result = Nil => \E u \in tasks' : u.env = worker'.env /\ u.generation = generation'
    <3>1. "ack" \in told[worker.env] /\ active = worker.env[1] /\ (worker.result = Nil => Own(worker.env))
      BY <1>11, <2>2 DEF VerdictInv, WaitersHaveTasks
    <3>2. ASSUME worker'.result = Nil
          PROVE  \E u \in tasks' : u.env = worker.env /\ u.generation = generation
      <4>1. worker.result = Nil /\ KeyOf(worker.env) # k
        BY <1>5, <1>11, <2>2, <3>2
      <4>2. PICK u \in tasks : u.env = worker.env /\ u.generation = generation
        BY <3>1, <4>1 DEF Own
      <4>3. u # t
        BY <4>1, <4>2 DEF k, e
      <4> QED BY <1>2, <4>2, <4>3
    <3> QED BY <1>2, <1>11, <3>1, <3>2
  <2>3. ASSUME NEW f \in Envelopes, active' = f[1], inflight'[f[2]] = f[3]
        PROVE  \E u \in tasks' : u.env = f /\ u.generation = generation'
    <3>1. inflight[f[2]] = f[3] /\ (t.generation = generation => f[2] # e[2])
      <4>1. CASE t.generation = generation
        <5>1. inflight' = [inflight EXCEPT ![e[2]] = Nil]
          BY <1>1, <1>6, <4>1 DEF Retire
        <5> QED BY <1>5, <1>6, <2>3, <5>1 DEF TypeOK
      <4>2. CASE t.generation # generation
        BY <1>1, <2>3, <4>2
      <4> QED BY <4>1, <4>2
    <3>2. Own(f)
      BY <1>2, <2>3, <3>1 DEF VerdictInv, WaitersHaveTasks
    <3>3. PICK u \in tasks : u.env = f /\ u.generation = generation
      BY <3>2 DEF Own
    <3>4. u # t
      BY <3>1, <3>3 DEF e
    <3> QED BY <1>2, <3>3, <3>4
  <2> QED BY <2>1, <2>2, <2>3 DEF WaitersHaveTasks, Own
<1>21. TasksRan'
  BY <1>2, <1>8 DEF VerdictInv, TasksRan, KeyOf
<1>22. ASSUME NEW f \in Envelopes, Says(disk, f, "result")' PROVE ran'[f] > 0 /\ NoTask(f)'
  <2>1. CASE KeyOf(f) = k
    <3>1. disk'[k] = Receipt("completed", f[3], "result")
      BY <1>6, <1>22, <2>1 DEF Says
    <3>2. disk'[k] # disk[k]
      BY <1>3, <2>1, <3>1 DEF Says
    <3>3. f[3] = e[3] /\ outcome = "result"
      BY <1>1, <1>7, <3>1, <3>2
    <3>4. f = e
      BY <1>3, <1>6, <2>1, <3>3, SameEnvelope
    <3> QED BY <1>2, <1>4, <1>9, <2>1, <3>3, <3>4
  <2>2. CASE KeyOf(f) # k
    <3>1. Says(disk, f, "result")
      BY <1>16, <1>22, <2>2 DEF SaysFaithful
    <3> QED BY <1>2, <1>10, <3>1 DEF VerdictInv, ResultsAreFinal
  <2> QED BY <2>1, <2>2
<1>23. ASSUME NEW f \in Envelopes, Reported(f, "result")'
       PROVE  /\ ran'[f] > 0 /\ NoTask(f)'
              /\ FinalIn(disk, f)' /\ FinalIn(journal, f)'
              /\ ~Remembered(f, "indeterminate")'
  <2>1. CASE Reported(f, "result")
    <3>1. KeyOf(f) # k
      BY <1>3, <2>1
    <3>2. ran[f] > 0 /\ NoTask(f) /\ FinalIn(disk, f) /\ FinalIn(journal, f) /\ ~Remembered(f, "indeterminate")
      BY <2>1 DEF VerdictInv, ResultsAreFinal
    <3>3. FinalIn(disk, f)' /\ FinalIn(journal, f)'
      BY <1>16, <3>1, <3>2 DEF KeepsReceipt
    <3>4. f # e
      BY <3>1 DEF k
    <3> QED BY <1>2, <1>5, <1>10, <1>14, <3>2, <3>3, <3>4
  <2>2. CASE ~Reported(f, "result")
    <3>1. f = e /\ result = "result" /\ t.generation = generation
      BY <1>5, <1>15, <1>23, <2>2
    <3>2. outcome = "result"
      BY <1>1, <3>1
    <3>3. KeyOf(f) = k
      BY <3>1 DEF k
    <3>4. disk'[k] = receipt /\ receipt = Receipt("completed", f[3], "result")
      BY <1>1, <3>1, <3>2 DEF receipt
    <3>5. FinalIn(disk, f)'
      BY <1>6, <3>3, <3>4 DEF FinalIn, Says
    <3>6. FinalIn(journal, f)'
      BY <1>1, <1>6, <3>1, <3>2, <3>3, <3>4 DEF FinalIn, Says
    <3>7. ~Remembered(f, "indeterminate")'
      BY <1>5, <1>14, <3>1
    <3> QED BY <1>2, <1>4, <1>9, <3>1, <3>2, <3>3, <3>5, <3>6, <3>7
  <2> QED BY <2>1, <2>2
<1>24. ASSUME NEW f \in Envelopes, "result" \in told'[f] PROVE ~Pending(f, "indeterminate")'
  <2> SUFFICES ASSUME Pending(f, "indeterminate")' PROVE FALSE
    OBVIOUS
  <2>1. Reported(f, "result") /\ ~Pending(f, "indeterminate")
    BY <1>2, <1>24 DEF Reported, VerdictInv, ResultsAreFinal
  <2>2. f = e
    BY <1>5, <1>13, <2>1
  <2> QED BY <1>3, <2>1, <2>2 DEF k
<1>25. ResultsAreFinal'
  BY <1>22, <1>23, <1>24 DEF ResultsAreFinal
<1>26. ASSUME NEW f \in Envelopes, Undispatched(f)'
       PROVE  /\ \A g \in Envelopes : KeyOf(g) = KeyOf(f) => ran'[g] = 0
              /\ NoTask(f)'
              /\ now' < Deadline[f[2]] => Durable(f)'
  <2>1. CASE KeyOf(f) # k
    <3>1. f # e
      BY <2>1 DEF k
    <3>2. Undispatched(f)
      <4>1. Reported(f, "undispatched")' => Reported(f, "undispatched")
        BY <1>5, <1>15, <3>1
      <4> QED BY <1>16, <1>26, <2>1, <4>1 DEF Undispatched, SaysFaithful
    <3> QED BY <1>1, <1>2, <1>10, <3>2 DEF VerdictInv, UndispatchedIsFinal, StoreKeeps
  <2>2. CASE KeyOf(f) = k
    <3>1. ~Undispatched(f)
      BY <1>3, <2>2
    <3>2. f = e /\ outcome = "undispatched"
      <4>1. CASE Reported(f, "undispatched")'
        <5>1. ~Reported(f, "undispatched")
          BY <3>1 DEF Undispatched
        <5>2. f = e /\ result = "undispatched"
          BY <1>5, <1>15, <4>1, <5>1
        <5> QED BY <1>1, <5>2
      <4>2. CASE Says(disk, f, "undispatched")' \/ Says(journal, f, "undispatched")'
        <5>1. receipt = Receipt("completed", f[3], "undispatched")
          BY <1>1, <1>6, <2>2, <3>1, <4>2 DEF Says, Undispatched
        <5>2. f[3] = e[3] /\ outcome = "undispatched"
          BY <1>7, <5>1
        <5> QED BY <1>3, <1>6, <2>2, <5>2, SameEnvelope
      <4> QED BY <1>26, <4>1, <4>2 DEF Undispatched
    <3>3. \A g \in Envelopes : KeyOf(g) = KeyOf(f) => ran'[g] = 0
      BY <1>2, <1>4, <2>2, <3>2
    <3>4. now' < Deadline[f[2]] => Durable(f)'
      BY <1>1, <1>2, <1>3, <3>2 DEF StoreKeeps
    <3> QED BY <1>9, <2>2, <3>3, <3>4
  <2> QED BY <2>1, <2>2
<1>27. UndispatchedIsFinal'
  BY <1>26 DEF UndispatchedIsFinal, KeyOf
<1> QED BY <1>1, <1>19, <1>20, <1>21, <1>25, <1>27 DEF VerdictInv

\* Every other step reports nothing new, and keeps or empties the cache.
LEMMA QuietVerdicts ==
  ASSUME TypeOK, DispatchInv, VerdictInv, JournalResults', WaitersHaveTasks',
         now' \in Nat, now' >= now, UNCHANGED ran, tasks' \subseteq tasks,
         \A e \in Envelopes : now < Deadline[e[2]] /\ Durable(e) => Durable(e)',
         \A e \in Envelopes : SaysFaithful(e) /\ KeepsReceipt(e),
         \/ UNCHANGED <<active, cached, inflight>>
         \/ /\ cached' = [c \in Commands |-> NoEntry]
            /\ inflight' = [c \in Commands |-> Nil],
         \A e \in Envelopes : "ack" \in told'[e] => "ack" \in told[e],
         \A e \in Envelopes, v \in Results : v \in told'[e] \/ Pending(e, v)' => v \in told[e] \/ Pending(e, v),
         \A e \in Envelopes : "result" \in told'[e] /\ Pending(e, "indeterminate")' =>
           "result" \in told[e] /\ Pending(e, "indeterminate")
  PROVE  VerdictInv'
<1>1. "result" \in Results /\ "undispatched" \in Results /\ "indeterminate" \in Results
  BY DEF Results
<1>2. Nil \notin Fingerprints /\ \A e \in Envelopes : e[2] \in Commands /\ e[3] \in Fingerprints
  BY NilAssumption, AnswersTyped
<1>3. \A e \in Envelopes, v \in Results : Remembered(e, v)' => Remembered(e, v)
  BY <1>2 DEF Remembered, NoEntry
<1>4. \A e \in Envelopes, v \in Results : Reported(e, v)' => Reported(e, v)
  BY <1>3 DEF Reported
<1>5. \A e \in Envelopes : Claimed(e)' => Claimed(e)
  BY <1>2 DEF Claimed, NoEntry
<1>6. OneClaim'
  BY <1>5, OneClaimKept DEF VerdictInv
<1>7. TasksRan'
  BY DEF VerdictInv, TasksRan, KeyOf
<1>8. now \in Nat /\ \A t \in tasks' : \E u \in tasks : u.env = t.env
  BY DEF TypeOK
<1>9. ResultsAreFinal' /\ UndispatchedIsFinal'
  <2>1. \A e \in Envelopes :
          /\ Reported(e, "result")' => Reported(e, "result")
          /\ Reported(e, "undispatched")' => Reported(e, "undispatched")
          /\ Remembered(e, "indeterminate")' => Remembered(e, "indeterminate")
    BY <1>1, <1>3, <1>4
  <2> QED BY <1>8, <2>1, VerdictsKept DEF VerdictInv
<1> QED BY <1>6, <1>7, <1>9 DEF VerdictInv

\* What is known of every command is true, and final.
THEOREM VerdictsHold == Spec => []VerdictInv
<1>1. Init => VerdictInv
  <2> SUFFICES ASSUME Init PROVE VerdictInv
    OBVIOUS
  <2>1. \A e \in Envelopes : KeyOf(e) \in Keys /\ e[1] \in Scopes /\ e[2] \in Commands /\ e[3] \in Fingerprints
    BY DEF KeyOf, Keys, Envelopes
  <2>2. \A e \in Envelopes : ~Claimed(e)
    BY <2>1, NilAssumption DEF Init, Claimed, NoEntry
  <2>3. \A e \in Envelopes : \A v : ~Reported(e, v) /\ ~Says(disk, e, v) /\ ~Says(journal, e, v)
    <3> SUFFICES ASSUME NEW e \in Envelopes, NEW v
                 PROVE  ~Reported(e, v) /\ ~Says(disk, e, v) /\ ~Says(journal, e, v)
      OBVIOUS
    <3>1. v \notin told[e] /\ ~Pending(e, v)
      BY DEF Init, Pending, NoWork
    <3>2. active = Nil /\ e[1] # Nil
      BY <2>1, NilAssumption DEF Init
    <3>3. disk[KeyOf(e)].state = "none" /\ journal[KeyOf(e)].state = "none"
      BY <2>1 DEF Init, NoReceipts, NoReceipt
    <3>4. Receipt("completed", e[3], v).state = "completed"
      BY DEF Receipt
    <3> QED BY <3>1, <3>2, <3>3, <3>4 DEF Reported, Remembered, Says
  <2>4. OneClaim /\ ResultsAreFinal /\ UndispatchedIsFinal
    BY <2>2, <2>3 DEF OneClaim, ResultsAreFinal, UndispatchedIsFinal, Undispatched, Reported
  <2>5. JournalResults
    BY DEF Init, JournalResults
  <2>6. WaitersHaveTasks /\ TasksRan
    BY <2>1, NilAssumption DEF Init, WaitersHaveTasks, TasksRan, NoWork
  <2> QED BY <2>4, <2>5, <2>6 DEF VerdictInv
<1>2. TypeOK /\ TypeOK' /\ DispatchInv /\ VerdictInv /\ [Next]_vars => VerdictInv'
  <2> SUFFICES ASSUME TypeOK, TypeOK', DispatchInv, VerdictInv, [Next]_vars PROVE VerdictInv'
    OBVIOUS
  <2>0. now \in Nat /\ now >= now /\ JournalResults /\ WaitersHaveTasks /\ NoWork.state = "idle"
    BY DEF TypeOK, VerdictInv, NoWork
  \* A step that leaves receipts and clock alone.
  <2>1. ASSUME UNCHANGED <<now, disk, opened, journal>>
        PROVE  /\ JournalResults' /\ now' \in Nat /\ now' >= now
               /\ \A e \in Envelopes : /\ now < Deadline[e[2]] /\ Durable(e) => Durable(e)'
                                       /\ SaysFaithful(e) /\ KeepsReceipt(e)
    BY <2>0, <2>1, UnchangedFaithful DEF JournalResults, Durable, Holds
  \* A step that leaves clock, cache and worker alone and retries the journal.
  <2>2. ASSUME UNCHANGED <<now, cache, tasks, link, history>>,
               NEW r \in Retries \cup Reopens, StoreBecomes(r, r.journal, r.disk, r.ok)
        PROVE  VerdictInv'
    <3>1. \A j \in Keys : Tame(j, NoReceipt)
      BY <2>0, <2>2, StoreTame
    <3>2. JournalResults'
      BY <3>1 DEF Tame, JournalResults
    <3>3. NoReceipt.state = "none" /\ NoReceipt.result \notin {"result", "undispatched"}
      BY Verdictless DEF NoReceipt, Results
    <3>4. \A e \in Envelopes : SaysFaithful(e) /\ KeepsReceipt(e)
      BY <2>0, <3>1, <3>3, TameFaithful, AnswersTyped
    <3>5. StoreKeeps
      BY <2>2, StoreBecomesKeeps, StoreTyped DEF DispatchInv, StoreType
    <3>6. WaitersHaveTasks'
      BY <2>0, <2>2, WaitersQuiet DEF cache, link, history, WaitersHaveTasks
    <3> QED BY <2>0, <2>2, <3>2, <3>4, <3>5, <3>6, QuietVerdicts
            DEF cache, link, history, StoreKeeps, Pending
  <2>a. ASSUME NEW e \in Envelopes, NEW live \in BOOLEAN, Admit(e, live) PROVE VerdictInv'
    BY <2>a, AdmitVerdicts
  <2>b. ASSUME NEW t \in tasks, TaskCheck(t) \/ TaskDispatch(t) \/ TaskFinish(t) PROVE VerdictInv'
    BY <2>b, CheckKeeps, DispatchKeeps, FinishKeeps
  <2>c. CASE JournalGate
    BY <2>2, <2>c DEF JournalGate
  <2>d. CASE Connect
    <3>1. UNCHANGED <<now, disk, opened, journal, active, cached, inflight, generation, tasks, worker, ran, told>>
      BY <2>d DEF Connect, store, cache, history
    <3>2. WaitersHaveTasks'
      BY <2>0, <2>d, <3>1, WaitersQuiet DEF Connect, WaitersHaveTasks
    <3> QED BY <2>1, <3>1, <3>2, QuietVerdicts DEF Pending
  <2>e. CASE ActorReady
    <3>1. UNCHANGED <<now, disk, opened, journal, tasks, worker, ran, told>> /\ session' = "ready"
      BY <2>e DEF ActorReady, store, history
    <3>2. CASE UNCHANGED cache
      <4>1. WaitersHaveTasks'
        BY <2>0, <3>1, <3>2, WaitersQuiet DEF cache
      <4> QED BY <2>1, <3>1, <3>2, <4>1, QuietVerdicts DEF cache, Pending
    <3>3. CASE ClearCache
      <4>1. WaitersHaveTasks'
        BY <2>0, <2>e, <3>1, <3>3, WaitersReset DEF ActorReady, ClearCache, WaitersHaveTasks
      <4> QED BY <2>1, <3>1, <3>3, <4>1, QuietVerdicts DEF ClearCache, Pending
    <3> QED BY <2>e, <3>2, <3>3 DEF ActorReady
  <2>f. ASSUME NEW e \in Envelopes, Receive(e) PROVE VerdictInv'
    <3>1. /\ UNCHANGED <<now, disk, opened, journal, active, cached, inflight, generation, tasks, session, ran, told>>
          /\ session = "ready" /\ worker'.state = "admitting"
      BY <2>f DEF Receive, store, cache, history
    <3>2. WaitersHaveTasks'
      BY <2>0, <3>1, WaitersQuiet
    <3> QED BY <2>1, <3>1, <3>2, QuietVerdicts DEF Pending
  <2>g. CASE Reply
    <3>1. /\ UNCHANGED <<now, disk, opened, journal, active, cached, inflight, generation, tasks, session, ran>>
          /\ worker' = NoWork /\ told' = [told EXCEPT ![worker.env] = @ \cup {worker.result}]
          /\ worker.state = "waiting"
      BY <2>g DEF Reply, store, cache
    <3>2. worker.env \in Envelopes /\ worker.result \in Results
      BY <2>g DEF Reply, TypeOK, WorkerType, NoWork
    <3>3. "ack" \notin Results
      BY DEF Results
    <3>4. \A e \in Envelopes : /\ told[e] \subseteq told'[e]
                               /\ \A v \in told'[e] : v \in told[e] \/ (v = worker.result /\ e = worker.env)
      BY <3>1 DEF TypeOK
    <3>5. \A e \in Envelopes : \A v : ~Pending(e, v)'
      BY <2>0, <3>1 DEF Pending
    <3>6. \A e \in Envelopes, v \in Results : v \in told'[e] => v \in told[e] \/ Pending(e, v)
      BY <3>1, <3>4 DEF Pending
    <3>7. WaitersHaveTasks'
      BY <2>0, <3>1, <3>4, WaitersQuiet
    <3> QED BY <2>1, <3>1, <3>2, <3>3, <3>4, <3>5, <3>6, <3>7, QuietVerdicts
  <2>h. CASE SessionEnds
    <3>1. /\ UNCHANGED <<now, disk, opened, journal, active, cached, inflight, generation, tasks, ran, told>>
          /\ worker' = NoWork
      BY <2>h DEF SessionEnds, Disconnected, store, cache, history
    <3>2. WaitersHaveTasks'
      BY <2>0, <3>1, WaitersQuiet
    <3> QED BY <2>0, <2>1, <3>1, <3>2, QuietVerdicts DEF Pending
  <2>i. ASSUME NEW next \in Scopes \cup {Nil}, ApplyConfig(next) PROVE VerdictInv'
    <3>1. /\ UNCHANGED <<now, disk, opened, journal, tasks, ran, told>>
          /\ worker' = NoWork /\ ClearCache
      BY <2>i DEF ApplyConfig, Disconnected, store, history
    <3>2. WaitersHaveTasks'
      BY <3>1, WaitersReset DEF ClearCache
    <3> QED BY <2>0, <2>1, <3>1, <3>2, QuietVerdicts DEF ClearCache, Pending
  <2>j. CASE ReloadConfig
    <3>1. UNCHANGED <<now, disk, opened, journal, active, cached, inflight, generation, tasks, session, worker, ran, told>>
      BY <2>j DEF ReloadConfig, store, cache, history
    <3>2. WaitersHaveTasks'
      BY <2>0, <3>1, WaitersQuiet DEF WaitersHaveTasks
    <3> QED BY <2>1, <3>1, <3>2, QuietVerdicts DEF Pending
  <2>k. CASE Start
    BY <2>2, <2>k DEF Start
  <2>l. CASE Crash
    <3>1. /\ UNCHANGED <<now, disk, ran, told>> /\ opened' = FALSE /\ journal' = NoReceipts
          /\ tasks' = {} /\ worker' = NoWork
          /\ cached' = [c \in Commands |-> NoEntry] /\ inflight' = [c \in Commands |-> Nil]
      BY <2>l DEF Crash, history
    <3>2. \A k \in Keys : journal'[k] = NoReceipt /\ journal'[k].state = "none" /\ journal'[k].result # "result"
      BY <3>1, Verdictless DEF NoReceipts, NoReceipt, Results
    <3>3. JournalResults'
      BY <3>2 DEF JournalResults
    <3>4. \A e \in Envelopes : SaysFaithful(e) /\ KeepsReceipt(e)
      <4> SUFFICES ASSUME NEW e \in Envelopes PROVE SaysFaithful(e) /\ KeepsReceipt(e)
        OBVIOUS
      <4>1. KeyOf(e) \in Keys /\ KeyOf(e)' = KeyOf(e)
        BY AnswersTyped DEF KeyOf
      <4>2. FinalIn(journal, e)' /\ ~Says(journal, e, "undispatched")'
        BY <3>2, <4>1 DEF FinalIn, Says, Receipt
      <4> QED BY <3>1, <4>1, <4>2 DEF SaysFaithful, KeepsReceipt, FinalIn, Says
    <3>5. \A e \in Envelopes : Durable(e) => Durable(e)'
      BY <3>1 DEF Durable, Holds
    <3>6. WaitersHaveTasks'
      BY <3>1, WaitersReset
    <3> QED BY <2>0, <3>1, <3>3, <3>4, <3>5, <3>6, QuietVerdicts DEF Pending
  <2>m. CASE Tick
    <3>1. /\ UNCHANGED <<disk, opened, journal, active, cached, inflight, generation, tasks, session, worker, ran, told>>
          /\ now' \in Nat /\ now' >= now
      BY <2>0, <2>m DEF Tick, store, cache, link, history
    <3>2. WaitersHaveTasks'
      BY <2>0, <3>1, WaitersQuiet DEF WaitersHaveTasks
    <3>3. /\ JournalResults'
          /\ \A e \in Envelopes : /\ Durable(e) => Durable(e)'
                                  /\ SaysFaithful(e) /\ KeepsReceipt(e)
      BY <2>0, <3>1, UnchangedFaithful DEF JournalResults, Durable, Holds
    <3> QED BY <3>1, <3>2, <3>3, QuietVerdicts DEF Pending
  <2>n. CASE BackoffElapses \/ UNCHANGED vars
    <3>1. UNCHANGED <<now, disk, opened, journal, active, cached, inflight, generation, tasks, session, worker, ran, told>>
      BY <2>n DEF BackoffElapses, vars, store, cache, link, history
    <3>2. WaitersHaveTasks'
      BY <2>0, <3>1, WaitersQuiet DEF WaitersHaveTasks
    <3> QED BY <2>1, <3>1, <3>2, QuietVerdicts DEF Pending
  <2> QED BY <2>a, <2>b, <2>c, <2>d, <2>e, <2>f, <2>g, <2>h, <2>i, <2>j, <2>k, <2>l, <2>m, <2>n
          DEF Next
<1> QED BY <1>1, <1>2, TypeCorrect, DispatchSafe, PTL DEF Spec

\* What the backend is told about a command is true, now and for good.
THEOREM VerdictsAreTrueHolds == Spec => []VerdictsAreTrue
<1>1. VerdictInv => VerdictsAreTrue
  BY DEF VerdictInv, ResultsAreFinal, UndispatchedIsFinal, Undispatched, Reported, VerdictsAreTrue
<1> QED BY <1>1, VerdictsHold, PTL

\* The supervisor's promise to the backend is kept: every dispatch and every answer is a
\* step of the ledger, everything else is hidden from the backend.
THEOREM LedgerImplemented == Spec => LedgerSpec
<1>1. Init => Ledger!Init
  BY DEF Init, Ledger!Init
<1>2. TypeOK /\ DispatchInv /\ VerdictInv /\ [Next]_vars => [Ledger!Next]_<<ran, told>>
  <2> SUFFICES ASSUME TypeOK, DispatchInv, VerdictInv, [Next]_vars
               PROVE  Ledger!Next \/ UNCHANGED <<ran, told>>
    OBVIOUS
  <2>1. \A e, f \in Envelopes : KeyOf(e) = KeyOf(f) <=> Ledger!SameCommand(e, f)
    BY DEF KeyOf, Ledger!SameCommand
  <2>2. ASSUME NEW e \in Envelopes, NEW v \in Verdicts, Ledger!Justified(e, v), UNCHANGED ran,
               told' = [told EXCEPT ![e] = @ \cup {v}]
        PROVE  Ledger!Next
    BY <2>2 DEF Ledger!Next, Ledger!Tell
  <2>3. ASSUME NEW e \in Envelopes, NEW live \in BOOLEAN, UNCHANGED ran,
               \/ \E verdicts \in {{}, {"expired"}} : Reject(e, live, verdicts)
               \/ \E result : Accept(e, live, result)
        PROVE  Ledger!Next \/ UNCHANGED <<ran, told>>
    <3>1. /\ "ack" \in Verdicts /\ "expired" \in Verdicts
          /\ Ledger!Justified(e, "ack") /\ Ledger!Justified(e, "expired")
      BY DEF Verdicts, Ledger!Justified
    <3>2. [told EXCEPT ![e] = @ \cup {}] = told
      BY DEF TypeOK
    <3>3. \/ told' = told \/ told' = [told EXCEPT ![e] = @ \cup {}]
          \/ told' = [told EXCEPT ![e] = @ \cup {"expired"}] \/ told' = [told EXCEPT ![e] = @ \cup {"ack"}]
      BY <2>3 DEF Reject, Accept
    <3> QED BY <2>2, <2>3, <3>1, <3>2, <3>3
  <2>a. ASSUME NEW e \in Envelopes, NEW live \in BOOLEAN, Admit(e, live)
        PROVE  Ledger!Next \/ UNCHANGED <<ran, told>>
    <3>1. CASE AdmitStale(e, live)
      BY <2>3, <3>1 DEF AdmitStale
    <3>2. CASE AdmitCached(e, live)
      BY <2>3, <3>2 DEF AdmitCached
    <3>3. CASE AdmitInflight(e, live)
      BY <2>3, <3>3 DEF AdmitInflight
    <3>4. CASE AdmitUnavailable(e, live)
      BY <2>3, <3>4 DEF AdmitUnavailable
    <3>5. CASE AdmitKnown(e, live)
      BY <2>3, <3>5 DEF AdmitKnown
    <3>6. CASE AdmitExpired(e, live)
      BY <2>3, <3>6 DEF AdmitExpired
    <3>7. CASE AdmitOverload(e, live)
      BY <2>3, <3>7 DEF AdmitOverload
    <3>8. CASE AdmitNew(e, live)
      BY <2>3, <3>8 DEF AdmitNew
    <3> QED BY <2>a, <3>1, <3>2, <3>3, <3>4, <3>5, <3>6, <3>7, <3>8 DEF Admit
  <2>b. ASSUME NEW t \in tasks, TaskDispatch(t)
        PROVE  Ledger!Next \/ UNCHANGED <<ran, told>>
    <3>1. t.env \in Envelopes /\ t.state = "admitted" /\ UNCHANGED told
      BY <2>b DEF TaskDispatch, TypeOK, TaskType
    <3>2. \A f \in Envelopes : KeyOf(t.env) = KeyOf(f) => ran[f] = 0
      BY <3>1 DEF DispatchInv, OneTaskPerCommand
    <3>3. ASSUME NEW f \in Envelopes, KeyOf(t.env) = KeyOf(f) PROVE "undispatched" \notin told[f]
      BY <3>3 DEF VerdictInv, UndispatchedIsFinal, Undispatched, Reported, NoTask
    <3>4. UNCHANGED ran \/ ran' = [ran EXCEPT ![t.env] = @ + 1]
      BY <2>b DEF TaskDispatch
    <3> QED BY <2>1, <3>1, <3>2, <3>3, <3>4 DEF Ledger!Next, Ledger!Run
  <2>c. CASE Reply
    <3>1. /\ worker.env \in Envelopes /\ worker.result \in Results /\ worker.state = "waiting"
          /\ told' = [told EXCEPT ![worker.env] = @ \cup {worker.result}] /\ UNCHANGED ran
      BY <2>c DEF Reply, TypeOK, WorkerType, NoWork
    <3>2. Pending(worker.env, worker.result) /\ Reported(worker.env, worker.result)
      BY <3>1 DEF Pending, Reported
    <3>3. worker.result = "result" => ran[worker.env] = 1
      <4>1. worker.result = "result" => ran[worker.env] > 0
        BY <3>1, <3>2 DEF VerdictInv, ResultsAreFinal
      <4>2. ran[worker.env] <= 1 /\ ran[worker.env] \in Nat
        BY <3>1 DEF DispatchInv, AtMostOneDispatch, TypeOK
      <4> QED BY <4>1, <4>2
    <3>4. worker.result = "undispatched" => \A f \in Envelopes : KeyOf(worker.env) = KeyOf(f) => ran[f] = 0
      BY <3>1, <3>2 DEF VerdictInv, UndispatchedIsFinal, Undispatched
    <3>5. worker.result = "indeterminate" => "result" \notin told[worker.env]
      BY <3>1, <3>2 DEF VerdictInv, ResultsAreFinal
    <3>6. Ledger!Justified(worker.env, worker.result)
      BY <2>1, <3>1, <3>3, <3>4, <3>5 DEF Ledger!Justified, Results
    <3> QED BY <2>2, <3>1, <3>6 DEF Verdicts
  <2>d. ASSUME \/ \E t \in tasks : TaskCheck(t) \/ TaskFinish(t)
               \/ JournalGate \/ Connect \/ ActorReady
               \/ \E e \in Envelopes : Receive(e)
               \/ SessionEnds
               \/ \E next \in Scopes \cup {Nil} : ApplyConfig(next)
               \/ ReloadConfig \/ Start \/ Crash \/ Tick \/ BackoffElapses \/ UNCHANGED vars
        PROVE  UNCHANGED <<ran, told>>
    BY <2>d DEF TaskCheck, TaskFinish, JournalGate, Connect, ActorReady, Receive, SessionEnds,
       ApplyConfig, ReloadConfig, Start, Crash, Tick, BackoffElapses, vars, history
  <2> QED BY <2>a, <2>b, <2>c, <2>d DEF Next
<1> QED BY <1>1, <1>2, TypeCorrect, DispatchSafe, VerdictsHold, PTL DEF Spec, LedgerSpec, Ledger!Spec
=============================================================================
