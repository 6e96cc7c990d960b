--------------------------- MODULE NativeHostProofs ---------------------------
(***************************************************************************)
(* Theorems about the native host, for any requests, connections and       *)
(* capacities: type correctness, that an answer finds the task that waits  *)
(* for it, that verdicts are true of what Chrome was given, that the       *)
(* limits of the tasks hold, and that no cancellation overtakes its call.  *)
(***************************************************************************)
EXTENDS NativeHost, SequenceTheorems, FiniteSetTheorems, TLAPS

-----------------------------------------------------------------------------
(* Type correctness.                                                       *)

\* The frame that the connection loop makes of a request, cancel target included, is a
\* frame.
LEMMA FrameIsTyped ==
  ASSUME NEW c, NEW r, Arrives(c, r)
  PROVE  [wire |-> Wire(c, r), target |-> CancelTarget(c, r)] \in Frames
<1>1. Wire(c, r) \in Wires
  BY DEF Arrives
<1>2. CancelTarget(c, r) \in Wires \cup {Nil}
  BY DEF CancelTarget, Tracked
<1> QED BY <1>1, <1>2 DEF Frames

\* A frame or a control response appended to the stdout channel keeps it well-typed.
LEMMA FrameOrControl ==
  ASSUME NEW s \in Seq(Frames \cup {Control}), NEW f \in Frames \cup {Control}
  PROVE  Append(s, f) \in Seq(Frames \cup {Control})
BY AppendProperties

\* send_upstream keeps the reply channels well-typed.
LEMMA ReplyType ==
  ASSUME TypeOK, NEW c \in Conns, NEW w \in Wires, Reply(c, w)
  PROVE  replies' \in [Conns -> Seq(Wires)]
<1>1. replies \in [Conns -> Seq(Wires)]
  BY DEF TypeOK
<1>2. Append(replies[c], w) \in Seq(Wires)
  BY <1>1, AppendProperties
<1>3. CASE c \in writers
  BY <1>1, <1>2, <1>3 DEF Reply
<1>4. CASE c \notin writers
  BY <1>1, <1>4 DEF Reply
<1> QED BY <1>3, <1>4

\* Joining finished tasks keeps the tasks well-typed.
LEMMA ReapedType ==
  ASSUME NEW c, NEW f \in [Wires -> Stages]
  PROVE  Reaped(c, f) \in [Wires -> Stages]
BY DEF Reaped, Stages

\* Emptying a channel keeps it well-typed.
LEMMA EmptyQueues ==
  /\ \A S : <<>> \in Seq(S)
  /\ \A S, T : \A f \in [S -> Seq(T)] : \A x : [f EXCEPT ![x] = <<>>] \in [S -> Seq(T)]
<1>1. \A S : <<>> \in Seq(S)
  BY EmptySeq
<1>2. ASSUME NEW S, NEW T, NEW f \in [S -> Seq(T)], NEW x
      PROVE  [f EXCEPT ![x] = <<>>] \in [S -> Seq(T)]
  BY <1>1
<1> QED BY <1>1, <1>2

\* The initial state is well-typed.
LEMMA TypeInit == Init => TypeOK
BY EmptyQueues DEF Init, TypeOK, Stages

\* Every step keeps the types.
LEMMA TypeStep == ASSUME TypeOK, [Next]_vars PROVE TypeOK'
<1>0. CASE UNCHANGED vars
  BY <1>0 DEF vars, chrome, queues, calls, TypeOK
<1>1. ASSUME NEW c \in Conns, Connect(c) PROVE TypeOK'
  BY <1>1 DEF Connect, TypeOK, chrome, calls
<1>2. ASSUME NEW c \in Conns, ReadOther(c) PROVE TypeOK'
  <2>1. task' \in [Wires -> Stages]
    BY <1>2, ReapedType DEF ReadOther, TypeOK
  <2> QED BY <1>2, <2>1 DEF ReadOther, TypeOK, chrome, queues
<1>3. ASSUME NEW c \in Conns, ReadShutdown(c) PROVE TypeOK'
  BY <1>3 DEF ReadShutdown, TypeOK, chrome, queues, calls
<1>4. ASSUME NEW c \in Conns, HangUp(c) PROVE TypeOK'
  BY <1>4 DEF HangUp, TypeOK, chrome, queues, calls
<1>5. ASSUME NEW c \in Conns, AbortTasks(c) PROVE TypeOK'
  <2>1. task' \in [Wires -> Stages]
    BY <1>5 DEF AbortTasks, TypeOK, Stages
  <2> QED BY <1>5, <2>1 DEF AbortTasks, TypeOK, chrome, queues
<1>6. ASSUME NEW c \in Conns, Close(c) PROVE TypeOK'
  <2>1. dispatch' \in [Conns -> Seq(Frames)] /\ replies' \in [Conns -> Seq(Wires)]
    BY <1>6, EmptyQueues DEF Close, TypeOK
  <2> QED BY <1>6, <2>1 DEF Close, TypeOK, chrome
<1>7. ASSUME NEW c \in Conns, WriteReply(c) PROVE TypeOK'
  <2>1. replies \in [Conns -> Seq(Wires)]
    BY DEF TypeOK
  <2>2. Tail(replies[c]) \in Seq(Wires)
    BY <1>7, <2>1, HeadTailProperties DEF WriteReply
  <2>3. replies' \in [Conns -> Seq(Wires)]
    <3>1. CASE replies' = [replies EXCEPT ![c] = Tail(@)]
      BY <2>1, <2>2, <3>1
    <3>2. CASE replies' = [replies EXCEPT ![c] = <<>>]
      BY <2>1, <3>2, EmptyQueues
    <3> QED BY <1>7, <3>1, <3>2 DEF WriteReply
  <2>4. writers' \subseteq Conns
    BY <1>7 DEF WriteReply, TypeOK
  <2> QED BY <1>7, <2>3, <2>4 DEF WriteReply, TypeOK, chrome, calls
<1>8. ASSUME NEW c \in Conns, Relay(c) PROVE TypeOK'
  <2>1. dispatch \in [Conns -> Seq(Frames)]
    BY DEF TypeOK
  <2>2. Head(dispatch[c]) \in Frames /\ Tail(dispatch[c]) \in Seq(Frames)
    BY <1>8, <2>1, HeadTailProperties DEF Relay
  <2>3. native' \in Seq(Frames \cup {Control})
    BY <1>8, <2>2, FrameOrControl DEF Relay, TypeOK
  <2>4. dispatch' \in [Conns -> Seq(Frames)]
    BY <1>8, <2>1, <2>2 DEF Relay
  <2> QED BY <1>8, <2>3, <2>4 DEF Relay, TypeOK, calls
<1>9. ASSUME NEW c \in Conns, RelayStops(c) PROVE TypeOK'
  <2>1. dispatch' \in [Conns -> Seq(Frames)]
    BY <1>9, EmptyQueues DEF RelayStops, TypeOK
  <2> QED BY <1>9, <2>1 DEF RelayStops, TypeOK, chrome, calls
<1>10. ASSUME NEW c \in Conns, NEW r \in Requests, Refuse(c, r) PROVE TypeOK'
  <2>1. Wire(c, r) \in Wires
    BY <1>10 DEF Refuse, Arrives
  <2>2. replies' \in [Conns -> Seq(Wires)]
    BY <1>10, <2>1, ReplyType DEF Refuse
  <2>3. [task EXCEPT ![Wire(c, r)] = "refused"] \in [Wires -> Stages]
    BY DEF TypeOK, Stages
  <2>4. task' \in [Wires -> Stages]
    BY <1>10, <2>3, ReapedType DEF Refuse
  <2> QED BY <1>10, <2>2, <2>4 DEF Refuse, TypeOK, chrome
<1>11. ASSUME NEW c \in Conns, NEW r \in Requests, Accept(c, r) PROVE TypeOK'
  <2>1. Wire(c, r) \in Wires
    BY <1>11 DEF Accept, Arrives
  <2>2. dispatch' \in [Conns -> Seq(Frames)]
    <3>1. dispatch \in [Conns -> Seq(Frames)]
      BY DEF TypeOK
    <3>2. Append(dispatch[c], [wire |-> Wire(c, r), target |-> CancelTarget(c, r)]) \in Seq(Frames)
      BY <1>11, <3>1, FrameIsTyped, AppendProperties DEF Accept
    <3> QED BY <1>11, <3>1, <3>2 DEF Accept
  <2>3. [task EXCEPT ![Wire(c, r)] = "waiting"] \in [Wires -> Stages]
    BY DEF TypeOK, Stages
  <2>4. task' \in [Wires -> Stages]
    BY <1>11, <2>3, ReapedType DEF Accept
  <2> QED BY <1>11, <2>1, <2>2, <2>4 DEF Accept, TypeOK, chrome
<1>12. ASSUME NEW w \in Wires, TimesOut(w) PROVE TypeOK'
  BY <1>12 DEF TimesOut, TypeOK, Stages, Verdicts, chrome, queues
<1>13. ASSUME NEW w \in Wires, SendReply(w) PROVE TypeOK'
  <2>1. w.conn \in Conns
    BY HostAssumption
  <2>2. replies' \in [Conns -> Seq(Wires)]
    BY <1>13, <2>1, ReplyType DEF SendReply
  <2>3. task' \in [Wires -> Stages]
    BY <1>13 DEF SendReply, TypeOK, Stages
  <2> QED BY <1>13, <2>2, <2>3 DEF SendReply, TypeOK, chrome
<1>14. ASSUME NEW w \in Wires, Answer(w) PROVE TypeOK'
  <2>1. task' \in [Wires -> Stages]
    BY <1>14 DEF Answer, TypeOK, Stages, Verdicts
  <2> QED BY <1>14, <2>1 DEF Answer, TypeOK, chrome, queues
<1>15. CASE WriteNative
  <2>1. Head(native) \in Frames \cup {Control} /\ Tail(native) \in Seq(Frames \cup {Control})
    BY <1>15, HeadTailProperties DEF WriteNative, TypeOK
  <2>2. native' \in Seq(Frames \cup {Control})
    BY <1>15, <2>1, EmptyQueues DEF WriteNative
  <2>3. written' \in Seq(Frames)
    <3>1. CASE Head(native) = Control \/ written' = written
      BY <1>15, <3>1 DEF WriteNative, TypeOK
    <3>2. CASE Head(native) # Control /\ written' # written
      <4>1. written' = Append(written, Head(native))
        BY <1>15, <3>2 DEF WriteNative
      <4>2. Head(native) \in Frames
        BY <2>1, <3>2
      <4> QED BY <4>1, <4>2, AppendProperties DEF TypeOK
    <3> QED BY <3>1, <3>2
  <2> QED BY <1>15, <2>2, <2>3 DEF WriteNative, TypeOK, queues, calls
<1>16. CASE ReadControl
  BY <1>16 DEF ReadControl, TypeOK, queues, calls
<1>17. CASE AnswerControl
  <2>1. native' \in Seq(Frames \cup {Control})
    BY <1>17, FrameOrControl DEF AnswerControl, SendControl, TypeOK
  <2> QED BY <1>17, <2>1 DEF AnswerControl, TypeOK, queues, calls
<1>18. CASE StdinCloses
  BY <1>18 DEF StdinCloses, TypeOK, queues, calls
<1>19. CASE Drain
  <2>1. task' \in [Wires -> Stages]
    BY <1>19 DEF Drain, TypeOK, Stages, Verdicts
  <2> QED BY <1>19, <2>1 DEF Drain, TypeOK, queues
<1>20. CASE Exit
  <2>1. /\ native' \in Seq(Frames \cup {Control})
        /\ dispatch' \in [Conns -> Seq(Frames)] /\ replies' \in [Conns -> Seq(Wires)]
    BY <1>20, EmptyQueues DEF Exit
  <2>2. task' \in [Wires -> Stages]
    BY <1>20 DEF Exit, Stages
  <2> QED BY <1>20, <2>1, <2>2 DEF Exit, TypeOK
<1> QED BY <1>0, <1>1, <1>2, <1>3, <1>4, <1>5, <1>6, <1>7, <1>8, <1>9, <1>10, <1>11, <1>12,
           <1>13, <1>14, <1>15, <1>16, <1>17, <1>18, <1>19, <1>20 DEF Next

\* Every reachable state of the native host has the types of its variables.
THEOREM TypeCorrect == Spec => []TypeOK
<1>1. TypeOK /\ [Next]_vars => TypeOK'
  BY TypeStep
<1> QED BY <1>1, TypeInit, PTL DEF Spec

-----------------------------------------------------------------------------
(* What a step does to a task.                                             *)

Read(stage) == stage \notin {"unread", "refused"}

Moves(w) ==
  \/ task'[w] = task[w]
  \/ task'[w] = "gone"
  \/ task[w] = "unread" /\ task'[w] = "refused"
  \/ /\ task[w] = "unread" /\ task'[w] = "waiting"
     /\ \E c \in Conns, r \in Requests : Accept(c, r) /\ w = Wire(c, r)
  \/ task[w] = "waiting" /\ task'[w] = "answered" /\ Answerable(w)
  \/ task[w] = "waiting" /\ task'[w] \in {"lost", "expired"}
  \/ task[w] \in Verdicts /\ task'[w] = "done"

\* The ways a task can move in one step; none goes back to a request that was not read.
LEMMA TasksMove ==
  ASSUME TypeOK, [Next]_vars, NEW w \in Wires PROVE Moves(w)
<1>a. task \in [Wires -> Stages]
  BY DEF TypeOK
<1>0. CASE UNCHANGED vars
  BY <1>0 DEF vars, calls, Moves
<1>1. CASE task' = task
  BY <1>1 DEF Moves
<1>2. ASSUME NEW c \in Conns, ReadOther(c) PROVE Moves(w)
  BY <1>2 DEF ReadOther, Reaped, Moves
<1>3. ASSUME NEW c \in Conns, AbortTasks(c) PROVE Moves(w)
  BY <1>3 DEF AbortTasks, Moves
<1>4. ASSUME NEW c \in Conns, NEW r \in Requests, Refuse(c, r) PROVE Moves(w)
  <2>1. /\ task[Wire(c, r)] = "unread"
        /\ task' = Reaped(c, [task EXCEPT ![Wire(c, r)] = "refused"])
    BY <1>4 DEF Refuse, Arrives
  <2>2. CASE w = Wire(c, r)
    BY <1>a, <2>1, <2>2 DEF Reaped, Finished, Moves
  <2>3. CASE w # Wire(c, r)
    BY <1>a, <2>1, <2>3 DEF Reaped, Moves
  <2> QED BY <2>2, <2>3
<1>5. ASSUME NEW c \in Conns, NEW r \in Requests, Accept(c, r) PROVE Moves(w)
  <2>1. /\ task[Wire(c, r)] = "unread"
        /\ task' = Reaped(c, [task EXCEPT ![Wire(c, r)] = "waiting"])
    BY <1>5 DEF Accept, Arrives
  <2>2. CASE w = Wire(c, r)
    <3>1. task'[w] = "waiting"
      BY <1>a, <2>1, <2>2 DEF Reaped, Finished
    <3> QED BY <1>5, <2>1, <2>2, <3>1 DEF Moves
  <2>3. CASE w # Wire(c, r)
    BY <1>a, <2>1, <2>3 DEF Reaped, Moves
  <2> QED BY <2>2, <2>3
<1>6. ASSUME NEW v \in Wires, TimesOut(v) PROVE Moves(w)
  BY <1>6, <1>a DEF TimesOut, Moves
<1>7. ASSUME NEW v \in Wires, SendReply(v) PROVE Moves(w)
  BY <1>7, <1>a DEF SendReply, Moves
<1>8. ASSUME NEW v \in Wires, Answer(v) PROVE Moves(w)
  BY <1>8, <1>a DEF Answer, Moves
<1>9. CASE Drain
  BY <1>9, <1>a DEF Drain, Moves
<1>10. CASE Exit
  BY <1>10 DEF Exit, Moves
<1> QED
  BY <1>0, <1>1, <1>2, <1>3, <1>4, <1>5, <1>6, <1>7, <1>8, <1>9, <1>10
  DEF Next, Connect, ReadShutdown, HangUp, Close, WriteReply, Relay, RelayStops, WriteNative,
      ReadControl, AnswerControl, StdinCloses, calls

-----------------------------------------------------------------------------
(* Frames stand for accepted requests.                                     *)

\* A frame on a queue, or in Chrome's hands, stands for a request that was accepted.
KnownIn(s, t) == \A i \in DOMAIN s : s[i] = Control \/ Read(t[s[i].wire])

SentInv ==
  /\ \A c \in Conns : KnownIn(dispatch[c], task)
  /\ KnownIn(native, task) /\ KnownIn(written, task)

\* What a channel still holds was read, after one frame was taken, and so was that frame.
LEMMA KnownTail ==
  ASSUME NEW S, NEW s \in Seq(S), NEW t, s # <<>>, KnownIn(s, t)
  PROVE  KnownIn(Tail(s), t) /\ (Head(s) = Control \/ Read(t[Head(s).wire]))
<1>1. ASSUME NEW i \in DOMAIN Tail(s) PROVE i + 1 \in DOMAIN s /\ Tail(s)[i] = s[i + 1]
  BY HeadTailProperties, LenProperties
<1>2. 1 \in DOMAIN s /\ Head(s) = s[1]
  BY HeadTailProperties, LenProperties
<1> QED BY <1>1, <1>2 DEF KnownIn

\* What a channel holds was read, after one more frame that was read.
LEMMA KnownAppend ==
  ASSUME NEW S, NEW s \in Seq(S), NEW f \in S, NEW t, KnownIn(s, t),
         f = Control \/ Read(t[f.wire])
  PROVE  KnownIn(Append(s, f), t)
<1>1. ASSUME NEW i \in DOMAIN Append(s, f), i # Len(s) + 1
      PROVE  i \in DOMAIN s /\ Append(s, f)[i] = s[i]
  BY <1>1, AppendProperties, LenProperties
<1>2. Append(s, f)[Len(s) + 1] = f
  BY AppendProperties
<1> QED BY <1>1, <1>2 DEF KnownIn

\* An empty channel holds nothing that was not read.
LEMMA KnownEmpty == \A t : KnownIn(<<>>, t)
BY DEF KnownIn

\* A request that was accepted stays accepted.
LEMMA KnownLater ==
  ASSUME TypeOK, [Next]_vars, NEW s \in Seq(Frames \cup {Control}), KnownIn(s, task)
  PROVE  KnownIn(s, task')
<1> SUFFICES ASSUME NEW i \in DOMAIN s, s[i] # Control PROVE Read(task'[s[i].wire])
  BY DEF KnownIn
<1>1. s[i] \in Frames \cup {Control}
  BY LenProperties
<1>2. s[i].wire \in Wires
  BY <1>1 DEF Frames
<1>3. Read(task[s[i].wire])
  BY DEF KnownIn
<1> QED BY <1>2, <1>3, TasksMove DEF Moves, Read, Verdicts

\* Initially nothing is on its way to Chrome.
LEMMA SentInit == Init => SentInv
BY KnownEmpty DEF Init, SentInv

\* Every step keeps only accepted requests on their way to Chrome.
LEMMA SentStep == ASSUME TypeOK, SentInv, [Next]_vars PROVE SentInv'
<1>1. \A s \in Seq(Frames \cup {Control}) : KnownIn(s, task) => KnownIn(s, task')
  BY KnownLater
<1>2. ASSUME NEW s \in Seq(Frames) PROVE s \in Seq(Frames \cup {Control})
  BY LenProperties
<1>3. /\ \A c \in Conns : KnownIn(dispatch[c], task')
      /\ KnownIn(native, task') /\ KnownIn(written, task')
  BY <1>1, <1>2 DEF SentInv, TypeOK
<1>4. CASE dispatch' = dispatch /\ native' = native /\ written' = written
  BY <1>3, <1>4 DEF SentInv
<1>5. ASSUME NEW c \in Conns, Close(c) \/ RelayStops(c) PROVE SentInv'
  <2>1. /\ dispatch' = [dispatch EXCEPT ![c] = <<>>]
        /\ native' = native /\ written' = written
    BY <1>5 DEF Close, RelayStops, chrome
  <2>2. ASSUME NEW d \in Conns PROVE dispatch'[d] = <<>> \/ dispatch'[d] = dispatch[d]
    BY <2>1 DEF TypeOK
  <2> QED BY <1>3, <2>1, <2>2, KnownEmpty DEF SentInv
<1>6. ASSUME NEW c \in Conns, Relay(c) PROVE SentInv'
  <2>1. dispatch[c] \in Seq(Frames) /\ dispatch[c] # <<>>
    BY <1>6 DEF Relay, TypeOK
  <2>2. /\ KnownIn(Tail(dispatch[c]), task')
        /\ Head(dispatch[c]) = Control \/ Read(task'[Head(dispatch[c]).wire])
    BY <1>3, <2>1, KnownTail
  <2>3. Head(dispatch[c]) \in Frames
    BY <2>1, HeadTailProperties
  <2>4. native' = Append(native, Head(dispatch[c])) /\ written' = written
    BY <1>6 DEF Relay
  <2>5. KnownIn(native', task')
    <3>1. native \in Seq(Frames \cup {Control}) /\ Head(dispatch[c]) \in Frames \cup {Control}
      BY <2>3 DEF TypeOK
    <3> QED BY <1>3, <2>2, <2>4, <3>1, KnownAppend
  <2>6. ASSUME NEW d \in Conns PROVE KnownIn(dispatch'[d], task')
    <3>1. dispatch' = [dispatch EXCEPT ![c] = Tail(@)]
      BY <1>6 DEF Relay
    <3>2. CASE d = c
      BY <2>2, <3>1, <3>2 DEF TypeOK
    <3>3. CASE d # c
      BY <1>3, <3>1, <3>3 DEF TypeOK
    <3> QED BY <3>2, <3>3
  <2> QED BY <1>3, <2>4, <2>5, <2>6 DEF SentInv
<1>7. ASSUME NEW c \in Conns, NEW r \in Requests, Accept(c, r) PROVE SentInv'
  <2> DEFINE f == [wire |-> Wire(c, r), target |-> CancelTarget(c, r)]
  <2>1. f \in Frames
    BY <1>7, FrameIsTyped DEF Accept
  <2>2. Read(task'[Wire(c, r)])
    <3>1. Wire(c, r) \in Wires /\ task[Wire(c, r)] = "unread"
      BY <1>7 DEF Accept, Arrives
    <3>2. task'[Wire(c, r)] = "waiting"
      BY <1>7, <3>1 DEF Accept, Reaped, Finished, TypeOK
    <3> QED BY <3>2 DEF Read
  <2>3. dispatch[c] \in Seq(Frames)
    BY DEF TypeOK
  <2>4. KnownIn(Append(dispatch[c], f), task')
    <3>1. f.wire = Wire(c, r)
      OBVIOUS
    <3> HIDE DEF f
    <3> QED BY <1>3, <2>1, <2>2, <2>3, <3>1, KnownAppend
  <2>5. dispatch' = [dispatch EXCEPT ![c] = Append(@, f)] /\ native' = native /\ written' = written
    BY <1>7 DEF Accept, chrome
  <2> HIDE DEF f
  <2>6. ASSUME NEW d \in Conns PROVE KnownIn(dispatch'[d], task')
    <3>1. CASE d = c
      BY <2>4, <2>5, <3>1 DEF TypeOK
    <3>2. CASE d # c
      BY <1>3, <2>5, <3>2 DEF TypeOK
    <3> QED BY <3>1, <3>2
  <2> QED BY <1>3, <2>5, <2>6 DEF SentInv
<1>8. CASE WriteNative
  <2>1. native \in Seq(Frames \cup {Control}) /\ native # <<>>
    BY <1>8 DEF WriteNative, TypeOK
  <2>2. KnownIn(Tail(native), task') /\ (Head(native) = Control \/ Read(task'[Head(native).wire]))
    BY <1>3, <2>1, KnownTail
  <2>3. dispatch' = dispatch
    BY <1>8 DEF WriteNative, queues
  <2>4. KnownIn(native', task')
    BY <1>8, <2>2, KnownEmpty DEF WriteNative
  <2>5. KnownIn(written', task')
    <3>1. CASE written' = written
      BY <1>3, <3>1
    <3>2. CASE written' # written
      <4>1. written' = Append(written, Head(native)) /\ Head(native) # Control
        BY <1>8, <3>2 DEF WriteNative
      <4>2. Head(native) \in Frames /\ written \in Seq(Frames)
        BY <2>1, <4>1, HeadTailProperties DEF TypeOK
      <4> QED BY <1>3, <2>2, <4>1, <4>2, KnownAppend
    <3> QED BY <3>1, <3>2
  <2> QED BY <1>3, <2>3, <2>4, <2>5 DEF SentInv
<1>9. CASE AnswerControl
  <2>1. dispatch' = dispatch /\ written' = written
    BY <1>9 DEF AnswerControl, queues
  <2>2. native' = native \/ native' = Append(native, Control)
    BY <1>9 DEF AnswerControl, SendControl
  <2>3. KnownIn(native', task')
    <3>1. native \in Seq(Frames \cup {Control}) /\ Control \in Frames \cup {Control}
      BY DEF TypeOK
    <3> QED BY <1>3, <2>2, <3>1, KnownAppend
  <2> QED BY <1>3, <2>1, <2>3 DEF SentInv
<1>10. CASE Exit
  BY <1>3, <1>10, KnownEmpty DEF Exit, SentInv
<1> QED
  BY <1>4, <1>5, <1>6, <1>7, <1>8, <1>9, <1>10
  DEF Next, vars, chrome, queues, Connect, ReadOther, ReadShutdown, HangUp, AbortTasks,
      WriteReply, Refuse, TimesOut, SendReply, Answer, ReadControl, StdinCloses, Drain

-----------------------------------------------------------------------------
(* Verdicts.                                                               *)

\* Every step keeps the verdicts true.
LEMMA VerdictsStep ==
  ASSUME TypeOK, SentInv, VerdictsMatchChrome, [Next]_vars PROVE VerdictsMatchChrome'
<1>1. \/ written' = written
      \/ Head(native) \in Frames /\ written' = Append(written, Head(native))
  <2>1. CASE WriteNative
    <3>1. Head(native) \in Frames \cup {Control}
      BY <2>1, HeadTailProperties DEF WriteNative, TypeOK
    <3> QED BY <2>1, <3>1 DEF WriteNative
  <2>2. CASE ~WriteNative
    <3>1. ASSUME NEW c \in Conns, \/ Connect(c) \/ ReadOther(c) \/ ReadShutdown(c) \/ HangUp(c)
                                  \/ AbortTasks(c) \/ Close(c) \/ WriteReply(c) \/ Relay(c)
                                  \/ RelayStops(c)
          PROVE  written' = written
      BY <3>1 DEF chrome, Connect, ReadOther, ReadShutdown, HangUp, AbortTasks, Close, WriteReply,
         Relay, RelayStops
    <3>2. ASSUME NEW c, NEW r, Refuse(c, r) \/ Accept(c, r) PROVE written' = written
      BY <3>2 DEF chrome, Refuse, Accept
    <3>3. ASSUME NEW w \in Wires, TimesOut(w) \/ SendReply(w) \/ Answer(w) PROVE written' = written
      BY <3>3 DEF chrome, TimesOut, SendReply, Answer
    <3>4. CASE \/ ReadControl \/ AnswerControl \/ StdinCloses \/ Drain \/ Exit \/ UNCHANGED vars
      BY <3>4 DEF chrome, vars, ReadControl, AnswerControl, StdinCloses, Drain, Exit
    <3> QED BY <2>2, <3>1, <3>2, <3>3, <3>4 DEF Next
  <2> QED BY <2>1, <2>2
<1>2. ASSUME NEW w \in Wires, WasWritten(w) PROVE WasWritten(w)'
  <2>1. PICK i \in DOMAIN written : written[i].wire = w
    BY <1>2 DEF WasWritten
  <2>2. i \in DOMAIN written' /\ written'[i] = written[i]
    <3>1. written \in Seq(Frames) /\ i \in 1..Len(written)
      BY <2>1, LenProperties DEF TypeOK
    <3>2. CASE written' = Append(written, Head(native)) /\ Head(native) \in Frames
      BY <3>1, <3>2, AppendProperties
    <3> QED BY <1>1, <2>1, <3>2
  <2> QED BY <2>1, <2>2 DEF WasWritten
<1>3. SentInv'
  BY SentStep
<1>4. ASSUME NEW w \in Wires, task'[w] = "refused" PROVE ~WasWritten(w)'
  <2> SUFFICES ASSUME NEW i \in DOMAIN written', written'[i].wire = w PROVE FALSE
    BY DEF WasWritten
  <2>1. written'[i] # Control
    BY HostAssumption DEF Control
  <2> QED BY <1>3, <1>4, <2>1 DEF SentInv, KnownIn, Read
<1>5. ASSUME NEW w \in Wires, task'[w] = "answered" PROVE WasWritten(w)'
  <2>1. WasWritten(w)
    BY <1>5, TasksMove DEF Moves, Answerable, WasWritten, VerdictsMatchChrome, Verdicts
  <2> QED BY <1>2, <2>1
<1> QED BY <1>4, <1>5 DEF VerdictsMatchChrome

\* The supervisor is told that the extension answered only of a request Chrome was given,
\* and that a request was refused only of one Chrome never gets.
THEOREM VerdictsMatchChromeHolds == Spec => []VerdictsMatchChrome
<1>1. Init => VerdictsMatchChrome
  BY DEF Init, VerdictsMatchChrome
<1>2. TypeOK /\ SentInv /\ VerdictsMatchChrome /\ [Next]_vars
        => SentInv' /\ VerdictsMatchChrome'
  BY SentStep, VerdictsStep
<1> QED BY <1>1, <1>2, SentInit, TypeCorrect, PTL DEF Spec

-----------------------------------------------------------------------------
(* The table of pending answers. A connection gives its tasks up when it is aborted, so *)
(* an entry without a waiting task is left only between AbortTasks and Close.           *)

TasksHaveLinks ==
  \A w \in Wires : w \in Tracked(w.conn) => link[w.conn] \in {"open", "closing"}

TableInv == TasksHaveLinks /\ EntriesAreWaiters

\* A wire id belongs to a connection.
LEMMA ConnOf == ASSUME NEW w \in Wires PROVE w.conn \in Conns
BY HostAssumption

\* The wire id of a request names its connection and the request.
LEMMA WireOf == ASSUME NEW c, NEW r PROVE Wire(c, r).conn = c /\ Wire(c, r).req = r
BY DEF Wire

\* The initial table is empty.
LEMMA TableInit == Init => TableInv
BY DEF Init, TableInv, TasksHaveLinks, Tracked, EntriesAreWaiters

\* A step that changes no task and no entry, and moves its link no further than closing.
LEMMA TableQuiet ==
  ASSUME TableInv, task' = task, pending' = pending,
         \A c \in Conns : \/ link'[c] = link[c]
                          \/ link[c] = "new"
                          \/ link[c] = "open" /\ link'[c] = "closing"
  PROVE  TableInv'
BY ConnOf DEF TableInv, TasksHaveLinks, EntriesAreWaiters, Tracked

\* Every step keeps the table and the tasks in agreement: each accept, answer, time-out,
\* join, abort, close, drain and exit.
LEMMA TableStep == ASSUME TypeOK, TableInv, [Next]_vars PROVE TableInv'
<1>a. task \in [Wires -> Stages] /\ link \in [Conns -> {"new", "open", "closing", "aborted", "closed"}]
  BY DEF TypeOK
<1>0. CASE task' = task /\ pending' = pending /\ link' = link
  BY <1>0, TableQuiet
<1>1. ASSUME NEW c \in Conns, Connect(c) \/ ReadShutdown(c) \/ HangUp(c) PROVE TableInv'
  <2>1. task' = task /\ pending' = pending
    BY <1>1 DEF Connect, ReadShutdown, HangUp, calls
  <2>2. ASSUME NEW d \in Conns
        PROVE  \/ link'[d] = link[d]
               \/ link[d] = "new"
               \/ link[d] = "open" /\ link'[d] = "closing"
    BY <1>1, <1>a DEF Connect, ReadShutdown, HangUp
  <2> QED BY <2>1, <2>2, TableQuiet
<1>2. ASSUME NEW c \in Conns, ReadOther(c) PROVE TableInv'
  <2>1. task' = Reaped(c, task) /\ pending' = pending \ Finished(c) /\ link' = link
    BY <1>2 DEF ReadOther
  <2> QED BY <2>1 DEF TableInv, TasksHaveLinks, EntriesAreWaiters, Tracked, Reaped, Finished
<1>3. ASSUME NEW c \in Conns, NEW r \in Requests, Refuse(c, r) PROVE TableInv'
  <2>1. /\ task' = Reaped(c, [task EXCEPT ![Wire(c, r)] = "refused"])
        /\ pending' = pending \ Finished(c) /\ link' = link
        /\ task[Wire(c, r)] = "unread" /\ link[c] = "open"
    BY <1>3 DEF Refuse, Arrives
  <2>2. ASSUME NEW w \in Wires
        PROVE  \/ task'[w] = task[w] /\ w \notin Finished(c)
               \/ task'[w] = "gone" /\ w \in Finished(c)
               \/ task'[w] = "refused" /\ w = Wire(c, r)
    BY <1>a, <2>1 DEF Reaped
  <2>3. Wire(c, r) \in Wires => Wire(c, r) \notin pending
    BY <2>1, WireOf DEF TableInv, EntriesAreWaiters
  <2> QED BY <2>1, <2>2, <2>3 DEF TableInv, TasksHaveLinks, EntriesAreWaiters, Tracked
<1>4. ASSUME NEW c \in Conns, NEW r \in Requests, Accept(c, r) PROVE TableInv'
  <2>1. /\ task' = Reaped(c, [task EXCEPT ![Wire(c, r)] = "waiting"])
        /\ pending' = (pending \cup {Wire(c, r)}) \ Finished(c) /\ link' = link
        /\ task[Wire(c, r)] = "unread" /\ link[c] = "open"
    BY <1>4 DEF Accept, Arrives
  <2>2. ASSUME NEW w \in Wires
        PROVE  \/ task'[w] = task[w] /\ w \notin Finished(c) /\ w # Wire(c, r)
               \/ task'[w] = "gone" /\ w \in Finished(c)
               \/ task'[w] = "waiting" /\ w = Wire(c, r) /\ w \notin Finished(c)
    BY <1>a, <2>1 DEF Reaped, Finished
  <2>3. EntriesAreWaiters'
    BY <2>1, <2>2 DEF TableInv, EntriesAreWaiters
  <2>4. ASSUME NEW w \in Wires, w \in Tracked(w.conn)'
        PROVE  link'[w.conn] \in {"open", "closing"}
    <3>1. CASE w = Wire(c, r)
      BY <2>1, <3>1, WireOf
    <3>2. CASE w # Wire(c, r)
      <4>1. w \in Tracked(w.conn)
        BY <2>2, <2>4, <3>2 DEF Tracked
      <4> QED BY <2>1, <4>1 DEF TableInv, TasksHaveLinks
    <3> QED BY <3>1, <3>2
  <2>5. TasksHaveLinks'
    BY <2>4 DEF TasksHaveLinks
  <2> QED BY <2>3, <2>5 DEF TableInv
<1>5. ASSUME NEW c \in Conns, AbortTasks(c) PROVE TableInv'
  <2>1. /\ task' = [w \in Wires |-> IF w \in Tracked(c) THEN "gone" ELSE task[w]]
        /\ link[c] = "closing" /\ link' = [link EXCEPT ![c] = "aborted"] /\ pending' = pending
    BY <1>5 DEF AbortTasks
  <2>2. ASSUME NEW w \in Wires, w.conn = c
        PROVE  task'[w] \in {"unread", "refused", "gone"} /\ link'[w.conn] = "aborted"
    BY <1>a, <2>1, <2>2 DEF Tracked
  <2>3. ASSUME NEW w \in Wires, w.conn # c
        PROVE  task'[w] = task[w] /\ link'[w.conn] = link[w.conn]
    BY <1>a, <2>1, <2>3, ConnOf DEF Tracked
  <2> QED BY <2>1, <2>2, <2>3 DEF TableInv, TasksHaveLinks, EntriesAreWaiters, Tracked
<1>6. ASSUME NEW c \in Conns, Close(c) PROVE TableInv'
  <2>1. /\ task' = task /\ pending' = pending \ Own(c)
        /\ link[c] = "aborted" /\ link' = [link EXCEPT ![c] = "closed"]
    BY <1>6 DEF Close
  <2>2. ASSUME NEW w \in Wires, w.conn = c
        PROVE  task[w] \in {"unread", "refused", "gone"} /\ w \notin pending'
    BY <1>a, <2>1, <2>2 DEF Own, TableInv, TasksHaveLinks, Tracked
  <2>3. ASSUME NEW w \in Wires, w.conn # c
        PROVE  link'[w.conn] = link[w.conn] /\ (w \in pending' <=> w \in pending)
    BY <1>a, <2>1, <2>3, ConnOf DEF Own
  <2> QED BY <2>1, <2>2, <2>3 DEF TableInv, TasksHaveLinks, EntriesAreWaiters, Tracked
<1>7. ASSUME NEW v \in Wires, TimesOut(v) PROVE TableInv'
  BY <1>7, <1>a DEF TimesOut, TableInv, TasksHaveLinks, EntriesAreWaiters, Tracked
<1>8. ASSUME NEW v \in Wires, SendReply(v) PROVE TableInv'
  BY <1>8, <1>a DEF SendReply, Verdicts, TableInv, TasksHaveLinks, EntriesAreWaiters, Tracked
<1>9. ASSUME NEW v \in Wires, Answer(v) PROVE TableInv'
  BY <1>9, <1>a DEF Answer, TableInv, TasksHaveLinks, EntriesAreWaiters, Tracked
<1>10. CASE Drain
  BY <1>10, <1>a DEF Drain, TableInv, TasksHaveLinks, EntriesAreWaiters, Tracked
<1>11. CASE Exit
  BY <1>11 DEF Exit, TableInv, TasksHaveLinks, EntriesAreWaiters, Tracked
<1> QED
  BY <1>0, <1>1, <1>2, <1>3, <1>4, <1>5, <1>6, <1>7, <1>8, <1>9, <1>10, <1>11
  DEF Next, vars, calls, WriteReply, Relay, RelayStops, WriteNative, ReadControl,
      AnswerControl, StdinCloses

\* A waiting task always has its entry, and an entry its waiting task, unless its connection
\* has just been given up: no answer is lost to a crossing of time-out, drain and reconnect.
THEOREM EntriesAreWaitersHolds == Spec => []EntriesAreWaiters
<1>1. TypeOK /\ TableInv /\ [Next]_vars => TableInv'
  BY TableStep
<1>2. TableInv => EntriesAreWaiters
  BY DEF TableInv
<1> QED BY <1>1, <1>2, TableInit, TypeCorrect, PTL DEF Spec

-----------------------------------------------------------------------------
(* The limits of a connection.                                             *)

TrackedCalls(c) == {w \in Tracked(c) : w.req \in Calls}

\* A connection has finitely many tasks.
LEMMA TrackedFinite ==
  ASSUME NEW c
  PROVE  IsFiniteSet(Tracked(c)) /\ IsFiniteSet(TrackedCalls(c))
<1>1. Tracked(c) \subseteq Wires /\ TrackedCalls(c) \subseteq Tracked(c) /\ IsFiniteSet(Wires)
  BY HostAssumption DEF Tracked, TrackedCalls
<1> QED BY <1>1, FS_Subset

\* Only Accept brings a task to a connection.
LEMMA TrackedGrows ==
  ASSUME TypeOK, [Next]_vars, NEW c \in Conns
  PROVE  \/ Tracked(c)' \subseteq Tracked(c)
         \/ \E r \in Requests : Accept(c, r) /\ Tracked(c)' \subseteq Tracked(c) \cup {Wire(c, r)}
<1>1. ASSUME NEW w \in Tracked(c)', w \notin Tracked(c)
      PROVE  \E r \in Requests : Accept(c, r) /\ w = Wire(c, r)
  <2>1. w \in Wires /\ w.conn = c /\ task'[w] \notin {"unread", "refused", "gone"}
    BY <1>1 DEF Tracked
  <2>2. task[w] \in {"unread", "refused", "gone"}
    BY <1>1, <2>1 DEF Tracked
  <2>3. PICK d \in Conns, r \in Requests : Accept(d, r) /\ w = Wire(d, r)
    BY <2>1, <2>2, TasksMove DEF Moves, Verdicts
  <2> QED BY <2>1, <2>3, WireOf
<1>2. ASSUME NEW v \in Tracked(c)', NEW w \in Tracked(c)', v \notin Tracked(c),
             w \notin Tracked(c)
      PROVE  v = w
  <2>1. ASSUME NEW r \in Requests, Accept(c, r), NEW u \in Wires, u # Wire(c, r),
               u.conn = c, task[u] \in {"unread", "refused", "gone"}
        PROVE  task'[u] \in {"unread", "refused", "gone"}
    BY <2>1 DEF Accept, Reaped, TypeOK
  <2>2. PICK r \in Requests : Accept(c, r) /\ v = Wire(c, r)
    BY <1>1, <1>2
  <2> QED BY <1>2, <2>1, <2>2 DEF Tracked
<1> QED BY <1>1, <1>2

\* Initially there is no task.
LEMMA BoundedInit == Init => TasksAreBounded
<1> SUFFICES ASSUME Init, NEW c \in Conns
             PROVE  /\ Cardinality(Tracked(c)) <= 2 * MaxCalls
                    /\ Cardinality(TrackedCalls(c)) <= MaxCalls
  BY DEF TasksAreBounded, TrackedCalls
<1>1. Tracked(c) = {} /\ TrackedCalls(c) = {}
  BY DEF Init, Tracked, TrackedCalls
<1> QED BY <1>1, FS_EmptySet, HostAssumption

\* Every step keeps the number of tasks within the limits.
LEMMA BoundedStep == ASSUME TypeOK, TasksAreBounded, [Next]_vars PROVE TasksAreBounded'
<1> SUFFICES ASSUME NEW c \in Conns
             PROVE  /\ Cardinality(Tracked(c)') <= 2 * MaxCalls
                    /\ Cardinality(TrackedCalls(c)') <= MaxCalls
  BY DEF TasksAreBounded, TrackedCalls
<1>1. /\ IsFiniteSet(Tracked(c)) /\ IsFiniteSet(TrackedCalls(c))
      /\ Cardinality(Tracked(c)) \in Nat /\ Cardinality(TrackedCalls(c)) \in Nat
      /\ Cardinality(Tracked(c)) <= 2 * MaxCalls /\ Cardinality(TrackedCalls(c)) <= MaxCalls
  BY TrackedFinite, FS_CardinalityType DEF TasksAreBounded, TrackedCalls
<1>2. CASE Tracked(c)' \subseteq Tracked(c)
  <2>1. TrackedCalls(c)' \subseteq TrackedCalls(c)
    BY <1>2 DEF TrackedCalls
  <2>2. /\ Cardinality(Tracked(c)') \in Nat /\ Cardinality(TrackedCalls(c)') \in Nat
        /\ Cardinality(Tracked(c)') <= Cardinality(Tracked(c))
        /\ Cardinality(TrackedCalls(c)') <= Cardinality(TrackedCalls(c))
    BY <1>1, <1>2, <2>1, FS_Subset, FS_CardinalityType
  <2> QED BY <1>1, <2>2, HostAssumption
<1>3. ASSUME NEW r \in Requests, Accept(c, r), Tracked(c)' \subseteq Tracked(c) \cup {Wire(c, r)}
      PROVE  /\ Cardinality(Tracked(c)') <= 2 * MaxCalls
             /\ Cardinality(TrackedCalls(c)') <= MaxCalls
  <2>1. /\ ~(Cardinality(Tracked(c)) >= 2 * MaxCalls)
        /\ r \in Calls => ~(Cardinality(Tracked(c)) >= MaxCalls)
    BY <1>3 DEF Accept, Overloaded
  <2>2. Cardinality(TrackedCalls(c)) <= Cardinality(Tracked(c))
    BY <1>1, FS_Subset DEF TrackedCalls
  <2>3. Cardinality(Tracked(c)') <= 2 * MaxCalls
    <3>1. /\ IsFiniteSet(Tracked(c) \cup {Wire(c, r)})
          /\ \/ Cardinality(Tracked(c) \cup {Wire(c, r)}) = Cardinality(Tracked(c))
             \/ Cardinality(Tracked(c) \cup {Wire(c, r)}) = Cardinality(Tracked(c)) + 1
      BY <1>1, FS_AddElement
    <3>2. /\ Cardinality(Tracked(c)') \in Nat
          /\ Cardinality(Tracked(c)') <= Cardinality(Tracked(c) \cup {Wire(c, r)})
      BY <1>3, <3>1, FS_Subset, FS_CardinalityType
    <3> QED BY <1>1, <2>1, <3>1, <3>2, HostAssumption
  <2>4. CASE r \in Calls
    <3>1. TrackedCalls(c)' \subseteq TrackedCalls(c) \cup {Wire(c, r)}
      BY <1>3 DEF TrackedCalls
    <3>2. /\ IsFiniteSet(TrackedCalls(c) \cup {Wire(c, r)})
          /\ \/ Cardinality(TrackedCalls(c) \cup {Wire(c, r)}) = Cardinality(TrackedCalls(c))
             \/ Cardinality(TrackedCalls(c) \cup {Wire(c, r)}) = Cardinality(TrackedCalls(c)) + 1
      BY <1>1, FS_AddElement
    <3>3. /\ Cardinality(TrackedCalls(c)') \in Nat
          /\ Cardinality(TrackedCalls(c)') <= Cardinality(TrackedCalls(c) \cup {Wire(c, r)})
      BY <3>1, <3>2, FS_Subset, FS_CardinalityType
    <3> QED BY <1>1, <2>1, <2>2, <2>3, <2>4, <3>2, <3>3, HostAssumption
  <2>5. CASE r \notin Calls
    <3>1. TrackedCalls(c)' \subseteq TrackedCalls(c)
      BY <1>3, <2>5, WireOf DEF TrackedCalls
    <3>2. /\ Cardinality(TrackedCalls(c)') \in Nat
          /\ Cardinality(TrackedCalls(c)') <= Cardinality(TrackedCalls(c))
      BY <1>1, <3>1, FS_Subset, FS_CardinalityType
    <3> QED BY <1>1, <2>3, <3>2, HostAssumption
  <2> QED BY <2>4, <2>5
<1> QED BY <1>2, <1>3, TrackedGrows

\* However many requests of either kind arrive, MaxCalls calls and twice as many tasks are
\* the most a connection ever has, for every limit.
THEOREM TasksAreBoundedHolds == Spec => []TasksAreBounded
<1>1. TypeOK /\ TasksAreBounded /\ [Next]_vars => TasksAreBounded'
  BY BoundedStep
<1> QED BY <1>1, BoundedInit, TypeCorrect, PTL DEF Spec

-----------------------------------------------------------------------------
(* Cancellations and their calls. A frame goes from the dispatch queue of its connection  *)
(* to the stdout channel and then to Chrome; what is ahead of it on the way stays ahead.  *)

Has(s) == {s[i].wire : i \in DOMAIN s}
Ahead(s, i) == {s[j].wire : j \in 1..(i - 1)}

\* A cancellation that points nowhere although it names the call of w.
Missed(f, w) ==
  /\ f # Control /\ f.target = Nil /\ f.wire.req \in Cancels
  /\ w = Wire(f.wire.conn, Target[f.wire.req])

\* Frame f may follow the frames of the wire ids in E, where tasks are as in t.
MayFollow(f, E, t) ==
  /\ f.target # Nil => f.target \in E
  /\ \A w \in Wires \cap E : Missed(f, w) => t[w] # "waiting"

Ordered(E, s, t) == \A i \in DOMAIN s : MayFollow(s[i], E \cup Ahead(s, i), t)

\* What has left the dispatch queues.
Passed == Has(written) \cup Has(native)

\* A dispatch queue is of one connection, which its cancellations are about.
QueuesAreApart ==
  \A c \in Conns : \A i \in DOMAIN dispatch[c] :
    LET f == dispatch[c][i] IN f.wire.conn = c /\ (f.target # Nil => f.target.conn = c)

\* The frame of a request that has a task is on its way to Chrome, or there.
TasksHaveFrames ==
  \A w \in Wires : w \in Tracked(w.conn) => w \in Passed \cup Has(dispatch[w.conn])

\* The inductive invariant. It asks nothing of the queues once stdout is broken: Chrome gets
\* no more of them.
OrderInv ==
  /\ Ordered({}, written, task)
  /\ stdout = "broken" => native = <<>>
  /\ QueuesAreApart
  /\ stdout = "open" =>
       /\ Ordered(Has(written), native, task)
       /\ \A c \in Conns : Ordered(Passed, dispatch[c], task)
       /\ TasksHaveFrames

\* A frame that may follow what is on the way takes its place at the end.
LEMMA OrderedAppend ==
  ASSUME NEW S, NEW s \in Seq(S), NEW f \in S, NEW E, NEW t, Ordered(E, s, t),
         MayFollow(f, E \cup Has(s), t)
  PROVE  Ordered(E, Append(s, f), t) /\ Has(Append(s, f)) = Has(s) \cup {f.wire}
<1>1. /\ Len(s) \in Nat /\ DOMAIN s = 1..Len(s) /\ DOMAIN Append(s, f) = 1..(Len(s) + 1)
      /\ \A i \in 1..Len(s) : Append(s, f)[i] = s[i]
      /\ Append(s, f)[Len(s) + 1] = f
  BY AppendProperties, LenProperties
<1>2. ASSUME NEW i \in 1..Len(s)
      PROVE  Ahead(Append(s, f), i) = Ahead(s, i)
  <2>1. \A j \in 1..(i - 1) : j \in 1..Len(s)
    BY <1>1
  <2> QED BY <1>1, <2>1 DEF Ahead
<1>3. Ahead(Append(s, f), Len(s) + 1) = Has(s)
  <2>1. 1..(Len(s) + 1 - 1) = 1..Len(s)
    BY <1>1
  <2> QED BY <1>1, <2>1 DEF Ahead, Has
<1>4. Has(Append(s, f)) = Has(s) \cup {f.wire}
  <2>1. 1..(Len(s) + 1) = 1..Len(s) \cup {Len(s) + 1}
    BY <1>1
  <2> QED BY <1>1, <2>1 DEF Has
<1>5. ASSUME NEW i \in 1..(Len(s) + 1)
      PROVE  MayFollow(Append(s, f)[i], E \cup Ahead(Append(s, f), i), t)
  <2>1. CASE i = Len(s) + 1
    BY <1>1, <1>3, <2>1
  <2>2. CASE i \in 1..Len(s)
    BY <1>1, <1>2, <2>2 DEF Ordered
  <2> QED BY <1>1, <2>1, <2>2
<1> QED BY <1>1, <1>4, <1>5 DEF Ordered

\* The first frame of a queue may follow what is ahead of the queue, and the rest may follow it.
LEMMA OrderedTail ==
  ASSUME NEW S, NEW s \in Seq(S), s # <<>>, NEW E, NEW t, Ordered(E, s, t)
  PROVE  /\ MayFollow(Head(s), E, t) /\ Ordered(E \cup {Head(s).wire}, Tail(s), t)
         /\ Has(s) = {Head(s).wire} \cup Has(Tail(s))
<1>1. /\ Len(s) \in Nat /\ Len(s) # 0 /\ DOMAIN s = 1..Len(s) /\ Head(s) = s[1]
      /\ DOMAIN Tail(s) = 1..(Len(s) - 1) /\ \A i \in 1..(Len(s) - 1) : Tail(s)[i] = s[i + 1]
  BY HeadTailProperties, LenProperties, EmptySeq
<1>2. ASSUME NEW i \in 1..(Len(s) - 1)
      PROVE  Ahead(s, i + 1) = {Head(s).wire} \cup Ahead(Tail(s), i)
  <2>1. ASSUME NEW k \in 1..(i + 1 - 1), k # 1
        PROVE  k - 1 \in 1..(i - 1) /\ Tail(s)[k - 1] = s[k]
    <3>1. k - 1 \in 1..(i - 1) /\ k - 1 \in 1..(Len(s) - 1) /\ (k - 1) + 1 = k
      BY <1>1, <2>1
    <3> QED BY <1>1, <3>1
  <2>2. \A j \in 1..(i - 1) : j + 1 \in 1..(i + 1 - 1) /\ Tail(s)[j] = s[j + 1]
    BY <1>1
  <2>3. 1 \in 1..(i + 1 - 1)
    OBVIOUS
  <2>4. ASSUME NEW x \in Ahead(s, i + 1) PROVE x = Head(s).wire \/ x \in Ahead(Tail(s), i)
    <3>1. PICK k \in 1..(i + 1 - 1) : x = s[k].wire
      BY DEF Ahead
    <3>2. CASE k = 1
      BY <1>1, <3>1, <3>2
    <3>3. CASE k # 1
      BY <2>1, <3>1, <3>3 DEF Ahead
    <3> QED BY <3>2, <3>3
  <2>5. ASSUME NEW x \in Ahead(Tail(s), i) PROVE x \in Ahead(s, i + 1)
    <3>1. PICK j \in 1..(i - 1) : x = Tail(s)[j].wire
      BY DEF Ahead
    <3> QED BY <2>2, <3>1 DEF Ahead
  <2>6. Head(s).wire \in Ahead(s, i + 1)
    BY <1>1, <2>3 DEF Ahead
  <2> QED BY <2>4, <2>5, <2>6
<1>3. Ahead(s, 1) = {}
  BY DEF Ahead
<1>4. Has(s) = {Head(s).wire} \cup Has(Tail(s))
  <2>1. ASSUME NEW k \in DOMAIN s, k # 1
        PROVE  k - 1 \in DOMAIN Tail(s) /\ Tail(s)[k - 1] = s[k]
    <3>1. k - 1 \in 1..(Len(s) - 1) /\ (k - 1) + 1 = k
      BY <1>1, <2>1
    <3> QED BY <1>1, <3>1
  <2>2. \A j \in DOMAIN Tail(s) : j + 1 \in DOMAIN s /\ Tail(s)[j] = s[j + 1]
    BY <1>1
  <2>3. 1 \in DOMAIN s
    BY <1>1
  <2>4. ASSUME NEW x \in Has(s) PROVE x = Head(s).wire \/ x \in Has(Tail(s))
    <3>1. PICK k \in DOMAIN s : x = s[k].wire
      BY DEF Has
    <3>2. CASE k = 1
      BY <1>1, <3>1, <3>2
    <3>3. CASE k # 1
      BY <2>1, <3>1, <3>3 DEF Has
    <3> QED BY <3>2, <3>3
  <2>5. ASSUME NEW x \in Has(Tail(s)) PROVE x \in Has(s)
    <3>1. PICK j \in DOMAIN Tail(s) : x = Tail(s)[j].wire
      BY DEF Has
    <3> QED BY <2>2, <3>1 DEF Has
  <2>6. Head(s).wire \in Has(s)
    BY <1>1, <2>3 DEF Has
  <2> QED BY <2>4, <2>5, <2>6
<1>5. MayFollow(Head(s), E, t)
  <2>1. 1 \in DOMAIN s
    BY <1>1
  <2>2. E \cup Ahead(s, 1) = E
    BY <1>3
  <2> QED BY <1>1, <2>1, <2>2 DEF Ordered
<1>6. ASSUME NEW i \in 1..(Len(s) - 1)
      PROVE  MayFollow(Tail(s)[i], (E \cup {Head(s).wire}) \cup Ahead(Tail(s), i), t)
  <2>1. i + 1 \in DOMAIN s /\ Tail(s)[i] = s[i + 1]
    BY <1>1
  <2>2. MayFollow(s[i + 1], E \cup Ahead(s, i + 1), t)
    BY <2>1 DEF Ordered
  <2>3. E \cup Ahead(s, i + 1) = (E \cup {Head(s).wire}) \cup Ahead(Tail(s), i)
    BY <1>2
  <2> QED BY <2>1, <2>2, <2>3
<1> QED BY <1>1, <1>4, <1>5, <1>6 DEF Ordered

\* An order stays one if what is ahead changes in nothing that the queue is about, and no task
\* of what went ahead begins to wait.
LEMMA OrderedLater ==
  ASSUME NEW S, NEW s \in Seq(S), NEW E, NEW F, NEW t, NEW u, Ordered(E, s, t),
         \A i \in DOMAIN s : s[i].target # Nil /\ s[i].target \in E => s[i].target \in F,
         \A w \in Wires \cap F : \A i \in DOMAIN s : Missed(s[i], w) => w \in E,
         \A w \in Wires \cap (F \cup Has(s)) : t[w] # "waiting" => u[w] # "waiting"
  PROVE  Ordered(F, s, u)
<1> SUFFICES ASSUME NEW i \in DOMAIN s PROVE MayFollow(s[i], F \cup Ahead(s, i), u)
  BY DEF Ordered
<1>1. MayFollow(s[i], E \cup Ahead(s, i), t)
  BY DEF Ordered
<1>2. Ahead(s, i) \subseteq Has(s)
  <2>1. DOMAIN s = 1..Len(s) /\ Len(s) \in Nat
    BY LenProperties
  <2>2. \A j \in 1..(i - 1) : j \in DOMAIN s
    BY <2>1
  <2> QED BY <2>2 DEF Ahead, Has
<1>3. s[i].target # Nil => s[i].target \in F \cup Ahead(s, i)
  BY <1>1 DEF MayFollow
<1>4. ASSUME NEW w \in Wires \cap (F \cup Ahead(s, i)), Missed(s[i], w) PROVE u[w] # "waiting"
  <2>1. t[w] # "waiting"
    BY <1>1, <1>4 DEF MayFollow
  <2> QED BY <1>2, <2>1
<1> QED BY <1>3, <1>4 DEF MayFollow

\* Nothing is out of order on an empty queue.
LEMMA OrderedEmpty == \A E, t : Ordered(E, <<>>, t) /\ Has(<<>>) = {}
BY DEF Ordered, Has

\* What is known of the queues' types and of the frames on them.
LEMMA QueueTypes ==
  ASSUME TypeOK
  PROVE  /\ written \in Seq(Frames) /\ native \in Seq(Frames \cup {Control})
         /\ \A c \in Conns : dispatch[c] \in Seq(Frames)
         /\ \A f \in Frames : f.wire \in Wires /\ f # Control
         /\ Control.wire = Nil /\ Control.target = Nil /\ Nil \notin Wires
<1>1. ASSUME NEW f \in Frames PROVE f.wire \in Wires /\ f # Control
  BY HostAssumption DEF Frames, Control
<1> QED BY <1>1, HostAssumption DEF TypeOK, Control

\* No task of a request that was passed on begins to wait, so all orders stay.
LEMMA OrdersStay ==
  ASSUME TypeOK, SentInv, OrderInv, [Next]_vars
  PROVE  /\ Ordered({}, written, task')
         /\ stdout = "open" => /\ Ordered(Has(written), native, task')
                               /\ \A c \in Conns : Ordered(Passed, dispatch[c], task')
<1>1. ASSUME NEW w \in Wires, Read(task[w]), task[w] # "waiting" PROVE task'[w] # "waiting"
  BY <1>1, TasksMove DEF Moves, Verdicts, Read
<1>2. ASSUME NEW s, KnownIn(s, task), NEW w \in Wires \cap Has(s) PROVE Read(task[w])
  <2>1. PICK i \in DOMAIN s : s[i].wire = w
    BY DEF Has
  <2>2. s[i] # Control
    BY <2>1, QueueTypes
  <2> QED BY <1>2, <2>1, <2>2 DEF KnownIn
<1>3. \A w \in Wires \cap Passed : Read(task[w])
  BY <1>2 DEF Passed, SentInv
<1>4. \A c \in Conns : \A w \in Wires \cap (Passed \cup Has(dispatch[c])) : Read(task[w])
  BY <1>2, <1>3 DEF SentInv
<1>5. Ordered({}, written, task')
  <2>1. \A w \in Wires \cap ({} \cup Has(written)) : Read(task[w])
    BY <1>3 DEF Passed
  <2>2. Ordered({}, written, task)
    BY DEF OrderInv
  <2> QED BY <1>1, <2>1, <2>2, QueueTypes, OrderedLater
<1>6. ASSUME stdout = "open" PROVE Ordered(Has(written), native, task')
  <2>1. \A w \in Wires \cap (Has(written) \cup Has(native)) : Read(task[w])
    BY <1>3 DEF Passed
  <2>2. Ordered(Has(written), native, task)
    BY <1>6 DEF OrderInv
  <2> QED BY <1>1, <2>1, <2>2, QueueTypes, OrderedLater
<1>7. ASSUME stdout = "open", NEW c \in Conns PROVE Ordered(Passed, dispatch[c], task')
  <2>1. Ordered(Passed, dispatch[c], task)
    BY <1>7 DEF OrderInv
  <2> QED BY <1>1, <1>4, <2>1, QueueTypes, OrderedLater
<1> QED BY <1>5, <1>6, <1>7

\* An accepted request is on its dispatch queue.
LEMMA AcceptQueues ==
  ASSUME TypeOK, NEW c \in Conns, NEW r \in Requests, Accept(c, r)
  PROVE  Wire(c, r) \in Has(dispatch'[c]) /\ Wire(c, r).conn = c
<1> DEFINE f == [wire |-> Wire(c, r), target |-> CancelTarget(c, r)]
<1>1. f \in Frames /\ f.wire = Wire(c, r)
  BY FrameIsTyped DEF Accept
<1>2. dispatch'[c] = Append(dispatch[c], f)
  BY DEF Accept, TypeOK
<1> HIDE DEF f
<1>3. dispatch[c] \in Seq(Frames)
  BY DEF TypeOK
<1>4. Len(dispatch[c]) + 1 \in DOMAIN Append(dispatch[c], f)
      /\ Append(dispatch[c], f)[Len(dispatch[c]) + 1] = f
  BY <1>1, <1>3, AppendProperties, LenProperties
<1>5. Wire(c, r) \in Has(dispatch'[c])
  BY <1>1, <1>2, <1>4 DEF Has
<1> QED BY <1>5, WireOf

\* If no frame of a task is lost, every task has its frame after the step.
LEMMA FramesStay ==
  ASSUME TypeOK, OrderInv, stdout = "open", [Next]_vars,
         \A w \in Wires : w \in Tracked(w.conn) /\ task'[w] # "gone" /\ w \in Passed \cup Has(dispatch[w.conn])
                            => w \in Passed' \cup Has(dispatch'[w.conn])
  PROVE  TasksHaveFrames'
<1> SUFFICES ASSUME NEW w \in Wires, w \in Tracked(w.conn)'
             PROVE  w \in Passed' \cup Has(dispatch'[w.conn])
  BY DEF TasksHaveFrames
<1>1. task'[w] # "gone"
  BY DEF Tracked
<1>2. CASE w \in Tracked(w.conn)
  BY <1>1, <1>2 DEF OrderInv, TasksHaveFrames
<1>3. CASE w \notin Tracked(w.conn)
  <2>1. PICK c \in Conns, r \in Requests : Accept(c, r) /\ w = Wire(c, r)
    BY <1>3, TasksMove DEF Tracked, Moves, Verdicts
  <2> QED BY <2>1, AcceptQueues
<1> QED BY <1>2, <1>3

\* The frame of an accepted request may follow what its connection has on the way: a
\* cancellation points to the call that was accepted before it, or there is none that waits.
LEMMA AcceptFollows ==
  ASSUME TypeOK, SentInv, OrderInv, stdout = "open", [Next]_vars,
         NEW c \in Conns, NEW r \in Requests, Accept(c, r)
  PROVE  MayFollow([wire |-> Wire(c, r), target |-> CancelTarget(c, r)],
                   Passed \cup Has(dispatch[c]), task')
<1> DEFINE f == [wire |-> Wire(c, r), target |-> CancelTarget(c, r)]
<1>1. ASSUME f.target # Nil PROVE f.target \in Passed \cup Has(dispatch[c])
  <2>1. f.target = Wire(c, Target[r]) /\ Wire(c, Target[r]) \in Tracked(c)
    BY <1>1 DEF CancelTarget
  <2>2. f.target \in Wires /\ f.target \in Tracked(f.target.conn) /\ f.target.conn = c
    BY <2>1, WireOf DEF Tracked
  <2> HIDE DEF f
  <2> QED BY <2>2 DEF OrderInv, TasksHaveFrames
<1>2. ASSUME NEW w \in Wires \cap (Passed \cup Has(dispatch[c])), Missed(f, w)
      PROVE  task'[w] # "waiting"
  <2>1. /\ r \in Cancels /\ w = Wire(c, Target[r]) /\ CancelTarget(c, r) = Nil
    BY <1>2, WireOf DEF Missed
  <2>2. w \notin Tracked(c) /\ w.conn = c
    BY <2>1, WireOf, HostAssumption DEF CancelTarget
  <2>3. task[w] \in {"unread", "refused", "gone"}
    BY <2>2 DEF Tracked
  <2>4. w # Wire(c, r)
    BY <2>1, WireOf, HostAssumption
  <2>5. task'[w] \in {task[w], "gone"}
    BY <2>4 DEF Accept, Reaped, TypeOK
  <2> QED BY <2>3, <2>5
<1> QED BY <1>1, <1>2 DEF MayFollow

\* The invariant after a step that touches no queue.
LEMMA OrderQuiet ==
  ASSUME TypeOK, SentInv, OrderInv, [Next]_vars, UNCHANGED <<dispatch, native, written, stdout>>
  PROVE  OrderInv'
<1>1. stdout = "open" => TasksHaveFrames'
  BY FramesStay DEF Passed
<1> QED BY <1>1, OrdersStay DEF OrderInv, QueuesAreApart, Passed

\* A dispatch queue that is dropped, when its tasks are gone or Chrome's pipe is broken.
LEMMA OrderDrop ==
  ASSUME TypeOK, SentInv, TableInv, OrderInv, [Next]_vars, NEW c \in Conns, Close(c) \/ RelayStops(c)
  PROVE  OrderInv'
<1>1. dispatch' = [dispatch EXCEPT ![c] = <<>>] /\ UNCHANGED <<native, written, stdout>>
  BY DEF Close, RelayStops, chrome
<1>2. \A d \in Conns : dispatch'[d] = <<>> \/ dispatch'[d] = dispatch[d]
  BY <1>1 DEF TypeOK
<1>3. stdout = "open" => TasksHaveFrames'
  <2>1. ASSUME stdout = "open", NEW w \in Wires, w \in Tracked(w.conn)
        PROVE  dispatch'[w.conn] = dispatch[w.conn]
    <3>1. Close(c) /\ link[c] = "aborted"
      BY <2>1 DEF Close, RelayStops
    <3>2. w.conn # c
      BY <2>1, <3>1 DEF TableInv, TasksHaveLinks
    <3> QED BY <1>1, <3>2, ConnOf DEF TypeOK
  <2> QED BY <1>1, <2>1, FramesStay DEF Passed
<1>4. QueuesAreApart'
  BY <1>2 DEF OrderInv, QueuesAreApart
<1> QED BY <1>1, <1>2, <1>3, <1>4, OrdersStay, OrderedEmpty DEF OrderInv, Passed

\* A frame that the dispatch task passes on.
LEMMA OrderRelay ==
  ASSUME TypeOK, SentInv, OrderInv, [Next]_vars, NEW c \in Conns, Relay(c)
  PROVE  OrderInv'
<1> DEFINE h == Head(dispatch[c])
<1>1. /\ stdout = "open" /\ dispatch[c] # <<>> /\ UNCHANGED <<written, stdout>>
      /\ native' = Append(native, h) /\ dispatch' = [dispatch EXCEPT ![c] = Tail(@)]
  BY DEF Relay
<1>2. dispatch[c] \in Seq(Frames) /\ h \in Frames /\ h = dispatch[c][1] /\ 1 \in DOMAIN dispatch[c]
  BY <1>1, QueueTypes, HeadTailProperties, LenProperties
<1>3. dispatch'[c] = Tail(dispatch[c]) /\ \A d \in Conns \ {c} : dispatch'[d] = dispatch[d]
  BY <1>1 DEF TypeOK
<1>4. /\ MayFollow(h, Passed, task') /\ Ordered(Passed \cup {h.wire}, Tail(dispatch[c]), task')
      /\ Has(dispatch[c]) = {h.wire} \cup Has(Tail(dispatch[c]))
  BY <1>1, <1>2, OrdersStay, OrderedTail
<1>5. h.wire.conn = c
  BY <1>2 DEF OrderInv, QueuesAreApart
<1> HIDE DEF h
<1>6. Ordered(Has(written), native', task') /\ Has(native') = Has(native) \cup {h.wire}
  <2>1. h \in Frames \cup {Control} /\ native \in Seq(Frames \cup {Control})
    BY <1>2, QueueTypes
  <2>2. Ordered(Has(written), native, task') /\ MayFollow(h, Has(written) \cup Has(native), task')
    BY <1>1, <1>4, OrdersStay DEF Passed
  <2> QED BY <1>1, <2>1, <2>2, OrderedAppend
<1>7. Passed' = Passed \cup {h.wire}
  BY <1>1, <1>6 DEF Passed
<1>8. ASSUME NEW d \in Conns PROVE Ordered(Passed', dispatch'[d], task')
  <2>1. CASE d = c
    BY <1>3, <1>4, <1>7, <2>1
  <2>2. CASE d # c
    <3>1. Ordered(Passed, dispatch[d], task')
      BY <1>1, OrdersStay
    <3>2. \A w \in Wires \cap Passed' : \A i \in DOMAIN dispatch[d] : Missed(dispatch[d][i], w) => w \in Passed
      <4> SUFFICES ASSUME NEW w \in Wires, NEW i \in DOMAIN dispatch[d], Missed(dispatch[d][i], w)
                   PROVE  w # h.wire
        BY <1>7
      <4>1. w.conn = d
        BY WireOf DEF Missed, OrderInv, QueuesAreApart
      <4> QED BY <1>5, <2>2, <4>1
    <3>3. Ordered(Passed', dispatch[d], task')
      BY <1>7, <3>1, <3>2, QueueTypes, OrderedLater
    <3> QED BY <1>3, <2>2, <3>3
  <2> QED BY <2>1, <2>2
<1>9. TasksHaveFrames'
  <2>1. \A d \in Conns : Passed \cup Has(dispatch[d]) \subseteq Passed' \cup Has(dispatch'[d])
    BY <1>3, <1>4, <1>7
  <2> QED BY <1>1, <2>1, ConnOf, FramesStay
<1>10. QueuesAreApart'
  <2>1. ASSUME NEW i \in DOMAIN Tail(dispatch[c])
        PROVE  i + 1 \in DOMAIN dispatch[c] /\ Tail(dispatch[c])[i] = dispatch[c][i + 1]
    BY <1>1, <1>2, HeadTailProperties, LenProperties
  <2>2. ASSUME NEW d \in Conns, NEW i \in DOMAIN dispatch'[d]
        PROVE  \E k \in DOMAIN dispatch[d] : dispatch'[d][i] = dispatch[d][k]
    BY <1>3, <2>1
  <2>3. \A d \in Conns : \A k \in DOMAIN dispatch[d] :
          /\ dispatch[d][k].wire.conn = d
          /\ dispatch[d][k].target # Nil => dispatch[d][k].target.conn = d
    BY DEF OrderInv, QueuesAreApart
  <2> QED BY <2>2, <2>3 DEF QueuesAreApart
<1>11. Ordered({}, written', task')
  BY <1>1, OrdersStay
<1> QED BY <1>1, <1>6, <1>8, <1>9, <1>10, <1>11 DEF OrderInv

\* A request that is accepted.
LEMMA OrderAccept ==
  ASSUME TypeOK, SentInv, OrderInv, [Next]_vars, NEW c \in Conns, NEW r \in Requests, Accept(c, r)
  PROVE  OrderInv'
<1> DEFINE f == [wire |-> Wire(c, r), target |-> CancelTarget(c, r)]
<1>1. /\ dispatch' = [dispatch EXCEPT ![c] = Append(@, f)] /\ UNCHANGED <<native, written, stdout>>
      /\ Wire(c, r) \in Wires
  BY DEF Accept, Arrives, chrome
<1>2. f \in Frames /\ dispatch[c] \in Seq(Frames)
  BY FrameIsTyped, QueueTypes DEF Accept
<1>3. f.wire.conn = c /\ (f.target # Nil => f.target.conn = c)
  BY WireOf DEF CancelTarget
<1>4. stdout = "open" => MayFollow(f, Passed \cup Has(dispatch[c]), task')
  BY AcceptFollows
<1> HIDE DEF f
<1>5. dispatch'[c] = Append(dispatch[c], f) /\ \A d \in Conns \ {c} : dispatch'[d] = dispatch[d]
  BY <1>1 DEF TypeOK
<1>6. ASSUME stdout = "open"
      PROVE  Ordered(Passed, dispatch'[c], task') /\ Has(dispatch'[c]) = Has(dispatch[c]) \cup {f.wire}
  <2>1. Ordered(Passed, dispatch[c], task') /\ MayFollow(f, Passed \cup Has(dispatch[c]), task')
    BY <1>4, <1>6, OrdersStay
  <2>2. /\ Ordered(Passed, Append(dispatch[c], f), task')
        /\ Has(Append(dispatch[c], f)) = Has(dispatch[c]) \cup {f.wire}
    BY <1>2, <2>1, OrderedAppend
  <2> QED BY <1>5, <2>2
<1>7. Passed' = Passed
  BY <1>1 DEF Passed
<1>8. stdout = "open" => \A d \in Conns : Ordered(Passed', dispatch'[d], task')
  BY <1>5, <1>6, <1>7, OrdersStay
<1>9. stdout = "open" => TasksHaveFrames'
  <2>1. stdout = "open" => \A d \in Conns : Has(dispatch[d]) \subseteq Has(dispatch'[d])
    BY <1>5, <1>6
  <2> QED BY <1>7, <2>1, ConnOf, FramesStay
<1>10. QueuesAreApart'
  <2>1. ASSUME NEW i \in DOMAIN Append(dispatch[c], f)
        PROVE  \/ Append(dispatch[c], f)[i] = f
               \/ i \in DOMAIN dispatch[c] /\ Append(dispatch[c], f)[i] = dispatch[c][i]
    BY <1>2, AppendProperties, LenProperties
  <2> QED BY <1>3, <1>5, <2>1 DEF OrderInv, QueuesAreApart
<1> QED BY <1>1, <1>8, <1>9, <1>10, OrdersStay DEF OrderInv

\* The orders of the dispatch queues do not depend on control responses.
LEMMA SamePassed ==
  ASSUME TypeOK, SentInv, OrderInv, [Next]_vars, stdout = "open", UNCHANGED dispatch,
         \A w \in Wires : w \in Passed' <=> w \in Passed
  PROVE  (\A c \in Conns : Ordered(Passed', dispatch'[c], task')) /\ TasksHaveFrames'
<1>1. ASSUME NEW c \in Conns PROVE Ordered(Passed', dispatch[c], task')
  <2>1. Ordered(Passed, dispatch[c], task') /\ dispatch[c] \in Seq(Frames)
    BY OrdersStay, QueueTypes
  <2>2. \A i \in DOMAIN dispatch[c] : dispatch[c][i].target \in Wires \cup {Nil}
    <3>1. ASSUME NEW i \in DOMAIN dispatch[c] PROVE dispatch[c][i] \in Frames
      BY <2>1, LenProperties
    <3> QED BY <3>1 DEF Frames
  <2> HIDE DEF Passed
  <2> QED BY <2>1, <2>2, OrderedLater
<1>2. TasksHaveFrames'
  BY FramesStay
<1> QED BY <1>1, <1>2

\* The frame that was taken off is not missed by the rest if it stands for no request.
LEMMA OrderedSame ==
  ASSUME NEW S, NEW s \in Seq(S), NEW E, NEW t, Ordered(E \cup {Nil}, s, t)
  PROVE  Ordered(E, s, t)
<1> DEFINE D == E \cup {Nil}
<1>1. Ordered(D, s, t)
  OBVIOUS
<1>2. \A i \in DOMAIN s : s[i].target # Nil /\ s[i].target \in D => s[i].target \in E
  OBVIOUS
<1>3. \A w \in Wires \cap E : w \in D
  OBVIOUS
<1> HIDE DEF D
<1> QED BY <1>1, <1>2, <1>3, OrderedLater

\* A frame or a control response that goes to Chrome, or a broken pipe.
LEMMA OrderWrite ==
  ASSUME TypeOK, SentInv, OrderInv, [Next]_vars, WriteNative PROVE OrderInv'
<1> DEFINE h == Head(native)
<1>1. stdout = "open" /\ native # <<>> /\ UNCHANGED dispatch
  BY DEF WriteNative, queues
<1>2. native \in Seq(Frames \cup {Control}) /\ h \in Frames \cup {Control}
  BY <1>1, QueueTypes, HeadTailProperties
<1>3. /\ MayFollow(h, Has(written), task') /\ Ordered(Has(written) \cup {h.wire}, Tail(native), task')
      /\ Has(native) = {h.wire} \cup Has(Tail(native))
  BY <1>1, <1>2, OrdersStay, OrderedTail
<1>4. QueuesAreApart'
  BY <1>1 DEF OrderInv, QueuesAreApart
<1> HIDE DEF h
<1>5. CASE stdout' = "broken" /\ native' = <<>> /\ UNCHANGED written
  BY <1>4, <1>5, OrdersStay DEF OrderInv
<1>6. CASE native' = Tail(native) /\ h = Control /\ UNCHANGED <<written, stdout>>
  <2>1. h.wire = Nil /\ Nil \notin Wires
    BY <1>6, QueueTypes
  <2>2. \A w \in Wires : w \in Passed' <=> w \in Passed
    BY <1>3, <1>6, <2>1 DEF Passed
  <2>3. Ordered(Has(written), Tail(native), task')
    <3>1. Tail(native) \in Seq(Frames \cup {Control})
      BY <1>1, <1>2, HeadTailProperties
    <3>2. Ordered(Has(written) \cup {Nil}, Tail(native), task')
      BY <1>3, <2>1
    <3> QED BY <3>1, <3>2, OrderedSame
  <2>4. Ordered({}, written', task')
    BY <1>6, OrdersStay
  <2> QED BY <1>1, <1>4, <1>6, <2>2, <2>3, <2>4, SamePassed DEF OrderInv
<1>7. CASE native' = Tail(native) /\ h # Control /\ written' = Append(written, h) /\ UNCHANGED stdout
  <2>1. h \in Frames /\ written \in Seq(Frames)
    BY <1>2, <1>7, QueueTypes
  <2>2. Ordered({}, written, task') /\ MayFollow(h, {} \cup Has(written), task')
    BY <1>3, OrdersStay
  <2>3. Ordered({}, written', task') /\ Has(written') = Has(written) \cup {h.wire}
    BY <1>7, <2>1, <2>2, OrderedAppend
  <2>4. Passed' = Passed
    BY <1>3, <1>7, <2>3 DEF Passed
  <2>5. Ordered(Has(written'), native', task')
    BY <1>3, <1>7, <2>3
  <2> QED BY <1>1, <1>4, <1>7, <2>3, <2>4, <2>5, SamePassed DEF OrderInv
<1> QED BY <1>1, <1>5, <1>6, <1>7 DEF WriteNative, h

\* A control response takes its place among the frames.
LEMMA OrderControl ==
  ASSUME TypeOK, SentInv, OrderInv, [Next]_vars, AnswerControl PROVE OrderInv'
<1>1. UNCHANGED <<written, stdout, dispatch>>
  BY DEF AnswerControl, queues
<1>2. CASE UNCHANGED native
  BY <1>1, <1>2, OrderQuiet
<1>3. CASE stdout = "open" /\ native' = Append(native, Control)
  <2>1. MayFollow(Control, Has(written) \cup Has(native), task')
    BY QueueTypes DEF MayFollow, Missed
  <2>2. native \in Seq(Frames \cup {Control}) /\ Control \in Frames \cup {Control}
    BY QueueTypes
  <2>3. Ordered(Has(written), native', task') /\ Has(native') = Has(native) \cup {Control.wire}
    BY <1>3, <2>1, <2>2, OrdersStay, OrderedAppend
  <2>4. \A w \in Wires : w \in Passed' <=> w \in Passed
    BY <1>1, <2>3, QueueTypes DEF Passed
  <2>5. QueuesAreApart' /\ Ordered({}, written', task')
    BY <1>1, OrdersStay DEF OrderInv, QueuesAreApart
  <2> QED BY <1>1, <1>3, <2>3, <2>4, <2>5, SamePassed DEF OrderInv
<1> QED BY <1>2, <1>3 DEF AnswerControl, SendControl

\* Every step keeps the order.
LEMMA OrderStep ==
  ASSUME TypeOK, SentInv, TableInv, OrderInv, [Next]_vars PROVE OrderInv'
<1>1. CASE UNCHANGED <<dispatch, native, written, stdout>>
  BY <1>1, OrderQuiet
<1>2. CASE Exit
  <2>1. /\ native' = <<>> /\ \A c \in Conns : dispatch'[c] = <<>>
        /\ \A w \in Wires : task'[w] = "gone"
        /\ UNCHANGED <<written, stdout>>
    BY <1>2 DEF Exit
  <2>2. TasksHaveFrames' /\ QueuesAreApart'
    BY <2>1 DEF TasksHaveFrames, Tracked, QueuesAreApart
  <2> QED BY <2>1, <2>2, OrdersStay, OrderedEmpty DEF OrderInv
<1> QED
  BY <1>1, <1>2, OrderDrop, OrderRelay, OrderAccept, OrderWrite, OrderControl
  DEF Next, vars, chrome, queues, Connect, ReadOther, ReadShutdown, HangUp, AbortTasks,
      WriteReply, Refuse, TimesOut, SendReply, Answer, ReadControl, StdinCloses, Drain

\* Chrome gets a cancellation that points to a call after that call, and one that points
\* nowhere came too late for the call it names.
THEOREM CancelMeetsItsCallHolds == Spec => []CancelMeetsItsCall
<1>1. Init => OrderInv
  <2> SUFFICES ASSUME Init PROVE OrderInv
    OBVIOUS
  <2>1. TasksHaveFrames
    BY ConnOf DEF Init, TasksHaveFrames, Tracked
  <2> QED BY <2>1, OrderedEmpty DEF Init, OrderInv, QueuesAreApart
<1>2. TypeOK /\ SentInv /\ TableInv /\ OrderInv /\ [Next]_vars => SentInv' /\ TableInv' /\ OrderInv'
  BY SentStep, TableStep, OrderStep
<1>3. TypeOK /\ OrderInv => CancelMeetsItsCall
  <2> SUFFICES ASSUME TypeOK, OrderInv, NEW i \in DOMAIN written
               PROVE  /\ written[i].target # Nil => \E j \in 1..(i - 1) : written[j].wire = written[i].target
                      /\ written[i].target = Nil /\ written[i].wire.req \in Cancels =>
                           \A j \in 1..(i - 1) :
                             written[j].wire = Wire(written[i].wire.conn, Target[written[i].wire.req])
                               => task[written[j].wire] # "waiting"
    BY DEF CancelMeetsItsCall
  <2>1. MayFollow(written[i], Ahead(written, i), task)
    BY DEF OrderInv, Ordered
  <2>2. /\ written[i] # Control
        /\ \A j \in 1..(i - 1) : written[j].wire \in Wires /\ written[j].wire \in Ahead(written, i)
    <3>1. written \in Seq(Frames) /\ DOMAIN written = 1..Len(written) /\ Len(written) \in Nat
      BY QueueTypes, LenProperties
    <3>2. \A j \in 1..(i - 1) : j \in DOMAIN written
      BY <3>1
    <3> QED BY <3>1, <3>2, QueueTypes DEF Ahead
  <2>3. written[i].target # Nil => \E j \in 1..(i - 1) : written[j].wire = written[i].target
    BY <2>1 DEF MayFollow, Ahead
  <2> QED BY <2>1, <2>2, <2>3 DEF MayFollow, Missed
<1> QED BY <1>1, <1>2, <1>3, SentInit, TableInit, TypeCorrect, PTL DEF Spec
=============================================================================
