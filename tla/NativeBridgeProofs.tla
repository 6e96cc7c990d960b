-------------------------- MODULE NativeBridgeProofs --------------------------
(***************************************************************************)
(* Theorems about the native bridge, for any calls, owners, bridges and    *)
(* queue capacity: type correctness, that a call reaches one host at most, *)
(* that a refused call reaches none, that the bridge implements            *)
(* ExtensionCall, that the pending table keeps no entry of a call that     *)
(* returned, and that a cancellation that was acknowledged follows every   *)
(* call of its run.                                                        *)
(***************************************************************************)
EXTENDS NativeBridge, SequenceTheorems, FiniteSetTheorems, TLAPS

\* The shutdown frame is a frame.
LEMMA ShutdownIsFrame == ShutdownFrame \in Frames
BY DEF Frames

\* A frame put on a channel, or dropped.
LEMMA OfferType ==
  ASSUME queue \in [Bridges -> Seq(Frames)], NEW b \in Bridges \cup {0}, NEW f \in Frames,
         Offer(b, f) \/ UNCHANGED queue
  PROVE  queue' \in [Bridges -> Seq(Frames)]
<1>1. CASE queue' = [queue EXCEPT ![b] = Append(queue[b], f)]
  <2>1. CASE b \in Bridges
    <3>1. Append(queue[b], f) \in Seq(Frames)
      BY <2>1, AppendProperties
    <3> QED BY <1>1, <2>1, <3>1
  <2>2. CASE b \notin Bridges
    BY <1>1, <2>2
  <2> QED BY <2>1, <2>2
<1>2. CASE queue' = queue
  BY <1>2
<1> QED BY <1>1, <1>2 DEF Offer

\* drain_native_bridge_pending keeps the pending table and the replies well-typed.
LEMMA DrainType ==
  ASSUME TypeOK, NEW b, Drain(b)
  PROVE  /\ pending' \in [Calls -> Bridges \cup {0}]
         /\ reply' \in [Calls -> {"none", "answered", "disconnected"}]
BY DEF Drain, TypeOK

-----------------------------------------------------------------------------
(* Type correctness. The strikes of a bridge stay below three because pings run    *)
(* one after the other and the second failure takes the bridge from the registry.  *)

PingsOneByOne == \A p, q \in Pings : pc[p] \in Awaits /\ pc[q] \in Awaits => p = q

StrikesBounded ==
  \A b \in Bridges :
    /\ b \in registered \/ strikes[b] > 0 => conn[b] \notin {"none", "evicting", "evict_drain"}
    /\ b \in registered /\ strikes[b] = 2 =>
         \E p \in Pings : pc[p] = "restart" /\ target[p] = b

WritersHaveFrames == \A b \in Bridges : writer[b] = "writing" => writing[b] \in Frames

StrikesInv == PingsOneByOne /\ StrikesBounded /\ WritersHaveFrames

\* A ping that is about to fail finds one strike at most.
LEMMA OneStrikeAtMost ==
  ASSUME TypeOK, StrikesInv, NEW c \in Pings, pc[c] = "await",
         target[c] \in registered
  PROVE  strikes[target[c]] \in 0..1
<1>1. target[c] \in Bridges /\ strikes[target[c]] \in 0..2
  BY DEF TypeOK
<1>2. ASSUME strikes[target[c]] = 2 PROVE FALSE
  <2>1. PICK p \in Pings : pc[p] = "restart"
    BY <1>1, <1>2 DEF StrikesInv, StrikesBounded
  <2> QED BY <2>1 DEF StrikesInv, PingsOneByOne, Awaits
<1> QED BY <1>1, <1>2

\* Resetting the failures of a bridge keeps them in bounds.
LEMMA StrikesReset ==
  ASSUME strikes \in [Bridges -> 0..2], NEW b PROVE [strikes EXCEPT ![b] = 0] \in [Bridges -> 0..2]
<1>1. 0 \in 0..2
  OBVIOUS
<1> QED BY <1>1, Zenon

\* Counting one more failure keeps them in bounds, if there were at most one.
LEMMA StrikesGrow ==
  ASSUME strikes \in [Bridges -> 0..2], NEW b, strikes[b] \in 0..1
  PROVE  [strikes EXCEPT ![b] = @ + 1] \in [Bridges -> 0..2]
<1>1. strikes[b] + 1 \in 0..2
  OBVIOUS
<1> QED BY <1>1, Zenon

\* Every step keeps the types.
LEMMA TypeStep ==
  ASSUME TypeOK, StrikesInv, [Next]_vars
  PROVE TypeOK'
<1>0. CASE UNCHANGED vars
  BY <1>0 DEF vars, TypeOK, registry, links, hosts, callers, cancels
<1>1. ASSUME NEW c \in Calls, Insert(c) PROVE TypeOK'
  <2>1. target[c] \in Bridges \cup {0} /\ CallFrame(c) \in Frames
    BY DEF TypeOK, CallFrame, Frames
  <2>2. queue' \in [Bridges -> Seq(Frames)]
    BY <1>1, <2>1, OfferType DEF Insert, TypeOK
  <2>3. pending' \in [Calls -> Bridges \cup {0}] /\ pc' \in [Calls -> {"idle"} \cup Awaits \cup Ended]
    BY <1>1, <2>1, ZenonT(60) DEF Insert, Become, TypeOK, Awaits, Ended, NotSent
  <2> QED BY <1>1, <2>2, <2>3 DEF Insert, TypeOK, registry, hosts, cancels
<1>2. ASSUME NEW c \in Calls, GiveUpFull(c) PROVE TypeOK'
  BY <1>2 DEF GiveUpFull, Become, TypeOK, Awaits, Ended, NotSent, registry, links, hosts,
     callers, cancels
<1>3. ASSUME NEW c \in Calls, FindClosed(c) PROVE TypeOK'
  BY <1>3 DEF FindClosed, Become, TypeOK, Awaits, Ended, NotSent, registry, links, hosts,
     callers, cancels
<1>4. ASSUME NEW c \in Calls, CallerUnregisters(c) PROVE TypeOK'
  BY <1>4 DEF CallerUnregisters, Become, Unregister, TypeOK, Awaits, Ended, NotSent, registry,
     links, hosts, callers, cancels
<1>5. ASSUME NEW c \in Calls, CallerDrains(c) PROVE TypeOK'
  BY <1>5, DrainType DEF CallerDrains, Become, TypeOK, Awaits, Ended, NotSent, registry,
     links, hosts, callers, cancels
<1>6. ASSUME NEW c \in Calls, NoBridge(c) PROVE TypeOK'
  BY <1>6 DEF NoBridge, Become, TypeOK, Awaits, Ended, NotSent, registry, links, hosts,
     callers, cancels
<1>7. ASSUME NEW c \in Calls, Reresolve(c) PROVE TypeOK'
  BY <1>7 DEF Reresolve, Become, TypeOK, Awaits, Ended, NotSent, registry, links, hosts,
     callers, cancels
<1>8. ASSUME NEW c \in Calls, Return(c) PROVE TypeOK'
  BY <1>8 DEF Return, Become, AfterReply, TypeOK, Awaits, Ended, NotSent, registry, links,
     hosts, callers, cancels
<1>9. ASSUME NEW c \in Calls, PingSucceeds(c) PROVE TypeOK'
  <2>1. strikes' \in [Bridges -> 0..2]
    BY <1>9, StrikesReset DEF PingSucceeds, TypeOK
  <2>2. pc' \in [Calls -> {"idle"} \cup Awaits \cup Ended]
    BY <1>9 DEF PingSucceeds, Become, TypeOK, Ended
  <2> QED BY <1>9, <2>1, <2>2 DEF PingSucceeds, TypeOK, registry, links, hosts, cancels
<1>10. ASSUME NEW c \in Calls, Restart(c) PROVE TypeOK'
  <2>1. queue' \in [Bridges -> Seq(Frames)]
    BY <1>10, OfferType, ShutdownIsFrame DEF Restart, TypeOK
  <2>2. pc' \in [Calls -> {"idle"} \cup Awaits \cup Ended]
    BY <1>10, ZenonT(60) DEF Restart, Become, TypeOK, Ended, Awaits
  <2>3. registered' \subseteq Bridges
    BY <1>10 DEF Restart, Unregister, TypeOK
  <2> QED BY <1>10, <2>1, <2>2, <2>3 DEF Restart, TypeOK, hosts, cancels
<1>11. ASSUME NEW c \in Calls, RestartDrains(c) PROVE TypeOK'
  BY <1>11, DrainType DEF RestartDrains, Become, TypeOK, Awaits, Ended, NotSent, registry,
     links, hosts, callers, cancels
<1>12. ASSUME NEW c \in Calls, PingFails(c) PROVE TypeOK'
  <2>1. strikes' \in [Bridges -> 0..2]
    <3>1. target[c] \in registered => strikes[target[c]] \in 0..1
      BY <1>12, OneStrikeAtMost DEF PingFails
    <3>2. CASE target[c] \in registered
      <4>1. strikes' = [strikes EXCEPT ![target[c]] = @ + 1]
        BY <1>12, <3>2 DEF PingFails
      <4> QED BY <3>1, <3>2, <4>1, StrikesGrow DEF TypeOK
    <3>3. CASE target[c] \notin registered
      BY <1>12, <3>3 DEF PingFails, TypeOK
    <3> QED BY <3>2, <3>3
  <2>2. pc' \in [Calls -> {"idle"} \cup Awaits \cup Ended]
    BY <1>12 DEF PingFails, Become, TypeOK, Ended, Awaits
  <2>3. pending' \in [Calls -> Bridges \cup {0}]
    BY <1>12 DEF PingFails, Forget, TypeOK
  <2> QED BY <1>12, <2>1, <2>2, <2>3 DEF PingFails, TypeOK, registry, links, hosts, cancels
<1>13. ASSUME NEW c \in Calls, TimesOut(c) PROVE TypeOK'
  BY <1>13 DEF TimesOut, Become, Forget, TypeOK, Awaits, Ended, NotSent, registry, links,
     hosts, callers, cancels
<1>14. ASSUME NEW c \in Calls, Resolve(c) PROVE TypeOK'
  BY <1>14 DEF Resolve, Become, TypeOK, Awaits, Ended, NotSent, registry, links, hosts,
     callers, cancels
<1>15. ASSUME NEW c \in Calls, StartPing(c) PROVE TypeOK'
  BY <1>15 DEF StartPing, Become, TypeOK, Awaits, Ended, NotSent, registry, links, hosts,
     callers, cancels
<1>16. ASSUME NEW c \in Calls, Dropped(c) PROVE TypeOK'
  BY <1>16 DEF Dropped, Become, TypeOK, Awaits, Ended, NotSent, registry, links, hosts,
     callers, cancels
<1>17. ASSUME NEW b \in Bridges, Evict(b) PROVE TypeOK'
  <2>1. PICK old \in stale[b] : /\ victim' = [victim EXCEPT ![b] = old]
                               /\ Offer(old, ShutdownFrame) /\ Unregister(old)
    BY <1>17 DEF Evict
  <2>2. old \in Bridges
    BY <2>1 DEF TypeOK
  <2>3. queue' \in [Bridges -> Seq(Frames)]
    BY <2>1, <2>2, OfferType, ShutdownIsFrame DEF TypeOK
  <2>4. registered' \subseteq Bridges /\ victim' \in [Bridges -> Bridges \cup {0}]
    BY <2>1, <2>2 DEF Unregister, TypeOK
  <2> QED BY <1>17, <2>3, <2>4 DEF Evict, TypeOK, hosts, callers, cancels
<1>18. ASSUME NEW b \in Bridges, EvictDrains(b) PROVE TypeOK'
  BY <1>18, DrainType DEF EvictDrains, TypeOK, Awaits, Ended, NotSent, registry, links, hosts,
     callers, cancels
<1>19. ASSUME NEW b \in Bridges, Register(b) PROVE TypeOK'
  BY <1>19 DEF Register, TypeOK, Awaits, Ended, NotSent, registry, links, hosts, callers, cancels
<1>20. ASSUME NEW b \in Bridges, Accept(b) PROVE TypeOK'
  BY <1>20 DEF Accept, TypeOK, Awaits, Ended, NotSent, registry, links, hosts, callers, cancels
<1>21. ASSUME NEW b \in Bridges, Complete(b) PROVE TypeOK'
  <2>1. PICK d \in answers[b] :
          /\ answers' = [answers EXCEPT ![b] = @ \ {d}]
          /\ \/ /\ pending' = [pending EXCEPT ![d] = 0]
                /\ reply' = [reply EXCEPT ![d] = "answered"]
             \/ UNCHANGED <<pending, reply>>
    BY <1>21 DEF Complete
  <2>2. /\ pending' \in [Calls -> Bridges \cup {0}]
        /\ reply' \in [Calls -> {"none", "answered", "disconnected"}]
        /\ answers' \in [Bridges -> SUBSET Calls]
    <3>1. answers' \in [Bridges -> SUBSET Calls]
      BY <2>1 DEF TypeOK
    <3>2. /\ pending' \in [Calls -> Bridges \cup {0}]
          /\ reply' \in [Calls -> {"none", "answered", "disconnected"}]
      <4>1. CASE UNCHANGED <<pending, reply>>
        BY <4>1 DEF TypeOK
      <4>2. CASE /\ pending' = [pending EXCEPT ![d] = 0]
                 /\ reply' = [reply EXCEPT ![d] = "answered"]
        <5>1. pending' \in [Calls -> Bridges \cup {0}]
          BY <4>2 DEF TypeOK
        <5>2. reply' \in [Calls -> {"none", "answered", "disconnected"}]
          BY <4>2 DEF TypeOK
        <5> QED BY <5>1, <5>2
      <4> QED BY <2>1, <4>1, <4>2
    <3> QED BY <3>1, <3>2
  <2> QED BY <1>21, <2>2 DEF Complete, TypeOK, registry, links, cancels
<1>22. ASSUME NEW b \in Bridges, ConnectionEnds(b) PROVE TypeOK'
  BY <1>22 DEF ConnectionEnds, TypeOK, Awaits, Ended, NotSent, registry, links, hosts,
     callers, cancels
<1>23. ASSUME NEW b \in Bridges, ConnectionUnregisters(b) PROVE TypeOK'
  BY <1>23 DEF ConnectionUnregisters, Unregister, TypeOK, Awaits, Ended, NotSent, registry,
     links, hosts, callers, cancels
<1>24. ASSUME NEW b \in Bridges, ConnectionDrains(b) PROVE TypeOK'
  BY <1>24, DrainType DEF ConnectionDrains, TypeOK, Awaits, Ended, NotSent, registry, links,
     hosts, callers, cancels
<1>25. ASSUME NEW b \in Bridges, Close(b) PROVE TypeOK'
  BY <1>25 DEF Close, TypeOK, Awaits, Ended, NotSent, registry, links, hosts, callers, cancels
<1>26. ASSUME NEW b \in Bridges, WriterReceives(b) PROVE TypeOK'
  <2>1. queue[b] \in Seq(Frames)
    BY DEF TypeOK
  <2>2. /\ queue' \in [Bridges -> Seq(Frames)] /\ writing' \in [Bridges -> Frames \cup {Nil}]
        /\ writer' \in [Bridges -> {"none", "new", "receiving", "writing", "stuck", "clearing",
                                    "cleared", "done"}]
    <3>1. CASE queue[b] # <<>>
      <4>1. Head(queue[b]) \in Frames /\ Tail(queue[b]) \in Seq(Frames)
        BY <2>1, <3>1, HeadTailProperties
      <4>2. /\ writing' = [writing EXCEPT ![b] = Head(queue[b])]
            /\ queue' = [queue EXCEPT ![b] = Tail(queue[b])]
            /\ writer' = [writer EXCEPT ![b] = "writing"]
        BY <1>26, <3>1 DEF WriterReceives
      <4> QED BY <4>1, <4>2 DEF TypeOK
    <3>2. CASE queue[b] = <<>>
      <4>1. writer' = [writer EXCEPT ![b] = "done"] /\ UNCHANGED <<writing, queue>>
        BY <1>26, <3>2 DEF WriterReceives
      <4> QED BY <4>1 DEF TypeOK
    <3> QED BY <3>1, <3>2
  <2>3. UNCHANGED <<registry, conn, stale, victim, hosts, pending, callers, strikes, cancels>>
    BY <1>26 DEF WriterReceives
  <2> QED BY <2>2, <2>3 DEF TypeOK, registry, hosts, callers, cancels
<1>27. ASSUME NEW b \in Bridges, Write(b) PROVE TypeOK'
  <2>1. writing[b] \in Frames
    BY <1>27 DEF Write, StrikesInv, WritersHaveFrames
  <2>2. /\ active' \in [Bridges -> SUBSET Calls] /\ aborted' \subseteq Calls
        /\ handed' \in [Calls -> SUBSET Bridges] /\ host' \in [Bridges -> {"none", "up", "gone"}]
    <3>1. writing[b].kind \in {"call", "cancel"} => writing[b].call \in Calls
      BY <2>1 DEF Frames, ShutdownFrame
    <3>2. CASE writing[b].kind = "call"
      <4>1. /\ active' = [active EXCEPT ![b] = @ \cup {writing[b].call}]
            /\ handed' = [handed EXCEPT ![writing[b].call] = @ \cup {b}]
            /\ UNCHANGED <<host, aborted>>
        BY <1>27, <3>2 DEF Write
      <4> QED BY <3>1, <3>2, <4>1 DEF TypeOK
    <3>3. CASE writing[b].kind = "cancel"
      BY <1>27, <3>1, <3>3 DEF Write, TypeOK
    <3>4. CASE writing[b].kind = "shutdown"
      BY <1>27, <3>4 DEF Write, TypeOK
    <3> QED BY <1>27, <3>2, <3>3, <3>4 DEF Write
  <2>3. writing' \in [Bridges -> Frames \cup {Nil}]
    BY <1>27 DEF Write, TypeOK
  <2> QED BY <1>27, <2>2, <2>3 DEF Write, TypeOK, registry, callers, cancels
<1>28. ASSUME NEW b \in Bridges, WriteFails(b) PROVE TypeOK'
  BY <1>28 DEF WriteFails, WriterStops, TypeOK, Awaits, Ended, NotSent, registry, links,
     hosts, callers, cancels
<1>29. ASSUME NEW b \in Bridges, WriteTimesOut(b) PROVE TypeOK'
  BY <1>29 DEF WriteTimesOut, TypeOK, Awaits, Ended, NotSent, registry, links, hosts, callers,
     cancels
<1>30. ASSUME NEW b \in Bridges, WriterUnregisters(b) PROVE TypeOK'
  BY <1>30 DEF WriterUnregisters, Unregister, TypeOK, Awaits, Ended, NotSent, registry, links,
     hosts, callers, cancels
<1>31. ASSUME NEW b \in Bridges, WriterDrains(b) PROVE TypeOK'
  BY <1>31, DrainType DEF WriterDrains, TypeOK, Awaits, Ended, NotSent, registry, links,
     hosts, callers, cancels
<1>32. ASSUME NEW b \in Bridges, WriterGivesUp(b) PROVE TypeOK'
  BY <1>32 DEF WriterGivesUp, WriterStops, TypeOK, Awaits, Ended, NotSent, registry, links,
     hosts, callers, cancels
<1>33. ASSUME NEW b \in Bridges, Hello(b) PROVE TypeOK'
  BY <1>33 DEF Hello, TypeOK, Awaits, Ended, NotSent, registry, links, hosts, callers, cancels
<1>34. ASSUME NEW b \in Bridges, HelloFails(b) PROVE TypeOK'
  BY <1>34 DEF HelloFails, TypeOK, Awaits, Ended, NotSent, registry, links, hosts, callers,
     cancels
<1>35. ASSUME NEW b \in Bridges, HostAnswers(b) PROVE TypeOK'
  BY <1>35 DEF HostAnswers, TypeOK, Awaits, Ended, NotSent, registry, links, hosts, callers,
     cancels
<1>36. ASSUME NEW b \in Bridges, HostDies(b) PROVE TypeOK'
  BY <1>36 DEF HostDies, TypeOK, Awaits, Ended, NotSent, registry, links, hosts, callers, cancels
<1>37. ASSUME NEW o \in Owners, Collect(o) PROVE TypeOK'
  BY <1>37 DEF Collect, Due, TypeOK, Awaits, Ended, NotSent, registry, links, hosts, callers,
     cancels
<1>38. ASSUME NEW o \in Owners, SendCancel(o) PROVE TypeOK'
  <2>1. PICK e \in collected[o] :
          /\ collected' = [collected EXCEPT ![o] = @ \ {e}]
          /\ \/ UNCHANGED <<queue, cancel>>
             \/ /\ Offer(e[2], CancelFrame(e[1]))
                /\ cancel' = cancel \/ cancel' = [cancel EXCEPT ![o] = "refused"]
    BY <1>38 DEF SendCancel
  <2>2. e[1] \in Calls /\ e[2] \in Bridges
    BY <2>1 DEF TypeOK, Calls
  <2>3. queue' \in [Bridges -> Seq(Frames)]
    <3>1. CancelFrame(e[1]) \in Frames
      BY <2>2 DEF CancelFrame, Frames
    <3> QED BY <2>1, <2>2, <3>1, OfferType DEF TypeOK
  <2>4. /\ collected' \in [Owners -> SUBSET (Steps \X Bridges)]
        /\ cancel' \in [Owners -> {"no", "flagged", "sending", "refused", "ok", "failed"}]
    BY <2>1 DEF TypeOK
  <2> QED BY <1>38, <2>3, <2>4 DEF SendCancel, TypeOK, registry, hosts, callers
<1>39. ASSUME NEW o \in Owners, CancelReturns(o) PROVE TypeOK'
  BY <1>39 DEF CancelReturns, TypeOK, Awaits, Ended, NotSent, registry, links, hosts, callers,
     cancels
<1>40. ASSUME NEW o \in Owners, Cancel(o) PROVE TypeOK'
  BY <1>40 DEF Cancel, TypeOK, Awaits, Ended, NotSent, registry, links, hosts, callers, cancels
<1> QED
  BY <1>0, <1>1, <1>2, <1>3, <1>4, <1>5, <1>6, <1>7, <1>8, <1>9, <1>10, <1>11, <1>12,
     <1>13, <1>14, <1>15, <1>16, <1>17, <1>18, <1>19, <1>20, <1>21, <1>22, <1>23, <1>24,
     <1>25, <1>26, <1>27, <1>28, <1>29, <1>30, <1>31, <1>32, <1>33, <1>34, <1>35, <1>36,
     <1>37, <1>38, <1>39, <1>40
     DEF Next, CallerStep, TimerStep, ConnectionStep, WriterStep, CancelStep

\* A caller moves on: no ping starts to wait, none leaves a restart.
LEMMA CallerMoves ==
  ASSUME TypeOK, StrikesInv, NEW c \in Calls, NEW s,
         c \in Steps \/ (pc[c] \in Awaits /\ pc[c] # "restart" /\ s # "restart"),
         pc' = [pc EXCEPT ![c] = s],
         target' = target \/ \E b : target' = [target EXCEPT ![c] = b],
         registered' \subseteq registered, UNCHANGED <<strikes, conn, writer, writing>>
  PROVE  StrikesInv'
<1>1. ASSUME NEW p \in Pings, p # c PROVE pc'[p] = pc[p] /\ target'[p] = target[p]
  BY <1>1 DEF TypeOK, Calls
<1>2. c \in Pings => pc[c] \in Awaits /\ pc[c] # "restart"
  BY BridgeAssumption
<1>3. PingsOneByOne'
  BY <1>1, <1>2 DEF StrikesInv, PingsOneByOne
<1>4. StrikesBounded'
  BY <1>1, <1>2 DEF StrikesInv, StrikesBounded
<1> QED BY <1>3, <1>4 DEF StrikesInv, WritersHaveFrames

\* A ping that ends changes no strikes, or resets some.
LEMMA PingMoves ==
  ASSUME TypeOK, StrikesInv, NEW c \in Pings, NEW s, pc[c] = "await", s # "restart",
         pc' = [pc EXCEPT ![c] = s],
         \A n \in Bridges : strikes'[n] = 0 \/ strikes'[n] = strikes[n],
         UNCHANGED <<registered, target, conn, writer, writing>>
  PROVE  StrikesInv'
<1>1. ASSUME NEW p \in Pings, p # c PROVE pc'[p] = pc[p]
  BY <1>1 DEF TypeOK, Calls
<1>2. PingsOneByOne'
  BY <1>1 DEF StrikesInv, PingsOneByOne, Awaits
<1>3. StrikesBounded'
  BY <1>1 DEF StrikesInv, StrikesBounded
<1> QED BY <1>2, <1>3 DEF StrikesInv, WritersHaveFrames

\* Every step keeps pings one after the other and the failures of a bridge below the
\* restart.
LEMMA StrikesStep ==
  ASSUME TypeOK, StrikesInv, [Next]_vars
  PROVE StrikesInv'
<1>0. CASE UNCHANGED vars
  BY <1>0 DEF vars, registry, links, callers, StrikesInv, PingsOneByOne, StrikesBounded,
              WritersHaveFrames
<1>1. ASSUME NEW c \in Calls, Insert(c) PROVE StrikesInv'
  BY <1>1, CallerMoves DEF Insert, Become, Awaits, registry, links
<1>2. ASSUME NEW c \in Calls, GiveUpFull(c) PROVE StrikesInv'
  BY <1>2, CallerMoves DEF GiveUpFull, Become, Awaits, registry, links
<1>3. ASSUME NEW c \in Calls, FindClosed(c) PROVE StrikesInv'
  BY <1>3, CallerMoves DEF FindClosed, Become, Awaits, registry, links
<1>4. ASSUME NEW c \in Calls, CallerUnregisters(c) PROVE StrikesInv'
  BY <1>4, CallerMoves DEF CallerUnregisters, Become, Unregister, Awaits, registry, links
<1>5. ASSUME NEW c \in Calls, CallerDrains(c) PROVE StrikesInv'
  BY <1>5, CallerMoves DEF CallerDrains, Become, Awaits, registry, links
<1>6. ASSUME NEW c \in Calls, NoBridge(c) PROVE StrikesInv'
  BY <1>6, CallerMoves DEF NoBridge, Become, Awaits, registry, links
<1>7. ASSUME NEW c \in Calls, Reresolve(c) PROVE StrikesInv'
  BY <1>7, CallerMoves DEF Reresolve, Become, Awaits, registry, links
<1>8. ASSUME NEW c \in Calls, Return(c) PROVE StrikesInv'
  BY <1>8, CallerMoves DEF Return, Become, Awaits, registry, links
<1>9. ASSUME NEW c \in Calls, PingSucceeds(c) PROVE StrikesInv'
  <2>1. /\ pc' = [pc EXCEPT ![c] = "answered"] /\ pc[c] = "await" /\ c \in Pings
        /\ strikes' = [strikes EXCEPT ![target[c]] = 0]
        /\ UNCHANGED <<registered, target, conn, writer, writing>>
    BY <1>9 DEF PingSucceeds, Become, registry, links
  <2>2. strikes \in [Bridges -> 0..2]
    BY DEF TypeOK
  <2>3. ASSUME NEW n \in Bridges PROVE strikes'[n] = 0 \/ strikes'[n] = strikes[n]
    BY <2>1, <2>2
  <2> QED BY <2>1, <2>3, PingMoves
<1>10. ASSUME NEW c \in Calls, Restart(c) PROVE StrikesInv'
  <2>1. /\ pc' = [pc EXCEPT ![c] = "restart_drain"] \/ pc' = [pc EXCEPT ![c] = "timeout"]
        /\ pc[c] = "restart"
        /\ registered' = registered \ {target[c]}
        /\ UNCHANGED <<strikes, target, conn, writer, writing>>
    BY <1>10 DEF Restart, Become, Unregister
  <2>2. ASSUME NEW p \in Pings, p # c PROVE pc'[p] = pc[p]
    BY <2>1, <2>2 DEF TypeOK, Calls
  <2>3. PingsOneByOne'
    BY <2>1, <2>2 DEF StrikesInv, PingsOneByOne, Awaits
  <2>4. StrikesBounded'
    BY <2>1, <2>2 DEF StrikesInv, StrikesBounded
  <2> QED BY <2>1, <2>3, <2>4 DEF StrikesInv, WritersHaveFrames
<1>11. ASSUME NEW c \in Calls, RestartDrains(c) PROVE StrikesInv'
  BY <1>11, CallerMoves DEF RestartDrains, Become, Awaits, registry, links
<1>12. ASSUME NEW c \in Calls, PingFails(c) PROVE StrikesInv'
  <2>1. /\ pc[c] = "await" /\ c \in Pings
        /\ UNCHANGED <<registered, target, conn, writer, writing>>
    BY <1>12 DEF PingFails, registry, links
  <2>2. CASE target[c] \notin registered
    <3>1. strikes' = strikes /\ pc' = [pc EXCEPT ![c] = "timeout"]
      BY <1>12, <2>2 DEF PingFails, Become
    <3> QED BY <2>1, <3>1, PingMoves
  <2>3. CASE target[c] \in registered
    <3>1. PICK n \in Bridges : n = target[c]
      BY <2>3 DEF TypeOK
    <3>2. /\ strikes' = [strikes EXCEPT ![n] = @ + 1]
          /\ pc' = [pc EXCEPT ![c] = IF strikes[n] + 1 >= 2 THEN "restart" ELSE "timeout"]
      BY <1>12, <2>3, <3>1 DEF PingFails, Become, StrikesOut
    <3>3. strikes[n] \in 0..1 /\ strikes \in [Bridges -> 0..2]
      BY <2>1, <2>3, <3>1, OneStrikeAtMost DEF TypeOK
    <3>4. pc \in [Calls -> {"idle"} \cup Awaits \cup Ended]
      BY DEF TypeOK
    <3>5. ASSUME NEW p \in Pings, p # c PROVE pc'[p] = pc[p] /\ pc[p] \notin Awaits
      BY <2>1, <3>2, <3>4, <3>5 DEF Calls, StrikesInv, PingsOneByOne, Awaits
    <3>6. PingsOneByOne'
      BY <3>5 DEF PingsOneByOne
    <3>7. strikes'[n] = 2 => pc'[c] = "restart"
      BY <3>2, <3>3, <3>4
    <3>8. ASSUME NEW k \in Bridges, k # n PROVE strikes'[k] = strikes[k]
      BY <3>2, <3>3, <3>8
    <3>9. ASSUME NEW p \in Pings, pc[p] = "restart" PROVE FALSE
      BY <2>1, <3>5, <3>9 DEF Awaits
    <3>10. StrikesBounded'
      BY <2>1, <2>3, <3>1, <3>7, <3>8, <3>9 DEF StrikesInv, StrikesBounded
    <3> QED BY <2>1, <3>6, <3>10 DEF StrikesInv, WritersHaveFrames
  <2> QED BY <2>2, <2>3
<1>13. ASSUME NEW c \in Calls, TimesOut(c) PROVE StrikesInv'
  BY <1>13, CallerMoves DEF TimesOut, Become, Awaits, registry, links
<1>14. ASSUME NEW c \in Calls, Resolve(c) PROVE StrikesInv'
  BY <1>14, CallerMoves DEF Resolve, Become, Awaits, registry, links
<1>15. ASSUME NEW c \in Calls, StartPing(c) PROVE StrikesInv'
  <2>1. /\ pc' = [pc EXCEPT ![c] = "insert"] /\ pc[c] = "idle"
        /\ \A p \in Pings : pc[p] \notin Awaits
        /\ UNCHANGED <<registered, strikes, conn, writer, writing>>
    BY <1>15 DEF StartPing, Become, registry, links
  <2>2. PingsOneByOne'
    BY <2>1 DEF PingsOneByOne, TypeOK, Calls
  <2>3. ASSUME NEW p \in Pings PROVE pc[p] # "restart"
    BY <2>1 DEF Awaits
  <2>4. StrikesBounded'
    BY <2>1, <2>3 DEF StrikesInv, StrikesBounded
  <2> QED BY <2>1, <2>2, <2>4 DEF StrikesInv, WritersHaveFrames
<1>16. ASSUME NEW c \in Calls, Dropped(c) PROVE StrikesInv'
  BY <1>16, CallerMoves DEF Dropped, Become, Awaits, registry, links
<1>17. ASSUME NEW b \in Bridges, Evict(b) PROVE StrikesInv'
  BY <1>17 DEF Evict, Unregister, StrikesInv, PingsOneByOne, StrikesBounded,
     WritersHaveFrames, TypeOK, registry, links, hosts, callers, cancels
<1>18. ASSUME NEW b \in Bridges, EvictDrains(b) PROVE StrikesInv'
  BY <1>18 DEF EvictDrains, StrikesInv, PingsOneByOne, StrikesBounded, WritersHaveFrames,
     TypeOK, registry, links, hosts, callers, cancels
<1>19. ASSUME NEW b \in Bridges, Register(b) PROVE StrikesInv'
  BY <1>19 DEF Register, StrikesInv, PingsOneByOne, StrikesBounded, WritersHaveFrames, TypeOK,
     registry, links, hosts, callers, cancels
<1>20. ASSUME NEW b \in Bridges, Accept(b) PROVE StrikesInv'
  BY <1>20 DEF Accept, StrikesInv, PingsOneByOne, StrikesBounded, WritersHaveFrames, TypeOK,
     registry, links, hosts, callers, cancels
<1>21. ASSUME NEW b \in Bridges, Complete(b) PROVE StrikesInv'
  BY <1>21 DEF Complete, StrikesInv, PingsOneByOne, StrikesBounded, WritersHaveFrames, TypeOK,
     registry, links, hosts, callers, cancels
<1>22. ASSUME NEW b \in Bridges, ConnectionEnds(b) PROVE StrikesInv'
  BY <1>22 DEF ConnectionEnds, StrikesInv, PingsOneByOne, StrikesBounded, WritersHaveFrames,
     TypeOK, registry, links, hosts, callers, cancels
<1>23. ASSUME NEW b \in Bridges, ConnectionUnregisters(b) PROVE StrikesInv'
  BY <1>23 DEF ConnectionUnregisters, Unregister, StrikesInv, PingsOneByOne, StrikesBounded,
     WritersHaveFrames, TypeOK, registry, links, hosts, callers, cancels
<1>24. ASSUME NEW b \in Bridges, ConnectionDrains(b) PROVE StrikesInv'
  BY <1>24 DEF ConnectionDrains, StrikesInv, PingsOneByOne, StrikesBounded, WritersHaveFrames,
     TypeOK, registry, links, hosts, callers, cancels
<1>25. ASSUME NEW b \in Bridges, Close(b) PROVE StrikesInv'
  BY <1>25 DEF Close, StrikesInv, PingsOneByOne, StrikesBounded, WritersHaveFrames, TypeOK,
     registry, links, hosts, callers, cancels
<1>26. ASSUME NEW b \in Bridges, WriterReceives(b) PROVE StrikesInv'
  <2>1. UNCHANGED <<registered, strikes, target, conn, pc>>
    BY <1>26 DEF WriterReceives, registry, callers
  <2>2. WritersHaveFrames'
    <3>1. CASE queue[b] # <<>>
      <4>1. Head(queue[b]) \in Frames
        BY <3>1, HeadTailProperties DEF TypeOK
      <4>2. /\ writing' = [writing EXCEPT ![b] = Head(queue[b])]
            /\ writer' = [writer EXCEPT ![b] = "writing"]
        BY <1>26, <3>1 DEF WriterReceives
      <4> QED BY <4>1, <4>2 DEF StrikesInv, WritersHaveFrames, TypeOK
    <3>2. CASE queue[b] = <<>>
      <4>1. writer' = [writer EXCEPT ![b] = "done"] /\ UNCHANGED writing
        BY <1>26, <3>2 DEF WriterReceives
      <4> QED BY <4>1 DEF StrikesInv, WritersHaveFrames, TypeOK
    <3> QED BY <3>1, <3>2
  <2> QED BY <2>1, <2>2 DEF StrikesInv, PingsOneByOne, StrikesBounded
<1>27. ASSUME NEW b \in Bridges, Write(b) PROVE StrikesInv'
  BY <1>27 DEF Write, StrikesInv, PingsOneByOne, StrikesBounded, WritersHaveFrames, TypeOK,
     registry, links, hosts, callers, cancels
<1>28. ASSUME NEW b \in Bridges, WriteFails(b) PROVE StrikesInv'
  BY <1>28 DEF WriteFails, WriterStops, StrikesInv, PingsOneByOne, StrikesBounded,
     WritersHaveFrames, TypeOK, registry, links, hosts, callers, cancels
<1>29. ASSUME NEW b \in Bridges, WriteTimesOut(b) PROVE StrikesInv'
  BY <1>29 DEF WriteTimesOut, StrikesInv, PingsOneByOne, StrikesBounded, WritersHaveFrames,
     TypeOK, registry, links, hosts, callers, cancels
<1>30. ASSUME NEW b \in Bridges, WriterUnregisters(b) PROVE StrikesInv'
  BY <1>30 DEF WriterUnregisters, Unregister, StrikesInv, PingsOneByOne, StrikesBounded,
     WritersHaveFrames, TypeOK, registry, links, hosts, callers, cancels
<1>31. ASSUME NEW b \in Bridges, WriterDrains(b) PROVE StrikesInv'
  BY <1>31 DEF WriterDrains, StrikesInv, PingsOneByOne, StrikesBounded, WritersHaveFrames,
     TypeOK, registry, links, hosts, callers, cancels
<1>32. ASSUME NEW b \in Bridges, WriterGivesUp(b) PROVE StrikesInv'
  BY <1>32 DEF WriterGivesUp, WriterStops, StrikesInv, PingsOneByOne, StrikesBounded,
     WritersHaveFrames, TypeOK, registry, links, hosts, callers, cancels
<1>33. ASSUME NEW b \in Bridges, Hello(b) PROVE StrikesInv'
  BY <1>33 DEF Hello, StrikesInv, PingsOneByOne, StrikesBounded, WritersHaveFrames, TypeOK,
     registry, links, hosts, callers, cancels
<1>34. ASSUME NEW b \in Bridges, HelloFails(b) PROVE StrikesInv'
  BY <1>34 DEF HelloFails, StrikesInv, PingsOneByOne, StrikesBounded, WritersHaveFrames,
     TypeOK, registry, links, hosts, callers, cancels
<1>35. ASSUME NEW b \in Bridges, HostAnswers(b) PROVE StrikesInv'
  BY <1>35 DEF HostAnswers, StrikesInv, PingsOneByOne, StrikesBounded, WritersHaveFrames,
     TypeOK, registry, links, hosts, callers, cancels
<1>36. ASSUME NEW b \in Bridges, HostDies(b) PROVE StrikesInv'
  BY <1>36 DEF HostDies, StrikesInv, PingsOneByOne, StrikesBounded, WritersHaveFrames, TypeOK,
     registry, links, hosts, callers, cancels
<1>37. ASSUME NEW o \in Owners, Collect(o) PROVE StrikesInv'
  BY <1>37 DEF Collect, StrikesInv, PingsOneByOne, StrikesBounded, WritersHaveFrames, TypeOK,
     registry, links, hosts, callers, cancels
<1>38. ASSUME NEW o \in Owners, SendCancel(o) PROVE StrikesInv'
  BY <1>38 DEF SendCancel, StrikesInv, PingsOneByOne, StrikesBounded, WritersHaveFrames,
     TypeOK, registry, links, hosts, callers, cancels
<1>39. ASSUME NEW o \in Owners, CancelReturns(o) PROVE StrikesInv'
  BY <1>39 DEF CancelReturns, StrikesInv, PingsOneByOne, StrikesBounded, WritersHaveFrames,
     TypeOK, registry, links, hosts, callers, cancels
<1>40. ASSUME NEW o \in Owners, Cancel(o) PROVE StrikesInv'
  BY <1>40 DEF Cancel, StrikesInv, PingsOneByOne, StrikesBounded, WritersHaveFrames, TypeOK,
     registry, links, hosts, callers, cancels
<1> QED
  BY <1>0, <1>1, <1>2, <1>3, <1>4, <1>5, <1>6, <1>7, <1>8, <1>9, <1>10, <1>11, <1>12,
     <1>13, <1>14, <1>15, <1>16, <1>17, <1>18, <1>19, <1>20, <1>21, <1>22, <1>23, <1>24,
     <1>25, <1>26, <1>27, <1>28, <1>29, <1>30, <1>31, <1>32, <1>33, <1>34, <1>35, <1>36,
     <1>37, <1>38, <1>39, <1>40
     DEF Next, CallerStep, TimerStep, ConnectionStep, WriterStep, CancelStep

\* The initial state is well-typed, with no ping under way.
LEMMA InitTyped == Init => TypeOK /\ StrikesInv
<1> SUFFICES ASSUME Init PROVE TypeOK /\ StrikesInv
  OBVIOUS
<1>1. \A b \in Bridges : queue[b] \in Seq(Frames)
  BY EmptySeq DEF Init
<1>2. TypeOK
  BY <1>1 DEF Init, TypeOK, Awaits, Ended, NotSent
<1> QED BY <1>2 DEF Init, StrikesInv, PingsOneByOne, StrikesBounded, WritersHaveFrames,
           Awaits, Calls

\* The type invariant holds in every reachable state; in particular a bridge never has
\* more than two strikes (health_ping_failure_requires_restart, request_native_bridge_restart).
THEOREM TypeCorrect == Spec => []TypeOK
<1>1. Init => TypeOK /\ StrikesInv
  BY InitTyped
<1>2. TypeOK /\ StrikesInv /\ [Next]_vars => (TypeOK /\ StrikesInv)'
  BY TypeStep, StrikesStep
<1> QED BY <1>1, <1>2, PTL DEF Spec

-----------------------------------------------------------------------------
(* A call is on its way to, or was given to, no other host than its caller's target, and    *)
(* to none while the caller may still send it or was refused. OneHostPerCall alone is not   *)
(* inductive: the resend would break it if the first frame could still be in a channel.     *)

Unsent == {"idle", "insert", "full", "closed", "unregister", "drain", "rewait"} \cup NotSent

SentInv ==
  \A c \in Calls, b \in Bridges :
    InPipe(c, b) \/ b \in handed[c] => b = target[c] /\ pc[c] \notin Unsent

\* A writer that holds no frame holds no call.
LEMMA NilIsNoFrame == \A c \in Calls : CallFrame(c) # Nil
BY BridgeAssumption DEF CallFrame, Frames

\* Putting another frame on a channel, or none, puts no call on its way.
LEMMA OfferOther ==
  ASSUME TypeOK, NEW n, NEW f \in Frames, f.kind # "call", Offer(n, f) \/ UNCHANGED queue,
         writing' = writing, NEW d \in Calls, NEW b \in Bridges, InPipe(d, b)'
  PROVE  InPipe(d, b)
<1>1. CASE queue' = queue
  BY <1>1 DEF InPipe
<1>2. CASE queue' = [queue EXCEPT ![n] = Append(@, f)] /\ b = n
  <2>1. queue[b] \in Seq(Frames) /\ queue'[b] = Append(queue[b], f)
    BY <1>2 DEF TypeOK
  <2>2. ASSUME NEW i \in DOMAIN queue'[b], queue'[b][i] = CallFrame(d)
        PROVE  i \in DOMAIN queue[b] /\ queue[b][i] = CallFrame(d)
    <3>1. f # CallFrame(d)
      BY DEF CallFrame
    <3> QED BY <2>1, <2>2, <3>1
  <2> QED BY <2>2 DEF InPipe
<1>3. CASE queue' = [queue EXCEPT ![n] = Append(@, f)] /\ b # n
  <2>1. queue'[b] = queue[b]
    BY <1>3 DEF TypeOK
  <2> QED BY <2>1 DEF InPipe
<1> QED BY <1>1, <1>2, <1>3 DEF Offer

\* Putting a call on a channel puts only this call on its way, and only there.
LEMMA AppendAdds ==
  ASSUME TypeOK, NEW n, NEW c \in Calls, queue' = [queue EXCEPT ![n] = Append(@, CallFrame(c))],
         writing' = writing, NEW d \in Calls, NEW b \in Bridges, InPipe(d, b)'
  PROVE  InPipe(d, b) \/ (d = c /\ b = n)
<1>1. CASE b = n /\ d # c
  <2>1. queue[b] \in Seq(Frames) /\ queue'[b] = Append(queue[b], CallFrame(c))
    BY <1>1 DEF TypeOK
  <2>2. ASSUME NEW i \in DOMAIN queue'[b], queue'[b][i] = CallFrame(d)
        PROVE  i \in DOMAIN queue[b] /\ queue[b][i] = CallFrame(d)
    <3>1. CallFrame(c) # CallFrame(d)
      BY <1>1 DEF CallFrame
    <3> QED BY <2>1, <2>2, <3>1
  <2> QED BY <2>2 DEF InPipe
<1>2. CASE b # n
  <2>1. queue'[b] = queue[b]
    BY <1>2 DEF TypeOK
  <2> QED BY <2>1 DEF InPipe
<1> QED BY <1>1, <1>2

\* What the writer takes was in the channel.
LEMMA HeadWasQueued ==
  ASSUME TypeOK, NEW n \in Bridges, queue[n] # <<>>,
         writing' = [writing EXCEPT ![n] = Head(queue[n])],
         queue' = [queue EXCEPT ![n] = Tail(queue[n])],
         NEW d \in Calls, NEW b \in Bridges, InPipe(d, b)'
  PROVE  InPipe(d, b)
<1>1. CASE b = n
  <2>1. /\ queue[n] \in Seq(Frames)
        /\ queue'[n] = Tail(queue[n]) /\ writing'[n] = Head(queue[n])
    BY DEF TypeOK
  <2>2. CASE writing'[n] = CallFrame(d)
    <3>1. 1 \in DOMAIN queue[n] /\ queue[n][1] = CallFrame(d)
      BY <2>1, <2>2
    <3> QED BY <1>1, <3>1 DEF InPipe
  <2>3. ASSUME NEW i \in DOMAIN queue'[n], queue'[n][i] = CallFrame(d)
        PROVE  i + 1 \in DOMAIN queue[n] /\ queue[n][i + 1] = CallFrame(d)
    <3>1. /\ Tail(queue[n]) \in Seq(Frames) /\ Len(Tail(queue[n])) = Len(queue[n]) - 1
          /\ \A j \in 1 .. Len(Tail(queue[n])) : Tail(queue[n])[j] = queue[n][j + 1]
      BY <2>1, HeadTailProperties
    <3>2. i \in 1 .. Len(Tail(queue[n])) /\ DOMAIN queue[n] = 1 .. Len(queue[n])
      BY <2>1, <2>3, <3>1, LenProperties
    <3>3. Len(queue[n]) \in Nat
      BY <2>1, LenProperties
    <3>4. i + 1 \in DOMAIN queue[n]
      BY <3>1, <3>2, <3>3
    <3>5. queue[n][i + 1] = CallFrame(d)
      BY <2>1, <2>3, <3>1, <3>2, Zenon
    <3> QED BY <3>4, <3>5
  <2> QED BY <1>1, <2>2, <2>3 DEF InPipe
<1>2. CASE b # n
  <2>1. queue'[b] = queue[b] /\ writing'[b] = writing[b]
    BY <1>2 DEF TypeOK
  <2> QED BY <2>1 DEF InPipe
<1> QED BY <1>1, <1>2

\* Nothing new is on its way, and nobody goes back to sending or is refused.
LEMMA QuietStep ==
  ASSUME SentInv, UNCHANGED <<handed, target>>,
         \A c \in Calls, b \in Bridges : InPipe(c, b)' => InPipe(c, b),
         UNCHANGED pc \/ \A c \in Calls : pc'[c] \in Unsent => pc[c] \in Unsent
  PROVE  SentInv'
BY DEF SentInv

\* A caller that moves on without touching a channel disturbs nothing about what was sent,
\* unless it goes back to having sent nothing.
LEMMA CallerQuiet ==
  ASSUME TypeOK, SentInv, UNCHANGED <<writing, queue, handed, target>>, NEW c \in Calls, NEW s,
         pc' = [pc EXCEPT ![c] = s], s \in Unsent => pc[c] \in Unsent
  PROVE  SentInv'
<1>1. ASSUME NEW d \in Calls, pc'[d] \in Unsent PROVE pc[d] \in Unsent
  BY <1>1 DEF TypeOK
<1> QED BY <1>1, QuietStep DEF InPipe

\* A caller that has sent nothing resolves a bridge.
LEMMA CallerAims ==
  ASSUME TypeOK, SentInv, UNCHANGED <<writing, queue, handed>>, NEW c \in Calls,
         pc[c] \in Unsent, pc' = [pc EXCEPT ![c] = "insert"],
         \E b : target' = [target EXCEPT ![c] = b]
  PROVE  SentInv'
<1>1. ASSUME NEW d \in Calls, d # c PROVE pc'[d] = pc[d] /\ target'[d] = target[d]
  BY <1>1 DEF TypeOK
<1> QED BY <1>1 DEF SentInv, InPipe

\* Every step keeps a call in one place: unsent, on its way to one host, or with it.
LEMMA SentStep ==
  ASSUME TypeOK, StrikesInv, SentInv, [Next]_vars
  PROVE  SentInv'
<1>0. CASE UNCHANGED vars
  BY <1>0, QuietStep DEF vars, InPipe, links, hosts, callers
<1>1. ASSUME NEW c \in Calls, Insert(c) PROVE SentInv'
  <2>1. UNCHANGED <<writing, handed, target>> /\ pc[c] = "insert"
    BY <1>1 DEF Insert, hosts
  <2>2. CASE pc' = [pc EXCEPT ![c] = "cancelled"] /\ UNCHANGED queue
    <3>1. ASSUME NEW d \in Calls, pc'[d] \in Unsent PROVE pc[d] \in Unsent
      BY <2>1, <2>2, <3>1 DEF Unsent, TypeOK
    <3> QED BY <2>1, <2>2, <3>1, QuietStep DEF InPipe
  <2>3. CASE /\ ~(ReceiverAlive(target[c]) /\ HasRoom(target[c])) /\ UNCHANGED queue
             /\ pc' = [pc EXCEPT ![c] = "closed"] \/ pc' = [pc EXCEPT ![c] = "full"]
    <3>1. ASSUME NEW d \in Calls, pc'[d] \in Unsent PROVE pc[d] \in Unsent
      BY <2>1, <2>3, <3>1 DEF Unsent, TypeOK
    <3> QED BY <2>1, <2>3, <3>1, QuietStep DEF InPipe
  <2>4. CASE /\ queue' = [queue EXCEPT ![target[c]] = Append(@, CallFrame(c))]
             /\ pc' = [pc EXCEPT ![c] = "await"]
    <3> SUFFICES ASSUME NEW d \in Calls, NEW n \in Bridges, InPipe(d, n)' \/ n \in handed'[d]
                 PROVE  n = target'[d] /\ pc'[d] \notin Unsent
      BY DEF SentInv
    <3>1. InPipe(d, n)' => InPipe(d, n) \/ (d = c /\ n = target[c])
      BY <2>1, <2>4, AppendAdds
    <3>2. ~InPipe(c, n) /\ n \notin handed[c]
      BY <2>1 DEF SentInv, Unsent
    <3>3. CASE d = c
      BY <2>1, <2>4, <3>1, <3>2, <3>3 DEF Unsent, NotSent, TypeOK
    <3>4. CASE d # c
      BY <2>1, <2>4, <3>1, <3>4 DEF SentInv, TypeOK
    <3> QED BY <3>3, <3>4
  <2> QED BY <1>1, <2>2, <2>3, <2>4 DEF Insert, Become, Offer
<1>2. ASSUME NEW c \in Calls, GiveUpFull(c) PROVE SentInv'
  BY <1>2, CallerQuiet DEF GiveUpFull, Become, Unsent, NotSent, Awaits, links, hosts
<1>3. ASSUME NEW c \in Calls, FindClosed(c) PROVE SentInv'
  BY <1>3, CallerQuiet DEF FindClosed, Become, Unsent, NotSent, Awaits, links, hosts
<1>4. ASSUME NEW c \in Calls, CallerUnregisters(c) PROVE SentInv'
  BY <1>4, CallerQuiet DEF CallerUnregisters, Become, Unsent, NotSent, Awaits, links, hosts
<1>5. ASSUME NEW c \in Calls, CallerDrains(c) PROVE SentInv'
  BY <1>5, CallerQuiet DEF CallerDrains, Become, Unsent, NotSent, Awaits, links, hosts
<1>6. ASSUME NEW c \in Calls, NoBridge(c) PROVE SentInv'
  BY <1>6, CallerQuiet DEF NoBridge, Become, Unsent, NotSent, Awaits, links, hosts
<1>7. ASSUME NEW c \in Calls, Reresolve(c) PROVE SentInv'
  BY <1>7, CallerAims DEF Reresolve, Become, Unsent, links, hosts
<1>8. ASSUME NEW c \in Calls, Return(c) PROVE SentInv'
  BY <1>8, CallerQuiet DEF Return, Become, AfterReply, TypeOK, Unsent, NotSent, Awaits, links,
     hosts
<1>9. ASSUME NEW c \in Calls, PingSucceeds(c) PROVE SentInv'
  BY <1>9, CallerQuiet DEF PingSucceeds, Become, Unsent, NotSent, Awaits, links, hosts
<1>10. ASSUME NEW c \in Calls, Restart(c) PROVE SentInv'
  <2>1. /\ Offer(target[c], ShutdownFrame) \/ UNCHANGED queue
        /\ pc' = [pc EXCEPT ![c] = "restart_drain"] \/ pc' = [pc EXCEPT ![c] = "timeout"]
        /\ pc[c] = "restart"
        /\ UNCHANGED <<writing, handed, target>>
    BY <1>10 DEF Restart, Become, hosts
  <2>2. ASSUME NEW d \in Calls, NEW n \in Bridges, InPipe(d, n)' PROVE InPipe(d, n)
    BY <2>1, <2>2, OfferOther, ShutdownIsFrame DEF ShutdownFrame
  <2>3. ASSUME NEW d \in Calls, pc'[d] \in Unsent PROVE pc[d] \in Unsent
    BY <2>1, <2>3 DEF Unsent, NotSent, TypeOK
  <2> QED BY <2>1, <2>2, <2>3, QuietStep
<1>11. ASSUME NEW c \in Calls, RestartDrains(c) PROVE SentInv'
  BY <1>11, CallerQuiet DEF RestartDrains, Become, Unsent, NotSent, Awaits, links, hosts
<1>12. ASSUME NEW c \in Calls, PingFails(c) PROVE SentInv'
  BY <1>12, CallerQuiet DEF PingFails, Become, Unsent, NotSent, Awaits, links, hosts
<1>13. ASSUME NEW c \in Calls, TimesOut(c) PROVE SentInv'
  BY <1>13, CallerQuiet DEF TimesOut, Become, Unsent, NotSent, Awaits, links, hosts
<1>14. ASSUME NEW c \in Calls, Resolve(c) PROVE SentInv'
  BY <1>14, CallerAims DEF Resolve, Become, Unsent, links, hosts
<1>15. ASSUME NEW c \in Calls, StartPing(c) PROVE SentInv'
  BY <1>15, CallerAims DEF StartPing, Become, Unsent, links, hosts
<1>16. ASSUME NEW c \in Calls, Dropped(c) PROVE SentInv'
  BY <1>16, CallerQuiet DEF Dropped, Become, Unsent, NotSent, Awaits, links, hosts
<1>17. ASSUME NEW b \in Bridges, Evict(b) PROVE SentInv'
  <2>1. PICK old \in stale[b] : Offer(old, ShutdownFrame)
    BY <1>17 DEF Evict
  <2>2. UNCHANGED <<writing, handed, target, pc>>
    BY <1>17 DEF Evict, hosts, callers
  <2>3. ASSUME NEW d \in Calls, NEW n \in Bridges, InPipe(d, n)' PROVE InPipe(d, n)
    BY <2>1, <2>2, <2>3, OfferOther, ShutdownIsFrame DEF ShutdownFrame
  <2> QED BY <2>2, <2>3, QuietStep
<1>18. ASSUME NEW b \in Bridges, EvictDrains(b) PROVE SentInv'
  BY <1>18, QuietStep DEF EvictDrains, InPipe, registry, links, hosts, callers
<1>19. ASSUME NEW b \in Bridges, Register(b) PROVE SentInv'
  BY <1>19, QuietStep DEF Register, InPipe, registry, links, hosts, callers
<1>20. ASSUME NEW b \in Bridges, Accept(b) PROVE SentInv'
  BY <1>20, QuietStep DEF Accept, InPipe, registry, links, hosts, callers
<1>21. ASSUME NEW b \in Bridges, Complete(b) PROVE SentInv'
  BY <1>21, QuietStep DEF Complete, InPipe, registry, links, hosts, callers
<1>22. ASSUME NEW b \in Bridges, ConnectionEnds(b) PROVE SentInv'
  BY <1>22, QuietStep DEF ConnectionEnds, InPipe, registry, links, hosts, callers
<1>23. ASSUME NEW b \in Bridges, ConnectionUnregisters(b) PROVE SentInv'
  BY <1>23, QuietStep DEF ConnectionUnregisters, InPipe, registry, links, hosts, callers
<1>24. ASSUME NEW b \in Bridges, ConnectionDrains(b) PROVE SentInv'
  BY <1>24, QuietStep DEF ConnectionDrains, InPipe, registry, links, hosts, callers
<1>25. ASSUME NEW b \in Bridges, Close(b) PROVE SentInv'
  BY <1>25, QuietStep DEF Close, InPipe, registry, links, hosts, callers
<1>26. ASSUME NEW b \in Bridges, WriterReceives(b) PROVE SentInv'
  <2>1. UNCHANGED <<handed, target, pc>>
    BY <1>26 DEF WriterReceives, hosts, callers
  <2>2. ASSUME NEW d \in Calls, NEW n \in Bridges, InPipe(d, n)' PROVE InPipe(d, n)
    <3>1. CASE queue[b] # <<>>
      <4>1. /\ writing' = [writing EXCEPT ![b] = Head(queue[b])]
            /\ queue' = [queue EXCEPT ![b] = Tail(queue[b])]
        BY <1>26, <3>1 DEF WriterReceives
      <4> QED BY <2>2, <3>1, <4>1, HeadWasQueued
    <3>2. CASE queue[b] = <<>>
      BY <1>26, <2>2, <3>2 DEF WriterReceives, InPipe
    <3> QED BY <3>1, <3>2
  <2> QED BY <2>1, <2>2, QuietStep
<1>27. ASSUME NEW b \in Bridges, Write(b) PROVE SentInv'
  <2>1. UNCHANGED <<queue, target, pc>> /\ writing' = [writing EXCEPT ![b] = Nil]
    BY <1>27 DEF Write, callers
  <2>2. ASSUME NEW d \in Calls, NEW n \in Bridges, InPipe(d, n)' PROVE InPipe(d, n)
    BY <2>1, <2>2, NilIsNoFrame DEF InPipe, TypeOK
  <2>3. CASE writing[b].kind # "call"
    <3>1. UNCHANGED handed
      BY <1>27, <2>3 DEF Write
    <3> QED BY <2>1, <2>2, <3>1, QuietStep
  <2>4. CASE writing[b].kind = "call"
    <3>1. handed' = [handed EXCEPT ![writing[b].call] = @ \cup {b}]
      BY <1>27, <2>4 DEF Write
    <3>2. writing[b] \in Frames
      BY <1>27 DEF Write, StrikesInv, WritersHaveFrames
    <3>3. writing[b].call \in Calls /\ writing[b] = CallFrame(writing[b].call)
      BY <2>4, <3>2 DEF Frames, CallFrame, ShutdownFrame
    <3> SUFFICES ASSUME NEW d \in Calls, NEW n \in Bridges, InPipe(d, n)' \/ n \in handed'[d]
                 PROVE  n = target'[d] /\ pc'[d] \notin Unsent
      BY DEF SentInv
    <3>4. InPipe(d, n) \/ n \in handed[d]
      <4>1. n \in handed'[d] => n \in handed[d] \/ (d = writing[b].call /\ n = b)
        BY <3>1, <3>3 DEF TypeOK
      <4> QED BY <2>2, <3>3, <4>1 DEF InPipe
    <3> QED BY <2>1, <3>4 DEF SentInv
  <2> QED BY <2>3, <2>4
<1>28. ASSUME NEW b \in Bridges, WriteFails(b) PROVE SentInv'
  <2>1. /\ UNCHANGED <<handed, target, pc>>
        /\ writing' = [writing EXCEPT ![b] = Nil] /\ queue' = [queue EXCEPT ![b] = <<>>]
    BY <1>28 DEF WriteFails, WriterStops, hosts, callers
  <2>2. ASSUME NEW d \in Calls, NEW n \in Bridges, InPipe(d, n)' PROVE InPipe(d, n)
    BY <2>1, <2>2, NilIsNoFrame DEF InPipe, TypeOK
  <2> QED BY <2>1, <2>2, QuietStep
<1>29. ASSUME NEW b \in Bridges, WriteTimesOut(b) PROVE SentInv'
  BY <1>29, QuietStep DEF WriteTimesOut, InPipe, registry, links, hosts, callers
<1>30. ASSUME NEW b \in Bridges, WriterUnregisters(b) PROVE SentInv'
  BY <1>30, QuietStep DEF WriterUnregisters, InPipe, registry, links, hosts, callers
<1>31. ASSUME NEW b \in Bridges, WriterDrains(b) PROVE SentInv'
  BY <1>31, QuietStep DEF WriterDrains, InPipe, registry, links, hosts, callers
<1>32. ASSUME NEW b \in Bridges, WriterGivesUp(b) PROVE SentInv'
  <2>1. /\ UNCHANGED <<handed, target, pc>>
        /\ writing' = [writing EXCEPT ![b] = Nil] /\ queue' = [queue EXCEPT ![b] = <<>>]
    BY <1>32 DEF WriterGivesUp, WriterStops, hosts, callers
  <2>2. ASSUME NEW d \in Calls, NEW n \in Bridges, InPipe(d, n)' PROVE InPipe(d, n)
    BY <2>1, <2>2, NilIsNoFrame DEF InPipe, TypeOK
  <2> QED BY <2>1, <2>2, QuietStep
<1>33. ASSUME NEW b \in Bridges, Hello(b) PROVE SentInv'
  BY <1>33, QuietStep DEF Hello, InPipe, registry, links, hosts, callers
<1>34. ASSUME NEW b \in Bridges, HelloFails(b) PROVE SentInv'
  <2>1. UNCHANGED <<handed, target, pc, writing>> /\ queue' = [queue EXCEPT ![b] = <<>>]
    BY <1>34 DEF HelloFails, callers
  <2>2. ASSUME NEW d \in Calls, NEW n \in Bridges, InPipe(d, n)' PROVE InPipe(d, n)
    BY <2>1, <2>2 DEF InPipe, TypeOK
  <2> QED BY <2>1, <2>2, QuietStep
<1>35. ASSUME NEW b \in Bridges, HostAnswers(b) PROVE SentInv'
  BY <1>35, QuietStep DEF HostAnswers, InPipe, registry, links, hosts, callers
<1>36. ASSUME NEW b \in Bridges, HostDies(b) PROVE SentInv'
  BY <1>36, QuietStep DEF HostDies, InPipe, registry, links, hosts, callers
<1>37. ASSUME NEW o \in Owners, Collect(o) PROVE SentInv'
  BY <1>37, QuietStep DEF Collect, InPipe, registry, links, hosts, callers
<1>38. ASSUME NEW o \in Owners, SendCancel(o) PROVE SentInv'
  <2>1. PICK e \in collected[o] : Offer(e[2], CancelFrame(e[1])) \/ UNCHANGED queue
    BY <1>38 DEF SendCancel
  <2>2. UNCHANGED <<writing, handed, target, pc>>
    BY <1>38 DEF SendCancel, hosts, callers
  <2>3. e[1] \in Calls
    BY <2>1 DEF TypeOK, Calls
  <2>4. ASSUME NEW d \in Calls, NEW n \in Bridges, InPipe(d, n)' PROVE InPipe(d, n)
    BY <2>1, <2>2, <2>3, <2>4, OfferOther DEF CancelFrame, Frames
  <2> QED BY <2>2, <2>4, QuietStep
<1>39. ASSUME NEW o \in Owners, CancelReturns(o) PROVE SentInv'
  BY <1>39, QuietStep DEF CancelReturns, InPipe, registry, links, hosts, callers
<1>40. ASSUME NEW o \in Owners, Cancel(o) PROVE SentInv'
  BY <1>40, QuietStep DEF Cancel, InPipe, registry, links, hosts, callers
<1> QED
  BY <1>0, <1>1, <1>2, <1>3, <1>4, <1>5, <1>6, <1>7, <1>8, <1>9, <1>10, <1>11, <1>12,
     <1>13, <1>14, <1>15, <1>16, <1>17, <1>18, <1>19, <1>20, <1>21, <1>22, <1>23, <1>24,
     <1>25, <1>26, <1>27, <1>28, <1>29, <1>30, <1>31, <1>32, <1>33, <1>34, <1>35, <1>36,
     <1>37, <1>38, <1>39, <1>40
     DEF Next, CallerStep, TimerStep, ConnectionStep, WriterStep, CancelStep

\* The strengthened invariant holds in every reachable state.
THEOREM SentInvHolds == Spec => []SentInv
<1>1. Init => SentInv
  BY NilIsNoFrame DEF Init, SentInv, InPipe
<1>2. Init => TypeOK /\ StrikesInv
  BY InitTyped
<1>3. TypeOK /\ StrikesInv /\ SentInv /\ [Next]_vars => (TypeOK /\ StrikesInv /\ SentInv)'
  BY TypeStep, StrikesStep, SentStep
<1> QED BY <1>1, <1>2, <1>3, PTL DEF Spec

\* For any number of bridges, a call is given to one host at most, and is on its way to no
\* other (the resend in try_call_native_bridge_raw_inner).
THEOREM OneHostPerCallHolds == Spec => []OneHostPerCall
<1>1. TypeOK /\ SentInv => OneHostPerCall
  <2> SUFFICES ASSUME TypeOK, SentInv, NEW c \in Calls
               PROVE  Cardinality(handed[c] \cup {b \in Bridges : InPipe(c, b)}) <= 1
    BY DEF OneHostPerCall
  <2>1. handed[c] \cup {b \in Bridges : InPipe(c, b)} \in SUBSET {target[c]}
    BY DEF SentInv, TypeOK
  <2>2. IsFiniteSet({target[c]}) /\ Cardinality({target[c]}) = 1
    BY FS_Singleton
  <2> QED BY <2>1, <2>2, FS_Subset
<1> QED BY <1>1, TypeCorrect, SentInvHolds, PTL

\* A caller that is told that its call was not sent can rely on it, now and later.
THEOREM RefusedIsNotSentHolds == Spec => []RefusedIsNotSent
<1>1. TypeOK /\ SentInv => RefusedIsNotSent
  BY DEF TypeOK, SentInv, RefusedIsNotSent, Unsent
<1> QED BY <1>1, TypeCorrect, SentInvHolds, PTL

-----------------------------------------------------------------------------
(* The bridge implements ExtensionCall.                                      *)

\* Only a host that was given a call answers it, and only its answer is told.
AnswerInv ==
  /\ \A c \in Calls, b \in Bridges : c \in active[b] \cup answers[b] => b \in handed[c]
  /\ \A c \in Calls : reply[c] = "answered" => handed[c] # {}

\* Every step keeps answers with the hosts that were given the call.
LEMMA AnswerStep ==
  ASSUME TypeOK, AnswerInv, [Next]_vars
  PROVE  AnswerInv'
<1>0. CASE UNCHANGED vars
  BY <1>0 DEF vars, AnswerInv, hosts, callers
<1>1. ASSUME NEW c \in Calls, Insert(c) PROVE AnswerInv'
  BY <1>1 DEF Insert, AnswerInv, TypeOK, hosts, callers
<1>2. ASSUME NEW c \in Calls, GiveUpFull(c) PROVE AnswerInv'
  BY <1>2 DEF GiveUpFull, AnswerInv, TypeOK, hosts, callers
<1>3. ASSUME NEW c \in Calls, FindClosed(c) PROVE AnswerInv'
  BY <1>3 DEF FindClosed, AnswerInv, TypeOK, hosts, callers
<1>4. ASSUME NEW c \in Calls, CallerUnregisters(c) PROVE AnswerInv'
  BY <1>4 DEF CallerUnregisters, AnswerInv, TypeOK, hosts, callers
<1>5. ASSUME NEW c \in Calls, CallerDrains(c) PROVE AnswerInv'
  BY <1>5 DEF CallerDrains, AnswerInv, TypeOK, hosts, callers, Drain
<1>6. ASSUME NEW c \in Calls, NoBridge(c) PROVE AnswerInv'
  BY <1>6 DEF NoBridge, AnswerInv, TypeOK, hosts, callers
<1>7. ASSUME NEW c \in Calls, Reresolve(c) PROVE AnswerInv'
  BY <1>7 DEF Reresolve, AnswerInv, TypeOK, hosts, callers
<1>8. ASSUME NEW c \in Calls, Return(c) PROVE AnswerInv'
  BY <1>8 DEF Return, AnswerInv, TypeOK, hosts, callers
<1>9. ASSUME NEW c \in Calls, PingSucceeds(c) PROVE AnswerInv'
  BY <1>9 DEF PingSucceeds, AnswerInv, TypeOK, hosts, callers
<1>10. ASSUME NEW c \in Calls, Restart(c) PROVE AnswerInv'
  BY <1>10 DEF Restart, AnswerInv, TypeOK, hosts, callers
<1>11. ASSUME NEW c \in Calls, RestartDrains(c) PROVE AnswerInv'
  BY <1>11 DEF RestartDrains, AnswerInv, TypeOK, hosts, callers, Drain
<1>12. ASSUME NEW c \in Calls, PingFails(c) PROVE AnswerInv'
  BY <1>12 DEF PingFails, AnswerInv, TypeOK, hosts, callers
<1>13. ASSUME NEW c \in Calls, TimesOut(c) PROVE AnswerInv'
  BY <1>13 DEF TimesOut, AnswerInv, TypeOK, hosts, callers
<1>14. ASSUME NEW c \in Calls, Resolve(c) PROVE AnswerInv'
  BY <1>14 DEF Resolve, AnswerInv, TypeOK, hosts, callers
<1>15. ASSUME NEW c \in Calls, StartPing(c) PROVE AnswerInv'
  BY <1>15 DEF StartPing, AnswerInv, TypeOK, hosts, callers
<1>16. ASSUME NEW c \in Calls, Dropped(c) PROVE AnswerInv'
  BY <1>16 DEF Dropped, AnswerInv, TypeOK, hosts, callers
<1>17. ASSUME NEW b \in Bridges, Evict(b) PROVE AnswerInv'
  BY <1>17 DEF Evict, AnswerInv, TypeOK, hosts, callers
<1>18. ASSUME NEW b \in Bridges, EvictDrains(b) PROVE AnswerInv'
  BY <1>18 DEF EvictDrains, AnswerInv, TypeOK, hosts, callers, Drain
<1>19. ASSUME NEW b \in Bridges, Register(b) PROVE AnswerInv'
  BY <1>19 DEF Register, AnswerInv, TypeOK, hosts, callers
<1>20. ASSUME NEW b \in Bridges, Accept(b) PROVE AnswerInv'
  BY <1>20 DEF Accept, AnswerInv, TypeOK, hosts, callers
<1>21. ASSUME NEW b \in Bridges, Complete(b) PROVE AnswerInv'
  <2>1. PICK d \in answers[b] :
          /\ answers' = [answers EXCEPT ![b] = @ \ {d}]
          /\ reply' = [reply EXCEPT ![d] = "answered"] \/ UNCHANGED reply
    BY <1>21 DEF Complete
  <2>2. UNCHANGED <<active, handed>>
    BY <1>21 DEF Complete
  <2>3. handed[d] # {} /\ d \in Calls
    BY <2>1 DEF AnswerInv, TypeOK
  <2> QED BY <2>1, <2>2, <2>3 DEF AnswerInv, TypeOK
<1>22. ASSUME NEW b \in Bridges, ConnectionEnds(b) PROVE AnswerInv'
  BY <1>22 DEF ConnectionEnds, AnswerInv, TypeOK, hosts, callers
<1>23. ASSUME NEW b \in Bridges, ConnectionUnregisters(b) PROVE AnswerInv'
  BY <1>23 DEF ConnectionUnregisters, AnswerInv, TypeOK, hosts, callers
<1>24. ASSUME NEW b \in Bridges, ConnectionDrains(b) PROVE AnswerInv'
  BY <1>24 DEF ConnectionDrains, AnswerInv, TypeOK, hosts, callers, Drain
<1>25. ASSUME NEW b \in Bridges, Close(b) PROVE AnswerInv'
  BY <1>25 DEF Close, AnswerInv, TypeOK, hosts, callers
<1>26. ASSUME NEW b \in Bridges, WriterReceives(b) PROVE AnswerInv'
  BY <1>26 DEF WriterReceives, AnswerInv, TypeOK, hosts, callers
<1>27. ASSUME NEW b \in Bridges, Write(b) PROVE AnswerInv'
  <2>1. UNCHANGED <<answers, reply>>
    BY <1>27 DEF Write, callers
  <2>2. CASE writing[b].kind = "call"
    <3>1. /\ active' = [active EXCEPT ![b] = @ \cup {writing[b].call}]
          /\ handed' = [handed EXCEPT ![writing[b].call] = @ \cup {b}]
      BY <1>27, <2>2 DEF Write
    <3>2. ASSUME NEW c \in Calls
          PROVE  /\ handed[c] \subseteq handed'[c]
                 /\ c \in active'[b] => c \in active[b] \/ b \in handed'[c]
                 /\ \A n \in Bridges : n # b => active'[n] = active[n]
      BY <3>1 DEF TypeOK
    <3> QED BY <2>1, <3>2 DEF AnswerInv, TypeOK
  <2>3. CASE writing[b].kind # "call"
    <3>1. UNCHANGED handed /\ (UNCHANGED active \/ active' = [active EXCEPT ![b] = {}])
      BY <1>27, <2>3 DEF Write
    <3>2. \A n \in Bridges : active'[n] \subseteq active[n]
      BY <3>1 DEF TypeOK
    <3> QED BY <2>1, <3>1, <3>2 DEF AnswerInv
  <2> QED BY <2>2, <2>3
<1>28. ASSUME NEW b \in Bridges, WriteFails(b) PROVE AnswerInv'
  BY <1>28 DEF WriteFails, AnswerInv, TypeOK, hosts, callers
<1>29. ASSUME NEW b \in Bridges, WriteTimesOut(b) PROVE AnswerInv'
  BY <1>29 DEF WriteTimesOut, AnswerInv, TypeOK, hosts, callers
<1>30. ASSUME NEW b \in Bridges, WriterUnregisters(b) PROVE AnswerInv'
  BY <1>30 DEF WriterUnregisters, AnswerInv, TypeOK, hosts, callers
<1>31. ASSUME NEW b \in Bridges, WriterDrains(b) PROVE AnswerInv'
  BY <1>31 DEF WriterDrains, AnswerInv, TypeOK, hosts, callers, Drain
<1>32. ASSUME NEW b \in Bridges, WriterGivesUp(b) PROVE AnswerInv'
  BY <1>32 DEF WriterGivesUp, AnswerInv, TypeOK, hosts, callers
<1>33. ASSUME NEW b \in Bridges, Hello(b) PROVE AnswerInv'
  BY <1>33 DEF Hello, AnswerInv, TypeOK, hosts, callers
<1>34. ASSUME NEW b \in Bridges, HelloFails(b) PROVE AnswerInv'
  BY <1>34 DEF HelloFails, AnswerInv, TypeOK, hosts, callers
<1>35. ASSUME NEW b \in Bridges, HostAnswers(b) PROVE AnswerInv'
  BY <1>35 DEF HostAnswers, AnswerInv, TypeOK, hosts, callers
<1>36. ASSUME NEW b \in Bridges, HostDies(b) PROVE AnswerInv'
  BY <1>36 DEF HostDies, AnswerInv, TypeOK, hosts, callers
<1>37. ASSUME NEW o \in Owners, Collect(o) PROVE AnswerInv'
  BY <1>37 DEF Collect, AnswerInv, TypeOK, hosts, callers
<1>38. ASSUME NEW o \in Owners, SendCancel(o) PROVE AnswerInv'
  BY <1>38 DEF SendCancel, AnswerInv, TypeOK, hosts, callers
<1>39. ASSUME NEW o \in Owners, CancelReturns(o) PROVE AnswerInv'
  BY <1>39 DEF CancelReturns, AnswerInv, TypeOK, hosts, callers
<1>40. ASSUME NEW o \in Owners, Cancel(o) PROVE AnswerInv'
  BY <1>40 DEF Cancel, AnswerInv, TypeOK, hosts, callers
<1> QED
  BY <1>0, <1>1, <1>2, <1>3, <1>4, <1>5, <1>6, <1>7, <1>8, <1>9, <1>10, <1>11, <1>12,
     <1>13, <1>14, <1>15, <1>16, <1>17, <1>18, <1>19, <1>20, <1>21, <1>22, <1>23, <1>24,
     <1>25, <1>26, <1>27, <1>28, <1>29, <1>30, <1>31, <1>32, <1>33, <1>34, <1>35, <1>36,
     <1>37, <1>38, <1>39, <1>40
     DEF Next, CallerStep, TimerStep, ConnectionStep, WriterStep, CancelStep

\* The hosts a call was given to number none or one.
LEMMA RunsAreFew ==
  ASSUME TypeOK, SentInv, NEW c \in Calls
  PROVE  /\ handed[c] = {} => Cardinality(handed[c]) = 0
         /\ handed[c] # {} => Cardinality(handed[c]) = 1 /\ handed[c] = {target[c]}
<1>1. handed[c] \subseteq {target[c]}
  BY DEF SentInv, TypeOK
<1>2. handed[c] = {} \/ handed[c] = {target[c]}
  BY <1>1
<1> QED BY <1>2, FS_EmptySet, FS_Singleton

\* A step that tells no caller and gives no call away is a stutter of ExtensionCall.
LEMMA PromiseWaits ==
  ASSUME UNCHANGED <<pc, handed>>
  PROVE  [Promise!Next]_(Promise!vars)
BY DEF Promise!vars

\* A caller moves on, or is told its outcome.
LEMMA PromiseTells ==
  ASSUME TypeOK, SentInv, TypeOK', SentInv', UNCHANGED handed, NEW c \in Calls, NEW s,
         pc[c] \notin Ended, pc' = [pc EXCEPT ![c] = s],
         s = "answered" => handed[c] # {}
  PROVE  [Promise!Next]_(Promise!vars)
<1>1. pc'[c] = s /\ \A d \in Calls : d # c => pc'[d] = pc[d]
  BY DEF TypeOK
<1>2. CASE s \notin Ended
  BY <1>1, <1>2 DEF Promise!vars
<1>3. CASE s \in Ended
  <2>1. s \in NotSent => handed[c] = {}
    BY <1>1 DEF SentInv, TypeOK, Unsent
  <2> DEFINE told == [d \in Calls |-> IF pc[d] \in Ended THEN pc[d] ELSE "open"]
             runs == [d \in Calls |-> Cardinality(handed[d])]
  <2>2. told[c] = "open" /\ told' = [told EXCEPT ![c] = s]
    BY <1>1, <1>3
  <2>3. /\ s \in NotSent => runs[c] = 0
        /\ s = "answered" => runs[c] = 1
        /\ runs' = runs
    BY <2>1, RunsAreFew
  <2>4. s \in Promise!Outcomes
    BY <1>3 DEF Promise!Outcomes, Ended
  <2>5. Promise!Tell(c)
    BY <2>2, <2>3, <2>4 DEF Promise!Tell
  <2> QED BY <2>5 DEF Promise!Next
<1> QED BY <1>2, <1>3

\* The writer gives a call to the host: for the first time, or to the same host again.
LEMMA PromiseGives ==
  ASSUME TypeOK, SentInv, TypeOK', SentInv', UNCHANGED pc, NEW c \in Calls, NEW b \in Bridges,
         writing[b] = CallFrame(c), handed' = [handed EXCEPT ![c] = @ \cup {b}]
  PROVE  [Promise!Next]_(Promise!vars)
<1>1. b = target[c] /\ pc[c] \notin NotSent
  BY DEF SentInv, InPipe, Unsent
<1>2. handed'[c] = handed[c] \cup {b} /\ \A d \in Calls : d # c => handed'[d] = handed[d]
  BY DEF TypeOK
<1>3. CASE b \in handed[c]
  BY <1>2, <1>3 DEF Promise!vars
<1>4. CASE b \notin handed[c]
  <2>1. handed[c] = {} /\ handed'[c] = {b}
    BY <1>1, <1>2, <1>4, RunsAreFew
  <2> DEFINE told == [d \in Calls |-> IF pc[d] \in Ended THEN pc[d] ELSE "open"]
             runs == [d \in Calls |-> Cardinality(handed[d])]
  <2>2. runs[c] = 0 /\ runs' = [runs EXCEPT ![c] = 1]
    <3>1. Cardinality(handed[c]) = 0 /\ Cardinality(handed'[c]) = 1
      BY <2>1, FS_EmptySet, FS_Singleton
    <3>2. \A d \in Calls : d # c => Cardinality(handed'[d]) = Cardinality(handed[d])
      BY <1>2
    <3> QED BY <3>1, <3>2
  <2>3. told[c] \notin NotSent /\ told' = told
    BY <1>1 DEF NotSent
  <2>4. Promise!Give(c)
    BY <2>2, <2>3 DEF Promise!Give
  <2> QED BY <2>4 DEF Promise!Next
<1> QED BY <1>3, <1>4

\* Every step of the bridge is a step of the promise, or leaves it alone.
LEMMA PromiseStep ==
  ASSUME TypeOK, StrikesInv, SentInv, AnswerInv, TypeOK', SentInv', [Next]_vars
  PROVE  [Promise!Next]_(Promise!vars)
<1>0. CASE UNCHANGED vars
  BY <1>0, PromiseWaits DEF vars, hosts, callers
<1>1. ASSUME NEW c \in Calls, Insert(c) PROVE [Promise!Next]_(Promise!vars)
  BY <1>1, PromiseTells DEF Insert, Become, hosts, Awaits, Ended, NotSent
<1>2. ASSUME NEW c \in Calls, GiveUpFull(c) PROVE [Promise!Next]_(Promise!vars)
  BY <1>2, PromiseTells DEF GiveUpFull, Become, hosts, Awaits, Ended, NotSent
<1>3. ASSUME NEW c \in Calls, FindClosed(c) PROVE [Promise!Next]_(Promise!vars)
  BY <1>3, PromiseTells DEF FindClosed, Become, hosts, Awaits, Ended, NotSent
<1>4. ASSUME NEW c \in Calls, CallerUnregisters(c) PROVE [Promise!Next]_(Promise!vars)
  BY <1>4, PromiseTells DEF CallerUnregisters, Become, hosts, Awaits, Ended, NotSent
<1>5. ASSUME NEW c \in Calls, CallerDrains(c) PROVE [Promise!Next]_(Promise!vars)
  BY <1>5, PromiseTells DEF CallerDrains, Become, hosts, Awaits, Ended, NotSent
<1>6. ASSUME NEW c \in Calls, NoBridge(c) PROVE [Promise!Next]_(Promise!vars)
  BY <1>6, PromiseTells DEF NoBridge, Become, hosts, Awaits, Ended, NotSent
<1>7. ASSUME NEW c \in Calls, Reresolve(c) PROVE [Promise!Next]_(Promise!vars)
  BY <1>7, PromiseTells DEF Reresolve, Become, hosts, Awaits, Ended, NotSent
<1>8. ASSUME NEW c \in Calls, Return(c) PROVE [Promise!Next]_(Promise!vars)
  BY <1>8, PromiseTells DEF Return, Become, hosts, AfterReply, AnswerInv, TypeOK, Awaits,
     Ended, NotSent
<1>9. ASSUME NEW c \in Calls, PingSucceeds(c) PROVE [Promise!Next]_(Promise!vars)
  BY <1>9, PromiseTells DEF PingSucceeds, Become, hosts, AfterReply, AnswerInv, TypeOK,
     Awaits, Ended, NotSent
<1>10. ASSUME NEW c \in Calls, Restart(c) PROVE [Promise!Next]_(Promise!vars)
  BY <1>10, PromiseTells DEF Restart, Become, hosts, Awaits, Ended, NotSent
<1>11. ASSUME NEW c \in Calls, RestartDrains(c) PROVE [Promise!Next]_(Promise!vars)
  BY <1>11, PromiseTells DEF RestartDrains, Become, hosts, Awaits, Ended, NotSent
<1>12. ASSUME NEW c \in Calls, PingFails(c) PROVE [Promise!Next]_(Promise!vars)
  BY <1>12, PromiseTells DEF PingFails, Become, hosts, Awaits, Ended, NotSent
<1>13. ASSUME NEW c \in Calls, TimesOut(c) PROVE [Promise!Next]_(Promise!vars)
  BY <1>13, PromiseTells DEF TimesOut, Become, hosts, Awaits, Ended, NotSent
<1>14. ASSUME NEW c \in Calls, Resolve(c) PROVE [Promise!Next]_(Promise!vars)
  BY <1>14, PromiseTells DEF Resolve, Become, hosts, Awaits, Ended, NotSent
<1>15. ASSUME NEW c \in Calls, StartPing(c) PROVE [Promise!Next]_(Promise!vars)
  BY <1>15, PromiseTells DEF StartPing, Become, hosts, Awaits, Ended, NotSent
<1>16. ASSUME NEW c \in Calls, Dropped(c) PROVE [Promise!Next]_(Promise!vars)
  BY <1>16, PromiseTells DEF Dropped, Become, hosts, Awaits, Ended, NotSent
<1>17. ASSUME NEW b \in Bridges, Evict(b) PROVE [Promise!Next]_(Promise!vars)
  BY <1>17, PromiseWaits DEF Evict, hosts, callers
<1>18. ASSUME NEW b \in Bridges, EvictDrains(b) PROVE [Promise!Next]_(Promise!vars)
  BY <1>18, PromiseWaits DEF EvictDrains, hosts, callers
<1>19. ASSUME NEW b \in Bridges, Register(b) PROVE [Promise!Next]_(Promise!vars)
  BY <1>19, PromiseWaits DEF Register, hosts, callers
<1>20. ASSUME NEW b \in Bridges, Accept(b) PROVE [Promise!Next]_(Promise!vars)
  BY <1>20, PromiseWaits DEF Accept, hosts, callers
<1>21. ASSUME NEW b \in Bridges, Complete(b) PROVE [Promise!Next]_(Promise!vars)
  BY <1>21, PromiseWaits DEF Complete, hosts, callers
<1>22. ASSUME NEW b \in Bridges, ConnectionEnds(b) PROVE [Promise!Next]_(Promise!vars)
  BY <1>22, PromiseWaits DEF ConnectionEnds, hosts, callers
<1>23. ASSUME NEW b \in Bridges, ConnectionUnregisters(b) PROVE [Promise!Next]_(Promise!vars)
  BY <1>23, PromiseWaits DEF ConnectionUnregisters, hosts, callers
<1>24. ASSUME NEW b \in Bridges, ConnectionDrains(b) PROVE [Promise!Next]_(Promise!vars)
  BY <1>24, PromiseWaits DEF ConnectionDrains, hosts, callers
<1>25. ASSUME NEW b \in Bridges, Close(b) PROVE [Promise!Next]_(Promise!vars)
  BY <1>25, PromiseWaits DEF Close, hosts, callers
<1>26. ASSUME NEW b \in Bridges, WriterReceives(b) PROVE [Promise!Next]_(Promise!vars)
  BY <1>26, PromiseWaits DEF WriterReceives, hosts, callers
<1>27. ASSUME NEW b \in Bridges, Write(b) PROVE [Promise!Next]_(Promise!vars)
  <2>1. UNCHANGED pc
    BY <1>27 DEF Write, callers
  <2>2. CASE writing[b].kind # "call"
    BY <1>27, <2>1, <2>2, PromiseWaits DEF Write
  <2>3. CASE writing[b].kind = "call"
    <3>1. PICK c \in Calls : writing[b] = CallFrame(c)
      BY <1>27, <2>3 DEF Write, StrikesInv, WritersHaveFrames, Frames, CallFrame, ShutdownFrame
    <3>2. handed' = [handed EXCEPT ![c] = @ \cup {b}]
      BY <1>27, <2>3, <3>1 DEF Write, CallFrame
    <3> QED BY <2>1, <3>1, <3>2, PromiseGives
  <2> QED BY <2>2, <2>3
<1>28. ASSUME NEW b \in Bridges, WriteFails(b) PROVE [Promise!Next]_(Promise!vars)
  BY <1>28, PromiseWaits DEF WriteFails, hosts, callers
<1>29. ASSUME NEW b \in Bridges, WriteTimesOut(b) PROVE [Promise!Next]_(Promise!vars)
  BY <1>29, PromiseWaits DEF WriteTimesOut, hosts, callers
<1>30. ASSUME NEW b \in Bridges, WriterUnregisters(b) PROVE [Promise!Next]_(Promise!vars)
  BY <1>30, PromiseWaits DEF WriterUnregisters, hosts, callers
<1>31. ASSUME NEW b \in Bridges, WriterDrains(b) PROVE [Promise!Next]_(Promise!vars)
  BY <1>31, PromiseWaits DEF WriterDrains, hosts, callers
<1>32. ASSUME NEW b \in Bridges, WriterGivesUp(b) PROVE [Promise!Next]_(Promise!vars)
  BY <1>32, PromiseWaits DEF WriterGivesUp, hosts, callers
<1>33. ASSUME NEW b \in Bridges, Hello(b) PROVE [Promise!Next]_(Promise!vars)
  BY <1>33, PromiseWaits DEF Hello, hosts, callers
<1>34. ASSUME NEW b \in Bridges, HelloFails(b) PROVE [Promise!Next]_(Promise!vars)
  BY <1>34, PromiseWaits DEF HelloFails, hosts, callers
<1>35. ASSUME NEW b \in Bridges, HostAnswers(b) PROVE [Promise!Next]_(Promise!vars)
  BY <1>35, PromiseWaits DEF HostAnswers, hosts, callers
<1>36. ASSUME NEW b \in Bridges, HostDies(b) PROVE [Promise!Next]_(Promise!vars)
  BY <1>36, PromiseWaits DEF HostDies, hosts, callers
<1>37. ASSUME NEW o \in Owners, Collect(o) PROVE [Promise!Next]_(Promise!vars)
  BY <1>37, PromiseWaits DEF Collect, hosts, callers
<1>38. ASSUME NEW o \in Owners, SendCancel(o) PROVE [Promise!Next]_(Promise!vars)
  BY <1>38, PromiseWaits DEF SendCancel, hosts, callers
<1>39. ASSUME NEW o \in Owners, CancelReturns(o) PROVE [Promise!Next]_(Promise!vars)
  BY <1>39, PromiseWaits DEF CancelReturns, hosts, callers
<1>40. ASSUME NEW o \in Owners, Cancel(o) PROVE [Promise!Next]_(Promise!vars)
  BY <1>40, PromiseWaits DEF Cancel, hosts, callers
<1> QED
  BY <1>0, <1>1, <1>2, <1>3, <1>4, <1>5, <1>6, <1>7, <1>8, <1>9, <1>10, <1>11, <1>12,
     <1>13, <1>14, <1>15, <1>16, <1>17, <1>18, <1>19, <1>20, <1>21, <1>22, <1>23, <1>24,
     <1>25, <1>26, <1>27, <1>28, <1>29, <1>30, <1>31, <1>32, <1>33, <1>34, <1>35, <1>36,
     <1>37, <1>38, <1>39, <1>40
     DEF Next, CallerStep, TimerStep, ConnectionStep, WriterStep, CancelStep

\* The bridge keeps its promise to callers (ExtensionCall): for any calls, hosts and queue
\* capacity, an answered call was given to exactly one host and a refused call to none.
THEOREM KeepsPromiseHolds == Spec => KeepsPromise
<1>1. Init => Promise!Init
  BY FS_EmptySet DEF Init, Promise!Init, Ended, NotSent
<1>2. Init => TypeOK /\ StrikesInv
  BY InitTyped
<1>3. Init => SentInv /\ AnswerInv
  BY NilIsNoFrame DEF Init, SentInv, InPipe, AnswerInv
<1>4. TypeOK /\ StrikesInv /\ SentInv /\ AnswerInv /\ [Next]_vars
        => (TypeOK /\ StrikesInv /\ SentInv /\ AnswerInv)'
  BY TypeStep, StrikesStep, SentStep, AnswerStep
<1>5. TypeOK /\ StrikesInv /\ SentInv /\ AnswerInv /\ TypeOK' /\ SentInv' /\ [Next]_vars
        => [Promise!Next]_(Promise!vars)
  BY PromiseStep
<1> QED BY <1>1, <1>2, <1>3, <1>4, <1>5, PTL DEF Spec, KeepsPromise, Promise!Spec

-----------------------------------------------------------------------------
(* The pending table.                                                        *)

\* Stages in which a caller has no entry.
Forgotten == {"idle", "insert", "unregister", "drain", "rewait", "restart", "restart_drain"}
               \cup (Ended \ {"dropped"})

\* An entry names its caller's target; a caller that was answered, has not sent, or is done
\* has none. A caller sends (again) only while its oneshot is empty: that is what the test
\* for a missing entry after a closed channel is for.
PendingInv ==
  \A c \in Calls :
    /\ pending[c] \in {0, target[c]}
    /\ pc[c] \in Forgotten \/ reply[c] # "none" => pending[c] = 0
    /\ \/ pc[c] \in {"idle", "insert", "rewait"}
       \/ pc[c] \in {"unregister", "drain"} /\ held[c] = target[c]
       => reply[c] = "none"
    /\ pc[c] \in Awaits => target[c] # 0

\* An evicting registration has chosen the bridge it drains.
VictimInv == \A b \in Bridges : conn[b] = "evict_drain" => victim[b] # 0

\* A step that touches neither the pending table nor the callers keeps PendingInv.
LEMMA PendingWaits ==
  ASSUME PendingInv, UNCHANGED <<pending, pc, target, held, reply>>
  PROVE  PendingInv'
BY DEF PendingInv

\* Draining a bridge removes entries and disconnects their callers, which forgets nothing
\* twice.
LEMMA DrainsPending ==
  ASSUME TypeOK, PendingInv, NEW b, b # 0, Drain(b), UNCHANGED <<pc, target, held>>
  PROVE  PendingInv'
<1> SUFFICES ASSUME NEW c \in Calls PROVE PendingInv!(c)'
  BY DEF PendingInv
<1>1. CASE pending[c] = b
  <2>1. pending'[c] = 0 /\ pc[c] \notin Forgotten
    BY <1>1 DEF Drain, PendingInv
  <2> QED BY <2>1 DEF PendingInv, Forgotten
<1>2. CASE pending[c] # b
  <2>1. pending'[c] = pending[c] /\ reply'[c] = reply[c]
    BY <1>2 DEF Drain
  <2> QED BY <2>1 DEF PendingInv
<1> QED BY <1>1, <1>2

\* The absent entry is not the entry of a bridge.
LEMMA ZeroIsNoBridge == 0 \notin Bridges
BY DEF Bridges

\* Every step keeps an eviction at work on a bridge, never on none.
LEMMA VictimStep ==
  ASSUME TypeOK, VictimInv, [Next]_vars
  PROVE  VictimInv'
<1>0. CASE UNCHANGED vars
  BY <1>0 DEF vars, links, VictimInv
<1>1. ASSUME NEW c \in Calls, Insert(c) PROVE VictimInv'
  BY <1>1 DEF Insert, VictimInv, TypeOK, links
<1>2. ASSUME NEW c \in Calls, GiveUpFull(c) PROVE VictimInv'
  BY <1>2 DEF GiveUpFull, VictimInv, TypeOK, links
<1>3. ASSUME NEW c \in Calls, FindClosed(c) PROVE VictimInv'
  BY <1>3 DEF FindClosed, VictimInv, TypeOK, links
<1>4. ASSUME NEW c \in Calls, CallerUnregisters(c) PROVE VictimInv'
  BY <1>4 DEF CallerUnregisters, VictimInv, TypeOK, links
<1>5. ASSUME NEW c \in Calls, CallerDrains(c) PROVE VictimInv'
  BY <1>5 DEF CallerDrains, VictimInv, TypeOK, links
<1>6. ASSUME NEW c \in Calls, NoBridge(c) PROVE VictimInv'
  BY <1>6 DEF NoBridge, VictimInv, TypeOK, links
<1>7. ASSUME NEW c \in Calls, Reresolve(c) PROVE VictimInv'
  BY <1>7 DEF Reresolve, VictimInv, TypeOK, links
<1>8. ASSUME NEW c \in Calls, Return(c) PROVE VictimInv'
  BY <1>8 DEF Return, VictimInv, TypeOK, links
<1>9. ASSUME NEW c \in Calls, PingSucceeds(c) PROVE VictimInv'
  BY <1>9 DEF PingSucceeds, VictimInv, TypeOK, links
<1>10. ASSUME NEW c \in Calls, Restart(c) PROVE VictimInv'
  BY <1>10 DEF Restart, VictimInv, TypeOK, links
<1>11. ASSUME NEW c \in Calls, RestartDrains(c) PROVE VictimInv'
  BY <1>11 DEF RestartDrains, VictimInv, TypeOK, links
<1>12. ASSUME NEW c \in Calls, PingFails(c) PROVE VictimInv'
  BY <1>12 DEF PingFails, VictimInv, TypeOK, links
<1>13. ASSUME NEW c \in Calls, TimesOut(c) PROVE VictimInv'
  BY <1>13 DEF TimesOut, VictimInv, TypeOK, links
<1>14. ASSUME NEW c \in Calls, Resolve(c) PROVE VictimInv'
  BY <1>14 DEF Resolve, VictimInv, TypeOK, links
<1>15. ASSUME NEW c \in Calls, StartPing(c) PROVE VictimInv'
  BY <1>15 DEF StartPing, VictimInv, TypeOK, links
<1>16. ASSUME NEW c \in Calls, Dropped(c) PROVE VictimInv'
  BY <1>16 DEF Dropped, VictimInv, TypeOK, links
<1>17. ASSUME NEW b \in Bridges, Evict(b) PROVE VictimInv'
  <2>1. PICK old \in stale[b] : victim' = [victim EXCEPT ![b] = old]
    BY <1>17 DEF Evict
  <2>2. old # 0
    BY <2>1, ZeroIsNoBridge DEF TypeOK
  <2> QED BY <1>17, <2>1, <2>2 DEF Evict, VictimInv, TypeOK
<1>18. ASSUME NEW b \in Bridges, EvictDrains(b) PROVE VictimInv'
  BY <1>18 DEF EvictDrains, VictimInv, TypeOK, links
<1>19. ASSUME NEW b \in Bridges, Register(b) PROVE VictimInv'
  BY <1>19 DEF Register, VictimInv, TypeOK, links
<1>20. ASSUME NEW b \in Bridges, Accept(b) PROVE VictimInv'
  BY <1>20 DEF Accept, VictimInv, TypeOK, links
<1>21. ASSUME NEW b \in Bridges, Complete(b) PROVE VictimInv'
  BY <1>21 DEF Complete, VictimInv, TypeOK, links
<1>22. ASSUME NEW b \in Bridges, ConnectionEnds(b) PROVE VictimInv'
  BY <1>22 DEF ConnectionEnds, VictimInv, TypeOK, links
<1>23. ASSUME NEW b \in Bridges, ConnectionUnregisters(b) PROVE VictimInv'
  BY <1>23 DEF ConnectionUnregisters, VictimInv, TypeOK, links
<1>24. ASSUME NEW b \in Bridges, ConnectionDrains(b) PROVE VictimInv'
  BY <1>24 DEF ConnectionDrains, VictimInv, TypeOK, links
<1>25. ASSUME NEW b \in Bridges, Close(b) PROVE VictimInv'
  BY <1>25 DEF Close, VictimInv, TypeOK, links
<1>26. ASSUME NEW b \in Bridges, WriterReceives(b) PROVE VictimInv'
  BY <1>26 DEF WriterReceives, VictimInv, TypeOK, links
<1>27. ASSUME NEW b \in Bridges, Write(b) PROVE VictimInv'
  BY <1>27 DEF Write, VictimInv, TypeOK, links
<1>28. ASSUME NEW b \in Bridges, WriteFails(b) PROVE VictimInv'
  BY <1>28 DEF WriteFails, WriterStops, VictimInv, TypeOK, links
<1>29. ASSUME NEW b \in Bridges, WriteTimesOut(b) PROVE VictimInv'
  BY <1>29 DEF WriteTimesOut, VictimInv, TypeOK, links
<1>30. ASSUME NEW b \in Bridges, WriterUnregisters(b) PROVE VictimInv'
  BY <1>30 DEF WriterUnregisters, VictimInv, TypeOK, links
<1>31. ASSUME NEW b \in Bridges, WriterDrains(b) PROVE VictimInv'
  BY <1>31 DEF WriterDrains, VictimInv, TypeOK, links
<1>32. ASSUME NEW b \in Bridges, WriterGivesUp(b) PROVE VictimInv'
  BY <1>32 DEF WriterGivesUp, WriterStops, VictimInv, TypeOK, links
<1>33. ASSUME NEW b \in Bridges, Hello(b) PROVE VictimInv'
  BY <1>33 DEF Hello, VictimInv, TypeOK, links
<1>34. ASSUME NEW b \in Bridges, HelloFails(b) PROVE VictimInv'
  BY <1>34 DEF HelloFails, VictimInv, TypeOK, links
<1>35. ASSUME NEW b \in Bridges, HostAnswers(b) PROVE VictimInv'
  BY <1>35 DEF HostAnswers, VictimInv, TypeOK, links
<1>36. ASSUME NEW b \in Bridges, HostDies(b) PROVE VictimInv'
  BY <1>36 DEF HostDies, VictimInv, TypeOK, links
<1>37. ASSUME NEW o \in Owners, Collect(o) PROVE VictimInv'
  BY <1>37 DEF Collect, VictimInv, TypeOK, links
<1>38. ASSUME NEW o \in Owners, SendCancel(o) PROVE VictimInv'
  BY <1>38 DEF SendCancel, VictimInv, TypeOK, links
<1>39. ASSUME NEW o \in Owners, CancelReturns(o) PROVE VictimInv'
  BY <1>39 DEF CancelReturns, VictimInv, TypeOK, links
<1>40. ASSUME NEW o \in Owners, Cancel(o) PROVE VictimInv'
  BY <1>40 DEF Cancel, VictimInv, TypeOK, links
<1> QED
  BY <1>0, <1>1, <1>2, <1>3, <1>4, <1>5, <1>6, <1>7, <1>8, <1>9, <1>10, <1>11, <1>12,
     <1>13, <1>14, <1>15, <1>16, <1>17, <1>18, <1>19, <1>20, <1>21, <1>22, <1>23, <1>24,
     <1>25, <1>26, <1>27, <1>28, <1>29, <1>30, <1>31, <1>32, <1>33, <1>34, <1>35, <1>36,
     <1>37, <1>38, <1>39, <1>40
     DEF Next, CallerStep, TimerStep, ConnectionStep, WriterStep, CancelStep

\* Every step keeps the table free of entries of callers that have been told.
LEMMA PendingStep ==
  ASSUME TypeOK, PendingInv, VictimInv, [Next]_vars
  PROVE  PendingInv'
<1>0. CASE UNCHANGED vars
  BY <1>0, PendingWaits DEF vars, callers
<1>1. ASSUME NEW c \in Calls, Insert(c) PROVE PendingInv'
  BY <1>1, ZeroIsNoBridge DEF Insert, Become, Forget, AfterReply, Drain, PendingInv,
     Forgotten, TypeOK, Ended, NotSent, Awaits, hosts, links
<1>2. ASSUME NEW c \in Calls, GiveUpFull(c) PROVE PendingInv'
  BY <1>2, ZeroIsNoBridge DEF GiveUpFull, Become, Forget, AfterReply, Drain, PendingInv,
     Forgotten, TypeOK, Ended, NotSent, Awaits, hosts, links
<1>3. ASSUME NEW c \in Calls, FindClosed(c) PROVE PendingInv'
  BY <1>3, ZeroIsNoBridge DEF FindClosed, Become, Forget, AfterReply, Drain, PendingInv,
     Forgotten, TypeOK, Ended, NotSent, Awaits, hosts, links
<1>4. ASSUME NEW c \in Calls, CallerUnregisters(c) PROVE PendingInv'
  BY <1>4, ZeroIsNoBridge DEF CallerUnregisters, Become, Forget, AfterReply, Drain,
     PendingInv, Forgotten, TypeOK, Ended, NotSent, Awaits, hosts, links
<1>5. ASSUME NEW c \in Calls, CallerDrains(c) PROVE PendingInv'
  <2>1. target[c] # 0 /\ Drain(target[c]) /\ UNCHANGED <<target, held>>
    BY <1>5 DEF CallerDrains, PendingInv, Awaits
  <2>2. ASSUME NEW d \in Calls, d # c PROVE pc'[d] = pc[d]
    BY <1>5, <2>2 DEF CallerDrains, Become, TypeOK
  <2> QED BY <1>5, <2>1, <2>2 DEF CallerDrains, Become, Drain, PendingInv, Forgotten, Ended,
             NotSent, Awaits, TypeOK
<1>6. ASSUME NEW c \in Calls, NoBridge(c) PROVE PendingInv'
  BY <1>6, ZeroIsNoBridge DEF NoBridge, Become, Forget, AfterReply, Drain, PendingInv,
     Forgotten, TypeOK, Ended, NotSent, Awaits, hosts, links
<1>7. ASSUME NEW c \in Calls, Reresolve(c) PROVE PendingInv'
  BY <1>7, ZeroIsNoBridge DEF Reresolve, Become, Forget, AfterReply, Drain, PendingInv,
     Forgotten, TypeOK, Ended, NotSent, Awaits, hosts, links
<1>8. ASSUME NEW c \in Calls, Return(c) PROVE PendingInv'
  BY <1>8, ZeroIsNoBridge DEF Return, Become, Forget, AfterReply, Drain, PendingInv,
     Forgotten, TypeOK, Ended, NotSent, Awaits, hosts, links
<1>9. ASSUME NEW c \in Calls, PingSucceeds(c) PROVE PendingInv'
  BY <1>9, ZeroIsNoBridge DEF PingSucceeds, Become, Forget, AfterReply, Drain, PendingInv,
     Forgotten, TypeOK, Ended, NotSent, Awaits, hosts, links
<1>10. ASSUME NEW c \in Calls, Restart(c) PROVE PendingInv'
  BY <1>10, ZeroIsNoBridge DEF Restart, Become, Forget, AfterReply, Drain, PendingInv,
     Forgotten, TypeOK, Ended, NotSent, Awaits, hosts, links
<1>11. ASSUME NEW c \in Calls, RestartDrains(c) PROVE PendingInv'
  <2>1. target[c] # 0 /\ Drain(target[c]) /\ UNCHANGED <<target, held>>
    BY <1>11 DEF RestartDrains, PendingInv, Awaits
  <2>2. ASSUME NEW d \in Calls, d # c PROVE pc'[d] = pc[d]
    BY <1>11, <2>2 DEF RestartDrains, Become, TypeOK
  <2> QED BY <1>11, <2>1, <2>2 DEF RestartDrains, Become, Drain, PendingInv, Forgotten, Ended,
             NotSent, Awaits, TypeOK
<1>12. ASSUME NEW c \in Calls, PingFails(c) PROVE PendingInv'
  BY <1>12, ZeroIsNoBridge DEF PingFails, Become, Forget, AfterReply, Drain, PendingInv,
     Forgotten, TypeOK, Ended, NotSent, Awaits, hosts, links
<1>13. ASSUME NEW c \in Calls, TimesOut(c) PROVE PendingInv'
  BY <1>13, ZeroIsNoBridge DEF TimesOut, Become, Forget, AfterReply, Drain, PendingInv,
     Forgotten, TypeOK, Ended, NotSent, Awaits, hosts, links
<1>14. ASSUME NEW c \in Calls, Resolve(c) PROVE PendingInv'
  BY <1>14, ZeroIsNoBridge DEF Resolve, Become, Forget, AfterReply, Drain, PendingInv,
     Forgotten, TypeOK, Ended, NotSent, Awaits, hosts, links
<1>15. ASSUME NEW c \in Calls, StartPing(c) PROVE PendingInv'
  BY <1>15, ZeroIsNoBridge DEF StartPing, Become, Forget, AfterReply, Drain, PendingInv,
     Forgotten, TypeOK, Ended, NotSent, Awaits, hosts, links
<1>16. ASSUME NEW c \in Calls, Dropped(c) PROVE PendingInv'
  BY <1>16, ZeroIsNoBridge DEF Dropped, Become, Forget, AfterReply, Drain, PendingInv,
     Forgotten, TypeOK, Ended, NotSent, Awaits, hosts, links
<1>17. ASSUME NEW b \in Bridges, Evict(b) PROVE PendingInv'
  BY <1>17, PendingWaits DEF Evict, callers
<1>18. ASSUME NEW b \in Bridges, EvictDrains(b) PROVE PendingInv'
  BY <1>18, DrainsPending DEF EvictDrains, VictimInv
<1>19. ASSUME NEW b \in Bridges, Register(b) PROVE PendingInv'
  BY <1>19, PendingWaits DEF Register, callers
<1>20. ASSUME NEW b \in Bridges, Accept(b) PROVE PendingInv'
  BY <1>20, PendingWaits DEF Accept, callers
<1>21. ASSUME NEW b \in Bridges, Complete(b) PROVE PendingInv'
  <2>1. UNCHANGED <<pc, target, held>>
    BY <1>21 DEF Complete
  <2>2. CASE UNCHANGED <<pending, reply>>
    BY <2>1, <2>2, PendingWaits
  <2>3. ASSUME NEW d \in answers[b], pending[d] = b,
               pending' = [pending EXCEPT ![d] = 0], reply' = [reply EXCEPT ![d] = "answered"]
        PROVE  PendingInv'
    <3>1. d \in Calls /\ pc[d] \notin Forgotten
      BY <2>3, ZeroIsNoBridge DEF TypeOK, PendingInv
    <3>2. pending'[d] = 0 /\ reply'[d] = "answered"
      BY <2>3, <3>1 DEF TypeOK
    <3>3. ASSUME NEW c \in Calls, c # d PROVE pending'[c] = pending[c] /\ reply'[c] = reply[c]
      BY <2>3, <3>3 DEF TypeOK
    <3> QED BY <2>1, <3>1, <3>2, <3>3 DEF PendingInv, Forgotten
  <2> QED BY <1>21, <2>2, <2>3 DEF Complete
<1>22. ASSUME NEW b \in Bridges, ConnectionEnds(b) PROVE PendingInv'
  BY <1>22, PendingWaits DEF ConnectionEnds, callers
<1>23. ASSUME NEW b \in Bridges, ConnectionUnregisters(b) PROVE PendingInv'
  BY <1>23, PendingWaits DEF ConnectionUnregisters, callers
<1>24. ASSUME NEW b \in Bridges, ConnectionDrains(b) PROVE PendingInv'
  BY <1>24, DrainsPending, ZeroIsNoBridge DEF ConnectionDrains
<1>25. ASSUME NEW b \in Bridges, Close(b) PROVE PendingInv'
  BY <1>25, PendingWaits DEF Close, callers
<1>26. ASSUME NEW b \in Bridges, WriterReceives(b) PROVE PendingInv'
  BY <1>26, PendingWaits DEF WriterReceives, callers
<1>27. ASSUME NEW b \in Bridges, Write(b) PROVE PendingInv'
  BY <1>27, PendingWaits DEF Write, callers
<1>28. ASSUME NEW b \in Bridges, WriteFails(b) PROVE PendingInv'
  BY <1>28, PendingWaits DEF WriteFails, callers
<1>29. ASSUME NEW b \in Bridges, WriteTimesOut(b) PROVE PendingInv'
  BY <1>29, PendingWaits DEF WriteTimesOut, callers
<1>30. ASSUME NEW b \in Bridges, WriterUnregisters(b) PROVE PendingInv'
  BY <1>30, PendingWaits DEF WriterUnregisters, callers
<1>31. ASSUME NEW b \in Bridges, WriterDrains(b) PROVE PendingInv'
  BY <1>31, DrainsPending, ZeroIsNoBridge DEF WriterDrains
<1>32. ASSUME NEW b \in Bridges, WriterGivesUp(b) PROVE PendingInv'
  BY <1>32, PendingWaits DEF WriterGivesUp, callers
<1>33. ASSUME NEW b \in Bridges, Hello(b) PROVE PendingInv'
  BY <1>33, PendingWaits DEF Hello, callers
<1>34. ASSUME NEW b \in Bridges, HelloFails(b) PROVE PendingInv'
  BY <1>34, PendingWaits DEF HelloFails, callers
<1>35. ASSUME NEW b \in Bridges, HostAnswers(b) PROVE PendingInv'
  BY <1>35, PendingWaits DEF HostAnswers, callers
<1>36. ASSUME NEW b \in Bridges, HostDies(b) PROVE PendingInv'
  BY <1>36, PendingWaits DEF HostDies, callers
<1>37. ASSUME NEW o \in Owners, Collect(o) PROVE PendingInv'
  BY <1>37, PendingWaits DEF Collect, callers
<1>38. ASSUME NEW o \in Owners, SendCancel(o) PROVE PendingInv'
  BY <1>38, PendingWaits DEF SendCancel, callers
<1>39. ASSUME NEW o \in Owners, CancelReturns(o) PROVE PendingInv'
  BY <1>39, PendingWaits DEF CancelReturns, callers
<1>40. ASSUME NEW o \in Owners, Cancel(o) PROVE PendingInv'
  BY <1>40, PendingWaits DEF Cancel, callers
<1> QED
  BY <1>0, <1>1, <1>2, <1>3, <1>4, <1>5, <1>6, <1>7, <1>8, <1>9, <1>10, <1>11, <1>12,
     <1>13, <1>14, <1>15, <1>16, <1>17, <1>18, <1>19, <1>20, <1>21, <1>22, <1>23, <1>24,
     <1>25, <1>26, <1>27, <1>28, <1>29, <1>30, <1>31, <1>32, <1>33, <1>34, <1>35, <1>36,
     <1>37, <1>38, <1>39, <1>40
     DEF Next, CallerStep, TimerStep, ConnectionStep, WriterStep, CancelStep

\* The strengthened invariant holds in every reachable state.
THEOREM PendingInvHolds == Spec => []PendingInv
<1>1. Init => PendingInv /\ VictimInv
  BY DEF Init, PendingInv, VictimInv, Awaits
<1>2. TypeOK /\ PendingInv /\ VictimInv /\ [Next]_vars => (PendingInv /\ VictimInv)'
  BY PendingStep, VictimStep
<1> QED BY <1>1, <1>2, TypeCorrect, PTL DEF Spec

\* The entry of a caller that was told its outcome is gone (try_call_native_bridge_raw_inner).
THEOREM ReturnedIsForgottenHolds == Spec => []ReturnedIsForgotten
<1>1. PendingInv => ReturnedIsForgotten
  BY DEF PendingInv, ReturnedIsForgotten, Forgotten
<1> QED BY <1>1, PendingInvHolds, PTL

\* A response finds the entry of its own bridge or none (complete_native_bridge_response):
\* bridge_response_mismatch_drop_count stays 0.
THEOREM NoMismatchedAnswerHolds == Spec => []NoMismatchedAnswer
<1>1. TypeOK /\ SentInv /\ AnswerInv /\ PendingInv => NoMismatchedAnswer
  BY DEF TypeOK, SentInv, AnswerInv, PendingInv, NoMismatchedAnswer
<1>2. Init => AnswerInv
  BY DEF Init, AnswerInv
<1>3. TypeOK /\ AnswerInv /\ [Next]_vars => AnswerInv'
  BY AnswerStep
<1> QED BY <1>1, <1>2, <1>3, TypeCorrect, SentInvHolds, PendingInvHolds, PTL DEF Spec

-----------------------------------------------------------------------------
(* Cancellation. A frame that stops a call stays behind the call's own frame from the     *)
(* channel through the writer to the host.                                                *)

Early == {"none", "evicting", "evict_drain"}

\* A bridge that a caller has resolved was registered, which it is once.
AimedInv == \A c \in Calls : target[c] # 0 => conn[target[c]] \notin Early

\* A writer holds a frame from recv to the end of its write; one that gives up has taken its
\* bridge from the registry.
WriterInv ==
  \A b \in Bridges :
    /\ writer[b] \in {"none", "new", "receiving", "done"} => writing[b] = Nil
    /\ writer[b] \in {"clearing", "cleared"} => b \notin registered
    /\ conn[b] \in Early => writer[b] = "none"
    /\ conn[b] = "hello" <=> writer[b] = "new"

StopFrames(c) == {CancelFrame(c), ShutdownFrame}

\* CancelBehind, of the writer and the channel apart.
Follows(c, b) ==
  \/ c \in aborted
  \/ \E i \in DOMAIN queue[b] :
       /\ queue[b][i] \in StopFrames(c)
       /\ \A j \in DOMAIN queue[b] : queue[b][j] = CallFrame(c) => j < i
  \/ writing[b] \in StopFrames(c) /\ \A j \in DOMAIN queue[b] : queue[b][j] # CallFrame(c)

\* The call waits for b, which runs its step or will.
Live(c, b) == pending[c] = b /\ b \in registered /\ StillToRun(c, b)

\* The inductive invariant: while the cancel frames are being sent, what has none behind it
\* is still to be sent one.
CancelInv ==
  \A c \in Steps, b \in Bridges :
    LET o == Owner[c] IN
    cancel[o] \in {"sending", "ok"} /\ Live(c, b)
      => Follows(c, b) \/ (cancel[o] = "sending" /\ <<c, b>> \in collected[o])

\* The frames of a call are different frames, and none of them is Nil.
LEMMA FramesDiffer ==
  ASSUME NEW c \in Calls
  PROVE  /\ CallFrame(c) \in Frames /\ StopFrames(c) \subseteq Frames /\ Nil \notin Frames
         /\ CallFrame(c) \notin StopFrames(c)
         /\ \A d : CancelFrame(d) # CallFrame(c) /\ ShutdownFrame # CallFrame(c)
         /\ \A d : d # c => CallFrame(d) # CallFrame(c)
BY BridgeAssumption DEF CallFrame, CancelFrame, ShutdownFrame, StopFrames, Frames

\* What follows a call stays behind it if the channel and the writer do not change.
LEMMA FollowsSame ==
  ASSUME NEW c, NEW b, Follows(c, b), aborted \subseteq aborted',
         queue'[b] = queue[b], writing'[b] = writing[b]
  PROVE  Follows(c, b)'
BY DEF Follows

\* So it does if another frame is put on the channel.
LEMMA FollowsAppend ==
  ASSUME NEW c \in Calls, NEW b, NEW f \in Frames, f # CallFrame(c), queue[b] \in Seq(Frames),
         queue'[b] = Append(queue[b], f), writing'[b] = writing[b], aborted \subseteq aborted',
         Follows(c, b)
  PROVE  Follows(c, b)'
<1>1. /\ DOMAIN queue[b] \subseteq DOMAIN queue'[b]
      /\ \A i \in DOMAIN queue[b] : queue'[b][i] = queue[b][i]
      /\ \A i \in DOMAIN queue'[b] : i \in DOMAIN queue[b] \/ queue'[b][i] = f
  BY AppendProperties, LenProperties
<1>2. \A j \in DOMAIN queue'[b] : queue'[b][j] = CallFrame(c) => j \in DOMAIN queue[b] /\ queue[b][j] = CallFrame(c)
  BY <1>1
<1> QED BY <1>1, <1>2 DEF Follows

\* A frame that stops a call follows it once it is on the channel.
LEMMA FollowsNew ==
  ASSUME NEW c \in Calls, NEW b, NEW f \in StopFrames(c), queue[b] \in Seq(Frames),
         queue'[b] = Append(queue[b], f)
  PROVE  Follows(c, b)'
<1>1. f \in Frames /\ f # CallFrame(c)
  BY FramesDiffer
<1>2. /\ Len(queue[b]) \in Nat /\ Len(queue[b]) + 1 \in DOMAIN queue'[b]
      /\ queue'[b][Len(queue[b]) + 1] = f
      /\ \A i \in DOMAIN queue'[b] : i < Len(queue[b]) + 1 \/ queue'[b][i] = f
  BY <1>1, AppendProperties, LenProperties
<1>3. \A j \in DOMAIN queue'[b] : queue'[b][j] = CallFrame(c) => j < Len(queue[b]) + 1
  BY <1>1, <1>2
<1> QED BY <1>2, <1>3 DEF Follows

\* The order stays when the writer takes the first frame of the channel.
LEMMA FollowsReceive ==
  ASSUME NEW c \in Calls, NEW b, queue[b] \in Seq(Frames), queue[b] # <<>>, writing[b] = Nil,
         writing'[b] = Head(queue[b]), queue'[b] = Tail(queue[b]), aborted' = aborted, Follows(c, b)
  PROVE  Follows(c, b)'
<1>1. /\ Len(queue[b]) \in Nat /\ DOMAIN queue[b] = 1..Len(queue[b]) /\ 1 \in DOMAIN queue[b]
      /\ writing'[b] = queue[b][1] /\ DOMAIN queue'[b] = 1..(Len(queue[b]) - 1)
      /\ \A j \in DOMAIN queue'[b] : j + 1 \in DOMAIN queue[b] /\ queue'[b][j] = queue[b][j + 1]
  BY HeadTailProperties, LenProperties
<1>2. CASE c \in aborted
  BY <1>2 DEF Follows
<1>3. ASSUME NEW i \in DOMAIN queue[b], queue[b][i] \in StopFrames(c),
             \A j \in DOMAIN queue[b] : queue[b][j] = CallFrame(c) => j < i
      PROVE  Follows(c, b)'
  <2>1. \A j \in DOMAIN queue'[b] : queue'[b][j] = CallFrame(c) => j + 1 < i
    BY <1>1, <1>3
  <2>2. CASE i = 1
    <3>1. \A j \in DOMAIN queue'[b] : j \in Nat /\ ~(j + 1 < 1)
      BY <1>1
    <3>2. \A j \in DOMAIN queue'[b] : queue'[b][j] # CallFrame(c)
      BY <2>1, <2>2, <3>1
    <3> QED BY <1>1, <1>3, <2>2, <3>2 DEF Follows
  <2>3. CASE i # 1
    <3>1. i - 1 \in DOMAIN queue'[b] /\ (i - 1) + 1 = i
      BY <1>1, <2>3
    <3>2. queue'[b][i - 1] \in StopFrames(c)
      BY <1>1, <1>3, <3>1
    <3>3. \A j \in DOMAIN queue'[b] : queue'[b][j] = CallFrame(c) => j < i - 1
      BY <1>1, <2>1
    <3> QED BY <3>1, <3>2, <3>3 DEF Follows
  <2> QED BY <2>2, <2>3
<1>4. writing[b] \notin StopFrames(c)
  BY FramesDiffer
<1> QED BY <1>2, <1>3, <1>4 DEF Follows

\* A channel, a writer and a host that do not change run the same calls.
LEMMA StillSame ==
  ASSUME NEW c, NEW b, queue'[b] = queue[b], writing'[b] = writing[b],
         host'[b] = "up" => host[b] = "up" /\ active'[b] \subseteq active[b], StillToRun(c, b)'
  PROVE  StillToRun(c, b)
BY DEF StillToRun, InPipe

\* The step of one bridge.
LEMMA CancelOf ==
  ASSUME CancelInv, NEW n \in Bridges, UNCHANGED <<pending, registered, cancels>>,
         aborted \subseteq aborted',
         \A b \in Bridges \ {n} : UNCHANGED <<queue[b], writing[b], host[b], active[b]>>,
         \A c \in Steps : Live(c, n)' => Live(c, n) /\ (Follows(c, n) => Follows(c, n)')
  PROVE  CancelInv'
<1> SUFFICES ASSUME NEW c \in Steps, NEW b \in Bridges,
                    cancel[Owner[c]] \in {"sending", "ok"}, Live(c, b)'
             PROVE  \/ Follows(c, b)'
                    \/ cancel[Owner[c]] = "sending" /\ <<c, b>> \in collected[Owner[c]]
  BY DEF CancelInv, cancels
<1>1. Live(c, b) /\ (Follows(c, b) => Follows(c, b)')
  <2>1. CASE b = n
    BY <2>1
  <2>2. CASE b # n
    BY <2>2, FollowsSame, StillSame DEF Live
  <2> QED BY <2>1, <2>2
<1> QED BY <1>1 DEF CancelInv

\* A step that puts no frame anywhere, registers no bridge and cancels nothing.
LEMMA CancelPassive ==
  ASSUME TypeOK, StrikesInv, CancelInv, UNCHANGED <<queue, writing, aborted, cancels>>,
         registered' \subseteq registered, \A c \in Steps : pending'[c] \in {pending[c], 0},
         \A b \in Bridges : host'[b] = "up" /\ conn[b] # "none" => host[b] = "up" /\ active'[b] \subseteq active[b]
  PROVE  CancelInv'
<1> SUFFICES ASSUME NEW c \in Steps, NEW b \in Bridges,
                    cancel[Owner[c]] \in {"sending", "ok"}, Live(c, b)'
             PROVE  \/ Follows(c, b)'
                    \/ cancel[Owner[c]] = "sending" /\ <<c, b>> \in collected[Owner[c]]
  BY DEF CancelInv, cancels
<1>1. b \in registered /\ conn[b] # "none" /\ pending[c] = b
  BY ZeroIsNoBridge DEF Live, StrikesInv, StrikesBounded
<1>2. Live(c, b)
  BY <1>1, StillSame DEF Live
<1> QED BY <1>2, FollowsSame DEF CancelInv

-----------------------------------------------------------------------------
\* A bridge that leaves its handshake does not come back to it.
LEMMA AimedWaits ==
  ASSUME AimedInv, UNCHANGED target, \A b \in Bridges : conn[b] \notin Early => conn'[b] \notin Early, TypeOK
  PROVE  AimedInv'
BY DEF AimedInv, TypeOK

\* Callers resolve bridges that are registered.
LEMMA AimedAt ==
  ASSUME TypeOK, AimedInv, StrikesInv, UNCHANGED conn, NEW c \in Calls, NEW b \in registered,
         target' = [target EXCEPT ![c] = b]
  PROVE  AimedInv'
<1>1. b \in Bridges /\ conn[b] \notin Early
  BY DEF TypeOK, StrikesInv, StrikesBounded, Early
<1>2. \A d \in Calls : target'[d] = IF d = c THEN b ELSE target[d]
  BY DEF TypeOK
<1> QED BY <1>1, <1>2 DEF AimedInv

\* Every step keeps the targets of callers out of the handshake.
LEMMA AimedStep ==
  ASSUME TypeOK, StrikesInv, AimedInv, [Next]_vars
  PROVE  AimedInv'
<1>0. CASE UNCHANGED vars
  BY <1>0, AimedWaits DEF vars, links, callers
<1>1. ASSUME NEW c \in Calls, Insert(c) PROVE AimedInv'
  BY <1>1, AimedWaits DEF Insert, links, callers
<1>2. ASSUME NEW c \in Calls, GiveUpFull(c) PROVE AimedInv'
  BY <1>2, AimedWaits DEF GiveUpFull, links, callers
<1>3. ASSUME NEW c \in Calls, FindClosed(c) PROVE AimedInv'
  BY <1>3, AimedWaits DEF FindClosed, links, callers
<1>4. ASSUME NEW c \in Calls, CallerUnregisters(c) PROVE AimedInv'
  BY <1>4, AimedWaits DEF CallerUnregisters, links, callers
<1>5. ASSUME NEW c \in Calls, CallerDrains(c) PROVE AimedInv'
  BY <1>5, AimedWaits DEF CallerDrains, links, callers
<1>6. ASSUME NEW c \in Calls, NoBridge(c) PROVE AimedInv'
  BY <1>6, AimedWaits DEF NoBridge, links, callers
<1>7. ASSUME NEW c \in Calls, Reresolve(c) PROVE AimedInv'
  BY <1>7, AimedAt DEF Reresolve, Newest, links
<1>8. ASSUME NEW c \in Calls, Return(c) PROVE AimedInv'
  BY <1>8, AimedWaits DEF Return, links, callers
<1>9. ASSUME NEW c \in Calls, PingSucceeds(c) PROVE AimedInv'
  BY <1>9, AimedWaits DEF PingSucceeds, links, callers
<1>10. ASSUME NEW c \in Calls, Restart(c) PROVE AimedInv'
  BY <1>10, AimedWaits DEF Restart, links, callers
<1>11. ASSUME NEW c \in Calls, RestartDrains(c) PROVE AimedInv'
  BY <1>11, AimedWaits DEF RestartDrains, links, callers
<1>12. ASSUME NEW c \in Calls, PingFails(c) PROVE AimedInv'
  BY <1>12, AimedWaits DEF PingFails, links, callers
<1>13. ASSUME NEW c \in Calls, TimesOut(c) PROVE AimedInv'
  BY <1>13, AimedWaits DEF TimesOut, links, callers
<1>14. ASSUME NEW c \in Calls, Resolve(c) PROVE AimedInv'
  BY <1>14, AimedAt DEF Resolve, Newest, links
<1>15. ASSUME NEW c \in Calls, StartPing(c) PROVE AimedInv'
  BY <1>15, AimedAt DEF StartPing, Newest, links
<1>16. ASSUME NEW c \in Calls, Dropped(c) PROVE AimedInv'
  BY <1>16, AimedWaits DEF Dropped, links, callers
<1>17. ASSUME NEW b \in Bridges, Evict(b) PROVE AimedInv'
  BY <1>17, AimedWaits DEF Evict, Early, TypeOK, callers
<1>18. ASSUME NEW b \in Bridges, EvictDrains(b) PROVE AimedInv'
  BY <1>18, AimedWaits DEF EvictDrains, Early, TypeOK, callers
<1>19. ASSUME NEW b \in Bridges, Register(b) PROVE AimedInv'
  BY <1>19, AimedWaits DEF Register, Early, TypeOK, callers
<1>20. ASSUME NEW b \in Bridges, Accept(b) PROVE AimedInv'
  BY <1>20, AimedWaits DEF Accept, Early, TypeOK, callers
<1>21. ASSUME NEW b \in Bridges, Complete(b) PROVE AimedInv'
  BY <1>21, AimedWaits DEF Complete, links, callers
<1>22. ASSUME NEW b \in Bridges, ConnectionEnds(b) PROVE AimedInv'
  BY <1>22, AimedWaits DEF ConnectionEnds, Early, TypeOK, callers
<1>23. ASSUME NEW b \in Bridges, ConnectionUnregisters(b) PROVE AimedInv'
  BY <1>23, AimedWaits DEF ConnectionUnregisters, Early, TypeOK, callers
<1>24. ASSUME NEW b \in Bridges, ConnectionDrains(b) PROVE AimedInv'
  BY <1>24, AimedWaits DEF ConnectionDrains, Early, TypeOK, callers
<1>25. ASSUME NEW b \in Bridges, Close(b) PROVE AimedInv'
  BY <1>25, AimedWaits DEF Close, Early, TypeOK, callers
<1>26. ASSUME NEW b \in Bridges, WriterReceives(b) PROVE AimedInv'
  BY <1>26, AimedWaits DEF WriterReceives, links, callers
<1>27. ASSUME NEW b \in Bridges, Write(b) PROVE AimedInv'
  BY <1>27, AimedWaits DEF Write, links, callers
<1>28. ASSUME NEW b \in Bridges, WriteFails(b) PROVE AimedInv'
  BY <1>28, AimedWaits DEF WriteFails, links, callers
<1>29. ASSUME NEW b \in Bridges, WriteTimesOut(b) PROVE AimedInv'
  BY <1>29, AimedWaits DEF WriteTimesOut, links, callers
<1>30. ASSUME NEW b \in Bridges, WriterUnregisters(b) PROVE AimedInv'
  BY <1>30, AimedWaits DEF WriterUnregisters, links, callers
<1>31. ASSUME NEW b \in Bridges, WriterDrains(b) PROVE AimedInv'
  BY <1>31, AimedWaits DEF WriterDrains, links, callers
<1>32. ASSUME NEW b \in Bridges, WriterGivesUp(b) PROVE AimedInv'
  BY <1>32, AimedWaits DEF WriterGivesUp, links, callers
<1>33. ASSUME NEW b \in Bridges, Hello(b) PROVE AimedInv'
  BY <1>33, AimedWaits DEF Hello, Early, TypeOK, callers
<1>34. ASSUME NEW b \in Bridges, HelloFails(b) PROVE AimedInv'
  BY <1>34, AimedWaits DEF HelloFails, Early, TypeOK, callers
<1>35. ASSUME NEW b \in Bridges, HostAnswers(b) PROVE AimedInv'
  BY <1>35, AimedWaits DEF HostAnswers, links, callers
<1>36. ASSUME NEW b \in Bridges, HostDies(b) PROVE AimedInv'
  BY <1>36, AimedWaits DEF HostDies, links, callers
<1>37. ASSUME NEW o \in Owners, Collect(o) PROVE AimedInv'
  BY <1>37, AimedWaits DEF Collect, links, callers
<1>38. ASSUME NEW o \in Owners, SendCancel(o) PROVE AimedInv'
  BY <1>38, AimedWaits DEF SendCancel, links, callers
<1>39. ASSUME NEW o \in Owners, CancelReturns(o) PROVE AimedInv'
  BY <1>39, AimedWaits DEF CancelReturns, links, callers
<1>40. ASSUME NEW o \in Owners, Cancel(o) PROVE AimedInv'
  BY <1>40, AimedWaits DEF Cancel, links, callers
<1> QED
  BY <1>0, <1>1, <1>2, <1>3, <1>4, <1>5, <1>6, <1>7, <1>8, <1>9, <1>10, <1>11, <1>12,
     <1>13, <1>14, <1>15, <1>16, <1>17, <1>18, <1>19, <1>20, <1>21, <1>22, <1>23, <1>24,
     <1>25, <1>26, <1>27, <1>28, <1>29, <1>30, <1>31, <1>32, <1>33, <1>34, <1>35, <1>36,
     <1>37, <1>38, <1>39, <1>40
     DEF Next, CallerStep, TimerStep, ConnectionStep, WriterStep, CancelStep

\* A step that leaves connections and writers alone, and registers no bridge.
LEMMA WritersWait ==
  ASSUME WriterInv, UNCHANGED <<conn, writer, writing>>, registered' \subseteq registered
  PROVE  WriterInv'
BY DEF WriterInv

\* Every step keeps the frame of a writer in its hands from recv to the end of its write.
LEMMA WritersStep ==
  ASSUME TypeOK, StrikesInv, WriterInv, [Next]_vars
  PROVE  WriterInv'
<1>0. CASE UNCHANGED vars
  BY <1>0, WritersWait DEF vars, links, registry
<1>1. ASSUME NEW c \in Calls, Insert(c) PROVE WriterInv'
  BY <1>1, WritersWait DEF Insert, Unregister, registry, links
<1>2. ASSUME NEW c \in Calls, GiveUpFull(c) PROVE WriterInv'
  BY <1>2, WritersWait DEF GiveUpFull, Unregister, registry, links
<1>3. ASSUME NEW c \in Calls, FindClosed(c) PROVE WriterInv'
  BY <1>3, WritersWait DEF FindClosed, Unregister, registry, links
<1>4. ASSUME NEW c \in Calls, CallerUnregisters(c) PROVE WriterInv'
  BY <1>4, WritersWait DEF CallerUnregisters, Unregister, registry, links
<1>5. ASSUME NEW c \in Calls, CallerDrains(c) PROVE WriterInv'
  BY <1>5, WritersWait DEF CallerDrains, Unregister, registry, links
<1>6. ASSUME NEW c \in Calls, NoBridge(c) PROVE WriterInv'
  BY <1>6, WritersWait DEF NoBridge, Unregister, registry, links
<1>7. ASSUME NEW c \in Calls, Reresolve(c) PROVE WriterInv'
  BY <1>7, WritersWait DEF Reresolve, Unregister, registry, links
<1>8. ASSUME NEW c \in Calls, Return(c) PROVE WriterInv'
  BY <1>8, WritersWait DEF Return, Unregister, registry, links
<1>9. ASSUME NEW c \in Calls, PingSucceeds(c) PROVE WriterInv'
  BY <1>9, WritersWait DEF PingSucceeds, Unregister, registry, links
<1>10. ASSUME NEW c \in Calls, Restart(c) PROVE WriterInv'
  BY <1>10, WritersWait DEF Restart, Unregister, registry, links
<1>11. ASSUME NEW c \in Calls, RestartDrains(c) PROVE WriterInv'
  BY <1>11, WritersWait DEF RestartDrains, Unregister, registry, links
<1>12. ASSUME NEW c \in Calls, PingFails(c) PROVE WriterInv'
  BY <1>12, WritersWait DEF PingFails, Unregister, registry, links
<1>13. ASSUME NEW c \in Calls, TimesOut(c) PROVE WriterInv'
  BY <1>13, WritersWait DEF TimesOut, Unregister, registry, links
<1>14. ASSUME NEW c \in Calls, Resolve(c) PROVE WriterInv'
  BY <1>14, WritersWait DEF Resolve, Unregister, registry, links
<1>15. ASSUME NEW c \in Calls, StartPing(c) PROVE WriterInv'
  BY <1>15, WritersWait DEF StartPing, Unregister, registry, links
<1>16. ASSUME NEW c \in Calls, Dropped(c) PROVE WriterInv'
  BY <1>16, WritersWait DEF Dropped, Unregister, registry, links
<1>17. ASSUME NEW b \in Bridges, Evict(b) PROVE WriterInv'
  BY <1>17 DEF Evict, WriterInv, WriterStops, Unregister, Early, TypeOK, registry, links
<1>18. ASSUME NEW b \in Bridges, EvictDrains(b) PROVE WriterInv'
  BY <1>18 DEF EvictDrains, WriterInv, WriterStops, Unregister, Early, TypeOK, registry, links
<1>19. ASSUME NEW b \in Bridges, Register(b) PROVE WriterInv'
  BY <1>19 DEF Register, WriterInv, WriterStops, Unregister, Early, TypeOK, registry, links
<1>20. ASSUME NEW b \in Bridges, Accept(b) PROVE WriterInv'
  BY <1>20 DEF Accept, WriterInv, WriterStops, Unregister, Early, TypeOK, registry, links
<1>21. ASSUME NEW b \in Bridges, Complete(b) PROVE WriterInv'
  BY <1>21, WritersWait DEF Complete, Unregister, registry, links
<1>22. ASSUME NEW b \in Bridges, ConnectionEnds(b) PROVE WriterInv'
  BY <1>22 DEF ConnectionEnds, WriterInv, WriterStops, Unregister, Early, TypeOK, registry, links
<1>23. ASSUME NEW b \in Bridges, ConnectionUnregisters(b) PROVE WriterInv'
  BY <1>23 DEF ConnectionUnregisters, WriterInv, WriterStops, Unregister, Early, TypeOK, registry, links
<1>24. ASSUME NEW b \in Bridges, ConnectionDrains(b) PROVE WriterInv'
  BY <1>24 DEF ConnectionDrains, WriterInv, WriterStops, Unregister, Early, TypeOK, registry, links
<1>25. ASSUME NEW b \in Bridges, Close(b) PROVE WriterInv'
  BY <1>25 DEF Close, WriterInv, WriterStops, Unregister, Early, TypeOK, registry, links
<1>26. ASSUME NEW b \in Bridges, WriterReceives(b) PROVE WriterInv'
  BY <1>26 DEF WriterReceives, WriterInv, WriterStops, Unregister, Early, TypeOK, registry, links
<1>27. ASSUME NEW b \in Bridges, Write(b) PROVE WriterInv'
  BY <1>27 DEF Write, WriterInv, WriterStops, Unregister, Early, TypeOK, registry, links
<1>28. ASSUME NEW b \in Bridges, WriteFails(b) PROVE WriterInv'
  BY <1>28 DEF WriteFails, WriterInv, WriterStops, Unregister, Early, TypeOK, registry, links
<1>29. ASSUME NEW b \in Bridges, WriteTimesOut(b) PROVE WriterInv'
  BY <1>29 DEF WriteTimesOut, WriterInv, WriterStops, Unregister, Early, TypeOK, registry, links
<1>30. ASSUME NEW b \in Bridges, WriterUnregisters(b) PROVE WriterInv'
  BY <1>30 DEF WriterUnregisters, WriterInv, WriterStops, Unregister, Early, TypeOK, registry, links
<1>31. ASSUME NEW b \in Bridges, WriterDrains(b) PROVE WriterInv'
  BY <1>31 DEF WriterDrains, WriterInv, WriterStops, Unregister, Early, TypeOK, registry, links
<1>32. ASSUME NEW b \in Bridges, WriterGivesUp(b) PROVE WriterInv'
  BY <1>32 DEF WriterGivesUp, WriterInv, WriterStops, Unregister, Early, TypeOK, registry, links
<1>33. ASSUME NEW b \in Bridges, Hello(b) PROVE WriterInv'
  BY <1>33 DEF Hello, WriterInv, WriterStops, Unregister, Early, TypeOK, registry, links
<1>34. ASSUME NEW b \in Bridges, HelloFails(b) PROVE WriterInv'
  BY <1>34 DEF HelloFails, WriterInv, WriterStops, Unregister, Early, TypeOK, registry, links
<1>35. ASSUME NEW b \in Bridges, HostAnswers(b) PROVE WriterInv'
  BY <1>35, WritersWait DEF HostAnswers, Unregister, registry, links
<1>36. ASSUME NEW b \in Bridges, HostDies(b) PROVE WriterInv'
  BY <1>36, WritersWait DEF HostDies, Unregister, registry, links
<1>37. ASSUME NEW o \in Owners, Collect(o) PROVE WriterInv'
  BY <1>37, WritersWait DEF Collect, Unregister, registry, links
<1>38. ASSUME NEW o \in Owners, SendCancel(o) PROVE WriterInv'
  BY <1>38, WritersWait DEF SendCancel, Unregister, registry, links
<1>39. ASSUME NEW o \in Owners, CancelReturns(o) PROVE WriterInv'
  BY <1>39, WritersWait DEF CancelReturns, Unregister, registry, links
<1>40. ASSUME NEW o \in Owners, Cancel(o) PROVE WriterInv'
  BY <1>40, WritersWait DEF Cancel, Unregister, registry, links
<1> QED
  BY <1>0, <1>1, <1>2, <1>3, <1>4, <1>5, <1>6, <1>7, <1>8, <1>9, <1>10, <1>11, <1>12,
     <1>13, <1>14, <1>15, <1>16, <1>17, <1>18, <1>19, <1>20, <1>21, <1>22, <1>23, <1>24,
     <1>25, <1>26, <1>27, <1>28, <1>29, <1>30, <1>31, <1>32, <1>33, <1>34, <1>35, <1>36,
     <1>37, <1>38, <1>39, <1>40
     DEF Next, CallerStep, TimerStep, ConnectionStep, WriterStep, CancelStep

-----------------------------------------------------------------------------
\* A bridge that is told to shut down, and others that are not.
LEMMA CancelShuts ==
  ASSUME TypeOK, CancelInv, NEW n, Offer(n, ShutdownFrame) \/ UNCHANGED queue,
         registered' \subseteq registered,
         UNCHANGED <<writing, pending, aborted, cancels, host, active>>
  PROVE  CancelInv'
<1> SUFFICES ASSUME NEW c \in Steps, NEW b \in Bridges,
                    cancel[Owner[c]] \in {"sending", "ok"}, Live(c, b)'
             PROVE  \/ Follows(c, b)'
                    \/ cancel[Owner[c]] = "sending" /\ <<c, b>> \in collected[Owner[c]]
  BY DEF CancelInv, cancels
<1>1. c \in Calls
  BY DEF Calls
<1>2. InPipe(c, b)' => InPipe(c, b)
  BY <1>1, OfferOther, ShutdownIsFrame DEF ShutdownFrame
<1>3. Live(c, b)
  BY <1>2 DEF Live, StillToRun
<1>4. Follows(c, b) => Follows(c, b)'
  <2>1. queue[b] \in Seq(Frames)
    BY DEF TypeOK
  <2>2. queue'[b] = queue[b] \/ queue'[b] = Append(queue[b], ShutdownFrame)
    BY DEF Offer, TypeOK
  <2> QED BY <1>1, <2>1, <2>2, FramesDiffer, ShutdownIsFrame, FollowsSame, FollowsAppend
<1> QED BY <1>3, <1>4 DEF CancelInv

\* A cancellation moves on, and leaves the calls of the others as they were.
LEMMA CancelOthers ==
  ASSUME CancelInv, NEW o \in Owners,
         UNCHANGED <<queue, writing, registered, pending, host, active, aborted>>,
         \A p \in Owners : p # o => cancel'[p] = cancel[p] /\ collected'[p] = collected[p],
         \A c \in Steps, b \in Bridges :
           Owner[c] = o /\ cancel'[o] \in {"sending", "ok"} /\ Live(c, b) =>
             Follows(c, b) \/ (cancel'[o] = "sending" /\ <<c, b>> \in collected'[o])
  PROVE  CancelInv'
<1> SUFFICES ASSUME NEW c \in Steps, NEW b \in Bridges, Live(c, b)',
                    cancel'[Owner[c]] \in {"sending", "ok"}
             PROVE  \/ Follows(c, b)'
                    \/ cancel'[Owner[c]] = "sending" /\ <<c, b>> \in collected'[Owner[c]]
  BY DEF CancelInv
<1>1. Live(c, b) /\ (Follows(c, b) => Follows(c, b)')
  BY StillSame, FollowsSame DEF Live
<1>2. Owner[c] \in Owners
  BY BridgeAssumption
<1> QED BY <1>1, <1>2 DEF CancelInv

\* Every step keeps a stop behind each call of a cancelled run, or one still to be sent.
LEMMA CancelInvStep ==
  ASSUME TypeOK, StrikesInv, PendingInv, AimedInv, WriterInv, CancelInv, [Next]_vars
  PROVE  CancelInv'
<1>0. CASE UNCHANGED vars
  BY <1>0, CancelPassive, ZeroIsNoBridge DEF vars, registry, links, hosts
<1>1. ASSUME NEW c \in Calls, Insert(c) PROVE CancelInv'
  <2>1. UNCHANGED <<writing, aborted, cancels, registered, host, active>> /\ target[c] \in Bridges
        /\ pc[c] = "insert"
    BY <1>1 DEF Insert, registry, hosts, PendingInv, Awaits, TypeOK
  <2>2. CASE UNCHANGED <<pending, queue>>
    BY <2>1, <2>2, CancelPassive
  <2>3. CASE ~CancelSeen(c) /\ pending' = [pending EXCEPT ![c] = target[c]] /\ Offer(target[c], CallFrame(c))
    <3> SUFFICES ASSUME NEW d \in Steps, NEW n \in Bridges,
                        cancel[Owner[d]] \in {"sending", "ok"}, Live(d, n)'
                 PROVE  \/ Follows(d, n)'
                        \/ cancel[Owner[d]] = "sending" /\ <<d, n>> \in collected[Owner[d]]
      BY <2>1 DEF CancelInv, cancels
    <3>1. d # c /\ d \in Calls /\ pending'[d] = pending[d]
      BY <2>3 DEF CancelSeen, Calls, TypeOK
    <3>2. \/ queue' = queue
          \/ queue' = [queue EXCEPT ![target[c]] = Append(@, CallFrame(c))]
      BY <2>3 DEF Offer
    <3>3. InPipe(d, n)' => InPipe(d, n)
      <4>1. CASE queue' = queue
        BY <2>1, <4>1 DEF InPipe
      <4>2. CASE queue' = [queue EXCEPT ![target[c]] = Append(@, CallFrame(c))]
        BY <2>1, <3>1, <4>2, AppendAdds
      <4> QED BY <3>2, <4>1, <4>2
    <3>4. Live(d, n)
      BY <2>1, <3>1, <3>3 DEF Live, StillToRun
    <3>5. Follows(d, n) => Follows(d, n)'
      <4>1. queue[n] \in Seq(Frames)
        BY DEF TypeOK
      <4>2. queue'[n] = queue[n] \/ queue'[n] = Append(queue[n], CallFrame(c))
        BY <3>2 DEF TypeOK
      <4> QED BY <2>1, <3>1, <4>1, <4>2, FramesDiffer, FollowsSame, FollowsAppend
    <3> QED BY <3>4, <3>5 DEF CancelInv
  <2> QED BY <1>1, <2>2, <2>3 DEF Insert
<1>2. ASSUME NEW c \in Calls, GiveUpFull(c) PROVE CancelInv'
  BY <1>2, CancelPassive DEF GiveUpFull, Forget, Drain, Unregister, TypeOK, registry, links, hosts
<1>3. ASSUME NEW c \in Calls, FindClosed(c) PROVE CancelInv'
  BY <1>3, CancelPassive DEF FindClosed, Forget, Drain, Unregister, TypeOK, registry, links, hosts
<1>4. ASSUME NEW c \in Calls, CallerUnregisters(c) PROVE CancelInv'
  BY <1>4, CancelPassive DEF CallerUnregisters, Forget, Drain, Unregister, TypeOK, registry, links, hosts
<1>5. ASSUME NEW c \in Calls, CallerDrains(c) PROVE CancelInv'
  <2>1. Drain(target[c])
    BY <1>5 DEF CallerDrains
  <2>2. \A s \in Steps : pending'[s] \in {pending[s], 0}
    BY <2>1 DEF Drain, Calls
  <2> QED BY <1>5, <2>2, CancelPassive DEF CallerDrains, TypeOK, registry, links, hosts
<1>6. ASSUME NEW c \in Calls, NoBridge(c) PROVE CancelInv'
  BY <1>6, CancelPassive DEF NoBridge, Forget, Drain, Unregister, TypeOK, registry, links, hosts
<1>7. ASSUME NEW c \in Calls, Reresolve(c) PROVE CancelInv'
  BY <1>7, CancelPassive DEF Reresolve, Forget, Drain, Unregister, TypeOK, registry, links, hosts
<1>8. ASSUME NEW c \in Calls, Return(c) PROVE CancelInv'
  BY <1>8, CancelPassive DEF Return, Forget, Drain, Unregister, TypeOK, registry, links, hosts
<1>9. ASSUME NEW c \in Calls, PingSucceeds(c) PROVE CancelInv'
  BY <1>9, CancelPassive DEF PingSucceeds, Forget, Drain, Unregister, TypeOK, registry, links, hosts
<1>10. ASSUME NEW c \in Calls, Restart(c) PROVE CancelInv'
  <2>1. /\ Offer(target[c], ShutdownFrame) \/ UNCHANGED queue
        /\ registered' \subseteq registered
        /\ UNCHANGED <<writing, pending, aborted, cancels, host, active>>
    BY <1>10 DEF Restart, Unregister, hosts
  <2> QED BY <2>1, CancelShuts
<1>11. ASSUME NEW c \in Calls, RestartDrains(c) PROVE CancelInv'
  <2>1. Drain(target[c])
    BY <1>11 DEF RestartDrains
  <2>2. \A s \in Steps : pending'[s] \in {pending[s], 0}
    BY <2>1 DEF Drain, Calls
  <2> QED BY <1>11, <2>2, CancelPassive DEF RestartDrains, TypeOK, registry, links, hosts
<1>12. ASSUME NEW c \in Calls, PingFails(c) PROVE CancelInv'
  BY <1>12, CancelPassive DEF PingFails, Forget, Drain, Unregister, TypeOK, registry, links, hosts
<1>13. ASSUME NEW c \in Calls, TimesOut(c) PROVE CancelInv'
  BY <1>13, CancelPassive DEF TimesOut, Forget, Drain, Unregister, TypeOK, registry, links, hosts
<1>14. ASSUME NEW c \in Calls, Resolve(c) PROVE CancelInv'
  BY <1>14, CancelPassive DEF Resolve, Forget, Drain, Unregister, TypeOK, registry, links, hosts
<1>15. ASSUME NEW c \in Calls, StartPing(c) PROVE CancelInv'
  BY <1>15, CancelPassive DEF StartPing, Forget, Drain, Unregister, TypeOK, registry, links, hosts
<1>16. ASSUME NEW c \in Calls, Dropped(c) PROVE CancelInv'
  BY <1>16, CancelPassive DEF Dropped, Forget, Drain, Unregister, TypeOK, registry, links, hosts
<1>17. ASSUME NEW b \in Bridges, Evict(b) PROVE CancelInv'
  <2>1. PICK old \in stale[b] : Offer(old, ShutdownFrame) /\ Unregister(old)
    BY <1>17 DEF Evict
  <2>2. /\ registered' \subseteq registered
        /\ UNCHANGED <<writing, pending, aborted, cancels, host, active>>
    BY <1>17, <2>1 DEF Evict, Unregister, hosts
  <2> QED BY <2>1, <2>2, CancelShuts
<1>18. ASSUME NEW b \in Bridges, EvictDrains(b) PROVE CancelInv'
  <2>1. Drain(victim[b])
    BY <1>18 DEF EvictDrains
  <2>2. \A s \in Steps : pending'[s] \in {pending[s], 0}
    BY <2>1 DEF Drain, Calls
  <2> QED BY <1>18, <2>2, CancelPassive DEF EvictDrains, TypeOK, registry, links, hosts
<1>19. ASSUME NEW b \in Bridges, Register(b) PROVE CancelInv'
  <2> SUFFICES ASSUME NEW c \in Steps, NEW n \in Bridges,
                      cancel[Owner[c]] \in {"sending", "ok"}, Live(c, n)'
               PROVE  \/ Follows(c, n)'
                      \/ cancel[Owner[c]] = "sending" /\ <<c, n>> \in collected[Owner[c]]
    BY <1>19 DEF Register, CancelInv, cancels
  <2>1. UNCHANGED <<pending, queue, writing, host, active, aborted>> /\ conn[b] = "evicting"
        /\ registered' = registered \cup {b}
    BY <1>19 DEF Register, hosts
  <2>2. pending[c] = n /\ c \in Calls /\ n # 0
    BY <2>1, ZeroIsNoBridge DEF Live, Calls
  <2>3. target[c] = n
    BY <2>2 DEF PendingInv
  <2>4. n # b
    BY <2>1, <2>2, <2>3 DEF AimedInv, Early
  <2>5. Live(c, n)
    BY <2>1, <2>4, StillSame DEF Live
  <2> QED BY <2>1, <2>5, FollowsSame DEF CancelInv
<1>20. ASSUME NEW b \in Bridges, Accept(b) PROVE CancelInv'
  BY <1>20, CancelPassive DEF Accept, Forget, Drain, Unregister, TypeOK, registry, links, hosts
<1>21. ASSUME NEW b \in Bridges, Complete(b) PROVE CancelInv'
  <2>1. \A s \in Steps : pending'[s] \in {pending[s], 0}
    BY <1>21 DEF Complete, TypeOK, Calls
  <2> QED BY <1>21, <2>1, CancelPassive DEF Complete, registry, links, hosts
<1>22. ASSUME NEW b \in Bridges, ConnectionEnds(b) PROVE CancelInv'
  BY <1>22, CancelPassive DEF ConnectionEnds, Forget, Drain, Unregister, TypeOK, registry, links, hosts
<1>23. ASSUME NEW b \in Bridges, ConnectionUnregisters(b) PROVE CancelInv'
  BY <1>23, CancelPassive DEF ConnectionUnregisters, Forget, Drain, Unregister, TypeOK, registry, links, hosts
<1>24. ASSUME NEW b \in Bridges, ConnectionDrains(b) PROVE CancelInv'
  <2>1. Drain(b)
    BY <1>24 DEF ConnectionDrains
  <2>2. \A s \in Steps : pending'[s] \in {pending[s], 0}
    BY <2>1 DEF Drain, Calls
  <2> QED BY <1>24, <2>2, CancelPassive DEF ConnectionDrains, TypeOK, registry, links, hosts
<1>25. ASSUME NEW b \in Bridges, Close(b) PROVE CancelInv'
  BY <1>25, CancelPassive DEF Close, Forget, Drain, Unregister, TypeOK, registry, links, hosts
<1>26. ASSUME NEW b \in Bridges, WriterReceives(b) PROVE CancelInv'
  <2>1. UNCHANGED <<pending, registered, cancels, aborted, host, active>> /\ writing[b] = Nil
    BY <1>26 DEF WriterReceives, WriterInv, registry, hosts
  <2>2. CASE UNCHANGED <<writing, queue>>
    BY <2>1, <2>2, CancelPassive
  <2>3. CASE /\ queue[b] # <<>> /\ writing' = [writing EXCEPT ![b] = Head(queue[b])]
             /\ queue' = [queue EXCEPT ![b] = Tail(@)]
    <3>1. queue[b] \in Seq(Frames) /\ queue'[b] = Tail(queue[b]) /\ writing'[b] = Head(queue[b])
          /\ \A n \in Bridges \ {b} : queue'[n] = queue[n] /\ writing'[n] = writing[n]
      BY <2>3 DEF TypeOK
    <3>2. ASSUME NEW c \in Steps, Live(c, b)' PROVE Live(c, b) /\ (Follows(c, b) => Follows(c, b)')
      <4>1. c \in Calls
        BY DEF Calls
      <4>2. InPipe(c, b)' => InPipe(c, b)
        BY <2>3, <4>1, HeadWasQueued
      <4>3. Live(c, b)
        BY <2>1, <3>2, <4>2 DEF Live, StillToRun
      <4> QED BY <2>1, <2>3, <3>1, <4>1, <4>3, FollowsReceive
    <3> QED BY <2>1, <3>1, <3>2, CancelOf
  <2> QED BY <1>26, <2>2, <2>3 DEF WriterReceives
<1>27. ASSUME NEW b \in Bridges, Write(b) PROVE CancelInv'
  <2>1. /\ UNCHANGED <<pending, registered, cancels, queue>> /\ writing' = [writing EXCEPT ![b] = Nil]
        /\ host[b] = "up" /\ writing[b] \in Frames
    BY <1>27 DEF Write, registry, StrikesInv, WritersHaveFrames
  <2>2. /\ writing'[b] = Nil /\ aborted \subseteq aborted'
        /\ \A n \in Bridges \ {b} : UNCHANGED <<queue[n], writing[n], host[n], active[n]>>
    BY <1>27, <2>1 DEF Write, TypeOK
  <2>3. ASSUME NEW c \in Steps, Live(c, b)' PROVE Live(c, b) /\ (Follows(c, b) => Follows(c, b)')
    <3>1. c \in Calls /\ Nil # CallFrame(c) /\ Nil \notin StopFrames(c)
      BY FramesDiffer DEF Calls
    <3>2. c \in active'[b] \/ InPipe(c, b)
      BY <2>1, <2>2, <2>3, <3>1 DEF Live, StillToRun, InPipe
    <3>3. CASE writing[b].kind = "call"
      <4>1. active' = [active EXCEPT ![b] = @ \cup {writing[b].call}] /\ UNCHANGED aborted
        BY <1>27, <3>3 DEF Write
      <4>2. writing[b] = CallFrame(writing[b].call) /\ writing[b] \notin StopFrames(c)
        BY <2>1, <3>3 DEF Frames, CallFrame, CancelFrame, ShutdownFrame, StopFrames
      <4>3. c \in active'[b] => c \in active[b] \/ InPipe(c, b)
        BY <4>1, <4>2 DEF InPipe, TypeOK
      <4>4. Live(c, b)
        BY <2>1, <2>3, <3>2, <4>3 DEF Live, StillToRun
      <4> QED BY <2>1, <4>1, <4>2, <4>4 DEF Follows
    <3>4. CASE writing[b].kind = "cancel"
      <4>1. UNCHANGED <<host, active>>
            /\ aborted' = IF writing[b].call \in active[b] THEN aborted \cup {writing[b].call} ELSE aborted
        BY <1>27, <3>4 DEF Write
      <4>2. Live(c, b)
        BY <2>1, <2>3, <3>2, <4>1 DEF Live, StillToRun
      <4>3. writing[b] # CallFrame(c) /\ writing[b] # ShutdownFrame
        BY <3>4 DEF CallFrame, ShutdownFrame
      <4>4. ASSUME writing[b] \in StopFrames(c), \A j \in DOMAIN queue[b] : queue[b][j] # CallFrame(c)
            PROVE  c \in aborted'
        <5>1. writing[b].call = c
          BY <4>3, <4>4 DEF StopFrames, CancelFrame
        <5>2. c \in active[b]
          BY <4>1, <4>2, <4>3, <4>4 DEF Live, StillToRun, InPipe
        <5> QED BY <4>1, <5>1, <5>2
      <4> QED BY <2>1, <2>2, <4>2, <4>4 DEF Follows
    <3>5. CASE writing[b].kind = "shutdown"
      <4>1. host' = [host EXCEPT ![b] = "gone"]
        BY <1>27, <3>5 DEF Write
      <4> QED BY <2>3, <4>1 DEF Live, StillToRun, TypeOK
    <3> QED BY <1>27, <3>3, <3>4, <3>5 DEF Write
  <2> QED BY <2>1, <2>2, <2>3, CancelOf
<1>28. ASSUME NEW b \in Bridges, WriteFails(b) PROVE CancelInv'
  <2>1. /\ UNCHANGED <<pending, registered, cancels, aborted>>
        /\ \A n \in Bridges \ {b} : UNCHANGED <<queue[n], writing[n], host[n], active[n]>>
        /\ host'[b] # "up"
    BY <1>28 DEF WriteFails, WriterStops, registry, hosts, TypeOK
  <2> QED BY <2>1, CancelOf DEF Live, StillToRun
<1>29. ASSUME NEW b \in Bridges, WriteTimesOut(b) PROVE CancelInv'
  BY <1>29, CancelPassive DEF WriteTimesOut, Forget, Drain, Unregister, TypeOK, registry, links, hosts
<1>30. ASSUME NEW b \in Bridges, WriterUnregisters(b) PROVE CancelInv'
  BY <1>30, CancelPassive DEF WriterUnregisters, Forget, Drain, Unregister, TypeOK, registry, links, hosts
<1>31. ASSUME NEW b \in Bridges, WriterDrains(b) PROVE CancelInv'
  <2>1. Drain(b)
    BY <1>31 DEF WriterDrains
  <2>2. \A s \in Steps : pending'[s] \in {pending[s], 0}
    BY <2>1 DEF Drain, Calls
  <2> QED BY <1>31, <2>2, CancelPassive DEF WriterDrains, TypeOK, registry, links, hosts
<1>32. ASSUME NEW b \in Bridges, WriterGivesUp(b) PROVE CancelInv'
  <2>1. /\ UNCHANGED <<pending, registered, cancels, aborted>>
        /\ \A n \in Bridges \ {b} : UNCHANGED <<queue[n], writing[n], host[n], active[n]>>
        /\ b \notin registered
    BY <1>32 DEF WriterGivesUp, WriterStops, WriterInv, registry, hosts, TypeOK
  <2> QED BY <2>1, CancelOf DEF Live
<1>33. ASSUME NEW b \in Bridges, Hello(b) PROVE CancelInv'
  BY <1>33, CancelPassive DEF Hello, Forget, Drain, Unregister, TypeOK, registry, links, hosts
<1>34. ASSUME NEW b \in Bridges, HelloFails(b) PROVE CancelInv'
  <2>1. /\ UNCHANGED <<pending, registered, cancels, aborted>>
        /\ \A n \in Bridges \ {b} : UNCHANGED <<queue[n], writing[n], host[n], active[n]>>
        /\ host'[b] # "up"
    BY <1>34 DEF HelloFails, WriterStops, registry, hosts, TypeOK
  <2> QED BY <2>1, CancelOf DEF Live, StillToRun
<1>35. ASSUME NEW b \in Bridges, HostAnswers(b) PROVE CancelInv'
  BY <1>35, CancelPassive DEF HostAnswers, Forget, Drain, Unregister, TypeOK, registry, links, hosts
<1>36. ASSUME NEW b \in Bridges, HostDies(b) PROVE CancelInv'
  BY <1>36, CancelPassive DEF HostDies, Forget, Drain, Unregister, TypeOK, registry, links, hosts
<1>37. ASSUME NEW o \in Owners, Collect(o) PROVE CancelInv'
  <2>1. \A p \in Owners : p # o => cancel'[p] = cancel[p] /\ collected'[p] = collected[p]
    BY <1>37 DEF Collect, TypeOK
  <2>2. cancel'[o] = "sending" /\ collected'[o] = Due(o)
    BY <1>37 DEF Collect, TypeOK
  <2>3. \A c \in Steps, b \in Bridges : Owner[c] = o /\ pending[c] = b => <<c, b>> \in collected'[o]
    BY <2>2 DEF Due
  <2> QED BY <1>37, <2>1, <2>2, <2>3, CancelOthers DEF Collect, Live, registry, links, hosts
<1>38. ASSUME NEW o \in Owners, SendCancel(o) PROVE CancelInv'
  <2>1. PICK e \in collected[o] :
          /\ collected' = [collected EXCEPT ![o] = @ \ {e}]
          /\ \/ e[2] \notin registered /\ UNCHANGED <<queue, cancel>>
             \/ /\ e[2] \in registered
                /\ Offer(e[2], CancelFrame(e[1]))
                /\ cancel' = IF ReceiverAlive(e[2]) /\ HasRoom(e[2]) THEN cancel
                             ELSE [cancel EXCEPT ![o] = "refused"]
    BY <1>38 DEF SendCancel
  <2>2. UNCHANGED <<writing, registered, pending, host, active, aborted>>
    BY <1>38 DEF SendCancel, registry, hosts
  <2>3. e \in Steps \X Bridges /\ e[1] \in Calls /\ CancelFrame(e[1]) \in Frames
        /\ CancelFrame(e[1]).kind # "call"
    BY <2>1, FramesDiffer DEF TypeOK, Calls, CancelFrame, Frames
  <2>4. UNCHANGED queue \/ Offer(e[2], CancelFrame(e[1]))
    BY <2>1
  <2>5. \A p \in Owners : /\ p # o => cancel'[p] = cancel[p] /\ collected'[p] = collected[p]
                          /\ cancel'[p] \in {"sending", "ok"} => cancel'[p] = cancel[p]
    BY <2>1 DEF TypeOK
  <2>6. cancel'[o] \in {"sending", "ok"} /\ e[2] \in registered =>
          queue'[e[2]] = Append(queue[e[2]], CancelFrame(e[1]))
    BY <2>1, <2>3 DEF Offer, TypeOK
  <2> SUFFICES ASSUME NEW c \in Steps, NEW b \in Bridges, Live(c, b)',
                      cancel'[Owner[c]] \in {"sending", "ok"}
               PROVE  \/ Follows(c, b)'
                      \/ cancel'[Owner[c]] = "sending" /\ <<c, b>> \in collected'[Owner[c]]
    BY DEF CancelInv
  <2>7. c \in Calls /\ Owner[c] \in Owners
    BY BridgeAssumption DEF Calls
  <2>8. InPipe(c, b)' => InPipe(c, b)
    BY <2>2, <2>3, <2>4, <2>7, OfferOther
  <2>9. Live(c, b) /\ b \in registered
    BY <2>2, <2>8 DEF Live, StillToRun
  <2>10. CASE e = <<c, b>> /\ Owner[c] = o
    <3>1. e[1] = c /\ e[2] = b
      BY <2>10
    <3>2. queue'[b] = Append(queue[b], CancelFrame(c))
      BY <2>6, <2>9, <2>10, <3>1
    <3> QED BY <2>7, <3>2, FollowsNew DEF StopFrames, TypeOK
  <2>11. CASE ~(e = <<c, b>> /\ Owner[c] = o)
    <3>1. <<c, b>> \in collected[Owner[c]] => <<c, b>> \in collected'[Owner[c]]
      BY <2>1, <2>5, <2>7, <2>11 DEF TypeOK
    <3>2. Follows(c, b) => Follows(c, b)'
      <4>1. queue[b] \in Seq(Frames)
        BY DEF TypeOK
      <4>2. queue'[b] = queue[b] \/ queue'[b] = Append(queue[b], CancelFrame(e[1]))
        BY <2>4 DEF Offer, TypeOK
      <4> QED BY <2>2, <2>3, <2>7, <4>1, <4>2, FramesDiffer, FollowsSame, FollowsAppend
    <3> QED BY <2>5, <2>7, <2>9, <3>1, <3>2 DEF CancelInv
  <2> QED BY <2>10, <2>11
<1>39. ASSUME NEW o \in Owners, CancelReturns(o) PROVE CancelInv'
  <2>1. \A p \in Owners : p # o => cancel'[p] = cancel[p] /\ collected'[p] = collected[p]
    BY <1>39 DEF CancelReturns, TypeOK
  <2>2. /\ UNCHANGED <<queue, writing, registered, pending, host, active, aborted>>
        /\ collected[o] = {}
        /\ cancel'[o] \in {"sending", "ok"} => cancel[o] = "sending"
    BY <1>39 DEF CancelReturns, TypeOK, registry, links, hosts
  <2>3. ASSUME NEW c \in Steps, NEW b \in Bridges, Owner[c] = o, cancel'[o] \in {"sending", "ok"}, Live(c, b)
        PROVE  Follows(c, b)
    <3>1. cancel[Owner[c]] = "sending" /\ <<c, b>> \notin collected[Owner[c]]
      BY <2>2, <2>3
    <3> QED BY <2>3, <3>1 DEF CancelInv
  <2> QED BY <2>1, <2>2, <2>3, CancelOthers
<1>40. ASSUME NEW o \in Owners, Cancel(o) PROVE CancelInv'
  <2>1. \A p \in Owners : p # o => cancel'[p] = cancel[p]
    BY <1>40 DEF Cancel, TypeOK
  <2>2. cancel'[o] = "flagged"
    BY <1>40 DEF Cancel, TypeOK
  <2> QED BY <1>40, <2>1, <2>2, CancelOthers DEF Cancel, registry, links, hosts
<1> QED
  BY <1>0, <1>1, <1>2, <1>3, <1>4, <1>5, <1>6, <1>7, <1>8, <1>9, <1>10, <1>11, <1>12,
     <1>13, <1>14, <1>15, <1>16, <1>17, <1>18, <1>19, <1>20, <1>21, <1>22, <1>23, <1>24,
     <1>25, <1>26, <1>27, <1>28, <1>29, <1>30, <1>31, <1>32, <1>33, <1>34, <1>35, <1>36,
     <1>37, <1>38, <1>39, <1>40
     DEF Next, CallerStep, TimerStep, ConnectionStep, WriterStep, CancelStep

\* What follows a call in the channel and the writer follows it in the pipe.
LEMMA FollowsInPipe ==
  ASSUME TypeOK, NEW c \in Calls, NEW b \in Bridges, Follows(c, b)
  PROVE  CancelBehind(c, b)
<1> DEFINE p == Pipe(b)
<1>1. CASE writing[b] = Nil
  <2>1. p = queue[b] /\ writing[b] \notin StopFrames(c)
    BY <1>1, FramesDiffer DEF Pipe
  <2> QED BY <2>1 DEF Follows, CancelBehind, StopFrames
<1>2. CASE writing[b] # Nil
  <2>1. queue[b] \in Seq(Frames) /\ <<writing[b]>> \in Seq(Frames) /\ Len(<<writing[b]>>) = 1
        /\ p = <<writing[b]>> \o queue[b]
    BY <1>2 DEF TypeOK, Pipe
  <2>2. /\ Len(queue[b]) \in Nat /\ DOMAIN queue[b] = 1..Len(queue[b])
        /\ DOMAIN p = 1..(Len(queue[b]) + 1) /\ p[1] = writing[b]
        /\ \A i \in DOMAIN queue[b] : p[i + 1] = queue[b][i]
    <3>1. Len(queue[b]) \in Nat /\ DOMAIN queue[b] = 1..Len(queue[b])
      BY <2>1, LenProperties
    <3>2. p \in Seq(Frames) /\ Len(p) = 1 + Len(queue[b])
          /\ \A i \in 1..Len(p) : p[i] = IF i <= 1 THEN <<writing[b]>>[i] ELSE queue[b][i - 1]
      BY <2>1, ConcatProperties
    <3>3. DOMAIN p = 1..(Len(queue[b]) + 1)
      BY <3>1, <3>2, LenProperties
    <3>4. <<writing[b]>>[1] = writing[b]
      OBVIOUS
    <3>5. p[1] = writing[b]
      BY <3>1, <3>2, <3>4
    <3>6. ASSUME NEW i \in DOMAIN queue[b] PROVE p[i + 1] = queue[b][i]
      <4>1. i + 1 \in 1..Len(p) /\ ~(i + 1 <= 1) /\ (i + 1) - 1 = i
        BY <3>1, <3>2
      <4> HIDE DEF p
      <4>2. p[i + 1] = queue[b][(i + 1) - 1]
        BY <3>2, <4>1
      <4> QED BY <4>1, <4>2
    <3> QED BY <3>1, <3>3, <3>5, <3>6
  <2>3. ASSUME NEW i \in DOMAIN queue[b], queue[b][i] \in StopFrames(c),
               \A j \in DOMAIN queue[b] : queue[b][j] = CallFrame(c) => j < i
        PROVE  CancelBehind(c, b)
    <3>1. i + 1 \in DOMAIN p /\ p[i + 1] \in StopFrames(c)
      BY <2>2, <2>3
    <3>2. ASSUME NEW j \in DOMAIN p, p[j] = CallFrame(c) PROVE j < i + 1
      <4>1. CASE j = 1
        BY <2>2, <2>3, <4>1
      <4>2. CASE j # 1
        <5>1. j - 1 \in DOMAIN queue[b] /\ p[(j - 1) + 1] = p[j]
          BY <2>2, <4>2
        <5>2. j - 1 < i
          BY <2>2, <2>3, <3>2, <5>1
        <5> QED BY <2>2, <5>2
      <4> QED BY <4>1, <4>2
    <3> QED BY <3>1, <3>2 DEF CancelBehind, StopFrames
  <2>4. CASE writing[b] \in StopFrames(c) /\ \A j \in DOMAIN queue[b] : queue[b][j] # CallFrame(c)
    <3>1. 1 \in DOMAIN p /\ p[1] \in StopFrames(c)
      BY <2>2, <2>4
    <3>2. ASSUME NEW j \in DOMAIN p, p[j] = CallFrame(c) PROVE FALSE
      <4>1. CASE j = 1
        BY <2>2, <2>4, <3>2, <4>1, FramesDiffer
      <4>2. CASE j # 1
        <5>1. j - 1 \in DOMAIN queue[b] /\ p[(j - 1) + 1] = p[j]
          BY <2>2, <4>2
        <5> QED BY <2>2, <2>4, <3>2, <5>1
      <4> QED BY <4>1, <4>2
    <3> QED BY <3>1, <3>2 DEF CancelBehind, StopFrames
  <2> QED BY <2>3, <2>4 DEF Follows, CancelBehind
<1> QED BY <1>1, <1>2

\* Once a cancellation was acknowledged, a stop is behind every call of the run that is on
\* its way to a registered host or running there (marking in runs.cancel and dispatching in
\* try_call_native_bridge_raw_inner exclude each other).
THEOREM CancelFollowsCallsHolds == Spec => []CancelFollowsCalls
<1>1. Init => TypeOK /\ StrikesInv
  BY InitTyped
<1>2. Init => PendingInv /\ VictimInv
  BY DEF Init, PendingInv, VictimInv, Awaits
<1>3. Init => AimedInv /\ WriterInv /\ CancelInv
  <2> SUFFICES ASSUME Init PROVE AimedInv /\ WriterInv /\ CancelInv
    OBVIOUS
  <2>1. AimedInv /\ WriterInv
    BY DEF Init, AimedInv, WriterInv, Early
  <2>2. \A c \in Steps : cancel[Owner[c]] = "no"
    BY BridgeAssumption DEF Init
  <2> QED BY <2>1, <2>2 DEF CancelInv
<1>4. /\ TypeOK /\ StrikesInv /\ PendingInv /\ VictimInv /\ AimedInv /\ WriterInv /\ CancelInv
      /\ [Next]_vars
      => (TypeOK /\ StrikesInv /\ PendingInv /\ VictimInv /\ AimedInv /\ WriterInv /\ CancelInv)'
  BY TypeStep, StrikesStep, PendingStep, VictimStep, AimedStep, WritersStep, CancelInvStep
<1>5. TypeOK /\ CancelInv => CancelFollowsCalls
  <2> SUFFICES ASSUME TypeOK, CancelInv, NEW c \in Steps, NEW b \in registered,
                      cancel[Owner[c]] = "ok", pending[c] = b, StillToRun(c, b)
               PROVE  CancelBehind(c, b)
    BY DEF CancelFollowsCalls
  <2>1. b \in Bridges /\ c \in Calls
    BY DEF TypeOK, Calls
  <2>2. Follows(c, b)
    BY <2>1 DEF CancelInv, Live
  <2> QED BY <2>1, <2>2, FollowsInPipe
<1> QED BY <1>1, <1>2, <1>3, <1>4, <1>5, PTL DEF Spec
=============================================================================
