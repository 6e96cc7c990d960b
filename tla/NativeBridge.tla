----------------------------- MODULE NativeBridge -----------------------------
(***************************************************************************)
(* The hop between the supervisor and the native hosts of one browser      *)
(* instance (crates/rzn_browser/src/supervisor.rs): the bridge registry,   *)
(* the connection and the writer task of every bridge, the calls that      *)
(* callers put on a bridge, their pending table, health pings that restart *)
(* a silent host, and the cancellation of runs and MCP requests.           *)
(* A bridge id is used once, so it stands for its epoch check as well.     *)
(* Locks: one step per critical section; a lock held across steps is       *)
(* RegistryFree and McpLockFree.                                           *)
(***************************************************************************)
EXTENDS Integers, Sequences, FiniteSets

CONSTANTS
  Steps,         \* execute_step calls, each with the id it is sent under
  Pings,         \* health pings of the supervisor's periodic task
  Runs,          \* runs whose steps runs.cancel cancels
  McpRequests,   \* MCP requests whose steps browser.cancel_pending cancels
  Owner,         \* the run or MCP request of each step
  MaxBridges,    \* bound on native host connections
  QueueCapacity, \* NATIVE_BRIDGE_QUEUE_CAPACITY
  Nil

Calls == Steps \cup Pings
Owners == Runs \cup McpRequests
Bridges == 1..MaxBridges

CallFrame(c) == [kind |-> "call", call |-> c]
CancelFrame(c) == [kind |-> "cancel", call |-> c]
ShutdownFrame == [kind |-> "shutdown", call |-> Nil]
Frames == [kind : {"call", "cancel"}, call : Calls] \cup {ShutdownFrame}

ASSUME BridgeAssumption ==
  /\ Steps \cap Pings = {} /\ Runs \cap McpRequests = {}
  /\ Owner \in [Steps -> Owners]
  /\ MaxBridges \in Nat /\ QueueCapacity \in Nat \ {0}
  /\ Nil \notin Calls \cup Frames

VARIABLES
  registered, \* native_bridges
  epoch,      \* bridge_epoch_counter at registration, 0 before
  epochs,     \* bridge_epoch_counter
  conn,       \* handle_native_bridge_connection of each bridge
  stale,      \* older bridges a registration still has to evict
  victim,     \* the one it is clearing
  writer,     \* run_native_bridge_writer of each bridge
  writing,    \* the frame it is writing
  queue,      \* the bridge's outbound channel
  host,       \* the native host's side of the connection
  active,     \* calls the host has given to the extension
  answers,    \* responses on their way back
  pending,    \* native_bridge_pending: the bridge of a call, 0 if none
  pc,         \* how far each caller is; at the end, what it was told
  target,     \* the bridge a caller resolved last
  held,       \* the bridge whose sender it keeps for the whole call
  reply,      \* the oneshot a caller awaits
  strikes,    \* consecutive_failed_health_pings
  cancel,     \* how far the cancellation of each run or MCP request is
  collected,  \* calls it still has to send a cancel frame for
  aborted,    \* calls whose cancel frame reached the host that ran them
  handed      \* history: the hosts each call was written to

registry == <<registered, epoch, epochs>>
links == <<conn, stale, victim, writer, writing, queue>>
hosts == <<host, active, answers, aborted, handed>>
callers == <<pc, target, held, reply>>
cancels == <<cancel, collected>>
vars == <<registry, links, hosts, pending, callers, strikes, cancels>>

\* What a caller is told when its call was certainly not given to a host.
NotSent == {"none", "queue_full", "cancelled"}
Ended == NotSent \cup {"answered", "disconnected", "timeout", "dropped"}
Awaits == {"insert", "full", "closed", "unregister", "drain", "rewait", "await",
           "restart", "restart_drain"}

TypeOK ==
  /\ registered \subseteq Bridges
  /\ epoch \in [Bridges -> Nat] /\ epochs \in Nat
  /\ conn \in [Bridges -> {"none", "evicting", "evict_drain", "hello", "open", "ended",
                           "draining", "closing", "gone"}]
  /\ stale \in [Bridges -> SUBSET Bridges]
  /\ victim \in [Bridges -> Bridges \cup {0}]
  /\ writer \in [Bridges -> {"none", "new", "receiving", "writing", "stuck", "clearing",
                             "cleared", "done"}]
  /\ writing \in [Bridges -> Frames \cup {Nil}]
  /\ queue \in [Bridges -> Seq(Frames)]
  /\ host \in [Bridges -> {"none", "up", "gone"}]
  /\ active \in [Bridges -> SUBSET Calls] /\ answers \in [Bridges -> SUBSET Calls]
  /\ pending \in [Calls -> Bridges \cup {0}]
  /\ pc \in [Calls -> {"idle"} \cup Awaits \cup Ended]
  /\ target \in [Calls -> Bridges \cup {0}] /\ held \in [Calls -> Bridges \cup {0}]
  /\ reply \in [Calls -> {"none", "answered", "disconnected"}]
  /\ strikes \in [Bridges -> 0..2]
  /\ cancel \in [Owners -> {"no", "flagged", "sending", "refused", "ok", "failed"}]
  /\ collected \in [Owners -> SUBSET (Steps \X Bridges)]
  /\ aborted \subseteq Calls
  /\ handed \in [Calls -> SUBSET Bridges]

Init ==
  /\ registered = {} /\ epoch = [b \in Bridges |-> 0] /\ epochs = 0
  /\ conn = [b \in Bridges |-> "none"] /\ stale = [b \in Bridges |-> {}]
  /\ victim = [b \in Bridges |-> 0]
  /\ writer = [b \in Bridges |-> "none"] /\ writing = [b \in Bridges |-> Nil]
  /\ queue = [b \in Bridges |-> <<>>]
  /\ host = [b \in Bridges |-> "none"]
  /\ active = [b \in Bridges |-> {}] /\ answers = [b \in Bridges |-> {}]
  /\ pending = [c \in Calls |-> 0]
  /\ pc = [c \in Calls |-> "idle"]
  /\ target = [c \in Calls |-> 0] /\ held = [c \in Calls |-> 0]
  /\ reply = [c \in Calls |-> "none"]
  /\ strikes = [b \in Bridges |-> 0]
  /\ cancel = [o \in Owners |-> "no"] /\ collected = [o \in Owners |-> {}]
  /\ aborted = {}
  /\ handed = [c \in Calls |-> {}]

----------------------------------------------------------------------------
(* Locks and the channel of a bridge                                        *)

\* cancel_pending_extension_steps_matching keeps the registry locked while it sends.
RegistryFree == \A o \in Owners : cancel[o] \notin {"sending", "refused"}
\* browser.cancel_pending keeps mcp_cancelled locked from its mark to its last frame.
McpLockFree == \A o \in McpRequests : cancel[o] \notin {"flagged", "sending", "refused"}

ReceiverAlive(b) == writer[b] \notin {"none", "done"}
HasRoom(b) == Len(queue[b]) < QueueCapacity

\* A sender of b's channel exists: the registry's, a caller's clone, or an evicting
\* registration's.
HasSender(b) ==
  \/ b \in registered
  \/ \E c \in Calls : held[c] = b /\ pc[c] \in Awaits
  \/ \E n \in Bridges : conn[n] \in {"evicting", "evict_drain"} /\ b \in stale[n]

\* try_send whose failure is ignored.
Offer(b, f) ==
  queue' = IF ReceiverAlive(b) /\ HasRoom(b) THEN [queue EXCEPT ![b] = Append(@, f)]
           ELSE queue

\* clear_native_bridge, first critical section.
Unregister(b) == RegistryFree /\ registered' = registered \ {b}

\* drain_native_bridge_pending: every call of the bridge gets a disconnect error.
Drain(b) ==
  /\ pending' = [c \in Calls |-> IF pending[c] = b THEN 0 ELSE pending[c]]
  /\ reply' = [c \in Calls |-> IF pending[c] = b THEN "disconnected" ELSE reply[c]]

\* Candidates of the instance are sorted by registration; the newest is taken.
Newest(b) == b \in registered /\ \A n \in registered : epoch[n] <= epoch[b]

----------------------------------------------------------------------------
(* Callers: try_call_native_bridge_raw_inner                                *)

Become(c, s) == pc' = [pc EXCEPT ![c] = s]

\* resolve_native_bridge_target, for the browser instance of a session or request.
Resolve(c) ==
  /\ pc[c] = "idle" /\ c \in Steps /\ RegistryFree
  /\ \E b \in Bridges :
       /\ Newest(b)
       /\ target' = [target EXCEPT ![c] = b] /\ held' = [held EXCEPT ![c] = b]
  /\ Become(c, "insert")
  /\ UNCHANGED <<registry, links, hosts, pending, reply, strikes, cancels>>

\* The periodic task pings the bridges one after the other.
StartPing(c) ==
  /\ pc[c] = "idle" /\ c \in Pings /\ RegistryFree
  /\ \A p \in Pings : pc[p] \notin Awaits
  /\ \E b \in registered :
       /\ target' = [target EXCEPT ![c] = b] /\ held' = [held EXCEPT ![c] = b]
  /\ Become(c, "insert")
  /\ UNCHANGED <<registry, links, hosts, pending, reply, strikes, cancels>>

\* Mutant: the wait for another bridge has no end.
NoBridgeAtFirst(c) ==
  /\ pc[c] = "idle" /\ c \in Steps /\ registered = {} /\ RegistryFree
  /\ Become(c, "none")
  /\ UNCHANGED <<registry, links, hosts, pending, target, held, reply, strikes, cancels>>

\* No bridge, and none came while the caller waited.
NoBridge(c) ==
  /\ \/ pc[c] = "idle" /\ c \in Steps
     \/ pc[c] = "rewait"
  /\ registered = {} /\ RegistryFree
  /\ Become(c, "none")
  /\ UNCHANGED <<registry, links, hosts, pending, target, held, reply, strikes, cancels>>

CancelSeen(c) == c \in Steps /\ cancel[Owner[c]] # "no"

\* Under the locks of mcp_cancelled and native_bridge_pending: look for a cancellation,
\* register the call and put its frame on the channel.
Insert(c) ==
  LET b == target[c] IN
  /\ pc[c] = "insert" /\ McpLockFree
  /\ \/ /\ CancelSeen(c)
        /\ Become(c, "cancelled") /\ UNCHANGED <<pending, queue>>
     \/ /\ ~CancelSeen(c)
        /\ pending' = [pending EXCEPT ![c] = b]
        /\ Offer(b, CallFrame(c))
        /\ Become(c, IF ~ReceiverAlive(b) THEN "closed"
                     ELSE IF HasRoom(b) THEN "await" ELSE "full")
  /\ UNCHANGED <<registry, conn, stale, victim, writer, writing, hosts, target, held, reply,
                 strikes, cancels>>

\* The channel was full.
GiveUpFull(c) ==
  /\ pc[c] = "full"
  /\ pending' = [pending EXCEPT ![c] = 0]
  /\ Become(c, "queue_full")
  /\ UNCHANGED <<registry, links, hosts, target, held, reply, strikes, cancels>>

\* The writer is gone. If the entry is gone too, a first attempt ends here.
FindClosed(c) ==
  /\ pc[c] = "closed"
  /\ pending' = [pending EXCEPT ![c] = 0]
  /\ Become(c, IF pending[c] = 0 /\ held[c] = target[c] THEN "none" ELSE "unregister")
  /\ UNCHANGED <<registry, links, hosts, target, held, reply, strikes, cancels>>

\* clear_native_bridge of the caller.
CallerUnregisters(c) ==
  /\ pc[c] = "unregister"
  /\ Unregister(target[c])
  /\ Become(c, "drain")
  /\ UNCHANGED <<epoch, epochs, links, hosts, pending, target, held, reply, strikes, cancels>>

\* Only the first attempt of a step waits for another bridge.
CallerDrains(c) ==
  /\ pc[c] = "drain"
  /\ Drain(target[c])
  /\ Become(c, IF c \in Steps /\ held[c] = target[c] THEN "rewait" ELSE "none")
  /\ UNCHANGED <<registry, links, hosts, target, held, strikes, cancels>>

\* A bridge is there (again): the same call is sent to it.
Reresolve(c) ==
  /\ pc[c] = "rewait" /\ RegistryFree
  /\ \E b \in Bridges : Newest(b) /\ target' = [target EXCEPT ![c] = b]
  /\ Become(c, "insert")
  /\ UNCHANGED <<registry, links, hosts, pending, held, reply, strikes, cancels>>

\* Mutant: a step that was disconnected is sent again.
AfterReplyRetrying(c) ==
  IF reply[c] = "disconnected" /\ held[c] = target[c] THEN "rewait" ELSE reply[c]

AfterReply(c) == reply[c]

\* The oneshot has a response.
Return(c) ==
  /\ pc[c] = "await" /\ c \in Steps /\ reply[c] # "none"
  /\ Become(c, AfterReply(c))
  /\ UNCHANGED <<registry, links, hosts, pending, target, held, reply, strikes, cancels>>

Forget(c) == pending' = [pending EXCEPT ![c] = 0]

TimesOut(c) ==
  /\ pc[c] = "await" /\ c \in Steps
  /\ Forget(c)
  /\ Become(c, "timeout")
  /\ UNCHANGED <<registry, links, hosts, target, held, reply, strikes, cancels>>

PingSucceeds(c) ==
  /\ pc[c] = "await" /\ c \in Pings /\ reply[c] = "answered"
  /\ strikes' = [strikes EXCEPT ![target[c]] = 0]
  /\ Become(c, "answered")
  /\ UNCHANGED <<registry, links, hosts, pending, target, held, reply, cancels>>

StrikesOut(n) == n >= 2

\* A transport error in the response, a disconnect, or no response in time. The health
\* entry lives as long as the registration.
PingFails(c) ==
  LET b == target[c]
      counted == b \in registered IN
  /\ pc[c] = "await" /\ c \in Pings /\ RegistryFree
  /\ Forget(c)
  /\ strikes' = IF counted THEN [strikes EXCEPT ![b] = @ + 1] ELSE strikes
  /\ Become(c, IF counted /\ StrikesOut(strikes[b] + 1) THEN "restart" ELSE "timeout")
  /\ UNCHANGED <<registry, links, hosts, target, held, reply, cancels>>

\* request_native_bridge_restart.
Restart(c) ==
  LET b == target[c] IN
  /\ pc[c] = "restart"
  /\ \/ b \in registered /\ Offer(b, ShutdownFrame) /\ Unregister(b)
        /\ Become(c, "restart_drain")
     \/ b \notin registered /\ Become(c, "timeout") /\ UNCHANGED <<queue, registered>>
  /\ UNCHANGED <<epoch, epochs, conn, stale, victim, writer, writing, hosts, pending, target, held,
                 reply, strikes, cancels>>

RestartDrains(c) ==
  /\ pc[c] = "restart_drain"
  /\ Drain(target[c])
  /\ Become(c, "timeout")
  /\ UNCHANGED <<registry, links, hosts, target, held, strikes, cancels>>

\* A client hangs up, or a local run was cancelled: the future is dropped where it is.
Dropped(c) ==
  /\ c \in Steps /\ pc[c] \in Awaits
  /\ Become(c, "dropped")
  /\ UNCHANGED <<registry, links, hosts, pending, target, held, reply, strikes, cancels>>

----------------------------------------------------------------------------
(* Connections and writers                                                  *)

\* A native host says hello. register_native_bridge_with_metadata looks for older
\* bridges of the instance.
Hello(b) ==
  /\ conn[b] = "none" /\ (\A n \in 1..(b - 1) : conn[n] # "none") /\ RegistryFree
  /\ conn' = [conn EXCEPT ![b] = "evicting"]
  /\ host' = [host EXCEPT ![b] = "up"]
  /\ stale' = [stale EXCEPT ![b] = registered]
  /\ UNCHANGED <<registry, victim, writer, writing, queue, active, answers, aborted, handed, pending,
                 callers, strikes, cancels>>

\* Tell one of them to shut down, and clear it.
Evict(b) ==
  /\ conn[b] = "evicting"
  /\ \E old \in stale[b] :
       /\ victim' = [victim EXCEPT ![b] = old]
       /\ Offer(old, ShutdownFrame) /\ Unregister(old)
  /\ conn' = [conn EXCEPT ![b] = "evict_drain"]
  /\ UNCHANGED <<epoch, epochs, stale, writer, writing, hosts, pending, callers, strikes, cancels>>

EvictDrains(b) ==
  /\ conn[b] = "evict_drain"
  /\ Drain(victim[b])
  /\ stale' = [stale EXCEPT ![b] = @ \ {victim[b]}]
  /\ conn' = [conn EXCEPT ![b] = "evicting"]
  /\ UNCHANGED <<registry, victim, writer, writing, queue, hosts, pc, target, held, strikes,
                 cancels>>

Register(b) ==
  /\ conn[b] = "evicting" /\ stale[b] = {} /\ RegistryFree
  /\ epochs' = epochs + 1
  /\ epoch' = [epoch EXCEPT ![b] = epochs + 1]
  /\ registered' = registered \cup {b}
  /\ writer' = [writer EXCEPT ![b] = "new"]
  /\ conn' = [conn EXCEPT ![b] = "hello"]
  /\ UNCHANGED <<stale, victim, writing, queue, hosts, pending, callers, strikes, cancels>>

\* The hello is answered and the writer task spawned.
Accept(b) ==
  /\ conn[b] = "hello"
  /\ conn' = [conn EXCEPT ![b] = "open"]
  /\ writer' = [writer EXCEPT ![b] = "receiving"]
  /\ UNCHANGED <<registry, stale, victim, writing, queue, hosts, pending, callers, strikes,
                 cancels>>

\* Answering the hello fails: the handler returns and leaves the registration behind.
HelloFails(b) ==
  /\ conn[b] = "hello"
  /\ conn' = [conn EXCEPT ![b] = "gone"]
  /\ writer' = [writer EXCEPT ![b] = "done"]
  /\ queue' = [queue EXCEPT ![b] = <<>>]
  /\ host' = [host EXCEPT ![b] = "gone"]
  /\ UNCHANGED <<registry, stale, victim, writing, active, answers, aborted, handed, pending,
                 callers, strikes, cancels>>

\* complete_native_bridge_response; what nobody waits for is dropped.
Complete(b) ==
  /\ conn[b] = "open"
  /\ \E c \in answers[b] :
       /\ answers' = [answers EXCEPT ![b] = @ \ {c}]
       /\ IF pending[c] = b
          THEN /\ pending' = [pending EXCEPT ![c] = 0]
               /\ reply' = [reply EXCEPT ![c] = "answered"]
          ELSE UNCHANGED <<pending, reply>>
  /\ UNCHANGED <<registry, links, host, active, aborted, handed, pc, target, held, strikes,
                 cancels>>

\* Mutant: only the end of the stream ends the connection.
HungUpOnEofOnly(b) == host[b] = "gone" /\ answers[b] = {}

\* End of the stream, or a dead writer.
HungUp(b) == (host[b] = "gone" /\ answers[b] = {}) \/ writer[b] = "done"

ConnectionEnds(b) ==
  /\ conn[b] = "open" /\ HungUp(b)
  /\ conn' = [conn EXCEPT ![b] = "ended"]
  /\ UNCHANGED <<registry, stale, victim, writer, writing, queue, hosts, pending, callers,
                 strikes, cancels>>

ConnectionUnregisters(b) ==
  /\ conn[b] = "ended"
  /\ Unregister(b)
  /\ conn' = [conn EXCEPT ![b] = "draining"]
  /\ UNCHANGED <<epoch, epochs, stale, victim, writer, writing, queue, hosts, pending, callers,
                 strikes, cancels>>

ConnectionDrains(b) ==
  /\ conn[b] = "draining"
  /\ Drain(b)
  /\ conn' = [conn EXCEPT ![b] = "closing"]
  /\ UNCHANGED <<registry, stale, victim, writer, writing, queue, hosts, pc, target, held,
                 strikes, cancels>>

\* The handler waits for the writer; then the socket is dropped.
Close(b) ==
  /\ conn[b] = "closing" /\ writer[b] = "done"
  /\ conn' = [conn EXCEPT ![b] = "gone"]
  /\ host' = [host EXCEPT ![b] = "gone"]
  /\ active' = [active EXCEPT ![b] = {}] /\ answers' = [answers EXCEPT ![b] = {}]
  /\ UNCHANGED <<registry, stale, victim, writer, writing, queue, aborted, handed, pending,
                 callers, strikes, cancels>>

\* rx.recv(): the next frame, or the end once every sender is dropped.
WriterReceives(b) ==
  /\ writer[b] = "receiving"
  /\ \/ /\ queue[b] # <<>>
        /\ writing' = [writing EXCEPT ![b] = Head(queue[b])]
        /\ queue' = [queue EXCEPT ![b] = Tail(@)]
        /\ writer' = [writer EXCEPT ![b] = "writing"]
     \/ /\ queue[b] = <<>> /\ ~HasSender(b)
        /\ writer' = [writer EXCEPT ![b] = "done"]
        /\ UNCHANGED <<writing, queue>>
  /\ UNCHANGED <<registry, conn, stale, victim, hosts, pending, callers, strikes, cancels>>

WriterStops(b) ==
  /\ writer' = [writer EXCEPT ![b] = "done"]
  /\ writing' = [writing EXCEPT ![b] = Nil]
  /\ queue' = [queue EXCEPT ![b] = <<>>]

\* write_frame succeeds, and the host handles the frame (run_upstream_connection).
Write(b) ==
  LET f == writing[b] IN
  /\ writer[b] = "writing" /\ host[b] = "up"
  /\ writer' = [writer EXCEPT ![b] = "receiving"]
  /\ writing' = [writing EXCEPT ![b] = Nil]
  /\ \/ /\ f.kind = "call"
        /\ active' = [active EXCEPT ![b] = @ \cup {f.call}]
        /\ handed' = [handed EXCEPT ![f.call] = @ \cup {b}]
        /\ UNCHANGED <<host, aborted>>
     \/ /\ f.kind = "cancel"
        /\ aborted' = IF f.call \in active[b] THEN aborted \cup {f.call} ELSE aborted
        /\ UNCHANGED <<host, active, handed>>
     \/ /\ f.kind = "shutdown"
        /\ host' = [host EXCEPT ![b] = "gone"]
        /\ active' = [active EXCEPT ![b] = {}]
        /\ UNCHANGED <<aborted, handed>>
  /\ UNCHANGED <<registry, conn, stale, victim, queue, answers, pending, callers, strikes, cancels>>

\* write_frame fails.
WriteFails(b) ==
  /\ writer[b] = "writing" /\ host[b] = "gone"
  /\ WriterStops(b)
  /\ UNCHANGED <<registry, conn, stale, victim, hosts, pending, callers, strikes, cancels>>

\* NATIVE_BRIDGE_WRITE_TIMEOUT: the bridge is cleared, then the channel dropped.
WriteTimesOut(b) ==
  /\ writer[b] = "writing" /\ host[b] = "up"
  /\ writer' = [writer EXCEPT ![b] = "stuck"]
  /\ UNCHANGED <<registry, conn, stale, victim, writing, queue, hosts, pending, callers,
                 strikes, cancels>>

WriterUnregisters(b) ==
  /\ writer[b] = "stuck"
  /\ Unregister(b)
  /\ writer' = [writer EXCEPT ![b] = "clearing"]
  /\ UNCHANGED <<epoch, epochs, conn, stale, victim, writing, queue, hosts, pending, callers,
                 strikes, cancels>>

WriterDrains(b) ==
  /\ writer[b] = "clearing"
  /\ Drain(b)
  /\ writer' = [writer EXCEPT ![b] = "cleared"]
  /\ UNCHANGED <<registry, conn, stale, victim, writing, queue, hosts, pc, target, held,
                 strikes, cancels>>

WriterGivesUp(b) ==
  /\ writer[b] = "cleared"
  /\ WriterStops(b)
  /\ UNCHANGED <<registry, conn, stale, victim, hosts, pending, callers, strikes, cancels>>

\* The extension answers, or the host does for it: a timeout, an overload.
HostAnswers(b) ==
  /\ host[b] = "up"
  /\ \E c \in active[b] :
       /\ active' = [active EXCEPT ![b] = @ \ {c}]
       /\ answers' = [answers EXCEPT ![b] = @ \cup {c}]
  /\ UNCHANGED <<registry, links, host, aborted, handed, pending, callers, strikes, cancels>>

\* The host process ends; what it had written can still be read.
HostDies(b) ==
  /\ host[b] = "up"
  /\ host' = [host EXCEPT ![b] = "gone"]
  /\ active' = [active EXCEPT ![b] = {}]
  /\ UNCHANGED <<registry, links, answers, aborted, handed, pending, callers, strikes, cancels>>

----------------------------------------------------------------------------
(* Cancellation                                                             *)

\* runs.cancel marks the run under the lock of native_bridge_pending,
\* browser.cancel_pending the request under that of mcp_cancelled.
Cancel(o) ==
  /\ cancel[o] = "no"
  /\ o \in McpRequests => McpLockFree
  /\ cancel' = [cancel EXCEPT ![o] = "flagged"]
  /\ UNCHANGED <<registry, links, hosts, pending, callers, strikes, collected>>

\* Mutant: only the calls of callers that still wait are collected.
DueOfLiveCallers(o) ==
  {e \in Steps \X Bridges : Owner[e[1]] = o /\ pending[e[1]] = e[2] /\ pc[e[1]] = "await"}

Due(o) == {e \in Steps \X Bridges : Owner[e[1]] = o /\ pending[e[1]] = e[2]}

\* cancel_pending_extension_steps_matching: collect, then lock the registry.
Collect(o) ==
  /\ cancel[o] = "flagged" /\ RegistryFree
  /\ collected' = [collected EXCEPT ![o] = Due(o)]
  /\ cancel' = [cancel EXCEPT ![o] = "sending"]
  /\ UNCHANGED <<registry, links, hosts, pending, callers, strikes>>

\* One cancel frame; a bridge that is no longer registered is skipped.
SendCancel(o) ==
  /\ cancel[o] \in {"sending", "refused"}
  /\ \E e \in collected[o] :
       /\ collected' = [collected EXCEPT ![o] = @ \ {e}]
       /\ \/ e[2] \notin registered /\ UNCHANGED <<queue, cancel>>
          \/ /\ e[2] \in registered
             /\ Offer(e[2], CancelFrame(e[1]))
             /\ cancel' = IF ReceiverAlive(e[2]) /\ HasRoom(e[2]) THEN cancel
                          ELSE [cancel EXCEPT ![o] = "refused"]
  /\ UNCHANGED <<registry, conn, stale, victim, writer, writing, hosts, pending, callers, strikes>>

\* CANCEL_DELIVERY_FAILED if a frame could not be queued.
CancelReturns(o) ==
  /\ cancel[o] \in {"sending", "refused"} /\ collected[o] = {}
  /\ cancel' = [cancel EXCEPT ![o] = IF @ = "sending" THEN "ok" ELSE "failed"]
  /\ UNCHANGED <<registry, links, hosts, pending, callers, strikes, collected>>

----------------------------------------------------------------------------

CallerStep(c) ==
  \/ Insert(c) \/ GiveUpFull(c) \/ FindClosed(c) \/ CallerUnregisters(c) \/ CallerDrains(c)
  \/ NoBridge(c) \/ Reresolve(c) \/ Return(c) \/ PingSucceeds(c) \/ Restart(c)
  \/ RestartDrains(c) \/ (reply[c] # "none" /\ PingFails(c))

\* Timers, which the model does not make wait.
TimerStep(c) == TimesOut(c) \/ PingFails(c)

ConnectionStep(b) ==
  \/ Evict(b) \/ EvictDrains(b) \/ Register(b) \/ Accept(b) \/ Complete(b)
  \/ ConnectionEnds(b) \/ ConnectionUnregisters(b) \/ ConnectionDrains(b) \/ Close(b)

WriterStep(b) ==
  \/ WriterReceives(b) \/ Write(b) \/ WriteFails(b) \/ WriteTimesOut(b)
  \/ WriterUnregisters(b) \/ WriterDrains(b) \/ WriterGivesUp(b)

CancelStep(o) == Collect(o) \/ SendCancel(o) \/ CancelReturns(o)

Next ==
  \/ \E c \in Calls :
       CallerStep(c) \/ TimerStep(c) \/ Resolve(c) \/ StartPing(c) \/ Dropped(c)
  \/ \E b \in Bridges :
       ConnectionStep(b) \/ WriterStep(b) \/ Hello(b) \/ HelloFails(b) \/ HostAnswers(b)
         \/ HostDies(b)
  \/ \E o \in Owners : CancelStep(o) \/ Cancel(o)

Spec == Init /\ [][Next]_vars

\* The supervisor's tasks are scheduled, and a write ends or times out. Hosts answer or not.
Fairness ==
  /\ \A c \in Calls : WF_vars(CallerStep(c))
  /\ \A b \in Bridges : WF_vars(ConnectionStep(b)) /\ WF_vars(WriterStep(b))
  /\ \A o \in Owners : WF_vars(CancelStep(o))
Timers == \A c \in Calls : WF_vars(TimerStep(c))

LiveSpec == Spec /\ Fairness /\ Timers
----------------------------------------------------------------------------
(* Properties                                                               *)

\* What the channel of b still holds, in order.
Pipe(b) == IF writing[b] = Nil THEN queue[b] ELSE <<writing[b]>> \o queue[b]

\* The frame of call c is on its way to the host of b.
InPipe(c, b) ==
  writing[b] = CallFrame(c) \/ \E i \in DOMAIN queue[b] : queue[b][i] = CallFrame(c)

\* A call reaches one host at most, however often its bridge is lost and found again: the
\* single resend after a closed channel (supervisor.rs:3771) never doubles a step.
OneHostPerCall ==
  \A c \in Calls : Cardinality(handed[c] \cup {b \in Bridges : InPipe(c, b)}) <= 1

\* A caller told that there is no bridge, that the queue is full or that its run is
\* cancelled may rely on the step not having run, then or later.
RefusedIsNotSent ==
  \A c \in Calls : pc[c] \in NotSent =>
    /\ handed[c] = {}
    /\ \A b \in Bridges : ~InPipe(c, b)

\* What callers of the bridge may rely on (ExtensionCall): one host at most, an answer only
\* from a host that was given the call, a refusal only if none was or will be.
Promise == INSTANCE ExtensionCall WITH
  Refusals <- NotSent,
  told <- [c \in Calls |-> IF pc[c] \in Ended THEN pc[c] ELSE "open"],
  runs <- [c \in Calls |-> Cardinality(handed[c])]
KeepsPromise == Promise!Spec

\* No response that arrives for a call that waits comes from another bridge than the one
\* it waits for: bridge_response_mismatch_drop_count stays 0.
NoMismatchedAnswer ==
  \A b \in Bridges : \A c \in answers[b] : pending[c] \in {0, b}

\* The entry of a caller that was told its outcome is gone: later responses and
\* cancellations cannot find it.
ReturnedIsForgotten ==
  \A c \in Calls : pc[c] \in Ended \ {"dropped"} => pending[c] = 0

\* The call of c has a cancel frame behind it, or had one while it ran. A host that shuts
\* down ends its port, which cancels what the extension runs for it.
CancelBehind(c, b) ==
  LET p == Pipe(b) IN
  \/ c \in aborted
  \/ \E i \in DOMAIN p : /\ p[i] \in {CancelFrame(c), ShutdownFrame}
                          /\ \A j \in DOMAIN p : p[j] = CallFrame(c) => j < i

\* b's host runs the step of c, or will.
StillToRun(c, b) == host[b] = "up" /\ (c \in active[b] \/ InPipe(c, b))

\* Once a cancellation was acknowledged, no step of the run is on its way to a registered
\* host or running there for a caller that may still get its result, unless a cancel frame
\* follows it: marking and dispatching exclude each other (supervisor.rs:3737, :2380).
CancelFollowsCalls ==
  \A c \in Steps : \A b \in registered :
    (cancel[Owner[c]] = "ok" /\ pending[c] = b /\ StillToRun(c, b)) => CancelBehind(c, b)

\* Every caller is told something, whatever hosts, writers and other callers do.
CallsReturn == \A c \in Calls : (pc[c] \in Awaits) ~> (pc[c] \in Ended)

\* A connection whose bridge was cleared ends, even if its host is wedged or the shutdown
\* frame did not fit in the queue.
ClearedConnectionEnds ==
  \A b \in Bridges : (conn[b] = "open" /\ b \notin registered) ~> (conn[b] = "gone")
=============================================================================
