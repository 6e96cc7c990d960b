------------------------------ MODULE NativeHost ------------------------------
(***************************************************************************)
(* The native host (crates/rzn_native_host/src/main.rs): one process       *)
(* between Chrome, on stdin and stdout, and the supervisor, on one         *)
(* connection at a time. A request of the supervisor gets a wire id of its *)
(* own and a task that waits for the extension's answer; request frames go *)
(* through the connection's dispatch queue and the stdout channel, answers *)
(* find their task through native_pending.                                 *)
(*                                                                         *)
(* NativeBridge models the supervisor's side and abstracts this process.   *)
(***************************************************************************)
EXTENDS Integers, Sequences, FiniteSets

CONSTANTS
  Calls,          \* extension calls, named by the supervisor's request id
  Cancels,        \* RZN_CANCEL_REQUEST calls
  Target,         \* the request id each cancellation names
  Oversize,       \* requests whose frame exceeds Chrome's 1 MiB
  Conns,          \* connections to supervisors, in the course of time
  Wires,          \* the requests each connection brings: those of [conn, req]
  Nil,
  MaxCalls,       \* MAX_INFLIGHT_EXTENSION_CALLS
  NativeCapacity, \* capacity of the stdout channel
  ReplyCapacity   \* capacity of a connection's reply channel

Requests == Calls \cup Cancels

\* Each request gets a fresh wire id on each connection it arrives on. The supervisor
\* repeats a request id only on another connection, so the pair stands for the wire id.
Wire(c, r) == [conn |-> c, req |-> r]

ASSUME HostAssumption ==
  /\ Calls \cap Cancels = {} /\ Target \in [Cancels -> Calls]
  /\ Wires \subseteq [conn : Conns, req : Requests] /\ IsFiniteSet(Wires)
  /\ Nil \notin Wires /\ Oversize \subseteq Requests
  /\ MaxCalls \in Nat \ {0} /\ NativeCapacity \in Nat \ {0} /\ ReplyCapacity \in Nat \ {0}

\* What goes to Chrome: a request, with the wire id a cancellation was pointed to, or a
\* control response, which stands for no request.
Frames == [wire : Wires, target : Wires \cup {Nil}]
Control == [wire |-> Nil, target |-> Nil]

VARIABLES
  main,     \* "running", "draining" after the pending calls were failed, "exited"
  stdin,    \* the stdin reader: reading, answering a control command, or ended
  stdout,   \* the stdout writer: open or broken
  native,   \* the stdout channel
  written,  \* history: the requests Chrome was given, in order
  link,     \* each connection: new, open, closing, aborted, closed
  restarts, \* connections that ended with a native_host.shutdown request
  relay,    \* connections whose dispatch task runs
  dispatch, \* each connection's dispatch queue
  writers,  \* connections whose writer task runs
  replies,  \* each connection's reply channel
  task,     \* each request and its task, with the verdict it has to send
  pending   \* native_pending: wire ids an answer can still be delivered to

chrome == <<stdin, stdout, native, written>>
queues == <<relay, dispatch, writers, replies>>
calls == <<task, pending>>
vars == <<main, chrome, link, restarts, queues, calls>>

\* The verdicts a task may have to send: the extension's answer, that the host lost
\* Chrome, or a time-out.
Verdicts == {"answered", "lost", "expired"}
Stages == {"unread", "refused", "waiting", "done", "gone"} \cup Verdicts

TypeOK ==
  /\ main \in {"running", "draining", "exited"}
  /\ stdin \in {"reading", "answering", "ended"} /\ stdout \in {"open", "broken"}
  /\ native \in Seq(Frames \cup {Control}) /\ written \in Seq(Frames)
  /\ link \in [Conns -> {"new", "open", "closing", "aborted", "closed"}]
  /\ restarts \subseteq Conns /\ relay \subseteq Conns /\ writers \subseteq Conns
  /\ dispatch \in [Conns -> Seq(Frames)] /\ replies \in [Conns -> Seq(Wires)]
  /\ task \in [Wires -> Stages] /\ pending \subseteq Wires

Init ==
  /\ main = "running"
  /\ stdin = "reading" /\ stdout = "open" /\ native = <<>> /\ written = <<>>
  /\ link = [c \in Conns |-> "new"] /\ restarts = {}
  /\ relay = {} /\ writers = {}
  /\ dispatch = [c \in Conns |-> <<>>] /\ replies = [c \in Conns |-> <<>>]
  /\ task = [w \in Wires |-> "unread"] /\ pending = {}

Alive == main # "exited"

\* A task whose wait expired keeps native_pending locked until its reply has found room.
LockFree == \A w \in Wires : task[w] # "expired"

-----------------------------------------------------------------------------
(* The connection loop.                                                    *)

\* session_tasks, the values of active_requests and session_wire_req_ids are the same
\* set between two frames: the tasks that have not been joined, finished or not.
Tracked(c) == {w \in Wires : w.conn = c /\ task[w] \notin {"unread", "refused", "gone"}}
Finished(c) == {w \in Wires : w.conn = c /\ task[w] = "done"}

\* active_bridges is empty: the previous connection has at least left its loop.
Connect(c) ==
  /\ Alive
  /\ link[c] = "new"
  /\ \A d \in Conns : link[d] # "open"
  /\ link' = [link EXCEPT ![c] = "open"]
  /\ relay' = relay \cup {c} /\ writers' = writers \cup {c}
  /\ UNCHANGED <<main, chrome, restarts, dispatch, replies, calls>>

\* send_upstream waits for room; once the writer is gone, the reply is lost.
CanReply(c) == c \notin writers \/ Len(replies[c]) < ReplyCapacity
Reply(c, w) ==
  replies' = [replies EXCEPT ![c] = IF c \in writers THEN Append(@, w) ELSE @]

\* Calls may fill one half of the tasks, cancellations the rest as well.
Overloaded(c, r) ==
  \/ Cardinality(Tracked(c)) >= 2 * MaxCalls
  \/ r \in Calls /\ Cardinality(Tracked(c)) >= MaxCalls


\* The queue and the frame its task holds while it waits for stdout are taken as one.
Undispatchable(c) == c \notin relay \/ Len(dispatch[c]) >= 2 * MaxCalls

\* Finished tasks are joined before the loop waits for its next frame, never meanwhile.
Reaped(c, f) == [w \in Wires |-> IF w \in Finished(c) THEN "gone" ELSE f[w]]

Arrives(c, r) == Wire(c, r) \in Wires /\ task[Wire(c, r)] = "unread"

Refuse(c, r) ==
  /\ Alive
  /\ link[c] = "open"
  /\ Arrives(c, r)
  /\ Overloaded(c, r) \/ r \in Oversize \/ Undispatchable(c)
  /\ LockFree \/ (Finished(c) = {} /\ ~Undispatchable(c))
  /\ CanReply(c)
  /\ Reply(c, Wire(c, r))
  /\ task' = Reaped(c, [task EXCEPT ![Wire(c, r)] = "refused"])
  /\ pending' = pending \ Finished(c)
  /\ UNCHANGED <<main, chrome, link, restarts, relay, dispatch, writers>>

\* Mutant: the cancellation points nowhere.
NotRewritten(c, r) == Nil

\* rewrite_cancel_target: the wire id of the call it names, if that is in flight here.
CancelTarget(c, r) ==
  IF r \in Cancels /\ Wire(c, Target[r]) \in Tracked(c) THEN Wire(c, Target[r]) ELSE Nil

Accept(c, r) ==
  LET w == Wire(c, r)
  IN  /\ Alive
      /\ link[c] = "open"
      /\ Arrives(c, r)
      /\ LockFree
      /\ ~Overloaded(c, r) /\ r \notin Oversize /\ ~Undispatchable(c)
      /\ dispatch' = [dispatch EXCEPT ![c] =
                        Append(@, [wire |-> w, target |-> CancelTarget(c, r)])]
      /\ task' = Reaped(c, [task EXCEPT ![w] = "waiting"])
      /\ pending' = (pending \cup {w}) \ Finished(c)
      /\ UNCHANGED <<main, chrome, link, restarts, relay, writers, replies>>

\* Any other frame only makes the loop join its finished tasks.
ReadOther(c) ==
  /\ Alive
  /\ link[c] = "open"
  /\ Finished(c) # {}
  /\ LockFree
  /\ task' = Reaped(c, task)
  /\ pending' = pending \ Finished(c)
  /\ UNCHANGED <<main, chrome, link, restarts, queues>>

\* The acknowledgement takes room like a reply; nobody waits for it.
ReadShutdown(c) ==
  /\ Alive
  /\ link[c] = "open"
  /\ CanReply(c)
  /\ restarts' = restarts \cup {c}
  /\ link' = [link EXCEPT ![c] = "closing"]
  /\ UNCHANGED <<main, chrome, queues, calls>>

\* The end of the stream, a read error, or the writer task has ended.
HangUp(c) ==
  /\ Alive
  /\ link[c] = "open"
  /\ link' = [link EXCEPT ![c] = "closing"]
  /\ UNCHANGED <<main, chrome, restarts, queues, calls>>

\* active_bridges has let the key go: the next connection may open from here on.
AbortTasks(c) ==
  /\ Alive
  /\ link[c] = "closing"
  /\ link' = [link EXCEPT ![c] = "aborted"]
  /\ task' = [w \in Wires |-> IF w \in Tracked(c) THEN "gone" ELSE task[w]]
  /\ UNCHANGED <<main, chrome, restarts, queues, pending>>

\* remove_session_pending: session_wire_req_ids still holds the tasks just aborted.
Own(c) == {w \in pending : w.conn = c}

Close(c) ==
  /\ Alive
  /\ link[c] = "aborted"
  /\ LockFree
  /\ link' = [link EXCEPT ![c] = "closed"]
  /\ pending' = pending \ Own(c)
  /\ relay' = relay \ {c} /\ writers' = writers \ {c}
  /\ dispatch' = [dispatch EXCEPT ![c] = <<>>]
  /\ replies' = [replies EXCEPT ![c] = <<>>]
  /\ UNCHANGED <<main, chrome, restarts, task>>

-----------------------------------------------------------------------------
(* The tasks of a connection.                                              *)

\* Mutant: the answer is awaited without a limit.
WaitsForEver(w) == FALSE /\ UNCHANGED vars

TimesOut(w) ==
  /\ Alive
  /\ task[w] = "waiting"
  /\ LockFree
  /\ task' = [task EXCEPT ![w] = "expired"]
  /\ pending' = pending \ {w}
  /\ UNCHANGED <<main, chrome, link, restarts, queues>>

SendReply(w) ==
  /\ Alive
  /\ task[w] \in Verdicts
  /\ CanReply(w.conn)
  /\ Reply(w.conn, w)
  /\ task' = [task EXCEPT ![w] = "done"]
  /\ UNCHANGED <<main, chrome, link, restarts, relay, dispatch, writers, pending>>

\* The writer task: a write that fails or takes ten seconds ends it.
WriteReply(c) ==
  /\ Alive
  /\ c \in writers
  /\ replies[c] # <<>>
  /\ \/ replies' = [replies EXCEPT ![c] = Tail(@)] /\ UNCHANGED writers
     \/ replies' = [replies EXCEPT ![c] = <<>>] /\ writers' = writers \ {c}
  /\ UNCHANGED <<main, chrome, link, restarts, relay, dispatch, calls>>

\* The dispatch task: one frame at a time, in order, as the stdout channel has room.
Relay(c) ==
  /\ Alive
  /\ c \in relay
  /\ dispatch[c] # <<>>
  /\ stdout = "open"
  /\ Len(native) < NativeCapacity
  /\ native' = Append(native, Head(dispatch[c]))
  /\ dispatch' = [dispatch EXCEPT ![c] = Tail(@)]
  /\ UNCHANGED <<main, stdin, stdout, written, link, restarts, relay, writers, replies, calls>>

RelayStops(c) ==
  /\ Alive
  /\ c \in relay
  /\ dispatch[c] # <<>>
  /\ stdout = "broken"
  /\ relay' = relay \ {c}
  /\ dispatch' = [dispatch EXCEPT ![c] = <<>>]
  /\ UNCHANGED <<main, chrome, link, restarts, writers, replies, calls>>

-----------------------------------------------------------------------------
(* Chrome's side.                                                          *)

\* The stdout writer: a write that fails or takes five seconds ends it.
WriteNative ==
  /\ Alive
  /\ stdout = "open"
  /\ native # <<>>
  /\ \/ /\ native' = Tail(native)
        /\ written' = IF Head(native) = Control THEN written ELSE Append(written, Head(native))
        /\ UNCHANGED stdout
     \/ /\ stdout' = "broken" /\ native' = <<>>
        /\ UNCHANGED written
  /\ UNCHANGED <<main, stdin, link, restarts, queues, calls>>

SendControl ==
  \/ stdout = "broken" /\ UNCHANGED native
  \/ stdout = "open" /\ Len(native) < NativeCapacity /\ native' = Append(native, Control)

\* Mutant: answers are matched by the request id of the supervisor.
AnswerableById(w) == \E i \in DOMAIN written : written[i].wire.req = w.req

Answerable(w) == \E i \in DOMAIN written : written[i].wire = w

\* The extension answers any request it was given, at any time, twice too; without an
\* entry the answer is late and dropped, and so it is if the task is gone.
Answer(w) ==
  /\ Alive
  /\ stdin = "reading"
  /\ Answerable(w)
  /\ w \in pending
  /\ LockFree
  /\ pending' = pending \ {w}
  /\ task' = [task EXCEPT ![w] = IF @ = "waiting" THEN "answered" ELSE @]
  /\ UNCHANGED <<main, chrome, link, restarts, queues>>

\* A control command is answered before the next message is read.
ReadControl ==
  /\ Alive
  /\ stdin = "reading"
  /\ stdin' = "answering"
  /\ UNCHANGED <<main, stdout, native, written, link, restarts, queues, calls>>

AnswerControl ==
  /\ Alive
  /\ stdin = "answering"
  /\ SendControl
  /\ stdin' = "reading"
  /\ UNCHANGED <<main, stdout, written, link, restarts, queues, calls>>

StdinCloses ==
  /\ Alive
  /\ stdin = "reading"
  /\ stdin' = "ended"
  /\ UNCHANGED <<main, stdout, native, written, link, restarts, queues, calls>>

\* Mutant: the request to restart stays with its connection.
ShutdownOfStdoutOnly == stdout = "broken"

\* What shutdown_rx brings: stdout failed the writer or a dispatch task, or a connection
\* that was asked to restart the host has been cleaned up.
ShutdownSent == stdout = "broken" \/ \E c \in restarts : link[c] = "closed"

\* main: the calls that wait get an error, and a second for it to reach the supervisor.
Drain ==
  /\ main = "running"
  /\ stdin = "ended" \/ ShutdownSent
  /\ LockFree
  /\ main' = "draining"
  /\ stdin' = "ended"
  /\ pending' = {}
  /\ task' = [w \in Wires |-> IF w \in pending /\ task[w] = "waiting" THEN "lost" ELSE task[w]]
  /\ UNCHANGED <<stdout, native, written, link, restarts, queues>>

Exit ==
  /\ main = "draining"
  /\ main' = "exited"
  /\ pending' = {} /\ task' = [w \in Wires |-> "gone"]
  /\ native' = <<>> /\ relay' = {} /\ writers' = {}
  /\ dispatch' = [c \in Conns |-> <<>>] /\ replies' = [c \in Conns |-> <<>>]
  /\ link' = [c \in Conns |-> "closed"]
  /\ UNCHANGED <<stdin, stdout, written, restarts>>

Next ==
  \/ \E c \in Conns :
       \/ Connect(c) \/ ReadOther(c) \/ ReadShutdown(c) \/ HangUp(c) \/ AbortTasks(c) \/ Close(c)
       \/ WriteReply(c) \/ Relay(c) \/ RelayStops(c)
       \/ \E r \in Requests : Refuse(c, r) \/ Accept(c, r)
  \/ \E w \in Wires : TimesOut(w) \/ SendReply(w) \/ Answer(w)
  \/ WriteNative \/ ReadControl \/ AnswerControl \/ StdinCloses
  \/ Drain \/ Exit

Spec == Init /\ [][Next]_vars

\* Tasks run and their timers fire; a channel serves those who wait for room in turn.
\* Nothing is assumed of the supervisor, of Chrome or of the extension.
Fairness ==
  /\ WF_vars(WriteNative) /\ WF_vars(AnswerControl) /\ WF_vars(Drain) /\ WF_vars(Exit)
  /\ \A c \in Conns :
       /\ WF_vars(AbortTasks(c)) /\ WF_vars(Close(c)) /\ WF_vars(WriteReply(c))
       /\ WF_vars(HangUp(c) /\ c \notin writers) /\ SF_vars(Relay(c)) /\ WF_vars(RelayStops(c))
  /\ \A w \in Wires : WF_vars(TimesOut(w)) /\ WF_vars(SendReply(w))

LiveSpec == Spec /\ Fairness

-----------------------------------------------------------------------------
(* Properties.                                                             *)

\* An answer always finds the task that waits for it, and only that one: the drain, the
\* end of a connection beside a new one, time-outs and late answers never leave a waiting
\* task without its entry, or an entry without a task beyond the end of its connection.
EntriesAreWaiters ==
  \A w \in Wires :
    /\ task[w] = "waiting" => w \in pending
    /\ w \in pending => task[w] = "waiting" \/ link[w.conn] = "aborted"

\* "FIFO dispatch prevents an immediate cancel from overtaking its action": Chrome gets a
\* cancellation that names a wire id after the request of that id, and one that names
\* none, although it follows its call, was too late for it.
CancelMeetsItsCall ==
  \A i \in DOMAIN written :
    LET f == written[i] IN
    /\ f.target # Nil => \E j \in 1..(i - 1) : written[j].wire = f.target
    /\ f.target = Nil /\ f.wire.req \in Cancels =>
         \A j \in 1..(i - 1) : written[j].wire = Wire(f.wire.conn, Target[f.wire.req])
            => task[written[j].wire] # "waiting"

WasWritten(w) == \E i \in DOMAIN written : written[i].wire = w

\* What the supervisor is told of a request is true of this request: an answer is the
\* extension's answer to its own wire id, and a refused request never runs.
VerdictsMatchChrome ==
  \A w \in Wires :
    /\ task[w] = "answered" => WasWritten(w)
    /\ task[w] = "refused" => ~WasWritten(w)

\* However many cancellations arrive, no more than MaxCalls calls wait on a connection,
\* and no more tasks than twice that.
TasksAreBounded ==
  \A c \in Conns :
    /\ Cardinality(Tracked(c)) <= 2 * MaxCalls
    /\ Cardinality({w \in Tracked(c) : w.req \in Calls}) <= MaxCalls

\* The reply was written to the supervisor.
Settled(w) ==
  /\ task[w] \in {"done", "gone"} /\ w.conn \in writers
  /\ \A i \in DOMAIN replies[w.conn] : replies[w.conn][i] # w

\* A supervisor that waits learns the outcome or loses its connection, whatever Chrome,
\* the extension and the supervisor's own reading do.
CallsSettle ==
  \A w \in Wires :
    task[w] = "waiting" ~> (Settled(w) \/ link[w.conn] = "closed" \/ ~Alive)

\* A host that was asked to restart, or whose pipes to Chrome broke, exits, even if every
\* queue is full, nobody reads, and a task holds the table while it waits for room.
BrokenHostExits ==
  (restarts # {} \/ stdin = "ended" \/ stdout = "broken") ~> ~Alive
=============================================================================
