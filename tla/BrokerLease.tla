------------------------------ MODULE BrokerLease ------------------------------
(***************************************************************************)
(* How the service worker of the extension runs the requests of one        *)
(* workflow session: extension/src/background.ts.                          *)
(*                                                                         *)
(* A request gets a lease when its turn in the FIFO of the session comes.  *)
(* The lease is current until it is cancelled or the epoch of the native   *)
(* port or of the session moves on. A session_close passes the FIFO by; a  *)
(* watchdog frees the FIFO from a handler that hangs, and its quarantine   *)
(* disposes of the session.                                                *)
(*                                                                         *)
(* The session is not the default one, whose tab nobody disposes of, and   *)
(* not one of the fleet. Every step of JavaScript that has no await in it  *)
(* is one action, and what Chrome does between a call and its answer is    *)
(* one of its own.                                                         *)
(*                                                                         *)
(* Names that RunSlot has as well carry a prefix here: one module extends  *)
(* both and proves that what they admit is alone.                          *)
(***************************************************************************)
EXTENDS Integers, FiniteSets, Sequences

CONSTANTS
  Steps, Closes, \* requests: execute_step and its like, and session_close
  MaxTabs,       \* tabs have the ids 1..MaxTabs, which Chrome does not use twice
  MaxPort,       \* bound on nativePortEpoch: odd while a port is connected
  MaxFaults,     \* bound on lost ports, cancelled requests and tabs closed by the user
  Stored,        \* the tab of the session that an earlier worker stored, or None
  None

Requests == Steps \cup Closes
Tabs == 1..MaxTabs

ASSUME LeaseAssumption ==
  /\ IsFiniteSet(Requests) /\ Steps \cap Closes = {}
  /\ MaxTabs \in Nat \ {0} /\ MaxPort \in Nat \ {0} /\ MaxFaults \in Nat
  /\ None \notin Tabs /\ Stored \in Tabs \cup {None}

VARIABLES
  port,       \* nativePortEpoch; while it is even there is no port
  loaded,     \* workflowSessionsLoaded
  session,    \* the WorkflowSessionState: brokerEpoch and workflowTabId
  fifo,       \* its queue, the running request first
  forsaken,   \* the queue of the object that loading replaced
  lease,      \* BrokerRequestLease and progress of each request
  quarantine, \* requests whose recoverAfterBrokerWatchdogTimeout is under way
  asked,      \* requests that wait for Chrome to open a tab, or have ceased to
  made,       \* the tab that Chrome created for a request that has not seen it yet
  opened, closed, \* tabs that were ever created, and closed
  removing,   \* calls of chrome.tabs.remove under way
  retained,   \* tabs left to their user by a session_close with keep_tab
  faults,     \* spent of MaxFaults
  answers     \* for each request, the epochs of the ports its answers went to

tabs == <<asked, made, opened, closed, removing, retained>>
chrome == <<tabs, faults>>
leaseVars == <<port, loaded, session, fifo, forsaken, lease, quarantine, chrome, answers>>

Open == opened \ closed

\* The states of a request: before it is delivered and in the FIFO; waiting for
\* the stored sessions, for a new tab, for an operation that an abort ends, for
\* one that nothing ends, for its tab to close; over.
Running == {"loading", "creating", "guarded", "unguarded", "disposing"}
LeasePhases == {"new", "queued", "over"} \cup Running

Leases ==
  [phase : LeasePhases, port : 0..MaxPort, epoch : Nat, keep : BOOLEAN,
   cancelled : BOOLEAN, timedOut : BOOLEAN, tab : Tabs \cup {None}]

LeaseTypeOK ==
  /\ port \in 0..MaxPort /\ loaded \in BOOLEAN
  /\ session \in [epoch : Nat, tab : Tabs \cup {None}]
  /\ fifo \in Seq(Steps) /\ forsaken \in Seq(Steps)
  /\ lease \in [Requests -> Leases]
  /\ quarantine \subseteq Requests
  /\ asked \subseteq Requests /\ made \in [Requests -> Tabs \cup {None}]
  /\ opened \subseteq Tabs /\ closed \subseteq opened
  /\ removing \subseteq opened /\ retained \subseteq opened
  /\ faults \in 0..MaxFaults
  /\ answers \in [Requests -> Seq(0..MaxPort)]

\* A worker that has just started and called connectNative, or one that found a
\* stored session with a tab before the first request came.
LeaseInit ==
  /\ port = 1 /\ loaded \in BOOLEAN
  /\ session = [epoch |-> 0, tab |-> IF loaded THEN 1 ELSE None]
  /\ fifo = <<>> /\ forsaken = <<>>
  /\ lease = [r \in Requests |-> [phase |-> "new", port |-> 0, epoch |-> 0, keep |-> FALSE,
                                  cancelled |-> FALSE, timedOut |-> FALSE, tab |-> None]]
  /\ quarantine = {}
  /\ asked = {} /\ made = [r \in Requests |-> None]
  /\ opened = (IF loaded THEN {1} ELSE {Stored}) \ {None} /\ closed = {}
  /\ removing = {} /\ retained = {} /\ faults = 0
  /\ answers = [r \in Requests |-> <<>>]

Fault == faults < MaxFaults /\ faults' = faults + 1

Connected == port % 2 = 1
Registered(r) == lease[r].phase \in Running

\* brokerLeaseIsCurrent
Current(r) ==
  /\ ~lease[r].cancelled
  /\ lease[r].port = port
  /\ lease[r].epoch = session.epoch

-----------------------------------------------------------------------------
(* The native port and the stored sessions.                                 *)

Connect ==
  /\ ~Connected /\ port < MaxPort
  /\ port' = port + 1
  /\ UNCHANGED <<loaded, session, fifo, forsaken, lease, quarantine, chrome, answers>>

\* cancelBrokerLeasesForNativePortEpoch: each lease of the port moves the epoch.
OfPort == {r \in Requests : Registered(r) /\ lease[r].port = port}

\* The port breaks, or is given up after a missed heartbeat or a failed ping.
Disconnect ==
  /\ Connected /\ port < MaxPort
  /\ Fault
  /\ port' = port + 1
  /\ lease' = [r \in Requests |->
                 [lease[r] EXCEPT !.cancelled = @ \/ r \in OfPort]]
  /\ session' = [session EXCEPT !.epoch = @ + Cardinality(OfPort)]
  /\ UNCHANGED <<loaded, fifo, forsaken, quarantine, tabs, answers>>

\* loadWorkflowSessionsFromStorage: a stored session replaces the one in memory.
Load ==
  /\ ~loaded /\ loaded' = TRUE
  /\ IF Stored = None
       THEN UNCHANGED <<session, fifo, forsaken>>
       ELSE /\ session' = [epoch |-> 0, tab |-> Stored]
            /\ forsaken' = fifo /\ fifo' = <<>>
  /\ UNCHANGED <<port, lease, quarantine, chrome, answers>>

-----------------------------------------------------------------------------
(* Answers.                                                                 *)

\* Mutant: only the port is compared.
DeliverableToPort(r) == lease[r].port = port /\ Connected

\* sendResponseToBroker, for an answer of the handler.
Deliverable(r) ==
  /\ ~lease[r].cancelled /\ ~lease[r].timedOut
  /\ lease[r].port = port /\ lease[r].epoch = session.epoch
  /\ Connected

Answered(r) == [answers EXCEPT ![r] = Append(@, port)]

\* What the chain of promises goes on with when r has run.
Behind(queue, r) == IF queue # <<>> /\ queue[1] = r THEN Tail(queue) ELSE queue

\* The handler ends, with an answer if it is still wanted.
EndsWithAnswer(r) ==
  /\ lease' = [lease EXCEPT ![r] = [@ EXCEPT !.phase = "over", !.epoch = 0, !.tab = None,
                                              !.keep = FALSE]]
  /\ fifo' = Behind(fifo, r) /\ forsaken' = Behind(forsaken, r)
  /\ answers' = IF Deliverable(r) THEN Answered(r) ELSE answers

-----------------------------------------------------------------------------
(* Delivery, the FIFO and leases.                                           *)

Arrives(r) == Connected /\ lease[r].phase = "new"

Deliver(r) ==
  /\ r \in Steps /\ Arrives(r)
  /\ lease' = [lease EXCEPT ![r] = [@ EXCEPT !.phase = "queued", !.port = port]]
  /\ fifo' = Append(fifo, r)
  /\ UNCHANGED <<port, loaded, session, forsaken, quarantine, chrome, answers>>

\* Whose turn it is.
First(r) == (fifo # <<>> /\ r = fifo[1]) \/ (forsaken # <<>> /\ r = forsaken[1])

\* Queued work of a port that is gone is dropped.
Drop(r) ==
  /\ lease[r].phase = "queued" /\ First(r) /\ lease[r].port # port
  /\ EndsWithAnswer(r)
  /\ UNCHANGED <<port, loaded, session, quarantine, chrome>>

TakesTurn(r) ==
  /\ lease[r].phase = "queued" /\ First(r) /\ lease[r].port = port
  /\ lease' = [lease EXCEPT ![r] = [@ EXCEPT !.phase = "loading", !.epoch = session.epoch]]
  /\ UNCHANGED <<port, loaded, session, fifo, forsaken, quarantine, chrome, answers>>

\* session_close: cancels what runs, moves the epoch and starts at once.
DeliverClose(r) ==
  /\ r \in Closes /\ Arrives(r)
  /\ \E keep \in BOOLEAN :
       lease' = [q \in Requests |->
                   IF q = r THEN [lease[q] EXCEPT !.phase = "loading", !.port = port,
                                                  !.epoch = session.epoch + 1, !.keep = keep]
                   ELSE [lease[q] EXCEPT !.cancelled = @ \/ Registered(q)]]
  /\ session' = [session EXCEPT !.epoch = @ + 1]
  /\ UNCHANGED <<port, loaded, fifo, forsaken, quarantine, chrome, answers>>

\* RZN_CANCEL_REQUEST: a request that waits in the FIFO has no lease yet.
CancelRequest(r) ==
  /\ Connected /\ Registered(r) /\ ~lease[r].cancelled
  /\ Fault
  /\ lease' = [lease EXCEPT ![r].cancelled = TRUE]
  /\ UNCHANGED <<port, loaded, session, fifo, forsaken, quarantine, tabs, answers>>

-----------------------------------------------------------------------------
(* The handler of a step.                                                   *)

\* After the sessions are loaded: a stale lease ends it; a step that finds no
\* tab asks for one, and any other begins to work in the tab of the session.
Loaded(r) ==
  /\ r \in Steps /\ lease[r].phase = "loading" /\ loaded /\ Current(r)
  /\ \E next \in IF session.tab = None THEN {"creating"} ELSE {"guarded", "unguarded"} :
       /\ lease' = [lease EXCEPT ![r].phase = next]
       /\ asked' = IF next = "creating" THEN asked \cup {r} ELSE asked
  /\ UNCHANGED <<port, loaded, session, fifo, forsaken, quarantine, made, opened, closed,
                 removing, retained, faults, answers>>

\* A handler notices at its next check that its lease is stale.
EndsStale(r) ==
  /\ lease[r].phase = "loading" /\ loaded /\ ~Current(r)
  /\ EndsWithAnswer(r)
  /\ UNCHANGED <<port, loaded, session, quarantine, chrome>>

\* guardedBrokerSideEffect: an abort ends the wait for the operation.
Unwind(r) ==
  /\ lease[r].phase \in {"creating", "guarded", "disposing"} /\ lease[r].cancelled
  /\ EndsWithAnswer(r)
  /\ UNCHANGED <<port, loaded, session, quarantine, chrome>>

\* Chrome opens the tab; the answer is on its way.
ChromeCreates(r) ==
  /\ r \in asked /\ asked' = asked \ {r}
  /\ \E t \in Tabs \ opened :
       /\ \A u \in Tabs \ opened : t <= u
       /\ made' = [made EXCEPT ![r] = t]
       /\ opened' = opened \cup {t}
  /\ UNCHANGED <<port, loaded, session, fifo, forsaken, lease, quarantine, closed, removing,
                 retained, faults, answers>>

Seen(r) == /\ made' = [made EXCEPT ![r] = None]
           /\ UNCHANGED <<asked, opened, closed, retained, faults>>

\* commitWorkflowTabIdForLease binds the tab, and the step goes on to work in it. If its
\* lease went stale without an abort, nobody cleans up a tab that was seen in time.
CreateReturns(r) ==
  /\ made[r] # None /\ lease[r].phase = "creating" /\ ~lease[r].cancelled
  /\ Seen(r)
  /\ IF Current(r)
       THEN /\ session' = [session EXCEPT !.tab = made[r]]
            /\ \E next \in {"guarded", "unguarded"} :
                 lease' = [lease EXCEPT ![r].phase = next]
            /\ UNCHANGED <<fifo, forsaken, answers>>
       ELSE EndsWithAnswer(r) /\ UNCHANGED session
  /\ UNCHANGED <<port, loaded, quarantine, removing>>

\* Mutant: the late tab of a cancelled request is forgotten.
LateForgotten(r) == removing' = IF lease[r].cancelled THEN removing ELSE removing \cup {made[r]}

\* cleanupLateBrokerSideEffectResult, for a handler that has unwound.
Late(r) == removing' = IF Current(r) THEN removing ELSE removing \cup {made[r]}

CreateReturnsLate(r) ==
  /\ made[r] # None /\ lease[r].phase = "over"
  /\ Seen(r)
  /\ Late(r)
  /\ UNCHANGED <<port, loaded, session, fifo, forsaken, lease, quarantine, answers>>

\* The work ends, well or with an error, and the answer is sent if it is wanted.
WorkReturns(r) ==
  /\ lease[r].phase = "unguarded" \/ (lease[r].phase = "guarded" /\ ~lease[r].cancelled)
  /\ EndsWithAnswer(r)
  /\ UNCHANGED <<port, loaded, session, quarantine, chrome>>

-----------------------------------------------------------------------------
(* disposeWorkflowSession, by a session_close or a quarantine.              *)

\* Mutant: the whole state of the session is deleted, and with it the epoch.
ForgetAll == session' = [epoch |-> 0, tab |-> None]

\* Epoch and FIFO stay, only the tab is forgotten.
Forget == session' = [session EXCEPT !.tab = None]

\* Nothing to close, or the tab stays with the user.
CloseAtOnce(r) ==
  /\ r \in Closes /\ lease[r].phase = "loading" /\ loaded /\ Current(r)
  /\ session.tab = None \/ lease[r].keep
  /\ Forget
  /\ retained' = retained \cup ({session.tab} \ {None})
  /\ EndsWithAnswer(r)
  /\ UNCHANGED <<port, loaded, quarantine, made, asked, opened, closed, removing, faults>>

CloseTab(r) ==
  /\ r \in Closes /\ lease[r].phase = "loading" /\ loaded /\ Current(r)
  /\ session.tab # None /\ ~lease[r].keep
  /\ Forget
  /\ lease' = [lease EXCEPT ![r] = [@ EXCEPT !.phase = "disposing", !.tab = session.tab]]
  /\ removing' = removing \cup {session.tab}
  /\ UNCHANGED <<port, loaded, fifo, forsaken, quarantine, made, asked, opened, closed, retained,
                 faults, answers>>

CloseReturns(r) ==
  /\ lease[r].phase = "disposing" /\ ~lease[r].cancelled
  /\ lease[r].tab \notin removing
  /\ EndsWithAnswer(r)
  /\ UNCHANGED <<port, loaded, session, quarantine, chrome>>

\* chrome.tabs.onRemoved
Unbound(t) == session' = IF session.tab = t THEN [session EXCEPT !.tab = None] ELSE session

ChromeCloses(t) ==
  /\ t \in removing
  /\ removing' = removing \ {t} /\ closed' = closed \cup {t}
  /\ Unbound(t)
  /\ UNCHANGED <<port, loaded, fifo, forsaken, lease, quarantine, made, asked, opened, retained,
                 faults, answers>>

UserCloses(t) ==
  /\ t \in Open \ (removing \cup retained)
  /\ Fault
  /\ closed' = closed \cup {t}
  /\ Unbound(t)
  /\ UNCHANGED <<port, loaded, fifo, forsaken, lease, quarantine, made, asked, opened, removing,
                 retained, answers>>

-----------------------------------------------------------------------------
(* The watchdog of a step, and the quarantine of its session. The calls of  *)
(* Chrome that a session_close waits for return before its own watchdog.    *)

\* Mutant: it waits for the handler.
PassesNot(r) == UNCHANGED <<fifo, forsaken>>

\* The FIFO goes on when the watchdog has fired, whatever the handler does.
Passes(r) == fifo' = Behind(fifo, r) /\ forsaken' = Behind(forsaken, r)

\* Mutant: a timed out lease is only marked.
FenceNot(r) == lease' = [lease EXCEPT ![r].timedOut = TRUE] /\ UNCHANGED session

\* The lease is cancelled, and the epoch moves on.
Fence(r) ==
  /\ lease' = [lease EXCEPT ![r] = [@ EXCEPT !.cancelled = TRUE, !.timedOut = TRUE]]
  /\ session' = [session EXCEPT !.epoch = @ + 1]

Watchdog(r) ==
  /\ r \in Steps /\ Registered(r) /\ ~lease[r].timedOut
  /\ Fence(r)
  /\ Passes(r)
  /\ answers' = IF Connected /\ lease[r].port = port THEN Answered(r) ELSE answers
  /\ quarantine' = quarantine \cup {r}
  /\ UNCHANGED <<port, loaded, chrome>>

\* After releaseCdpSessionResources, which detaches the debugger and may take
\* long, it disposes of the tab that the session has then.
QuarantineDisposes(r) ==
  /\ r \in quarantine
  /\ quarantine' = quarantine \ {r}
  /\ Forget
  /\ removing' = removing \cup ({session.tab} \ {None})
  /\ UNCHANGED <<port, loaded, fifo, forsaken, lease, made, asked, opened, closed, retained,
                 faults, answers>>

\* scheduleWorkflowSessionPrune: an idle session without a tab is deleted.
Idle == /\ fifo = <<>> /\ session.tab = None
        /\ \A r \in Requests : ~Registered(r)

Prune ==
  /\ Idle /\ session.epoch # 0
  /\ session' = [session EXCEPT !.epoch = 0]
  /\ UNCHANGED <<port, loaded, fifo, forsaken, lease, quarantine, chrome, answers>>

-----------------------------------------------------------------------------
Handler(r) ==
  \/ Drop(r) \/ TakesTurn(r) \/ Loaded(r) \/ EndsStale(r) \/ Unwind(r)
  \/ CreateReturns(r) \/ CreateReturnsLate(r)
  \/ CloseAtOnce(r) \/ CloseTab(r) \/ CloseReturns(r)

LeaseNext ==
  \/ Connect \/ Disconnect \/ Load \/ Prune
  \/ \E r \in Requests :
       \/ Deliver(r) \/ DeliverClose(r) \/ CancelRequest(r)
       \/ Handler(r) \/ ChromeCreates(r) \/ WorkReturns(r)
       \/ Watchdog(r) \/ QuarantineDisposes(r)
  \/ \E t \in Tabs : ChromeCloses(t) \/ UserCloses(t)

LeaseSpec == LeaseInit /\ [][LeaseNext]_leaseVars

\* Handlers go on, tabs that are to be closed close and the timers of watchdogs
\* fire, in a worker that its native port keeps alive. The work of a step, and
\* the opening of a tab, may hang for ever.
LeaseFairness ==
  /\ WF_leaseVars(Load)
  /\ \A r \in Requests : WF_leaseVars(Handler(r)) /\ WF_leaseVars(Watchdog(r))
  /\ \A t \in Tabs : WF_leaseVars(ChromeCloses(t))

LiveLeaseSpec == LeaseSpec /\ LeaseFairness

-----------------------------------------------------------------------------
\* No steps run in the session object that loading replaced; if they do, they run beside
\* those of the new one.
Undivided == forsaken = <<>>

\* A request is answered at most once, by its handler or by its watchdog, and
\* only on the port it came from (sendResponseToBroker, allowAfterWatchdog).
AnsweredOnceAtHome ==
  \A r \in Requests :
    /\ Len(answers[r]) <= 1
    /\ \A i \in 1..Len(answers[r]) : answers[r][i] = lease[r].port

\* However long the handler of an abandoned step goes on, no two steps of the
\* session hold a current lease: what one starts in the tab, the other does not
\* disturb. (Unless loading has divided the session.)
OneCurrentStep ==
  Undivided =>
    \A q, r \in Steps : Registered(q) /\ Registered(r) /\ Current(q) /\ Current(r) => q = r

\* No tab of the session is lost: it is bound to the session, on its way to the
\* request that asked for it, about to be closed, or left to the user
\* (cleanupLateBrokerSideEffectResult, disposeWorkflowSession); unless loading has divided
\* the session before, and two steps have opened a tab.
TabsAreOwned ==
  \A t \in Open :
    \/ ~loaded \/ t = session.tab \/ t \in removing \/ t \in retained
    \/ \E r \in Requests : made[r] = t

\* A delivered step leaves the FIFO, even if its handler and the ones before it
\* hang, and is answered unless it was cancelled or its port is gone.
StepsSettle ==
  \A r \in Steps :
    lease[r].phase = "queued" ~>
      \/ answers[r] # <<>> \/ lease[r].port # port
      \/ lease[r].cancelled /\ (lease[r].phase = "over" \/ lease[r].timedOut)

\* A session_close is answered unless its port is gone, it was cancelled by
\* another or the watchdog of a step has moved the epoch
\* ("invalidating session_close's own cleanup response", background.ts:2001).
ClosesAnswer ==
  \A r \in Closes :
    lease[r].phase = "loading" ~>
      \/ answers[r] # <<>> \/ lease[r].cancelled \/ lease[r].port # port
      \/ \E q \in Steps : lease[q].timedOut

\* While a session_close is under way the epoch does not go back and no request
\* is cut off from the FIFO ("Session close retains its epoch/FIFO until response
\* cleanup finishes", docs/reviews/2026-09-24-stability-audit.md:602).
CloseRetainsSession ==
  [][\A r \in Closes : Registered(r) =>
       session'.epoch >= session.epoch /\ Len(forsaken') <= Len(forsaken)]_leaseVars
=============================================================================
