------------------------------- MODULE Sessions -------------------------------
(***************************************************************************)
(* Browser sessions of the supervisor (crates/rzn_browser/src/             *)
(* supervisor.rs): which native-host bridge a call reaches.  A session is  *)
(* opened on the bridge its caller's target picks; its record remembers    *)
(* that bridge and the browser instance behind it, follows the instance to *)
(* its next bridge, and goes away when the session is closed, when its     *)
(* opener gives up, or when the MCP request that opened it is cancelled.   *)
(* Bridges are numbered in the order they register.  One step per critical *)
(* section; a wait for a bridge ends whenever it likes.  What the bridges  *)
(* do with a call is NativeBridge's matter.                                *)
(***************************************************************************)
EXTENDS Integers, FiniteSets

CONSTANTS
  Homes,       \* browser profiles with the extension installed
  Kind,        \* the browser each is: extension_target
  Instance,    \* its browser_instance_id, which a copied profile shares
  Extension,   \* its extension id, from the caller origin
  Sessions,
  Requests,    \* MCP requests
  Request,     \* the request that opens each session, or Nil
  Steps,
  StepSession, \* the session each step names
  StepRequest, \* the request id a step carries itself, or Nil
  OpenAims, StepAims, CloseAims, \* the targets callers give
  MaxBridges,  \* bound on native host connections
  Nil

Bridges == 1..MaxBridges
Instances == {Instance[h] : h \in Homes}

\* BridgeTarget; soft is Preferred, which falls back to Default.
Aim(by, val, soft) == [by |-> by, val |-> val, soft |-> soft]
OwnSession == Aim("session", Nil, FALSE)
Default == Aim("default", Nil, FALSE)
Explicit ==
  {Aim("bridge", b, soft) : b \in Bridges, soft \in BOOLEAN}
    \cup {Aim("instance", i, soft) : i \in Instances, soft \in BOOLEAN}
    \cup {Aim("browser", Kind[h], soft) : h \in Homes, soft \in BOOLEAN}
Aims == Explicit \cup {OwnSession, Default}

\* BrowserSessionRecord
Records == [bridge : Bridges, instance : Instances \cup {Nil}]

\* One process per session and command, one per step.  A "closer" is the close that a
\* cancellation spawns.
Calls == ({"open", "navigate", "close", "closer"} \X Sessions) \cup ({"step"} \X Steps)
Cmd(c) == c[1]
SessionOf(c) == IF Cmd(c) = "step" THEN StepSession[c[2]] ELSE c[2]
Open(x) == <<"open", x>>
Navigate(x) == <<"navigate", x>>
Close(x) == <<"close", x>>
Closer(x) == <<"closer", x>>

ASSUME SessionsAssumption ==
  /\ \A h \in Homes, g \in Homes :
       Instance[h] = Instance[g] /\ Extension[h] = Extension[g] => h = g
  /\ Request \in [Sessions -> Requests \cup {Nil}]
  /\ StepSession \in [Steps -> Sessions]
  /\ StepRequest \in [Steps -> Requests \cup {Nil}]
  /\ OpenAims \subseteq Explicit \cup {Default}
  /\ StepAims \subseteq Explicit \cup {OwnSession}
  /\ CloseAims \subseteq Explicit \cup {OwnSession}
  /\ MaxBridges \in Nat
  /\ Nil \notin Homes \cup Instances \cup Requests \cup Records

VARIABLES
  life,       \* the connection of each bridge
  registered, \* native_bridges
  home,       \* who is behind each bridge
  told,       \* what its pings have reported: metadata of the bridge
  marking,    \* clear_native_bridge has unregistered it and has not marked sessions yet
  records,    \* sessions: where each is bound
  lost,       \* those with disconnected_at_ms
  pc,         \* how far each call is
  env,        \* its local variables, until it ends
  guard,      \* SessionOpenGuard: the bridge of its orphan close, 0 for none
  orphan,     \* the task a dropped guard spawns
  cancel,     \* browser.cancel_pending of each request
  birth,      \* history: the installation each session was opened on
  rebound,    \* history: sessions a call resolved by their id since they were bound
  tabs        \* history: sessions with frames at a home and no close frame since

bridges == <<life, registered, home, told, marking>>
sessions == <<records, lost>>
calls == <<pc, env>>
guards == <<guard, orphan>>
history == <<birth, rebound, tabs>>
vars == <<bridges, sessions, calls, guards, cancel, history>>

\* The target of a call, mcp_request_id in its payload, the binding it cloned, the bridge
\* it resolved last with the instance it had told, and whether this is its second attempt.
Envs == [aim : Aims, tag : Requests \cup {Nil}, saw : Records \cup {Nil},
         at : Bridges \cup {0}, named : Instances \cup {Nil}, again : BOOLEAN]
NoEnv == [aim |-> OwnSession, tag |-> Nil, saw |-> Nil, at |-> 0, named |-> Nil,
          again |-> FALSE]
Resolving == {"bind_own", "pick_own", "pick_aim", "bind", "pick", "send", "unregister",
              "mark", "await", "finish"}
Opening == {"pick", "asked", "insert", "recheck", "navigating"}

TypeOK ==
  /\ life \in [Bridges -> {"none", "up", "deaf", "gone"}]
  /\ registered \subseteq Bridges
  /\ home \in [Bridges -> Homes \cup {Nil}]
  /\ told \in [Bridges -> {"nothing", "browser", "all"}]
  /\ marking \subseteq Bridges
  /\ records \in [Sessions -> Records \cup {Nil}] /\ lost \subseteq Sessions
  /\ pc \in [Calls -> {"idle", "opened", "done", "failed"} \cup Resolving \cup Opening]
  /\ env \in [Calls -> Envs]
  /\ guard \in [Sessions -> Bridges \cup {0}]
  /\ orphan \in [Sessions -> {"no", "queue", "remove", "removed", "refused"}]
  /\ cancel \in [Requests -> {"no", "marked", "scanned"}]
  /\ birth \in [Sessions -> Homes \cup {Nil}]
  /\ rebound \subseteq Sessions
  /\ tabs \subseteq Sessions \X Homes

Init ==
  /\ life = [b \in Bridges |-> "none"] /\ registered = {}
  /\ home = [b \in Bridges |-> Nil] /\ told = [b \in Bridges |-> "nothing"]
  /\ marking = {}
  /\ records = [x \in Sessions |-> Nil] /\ lost = {}
  /\ pc = [c \in Calls |-> "idle"] /\ env = [c \in Calls |-> NoEnv]
  /\ guard = [x \in Sessions |-> 0] /\ orphan = [x \in Sessions |-> "no"]
  /\ cancel = [r \in Requests |-> "no"]
  /\ birth = [x \in Sessions |-> Nil]
  /\ rebound = {} /\ tabs = {}

----------------------------------------------------------------------------
(* Which bridge a target resolves to; 0 is an error to the caller           *)

Told(b) == IF told[b] = "all" THEN Instance[home[b]] ELSE Nil
Newest(S) == CHOOSE b \in S : \A n \in S : n <= b
TheOne(S) == CHOOSE b \in S : TRUE

\* resolve_default_bridge_target
TheOnlyBridge == IF Cardinality(registered) = 1 THEN TheOne(registered) ELSE 0

OfInstance(i) == {b \in registered : Told(b) = i}
OfBrowser(k) == {b \in registered : told[b] # "nothing" /\ Kind[home[b]] = k}
\* bridge_browser_kind_bootstrap_candidate
Silent == {b \in registered : told[b] = "nothing"}

\* resolve_native_bridge_target but for SessionId, and resolve_preferred_bridge_target
Pick(a) ==
  LET found == CASE a.by = "bridge" -> {a.val} \cap registered
                 [] a.by = "instance" -> OfInstance(a.val)
                 [] a.by = "browser" -> OfBrowser(a.val)
                 [] OTHER -> {}
  IN CASE a.by = "browser" /\ Cardinality(found) > 1 -> 0
       [] found # {} -> Newest(found)
       [] a.by = "default" \/ a.soft -> TheOnlyBridge
       [] a.by = "browser" /\ Cardinality(Silent) = 1 -> TheOne(Silent)
       [] OTHER -> 0

\* session_bridge_identity_compatible
Compatible(rec, b) == Extension[home[rec.bridge]] = Extension[home[b]]

\* bridge_for_session_binding
SameInstance(rec) == IF rec.instance = Nil THEN {} ELSE OfInstance(rec.instance)
ForSession(rec) ==
  LET same == {b \in SameInstance(rec) : Compatible(rec, b)}
  IN IF same # {} THEN Newest(same)
     ELSE IF rec.bridge \in registered THEN rec.bridge ELSE 0

\* Mutant: browsers are compared.
MatchesBrowser(b, bInstance, d) == Kind[home[b]] = Kind[home[d]]

\* resolved_targets_match_session
Matches(b, bInstance, d) ==
  IF bInstance # Nil /\ Told(d) # Nil THEN bInstance = Told(d) ELSE b = d

\* BrowserSessionRecord::from_resolved, and refresh_session_activity
Bound(b, i) == [bridge |-> b, instance |-> i]
Refresh(x, b) ==
  IF records[x] = Nil THEN UNCHANGED <<sessions, rebound>>
  ELSE /\ records' = [records EXCEPT ![x] = Bound(b, Told(b))]
       /\ lost' = lost \ {x}
       /\ rebound' = rebound \cup {x}

\* mark_sessions_for_disconnected_bridge
MarkSessions(b) ==
  /\ lost' = lost \cup {x \in Sessions : records[x] # Nil /\ records[x].bridge = b}
  /\ UNCHANGED records

Remove(x) ==
  /\ records' = [records EXCEPT ![x] = Nil]
  /\ lost' = lost \ {x} /\ rebound' = rebound \ {x}

----------------------------------------------------------------------------
(* Bridges                                                                  *)

\* The entry of a bridge is removed from native_bridges, and its metadata with it.
Unlist(b) ==
  /\ registered' = registered \ {b}
  /\ told' = [told EXCEPT ![b] = "nothing"]

\* register_native_bridge_with_metadata: the hello names no instance, so no older
\* bridge of the instance is evicted.
Register(b) ==
  /\ life[b] = "none" /\ \A n \in 1..(b - 1) : life[n] # "none"
  /\ \E h \in Homes : home' = [home EXCEPT ![b] = h]
  /\ life' = [life EXCEPT ![b] = "up"]
  /\ registered' = registered \cup {b}
  /\ UNCHANGED <<told, marking, sessions, calls, guards, cancel, history>>

\* record_native_bridge_ping_success: the instance is missing until the extension has
\* loaded it, and the answers of two pings may be recorded in either order.
PingRecorded(b) ==
  /\ b \in registered
  /\ told' = [told EXCEPT ![b] = "browser"] \/ told' = [told EXCEPT ![b] = "all"]
  /\ UNCHANGED <<life, registered, home, marking, sessions, calls, guards, cancel, history>>

\* request_native_bridge_restart: the shutdown frame is queued, and whatever a call that
\* resolved the bridge before puts behind it is not run.
Restart(b) ==
  /\ b \in registered /\ life[b] = "up"
  /\ life' = [life EXCEPT ![b] = "deaf"]
  /\ Unlist(b) /\ marking' = marking \cup {b}
  /\ UNCHANGED <<home, sessions, calls, guards, cancel, history>>

\* The bridge takes no more frames: its queue is full, or the writer has ended.
Deafens(b) ==
  /\ life[b] = "up"
  /\ life' = [life EXCEPT ![b] = "deaf"]
  /\ UNCHANGED <<registered, home, told, marking, sessions, calls, guards, cancel, history>>

\* Mutant: nothing is left to do when a call has cleared the bridge already.
ConnectionEndsOnce(b) ==
  /\ life[b] = "deaf" /\ b \notin marking
  /\ life' = [life EXCEPT ![b] = "gone"]
  /\ Unlist(b) /\ marking' = marking \cup ({b} \cap registered)
  /\ UNCHANGED <<home, sessions, calls, guards, cancel, history>>

\* clear_native_bridge at the end of the connection
ConnectionEnds(b) ==
  /\ life[b] = "deaf" /\ b \notin marking
  /\ life' = [life EXCEPT ![b] = "gone"]
  /\ Unlist(b) /\ marking' = marking \cup {b}
  /\ UNCHANGED <<home, sessions, calls, guards, cancel, history>>

SessionsMarked(b) ==
  /\ b \in marking
  /\ marking' = marking \ {b}
  /\ MarkSessions(b)
  /\ UNCHANGED <<life, registered, home, told, calls, guards, cancel, history>>

----------------------------------------------------------------------------
(* try_call_native_bridge_raw_inner                                         *)

Marked(r) == r # Nil /\ cancel[r] # "no"

Goto(c, l) == pc' = [pc EXCEPT ![c] = l] /\ UNCHANGED env
Resolved(c, b, l) ==
  /\ pc' = [pc EXCEPT ![c] = l]
  /\ env' = [env EXCEPT ![c].saw = Nil, ![c].at = b,
                        ![c].named = IF l = "send" THEN Nil ELSE Told(b)]
Ends(c, l) == pc' = [pc EXCEPT ![c] = l] /\ env' = [env EXCEPT ![c] = NoEnv]

\* A close removes the session's record whatever its call gave.  The opener needs to know
\* whether its navigation returned or failed.
Closing(c) == Cmd(c) \in {"close", "closer"}
Returns(c) == Ends(c, IF Closing(c) THEN "finish" ELSE "done")
Fails(c) == Ends(c, IF Closing(c) THEN "finish"
                    ELSE IF Cmd(c) = "step" THEN "done" ELSE "failed")

\* Where a call begins: an explicit target of a session's call is compared with the
\* session first (ensure_session_target_compatible); a preferred one is not.
FirstStage(a) ==
  IF a.by = "session" THEN "bind" ELSE IF a.soft THEN "pick" ELSE "bind_own"
Begin(c, a, t) ==
  /\ pc' = [pc EXCEPT ![c] = FirstStage(a)]
  /\ env' = [env EXCEPT ![c].aim = a, ![c].tag = t]

Bind(c) ==
  LET rec == records[SessionOf(c)]
  IN /\ pc[c] \in {"bind_own", "bind"}
     /\ \/ rec = Nil /\ Fails(c)
        \/ /\ rec # Nil
           /\ pc' = [pc EXCEPT ![c] = IF @ = "bind" THEN "pick" ELSE "pick_own"]
           /\ env' = [env EXCEPT ![c].saw = rec]
     /\ UNCHANGED <<bridges, sessions, guards, cancel, history>>

\* The session's own bridge; l is what follows.
PickForSession(c, l) ==
  LET x == SessionOf(c)
      b == ForSession(env[c].saw)
  IN /\ \/ b = 0 /\ Fails(c) /\ UNCHANGED <<sessions, rebound>>
        \/ b # 0 /\ Resolved(c, b, l) /\ Refresh(x, b)
     /\ UNCHANGED <<bridges, guards, cancel, birth, tabs>>

PickOwn(c) == pc[c] = "pick_own" /\ PickForSession(c, "pick_aim")

\* The explicit target must be the session's instance.
PickAim(c) ==
  LET b == Pick(env[c].aim)
  IN /\ pc[c] = "pick_aim"
     /\ IF b # 0 /\ Matches(env[c].at, env[c].named, b)
        THEN /\ pc' = [pc EXCEPT ![c] = "pick"]
             /\ env' = [env EXCEPT ![c].at = 0, ![c].named = Nil]
        ELSE Fails(c)
     /\ UNCHANGED <<bridges, sessions, guards, cancel, history>>

PickTarget(c) ==
  LET b == Pick(env[c].aim)
  IN /\ pc[c] = "pick" /\ Cmd(c) # "open"
     /\ \/ env[c].aim.by = "session" /\ PickForSession(c, "send")
        \/ /\ env[c].aim.by # "session"
           /\ IF b = 0 THEN Fails(c) ELSE Resolved(c, b, "send")
           /\ UNCHANGED <<bridges, sessions, guards, cancel, history>>

\* A preferred target may take a session's frame to another browser; its tabs there are
\* not the session's.
Delivered(c) ==
  LET tab == <<SessionOf(c), home[env[c].at]>>
  IN tabs' = IF env[c].aim.soft THEN tabs
             ELSE IF Closing(c) THEN tabs \ {tab} ELSE tabs \cup {tab}

\* Under the locks of mcp_cancelled and of the pending table.
Send(c) ==
  LET b == env[c].at
      allowed == ~Marked(env[c].tag)
  IN /\ pc[c] = "send"
     /\ \/ ~allowed /\ Returns(c) /\ UNCHANGED tabs
        \/ allowed /\ life[b] = "up" /\ Goto(c, "await") /\ Delivered(c)
        \/ allowed /\ life[b] = "deaf" /\ Returns(c) /\ UNCHANGED tabs  \* queue full
        \/ allowed /\ life[b] # "up" /\ Goto(c, "unregister") /\ UNCHANGED tabs
        \/ /\ allowed /\ life[b] # "up" /\ b \notin registered  \* a clear drained the entry
           /\ Fails(c) /\ UNCHANGED tabs
     /\ UNCHANGED <<bridges, sessions, guards, cancel, birth, rebound>>

\* clear_native_bridge by the call that found the sender closed
Unregister(c) ==
  /\ pc[c] = "unregister"
  /\ Unlist(env[c].at)
  /\ Goto(c, "mark")
  /\ UNCHANGED <<life, home, marking, sessions, guards, cancel, history>>

\* It resolves once more, without the comparison, unless no bridge comes.
ClearAndRetry(c) ==
  /\ pc[c] = "mark"
  /\ MarkSessions(env[c].at)
  /\ \/ /\ ~env[c].again
        /\ pc' = [pc EXCEPT ![c] = IF env[c].aim.by = "session" THEN "bind" ELSE "pick"]
        /\ env' = [env EXCEPT ![c].again = TRUE, ![c].at = 0]
     \/ (env[c].again \/ registered = {}) /\ Fails(c)
  /\ UNCHANGED <<bridges, guards, cancel, history>>

\* An answer, an error or a timeout.  Some errors become an answer of the step.
Answered(c) ==
  /\ pc[c] = "await"
  /\ Returns(c) \/ Fails(c)
  /\ UNCHANGED <<bridges, sessions, guards, cancel, history>>

----------------------------------------------------------------------------
(* browser.session_open                                                     *)

OpenBegins(x) ==
  /\ pc[Open(x)] = "idle"
  /\ \E a \in OpenAims : env' = [env EXCEPT ![Open(x)].aim = a]
  /\ pc' = [pc EXCEPT ![Open(x)] = "pick"]
  /\ UNCHANGED <<bridges, sessions, guards, cancel, history>>

OpenPicks(x) ==
  LET b == Pick(env[Open(x)].aim)
  IN /\ pc[Open(x)] = "pick"
     /\ IF b = 0 THEN Ends(Open(x), "failed") ELSE Resolved(Open(x), b, "asked")
     /\ UNCHANGED <<bridges, sessions, guards, cancel, history>>

\* With a url the guard keeps the bridge that was resolved.
OpenChecks(x) ==
  /\ pc[Open(x)] = "asked"
  /\ \/ Marked(Request[x]) /\ Ends(Open(x), "failed") /\ UNCHANGED guard
     \/ /\ ~Marked(Request[x])
        /\ Goto(Open(x), "insert")
        /\ \E b \in {0, env[Open(x)].at} : guard' = [guard EXCEPT ![x] = b]
  /\ UNCHANGED <<bridges, sessions, orphan, cancel, history>>

OpenInserts(x) ==
  LET e == env[Open(x)]
  IN /\ pc[Open(x)] = "insert"
     /\ records' = [records EXCEPT ![x] = Bound(e.at, e.named)]
     /\ birth' = [birth EXCEPT ![x] = home[e.at]]
     /\ Ends(Open(x), "recheck")
     /\ UNCHANGED <<bridges, lost, guards, cancel, rebound, tabs>>

\* Mutant: it removes the record and sends no close.
DropGuardSilent(x) == orphan' = [orphan EXCEPT ![x] = "remove"] /\ UNCHANGED guard

\* Drop of the guard: armed it spawns a task, disarmed it does nothing.
DropGuard(x) ==
  orphan' = [orphan EXCEPT ![x] = IF guard[x] # 0 THEN "queue" ELSE "remove"]
  /\ UNCHANGED guard
Disarm(x) == guard' = [guard EXCEPT ![x] = 0] /\ UNCHANGED orphan

\* Mutant: a step carries only what its caller gave it.
InheritsNot(x) == Nil

\* try_execute_step: the payload gets the request of the session, if its record is there.
Inherits(x) == IF records[x] # Nil THEN Request[x] ELSE Nil

\* Mutant: the cancellation is not looked at again.
OpenRechecksNot(x) ==
  /\ pc[Open(x)] = "recheck"
  /\ \/ guard[x] = 0 /\ Ends(Open(x), "opened") /\ Disarm(x)
     \/ /\ guard[x] # 0
        /\ pc' = [pc EXCEPT ![Open(x)] = "navigating", ![Navigate(x)] = "bind"]
        /\ env' = [env EXCEPT ![Navigate(x)].tag = Inherits(x)]
        /\ UNCHANGED guards
  /\ UNCHANGED <<bridges, sessions, cancel, history>>

OpenRechecks(x) ==
  /\ pc[Open(x)] = "recheck"
  /\ \/ Marked(Request[x]) /\ Ends(Open(x), "failed") /\ DropGuard(x)
     \/ ~Marked(Request[x]) /\ guard[x] = 0 /\ Ends(Open(x), "opened") /\ Disarm(x)
     \/ /\ ~Marked(Request[x]) /\ guard[x] # 0
        /\ pc' = [pc EXCEPT ![Open(x)] = "navigating", ![Navigate(x)] = "bind"]
        /\ env' = [env EXCEPT ![Navigate(x)].tag = Inherits(x)]
        /\ UNCHANGED guards
  /\ UNCHANGED <<bridges, sessions, cancel, history>>

OpenReturns(x) ==
  /\ pc[Open(x)] = "navigating"
  /\ \/ pc[Navigate(x)] = "done" /\ Ends(Open(x), "opened") /\ Disarm(x)
     \/ pc[Navigate(x)] = "failed" /\ Ends(Open(x), "failed") /\ DropGuard(x)
  /\ UNCHANGED <<bridges, sessions, cancel, history>>

\* The client's connection closes: the handler is dropped where it waits.
OpenDropped(x) ==
  /\ pc[Open(x)] \in Opening
  /\ pc' = [pc EXCEPT ![Open(x)] = "failed",
                      ![Navigate(x)] = IF @ = "idle" THEN @ ELSE "failed"]
  /\ env' = [env EXCEPT ![Open(x)] = NoEnv, ![Navigate(x)] = NoEnv]
  /\ IF pc[Open(x)] \in {"insert", "recheck", "navigating"} THEN DropGuard(x)
     ELSE UNCHANGED guards
  /\ UNCHANGED <<bridges, sessions, cancel, history>>

OrphanSends(x) ==
  /\ orphan[x] = "queue"
  /\ IF life[guard[x]] = "up"
     THEN /\ tabs' = tabs \ {<<x, home[guard[x]]>>}
          /\ orphan' = [orphan EXCEPT ![x] = "remove"]
     ELSE orphan' = [orphan EXCEPT ![x] = "refused"] /\ UNCHANGED tabs
  /\ guard' = [guard EXCEPT ![x] = 0]
  /\ UNCHANGED <<bridges, sessions, calls, cancel, birth, rebound>>

OrphanRemoves(x) ==
  /\ orphan[x] = "remove"
  /\ orphan' = [orphan EXCEPT ![x] = "removed"]
  /\ Remove(x)
  /\ UNCHANGED <<bridges, calls, guard, cancel, birth, tabs>>

----------------------------------------------------------------------------
(* Steps, closes and cancellation                                           *)

\* The client of an open session has one call under way at a time.
Opened(x) ==
  /\ pc[Open(x)] = "opened"
  /\ \A c \in Calls : SessionOf(c) = x /\ Cmd(c) \in {"step", "close"}
                      => pc[c] \notin Resolving

StepBegins(s) ==
  LET c == <<"step", s>>
      x == StepSession[s]
      t == IF StepRequest[s] # Nil THEN StepRequest[s] ELSE Inherits(x)
  IN /\ Opened(x) /\ pc[c] = "idle"
     /\ \/ Marked(t) /\ Ends(c, "done")
        \/ ~Marked(t) /\ \E a \in StepAims : Begin(c, a, t)
     /\ UNCHANGED <<bridges, sessions, guards, cancel, history>>

CloseBegins(x) ==
  /\ Opened(x) /\ pc[Close(x)] = "idle"
  /\ \E a \in CloseAims : Begin(Close(x), a, Nil)
  /\ UNCHANGED <<bridges, sessions, guards, cancel, history>>

CloseReturns(c) ==
  /\ pc[c] = "finish"
  /\ Remove(SessionOf(c))
  /\ Ends(c, "done")
  /\ UNCHANGED <<bridges, guards, cancel, birth, tabs>>

\* A close that is dropped still removes the record (its guard names no bridge).
CallDropped(c) ==
  /\ Cmd(c) \in {"step", "close"} /\ pc[c] \in Resolving
  /\ Ends(c, "done")
  /\ IF Cmd(c) = "close" THEN DropGuard(SessionOf(c)) ELSE UNCHANGED guards
  /\ UNCHANGED <<bridges, sessions, cancel, history>>

\* browser.cancel_pending: the mark, and the cancel frames of pending calls, under the
\* lock of mcp_cancelled.  The mark is kept for a minute, longer than a call waits.
CancelMarks(r) ==
  /\ cancel[r] = "no"
  /\ cancel' = [cancel EXCEPT ![r] = "marked"]
  /\ UNCHANGED <<bridges, sessions, calls, guards, history>>

\* Then the sessions of the request are closed, each by a task of its own.
CancelScans(r) ==
  LET found == {x \in Sessions : Request[x] = r /\ records[x] # Nil}
  IN /\ cancel[r] = "marked"
     /\ cancel' = [cancel EXCEPT ![r] = "scanned"]
     /\ pc' = [c \in Calls |-> IF Cmd(c) = "closer" /\ SessionOf(c) \in found THEN "bind"
                               ELSE pc[c]]
     /\ UNCHANGED <<bridges, sessions, env, guards, history>>

\* The periodic sweep takes sessions that lost their bridge and were idle for an hour.
Quiet(x) ==
  /\ \A c \in Calls : SessionOf(c) = x => pc[c] \notin Resolving \cup Opening
  /\ orphan[x] \notin {"queue", "remove"}
Sweep(x) ==
  /\ x \in lost /\ Quiet(x)
  /\ Remove(x)
  /\ UNCHANGED <<bridges, calls, guards, cancel, birth, tabs>>

----------------------------------------------------------------------------
BridgeStep == \E b \in Bridges :
  \/ Register(b) \/ PingRecorded(b) \/ Restart(b) \/ Deafens(b) \/ ConnectionEnds(b)
  \/ SessionsMarked(b)

CallStep == \E c \in Calls :
  \/ Bind(c) \/ PickOwn(c) \/ PickAim(c) \/ PickTarget(c) \/ Send(c) \/ Unregister(c)
  \/ ClearAndRetry(c) \/ Answered(c) \/ CloseReturns(c) \/ CallDropped(c)

SessionStep == \E x \in Sessions :
  \/ OpenBegins(x) \/ OpenPicks(x) \/ OpenChecks(x) \/ OpenInserts(x) \/ OpenRechecks(x)
  \/ OpenReturns(x) \/ OpenDropped(x) \/ OrphanSends(x) \/ OrphanRemoves(x)
  \/ CloseBegins(x) \/ Sweep(x)

Next ==
  \/ BridgeStep \/ CallStep \/ SessionStep
  \/ \E s \in Steps : StepBegins(s)
  \/ \E r \in Requests : CancelMarks(r) \/ CancelScans(r)

Spec == Init /\ [][Next]_vars

----------------------------------------------------------------------------
(* Properties                                                               *)

\* The frame of a call is put on a bridge in this step.
Sent(c) == pc[c] = "send" /\ pc'[c] = "await"

\* A call that names its session, and no browser, reaches the installation the session
\* was opened on, through every loss and return of its bridge; one that names a bridge or
\* an instance as well reaches that instance (ensure_session_target_compatible).  Other
\* installations may be of the same browser, and a copied profile has the same instance.
StepsStayHome ==
  [][\A c \in Calls :
       Sent(c) => LET h == home[env[c].at]
                      own == birth[SessionOf(c)]
                      a == env[c].aim
                  IN /\ a.by = "session" => h = own
                     /\ a.by \in {"bridge", "instance"} /\ ~a.soft
                          => Instance[h] = Instance[own]]_vars

\* A session whose bridge has gone is marked disconnected, whoever cleared the bridge and
\* whatever resolved the session meanwhile; only such sessions are swept.  (A record
\* inserted after its bridge had gone, and never used, is not.)
LostIsMarked ==
  \A x \in rebound :
    records[x] # Nil /\ life[records[x].bridge] = "gone" /\ records[x].bridge \notin marking
      => x \in lost

\* Whoever opened a session for a request and was cancelled: once everything that was
\* started has ended, the session's record has gone, unless its orphan close was refused.
Settled(x) == cancel[Request[x]] = "scanned" /\ Quiet(x)
CancelledLeavesNoSession ==
  \A x \in Sessions :
    Request[x] # Nil /\ Settled(x) /\ orphan[x] # "refused" => records[x] = Nil

AllBridgesUp ==
  \A b \in Bridges : life[b] \in {"none", "up"}

\* ... and, when no bridge was lost and no queue was full, no tab is left open, without a
\* close behind its last frame, where the session was opened, if its steps run under its
\* own request; nor anywhere else, if no profile is a copy and no step names a browser,
\* which may resolve to another bridge by the time it is sent.
StepsAreOwn(x) == \A s \in Steps : StepSession[s] = x => StepRequest[s] = Nil
AimsAreHome ==
  /\ \A g, h \in Homes : Instance[g] = Instance[h] => g = h
  /\ \A a \in StepAims : a.by = "browser" => a.soft
CancelledLeavesNoTab ==
  \A x \in Sessions :
    Request[x] # Nil /\ StepsAreOwn(x) /\ Settled(x) /\ AllBridgesUp /\ pc[Close(x)] = "idle"
      => /\ <<x, birth[x]>> \notin tabs
         /\ AimsAreHome => \A h \in Homes : <<x, h>> \notin tabs

\* No step or navigation of a session is sent once the request that opened it is
\* cancelled, though the request is looked up in a record that may have gone by then;
\* except a step under a request of its own, or one for the preferred browser.
CancelledIsQuiet ==
  [][\A c \in Calls :
       Sent(c) /\ Cmd(c) \in {"navigate", "step"} /\ Marked(Request[SessionOf(c)])
         => env[c].aim.soft \/ (Cmd(c) = "step" /\ StepRequest[c[2]] # Nil)]_vars
=============================================================================
