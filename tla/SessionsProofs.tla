---------------------------- MODULE SessionsProofs ----------------------------
(***************************************************************************)
(* Types, that a session's calls stay with its browser, that a lost        *)
(* session is marked, and what a cancellation guarantees, for any          *)
(* profiles, sessions, steps, targets and number of connections.           *)
(***************************************************************************)
EXTENDS Sessions, FiniteSetTheorems, WellFoundedInduction, TLAPS

----------------------------------------------------------------------------
(* Which bridge a target resolves to.                                       *)

\* A set of bridges that is not empty has a newest one.
LEMMA NewestIsIn == ASSUME NEW S \in SUBSET Bridges, S # {} PROVE Newest(S) \in S
<1> DEFINE T == {MaxBridges - b : b \in S}
<1> DEFINE R == OpToRel(<, Nat)
<1>0. \A b \in S : b \in Nat /\ MaxBridges - b \in Nat
  BY SessionsAssumption DEF Bridges
<1>1. T \subseteq Nat /\ T # {}
  BY <1>0
<1>2. IsWellFoundedOn(R, Nat)
  BY NatLessThanWellFounded
<1>3. PICK t \in T : \A n \in T : ~ (<<n, t>> \in R)
  <2> HIDE DEF T, R
  <2> QED BY <1>1, <1>2, WFMin
<1>4. \A n \in T : n \in Nat /\ t \in Nat /\ ~(n < t)
  BY <1>1, <1>3 DEF OpToRel
<1>5. PICK b \in S : t = MaxBridges - b
  OBVIOUS
<1>6. \A n \in S : n <= b
  BY <1>0, <1>4, <1>5, SessionsAssumption
<1> QED BY <1>6 DEF Newest

LEMMA TheOneIsIn == ASSUME NEW S \in SUBSET Bridges, Cardinality(S) = 1 PROVE TheOne(S) \in S
<1>1. IsFiniteSet(Bridges)
  <2>1. 1 \in Int /\ MaxBridges \in Int
    BY SessionsAssumption
  <2> QED BY <2>1, FS_Interval DEF Bridges
<1>2. S # {}
  BY <1>1, FS_Subset, FS_EmptySet
<1>3. \E b \in S : TRUE
  BY <1>2
<1> QED BY <1>3, Zenon DEF TheOne

\* A target resolves to a registered bridge, or to none.
LEMMA PickIsRegistered ==
  ASSUME registered \subseteq Bridges, NEW a
  PROVE  Pick(a) = 0 \/ Pick(a) \in registered
<1> DEFINE found == CASE a.by = "bridge" -> {a.val} \cap registered
                      [] a.by = "instance" -> OfInstance(a.val)
                      [] a.by = "browser" -> OfBrowser(a.val)
                      [] OTHER -> {}
<1>1. found \subseteq registered
  BY DEF OfInstance, OfBrowser
<1>2. found # {} => Newest(found) \in registered
  BY <1>1, NewestIsIn
<1>3. TheOnlyBridge = 0 \/ TheOnlyBridge \in registered
  BY TheOneIsIn DEF TheOnlyBridge
<1>4. Cardinality(Silent) = 1 => TheOne(Silent) \in registered
  BY TheOneIsIn DEF Silent
<1>5. \/ Pick(a) = 0
      \/ found # {} /\ Pick(a) = Newest(found)
      \/ Pick(a) = TheOnlyBridge
      \/ Cardinality(Silent) = 1 /\ Pick(a) = TheOne(Silent)
  BY DEF Pick
<1> HIDE DEF found
<1> QED BY <1>2, <1>3, <1>4, <1>5

LEMMA ForSessionIsRegistered ==
  ASSUME registered \subseteq Bridges, NEW rec
  PROVE  ForSession(rec) = 0 \/ ForSession(rec) \in registered
<1> DEFINE same == {b \in SameInstance(rec) : Compatible(rec, b)}
<1>1. same \subseteq registered
  BY DEF SameInstance, OfInstance
<1>2. same # {} => Newest(same) \in registered
  BY <1>1, NewestIsIn
<1> QED BY <1>2 DEF ForSession

----------------------------------------------------------------------------
(* Calls and their local variables.                                         *)

\* The calls of a session are four, and one for each of its steps.
LEMMA CallNames ==
  /\ \A x \in Sessions : /\ {Open(x), Navigate(x), Close(x), Closer(x)} \subseteq Calls
                         /\ Cmd(Open(x)) = "open" /\ Cmd(Navigate(x)) = "navigate"
                         /\ Cmd(Close(x)) = "close" /\ Cmd(Closer(x)) = "closer"
                         /\ SessionOf(Open(x)) = x /\ SessionOf(Navigate(x)) = x
                         /\ SessionOf(Close(x)) = x /\ SessionOf(Closer(x)) = x
  /\ \A s \in Steps : /\ <<"step", s>> \in Calls /\ Cmd(<<"step", s>>) = "step"
                      /\ SessionOf(<<"step", s>>) = StepSession[s]
  /\ \A c \in Calls : /\ SessionOf(c) \in Sessions
                      /\ Cmd(c) \in {"open", "navigate", "close", "closer", "step"}
                      /\ Cmd(c) = "open" => c = Open(SessionOf(c))
                      /\ Cmd(c) = "navigate" => c = Navigate(SessionOf(c))
                      /\ Cmd(c) = "close" => c = Close(SessionOf(c))
                      /\ Cmd(c) = "closer" => c = Closer(SessionOf(c))
                      /\ Cmd(c) = "step" => c[2] \in Steps /\ c = <<"step", c[2]>>
  BY SessionsAssumption DEF Calls, Open, Navigate, Close, Closer, Cmd, SessionOf

\* A caller that names no target is the one whose target is its session.
LEMMA GivenAims ==
  \A a \in StepAims \cup CloseAims :
    a \in Aims /\ (a.by = "session" => a = OwnSession)
<1>1. \A a \in Explicit : a.by \in {"bridge", "instance", "browser"}
  BY DEF Explicit, Aim
<1> QED BY <1>1, SessionsAssumption DEF Aims

LEMMA InstanceAims == \A a \in Aims : a.by = "instance" => a.val \in Instances
  BY DEF Aims, Explicit, Aim, OwnSession, Default

LEMMA EnvFields ==
  ASSUME NEW e \in Envs
  PROVE  /\ e.aim \in Aims /\ e.tag \in Requests \cup {Nil} /\ e.saw \in Records \cup {Nil}
         /\ e.at \in Bridges \cup {0} /\ e.named \in Instances \cup {Nil}
         /\ e.again \in BOOLEAN
  BY DEF Envs

\* A typed field may be replaced by a value of its type.
LEMMA EnvUpdates ==
  ASSUME NEW e \in Envs
  PROVE  /\ \A a \in Aims : [e EXCEPT !.aim = a] \in Envs
         /\ \A t \in Requests \cup {Nil} : [e EXCEPT !.tag = t] \in Envs
         /\ \A r \in Records \cup {Nil} : [e EXCEPT !.saw = r] \in Envs
         /\ \A b \in Bridges \cup {0} : [e EXCEPT !.at = b] \in Envs
         /\ \A i \in Instances \cup {Nil} : [e EXCEPT !.named = i] \in Envs
         /\ \A g \in BOOLEAN : [e EXCEPT !.again = g] \in Envs
  BY DEF Envs

LEMMA NoEnvType == NoEnv \in Envs /\ NoEnv.aim = OwnSession
  BY DEF NoEnv, Envs, Aims

LEMMA RecordFields ==
  ASSUME NEW r \in Records PROVE r.bridge \in Bridges /\ r.instance \in Instances \cup {Nil}
  BY DEF Records

----------------------------------------------------------------------------
(* Types.                                                                   *)

\* Somebody is behind a bridge that has connected; a registered one still is, and only a
\* registered one has told anything.
BridgesInv ==
  /\ \A b \in Bridges : life[b] # "none" => home[b] \in Homes
  /\ \A b \in registered : life[b] \in {"up", "deaf"}
  /\ \A b \in Bridges : told[b] # "nothing" => b \in registered

\* Where a call is, and what it knows by then.
Holding == {"pick_aim", "send", "unregister", "mark", "await", "asked", "insert"}
CallInv(c) ==
  /\ env[c].at # 0 => life[env[c].at] # "none"
  /\ pc[c] \in Holding => env[c].at # 0
  /\ pc[c] \in {"bind_own", "pick_own", "pick_aim"} => env[c].aim.by # "session"
  /\ Cmd(c) = "open" => pc[c] \in {"idle", "opened", "failed"} \cup Opening
  /\ Cmd(c) # "open" =>
       /\ pc[c] \in {"idle", "done", "failed"} \cup Resolving
       /\ pc[c] = "pick_own" \/ (pc[c] = "pick" /\ env[c].aim.by = "session")
            => env[c].saw # Nil

TypeInv == TypeOK /\ BridgesInv /\ \A c \in Calls : CallInv(c)

LEMMA ToldType ==
  ASSUME TypeInv, NEW b \in Bridges PROVE Told(b) \in Instances \cup {Nil}
<1>1. told[b] = "all" => home[b] \in Homes
  BY DEF TypeInv, TypeOK, BridgesInv
<1> QED BY <1>1 DEF Told, Instances

\* What another call does leaves a call's facts alone.
LEMMA CallFrame ==
  ASSUME TypeInv, NEW c \in Calls, pc'[c] = pc[c], env'[c] = env[c],
         \A b \in Bridges : life[b] # "none" => life'[b] # "none"
  PROVE  CallInv(c)'
<1>1. CallInv(c) /\ env[c] \in Envs
  BY DEF TypeInv, TypeOK
<1>2. env[c].at # 0 => env[c].at \in Bridges
  BY <1>1, EnvFields
<1> QED BY <1>1, <1>2 DEF CallInv

\* The four ways a call moves on.
LEMMA GotoFacts ==
  ASSUME TypeInv, NEW c \in Calls, NEW l, Goto(c, l)
  PROVE  /\ env' = env /\ pc'[c] = l /\ \A d \in Calls : d # c => pc'[d] = pc[d]
         /\ DOMAIN pc' = Calls /\ pc' = [pc EXCEPT ![c] = l]
  BY DEF TypeInv, TypeOK, Goto

LEMMA EndsFacts ==
  ASSUME TypeInv, NEW c \in Calls, NEW l, Ends(c, l)
  PROVE  /\ env' \in [Calls -> Envs] /\ env'[c] = NoEnv /\ pc'[c] = l
         /\ \A d \in Calls : d # c => pc'[d] = pc[d] /\ env'[d] = env[d]
         /\ pc' = [pc EXCEPT ![c] = l]
  BY NoEnvType DEF TypeInv, TypeOK, Ends

LEMMA ResolvedFacts ==
  ASSUME TypeInv, NEW c \in Calls, NEW l, NEW b \in registered, Resolved(c, b, l)
  PROVE  /\ env' \in [Calls -> Envs] /\ pc'[c] = l
         /\ env'[c].saw = Nil /\ env'[c].at = b
         /\ env'[c].named = (IF l = "send" THEN Nil ELSE Told(b))
         /\ env'[c].aim = env[c].aim /\ env'[c].tag = env[c].tag
         /\ \A d \in Calls : d # c => pc'[d] = pc[d] /\ env'[d] = env[d]
         /\ pc' = [pc EXCEPT ![c] = l]
<1> DEFINE i == IF l = "send" THEN Nil ELSE Told(b)
           e1 == [env[c] EXCEPT !.saw = Nil]
           e2 == [e1 EXCEPT !.at = b]
           e3 == [e2 EXCEPT !.named = i]
<1>1. env \in [Calls -> Envs] /\ pc \in [Calls -> {"idle", "opened", "done", "failed"} \cup Resolving \cup Opening]
      /\ b \in Bridges
  BY DEF TypeInv, TypeOK
<1>2. i \in Instances \cup {Nil}
  BY <1>1, ToldType
<1>3. e1 \in Envs /\ e2 \in Envs /\ e3 \in Envs
  <2> HIDE DEF i
  <2> QED BY <1>1, <1>2, EnvUpdates
<1>4. env' = [env EXCEPT ![c] = e3]
  BY <1>1 DEF Resolved
<1>5. /\ e3.saw = Nil /\ e3.at = b /\ e3.named = i
      /\ e3.aim = env[c].aim /\ e3.tag = env[c].tag
  BY <1>1 DEF Envs
<1> HIDE DEF i, e1, e2, e3
<1>6. i = IF l = "send" THEN Nil ELSE Told(b)
  BY DEF i
<1>7. pc' = [pc EXCEPT ![c] = l]
  BY DEF Resolved
<1>8. /\ pc'[c] = l /\ \A d \in Calls : d # c => pc'[d] = pc[d]
  BY <1>1, <1>7
<1>9. /\ env' \in [Calls -> Envs] /\ env'[c] = e3
      /\ \A d \in Calls : d # c => env'[d] = env[d]
  BY <1>1, <1>3, <1>4
<1> QED BY <1>5, <1>6, <1>7, <1>8, <1>9

LEMMA BeginFacts ==
  ASSUME TypeInv, NEW c \in Calls, NEW a \in Aims, NEW t \in Requests \cup {Nil}, Begin(c, a, t)
  PROVE  /\ env' \in [Calls -> Envs] /\ pc'[c] = FirstStage(a)
         /\ env'[c].saw = env[c].saw /\ env'[c].at = env[c].at
         /\ env'[c].aim = a /\ env'[c].tag = t
         /\ \A d \in Calls : d # c => pc'[d] = pc[d] /\ env'[d] = env[d]
         /\ pc' = [pc EXCEPT ![c] = FirstStage(a)]
<1> DEFINE e1 == [env[c] EXCEPT !.aim = a]
           e2 == [e1 EXCEPT !.tag = t]
<1>1. env \in [Calls -> Envs] /\ pc \in [Calls -> {"idle", "opened", "done", "failed"} \cup Resolving \cup Opening]
  BY DEF TypeInv, TypeOK
<1>2. e1 \in Envs /\ e2 \in Envs
  BY <1>1, EnvUpdates
<1>3. env' = [env EXCEPT ![c] = e2]
  BY <1>1 DEF Begin
<1>4. /\ e2.saw = env[c].saw /\ e2.at = env[c].at /\ e2.aim = a /\ e2.tag = t
  BY <1>1 DEF Envs
<1> HIDE DEF e1, e2
<1> QED BY <1>1, <1>2, <1>3, <1>4 DEF Begin

Places == {"idle", "opened", "done", "failed"} \cup Resolving \cup Opening

\* One call has moved, as its invariant allows.
LEMMA OneCallMoves ==
  ASSUME TypeInv, NEW c \in Calls, NEW l \in Places, pc' = [pc EXCEPT ![c] = l],
         env' \in [Calls -> Envs], \A d \in Calls : d # c => env'[d] = env[d],
         \A b \in Bridges : life[b] # "none" => life'[b] # "none",
         CallInv(c)'
  PROVE  /\ pc' \in [Calls -> Places]
         /\ \A d \in Calls : CallInv(d)'
<1>1. pc \in [Calls -> Places]
  BY DEF TypeInv, TypeOK, Places
<1>2. pc' \in [Calls -> Places] /\ \A d \in Calls : d # c => pc'[d] = pc[d]
  BY <1>1
<1>3. ASSUME NEW d \in Calls, d # c PROVE CallInv(d)'
  BY <1>2, <1>3, CallFrame
<1> QED BY <1>2, <1>3

LEMMA FieldFacts ==
  ASSUME TypeInv, NEW c \in Calls
  PROVE  /\ \A a \in Aims : env' = [env EXCEPT ![c].aim = a]
               => /\ env' \in [Calls -> Envs] /\ env'[c] = [env[c] EXCEPT !.aim = a]
                  /\ \A d \in Calls : d # c => env'[d] = env[d]
         /\ \A t \in Requests \cup {Nil} : env' = [env EXCEPT ![c].tag = t]
               => /\ env' \in [Calls -> Envs] /\ env'[c] = [env[c] EXCEPT !.tag = t]
                  /\ \A d \in Calls : d # c => env'[d] = env[d]
         /\ \A r \in Records \cup {Nil} : env' = [env EXCEPT ![c].saw = r]
               => /\ env' \in [Calls -> Envs] /\ env'[c] = [env[c] EXCEPT !.saw = r]
                  /\ \A d \in Calls : d # c => env'[d] = env[d]
         /\ env' = [env EXCEPT ![c].at = 0, ![c].named = Nil]
               => /\ env' \in [Calls -> Envs]
                  /\ env'[c] = [[env[c] EXCEPT !.at = 0] EXCEPT !.named = Nil]
                  /\ \A d \in Calls : d # c => env'[d] = env[d]
         /\ env' = [env EXCEPT ![c].again = TRUE, ![c].at = 0]
               => /\ env' \in [Calls -> Envs]
                  /\ env'[c] = [[env[c] EXCEPT !.again = TRUE] EXCEPT !.at = 0]
                  /\ \A d \in Calls : d # c => env'[d] = env[d]
<1>1. env \in [Calls -> Envs] /\ env[c] \in Envs
  BY DEF TypeInv, TypeOK
<1>2. \A e \in Envs : env' = [env EXCEPT ![c] = e]
        => /\ env' \in [Calls -> Envs] /\ env'[c] = e
           /\ \A d \in Calls : d # c => env'[d] = env[d]
  BY <1>1
<1>3. [[env[c] EXCEPT !.at = 0] EXCEPT !.named = Nil] \in Envs
  BY <1>1, EnvUpdates
<1>4. [[env[c] EXCEPT !.again = TRUE] EXCEPT !.at = 0] \in Envs
  BY <1>1, EnvUpdates
<1>5. \A a \in Aims : [env EXCEPT ![c].aim = a] = [env EXCEPT ![c] = [env[c] EXCEPT !.aim = a]]
  BY <1>1
<1>6. \A t \in Requests \cup {Nil} : [env EXCEPT ![c].tag = t] = [env EXCEPT ![c] = [env[c] EXCEPT !.tag = t]]
  BY <1>1
<1>7. \A r \in Records \cup {Nil} : [env EXCEPT ![c].saw = r] = [env EXCEPT ![c] = [env[c] EXCEPT !.saw = r]]
  BY <1>1
<1>8. [env EXCEPT ![c].at = 0, ![c].named = Nil] = [env EXCEPT ![c] = [[env[c] EXCEPT !.at = 0] EXCEPT !.named = Nil]]
  BY <1>1
<1>9. [env EXCEPT ![c].again = TRUE, ![c].at = 0] = [env EXCEPT ![c] = [[env[c] EXCEPT !.again = TRUE] EXCEPT !.at = 0]]
  BY <1>1
<1>10. ASSUME NEW a \in Aims, env' = [env EXCEPT ![c].aim = a]
       PROVE  /\ env' \in [Calls -> Envs] /\ env'[c] = [env[c] EXCEPT !.aim = a]
              /\ \A d \in Calls : d # c => env'[d] = env[d]
  BY <1>10, <1>1, <1>2, <1>5, EnvUpdates
<1>11. ASSUME NEW t \in Requests \cup {Nil}, env' = [env EXCEPT ![c].tag = t]
       PROVE  /\ env' \in [Calls -> Envs] /\ env'[c] = [env[c] EXCEPT !.tag = t]
              /\ \A d \in Calls : d # c => env'[d] = env[d]
  BY <1>11, <1>1, <1>2, <1>6, EnvUpdates
<1>12. ASSUME NEW r \in Records \cup {Nil}, env' = [env EXCEPT ![c].saw = r]
       PROVE  /\ env' \in [Calls -> Envs] /\ env'[c] = [env[c] EXCEPT !.saw = r]
              /\ \A d \in Calls : d # c => env'[d] = env[d]
  BY <1>12, <1>1, <1>2, <1>7, EnvUpdates
<1> QED BY <1>2, <1>3, <1>4, <1>8, <1>9, <1>10, <1>11, <1>12

\* When calls do not move.
LEMMA NoCallMoves ==
  ASSUME TypeInv, UNCHANGED calls, \A b \in Bridges : life[b] # "none" => life'[b] # "none"
  PROVE  /\ pc' \in [Calls -> Places] /\ env' \in [Calls -> Envs]
         /\ \A d \in Calls : CallInv(d)'
<1>1. pc' = pc /\ env' = env
  BY DEF calls
<1> QED BY <1>1, CallFrame DEF TypeInv, TypeOK, Places

LEMMA UnlistTypes ==
  ASSUME TypeInv, NEW b \in Bridges, Unlist(b)
  PROVE  /\ registered' \subseteq Bridges /\ b \notin registered' /\ registered' \subseteq registered
         /\ told' \in [Bridges -> {"nothing", "browser", "all"}]
         /\ \A n \in Bridges : told'[n] # "nothing" => n \in registered'
  BY DEF TypeInv, TypeOK, BridgesInv, Unlist

LEMMA MarkTypes ==
  ASSUME TypeInv, NEW b, MarkSessions(b)
  PROVE  records' = records /\ lost' \subseteq Sessions
  BY DEF TypeInv, TypeOK, MarkSessions

LEMMA RemoveTypes ==
  ASSUME TypeInv, NEW x \in Sessions, Remove(x)
  PROVE  /\ records' \in [Sessions -> Records \cup {Nil}] /\ records'[x] = Nil
         /\ \A y \in Sessions : y # x => records'[y] = records[y]
         /\ lost' \subseteq Sessions /\ rebound' \subseteq Sessions
         /\ lost' = lost \ {x} /\ rebound' = rebound \ {x}
  BY DEF TypeInv, TypeOK, Remove

LEMMA BridgeTypes ==
  ASSUME TypeInv, NEW b \in Bridges,
         \/ Register(b) \/ PingRecorded(b) \/ Restart(b) \/ Deafens(b)
         \/ ConnectionEnds(b) \/ SessionsMarked(b)
  PROVE  TypeInv'
<1>1. UNCHANGED <<calls, guards, cancel, history>>
  BY DEF Register, PingRecorded, Restart, Deafens, ConnectionEnds, SessionsMarked
<1>2. \A n \in Bridges : life[n] # "none" => life'[n] # "none"
  BY DEF TypeInv, TypeOK, Register, PingRecorded, Restart, Deafens, ConnectionEnds, SessionsMarked
<1>3. /\ pc' \in [Calls -> Places] /\ env' \in [Calls -> Envs]
      /\ \A d \in Calls : CallInv(d)'
  BY <1>1, <1>2, NoCallMoves
<1>4. /\ life' \in [Bridges -> {"none", "up", "deaf", "gone"}]
      /\ registered' \subseteq Bridges
      /\ home' \in [Bridges -> Homes \cup {Nil}]
      /\ told' \in [Bridges -> {"nothing", "browser", "all"}]
      /\ marking' \subseteq Bridges
      /\ BridgesInv'
  <2> USE SessionsAssumption DEF TypeInv, TypeOK, BridgesInv
  <2>1. CASE Register(b)
    BY <2>1 DEF Register
  <2>2. CASE PingRecorded(b)
    BY <2>2 DEF PingRecorded
  <2>3. CASE Restart(b)
    BY <2>3, UnlistTypes DEF Restart
  <2>4. CASE Deafens(b)
    BY <2>4 DEF Deafens
  <2>5. CASE ConnectionEnds(b)
    BY <2>5, UnlistTypes DEF ConnectionEnds
  <2>6. CASE SessionsMarked(b)
    BY <2>6 DEF SessionsMarked
  <2> QED BY <2>1, <2>2, <2>3, <2>4, <2>5, <2>6
<1>5. records' \in [Sessions -> Records \cup {Nil}] /\ lost' \subseteq Sessions
  BY MarkTypes DEF TypeInv, TypeOK, sessions,
     Register, PingRecorded, Restart, Deafens, ConnectionEnds, SessionsMarked
<1> QED BY <1>1, <1>3, <1>4, <1>5 DEF TypeInv, TypeOK, Places, guards, history

LEMMA RefreshTypes ==
  ASSUME TypeInv, NEW x \in Sessions, NEW b \in Bridges, Refresh(x, b)
  PROVE  /\ records' \in [Sessions -> Records \cup {Nil}]
         /\ lost' \subseteq Sessions /\ rebound' \subseteq Sessions
         /\ records' = records \/ (records[x] # Nil /\ records' = [records EXCEPT ![x] = Bound(b, Told(b))])
<1>1. Bound(b, Told(b)) \in Records
  BY ToldType DEF Bound, Records
<1> QED BY <1>1 DEF TypeInv, TypeOK, Refresh, sessions

\* A call that ends, and one that stays where it is.
LEMMA EndsTypes ==
  ASSUME TypeInv, NEW c \in Calls, NEW l, Ends(c, l), UNCHANGED life,
         \/ Cmd(c) # "open" /\ l \in {"done", "failed", "finish"}
         \/ Cmd(c) = "open" /\ l \in {"opened", "failed", "recheck"}
  PROVE  /\ pc' \in [Calls -> Places] /\ env' \in [Calls -> Envs]
         /\ \A d \in Calls : CallInv(d)'
<1>1. /\ env' \in [Calls -> Envs] /\ env'[c] = NoEnv /\ pc'[c] = l
      /\ \A d \in Calls : d # c => env'[d] = env[d]
      /\ pc' = [pc EXCEPT ![c] = l]
  BY EndsFacts
<1>2. NoEnv.at = 0
  BY DEF NoEnv
<1>3. CallInv(c)' /\ l \in Places
  BY <1>1, <1>2 DEF CallInv, Holding, Places, Resolving, Opening
<1> QED BY <1>1, <1>3, OneCallMoves

LEMMA ReturnsTypes ==
  ASSUME TypeInv, NEW c \in Calls, Cmd(c) # "open", UNCHANGED life, Returns(c) \/ Fails(c)
  PROVE  /\ pc' \in [Calls -> Places] /\ env' \in [Calls -> Envs]
         /\ \A d \in Calls : CallInv(d)'
<1>1. \E l \in {"done", "failed", "finish"} : Ends(c, l)
  BY DEF Returns, Fails
<1> QED BY <1>1, EndsTypes

LEMMA GotoTypes ==
  ASSUME TypeInv, NEW c \in Calls, NEW l, Goto(c, l), UNCHANGED life,
         pc[c] \in Holding, l \in Holding \ {"pick_aim"}, Cmd(c) = "open" <=> l \in {"asked", "insert"}
  PROVE  /\ pc' \in [Calls -> Places] /\ env' \in [Calls -> Envs]
         /\ \A d \in Calls : CallInv(d)'
<1>1. env' = env /\ pc'[c] = l /\ pc' = [pc EXCEPT ![c] = l]
  BY GotoFacts
<1>2. env \in [Calls -> Envs] /\ CallInv(c)
  BY DEF TypeInv, TypeOK
<1>3. CallInv(c)' /\ l \in Places
  BY <1>1, <1>2 DEF CallInv, Holding, Places, Resolving, Opening
<1> QED BY <1>1, <1>2, <1>3, OneCallMoves

LEMMA ResolvedTypes ==
  ASSUME TypeInv, NEW c \in Calls, NEW l, NEW b \in registered, Resolved(c, b, l), UNCHANGED life,
         \/ Cmd(c) # "open" /\ l = "send"
         \/ Cmd(c) # "open" /\ l = "pick_aim" /\ env[c].aim.by # "session"
         \/ Cmd(c) = "open" /\ l = "asked"
  PROVE  /\ pc' \in [Calls -> Places] /\ env' \in [Calls -> Envs]
         /\ \A d \in Calls : CallInv(d)'
<1>1. /\ env' \in [Calls -> Envs] /\ pc'[c] = l
      /\ env'[c].saw = Nil /\ env'[c].at = b
      /\ env'[c].aim = env[c].aim
      /\ \A d \in Calls : d # c => env'[d] = env[d]
      /\ pc' = [pc EXCEPT ![c] = l]
  BY ResolvedFacts
<1>2. b # 0 /\ life[b] # "none"
  <2>1. 0 \notin Bridges
    BY DEF Bridges
  <2>2. b \in Bridges /\ life[b] \in {"up", "deaf"}
    BY DEF TypeInv, TypeOK, BridgesInv
  <2> QED BY <2>1, <2>2
<1>3. CallInv(c)' /\ l \in Places
  BY <1>1, <1>2 DEF CallInv, Holding, Places, Resolving, Opening
<1> QED BY <1>1, <1>3, OneCallMoves

\* The bridges are left alone by most of what calls do.
LEMMA SameBridges ==
  ASSUME TypeInv, UNCHANGED <<life, registered, home, told>>
  PROVE  BridgesInv'
  BY DEF TypeInv, BridgesInv

LEMMA CallTypes ==
  ASSUME TypeInv, NEW c \in Calls, Cmd(c) # "open",
         \/ Bind(c) \/ PickOwn(c) \/ PickAim(c) \/ PickTarget(c) \/ Send(c) \/ Unregister(c)
         \/ ClearAndRetry(c) \/ Answered(c) \/ CloseReturns(c) \/ CallDropped(c)
  PROVE  TypeInv'
<1> USE DEF bridges, sessions, guards, calls, history
<1>0. /\ CallInv(c) /\ env[c] \in Envs /\ SessionOf(c) \in Sessions
      /\ registered \subseteq Bridges /\ records \in [Sessions -> Records \cup {Nil}]
  BY CallNames DEF TypeInv, TypeOK
<1>1. CASE Bind(c)
  <2>1. /\ pc' \in [Calls -> Places] /\ env' \in [Calls -> Envs]
        /\ \A d \in Calls : CallInv(d)'
    <3>1. CASE Fails(c)
      BY <1>1, <3>1, ReturnsTypes DEF Bind
    <3>2. CASE ~Fails(c)
      <4> DEFINE rec == records[SessionOf(c)]
      <4>1. /\ rec # Nil /\ rec \in Records /\ pc[c] \in {"bind_own", "bind"}
            /\ pc' = [pc EXCEPT ![c] = IF @ = "bind" THEN "pick" ELSE "pick_own"]
            /\ env' = [env EXCEPT ![c].saw = rec]
            /\ UNCHANGED life
        BY <1>0, <1>1, <3>2 DEF Bind
      <4>2. /\ env' \in [Calls -> Envs] /\ env'[c] = [env[c] EXCEPT !.saw = rec]
            /\ \A d \in Calls : d # c => env'[d] = env[d]
        BY <4>1, FieldFacts
      <4>3. /\ env'[c].saw = rec /\ env'[c].at = env[c].at /\ env'[c].aim = env[c].aim
        BY <1>0, <4>2 DEF Envs
      <4>4. PICK l \in {"pick", "pick_own"} :
              pc' = [pc EXCEPT ![c] = l] /\ (l = "pick_own" => pc[c] = "bind_own")
        BY <4>1 DEF TypeInv, TypeOK
      <4>5. pc'[c] = l
        BY <4>4 DEF TypeInv, TypeOK
      <4>6. CallInv(c)' /\ l \in Places
        BY <1>0, <4>1, <4>3, <4>4, <4>5 DEF CallInv, Holding, Places, Resolving, Opening
      <4> QED BY <4>1, <4>2, <4>4, <4>6, OneCallMoves
    <3> QED BY <3>1, <3>2
  <2> QED BY <1>1, <2>1, SameBridges DEF Bind, TypeInv, TypeOK, Places
<1>2. ASSUME NEW l, PickForSession(c, l), l = "pick_aim" \/ l = "send",
             l = "pick_aim" => env[c].aim.by # "session"
      PROVE  TypeInv'
  <2> DEFINE b == ForSession(env[c].saw)
  <2>1. b = 0 \/ b \in registered
    BY <1>0, ForSessionIsRegistered
  <2>2. UNCHANGED bridges /\ UNCHANGED <<guards, cancel, birth, tabs>>
    BY <1>2 DEF PickForSession
  <2>3. CASE b = 0
    <3>1. Fails(c) /\ UNCHANGED <<sessions, rebound>>
      BY <1>2, <2>3 DEF PickForSession
    <3> QED BY <2>2, <3>1, ReturnsTypes, SameBridges DEF TypeInv, TypeOK, Places
  <2>4. CASE b # 0
    <3>1. b \in registered /\ Resolved(c, b, l) /\ Refresh(SessionOf(c), b)
      BY <1>2, <2>1, <2>4 DEF PickForSession
    <3>2. /\ pc' \in [Calls -> Places] /\ env' \in [Calls -> Envs]
          /\ \A d \in Calls : CallInv(d)'
      BY <1>2, <2>2, <3>1, ResolvedTypes
    <3>3. /\ records' \in [Sessions -> Records \cup {Nil}]
          /\ lost' \subseteq Sessions /\ rebound' \subseteq Sessions
      BY <1>0, <3>1, RefreshTypes
    <3> QED BY <2>2, <3>2, <3>3, SameBridges DEF TypeInv, TypeOK, Places
  <2> QED BY <2>3, <2>4
<1>3. CASE PickOwn(c)
  BY <1>0, <1>2, <1>3 DEF PickOwn, CallInv
<1>4. CASE PickAim(c)
  <2>1. /\ pc' \in [Calls -> Places] /\ env' \in [Calls -> Envs]
        /\ \A d \in Calls : CallInv(d)'
    <3>1. CASE Fails(c)
      BY <1>4, <3>1, ReturnsTypes DEF PickAim
    <3>2. CASE ~Fails(c)
      <4>1. /\ pc[c] = "pick_aim" /\ pc' = [pc EXCEPT ![c] = "pick"]
            /\ env' = [env EXCEPT ![c].at = 0, ![c].named = Nil]
            /\ UNCHANGED life
        BY <1>4, <3>2 DEF PickAim
      <4>2. /\ env' \in [Calls -> Envs]
            /\ env'[c] = [[env[c] EXCEPT !.at = 0] EXCEPT !.named = Nil]
            /\ \A d \in Calls : d # c => env'[d] = env[d]
        BY <4>1, FieldFacts
      <4>3. /\ env'[c].at = 0 /\ env'[c].aim = env[c].aim
        BY <1>0, <4>2 DEF Envs
      <4>4. pc'[c] = "pick"
        BY <4>1 DEF TypeInv, TypeOK
      <4>5. CallInv(c)' /\ "pick" \in Places
        BY <1>0, <4>1, <4>3, <4>4 DEF CallInv, Holding, Places, Resolving, Opening
      <4> QED BY <4>1, <4>2, <4>5, OneCallMoves
    <3> QED BY <3>1, <3>2
  <2> QED BY <1>4, <2>1, SameBridges DEF PickAim, TypeInv, TypeOK, Places
<1>5. CASE PickTarget(c)
  <2>1. CASE PickForSession(c, "send")
    BY <1>2, <2>1
  <2>2. CASE ~PickForSession(c, "send")
    <3> DEFINE b == Pick(env[c].aim)
    <3>1. /\ IF b = 0 THEN Fails(c) ELSE Resolved(c, b, "send")
          /\ UNCHANGED <<bridges, sessions, guards, cancel, history>>
      BY <1>5, <2>2 DEF PickTarget
    <3>2. b = 0 \/ b \in registered
      BY <1>0, PickIsRegistered
    <3> HIDE DEF b
    <3>3. /\ pc' \in [Calls -> Places] /\ env' \in [Calls -> Envs]
          /\ \A d \in Calls : CallInv(d)'
      BY <3>1, <3>2, ReturnsTypes, ResolvedTypes
    <3> QED BY <3>1, <3>3, SameBridges DEF TypeInv, TypeOK, Places
  <2> QED BY <2>1, <2>2
<1>6. CASE Send(c)
  <2>1. /\ env[c].at \in Bridges /\ home[env[c].at] \in Homes /\ pc[c] = "send"
    BY <1>0, <1>6, EnvFields DEF Send, CallInv, Holding, TypeInv, BridgesInv
  <2>2. /\ pc' \in [Calls -> Places] /\ env' \in [Calls -> Envs]
        /\ \A d \in Calls : CallInv(d)'
    <3>1. UNCHANGED life /\ (Returns(c) \/ Fails(c) \/ Goto(c, "await") \/ Goto(c, "unregister"))
      BY <1>6 DEF Send
    <3> QED BY <2>1, <3>1, ReturnsTypes, GotoTypes DEF Holding
  <2>3. tabs' \subseteq Sessions \X Homes
    <3>1. tabs' = tabs \/ Delivered(c)
      BY <1>6 DEF Send
    <3> QED BY <1>0, <2>1, <3>1 DEF Delivered, TypeInv, TypeOK
  <2> QED BY <1>6, <2>2, <2>3, SameBridges DEF Send, TypeInv, TypeOK, Places
<1>7. CASE Unregister(c)
  <2>1. env[c].at \in Bridges
    BY <1>0, <1>7, EnvFields DEF Unregister, CallInv, Holding
  <2>2. /\ pc' \in [Calls -> Places] /\ env' \in [Calls -> Envs]
        /\ \A d \in Calls : CallInv(d)'
    BY <1>7, GotoTypes DEF Unregister, Holding
  <2>3. BridgesInv'
    BY <1>7, <2>1, UnlistTypes DEF Unregister, TypeInv, TypeOK, BridgesInv
  <2> QED BY <1>7, <2>1, <2>2, <2>3, UnlistTypes DEF Unregister, TypeInv, TypeOK, Places
<1>8. CASE ClearAndRetry(c)
  <2>1. /\ pc' \in [Calls -> Places] /\ env' \in [Calls -> Envs]
        /\ \A d \in Calls : CallInv(d)'
    <3>1. CASE Fails(c)
      BY <1>8, <3>1, ReturnsTypes DEF ClearAndRetry
    <3>2. CASE ~Fails(c)
      <4>1. /\ pc' = [pc EXCEPT ![c] = IF env[c].aim.by = "session" THEN "bind" ELSE "pick"]
            /\ env' = [env EXCEPT ![c].again = TRUE, ![c].at = 0]
            /\ UNCHANGED life
        BY <1>8, <3>2 DEF ClearAndRetry
      <4>2. /\ env' \in [Calls -> Envs]
            /\ env'[c] = [[env[c] EXCEPT !.again = TRUE] EXCEPT !.at = 0]
            /\ \A d \in Calls : d # c => env'[d] = env[d]
        BY <4>1, FieldFacts
      <4>3. /\ env'[c].at = 0 /\ env'[c].aim = env[c].aim
        BY <1>0, <4>2 DEF Envs
      <4>4. PICK l \in {"bind", "pick"} :
              pc' = [pc EXCEPT ![c] = l] /\ (l = "pick" => env[c].aim.by # "session")
        BY <4>1
      <4>5. pc'[c] = l
        BY <4>4 DEF TypeInv, TypeOK
      <4>6. CallInv(c)' /\ l \in Places
        BY <1>0, <4>3, <4>4, <4>5 DEF CallInv, Holding, Places, Resolving, Opening
      <4> QED BY <4>1, <4>2, <4>4, <4>6, OneCallMoves
    <3> QED BY <3>1, <3>2
  <2> QED BY <1>8, <2>1, SameBridges, MarkTypes DEF ClearAndRetry, TypeInv, TypeOK, Places
<1>9. CASE Answered(c)
  BY <1>9, ReturnsTypes, SameBridges DEF Answered, TypeInv, TypeOK, Places
<1>10. CASE CloseReturns(c)
  <2>1. /\ pc' \in [Calls -> Places] /\ env' \in [Calls -> Envs]
        /\ \A d \in Calls : CallInv(d)'
    BY <1>10, EndsTypes DEF CloseReturns
  <2> QED BY <1>0, <1>10, <2>1, RemoveTypes, SameBridges DEF CloseReturns, TypeInv, TypeOK, Places
<1>11. CASE CallDropped(c)
  <2>1. /\ pc' \in [Calls -> Places] /\ env' \in [Calls -> Envs]
        /\ \A d \in Calls : CallInv(d)'
    BY <1>11, EndsTypes DEF CallDropped
  <2>2. guard' = guard /\ orphan' \in [Sessions -> {"no", "queue", "remove", "removed", "refused"}]
    BY <1>11 DEF CallDropped, DropGuard, TypeInv, TypeOK
  <2> QED BY <1>11, <2>1, <2>2, SameBridges DEF CallDropped, TypeInv, TypeOK, Places
<1> QED BY <1>1, <1>3, <1>4, <1>5, <1>6, <1>7, <1>8, <1>9, <1>10, <1>11

LEMMA GuardTypes ==
  ASSUME TypeInv, NEW x \in Sessions,
         \/ DropGuard(x) \/ Disarm(x) \/ UNCHANGED guards
  PROVE  /\ guard' \in [Sessions -> Bridges \cup {0}]
         /\ orphan' \in [Sessions -> {"no", "queue", "remove", "removed", "refused"}]
  BY DEF DropGuard, Disarm, guards, TypeInv, TypeOK

LEMMA OpenTypes ==
  ASSUME TypeInv, NEW x \in Sessions,
         \/ OpenBegins(x) \/ OpenPicks(x) \/ OpenChecks(x) \/ OpenInserts(x) \/ OpenRechecks(x)
         \/ OpenReturns(x) \/ OpenDropped(x)
  PROVE  TypeInv'
<1> USE DEF bridges, sessions, calls, history
<1> DEFINE c == Open(x)
<1>0. /\ c \in Calls /\ Cmd(c) = "open" /\ SessionOf(c) = x
      /\ CallInv(c) /\ env[c] \in Envs /\ registered \subseteq Bridges
      /\ Navigate(x) \in Calls /\ Navigate(x) # c /\ Cmd(Navigate(x)) = "navigate"
  BY CallNames DEF TypeInv, TypeOK
<1> HIDE DEF c
<1>1. CASE OpenBegins(x)
  <2>1. PICK a \in OpenAims : env' = [env EXCEPT ![c].aim = a]
    BY <1>1 DEF OpenBegins, c
  <2>2. pc[c] = "idle" /\ pc' = [pc EXCEPT ![c] = "pick"] /\ UNCHANGED life
    BY <1>1 DEF OpenBegins, c
  <2>3. /\ env' \in [Calls -> Envs] /\ env'[c] = [env[c] EXCEPT !.aim = a]
        /\ \A d \in Calls : d # c => env'[d] = env[d]
    BY <1>0, <2>1, FieldFacts, SessionsAssumption DEF Aims
  <2>4. env'[c].at = env[c].at /\ pc'[c] = "pick"
    BY <1>0, <2>2, <2>3 DEF Envs, TypeInv, TypeOK
  <2>5. CallInv(c)' /\ "pick" \in Places
    BY <1>0, <2>2, <2>4 DEF CallInv, Holding, Places, Resolving, Opening
  <2> QED BY <1>0, <1>1, <2>2, <2>3, <2>5, OneCallMoves, SameBridges
          DEF OpenBegins, TypeInv, TypeOK, Places, guards
<1>2. CASE OpenPicks(x)
  <2> DEFINE b == Pick(env[c].aim)
  <2>1. IF b = 0 THEN Ends(c, "failed") ELSE Resolved(c, b, "asked")
    BY <1>2 DEF OpenPicks, c
  <2>2. b = 0 \/ b \in registered
    BY <1>0, PickIsRegistered
  <2>3. UNCHANGED <<bridges, sessions, guards, cancel, history>>
    BY <1>2 DEF OpenPicks
  <2> HIDE DEF b
  <2>4. /\ pc' \in [Calls -> Places] /\ env' \in [Calls -> Envs]
        /\ \A d \in Calls : CallInv(d)'
    BY <1>0, <2>1, <2>2, <2>3, EndsTypes, ResolvedTypes
  <2> QED BY <2>3, <2>4, SameBridges DEF TypeInv, TypeOK, Places, guards
<1>3. CASE OpenChecks(x)
  <2>1. /\ pc[c] = "asked"
        /\ Ends(c, "failed") \/ Goto(c, "insert")
        /\ UNCHANGED <<bridges, sessions, orphan, cancel, history>>
    BY <1>3 DEF OpenChecks, c
  <2>2. /\ pc' \in [Calls -> Places] /\ env' \in [Calls -> Envs]
        /\ \A d \in Calls : CallInv(d)'
    BY <1>0, <2>1, EndsTypes, GotoTypes DEF Holding
  <2>3. guard' \in [Sessions -> Bridges \cup {0}]
    <3>1. env[c].at \in Bridges \cup {0}
      BY <1>0, EnvFields
    <3> QED BY <1>3, <3>1 DEF OpenChecks, c, TypeInv, TypeOK
  <2> QED BY <2>1, <2>2, <2>3, SameBridges DEF TypeInv, TypeOK, Places
<1>4. CASE OpenInserts(x)
  <2>1. /\ pc[c] = "insert" /\ Ends(c, "recheck")
        /\ records' = [records EXCEPT ![x] = Bound(env[c].at, env[c].named)]
        /\ birth' = [birth EXCEPT ![x] = home[env[c].at]]
        /\ UNCHANGED <<bridges, lost, guards, cancel, rebound, tabs>>
    BY <1>4 DEF OpenInserts, c
  <2>2. env[c].at \in Bridges /\ env[c].named \in Instances \cup {Nil}
    BY <1>0, <2>1, EnvFields DEF CallInv, Holding
  <2>3. Bound(env[c].at, env[c].named) \in Records
    BY <2>2 DEF Bound, Records
  <2>4. /\ records' \in [Sessions -> Records \cup {Nil}]
        /\ birth' \in [Sessions -> Homes \cup {Nil}]
    BY <2>1, <2>2, <2>3 DEF TypeInv, TypeOK
  <2>5. /\ pc' \in [Calls -> Places] /\ env' \in [Calls -> Envs]
        /\ \A d \in Calls : CallInv(d)'
    BY <1>0, <2>1, EndsTypes
  <2> QED BY <2>1, <2>4, <2>5, SameBridges DEF TypeInv, TypeOK, Places, guards
<1>5. CASE OpenRechecks(x)
  <2>1. UNCHANGED <<bridges, sessions, cancel, history>>
    BY <1>5 DEF OpenRechecks
  <2>2. /\ pc' \in [Calls -> Places] /\ env' \in [Calls -> Envs]
        /\ \A d \in Calls : CallInv(d)'
    <3>1. CASE Ends(c, "failed") \/ Ends(c, "opened")
      BY <1>0, <2>1, <3>1, EndsTypes
    <3>2. CASE ~(Ends(c, "failed") \/ Ends(c, "opened"))
      <4> DEFINE n == Navigate(x)
      <4>1. /\ pc[c] = "recheck"
            /\ pc' = [pc EXCEPT ![c] = "navigating", ![n] = "bind"]
            /\ env' = [env EXCEPT ![n].tag = Inherits(x)]
        BY <1>5, <3>2 DEF OpenRechecks, c
      <4>2. Inherits(x) \in Requests \cup {Nil}
        BY SessionsAssumption DEF Inherits
      <4>3. /\ env' \in [Calls -> Envs] /\ env'[n] = [env[n] EXCEPT !.tag = Inherits(x)]
            /\ \A d \in Calls : d # n => env'[d] = env[d]
        BY <1>0, <4>1, <4>2, FieldFacts
      <4>4. env'[n].at = env[n].at
        BY <1>0, <4>3 DEF Envs, TypeInv, TypeOK
      <4>5. /\ pc' \in [Calls -> Places] /\ pc'[c] = "navigating" /\ pc'[n] = "bind"
            /\ \A d \in Calls : d # c /\ d # n => pc'[d] = pc[d]
        BY <1>0, <4>1 DEF TypeInv, TypeOK, Places, Resolving, Opening
      <4>6. CallInv(n)
        BY <1>0 DEF TypeInv
      <4>7. CallInv(n)'
        BY <1>0, <2>1, <4>4, <4>5, <4>6 DEF CallInv, Holding, Resolving
      <4>8. CallInv(c)'
        BY <1>0, <2>1, <4>3, <4>5 DEF CallInv, Holding, Opening
      <4>9. ASSUME NEW d \in Calls, d # c, d # n PROVE CallInv(d)'
        BY <2>1, <4>3, <4>5, <4>9, CallFrame
      <4> QED BY <4>3, <4>5, <4>7, <4>8, <4>9
    <3> QED BY <3>1, <3>2
  <2>3. DropGuard(x) \/ Disarm(x) \/ UNCHANGED guards
    BY <1>5 DEF OpenRechecks
  <2> QED BY <2>1, <2>2, <2>3, GuardTypes, SameBridges DEF TypeInv, TypeOK, Places
<1>6. CASE OpenReturns(x)
  <2>1. /\ UNCHANGED <<bridges, sessions, cancel, history>>
        /\ Ends(c, "opened") \/ Ends(c, "failed")
        /\ DropGuard(x) \/ Disarm(x)
    BY <1>6 DEF OpenReturns, c
  <2>2. /\ pc' \in [Calls -> Places] /\ env' \in [Calls -> Envs]
        /\ \A d \in Calls : CallInv(d)'
    BY <1>0, <2>1, EndsTypes
  <2> QED BY <2>1, <2>2, GuardTypes, SameBridges DEF TypeInv, TypeOK, Places
<1>7. CASE OpenDropped(x)
  <2> DEFINE n == Navigate(x)
  <2>1. /\ pc' = [pc EXCEPT ![c] = "failed", ![n] = IF @ = "idle" THEN @ ELSE "failed"]
        /\ env' = [env EXCEPT ![c] = NoEnv, ![n] = NoEnv]
        /\ DropGuard(x) \/ UNCHANGED guards
        /\ UNCHANGED <<bridges, sessions, cancel, history>>
    BY <1>7 DEF OpenDropped, c
  <2>2. /\ pc' \in [Calls -> Places] /\ pc'[c] = "failed" /\ pc'[n] \in {"idle", "failed"}
        /\ \A d \in Calls : d # c /\ d # n => pc'[d] = pc[d]
    BY <1>0, <2>1 DEF TypeInv, TypeOK, Places
  <2>3. /\ env' \in [Calls -> Envs] /\ env'[c] = NoEnv /\ env'[n] = NoEnv
        /\ \A d \in Calls : d # c /\ d # n => env'[d] = env[d]
    BY <1>0, <2>1, NoEnvType DEF TypeInv, TypeOK
  <2>4. CallInv(n)' /\ CallInv(c)'
    BY <1>0, <2>1, <2>2, <2>3 DEF CallInv, Holding, NoEnv
  <2>5. ASSUME NEW d \in Calls, d # c, d # n PROVE CallInv(d)'
    BY <2>1, <2>2, <2>3, <2>5, CallFrame
  <2>6. \A d \in Calls : CallInv(d)'
    BY <2>4, <2>5
  <2> QED BY <2>1, <2>2, <2>3, <2>6, GuardTypes, SameBridges DEF TypeInv, TypeOK, Places
<1> QED BY <1>1, <1>2, <1>3, <1>4, <1>5, <1>6, <1>7

LEMMA SessionTypes ==
  ASSUME TypeInv, NEW x \in Sessions,
         OrphanSends(x) \/ OrphanRemoves(x) \/ CloseBegins(x) \/ Sweep(x)
  PROVE  TypeInv'
<1> USE DEF bridges, sessions, calls, history
<1>1. CASE OrphanSends(x)
  BY <1>1, NoCallMoves, SameBridges DEF OrphanSends, TypeInv, TypeOK, Places
<1>2. CASE OrphanRemoves(x)
  BY <1>2, NoCallMoves, RemoveTypes, SameBridges DEF OrphanRemoves, TypeInv, TypeOK, Places
<1>3. CASE CloseBegins(x)
  <2> DEFINE c == Close(x)
  <2>1. PICK a \in CloseAims : Begin(c, a, Nil)
    BY <1>3 DEF CloseBegins
  <2>2. c \in Calls /\ Cmd(c) = "close" /\ a \in Aims /\ (a.by = "session" => a = OwnSession)
    BY CallNames, GivenAims
  <2>3. pc[c] = "idle" /\ UNCHANGED <<bridges, sessions, guards, cancel, history>>
    BY <1>3 DEF CloseBegins
  <2> HIDE DEF c
  <2>4. /\ env' \in [Calls -> Envs] /\ pc'[c] = FirstStage(a)
        /\ env'[c].at = env[c].at /\ env'[c].aim = a
        /\ \A d \in Calls : d # c => env'[d] = env[d]
        /\ pc' = [pc EXCEPT ![c] = FirstStage(a)]
    BY <2>1, <2>2, BeginFacts
  <2>5. CallInv(c)
    BY <2>2 DEF TypeInv
  <2>6. CallInv(c)' /\ FirstStage(a) \in Places
    BY <2>2, <2>3, <2>4, <2>5 DEF CallInv, FirstStage, Holding, Places, Resolving, OwnSession, Aim
  <2> QED BY <2>2, <2>3, <2>4, <2>6, OneCallMoves, SameBridges DEF TypeInv, TypeOK, Places, guards
<1>4. CASE Sweep(x)
  BY <1>4, NoCallMoves, RemoveTypes, SameBridges DEF Sweep, TypeInv, TypeOK, Places, guards
<1> QED BY <1>1, <1>2, <1>3, <1>4

LEMMA StepTypes ==
  ASSUME TypeInv, NEW s \in Steps, StepBegins(s) PROVE TypeInv'
<1> USE DEF bridges, sessions, calls, history
<1> DEFINE c == <<"step", s>>
           t == IF StepRequest[s] # Nil THEN StepRequest[s] ELSE Inherits(StepSession[s])
<1>1. c \in Calls /\ Cmd(c) = "step" /\ t \in Requests \cup {Nil}
  BY CallNames, SessionsAssumption DEF Inherits
<1>2. /\ pc[c] = "idle" /\ UNCHANGED <<bridges, sessions, guards, cancel, history>>
      /\ Ends(c, "done") \/ \E a \in StepAims : Begin(c, a, t)
  BY DEF StepBegins
<1> HIDE DEF c, t
<1>3. /\ pc' \in [Calls -> Places] /\ env' \in [Calls -> Envs]
      /\ \A d \in Calls : CallInv(d)'
  <2>1. CASE Ends(c, "done")
    BY <1>1, <1>2, <2>1, EndsTypes
  <2>2. ASSUME NEW a \in StepAims, Begin(c, a, t)
        PROVE  /\ pc' \in [Calls -> Places] /\ env' \in [Calls -> Envs]
               /\ \A d \in Calls : CallInv(d)'
    <3>1. a \in Aims /\ (a.by = "session" => a = OwnSession)
      BY GivenAims
    <3>2. /\ env' \in [Calls -> Envs] /\ pc'[c] = FirstStage(a)
          /\ env'[c].at = env[c].at /\ env'[c].aim = a
          /\ \A d \in Calls : d # c => env'[d] = env[d]
          /\ pc' = [pc EXCEPT ![c] = FirstStage(a)]
      BY <1>1, <2>2, <3>1, BeginFacts
    <3>3. CallInv(c)
      BY <1>1 DEF TypeInv
    <3>4. CallInv(c)' /\ FirstStage(a) \in Places
      BY <1>1, <1>2, <3>1, <3>2, <3>3 DEF CallInv, FirstStage, Holding, Places, Resolving, OwnSession, Aim
    <3> QED BY <1>1, <1>2, <3>2, <3>4, OneCallMoves
  <2> QED BY <1>2, <2>1, <2>2
<1> QED BY <1>2, <1>3, SameBridges DEF TypeInv, TypeOK, Places, guards

LEMMA CancelTypes ==
  ASSUME TypeInv, NEW r \in Requests, CancelMarks(r) \/ CancelScans(r) PROVE TypeInv'
<1> USE DEF bridges, sessions, calls, history
<1>1. CASE CancelMarks(r)
  BY <1>1, NoCallMoves, SameBridges DEF CancelMarks, TypeInv, TypeOK, Places, guards
<1>2. CASE CancelScans(r)
  <2>1. UNCHANGED <<bridges, sessions, env, guards, history>>
    BY <1>2 DEF CancelScans
  <2>2. ASSUME NEW d \in Calls
        PROVE  pc'[d] = pc[d] \/ (Cmd(d) = "closer" /\ pc'[d] = "bind")
    BY <1>2 DEF CancelScans
  <2>3. ASSUME NEW d \in Calls PROVE CallInv(d)' /\ pc'[d] \in Places
    <3>1. CASE pc'[d] = pc[d]
      BY <2>1, <3>1, CallFrame DEF TypeInv, TypeOK, Places
    <3>2. CASE Cmd(d) = "closer" /\ pc'[d] = "bind"
      <4>1. CallInv(d) /\ env'[d] = env[d]
        BY <2>1 DEF TypeInv
      <4>2. env[d].aim.by # "session" \/ env[d].aim.by = "session"
        OBVIOUS
      <4> QED BY <2>1, <3>2, <4>1 DEF CallInv, Holding, Places, Resolving
    <3> QED BY <2>2, <3>1, <3>2
  <2>4. pc' \in [Calls -> Places]
    BY <1>2, <2>3 DEF CancelScans
  <2>5. cancel' \in [Requests -> {"no", "marked", "scanned"}]
    BY <1>2 DEF CancelScans, TypeInv, TypeOK
  <2> QED BY <2>1, <2>3, <2>4, <2>5, SameBridges DEF TypeInv, TypeOK, Places, guards
<1> QED BY <1>1, <1>2

LEMMA TypeInit == Init => TypeInv
<1> SUFFICES ASSUME Init PROVE TypeInv
  OBVIOUS
<1>1. TypeOK
  BY NoEnvType DEF Init, TypeOK
<1>2. BridgesInv
  BY DEF Init, BridgesInv
<1>3. \A c \in Calls : CallInv(c)
  BY DEF Init, CallInv, NoEnv, Holding
<1> QED BY <1>1, <1>2, <1>3 DEF TypeInv

\* The action of a call is one of a call that is not an open: an open never gets there.
LEMMA OpenIsApart ==
  ASSUME TypeInv, NEW c \in Calls, Cmd(c) = "open"
  PROVE  ~(\/ Bind(c) \/ PickOwn(c) \/ PickAim(c) \/ PickTarget(c) \/ Send(c) \/ Unregister(c)
           \/ ClearAndRetry(c) \/ Answered(c) \/ CloseReturns(c) \/ CallDropped(c))
<1>1. pc[c] \in {"idle", "opened", "failed"} \cup Opening
  BY DEF TypeInv, CallInv
<1> QED BY <1>1 DEF Opening, Bind, PickOwn, PickAim, PickTarget, Send, Unregister, ClearAndRetry,
     Answered, CloseReturns, CallDropped

LEMMA TypeStep == TypeInv /\ [Next]_vars => TypeInv'
<1> SUFFICES ASSUME TypeInv, [Next]_vars PROVE TypeInv'
  OBVIOUS
<1>1. CASE UNCHANGED vars
  <2>1. /\ UNCHANGED bridges /\ UNCHANGED calls /\ UNCHANGED sessions /\ UNCHANGED guards
        /\ UNCHANGED history /\ UNCHANGED cancel
    BY <1>1 DEF vars
  <2> QED BY <2>1, NoCallMoves, SameBridges
          DEF TypeInv, TypeOK, Places, bridges, sessions, guards, history
<1>2. CASE BridgeStep
  BY <1>2, BridgeTypes DEF BridgeStep
<1>3. CASE CallStep
  BY <1>3, CallTypes, OpenIsApart DEF CallStep
<1>4. CASE SessionStep
  BY <1>4, OpenTypes, SessionTypes DEF SessionStep
<1>5. ASSUME NEW s \in Steps, StepBegins(s) PROVE TypeInv'
  BY <1>5, StepTypes
<1>6. ASSUME NEW r \in Requests, CancelMarks(r) \/ CancelScans(r) PROVE TypeInv'
  BY <1>6, CancelTypes
<1> QED BY <1>1, <1>2, <1>3, <1>4, <1>5, <1>6 DEF Next

\* Every variable has its type.
THEOREM TypeCorrect == Spec => []TypeOK
<1>1. Spec => []TypeInv
  BY TypeInit, TypeStep, PTL DEF Spec
<1> QED BY <1>1, PTL DEF TypeInv

----------------------------------------------------------------------------
(* What a call does to the places and variables of calls, for all that follows. *)

\* The open of the session has inserted its record, or never will.
Born(x) == pc[Open(x)] \in {"recheck", "navigating", "opened", "failed"}

LEMMA CallMoves ==
  ASSUME TypeInv, NEW c \in Calls, Cmd(c) # "open",
         \/ Bind(c) \/ PickOwn(c) \/ PickAim(c) \/ PickTarget(c) \/ Send(c) \/ Unregister(c)
         \/ ClearAndRetry(c) \/ Answered(c) \/ CloseReturns(c) \/ CallDropped(c)
  PROVE  /\ pc[c] \in Resolving /\ UNCHANGED <<life, home, birth, cancel>>
         /\ \A d \in Calls : d # c => pc'[d] = pc[d] /\ env'[d] = env[d]
<1>1. UNCHANGED <<life, home, birth, cancel>>
  BY DEF bridges, history, Bind, PickOwn, PickForSession, PickAim, PickTarget, Send, Unregister,
         ClearAndRetry, Answered, CloseReturns, CallDropped
<1>2. pc[c] \in Resolving
  BY DEF Bind, PickOwn, PickAim, PickTarget, Send, Unregister, ClearAndRetry, Answered,
         CloseReturns, CallDropped, Resolving
<1>3. pc \in [Calls -> Places] /\ env \in [Calls -> Envs]
  BY DEF TypeInv, TypeOK, Places
<1>4. ASSUME NEW d \in Calls, d # c PROVE pc'[d] = pc[d] /\ env'[d] = env[d]
  BY <1>3, <1>4 DEF Bind, PickOwn, PickForSession, PickAim, PickTarget, Send, Unregister,
     ClearAndRetry, Answered, CloseReturns, CallDropped, Goto, Ends, Resolved, Returns, Fails
<1> QED BY <1>1, <1>2, <1>4

LEMMA OpenMoves ==
  ASSUME TypeInv, NEW x \in Sessions,
         \/ OpenBegins(x) \/ OpenPicks(x) \/ OpenChecks(x) \/ OpenInserts(x) \/ OpenRechecks(x)
         \/ OpenReturns(x) \/ OpenDropped(x)
  PROVE  /\ UNCHANGED <<bridges, cancel>> /\ (Born(x) => Born(x)')
         /\ \A d \in Calls : d \notin {Open(x), Navigate(x)} => pc'[d] = pc[d] /\ env'[d] = env[d]
         /\ \A y \in Sessions : Born(y) => birth'[y] = birth[y]
         /\ \/ OpenDropped(x)
            \/ OpenRechecks(x)
            \/ pc'[Navigate(x)] = pc[Navigate(x)] /\ env'[Navigate(x)] = env[Navigate(x)]
<1>1. UNCHANGED <<bridges, cancel>>
  BY DEF OpenBegins, OpenPicks, OpenChecks, OpenInserts, OpenRechecks, OpenReturns, OpenDropped
<1>2. pc \in [Calls -> Places] /\ env \in [Calls -> Envs] /\ birth \in [Sessions -> Homes \cup {Nil}]
  BY DEF TypeInv, TypeOK, Places
<1>3. Open(x) \in Calls /\ Navigate(x) \in Calls /\ Open(x) # Navigate(x)
  BY CallNames
<1>4. ASSUME NEW d \in Calls, d \notin {Open(x), Navigate(x)} PROVE pc'[d] = pc[d] /\ env'[d] = env[d]
  BY <1>2, <1>3, <1>4 DEF OpenBegins, OpenPicks, OpenChecks, OpenInserts, OpenRechecks, OpenReturns,
     OpenDropped, Goto, Ends, Resolved
<1>5. Born(x) => Born(x)'
  BY <1>2, <1>3 DEF Born, OpenBegins, OpenPicks, OpenChecks, OpenInserts, OpenRechecks, OpenReturns,
     OpenDropped, Goto, Ends, Resolved
<1>6. ASSUME NEW y \in Sessions, Born(y) PROVE birth'[y] = birth[y]
  <2>1. UNCHANGED birth \/ OpenInserts(x)
    BY DEF history, OpenBegins, OpenPicks, OpenChecks, OpenRechecks, OpenReturns, OpenDropped
  <2>2. CASE OpenInserts(x)
    BY <1>2, <1>6, <2>2 DEF OpenInserts, Born
  <2> QED BY <2>1, <2>2
<1>7. ASSUME ~OpenDropped(x), ~OpenRechecks(x)
      PROVE  pc'[Navigate(x)] = pc[Navigate(x)] /\ env'[Navigate(x)] = env[Navigate(x)]
  BY <1>2, <1>3, <1>7 DEF OpenBegins, OpenPicks, OpenChecks, OpenInserts, OpenReturns, Goto, Ends, Resolved
<1> QED BY <1>1, <1>4, <1>5, <1>6, <1>7

\* Who is behind a bridge, and where a session was opened, does not change.
Grows ==
  /\ \A b \in Bridges : life[b] # "none" => life'[b] # "none" /\ home'[b] = home[b]
  /\ \A x \in Sessions : Born(x) => Born(x)' /\ birth'[x] = birth[x]

LEMMA AlwaysGrows == ASSUME TypeInv, [Next]_vars PROVE Grows
<1>1. CASE UNCHANGED vars
  BY <1>1 DEF vars, Grows, Born, bridges, calls, history
<1>2. CASE BridgeStep
  <2>1. PICK b \in Bridges : \/ Register(b) \/ PingRecorded(b) \/ Restart(b) \/ Deafens(b)
                             \/ ConnectionEnds(b) \/ SessionsMarked(b)
    BY <1>2 DEF BridgeStep
  <2>2. UNCHANGED calls /\ UNCHANGED history
    BY <2>1 DEF Register, PingRecorded, Restart, Deafens, ConnectionEnds, SessionsMarked
  <2>3. \A n \in Bridges : life[n] # "none" => life'[n] # "none" /\ home'[n] = home[n]
    BY <2>1 DEF TypeInv, TypeOK, Register, PingRecorded, Restart, Deafens, ConnectionEnds, SessionsMarked
  <2> QED BY <2>2, <2>3 DEF Grows, Born, calls, history
<1>3. CASE CallStep
  <2>1. PICK c \in Calls : \/ Bind(c) \/ PickOwn(c) \/ PickAim(c) \/ PickTarget(c) \/ Send(c)
                           \/ Unregister(c) \/ ClearAndRetry(c) \/ Answered(c) \/ CloseReturns(c)
                           \/ CallDropped(c)
    BY <1>3 DEF CallStep
  <2>2. Cmd(c) # "open"
    BY <2>1, OpenIsApart
  <2>3. /\ UNCHANGED <<life, home, birth, cancel>>
        /\ \A d \in Calls : d # c => pc'[d] = pc[d] /\ env'[d] = env[d]
    BY <2>1, <2>2, CallMoves
  <2>4. \A x \in Sessions : Open(x) \in Calls /\ Open(x) # c
    BY <2>2, CallNames
  <2> QED BY <2>3, <2>4 DEF Grows, Born
<1>4. ASSUME NEW x \in Sessions,
             \/ OpenBegins(x) \/ OpenPicks(x) \/ OpenChecks(x) \/ OpenInserts(x) \/ OpenRechecks(x)
             \/ OpenReturns(x) \/ OpenDropped(x)
      PROVE  Grows
  <2>1. /\ UNCHANGED <<bridges, cancel>> /\ (Born(x) => Born(x)')
        /\ \A d \in Calls : d \notin {Open(x), Navigate(x)} => pc'[d] = pc[d]
        /\ \A y \in Sessions : Born(y) => birth'[y] = birth[y]
    BY <1>4, OpenMoves
  <2>2. \A y \in Sessions : y # x => Open(y) \in Calls /\ Open(y) \notin {Open(x), Navigate(x)}
    BY CallNames DEF Open, Navigate
  <2>3. ASSUME NEW y \in Sessions, Born(y) PROVE Born(y)'
    <3>1. CASE y = x
      BY <2>1, <2>3, <3>1
    <3>2. CASE y # x
      BY <2>1, <2>2, <2>3, <3>2 DEF Born
    <3> QED BY <3>1, <3>2
  <2> QED BY <2>1, <2>3 DEF Grows, bridges
<1>5. ASSUME NEW x \in Sessions, OrphanSends(x) \/ OrphanRemoves(x) \/ Sweep(x) PROVE Grows
  BY <1>5 DEF OrphanSends, OrphanRemoves, Sweep, Grows, Born, bridges, calls, history
<1>6. ASSUME NEW x \in Sessions, CloseBegins(x) PROVE Grows
  <2>1. UNCHANGED <<bridges, history>> /\ \A d \in Calls : d # Close(x) => pc'[d] = pc[d]
    BY <1>6 DEF CloseBegins, Begin, TypeInv, TypeOK
  <2>2. \A y \in Sessions : Open(y) \in Calls /\ Open(y) # Close(x)
    BY CallNames DEF Open, Close
  <2> QED BY <2>1, <2>2 DEF Grows, Born, bridges, history
<1>7. ASSUME NEW s \in Steps, StepBegins(s) PROVE Grows
  <2>1. UNCHANGED <<bridges, history>> /\ \A d \in Calls : d # <<"step", s>> => pc'[d] = pc[d]
    BY <1>7 DEF StepBegins, Begin, Ends, TypeInv, TypeOK
  <2>2. \A y \in Sessions : Open(y) \in Calls /\ Open(y) # <<"step", s>>
    BY CallNames DEF Open
  <2> QED BY <2>1, <2>2 DEF Grows, Born, bridges, history
<1>8. ASSUME NEW r \in Requests, CancelMarks(r) \/ CancelScans(r) PROVE Grows
  <2>1. UNCHANGED <<bridges, history>> /\ \A d \in Calls : Cmd(d) = "open" => pc'[d] = pc[d]
    BY <1>8 DEF CancelMarks, CancelScans, calls
  <2> QED BY <2>1, CallNames DEF Grows, Born, bridges, history
<1> QED BY <1>1, <1>2, <1>3, <1>4, <1>5, <1>6, <1>7, <1>8 DEF Next, SessionStep

----------------------------------------------------------------------------
(* A session's calls stay with the browser it was opened on.                *)

AtHome(r, x) ==
  /\ life[r.bridge] # "none" /\ home[r.bridge] = birth[x]
  /\ r.instance \in {Nil, Instance[birth[x]]}

\* A firm target that has been compared with its session.
AimAtHome(a, x) ==
  ~a.soft => /\ a.by = "bridge" => /\ a.val \in Bridges /\ life[a.val] # "none"
                                   /\ Instance[home[a.val]] = Instance[birth[x]]
             /\ a.by = "instance" => a.val = Instance[birth[x]]

CallHome(c) ==
  LET x == SessionOf(c)
      e == env[c]
  IN /\ Cmd(c) = "open" /\ pc[c] \in {"asked", "insert"} => e.named \in {Nil, Instance[home[e.at]]}
     /\ Cmd(c) \in {"navigate", "closer"} => e.aim.by = "session"
     /\ Cmd(c) # "open" =>
          /\ pc[c] # "idle" => Born(x)
          /\ pc[c] = "bind" => e.aim.by = "session"
          /\ e.saw # Nil => pc[c] # "idle" /\ AtHome(e.saw, x)
          /\ pc[c] = "pick_aim" => home[e.at] = birth[x] /\ e.named \in {Nil, Instance[birth[x]]}
          /\ pc[c] \in {"pick", "send", "unregister", "mark"} => AimAtHome(e.aim, x)
          /\ pc[c] = "send" =>
               /\ e.aim.by = "session" => home[e.at] = birth[x]
               /\ e.aim.by \in {"bridge", "instance"} /\ ~e.aim.soft
                    => Instance[home[e.at]] = Instance[birth[x]]

RecordHome(x) == records[x] # Nil => Born(x) /\ AtHome(records[x], x)

HomeInv ==
  /\ \A c \in Calls : CallHome(c)
  /\ \A x \in Sessions : RecordHome(x)

\* What a session resolves to is at its home.
LEMMA ForSessionHome ==
  ASSUME TypeInv, NEW x \in Sessions, NEW r \in Records, AtHome(r, x), ForSession(r) # 0
  PROVE  LET b == ForSession(r)
         IN b \in registered /\ b \in Bridges /\ home[b] = birth[x] /\ Told(b) \in {Nil, Instance[birth[x]]}
<1> DEFINE same == {n \in SameInstance(r) : Compatible(r, n)}
           b == ForSession(r)
<1>1. registered \subseteq Bridges /\ r.bridge \in Bridges
  BY RecordFields DEF TypeInv, TypeOK
<1>2. b \in registered
  BY <1>1, ForSessionIsRegistered
<1>3. CASE b \in same
  <2>1. r.instance # Nil /\ Told(b) = r.instance /\ Compatible(r, b)
    BY <1>3 DEF SameInstance, OfInstance
  <2>2. r.instance = Instance[birth[x]] /\ home[r.bridge] = birth[x] /\ birth[x] \in Homes
    BY <1>1, <2>1 DEF AtHome, TypeInv, BridgesInv
  <2>3. Told(b) = Instance[home[b]]
    BY <2>1 DEF Told
  <2>4. home[b] \in Homes
    BY <1>1, <1>2 DEF TypeInv, BridgesInv
  <2>5. home[b] = birth[x]
    BY <2>1, <2>2, <2>3, <2>4, SessionsAssumption DEF Compatible
  <2> QED BY <1>1, <1>2, <2>1, <2>2, <2>5
<1>4. CASE b \notin same
  <2>1. same # {} => Newest(same) \in same
    BY <1>1, NewestIsIn DEF SameInstance, OfInstance
  <2>2. b = r.bridge
    BY <1>4, <2>1 DEF ForSession
  <2> QED BY <1>1, <1>2, <2>2 DEF AtHome, Told
<1> QED BY <1>3, <1>4

\* What a firm target resolves to.
LEMMA PickFirm ==
  ASSUME TypeInv, NEW a, ~a.soft, Pick(a) # 0
  PROVE  /\ a.by = "bridge" => Pick(a) = a.val
         /\ a.by = "instance" => Pick(a) \in registered /\ Told(Pick(a)) = a.val
<1>0. registered \subseteq Bridges
  BY DEF TypeInv, TypeOK
<1>1. ASSUME a.by = "bridge" PROVE Pick(a) = a.val
  <2>1. CASE a.val \in registered
    <3>1. Newest({a.val}) = a.val
      BY <1>0, <2>1, NewestIsIn
    <3>2. {a.val} \cap registered = {a.val}
      BY <2>1
    <3> QED BY <1>1, <3>1, <3>2 DEF Pick
  <2>2. CASE a.val \notin registered
    <3>1. {a.val} \cap registered = {}
      BY <2>2
    <3> QED BY <1>1, <3>1 DEF Pick
  <2> QED BY <2>1, <2>2
<1>2. ASSUME a.by = "instance" PROVE Pick(a) \in registered /\ Told(Pick(a)) = a.val
  <2>1. OfInstance(a.val) # {} /\ Pick(a) = Newest(OfInstance(a.val))
    BY <1>2 DEF Pick
  <2>2. Newest(OfInstance(a.val)) \in OfInstance(a.val)
    BY <1>0, <2>1, NewestIsIn DEF OfInstance
  <2> QED BY <2>1, <2>2 DEF OfInstance
<1> QED BY <1>1, <1>2

\* Calls and records that a step leaves alone stay at home.
LEMMA HomeFrame ==
  ASSUME TypeInv, Grows, NEW c \in Calls, CallHome(c), pc'[c] = pc[c], env'[c] = env[c]
  PROVE  CallHome(c)'
<1>1. SessionOf(c) \in Sessions /\ env[c] \in Envs /\ CallInv(c)
  BY CallNames DEF TypeInv, TypeOK
<1>2. env[c].at # 0 => env[c].at \in Bridges /\ life[env[c].at] # "none"
  BY <1>1, EnvFields DEF CallInv
<1>3. pc[c] \in {"insert", "asked", "pick_aim", "send"} => env[c].at # 0
  BY <1>1 DEF CallInv, Holding
<1>4. env[c].saw # Nil => env[c].saw.bridge \in Bridges
  BY <1>1, EnvFields, RecordFields
<1>5. CASE Cmd(c) = "open"
  BY <1>2, <1>3, <1>5 DEF CallHome, Grows
<1>6. CASE Cmd(c) # "open"
  <2>1. pc[c] = "idle" \/ (Born(SessionOf(c)) /\ Born(SessionOf(c))' /\ birth'[SessionOf(c)] = birth[SessionOf(c)])
    BY <1>1, <1>6 DEF CallHome, Grows
  <2>2. CASE pc[c] = "idle"
    BY <1>6, <2>2 DEF CallHome
  <2>3. CASE pc[c] # "idle"
    BY <1>2, <1>3, <1>4, <1>6, <2>1, <2>3 DEF CallHome, AtHome, AimAtHome, Grows
  <2> QED BY <2>2, <2>3
<1> QED BY <1>5, <1>6

LEMMA RecordFrame ==
  ASSUME TypeInv, Grows, NEW x \in Sessions, RecordHome(x), records'[x] \in {records[x], Nil}
  PROVE  RecordHome(x)'
<1>1. records[x] # Nil => records[x].bridge \in Bridges
  BY RecordFields DEF TypeInv, TypeOK
<1> QED BY <1>1 DEF RecordHome, AtHome, Grows

LEMMA EndsHome ==
  ASSUME TypeInv, Grows, NEW c \in Calls, CallHome(c), NEW l, Ends(c, l),
         \/ Cmd(c) = "open" /\ l \notin {"insert", "asked"}
         \/ Cmd(c) # "open" /\ l \in {"done", "failed", "finish"} /\ Born(SessionOf(c))
  PROVE  CallHome(c)'
<1>1. env'[c] = NoEnv /\ pc'[c] = l /\ SessionOf(c) \in Sessions
  BY EndsFacts, CallNames
<1>2. NoEnv.aim.by = "session" /\ NoEnv.saw = Nil
  BY DEF NoEnv, OwnSession, Aim
<1>3. Born(SessionOf(c)) => Born(SessionOf(c))'
  BY <1>1 DEF Grows
<1>4. CASE Cmd(c) = "open"
  BY <1>1, <1>2, <1>4 DEF CallHome
<1>5. CASE Cmd(c) # "open"
  BY <1>1, <1>2, <1>3, <1>5 DEF CallHome
<1> QED BY <1>4, <1>5

LEMMA ReturnsHome ==
  ASSUME TypeInv, Grows, NEW c \in Calls, CallHome(c), Cmd(c) # "open", pc[c] # "idle",
         Returns(c) \/ Fails(c)
  PROVE  CallHome(c)'
<1>1. \E l \in {"done", "failed", "finish"} : Ends(c, l)
  BY DEF Returns, Fails
<1>2. Born(SessionOf(c))
  BY DEF CallHome
<1> QED BY <1>1, <1>2, EndsHome

LEMMA PickForSessionHome ==
  ASSUME TypeInv, HomeInv, Grows, NEW c \in Calls, Cmd(c) # "open", pc[c] # "idle",
         NEW l, PickForSession(c, l), env[c].saw # Nil,
         l = "pick_aim" \/ (l = "send" /\ env[c].aim.by = "session")
  PROVE  CallHome(c)' /\ \A x \in Sessions : RecordHome(x)'
<1> DEFINE x == SessionOf(c)
           b == ForSession(env[c].saw)
<1>1. /\ CallHome(c) /\ env[c] \in Envs /\ x \in Sessions /\ env[c].saw \in Records
      /\ \A y \in Sessions : RecordHome(y)
  BY CallNames, EnvFields DEF HomeInv, TypeInv, TypeOK
<1>2. Born(x) /\ AtHome(env[c].saw, x) /\ Born(x)' /\ birth'[x] = birth[x]
  BY <1>1 DEF CallHome, Grows
<1>3. CASE b = 0
  <2>1. Fails(c) /\ UNCHANGED sessions
    BY <1>3 DEF PickForSession
  <2> QED BY <1>1, <2>1, ReturnsHome, RecordFrame DEF sessions
<1>4. CASE b # 0
  <2>1. b \in registered /\ b \in Bridges /\ home[b] = birth[x] /\ Told(b) \in {Nil, Instance[birth[x]]}
    BY <1>1, <1>2, <1>4, ForSessionHome
  <2>2. life[b] # "none" /\ life'[b] # "none" /\ home'[b] = birth[x]
    BY <2>1 DEF TypeInv, BridgesInv, Grows
  <2>3. Resolved(c, b, l) /\ Refresh(x, b)
    BY <1>4 DEF PickForSession
  <2> HIDE DEF b
  <2>4. /\ pc'[c] = l /\ env'[c].saw = Nil /\ env'[c].at = b
        /\ env'[c].named \in {Nil, Told(b)} /\ env'[c].aim = env[c].aim
    BY <2>1, <2>3, ResolvedFacts
  <2>5. CallHome(c)'
    BY <1>1, <1>2, <2>1, <2>2, <2>4 DEF CallHome, AimAtHome
  <2>6. ASSUME NEW y \in Sessions PROVE RecordHome(y)'
    <3>1. CASE records'[y] = records[y]
      BY <1>1, <3>1, RecordFrame
    <3>2. CASE records'[y] # records[y]
      <4>1. y = x /\ records'[x] = Bound(b, Told(b))
        BY <1>1, <2>3, <3>2 DEF Refresh, sessions, TypeInv, TypeOK
      <4>2. records'[x].bridge = b /\ records'[x].instance = Told(b)
        BY <4>1 DEF Bound
      <4> QED BY <1>2, <2>1, <2>2, <4>1, <4>2 DEF RecordHome, AtHome
    <3> QED BY <3>1, <3>2
  <2> QED BY <2>5, <2>6
<1> QED BY <1>3, <1>4

\* A firm target that matches the session's own bridge names the session's home.
LEMMA MatchesHome ==
  ASSUME TypeInv, HomeInv, NEW c \in Calls, Cmd(c) # "open", pc[c] = "pick_aim",
         Pick(env[c].aim) # 0, Matches(env[c].at, env[c].named, Pick(env[c].aim))
  PROVE  AimAtHome(env[c].aim, SessionOf(c))
<1> DEFINE a == env[c].aim
           d == Pick(a)
           x == SessionOf(c)
<1>1. /\ env[c].at \in Bridges /\ a \in Aims /\ home[env[c].at] = birth[x]
      /\ env[c].named \in {Nil, Instance[birth[x]]}
  BY EnvFields DEF HomeInv, CallHome, TypeInv, TypeOK, CallInv, Holding
<1>2. d \in registered /\ d \in Bridges /\ life[d] # "none"
  BY PickIsRegistered DEF TypeInv, TypeOK, BridgesInv
<1>3. Told(d) # Nil => Told(d) = Instance[home[d]]
  BY DEF Told
<1>4. Instance[home[d]] = Instance[birth[x]]
  <2>1. CASE env[c].named # Nil /\ Told(d) # Nil
    BY <1>1, <1>3, <2>1 DEF Matches
  <2>2. CASE ~(env[c].named # Nil /\ Told(d) # Nil)
    <3>1. env[c].at = d
      BY <2>2 DEF Matches
    <3> QED BY <1>1, <3>1
  <2> QED BY <2>1, <2>2
<1>5. CASE a.soft
  BY <1>5 DEF AimAtHome
<1>6. CASE ~a.soft
  <2>1. a.by = "bridge" => d = a.val
    BY <1>6, PickFirm
  <2>2. a.by = "instance" => Told(d) = a.val /\ a.val # Nil
    BY <1>1, <1>6, PickFirm, InstanceAims, SessionsAssumption
  <2> QED BY <1>2, <1>3, <1>4, <2>1, <2>2 DEF AimAtHome
<1> QED BY <1>5, <1>6

LEMMA CallsStayHome ==
  ASSUME TypeInv, HomeInv, Grows, NEW c \in Calls, Cmd(c) # "open",
         \/ Bind(c) \/ PickOwn(c) \/ PickAim(c) \/ PickTarget(c) \/ Send(c) \/ Unregister(c)
         \/ ClearAndRetry(c) \/ Answered(c) \/ CloseReturns(c) \/ CallDropped(c)
  PROVE  CallHome(c)' /\ \A x \in Sessions : RecordHome(x)'
<1> USE DEF sessions
<1>0. /\ CallHome(c) /\ CallInv(c) /\ env[c] \in Envs /\ SessionOf(c) \in Sessions
      /\ pc \in [Calls -> Places] /\ registered \subseteq Bridges
      /\ records \in [Sessions -> Records \cup {Nil}]
      /\ \A x \in Sessions : RecordHome(x)
  BY CallNames DEF HomeInv, TypeInv, TypeOK, Places
<1>1. pc[c] \in Resolving /\ pc[c] # "idle"
  BY CallMoves DEF Resolving
<1>2. /\ Born(SessionOf(c)) /\ Born(SessionOf(c))'
      /\ birth'[SessionOf(c)] = birth[SessionOf(c)]
  BY <1>0, <1>1 DEF CallHome, Grows
<1>3. ASSUME UNCHANGED records PROVE \A x \in Sessions : RecordHome(x)'
  BY <1>0, <1>3, RecordFrame
<1>4. ASSUME Returns(c) \/ Fails(c) PROVE CallHome(c)'
  BY <1>0, <1>1, <1>4, ReturnsHome
<1>5. CASE Bind(c)
  <2>1. UNCHANGED records
    BY <1>5 DEF Bind
  <2>2. CASE Fails(c)
    BY <1>3, <1>4, <2>1, <2>2
  <2>3. CASE ~Fails(c)
    <3> DEFINE rec == records[SessionOf(c)]
    <3>1. /\ rec # Nil /\ rec \in Records /\ pc[c] \in {"bind_own", "bind"}
          /\ pc' = [pc EXCEPT ![c] = IF @ = "bind" THEN "pick" ELSE "pick_own"]
          /\ env' = [env EXCEPT ![c].saw = rec]
      BY <1>0, <1>5, <2>3 DEF Bind
    <3>2. env'[c] = [env[c] EXCEPT !.saw = rec]
      BY <3>1, FieldFacts
    <3>3. env'[c].saw = rec /\ env'[c].aim = env[c].aim
      BY <1>0, <3>2 DEF Envs
    <3>4. (pc'[c] = "pick" /\ env[c].aim.by = "session") \/ pc'[c] = "pick_own"
      BY <1>0, <3>1 DEF CallHome
    <3>5. rec.bridge \in Bridges /\ AtHome(rec, SessionOf(c))
      BY <1>0, <3>1, RecordFields DEF RecordHome
    <3>6. life'[rec.bridge] # "none" /\ home'[rec.bridge] = home[rec.bridge]
      BY <3>5 DEF AtHome, Grows
    <3>7. AtHome(env[c].saw, SessionOf(c))'
      BY <1>2, <3>3, <3>5, <3>6, <1>0 DEF AtHome
    <3>8. CallHome(c)'
      BY <1>0, <1>2, <3>3, <3>4, <3>7 DEF CallHome, AimAtHome
    <3> QED BY <1>3, <2>1, <3>8
  <2> QED BY <2>2, <2>3
<1>6. CASE PickOwn(c)
  BY <1>0, <1>1, <1>6, PickForSessionHome DEF PickOwn, CallInv
<1>7. CASE PickAim(c)
  <2>1. UNCHANGED records
    BY <1>7 DEF PickAim
  <2>2. CASE Fails(c)
    BY <1>3, <1>4, <2>1, <2>2
  <2>3. CASE ~Fails(c)
    <3>1. /\ pc[c] = "pick_aim" /\ pc' = [pc EXCEPT ![c] = "pick"]
          /\ env' = [env EXCEPT ![c].at = 0, ![c].named = Nil]
          /\ Pick(env[c].aim) # 0 /\ Matches(env[c].at, env[c].named, Pick(env[c].aim))
      BY <1>7, <2>3 DEF PickAim
    <3>2. env'[c] = [[env[c] EXCEPT !.at = 0] EXCEPT !.named = Nil]
      BY <3>1, FieldFacts
    <3>3. env'[c].saw = env[c].saw /\ env'[c].aim = env[c].aim /\ pc'[c] = "pick"
      <4>1. pc'[c] = "pick"
        BY <1>0, <3>1
      <4>2. env'[c].saw = env[c].saw /\ env'[c].aim = env[c].aim
        BY <1>0, <3>2 DEF Envs
      <4> QED BY <4>1, <4>2
    <3>4. AimAtHome(env[c].aim, SessionOf(c))
      BY <3>1, MatchesHome
    <3>5. env[c].saw # Nil => env[c].saw.bridge \in Bridges
      BY <1>0, EnvFields, RecordFields
    <3>6. CallHome(c)'
      BY <1>0, <1>1, <1>2, <3>3, <3>4, <3>5 DEF CallHome, AtHome, AimAtHome, Grows
    <3> QED BY <1>3, <2>1, <3>6
  <2> QED BY <2>2, <2>3
<1>8. CASE PickTarget(c)
  <2>1. CASE env[c].aim.by = "session"
    BY <1>0, <1>1, <1>8, <2>1, PickForSessionHome DEF PickTarget, CallInv
  <2>2. CASE env[c].aim.by # "session"
    <3> DEFINE b == Pick(env[c].aim)
    <3>1. /\ pc[c] = "pick" /\ UNCHANGED records
          /\ IF b = 0 THEN Fails(c) ELSE Resolved(c, b, "send")
      BY <1>8, <2>2 DEF PickTarget
    <3>2. CASE b = 0
      BY <1>3, <1>4, <3>1, <3>2
    <3>3. CASE b # 0
      <4>1. b \in registered /\ b \in Bridges /\ life[b] # "none"
        BY <1>0, <3>3, PickIsRegistered DEF TypeInv, BridgesInv
      <4>2. AimAtHome(env[c].aim, SessionOf(c)) /\ env[c].aim \in Aims
        BY <1>0, <3>1, EnvFields DEF CallHome
      <4>3. ~env[c].aim.soft =>
              /\ env[c].aim.by = "bridge" => b = env[c].aim.val
              /\ env[c].aim.by = "instance" => Told(b) = env[c].aim.val /\ env[c].aim.val # Nil
        BY <3>3, <4>2, PickFirm, InstanceAims, SessionsAssumption
      <4>4. Told(b) # Nil => Told(b) = Instance[home[b]]
        BY DEF Told
      <4>5. env[c].aim.by \in {"bridge", "instance"} /\ ~env[c].aim.soft
              => Instance[home[b]] = Instance[birth[SessionOf(c)]]
        BY <4>2, <4>3, <4>4 DEF AimAtHome
      <4> HIDE DEF b
      <4>6. /\ env'[c].saw = Nil /\ env'[c].at = b /\ env'[c].aim = env[c].aim /\ pc'[c] = "send"
        BY <3>1, <3>3, <4>1, ResolvedFacts
      <4>7. home'[b] = home[b]
        BY <4>1 DEF Grows
      <4>8. AimAtHome(env[c].aim, SessionOf(c))'
        BY <1>0, <1>2, <1>8, <4>2, <4>6 DEF AimAtHome, PickTarget, Grows
      <4>9. CallHome(c)'
        BY <1>0, <1>2, <2>2, <4>2, <4>5, <4>6, <4>7 DEF CallHome, AimAtHome, Grows
      <4> QED BY <1>3, <3>1, <4>9
    <3> QED BY <3>2, <3>3
  <2> QED BY <2>1, <2>2
<1>9. ASSUME NEW l \in {"await", "unregister", "mark"}, Goto(c, l), UNCHANGED records,
             pc[c] \in {"send", "unregister"}
      PROVE  CallHome(c)' /\ \A x \in Sessions : RecordHome(x)'
  <2>1. env' = env /\ pc'[c] = l
    BY <1>9, GotoFacts
  <2>2. env[c].saw # Nil => env[c].saw.bridge \in Bridges
    BY <1>0, EnvFields, RecordFields
  <2>3. AimAtHome(env[c].aim, SessionOf(c))
    BY <1>0, <1>9 DEF CallHome
  <2>4. CallHome(c)'
    BY <1>0, <1>1, <1>2, <1>9, <2>1, <2>2, <2>3 DEF CallHome, AtHome, AimAtHome, Grows
  <2> QED BY <1>3, <1>9, <2>4
<1>10. CASE Send(c)
  <2>1. UNCHANGED records /\ pc[c] = "send"
    BY <1>10 DEF Send
  <2>2. Returns(c) \/ Fails(c) \/ Goto(c, "await") \/ Goto(c, "unregister")
    BY <1>10 DEF Send
  <2> QED BY <1>3, <1>4, <1>9, <2>1, <2>2
<1>11. CASE Unregister(c)
  BY <1>9, <1>11 DEF Unregister
<1>12. CASE ClearAndRetry(c)
  <2>1. UNCHANGED records
    BY <1>12, MarkTypes DEF ClearAndRetry
  <2>2. CASE Fails(c)
    BY <1>3, <1>4, <2>1, <2>2
  <2>3. CASE ~Fails(c)
    <3>1. /\ pc[c] = "mark"
          /\ pc' = [pc EXCEPT ![c] = IF env[c].aim.by = "session" THEN "bind" ELSE "pick"]
          /\ env' = [env EXCEPT ![c].again = TRUE, ![c].at = 0]
      BY <1>12, <2>3 DEF ClearAndRetry
    <3>2. env'[c] = [[env[c] EXCEPT !.again = TRUE] EXCEPT !.at = 0]
      BY <3>1, FieldFacts
    <3>3. /\ env'[c].saw = env[c].saw /\ env'[c].aim = env[c].aim
          /\ pc'[c] = IF env[c].aim.by = "session" THEN "bind" ELSE "pick"
      <4>1. pc'[c] = IF env[c].aim.by = "session" THEN "bind" ELSE "pick"
        BY <1>0, <3>1
      <4>2. env'[c].saw = env[c].saw /\ env'[c].aim = env[c].aim
        BY <1>0, <3>2 DEF Envs
      <4> QED BY <4>1, <4>2
    <3>4. env[c].saw # Nil => env[c].saw.bridge \in Bridges
      BY <1>0, EnvFields, RecordFields
    <3>5. AimAtHome(env[c].aim, SessionOf(c))
      BY <1>0, <3>1 DEF CallHome
    <3>6. CallHome(c)'
      BY <1>0, <1>1, <1>2, <3>3, <3>4, <3>5 DEF CallHome, AtHome, AimAtHome, Grows
    <3> QED BY <1>3, <2>1, <3>6
  <2> QED BY <2>2, <2>3
<1>13. CASE Answered(c)
  BY <1>3, <1>4, <1>13 DEF Answered
<1>14. CASE CloseReturns(c)
  <2>1. CallHome(c)'
    BY <1>0, <1>2, <1>14, EndsHome DEF CloseReturns
  <2>2. \A y \in Sessions : records'[y] \in {records[y], Nil}
    BY <1>0, <1>14, RemoveTypes DEF CloseReturns
  <2> QED BY <1>0, <2>1, <2>2, RecordFrame
<1>15. CASE CallDropped(c)
  <2>1. CallHome(c)'
    BY <1>0, <1>2, <1>15, EndsHome DEF CallDropped
  <2> QED BY <1>3, <1>15, <2>1 DEF CallDropped
<1> QED BY <1>5, <1>6, <1>7, <1>8, <1>10, <1>11, <1>12, <1>13, <1>14, <1>15

LEMMA OpensStayHome ==
  ASSUME TypeInv, HomeInv, Grows, NEW x \in Sessions,
         \/ OpenBegins(x) \/ OpenPicks(x) \/ OpenChecks(x) \/ OpenInserts(x) \/ OpenRechecks(x)
         \/ OpenReturns(x) \/ OpenDropped(x)
  PROVE  HomeInv'
<1> USE DEF sessions
<1> DEFINE c == Open(x)
           n == Navigate(x)
<1>0. /\ c \in Calls /\ Cmd(c) = "open" /\ SessionOf(c) = x
      /\ n \in Calls /\ Cmd(n) = "navigate" /\ SessionOf(n) = x /\ n # c
      /\ CallInv(c) /\ env[c] \in Envs /\ env \in [Calls -> Envs] /\ registered \subseteq Bridges
      /\ pc \in [Calls -> Places] /\ CallHome(c) /\ CallHome(n)
      /\ \A y \in Sessions : RecordHome(y)
  BY CallNames DEF HomeInv, TypeInv, TypeOK, Places
<1> HIDE DEF c, n
<1>1. ASSUME NEW d \in Calls, d # c, d # n PROVE CallHome(d)'
  <2>1. CallHome(d)
    BY DEF HomeInv
  <2> QED BY <1>1, <2>1, OpenMoves, HomeFrame DEF c, n
<1>2. ASSUME ~OpenDropped(x), ~OpenRechecks(x) PROVE CallHome(n)'
  BY <1>0, <1>2, OpenMoves, HomeFrame DEF n
<1>3. ASSUME UNCHANGED records PROVE \A y \in Sessions : RecordHome(y)'
  BY <1>0, <1>3, RecordFrame
<1>4. CASE OpenBegins(x)
  <2>1. pc'[c] = "pick" /\ UNCHANGED records
    BY <1>0, <1>4 DEF OpenBegins, c
  <2>2. CallHome(c)'
    BY <1>0, <2>1 DEF CallHome
  <2> QED BY <1>1, <1>2, <1>3, <1>4, <2>1, <2>2 DEF HomeInv, OpenBegins, OpenDropped, OpenRechecks, Opening
<1>5. CASE OpenPicks(x)
  <2> DEFINE b == Pick(env[c].aim)
  <2>1. /\ pc[c] = "pick" /\ UNCHANGED records
        /\ IF b = 0 THEN Ends(c, "failed") ELSE Resolved(c, b, "asked")
    BY <1>5 DEF OpenPicks, c
  <2>2. b = 0 \/ b \in registered
    BY <1>0, PickIsRegistered
  <2>3. CallHome(c)'
    <3>1. CASE b = 0
      BY <1>0, <2>1, <3>1, EndsHome
    <3>2. CASE b # 0
      <4>1. b \in registered /\ b \in Bridges /\ life[b] # "none"
        BY <1>0, <2>2, <3>2 DEF TypeInv, BridgesInv
      <4>2. Told(b) \in {Nil, Instance[home[b]]}
        BY DEF Told
      <4> HIDE DEF b
      <4>3. env'[c].at = b /\ env'[c].named = Told(b) /\ home'[b] = home[b]
        BY <1>0, <2>1, <3>2, <4>1, ResolvedFacts DEF Grows
      <4> QED BY <1>0, <4>2, <4>3 DEF CallHome
    <3> QED BY <3>1, <3>2
  <2>4. CallHome(n)'
    <3>1. pc'[n] = pc[n] /\ env'[n] = env[n]
      <4>1. CASE b = 0
        BY <1>0, <2>1, <4>1, EndsFacts
      <4>2. CASE b # 0
        BY <1>0, <2>1, <2>2, <4>2, ResolvedFacts
      <4> QED BY <4>1, <4>2
    <3> QED BY <1>0, <3>1, HomeFrame
  <2> QED BY <1>1, <1>3, <2>1, <2>3, <2>4 DEF HomeInv
<1>6. CASE OpenChecks(x)
  <2>1. /\ pc[c] = "asked" /\ UNCHANGED records
        /\ Ends(c, "failed") \/ Goto(c, "insert")
    BY <1>6 DEF OpenChecks, c
  <2>2. CASE Ends(c, "failed")
    <3>1. pc'[n] = pc[n] /\ env'[n] = env[n]
      BY <1>0, <2>2, EndsFacts
    <3> QED BY <1>0, <1>1, <1>3, <2>1, <2>2, <3>1, EndsHome, HomeFrame DEF HomeInv
  <2>3. CASE Goto(c, "insert")
    <3>1. env' = env /\ pc'[c] = "insert" /\ pc'[n] = pc[n]
      BY <1>0, <2>3, GotoFacts
    <3>2. env[c].at \in Bridges /\ life[env[c].at] # "none"
      BY <1>0, <2>1, EnvFields DEF CallInv, Holding
    <3>3. CallHome(c)'
      BY <1>0, <2>1, <3>1, <3>2 DEF CallHome, Grows
    <3> QED BY <1>0, <1>1, <1>3, <2>1, <3>1, <3>3, HomeFrame DEF HomeInv
  <2> QED BY <2>1, <2>2, <2>3
<1>7. CASE OpenInserts(x)
  <2>1. /\ pc[c] = "insert" /\ Ends(c, "recheck") /\ UNCHANGED bridges
        /\ records' = [records EXCEPT ![x] = Bound(env[c].at, env[c].named)]
        /\ birth' = [birth EXCEPT ![x] = home[env[c].at]]
    BY <1>7 DEF OpenInserts, c
  <2>2. /\ env[c].at \in Bridges /\ life[env[c].at] # "none"
        /\ env[c].named \in {Nil, Instance[home[env[c].at]]}
    BY <1>0, <2>1, EnvFields DEF CallInv, CallHome, Holding
  <2>3. pc'[c] = "recheck" /\ pc'[n] = pc[n] /\ env'[n] = env[n]
    BY <1>0, <2>1, EndsFacts
  <2>4. /\ records'[x].bridge = env[c].at /\ records'[x].instance = env[c].named
        /\ birth'[x] = home[env[c].at]
    BY <2>1 DEF Bound, TypeInv, TypeOK
  <2>5. RecordHome(x)'
    <3>1. Born(x)'
      BY <2>3 DEF Born, c
    <3>2. AtHome(records[x], x)'
      BY <2>1, <2>2, <2>4 DEF AtHome, bridges
    <3> QED BY <3>1, <3>2 DEF RecordHome
  <2>6. ASSUME NEW y \in Sessions, y # x PROVE RecordHome(y)'
    <3>1. records'[y] = records[y]
      BY <2>1, <2>6 DEF TypeInv, TypeOK
    <3> QED BY <1>0, <3>1, RecordFrame
  <2>7. CallHome(c)' /\ CallHome(n)'
    BY <1>0, <2>1, <2>3, EndsHome, HomeFrame
  <2> QED BY <1>1, <2>5, <2>6, <2>7 DEF HomeInv
<1>8. CASE OpenRechecks(x)
  <2>1. UNCHANGED records /\ pc[c] = "recheck"
    BY <1>8 DEF OpenRechecks, c
  <2>2. CASE Ends(c, "failed") \/ Ends(c, "opened")
    <3>1. pc'[n] = pc[n] /\ env'[n] = env[n]
      BY <1>0, <2>2, EndsFacts
    <3> QED BY <1>0, <1>1, <1>3, <2>1, <2>2, <3>1, EndsHome, HomeFrame DEF HomeInv
  <2>3. CASE ~(Ends(c, "failed") \/ Ends(c, "opened"))
    <3>1. /\ pc' = [pc EXCEPT ![c] = "navigating", ![n] = "bind"]
          /\ env' = [env EXCEPT ![n].tag = Inherits(x)]
      BY <1>8, <2>3 DEF OpenRechecks, c, n
    <3>2. Inherits(x) \in Requests \cup {Nil}
      BY SessionsAssumption DEF Inherits
    <3>3. /\ env'[n] = [env[n] EXCEPT !.tag = Inherits(x)]
          /\ \A d \in Calls : d # n => env'[d] = env[d]
      BY <1>0, <3>1, <3>2, FieldFacts
    <3>4. env'[n].aim = env[n].aim /\ env'[n].saw = env[n].saw
      BY <1>0, <3>3 DEF Envs
    <3>5. pc'[c] = "navigating" /\ pc'[n] = "bind"
      BY <1>0, <3>1
    <3>6. Born(x) /\ Born(x)' /\ birth'[x] = birth[x]
      BY <2>1 DEF Born, c, Grows
    <3>7. env[n].saw # Nil => env[n].saw.bridge \in Bridges
      BY <1>0, EnvFields, RecordFields
    <3>8. CallHome(n)'
      BY <1>0, <3>4, <3>5, <3>6, <3>7 DEF CallHome, AtHome, Grows
    <3>9. CallHome(c)'
      BY <1>0, <3>5 DEF CallHome
    <3> QED BY <1>1, <1>3, <2>1, <3>8, <3>9 DEF HomeInv
  <2> QED BY <2>2, <2>3
<1>9. CASE OpenReturns(x)
  <2>1. UNCHANGED records /\ (Ends(c, "opened") \/ Ends(c, "failed"))
    BY <1>9 DEF OpenReturns, c
  <2>2. pc'[n] = pc[n] /\ env'[n] = env[n]
    BY <1>0, <2>1, EndsFacts
  <2> QED BY <1>0, <1>1, <1>3, <2>1, <2>2, EndsHome, HomeFrame DEF HomeInv
<1>10. CASE OpenDropped(x)
  <2>1. /\ pc' = [pc EXCEPT ![c] = "failed", ![n] = IF @ = "idle" THEN @ ELSE "failed"]
        /\ env' = [env EXCEPT ![c] = NoEnv, ![n] = NoEnv]
        /\ UNCHANGED records
    BY <1>10 DEF OpenDropped, c, n
  <2>2. /\ pc'[c] = "failed" /\ env'[n] = NoEnv
        /\ (pc'[n] = "idle" /\ pc[n] = "idle") \/ (pc'[n] = "failed" /\ pc[n] # "idle")
    BY <1>0, <2>1
  <2>3. NoEnv.aim.by = "session" /\ NoEnv.saw = Nil
    BY DEF NoEnv, OwnSession, Aim
  <2>4. pc[n] # "idle" => Born(x)'
    BY <1>0 DEF CallHome, Grows
  <2>5. CallHome(c)' /\ CallHome(n)'
    BY <1>0, <2>2, <2>3, <2>4 DEF CallHome
  <2> QED BY <1>1, <1>3, <2>1, <2>5 DEF HomeInv
<1> QED BY <1>4, <1>5, <1>6, <1>7, <1>8, <1>9, <1>10

\* A step or a close begins.
LEMMA BeginsAtHome ==
  ASSUME TypeInv, HomeInv, Grows, NEW c \in Calls, Cmd(c) \in {"step", "close"}, pc[c] = "idle",
         Born(SessionOf(c)), NEW a \in StepAims \cup CloseAims, NEW t \in Requests \cup {Nil},
         Begin(c, a, t)
  PROVE  CallHome(c)'
<1>1. a \in Aims /\ (a.by = "session" => a = OwnSession)
  BY GivenAims
<1>2. pc'[c] = FirstStage(a) /\ env'[c].aim = a /\ env'[c].saw = env[c].saw
  BY <1>1, BeginFacts
<1>3. CallHome(c) /\ SessionOf(c) \in Sessions
  BY CallNames DEF HomeInv
<1>4. env[c].saw = Nil /\ Born(SessionOf(c))'
  BY <1>3 DEF CallHome, Grows
<1> QED BY <1>1, <1>2, <1>4 DEF CallHome, FirstStage, AimAtHome, OwnSession, Aim

LEMMA HomeStep == TypeInv /\ HomeInv /\ [Next]_vars => HomeInv'
<1> SUFFICES ASSUME TypeInv, HomeInv, [Next]_vars PROVE HomeInv'
  OBVIOUS
<1> USE DEF sessions, calls
<1>0. Grows
  BY AlwaysGrows
<1>1. ASSUME UNCHANGED calls PROVE \A c \in Calls : CallHome(c)'
  BY <1>0, <1>1, HomeFrame DEF HomeInv
<1>2. ASSUME \A x \in Sessions : records'[x] \in {records[x], Nil}
      PROVE  \A x \in Sessions : RecordHome(x)'
  BY <1>0, <1>2, RecordFrame DEF HomeInv
<1>3. CASE UNCHANGED vars
  BY <1>1, <1>2, <1>3 DEF vars, HomeInv
<1>4. CASE BridgeStep
  <2>1. UNCHANGED calls /\ UNCHANGED records
    BY <1>4 DEF BridgeStep, Register, PingRecorded, Restart, Deafens, ConnectionEnds, SessionsMarked,
       MarkSessions
  <2> QED BY <1>1, <1>2, <2>1 DEF HomeInv
<1>5. CASE CallStep
  <2>1. PICK c \in Calls : \/ Bind(c) \/ PickOwn(c) \/ PickAim(c) \/ PickTarget(c) \/ Send(c)
                           \/ Unregister(c) \/ ClearAndRetry(c) \/ Answered(c) \/ CloseReturns(c)
                           \/ CallDropped(c)
    BY <1>5 DEF CallStep
  <2>2. Cmd(c) # "open"
    BY <2>1, OpenIsApart
  <2>3. CallHome(c)' /\ \A x \in Sessions : RecordHome(x)'
    BY <1>0, <2>1, <2>2, CallsStayHome
  <2>4. ASSUME NEW d \in Calls, d # c PROVE CallHome(d)'
    BY <1>0, <2>1, <2>2, <2>4, CallMoves, HomeFrame DEF HomeInv
  <2> QED BY <2>3, <2>4 DEF HomeInv
<1>6. CASE SessionStep
  <2>1. PICK x \in Sessions :
          \/ OpenBegins(x) \/ OpenPicks(x) \/ OpenChecks(x) \/ OpenInserts(x) \/ OpenRechecks(x)
          \/ OpenReturns(x) \/ OpenDropped(x) \/ OrphanSends(x) \/ OrphanRemoves(x)
          \/ CloseBegins(x) \/ Sweep(x)
    BY <1>6 DEF SessionStep
  <2>2. CASE \/ OpenBegins(x) \/ OpenPicks(x) \/ OpenChecks(x) \/ OpenInserts(x) \/ OpenRechecks(x)
             \/ OpenReturns(x) \/ OpenDropped(x)
    BY <1>0, <2>2, OpensStayHome
  <2>3. CASE OrphanSends(x)
    BY <1>1, <1>2, <2>3 DEF OrphanSends, HomeInv
  <2>4. CASE OrphanRemoves(x) \/ Sweep(x)
    <3>1. UNCHANGED calls /\ Remove(x)
      BY <2>4 DEF OrphanRemoves, Sweep
    <3>2. \A y \in Sessions : records'[y] \in {records[y], Nil}
      BY <3>1, RemoveTypes
    <3> QED BY <1>1, <1>2, <3>1, <3>2 DEF HomeInv
  <2>5. CASE CloseBegins(x)
    <3> DEFINE c == Close(x)
    <3>1. c \in Calls /\ Cmd(c) = "close" /\ SessionOf(c) = x
      BY CallNames
    <3>2. PICK a \in CloseAims : Begin(c, a, Nil)
      BY <2>5 DEF CloseBegins
    <3>3. pc[c] = "idle" /\ Born(x) /\ UNCHANGED records
      BY <2>5 DEF CloseBegins, Opened, Born
    <3> HIDE DEF c
    <3>4. CallHome(c)'
      BY <1>0, <3>1, <3>2, <3>3, BeginsAtHome
    <3>5. ASSUME NEW d \in Calls, d # c PROVE CallHome(d)'
      <4>1. pc'[d] = pc[d] /\ env'[d] = env[d]
        BY <3>1, <3>2, <3>5, BeginFacts, GivenAims
      <4> QED BY <1>0, <4>1, HomeFrame DEF HomeInv
    <3> QED BY <1>2, <3>3, <3>4, <3>5 DEF HomeInv
  <2> QED BY <2>1, <2>2, <2>3, <2>4, <2>5
<1>7. ASSUME NEW s \in Steps, StepBegins(s) PROVE HomeInv'
  <2> DEFINE c == <<"step", s>>
             t == IF StepRequest[s] # Nil THEN StepRequest[s] ELSE Inherits(StepSession[s])
  <2>1. /\ c \in Calls /\ Cmd(c) = "step" /\ SessionOf(c) = StepSession[s]
        /\ t \in Requests \cup {Nil} /\ CallHome(c)
    BY CallNames, SessionsAssumption DEF Inherits, HomeInv
  <2>2. /\ pc[c] = "idle" /\ UNCHANGED records /\ Born(StepSession[s])
        /\ Ends(c, "done") \/ \E a \in StepAims : Begin(c, a, t)
    BY <1>7 DEF StepBegins, Opened, Born
  <2> HIDE DEF c, t
  <2>3. CASE Ends(c, "done")
    <3>1. ASSUME NEW d \in Calls, d # c PROVE CallHome(d)'
      BY <1>0, <2>1, <2>3, <3>1, EndsFacts, HomeFrame DEF HomeInv
    <3> QED BY <1>0, <1>2, <2>1, <2>2, <2>3, <3>1, EndsHome DEF HomeInv
  <2>4. ASSUME NEW a \in StepAims, Begin(c, a, t) PROVE HomeInv'
    <3>1. CallHome(c)'
      BY <1>0, <2>1, <2>2, <2>4, BeginsAtHome
    <3>2. ASSUME NEW d \in Calls, d # c PROVE CallHome(d)'
      <4>1. pc'[d] = pc[d] /\ env'[d] = env[d]
        BY <2>1, <2>4, <3>2, BeginFacts, GivenAims
      <4> QED BY <1>0, <4>1, HomeFrame DEF HomeInv
    <3> QED BY <1>2, <2>2, <3>1, <3>2 DEF HomeInv
  <2> QED BY <2>2, <2>3, <2>4
<1>8. ASSUME NEW r \in Requests, CancelMarks(r) PROVE HomeInv'
  BY <1>1, <1>2, <1>8 DEF CancelMarks, HomeInv
<1>9. ASSUME NEW r \in Requests, CancelScans(r) PROVE HomeInv'
  <2>1. UNCHANGED records /\ UNCHANGED env
    BY <1>9 DEF CancelScans
  <2>2. ASSUME NEW c \in Calls PROVE CallHome(c)'
    <3>1. CASE pc'[c] = pc[c]
      BY <1>0, <2>1, <3>1, HomeFrame DEF HomeInv
    <3>2. CASE pc'[c] # pc[c]
      <4>1. /\ Cmd(c) = "closer" /\ records[SessionOf(c)] # Nil /\ pc'[c] = "bind"
            /\ SessionOf(c) \in Sessions
        BY <1>9, <3>2, CallNames DEF CancelScans
      <4>2. Born(SessionOf(c)) /\ Born(SessionOf(c))' /\ birth'[SessionOf(c)] = birth[SessionOf(c)]
        BY <1>0, <4>1 DEF HomeInv, RecordHome, Grows
      <4>3. CallHome(c) /\ (env[c].saw # Nil => env[c].saw.bridge \in Bridges)
        BY EnvFields, RecordFields DEF HomeInv, TypeInv, TypeOK
      <4> QED BY <1>0, <2>1, <4>1, <4>2, <4>3 DEF CallHome, AtHome, Grows
    <3> QED BY <3>1, <3>2
  <2> QED BY <1>2, <2>1, <2>2 DEF HomeInv
<1> QED BY <1>3, <1>4, <1>5, <1>6, <1>7, <1>8, <1>9 DEF Next

LEMMA HomeInit == Init => HomeInv
  BY DEF Init, HomeInv, CallHome, RecordHome, NoEnv, OwnSession, Aim

\* What is sent for a session reaches the browser it was opened on.
THEOREM StepsStayHomeHolds == Spec => StepsStayHome
<1>1. TypeInv /\ HomeInv /\ [Next]_vars
      => [\A c \in Calls :
            Sent(c) => LET h == home[env[c].at]
                           own == birth[SessionOf(c)]
                           a == env[c].aim
                       IN /\ a.by = "session" => h = own
                          /\ a.by \in {"bridge", "instance"} /\ ~a.soft
                               => Instance[h] = Instance[own]]_vars
  <2> SUFFICES ASSUME TypeInv, HomeInv, NEW c \in Calls, Sent(c)
               PROVE  /\ env[c].aim.by = "session" => home[env[c].at] = birth[SessionOf(c)]
                      /\ env[c].aim.by \in {"bridge", "instance"} /\ ~env[c].aim.soft
                           => Instance[home[env[c].at]] = Instance[birth[SessionOf(c)]]
    OBVIOUS
  <2>1. pc[c] = "send" /\ Cmd(c) # "open"
    BY DEF Sent, TypeInv, CallInv, Opening
  <2> QED BY <2>1 DEF HomeInv, CallHome
<1> QED BY <1>1, TypeInit, TypeStep, HomeInit, HomeStep, PTL DEF Spec, StepsStayHome

----------------------------------------------------------------------------
(* A session whose bridge has gone is marked.                               *)

LostInv == LostIsMarked /\ \A x \in rebound : Born(x)

LEMMA LostFrame ==
  ASSUME TypeInv, LostInv, Grows, UNCHANGED <<life, marking, records, rebound>>, lost \subseteq lost'
  PROVE  LostInv'
  BY DEF LostInv, LostIsMarked, Grows, TypeInv, TypeOK

LEMMA LostRemoved ==
  ASSUME TypeInv, LostInv, Grows, UNCHANGED <<life, marking>>, NEW x \in Sessions, Remove(x)
  PROVE  LostInv'
<1>1. /\ \A y \in Sessions : y # x => records'[y] = records[y]
      /\ lost' = lost \ {x} /\ rebound' = rebound \ {x} /\ rebound \subseteq Sessions
  BY RemoveTypes DEF TypeInv, TypeOK
<1> QED BY <1>1 DEF LostInv, LostIsMarked, Grows

\* A session follows a registered bridge only.
LEMMA LostRefreshed ==
  ASSUME TypeInv, HomeInv, LostInv, Grows, UNCHANGED <<life, marking>>, NEW x \in Sessions,
         NEW b \in registered, Refresh(x, b)
  PROVE  LostInv'
<1>1. CASE records[x] = Nil
  BY <1>1, LostFrame DEF Refresh, sessions
<1>2. CASE records[x] # Nil
  <2>1. /\ records' = [records EXCEPT ![x] = Bound(b, Told(b))]
        /\ lost' = lost \ {x} /\ rebound' = rebound \cup {x}
        /\ b \in Bridges /\ life[b] # "gone" /\ rebound \subseteq Sessions
    BY <1>2 DEF Refresh, TypeInv, TypeOK, BridgesInv
  <2>2. Bound(b, Told(b)).bridge = b
    BY DEF Bound
  <2>3. /\ records'[x] = Bound(b, Told(b))
        /\ \A y \in Sessions : y # x => records'[y] = records[y]
    BY <2>1 DEF TypeInv, TypeOK
  <2>4. Born(x)
    BY <1>2 DEF HomeInv, RecordHome
  <2> QED BY <2>1, <2>2, <2>3, <2>4 DEF LostInv, LostIsMarked, Grows
<1> QED BY <1>1, <1>2

LEMMA LostStep == TypeInv /\ HomeInv /\ LostInv /\ [Next]_vars => LostInv'
<1> SUFFICES ASSUME TypeInv, HomeInv, LostInv, [Next]_vars PROVE LostInv'
  OBVIOUS
<1> USE DEF bridges, sessions, history
<1>0. Grows
  BY AlwaysGrows
<1>1. CASE UNCHANGED vars
  BY <1>0, <1>1, LostFrame DEF vars
<1>2. CASE BridgeStep
  <2>1. PICK b \in Bridges : \/ Register(b) \/ PingRecorded(b) \/ Restart(b) \/ Deafens(b)
                             \/ ConnectionEnds(b) \/ SessionsMarked(b)
    BY <1>2 DEF BridgeStep
  <2>2. UNCHANGED rebound /\ records' = records /\ \A x \in rebound : x \in Sessions /\ Born(x)'
    BY <1>0, <2>1, MarkTypes DEF Register, PingRecorded, Restart, Deafens, ConnectionEnds, SessionsMarked,
       LostInv, Grows, TypeInv, TypeOK
  <2>3. \A x \in rebound : records[x] # Nil => records[x].bridge \in Bridges
    BY RecordFields DEF TypeInv, TypeOK
  <2>4. CASE Register(b) \/ Deafens(b)
    BY <2>2, <2>3, <2>4 DEF Register, Deafens, LostInv, LostIsMarked, TypeInv, TypeOK
  <2>5. CASE PingRecorded(b)
    BY <1>0, <2>5, LostFrame DEF PingRecorded
  <2>6. CASE Restart(b) \/ ConnectionEnds(b)
    BY <2>2, <2>3, <2>6 DEF Restart, ConnectionEnds, LostInv, LostIsMarked, TypeInv, TypeOK
  <2>7. CASE SessionsMarked(b)
    BY <2>2, <2>7 DEF SessionsMarked, MarkSessions, LostInv, LostIsMarked, TypeInv, TypeOK
  <2> QED BY <2>1, <2>4, <2>5, <2>6, <2>7
<1>3. CASE CallStep
  <2>1. PICK c \in Calls : \/ Bind(c) \/ PickOwn(c) \/ PickAim(c) \/ PickTarget(c) \/ Send(c)
                           \/ Unregister(c) \/ ClearAndRetry(c) \/ Answered(c) \/ CloseReturns(c)
                           \/ CallDropped(c)
    BY <1>3 DEF CallStep
  <2>2. SessionOf(c) \in Sessions /\ registered \subseteq Bridges
    BY CallNames DEF TypeInv, TypeOK
  <2>3. ASSUME NEW l, PickForSession(c, l) PROVE LostInv'
    <3> DEFINE b == ForSession(env[c].saw)
    <3>1. b = 0 \/ b \in registered
      BY <2>2, ForSessionIsRegistered
    <3>2. CASE b = 0
      BY <1>0, <2>3, <3>2, LostFrame DEF PickForSession
    <3>3. CASE b # 0
      BY <1>0, <2>2, <2>3, <3>1, <3>3, LostRefreshed DEF PickForSession
    <3> QED BY <3>2, <3>3
  <2>4. CASE Bind(c) \/ PickAim(c) \/ Send(c) \/ Unregister(c) \/ Answered(c) \/ CallDropped(c)
    BY <1>0, <2>4, LostFrame DEF Bind, PickAim, Send, Unregister, Answered, CallDropped
  <2>5. CASE PickOwn(c)
    BY <2>3, <2>5 DEF PickOwn
  <2>6. CASE PickTarget(c)
    <3>1. CASE PickForSession(c, "send")
      BY <2>3, <3>1
    <3>2. CASE ~PickForSession(c, "send")
      BY <1>0, <2>6, <3>2, LostFrame DEF PickTarget
    <3> QED BY <3>1, <3>2
  <2>7. CASE ClearAndRetry(c)
    BY <1>0, <2>7, LostFrame DEF ClearAndRetry, MarkSessions
  <2>8. CASE CloseReturns(c)
    BY <1>0, <2>2, <2>8, LostRemoved DEF CloseReturns
  <2> QED BY <2>1, <2>4, <2>5, <2>6, <2>7, <2>8
<1>4. CASE SessionStep
  <2>1. PICK x \in Sessions :
          \/ OpenBegins(x) \/ OpenPicks(x) \/ OpenChecks(x) \/ OpenInserts(x) \/ OpenRechecks(x)
          \/ OpenReturns(x) \/ OpenDropped(x) \/ OrphanSends(x) \/ OrphanRemoves(x)
          \/ CloseBegins(x) \/ Sweep(x)
    BY <1>4 DEF SessionStep
  <2>2. CASE \/ OpenBegins(x) \/ OpenPicks(x) \/ OpenChecks(x) \/ OpenRechecks(x)
             \/ OpenReturns(x) \/ OpenDropped(x) \/ OrphanSends(x) \/ CloseBegins(x)
    BY <1>0, <2>2, LostFrame DEF OpenBegins, OpenPicks, OpenChecks, OpenRechecks, OpenReturns, OpenDropped,
       OrphanSends, CloseBegins
  <2>3. CASE OpenInserts(x)
    <3>1. x \notin rebound
      BY <2>3 DEF OpenInserts, LostInv, Born
    <3>2. /\ UNCHANGED <<life, marking, lost, rebound>>
          /\ \A y \in Sessions : y # x => records'[y] = records[y]
      BY <2>3 DEF OpenInserts, TypeInv, TypeOK
    <3> QED BY <1>0, <3>1, <3>2 DEF LostInv, LostIsMarked, Grows, TypeInv, TypeOK
  <2>4. CASE OrphanRemoves(x) \/ Sweep(x)
    BY <1>0, <2>4, LostRemoved DEF OrphanRemoves, Sweep
  <2> QED BY <2>1, <2>2, <2>3, <2>4
<1>5. ASSUME NEW s \in Steps, StepBegins(s) PROVE LostInv'
  BY <1>0, <1>5, LostFrame DEF StepBegins
<1>6. ASSUME NEW r \in Requests, CancelMarks(r) \/ CancelScans(r) PROVE LostInv'
  BY <1>0, <1>6, LostFrame DEF CancelMarks, CancelScans
<1> QED BY <1>1, <1>2, <1>3, <1>4, <1>5, <1>6 DEF Next

\* A session is marked when its bridge has gone, whoever cleared it.
THEOREM LostIsMarkedHolds == Spec => []LostIsMarked
<1>1. Init => LostInv
  BY DEF Init, LostInv, LostIsMarked
<1>2. LostInv => LostIsMarked
  BY DEF LostInv
<1> QED BY <1>1, <1>2, TypeInit, TypeStep, HomeInit, HomeStep, LostStep, PTL DEF Spec

----------------------------------------------------------------------------
(* Cancellation.                                                            *)

\* A record is there since its open inserted it, and does not come back.
LEMMA RecordsMove ==
  ASSUME TypeInv, [Next]_vars, NEW x \in Sessions, records[x] = Nil, ~OpenInserts(x)
  PROVE  records'[x] = Nil
<1> USE DEF sessions
<1>1. CASE UNCHANGED vars
  BY <1>1 DEF vars
<1>2. CASE BridgeStep
  BY <1>2 DEF BridgeStep, Register, PingRecorded, Restart, Deafens, ConnectionEnds, SessionsMarked,
     MarkSessions
<1>3. ASSUME NEW y \in Sessions, NEW b, Refresh(y, b) PROVE records'[x] = Nil
  BY <1>3 DEF Refresh, TypeInv, TypeOK
<1>4. ASSUME NEW y \in Sessions, Remove(y) PROVE records'[x] = Nil
  BY <1>4, RemoveTypes
<1>5. ASSUME NEW c \in Calls, NEW l, PickForSession(c, l) PROVE records'[x] = Nil
  <2>1. SessionOf(c) \in Sessions
    BY CallNames
  <2>2. records' = records \/ Refresh(SessionOf(c), ForSession(env[c].saw))
    BY <1>5 DEF PickForSession
  <2> QED BY <1>3, <2>1, <2>2
<1>6. CASE CallStep
  <2>1. PICK c \in Calls : \/ Bind(c) \/ PickOwn(c) \/ PickAim(c) \/ PickTarget(c) \/ Send(c)
                           \/ Unregister(c) \/ ClearAndRetry(c) \/ Answered(c) \/ CloseReturns(c)
                           \/ CallDropped(c)
    BY <1>6 DEF CallStep
  <2>2. CASE PickOwn(c) \/ PickTarget(c)
    BY <1>5, <2>2 DEF PickOwn, PickTarget
  <2>3. CASE CloseReturns(c)
    BY <1>4, <2>3, CallNames DEF CloseReturns
  <2>4. CASE \/ Bind(c) \/ PickAim(c) \/ Send(c) \/ Unregister(c) \/ ClearAndRetry(c) \/ Answered(c)
             \/ CallDropped(c)
    BY <2>4 DEF Bind, PickAim, Send, Unregister, ClearAndRetry, MarkSessions, Answered, CallDropped
  <2> QED BY <2>1, <2>2, <2>3, <2>4
<1>7. CASE SessionStep
  <2>1. PICK y \in Sessions :
          \/ OpenBegins(y) \/ OpenPicks(y) \/ OpenChecks(y) \/ OpenInserts(y) \/ OpenRechecks(y)
          \/ OpenReturns(y) \/ OpenDropped(y) \/ OrphanSends(y) \/ OrphanRemoves(y)
          \/ CloseBegins(y) \/ Sweep(y)
    BY <1>7 DEF SessionStep
  <2>2. CASE OrphanRemoves(y) \/ Sweep(y)
    BY <1>4, <2>2 DEF OrphanRemoves, Sweep
  <2>3. CASE OpenInserts(y)
    BY <2>3 DEF OpenInserts, TypeInv, TypeOK
  <2>4. CASE \/ OpenBegins(y) \/ OpenPicks(y) \/ OpenChecks(y) \/ OpenRechecks(y)
             \/ OpenReturns(y) \/ OpenDropped(y) \/ OrphanSends(y) \/ CloseBegins(y)
    BY <2>4 DEF OpenBegins, OpenPicks, OpenChecks, OpenRechecks, OpenReturns, OpenDropped,
       OrphanSends, CloseBegins
  <2> QED BY <2>1, <2>2, <2>3, <2>4
<1>8. ASSUME NEW s \in Steps, StepBegins(s) PROVE records'[x] = Nil
  BY <1>8 DEF StepBegins
<1>9. ASSUME NEW r \in Requests, CancelMarks(r) \/ CancelScans(r) PROVE records'[x] = Nil
  BY <1>9 DEF CancelMarks, CancelScans
<1> QED BY <1>1, <1>2, <1>6, <1>7, <1>8, <1>9 DEF Next

\* Something is still to remove the record of a cancelled session.
Removing(x) ==
  \/ pc[Closer(x)] \in Resolving
  \/ orphan[x] \in {"queue", "remove", "refused"}
  \/ pc[Open(x)] = "recheck"
Cancelled(x) == Request[x] # Nil /\ cancel[Request[x]] = "scanned" /\ records[x] # Nil
RemovedInv == \A x \in Sessions : Cancelled(x) => Removing(x)

\* The close of a cancellation cannot be dropped: it goes on until the record has gone.
LEMMA CloserGoesOn ==
  ASSUME TypeInv, NEW x \in Sessions, NEW c \in Calls, c = Closer(x),
         \/ Bind(c) \/ PickOwn(c) \/ PickAim(c) \/ PickTarget(c) \/ Send(c) \/ Unregister(c)
         \/ ClearAndRetry(c) \/ Answered(c) \/ CloseReturns(c) \/ CallDropped(c)
  PROVE  pc'[c] \in Resolving \/ records'[x] = Nil
<1>1. Cmd(c) = "closer" /\ SessionOf(c) = x /\ Closing(c)
  BY CallNames DEF Closing
<1>2. pc \in [Calls -> Places]
  BY DEF TypeInv, TypeOK, Places
<1>3. ASSUME NEW l \in Resolving, Goto(c, l) PROVE pc'[c] \in Resolving
  BY <1>2, <1>3 DEF Goto
<1>4. ASSUME Returns(c) \/ Fails(c) PROVE pc'[c] \in Resolving
  BY <1>1, <1>2, <1>4 DEF Returns, Fails, Ends, Resolving
<1>5. ASSUME NEW b, NEW l \in Resolving, Resolved(c, b, l) PROVE pc'[c] \in Resolving
  BY <1>2, <1>5 DEF Resolved
<1>6. CASE CloseReturns(c)
  BY <1>1, <1>6, RemoveTypes DEF CloseReturns
<1>7. CASE CallDropped(c)
  BY <1>1, <1>7 DEF CallDropped
<1>8. CASE Bind(c)
  BY <1>2, <1>4, <1>8 DEF Bind, Resolving
<1>9. CASE PickOwn(c)
  BY <1>4, <1>5, <1>9 DEF PickOwn, PickForSession, Resolving
<1>10. CASE PickAim(c)
  BY <1>2, <1>4, <1>10 DEF PickAim, Resolving
<1>11. CASE PickTarget(c)
  BY <1>4, <1>5, <1>11 DEF PickTarget, PickForSession, Resolving
<1>12. CASE Send(c)
  BY <1>3, <1>4, <1>12 DEF Send, Resolving
<1>13. CASE Unregister(c)
  BY <1>3, <1>13 DEF Unregister, Resolving
<1>14. CASE ClearAndRetry(c)
  BY <1>2, <1>4, <1>14 DEF ClearAndRetry, Resolving
<1>15. CASE Answered(c)
  BY <1>4, <1>15 DEF Answered
<1> QED BY <1>6, <1>7, <1>8, <1>9, <1>10, <1>11, <1>12, <1>13, <1>14, <1>15

LEMMA RemovedStep == TypeInv /\ RemovedInv /\ [Next]_vars => RemovedInv'
<1> SUFFICES ASSUME TypeInv, RemovedInv, [Next]_vars, NEW x \in Sessions, Cancelled(x)'
             PROVE  Removing(x)'
  BY DEF RemovedInv
<1> USE DEF bridges, sessions, calls, guards, history
<1>0. /\ Open(x) \in Calls /\ Closer(x) \in Calls /\ Cmd(Closer(x)) = "closer" /\ Cmd(Open(x)) = "open"
      /\ SessionOf(Closer(x)) = x /\ Request[x] \in Requests /\ pc \in [Calls -> Places]
      /\ orphan \in [Sessions -> {"no", "queue", "remove", "removed", "refused"}]
  BY CallNames, SessionsAssumption DEF Cancelled, TypeInv, TypeOK, Places
<1>1. CASE OpenInserts(x)
  BY <1>0, <1>1 DEF OpenInserts, Ends, Removing
<1>2. CASE \E r \in Requests : CancelScans(r) /\ Request[x] = r
  <2>1. PICK r \in Requests : CancelScans(r) /\ Request[x] = r
    BY <1>2
  <2>2. records[x] # Nil
    BY <2>1 DEF CancelScans, Cancelled
  <2>3. pc'[Closer(x)] = "bind"
    BY <1>0, <2>1, <2>2 DEF CancelScans
  <2> QED BY <2>3 DEF Removing, Resolving
<1>3. CASE ~OpenInserts(x) /\ ~\E r \in Requests : CancelScans(r) /\ Request[x] = r
  <2>1. Cancelled(x)
    <3>1. records[x] # Nil
      BY <1>3, RecordsMove DEF Cancelled
    <3>2. cancel[Request[x]] = "scanned"
      <4>1. \/ UNCHANGED cancel
            \/ \E r \in Requests : CancelMarks(r) \/ CancelScans(r)
        <5>1. CASE UNCHANGED vars \/ BridgeStep \/ \E s \in Steps : StepBegins(s)
          BY <5>1 DEF vars, BridgeStep, Register, PingRecorded, Restart, Deafens, ConnectionEnds,
             SessionsMarked, StepBegins
        <5>2. CASE CallStep
          BY <5>2, OpenIsApart, CallMoves DEF CallStep
        <5>3. CASE SessionStep
          BY <5>3 DEF SessionStep, OpenBegins, OpenPicks, OpenChecks, OpenInserts, OpenRechecks,
             OpenReturns, OpenDropped, OrphanSends, OrphanRemoves, CloseBegins, Sweep
        <5> QED BY <5>1, <5>2, <5>3 DEF Next
      <4> QED BY <1>0, <1>3, <4>1 DEF Cancelled, CancelMarks, CancelScans, TypeInv, TypeOK
    <3> QED BY <3>1, <3>2 DEF Cancelled
  <2>2. Removing(x)
    BY <2>1 DEF RemovedInv
  <2>3. ASSUME pc'[Closer(x)] = pc[Closer(x)], pc'[Open(x)] = pc[Open(x)],
               orphan'[x] = orphan[x] \/ orphan'[x] \in {"queue", "remove", "refused"}
        PROVE  Removing(x)'
    BY <2>2, <2>3 DEF Removing
  <2>4. CASE UNCHANGED vars
    BY <2>3, <2>4 DEF vars
  <2>5. CASE BridgeStep
    BY <2>3, <2>5 DEF BridgeStep, Register, PingRecorded, Restart, Deafens, ConnectionEnds, SessionsMarked
  <2>6. CASE CallStep
    <3>1. PICK c \in Calls : \/ Bind(c) \/ PickOwn(c) \/ PickAim(c) \/ PickTarget(c) \/ Send(c)
                             \/ Unregister(c) \/ ClearAndRetry(c) \/ Answered(c) \/ CloseReturns(c)
                             \/ CallDropped(c)
      BY <2>6 DEF CallStep
    <3>2. Cmd(c) # "open" /\ Open(x) # c
      BY <1>0, <3>1, OpenIsApart
    <3>3. CASE c = Closer(x)
      <4>1. pc'[Closer(x)] \in Resolving
        BY <3>1, <3>3, CloserGoesOn DEF Cancelled
      <4> QED BY <4>1 DEF Removing
    <3>4. CASE c # Closer(x)
      <4>1. pc'[Closer(x)] = pc[Closer(x)] /\ pc'[Open(x)] = pc[Open(x)]
        BY <1>0, <3>1, <3>2, <3>4, CallMoves
      <4>2. orphan' = orphan \/ (SessionOf(c) \in Sessions /\ DropGuard(SessionOf(c)))
        BY <3>1, CallNames DEF Bind, PickOwn, PickForSession, PickAim, PickTarget, Send, Unregister,
           ClearAndRetry, Answered, CloseReturns, CallDropped
      <4>3. orphan'[x] = orphan[x] \/ orphan'[x] \in {"queue", "remove"}
        BY <1>0, <4>2 DEF DropGuard
      <4> QED BY <2>3, <4>1, <4>3
    <3> QED BY <3>3, <3>4
  <2>7. ASSUME NEW y \in Sessions,
               \/ OpenBegins(y) \/ OpenPicks(y) \/ OpenChecks(y) \/ OpenInserts(y) \/ OpenRechecks(y)
               \/ OpenReturns(y) \/ OpenDropped(y)
        PROVE  Removing(x)'
    <3>1. Closer(x) \notin {Open(y), Navigate(y)} /\ (y # x => Open(x) \notin {Open(y), Navigate(y)})
      BY DEF Open, Navigate, Closer
    <3>2. pc'[Closer(x)] = pc[Closer(x)] /\ (y # x => pc'[Open(x)] = pc[Open(x)])
      BY <1>0, <2>7, <3>1, OpenMoves
    <3>3. orphan'[x] = orphan[x] \/ orphan'[x] \in {"queue", "remove"}
      BY <1>0, <2>7 DEF OpenBegins, OpenPicks, OpenChecks, OpenInserts, OpenRechecks, OpenReturns,
         OpenDropped, DropGuard, Disarm
    <3>4. CASE y = x /\ pc[Open(x)] = "recheck"
      <4>1. OpenRechecks(x) \/ OpenDropped(x)
        BY <2>7, <3>4 DEF OpenBegins, OpenPicks, OpenChecks, OpenInserts, OpenReturns
      <4>2. Marked(Request[x])
        BY <2>1 DEF Cancelled, Marked
      <4>3. DropGuard(x)
        BY <3>4, <4>1, <4>2 DEF OpenRechecks, OpenDropped
      <4>4. orphan'[x] \in {"queue", "remove"}
        BY <1>0, <4>3 DEF DropGuard
      <4> QED BY <4>4 DEF Removing
    <3>5. CASE ~(y = x /\ pc[Open(x)] = "recheck")
      BY <2>2, <3>2, <3>3, <3>5 DEF Removing
    <3> QED BY <3>4, <3>5
  <2>8. ASSUME NEW y \in Sessions, OrphanSends(y) PROVE Removing(x)'
    BY <1>0, <2>3, <2>8 DEF OrphanSends
  <2>9. ASSUME NEW y \in Sessions, OrphanRemoves(y) \/ Sweep(y) PROVE Removing(x)'
    <3>1. y # x
      BY <2>9, RemoveTypes DEF OrphanRemoves, Sweep, Cancelled
    <3> QED BY <1>0, <2>3, <2>9, <3>1 DEF OrphanRemoves, Sweep
  <2>10. ASSUME NEW y \in Sessions, CloseBegins(y) PROVE Removing(x)'
    <3>1. Closer(x) # Close(y) /\ Open(x) # Close(y)
      BY DEF Open, Close, Closer
    <3> QED BY <1>0, <2>3, <2>10, <3>1 DEF CloseBegins, Begin
  <2>11. ASSUME NEW s \in Steps, StepBegins(s) PROVE Removing(x)'
    <3>1. Closer(x) # <<"step", s>> /\ Open(x) # <<"step", s>>
      BY DEF Open, Closer
    <3> QED BY <1>0, <2>3, <2>11, <3>1 DEF StepBegins, Begin, Ends
  <2>12. ASSUME NEW r \in Requests, CancelMarks(r) \/ CancelScans(r) PROVE Removing(x)'
    <3>1. pc'[Open(x)] = pc[Open(x)] /\ orphan' = orphan
      BY <1>0, <2>12 DEF CancelMarks, CancelScans
    <3>2. pc'[Closer(x)] = pc[Closer(x)] \/ pc'[Closer(x)] = "bind"
      BY <1>0, <2>12 DEF CancelMarks, CancelScans
    <3> QED BY <2>2, <3>1, <3>2 DEF Removing, Resolving
  <2> QED BY <2>4, <2>5, <2>6, <2>7, <2>8, <2>9, <2>10, <2>11, <2>12 DEF Next, SessionStep
<1> QED BY <1>1, <1>2, <1>3

\* A cancelled opener leaves no session behind.
THEOREM CancelledLeavesNoSessionHolds == Spec => []CancelledLeavesNoSession
<1>1. Init => RemovedInv
  BY SessionsAssumption DEF Init, RemovedInv, Cancelled
<1>2. TypeInv /\ RemovedInv => CancelledLeavesNoSession
  <2> SUFFICES ASSUME TypeInv, RemovedInv, NEW x \in Sessions, Request[x] # Nil, Settled(x),
                      orphan[x] # "refused", records[x] # Nil
               PROVE  FALSE
    BY DEF CancelledLeavesNoSession
  <2>1. Removing(x)
    BY DEF RemovedInv, Cancelled, Settled
  <2>2. /\ Open(x) \in Calls /\ Closer(x) \in Calls
        /\ SessionOf(Open(x)) = x /\ SessionOf(Closer(x)) = x
    BY CallNames
  <2> QED BY <2>1, <2>2 DEF Removing, Settled, Quiet, Opening
<1> QED BY <1>1, <1>2, TypeInit, TypeStep, RemovedStep, PTL DEF Spec

\* The calls that are to be quiet once their session is cancelled.
Obliged(c) ==
  /\ Cmd(c) \in {"navigate", "step"} /\ ~env[c].aim.soft
  /\ Cmd(c) = "step" => StepRequest[c[2]] = Nil

\* Such a call carries the session's request, or has found no record to take it from and
\* will find none to resolve.
Tagged(c) ==
  \/ env[c].tag = Request[SessionOf(c)]
  \/ pc[c] \in {"bind", "bind_own"} /\ records[SessionOf(c)] = Nil
QuietInv ==
  \A c \in Calls : Obliged(c) /\ pc[c] \in Resolving => Tagged(c)

\* A call keeps its target and its tag while it goes on.
LEMMA TagKept ==
  ASSUME TypeInv, NEW c \in Calls, Cmd(c) \in {"navigate", "step"}, pc'[c] \in Resolving,
         \/ Bind(c) \/ PickOwn(c) \/ PickAim(c) \/ PickTarget(c) \/ Send(c) \/ Unregister(c)
         \/ ClearAndRetry(c) \/ Answered(c) \/ CloseReturns(c) \/ CallDropped(c)
  PROVE  /\ env'[c].aim = env[c].aim /\ env'[c].tag = env[c].tag
         /\ pc[c] \in {"bind", "bind_own"} => records[SessionOf(c)] # Nil
<1>1. /\ pc \in [Calls -> Places] /\ env \in [Calls -> Envs] /\ env[c] \in Envs
      /\ registered \subseteq Bridges
      /\ records[SessionOf(c)] \in Records \cup {Nil}
  BY CallNames DEF TypeInv, TypeOK, Places
<1>2. ~(Returns(c) \/ Fails(c) \/ Ends(c, "done"))
  <2>1. ASSUME NEW l \in {"done", "failed"}, Ends(c, l) PROVE FALSE
    BY <1>1, <2>1 DEF Ends, Resolving
  <2> QED BY <2>1 DEF Returns, Fails, Closing
<1>3. ASSUME NEW l, Goto(c, l) PROVE env'[c].aim = env[c].aim /\ env'[c].tag = env[c].tag
  BY <1>3 DEF Goto
<1>4. ASSUME NEW b \in registered, NEW l, Resolved(c, b, l)
      PROVE  env'[c].aim = env[c].aim /\ env'[c].tag = env[c].tag
  BY <1>4, ResolvedFacts
<1>5. ASSUME NEW l, PickForSession(c, l)
      PROVE  env'[c].aim = env[c].aim /\ env'[c].tag = env[c].tag
  <2>1. ForSession(env[c].saw) \in registered
    BY <1>1, <1>2, <1>5, ForSessionIsRegistered DEF PickForSession
  <2> QED BY <1>2, <1>4, <1>5, <2>1 DEF PickForSession
<1>6. CASE Bind(c)
  <2>1. /\ records[SessionOf(c)] # Nil /\ records[SessionOf(c)] \in Records
        /\ env' = [env EXCEPT ![c].saw = records[SessionOf(c)]]
    BY <1>1, <1>2, <1>6 DEF Bind
  <2>2. env'[c] = [env[c] EXCEPT !.saw = records[SessionOf(c)]]
    BY <2>1, FieldFacts
  <2> QED BY <1>1, <2>1, <2>2 DEF Envs
<1>7. CASE PickOwn(c)
  BY <1>5, <1>7 DEF PickOwn
<1>8. CASE PickAim(c)
  <2>1. pc[c] = "pick_aim" /\ env' = [env EXCEPT ![c].at = 0, ![c].named = Nil]
    BY <1>2, <1>8 DEF PickAim
  <2>2. env'[c] = [[env[c] EXCEPT !.at = 0] EXCEPT !.named = Nil]
    BY <2>1, FieldFacts
  <2> QED BY <1>1, <2>1, <2>2 DEF Envs
<1>9. CASE PickTarget(c)
  <2>1. CASE PickForSession(c, "send")
    BY <1>5, <1>9, <2>1 DEF PickTarget
  <2>2. CASE ~PickForSession(c, "send")
    <3>1. pc[c] = "pick" /\ Pick(env[c].aim) # 0 /\ Resolved(c, Pick(env[c].aim), "send")
      BY <1>2, <1>9, <2>2 DEF PickTarget
    <3>2. Pick(env[c].aim) \in registered
      BY <1>1, <3>1, PickIsRegistered
    <3> QED BY <1>4, <3>1, <3>2
  <2> QED BY <2>1, <2>2
<1>10. CASE Send(c)
  BY <1>2, <1>3, <1>10 DEF Send
<1>11. CASE Unregister(c)
  BY <1>3, <1>11 DEF Unregister
<1>12. CASE ClearAndRetry(c)
  <2>1. pc[c] = "mark" /\ env' = [env EXCEPT ![c].again = TRUE, ![c].at = 0]
    BY <1>2, <1>12 DEF ClearAndRetry
  <2>2. env'[c] = [[env[c] EXCEPT !.again = TRUE] EXCEPT !.at = 0]
    BY <2>1, FieldFacts
  <2> QED BY <1>1, <2>1, <2>2 DEF Envs
<1>13. CASE Answered(c)
  BY <1>2, <1>13 DEF Answered
<1>14. CASE CloseReturns(c)
  BY <1>2, <1>14 DEF CloseReturns
<1>15. CASE CallDropped(c)
  BY <1>2, <1>15 DEF CallDropped
<1> QED BY <1>6, <1>7, <1>8, <1>9, <1>10, <1>11, <1>12, <1>13, <1>14, <1>15

\* A call that stays where it is stays tagged: the record it did not find does not come.
LEMMA QuietFrame ==
  ASSUME TypeInv, HomeInv, QuietInv, [Next]_vars, NEW c \in Calls,
         pc'[c] = pc[c], env'[c] = env[c], Obliged(c)', pc'[c] \in Resolving
  PROVE  Tagged(c)'
<1>1. Tagged(c) /\ SessionOf(c) \in Sessions
  BY CallNames DEF QuietInv, Obliged
<1>2. Born(SessionOf(c))
  BY DEF HomeInv, CallHome, Obliged, Resolving
<1>3. ~OpenInserts(SessionOf(c))
  BY <1>2 DEF OpenInserts, Born
<1>4. records[SessionOf(c)] = Nil => records'[SessionOf(c)] = Nil
  BY <1>1, <1>3, RecordsMove
<1> QED BY <1>1, <1>4 DEF Tagged

LEMMA QuietStep == TypeInv /\ HomeInv /\ QuietInv /\ [Next]_vars => QuietInv'
<1> SUFFICES ASSUME TypeInv, HomeInv, QuietInv, [Next]_vars,
                    NEW c \in Calls, Obliged(c)', pc'[c] \in Resolving
             PROVE  Tagged(c)'
  BY DEF QuietInv
<1> USE DEF calls, sessions
<1>0. ASSUME pc'[c] = pc[c], env'[c] = env[c] PROVE Tagged(c)'
  BY <1>0, QuietFrame
<1>1. CASE UNCHANGED vars
  BY <1>0, <1>1 DEF vars
<1>2. CASE BridgeStep
  BY <1>0, <1>2 DEF BridgeStep, Register, PingRecorded, Restart, Deafens, ConnectionEnds, SessionsMarked
<1>3. CASE CallStep
  <2>1. PICK d \in Calls : \/ Bind(d) \/ PickOwn(d) \/ PickAim(d) \/ PickTarget(d) \/ Send(d)
                           \/ Unregister(d) \/ ClearAndRetry(d) \/ Answered(d) \/ CloseReturns(d)
                           \/ CallDropped(d)
    BY <1>3 DEF CallStep
  <2>2. Cmd(d) # "open"
    BY <2>1, OpenIsApart
  <2>3. CASE d # c
    BY <1>0, <2>1, <2>2, <2>3, CallMoves
  <2>4. CASE d = c
    <3>1. Cmd(c) \in {"navigate", "step"}
      BY DEF Obliged
    <3>2. /\ env'[c].aim = env[c].aim /\ env'[c].tag = env[c].tag
          /\ pc[c] \in {"bind", "bind_own"} => records[SessionOf(c)] # Nil
      BY <2>1, <2>4, <3>1, TagKept
    <3>3. pc[c] \in Resolving
      BY <2>1, <2>2, <2>4, CallMoves
    <3>4. Obliged(c)
      BY <3>2 DEF Obliged
    <3>5. Tagged(c)
      BY <3>3, <3>4 DEF QuietInv
    <3> QED BY <3>2, <3>5 DEF Tagged
  <2> QED BY <2>3, <2>4
<1>4. ASSUME NEW x \in Sessions,
             \/ OpenBegins(x) \/ OpenPicks(x) \/ OpenChecks(x) \/ OpenInserts(x) \/ OpenRechecks(x)
             \/ OpenReturns(x) \/ OpenDropped(x)
      PROVE  Tagged(c)'
  <2> DEFINE n == Navigate(x)
  <2>1. /\ n \in Calls /\ SessionOf(n) = x /\ c # Open(x) /\ Open(x) \in Calls /\ n # Open(x)
        /\ pc \in [Calls -> Places] /\ env \in [Calls -> Envs]
    BY CallNames DEF Obliged, TypeInv, TypeOK, Places
  <2> HIDE DEF n
  <2>2. CASE pc'[c] = pc[c] /\ env'[c] = env[c]
    BY <1>0, <2>2
  <2>3. CASE ~(pc'[c] = pc[c] /\ env'[c] = env[c])
    <3>1. c = n /\ (OpenDropped(x) \/ OpenRechecks(x))
      BY <1>4, <2>1, <2>3, OpenMoves DEF n
    <3>2. CASE OpenDropped(x)
      BY <2>1, <3>1, <3>2 DEF OpenDropped, n, Resolving
    <3>3. CASE OpenRechecks(x)
      <4>1. /\ pc' = [pc EXCEPT ![Open(x)] = "navigating", ![n] = "bind"]
            /\ env' = [env EXCEPT ![n].tag = Inherits(x)] /\ UNCHANGED records
        BY <2>1, <2>3, <3>1, <3>3, EndsFacts DEF OpenRechecks, n
      <4>2. Inherits(x) \in Requests \cup {Nil}
        BY SessionsAssumption DEF Inherits
      <4>3. env'[n] = [env[n] EXCEPT !.tag = Inherits(x)]
        BY <2>1, <4>1, <4>2, FieldFacts
      <4>4. env'[n].tag = Inherits(x)
        BY <2>1, <4>3 DEF Envs
      <4>5. pc'[n] = "bind"
        BY <2>1, <4>1
      <4> QED BY <2>1, <3>1, <4>1, <4>4, <4>5 DEF Tagged, Inherits
    <3> QED BY <3>1, <3>2, <3>3
  <2> QED BY <2>2, <2>3
<1>5. ASSUME NEW x \in Sessions, OrphanSends(x) \/ OrphanRemoves(x) \/ Sweep(x) PROVE Tagged(c)'
  BY <1>0, <1>5 DEF OrphanSends, OrphanRemoves, Sweep
<1>6. ASSUME NEW x \in Sessions, CloseBegins(x) PROVE Tagged(c)'
  <2>1. c # Close(x)
    BY CallNames DEF Obliged
  <2>2. pc'[c] = pc[c] /\ env'[c] = env[c]
    BY <1>6, <2>1 DEF CloseBegins, Begin, TypeInv, TypeOK
  <2> QED BY <1>0, <2>2
<1>7. ASSUME NEW s \in Steps, StepBegins(s) PROVE Tagged(c)'
  <2> DEFINE d == <<"step", s>>
             x == StepSession[s]
             t == IF StepRequest[s] # Nil THEN StepRequest[s] ELSE Inherits(x)
  <2>1. CASE c # d
    <3>1. pc'[c] = pc[c] /\ env'[c] = env[c]
      BY <1>7, <2>1 DEF StepBegins, Begin, Ends, TypeInv, TypeOK
    <3> QED BY <1>0, <3>1
  <2>2. CASE c = d
    <3>1. Cmd(c) = "step" /\ SessionOf(c) = x /\ c[2] = s /\ t \in Requests \cup {Nil}
      BY <2>2, CallNames, SessionsAssumption DEF Inherits
    <3>2. ~Ends(c, "done")
      BY EndsFacts DEF Resolving
    <3>3. PICK a \in StepAims : Begin(c, a, t)
      BY <1>7, <2>2, <3>2 DEF StepBegins
    <3>4. /\ env'[c].aim = a /\ env'[c].tag = t /\ pc'[c] = FirstStage(a)
      BY <3>1, <3>3, BeginFacts, GivenAims
    <3>5. ~a.soft /\ StepRequest[s] = Nil
      BY <3>1, <3>4 DEF Obliged
    <3>6. t = Inherits(x) /\ pc'[c] \in {"bind", "bind_own"} /\ UNCHANGED records
      BY <1>7, <3>4, <3>5 DEF FirstStage, StepBegins
    <3> QED BY <3>1, <3>4, <3>6 DEF Tagged, Inherits
  <2> QED BY <2>1, <2>2
<1>8. ASSUME NEW r \in Requests, CancelMarks(r) \/ CancelScans(r) PROVE Tagged(c)'
  <2>1. Cmd(c) # "closer"
    BY DEF Obliged
  <2>2. pc'[c] = pc[c] /\ env'[c] = env[c]
    BY <1>8, <2>1 DEF CancelMarks, CancelScans, TypeInv, TypeOK
  <2> QED BY <1>0, <2>2
<1> QED BY <1>1, <1>2, <1>3, <1>4, <1>5, <1>6, <1>7, <1>8 DEF Next, SessionStep

\* A frame is put on a bridge by Send, under the lock that the mark is made under.
LEMMA SentUnmarked ==
  ASSUME TypeInv, [Next]_vars, NEW c \in Calls, Sent(c) PROVE ~Marked(env[c].tag)
<1>0. pc[c] = "send" /\ pc'[c] = "await" /\ Cmd(c) # "open" /\ pc \in [Calls -> Places]
  BY DEF Sent, TypeInv, TypeOK, Places, CallInv, Opening
<1> USE DEF calls
<1>1. CASE CallStep
  <2>1. PICK d \in Calls : \/ Bind(d) \/ PickOwn(d) \/ PickAim(d) \/ PickTarget(d) \/ Send(d)
                           \/ Unregister(d) \/ ClearAndRetry(d) \/ Answered(d) \/ CloseReturns(d)
                           \/ CallDropped(d)
    BY <1>1 DEF CallStep
  <2>2. d = c
    BY <1>0, <2>1, OpenIsApart, CallMoves
  <2>3. Send(c)
    BY <1>0, <2>1, <2>2 DEF Bind, PickOwn, PickAim, PickTarget, Unregister, ClearAndRetry,
       Answered, CloseReturns, CallDropped, Ends
  <2>4. ~Returns(c) /\ ~Fails(c)
    BY <1>0 DEF Returns, Fails, Ends
  <2> QED BY <1>0, <2>3, <2>4 DEF Send
<1>2. ASSUME NEW x \in Sessions,
             \/ OpenBegins(x) \/ OpenPicks(x) \/ OpenChecks(x) \/ OpenInserts(x) \/ OpenRechecks(x)
             \/ OpenReturns(x) \/ OpenDropped(x)
      PROVE  FALSE
  <2>1. c = Navigate(x) /\ (OpenDropped(x) \/ OpenRechecks(x))
    BY <1>0, <1>2, OpenMoves, CallNames
  <2> QED BY <1>0, <2>1 DEF OpenDropped, OpenRechecks, Ends
<1>3. CASE ~CallStep
  BY <1>0, <1>2, <1>3 DEF Next, SessionStep, vars, BridgeStep, Register, PingRecorded, Restart, Deafens,
     ConnectionEnds, SessionsMarked, OrphanSends, OrphanRemoves, CloseBegins, Sweep, StepBegins,
     Begin, Ends, FirstStage, CancelMarks, CancelScans
<1> QED BY <1>1, <1>3

\* Nothing is sent for a session once its request is cancelled.
THEOREM CancelledIsQuietHolds == Spec => CancelledIsQuiet
<1>1. Init => QuietInv
  BY DEF Init, QuietInv, Resolving
<1>2. TypeInv /\ HomeInv /\ QuietInv /\ [Next]_vars
      => [\A c \in Calls :
            Sent(c) /\ Cmd(c) \in {"navigate", "step"} /\ Marked(Request[SessionOf(c)])
              => env[c].aim.soft \/ (Cmd(c) = "step" /\ StepRequest[c[2]] # Nil)]_vars
  <2> SUFFICES ASSUME TypeInv, HomeInv, QuietInv, [Next]_vars, NEW c \in Calls, Sent(c), Obliged(c),
                      Marked(Request[SessionOf(c)])
               PROVE  FALSE
    BY DEF Obliged
  <2>1. pc[c] = "send"
    BY DEF Sent
  <2>2. env[c].tag = Request[SessionOf(c)]
    BY <2>1 DEF QuietInv, Tagged, Resolving
  <2> QED BY <2>2, SentUnmarked
<1> QED BY <1>1, <1>2, TypeInit, TypeStep, HomeInit, HomeStep, QuietStep, PTL DEF Spec, CancelledIsQuiet

----------------------------------------------------------------------------
(* No tab is left behind by a cancelled opener.                             *)

\* The bridges of a session that nobody closes and that lose nothing.
Calm(x) == AllBridgesUp /\ pc[Close(x)] = "idle"

\* Whatever is cleared, marked or lost is so because a bridge went deaf; and only closes
\* remove a record when they end.
UpInv ==
  /\ \A b \in Bridges : life[b] = "up" => b \in registered
  /\ \A b \in marking : life[b] \notin {"none", "up"}
  /\ \A c \in Calls : pc[c] \in {"unregister", "mark"} => life[env[c].at] \notin {"none", "up"}
  /\ AllBridgesUp => lost = {}
  /\ \A c \in Calls : pc[c] = "finish" => Closing(c)

\* Who is under way, by the stage of the opener and of the cancellation.
StageInv(x) ==
  /\ pc[Navigate(x)] \in Resolving => pc[Open(x)] = "navigating"
  /\ \A s \in Steps : StepSession[s] = x /\ pc[<<"step", s>>] \in Resolving => pc[Open(x)] = "opened"
  /\ pc[Closer(x)] # "idle" => Request[x] # Nil /\ cancel[Request[x]] = "scanned"
  /\ \A s \in Steps : StepSession[s] = x => env[<<"step", s>>].aim \in StepAims \cup {OwnSession}
  /\ env[Closer(x)].tag = Nil
  /\ pc[Open(x)] \in {"idle", "pick", "asked", "insert"} => birth[x] = Nil
  /\ pc[Open(x)] \in {"recheck", "navigating", "opened"} => birth[x] # Nil
  /\ pc[Open(x)] \in {"idle", "pick", "asked", "insert", "recheck"}
       => \A h \in Homes : <<x, h>> \notin tabs

\* The guard of the opener is about the bridge where the session was opened.
GuardInv(x) ==
  /\ guard[x] # 0 =>
       /\ life[guard[x]] # "none"
       /\ birth[x] # Nil => home[guard[x]] = birth[x]
       /\ pc[Open(x)] = "insert" => guard[x] = env[Open(x)].at
  /\ Calm(x) /\ (pc[Open(x)] = "navigating" \/ orphan[x] = "queue") => guard[x] # 0
  /\ Calm(x) /\ pc[Open(x)] # "failed" => orphan[x] = "no"
  /\ Calm(x) /\ orphan[x] \in {"remove", "removed"} => <<x, birth[x]>> \notin tabs

\* A session in use has its record until the cancellation looks for it.
UsedInv(x) ==
  Calm(x) /\ Request[x] # Nil /\ cancel[Request[x]] # "scanned"
    => (pc[Open(x)] \in {"recheck", "navigating", "opened"} => records[x] # Nil)

\* Somebody is still to send a close.
WillClose(x) ==
  \/ orphan[x] = "queue"
  \/ pc[Closer(x)] \in {"pick", "send"}
  \/ records[x] # Nil /\ (pc[Closer(x)] = "bind" \/ cancel[Request[x]] # "scanned")

TabInv(x) ==
  Calm(x) /\ Request[x] # Nil /\ StepsAreOwn(x) /\ <<x, birth[x]>> \in tabs => WillClose(x)

CloseInv == \A x \in Sessions : StageInv(x) /\ GuardInv(x) /\ UsedInv(x) /\ TabInv(x)

\* Frames that are firm reach no other profile.
TabsAtHome == AimsAreHome => \A x \in Sessions, h \in Homes : <<x, h>> \in tabs => h = birth[x]

\* The steps by who takes them.
CallAct(c) ==
  \/ Bind(c) \/ PickOwn(c) \/ PickAim(c) \/ PickTarget(c) \/ Send(c) \/ Unregister(c)
  \/ ClearAndRetry(c) \/ Answered(c) \/ CloseReturns(c) \/ CallDropped(c)
OpenAct(x) ==
  \/ OpenBegins(x) \/ OpenPicks(x) \/ OpenChecks(x) \/ OpenInserts(x) \/ OpenRechecks(x)
  \/ OpenReturns(x) \/ OpenDropped(x)

\* Every step is one of a bridge, of a call, of an opener, of what follows it, or of a
\* cancellation.
LEMMA Actors ==
  ASSUME TypeInv, [Next]_vars
  PROVE  \/ UNCHANGED vars
         \/ BridgeStep
         \/ \E c \in Calls : Cmd(c) # "open" /\ CallAct(c)
         \/ \E x \in Sessions : OpenAct(x)
         \/ \E x \in Sessions : OrphanSends(x) \/ OrphanRemoves(x) \/ CloseBegins(x) \/ Sweep(x)
         \/ \E s \in Steps : StepBegins(s)
         \/ \E r \in Requests : CancelMarks(r) \/ CancelScans(r)
<1>1. CallStep => \E c \in Calls : Cmd(c) # "open" /\ CallAct(c)
  BY OpenIsApart DEF CallStep, CallAct
<1> QED BY <1>1 DEF Next, SessionStep, OpenAct

\* Only a frame that is put on a bridge leaves a tab.
LEMMA TabsMove ==
  ASSUME TypeInv, [Next]_vars, NEW x \in Sessions, NEW h, <<x, h>> \in tabs', <<x, h>> \notin tabs
  PROVE  \E c \in Calls : /\ Sent(c) /\ SessionOf(c) = x /\ home[env[c].at] = h
                          /\ Cmd(c) \in {"navigate", "step"} /\ ~env[c].aim.soft
<1> USE DEF history
<1>0. tabs' # tabs
  OBVIOUS
<1>1. ~BridgeStep /\ ~UNCHANGED vars
  BY <1>0 DEF vars, BridgeStep, Register, PingRecorded, Restart, Deafens, ConnectionEnds, SessionsMarked
<1>2. ASSUME NEW y \in Sessions, OpenAct(y) PROVE FALSE
  BY <1>0, <1>2 DEF OpenAct, OpenBegins, OpenPicks, OpenChecks, OpenInserts, OpenRechecks, OpenReturns,
     OpenDropped
<1>3. ASSUME NEW y \in Sessions, OrphanSends(y) \/ OrphanRemoves(y) \/ CloseBegins(y) \/ Sweep(y)
      PROVE  FALSE
  BY <1>3 DEF OrphanSends, OrphanRemoves, CloseBegins, Sweep
<1>4. ASSUME NEW s \in Steps, StepBegins(s) PROVE FALSE
  BY <1>0, <1>4 DEF StepBegins
<1>5. ASSUME NEW r \in Requests, CancelMarks(r) \/ CancelScans(r) PROVE FALSE
  BY <1>0, <1>5 DEF CancelMarks, CancelScans
<1>6. PICK c \in Calls : Cmd(c) # "open" /\ CallAct(c)
  BY <1>1, <1>2, <1>3, <1>4, <1>5, Actors
<1>7. Send(c)
  BY <1>0, <1>6 DEF CallAct, Bind, PickOwn, PickForSession, PickAim, PickTarget, Unregister,
     ClearAndRetry, Answered, CloseReturns, CallDropped
<1>8. pc[c] = "send" /\ Goto(c, "await") /\ Delivered(c)
  BY <1>0, <1>7 DEF Send
<1>9. Sent(c)
  BY <1>8, GotoFacts DEF Sent
<1>10. ~env[c].aim.soft /\ ~Closing(c) /\ <<x, h>> = <<SessionOf(c), home[env[c].at]>>
  BY <1>8 DEF Delivered
<1>11. Cmd(c) \in {"navigate", "step"}
  BY <1>6, <1>10, CallNames DEF Closing
<1> QED BY <1>9, <1>10, <1>11

\* A record is removed by the orphan close, the sweep, or a close that ends.
LEMMA RecordsLeave ==
  ASSUME TypeInv, [Next]_vars, UpInv, NEW x \in Sessions,
         records[x] # Nil, records'[x] = Nil
  PROVE  OrphanRemoves(x) \/ Sweep(x) \/ pc[Close(x)] = "finish" \/ pc[Closer(x)] = "finish"
<1> USE DEF sessions
<1>1. ~UNCHANGED vars
  BY DEF vars
<1>2. CASE BridgeStep
  BY <1>2 DEF BridgeStep, Register, PingRecorded, Restart, Deafens, ConnectionEnds, SessionsMarked,
     MarkSessions
<1>3. \A b \in Bridges : Bound(b, Told(b)) # Nil
  BY ToldType, SessionsAssumption DEF Bound, Records
<1>4. ASSUME NEW c \in Calls, Cmd(c) # "open", CallAct(c)
      PROVE  pc[Close(x)] = "finish" \/ pc[Closer(x)] = "finish"
  <2>1. SessionOf(c) \in Sessions
    BY CallNames
  <2>2. ASSUME NEW l, PickForSession(c, l) PROVE FALSE
    <3>1. Refresh(SessionOf(c), ForSession(env[c].saw)) /\ ForSession(env[c].saw) # 0
      BY <2>2 DEF PickForSession
    <3>2. ForSession(env[c].saw) \in Bridges
      BY <3>1, ForSessionIsRegistered DEF TypeInv, TypeOK
    <3> QED BY <1>3, <2>1, <3>1, <3>2 DEF Refresh, TypeInv, TypeOK
  <2>3. CASE CloseReturns(c)
    <3>1. pc[c] = "finish" /\ Remove(SessionOf(c))
      BY <2>3 DEF CloseReturns
    <3>2. SessionOf(c) = x
      BY <2>1, <3>1, RemoveTypes
    <3>3. c = Close(x) \/ c = Closer(x)
      BY <3>1, <3>2, CallNames DEF UpInv, Closing
    <3> QED BY <3>1, <3>3
  <2>4. CASE ~CloseReturns(c)
    BY <1>4, <2>2, <2>4 DEF CallAct, Bind, PickOwn, PickAim, PickTarget, Send, Unregister,
       ClearAndRetry, MarkSessions, Answered, CallDropped
  <2> QED BY <2>3, <2>4
<1>5. ASSUME NEW y \in Sessions, OpenAct(y) PROVE FALSE
  <2>1. CASE OpenInserts(y)
    <3>1. /\ Open(y) \in Calls /\ pc[Open(y)] = "insert"
          /\ records' = [records EXCEPT ![y] = Bound(env[Open(y)].at, env[Open(y)].named)]
      BY <2>1, CallNames DEF OpenInserts
    <3>2. env[Open(y)].at \in Bridges /\ env[Open(y)].named \in Instances \cup {Nil}
      BY <3>1, EnvFields DEF TypeInv, TypeOK, CallInv, Holding
    <3>3. Bound(env[Open(y)].at, env[Open(y)].named) # Nil
      BY <3>2, SessionsAssumption DEF Bound, Records
    <3> QED BY <3>1, <3>3 DEF TypeInv, TypeOK
  <2>2. CASE ~OpenInserts(y)
    BY <1>5, <2>2 DEF OpenAct, OpenBegins, OpenPicks, OpenChecks, OpenRechecks, OpenReturns, OpenDropped
  <2> QED BY <2>1, <2>2
<1>6. ASSUME NEW y \in Sessions, OrphanSends(y) \/ OrphanRemoves(y) \/ CloseBegins(y) \/ Sweep(y)
      PROVE  OrphanRemoves(x) \/ Sweep(x)
  BY <1>6, RemoveTypes DEF OrphanSends, OrphanRemoves, CloseBegins, Sweep
<1>7. ASSUME NEW s \in Steps, StepBegins(s) PROVE FALSE
  BY <1>7 DEF StepBegins
<1>8. ASSUME NEW r \in Requests, CancelMarks(r) \/ CancelScans(r) PROVE FALSE
  BY <1>8 DEF CancelMarks, CancelScans
<1> QED BY <1>1, <1>2, <1>4, <1>5, <1>6, <1>7, <1>8, Actors

\* The opener of a session acts for itself alone.
LEMMA OpenersMove ==
  ASSUME TypeInv, [Next]_vars, NEW x \in Sessions,
         \/ pc'[Open(x)] # pc[Open(x)] \/ env'[Open(x)] # env[Open(x)] \/ birth'[x] # birth[x]
  PROVE  OpenAct(x)
<1> USE DEF calls, history
<1>0. /\ Open(x) \in Calls /\ Cmd(Open(x)) = "open"
      /\ pc \in [Calls -> Places] /\ env \in [Calls -> Envs] /\ birth \in [Sessions -> Homes \cup {Nil}]
  BY CallNames DEF TypeInv, TypeOK, Places
<1>1. ~UNCHANGED vars
  BY DEF vars
<1>2. ~BridgeStep
  BY DEF BridgeStep, Register, PingRecorded, Restart, Deafens, ConnectionEnds, SessionsMarked
<1>3. ASSUME NEW c \in Calls, Cmd(c) # "open", CallAct(c) PROVE FALSE
  BY <1>0, <1>3, CallMoves DEF CallAct
<1>4. ASSUME NEW y \in Sessions, OpenAct(y) PROVE OpenAct(x)
  <2>1. CASE y = x
    BY <1>4, <2>1
  <2>2. CASE y # x
    <3>1. Open(x) \notin {Open(y), Navigate(y)}
      BY <2>2 DEF Open, Navigate
    <3>2. pc'[Open(x)] = pc[Open(x)] /\ env'[Open(x)] = env[Open(x)]
      BY <1>0, <1>4, <3>1, OpenMoves DEF OpenAct
    <3>3. birth'[x] = birth[x]
      BY <1>0, <1>4, <2>2 DEF OpenAct, OpenBegins, OpenPicks, OpenChecks, OpenInserts, OpenRechecks,
         OpenReturns, OpenDropped
    <3> QED BY <3>2, <3>3
  <2> QED BY <2>1, <2>2
<1>5. ASSUME NEW y \in Sessions, OrphanSends(y) \/ OrphanRemoves(y) \/ CloseBegins(y) \/ Sweep(y)
      PROVE  FALSE
  <2>1. Open(x) # Close(y)
    BY DEF Open, Close
  <2> QED BY <1>0, <1>5, <2>1 DEF OrphanSends, OrphanRemoves, CloseBegins, Begin, Sweep
<1>6. ASSUME NEW s \in Steps, StepBegins(s) PROVE FALSE
  <2>1. Open(x) # <<"step", s>>
    BY DEF Open
  <2> QED BY <1>0, <1>6, <2>1 DEF StepBegins, Begin, Ends
<1>7. ASSUME NEW r \in Requests, CancelMarks(r) \/ CancelScans(r) PROVE FALSE
  BY <1>0, <1>7 DEF CancelMarks, CancelScans
<1> QED BY <1>1, <1>2, <1>3, <1>4, <1>5, <1>6, <1>7, Actors

\* The guard and the orphan close of a session change with its opener, itself, or a close
\* that is dropped.
LEMMA GuardsMove ==
  ASSUME TypeInv, [Next]_vars, NEW x \in Sessions, guard'[x] # guard[x] \/ orphan'[x] # orphan[x]
  PROVE  OpenAct(x) \/ OrphanSends(x) \/ OrphanRemoves(x) \/ CallDropped(Close(x))
<1> USE DEF guards
<1>0. guard \in [Sessions -> Bridges \cup {0}] /\ DOMAIN orphan = Sessions
  BY DEF TypeInv, TypeOK
<1>1. ~UNCHANGED vars
  BY DEF vars
<1>2. ~BridgeStep
  BY DEF BridgeStep, Register, PingRecorded, Restart, Deafens, ConnectionEnds, SessionsMarked
<1>3. ASSUME NEW c \in Calls, Cmd(c) # "open", CallAct(c) PROVE CallDropped(Close(x))
  <2>1. CallDropped(c)
    BY <1>3 DEF CallAct, Bind, PickOwn, PickForSession, PickAim, PickTarget, Send, Unregister,
       ClearAndRetry, Answered, CloseReturns
  <2>2. Cmd(c) = "close" /\ DropGuard(SessionOf(c))
    BY <2>1 DEF CallDropped
  <2>3. SessionOf(c) = x
    BY <1>0, <2>2 DEF DropGuard
  <2> QED BY <2>1, <2>2, <2>3, CallNames
<1>4. ASSUME NEW y \in Sessions, OpenAct(y) PROVE OpenAct(x)
  <2>1. CASE y = x
    BY <1>4, <2>1
  <2>2. CASE y # x
    BY <1>0, <1>4, <2>2 DEF OpenAct, OpenBegins, OpenPicks, OpenChecks, OpenInserts, OpenRechecks,
       OpenReturns, OpenDropped, DropGuard, Disarm
  <2> QED BY <2>1, <2>2
<1>5. ASSUME NEW y \in Sessions, OrphanSends(y) \/ OrphanRemoves(y) \/ CloseBegins(y) \/ Sweep(y)
      PROVE  OrphanSends(x) \/ OrphanRemoves(x)
  BY <1>0, <1>5 DEF OrphanSends, OrphanRemoves, CloseBegins, Sweep
<1>6. ASSUME NEW s \in Steps, StepBegins(s) PROVE FALSE
  BY <1>6 DEF StepBegins
<1>7. ASSUME NEW r \in Requests, CancelMarks(r) \/ CancelScans(r) PROVE FALSE
  BY <1>7 DEF CancelMarks, CancelScans
<1> QED BY <1>1, <1>2, <1>3, <1>4, <1>5, <1>6, <1>7, Actors

\* A bridge that went deaf does not come back.
LEMMA LifeMoves ==
  ASSUME TypeInv, [Next]_vars, NEW b \in Bridges
  PROVE  /\ life'[b] # life[b] => BridgeStep
         /\ life[b] \notin {"none", "up"} => life'[b] \notin {"none", "up"}
<1>1. CASE UNCHANGED life
  BY <1>1
<1>2. CASE BridgeStep
  <2>1. life' = life \/ \E n \in Bridges :
          \/ life[n] = "none" /\ life' = [life EXCEPT ![n] = "up"]
          \/ life' = [life EXCEPT ![n] = "deaf"] \/ life' = [life EXCEPT ![n] = "gone"]
    BY <1>2 DEF BridgeStep, Register, PingRecorded, Restart, Deafens, ConnectionEnds, SessionsMarked
  <2> QED BY <1>2, <2>1 DEF TypeInv, TypeOK
<1>3. CASE ~BridgeStep
  <2> USE DEF bridges
  <2>1. UNCHANGED vars => UNCHANGED life
    BY DEF vars
  <2>2. \A c \in Calls : Cmd(c) # "open" /\ CallAct(c) => UNCHANGED life
    BY CallMoves DEF CallAct
  <2>3. \A x \in Sessions : OpenAct(x) => UNCHANGED life
    BY OpenMoves DEF OpenAct
  <2>4. \A x \in Sessions : OrphanSends(x) \/ OrphanRemoves(x) \/ CloseBegins(x) \/ Sweep(x) => UNCHANGED life
    BY DEF OrphanSends, OrphanRemoves, CloseBegins, Sweep
  <2>5. /\ \A s \in Steps : StepBegins(s) => UNCHANGED life
        /\ \A r \in Requests : CancelMarks(r) \/ CancelScans(r) => UNCHANGED life
    BY DEF StepBegins, CancelMarks, CancelScans
  <2> QED BY <1>1, <1>3, <2>1, <2>2, <2>3, <2>4, <2>5, Actors
<1> QED BY <1>1, <1>2, <1>3

\* A close or a closer begins once.
LEMMA ClosesMove ==
  ASSUME TypeInv, [Next]_vars, NEW c \in Calls, Closing(c), pc'[c] # pc[c] \/ env'[c] # env[c]
  PROVE  \/ CallAct(c)
         \/ Cmd(c) = "close" /\ pc[c] = "idle" /\ pc[Open(SessionOf(c))] = "opened"
         \/ /\ Cmd(c) = "closer" /\ records[SessionOf(c)] # Nil /\ env' = env /\ pc'[c] = "bind"
            /\ Request[SessionOf(c)] \in Requests /\ CancelScans(Request[SessionOf(c)])
<1> USE DEF calls
<1>0. /\ pc \in [Calls -> Places] /\ env \in [Calls -> Envs]
      /\ Cmd(c) \in {"close", "closer"} /\ SessionOf(c) \in Sessions
  BY CallNames DEF TypeInv, TypeOK, Places, Closing
<1>1. ~UNCHANGED vars /\ ~BridgeStep
  BY DEF vars, BridgeStep, Register, PingRecorded, Restart, Deafens, ConnectionEnds, SessionsMarked
<1>2. ASSUME NEW d \in Calls, Cmd(d) # "open", CallAct(d) PROVE CallAct(c)
  <2>1. CASE d = c
    BY <1>2, <2>1
  <2>2. CASE d # c
    BY <1>2, <2>2, CallMoves DEF CallAct
  <2> QED BY <2>1, <2>2
<1>3. ASSUME NEW y \in Sessions, OpenAct(y) PROVE FALSE
  <2>1. c \notin {Open(y), Navigate(y)}
    BY <1>0, CallNames
  <2> QED BY <1>3, <2>1, OpenMoves DEF OpenAct
<1>4. ASSUME NEW y \in Sessions, OrphanSends(y) \/ OrphanRemoves(y) \/ CloseBegins(y) \/ Sweep(y)
      PROVE  Cmd(c) = "close" /\ pc[c] = "idle" /\ pc[Open(SessionOf(c))] = "opened"
  <2>1. CloseBegins(y)
    BY <1>4 DEF OrphanSends, OrphanRemoves, Sweep
  <2>2. c = Close(y)
    BY <1>0, <2>1 DEF CloseBegins, Begin
  <2> QED BY <2>1, <2>2, CallNames DEF CloseBegins, Opened
<1>5. ASSUME NEW s \in Steps, StepBegins(s) PROVE FALSE
  <2>1. c # <<"step", s>>
    BY <1>0, CallNames
  <2> QED BY <1>0, <1>5, <2>1 DEF StepBegins, Begin, Ends
<1>6. ASSUME NEW r \in Requests, CancelMarks(r) \/ CancelScans(r)
      PROVE  /\ Cmd(c) = "closer" /\ records[SessionOf(c)] # Nil /\ env' = env /\ pc'[c] = "bind"
             /\ Request[SessionOf(c)] \in Requests /\ CancelScans(Request[SessionOf(c)])
  <2>1. CancelScans(r)
    BY <1>6 DEF CancelMarks
  <2>2. env' = env /\ Cmd(c) = "closer" /\ Request[SessionOf(c)] = r /\ records[SessionOf(c)] # Nil
    BY <1>0, <2>1 DEF CancelScans
  <2>3. pc'[c] = "bind"
    BY <1>0, <2>1, <2>2 DEF CancelScans
  <2> QED BY <2>1, <2>2, <2>3
<1> QED BY <1>1, <1>2, <1>3, <1>4, <1>5, <1>6, Actors

\* A call that acts does not become idle.
LEMMA ActsOn ==
  ASSUME TypeInv, NEW c \in Calls, CallAct(c) PROVE pc'[c] # "idle"
<1>1. pc \in [Calls -> Places] /\ pc[c] # "idle"
  BY DEF TypeInv, TypeOK, Places, CallAct, Bind, PickOwn, PickAim, PickTarget, Send, Unregister,
     ClearAndRetry, Answered, CloseReturns, CallDropped, Resolving
<1>2. \A l : l # "idle" =>
        /\ Goto(c, l) => pc'[c] # "idle"
        /\ Ends(c, l) => pc'[c] # "idle"
        /\ \A b : Resolved(c, b, l) => pc'[c] # "idle"
  BY <1>1 DEF Goto, Ends, Resolved
<1>3. Returns(c) \/ Fails(c) => pc'[c] # "idle"
  BY <1>2 DEF Returns, Fails
<1> QED BY <1>1, <1>2, <1>3 DEF CallAct, Bind, PickOwn, PickForSession, PickAim, PickTarget, Send,
     Unregister, ClearAndRetry, Answered, CloseReturns, CallDropped

\* A session that is calm was calm.
LEMMA CalmWas ==
  ASSUME TypeInv, [Next]_vars, NEW x \in Sessions, Calm(x)' PROVE Calm(x)
<1>1. AllBridgesUp
  BY LifeMoves DEF Calm, AllBridgesUp
<1>2. pc[Close(x)] = "idle"
  <2>1. Close(x) \in Calls /\ Closing(Close(x)) /\ Cmd(Close(x)) = "close" /\ pc'[Close(x)] = "idle"
    BY CallNames DEF Closing, Calm
  <2> QED BY <2>1, ClosesMove, ActsOn
<1> QED BY <1>1, <1>2 DEF Calm

\* Only a cancellation moves the stage of its request.
LEMMA CancelsMove ==
  ASSUME TypeInv, [Next]_vars, NEW r \in Requests, cancel'[r] # cancel[r]
  PROVE  CancelMarks(r) \/ CancelScans(r)
<1>1. ~UNCHANGED vars /\ ~BridgeStep
  BY DEF vars, BridgeStep, Register, PingRecorded, Restart, Deafens, ConnectionEnds, SessionsMarked
<1>2. /\ \A c \in Calls : Cmd(c) # "open" /\ CallAct(c) => UNCHANGED cancel
      /\ \A x \in Sessions : OpenAct(x) => UNCHANGED cancel
  BY CallMoves, OpenMoves DEF CallAct, OpenAct
<1>3. /\ \A x \in Sessions : OrphanSends(x) \/ OrphanRemoves(x) \/ CloseBegins(x) \/ Sweep(x) => UNCHANGED cancel
      /\ \A s \in Steps : StepBegins(s) => UNCHANGED cancel
  BY DEF OrphanSends, OrphanRemoves, CloseBegins, Sweep, StepBegins
<1>4. \A q \in Requests : CancelMarks(q) \/ CancelScans(q) => q = r
  BY DEF CancelMarks, CancelScans, TypeInv, TypeOK
<1> QED BY <1>1, <1>2, <1>3, <1>4, Actors

\* A navigation begins for an opener that waits for it, a step in an open session.
LEMMA UsersBegin ==
  ASSUME TypeInv, [Next]_vars, NEW c \in Calls, Cmd(c) \in {"navigate", "step"},
         pc'[c] \in Resolving, pc[c] \notin Resolving
  PROVE  pc'[Open(SessionOf(c))] = IF Cmd(c) = "navigate" THEN "navigating" ELSE "opened"
<1> USE DEF calls
<1>0. pc \in [Calls -> Places] /\ env \in [Calls -> Envs] /\ pc'[c] # pc[c]
  BY DEF TypeInv, TypeOK, Places
<1>1. ~UNCHANGED vars /\ ~BridgeStep
  BY <1>0 DEF vars, BridgeStep, Register, PingRecorded, Restart, Deafens, ConnectionEnds, SessionsMarked
<1>2. ASSUME NEW d \in Calls, Cmd(d) # "open", CallAct(d) PROVE FALSE
  BY <1>0, <1>2, CallMoves DEF CallAct
<1>3. ASSUME NEW y \in Sessions, OpenAct(y)
      PROVE  pc'[Open(SessionOf(c))] = IF Cmd(c) = "navigate" THEN "navigating" ELSE "opened"
  <2>1. c = Navigate(y) /\ (OpenDropped(y) \/ OpenRechecks(y))
    BY <1>0, <1>3, CallNames, OpenMoves DEF OpenAct
  <2>2. c # Open(y) /\ Open(y) \in Calls /\ SessionOf(c) = y /\ Cmd(c) = "navigate"
    BY <2>1, CallNames
  <2>3. OpenRechecks(y)
    BY <1>0, <2>1, <2>2 DEF OpenDropped, Resolving
  <2>4. pc' = [pc EXCEPT ![Open(y)] = "navigating", ![Navigate(y)] = "bind"]
    BY <1>0, <2>1, <2>2, <2>3, EndsFacts DEF OpenRechecks
  <2> QED BY <1>0, <2>1, <2>2, <2>4
<1>4. ASSUME NEW y \in Sessions, OrphanSends(y) \/ OrphanRemoves(y) \/ CloseBegins(y) \/ Sweep(y)
      PROVE  FALSE
  <2>1. c # Close(y)
    BY CallNames
  <2> QED BY <1>0, <1>4, <2>1 DEF OrphanSends, OrphanRemoves, CloseBegins, Begin, Sweep
<1>5. ASSUME NEW s \in Steps, StepBegins(s)
      PROVE  pc'[Open(SessionOf(c))] = IF Cmd(c) = "navigate" THEN "navigating" ELSE "opened"
  <2>1. c = <<"step", s>>
    BY <1>0, <1>5 DEF StepBegins, Begin, Ends
  <2>2. Open(StepSession[s]) \in Calls /\ Open(StepSession[s]) # c
    BY <2>1, CallNames, SessionsAssumption DEF Open
  <2>3. pc[Open(StepSession[s])] = "opened"
    BY <1>5 DEF StepBegins, Opened
  <2>4. pc'[Open(StepSession[s])] = pc[Open(StepSession[s])]
    BY <1>0, <1>5, <2>1, <2>2 DEF StepBegins, Begin, Ends
  <2> QED BY <2>1, <2>3, <2>4, CallNames
<1>6. ASSUME NEW r \in Requests, CancelMarks(r) \/ CancelScans(r) PROVE FALSE
  BY <1>0, <1>6 DEF CancelMarks, CancelScans
<1> QED BY <1>1, <1>2, <1>3, <1>4, <1>5, <1>6, Actors

\* What a call clears or marks went deaf before.
LEMMA UpStep == TypeInv /\ UpInv /\ [Next]_vars => UpInv'
<1> SUFFICES ASSUME TypeInv, UpInv, [Next]_vars PROVE UpInv'
  OBVIOUS
<1> USE DEF bridges, sessions, calls
<1>0. /\ pc \in [Calls -> Places] /\ env \in [Calls -> Envs] /\ life \in [Bridges -> {"none", "up", "deaf", "gone"}]
      /\ registered \subseteq Bridges /\ marking \subseteq Bridges
  BY DEF TypeInv, TypeOK, Places
<1>1. \A b \in Bridges : /\ life'[b] # life[b] => BridgeStep
                         /\ life[b] \notin {"none", "up"} => life'[b] \notin {"none", "up"}
  BY LifeMoves
<1>2. AllBridgesUp' => AllBridgesUp
  BY <1>1 DEF AllBridgesUp
<1>3. ASSUME NEW c \in Calls, pc[c] \in {"unregister", "mark"}
      PROVE  env[c].at \in Bridges /\ life[env[c].at] \notin {"none", "up"} /\ ~AllBridgesUp
  BY <1>3, EnvFields DEF UpInv, AllBridgesUp, TypeInv, TypeOK, CallInv, Holding
<1>4. ASSUME UNCHANGED calls
      PROVE  /\ \A c \in Calls : pc'[c] \in {"unregister", "mark"} => life'[env'[c].at] \notin {"none", "up"}
             /\ \A c \in Calls : pc'[c] = "finish" => Closing(c)
  BY <1>1, <1>3, <1>4 DEF UpInv
<1>5. ASSUME UNCHANGED <<life, registered, marking>>
      PROVE  /\ \A b \in Bridges : life'[b] = "up" => b \in registered'
             /\ \A b \in marking' : life'[b] \notin {"none", "up"}
  BY <1>5 DEF UpInv
<1>6. ASSUME lost' \subseteq lost PROVE AllBridgesUp' => lost' = {}
  BY <1>2, <1>6 DEF UpInv
<1>7. CASE UNCHANGED vars
  BY <1>4, <1>5, <1>6, <1>7 DEF vars, UpInv
<1>8. CASE BridgeStep
  <2>1. PICK b \in Bridges : \/ Register(b) \/ PingRecorded(b) \/ Restart(b) \/ Deafens(b)
                             \/ ConnectionEnds(b) \/ SessionsMarked(b)
    BY <1>8 DEF BridgeStep
  <2>2. UNCHANGED calls
    BY <2>1 DEF Register, PingRecorded, Restart, Deafens, ConnectionEnds, SessionsMarked
  <2>3. \A n \in Bridges : life'[n] = "up" => n \in registered'
    BY <1>0, <2>1 DEF UpInv, Register, PingRecorded, Restart, Deafens, ConnectionEnds, SessionsMarked, Unlist
  <2>4. \A n \in marking' : life'[n] \notin {"none", "up"}
    BY <1>0, <1>1, <2>1 DEF UpInv, Register, PingRecorded, Restart, Deafens, ConnectionEnds, SessionsMarked
  <2>5. AllBridgesUp' => lost' = {}
    <3>1. CASE SessionsMarked(b)
      <4>1. life'[b] \notin {"none", "up"}
        BY <1>0, <3>1 DEF SessionsMarked, UpInv
      <4> QED BY <4>1 DEF AllBridgesUp
    <3>2. CASE ~SessionsMarked(b)
      BY <1>6, <2>1, <3>2 DEF Register, PingRecorded, Restart, Deafens, ConnectionEnds
    <3> QED BY <3>1, <3>2
  <2> QED BY <1>4, <2>2, <2>3, <2>4, <2>5 DEF UpInv
<1>9. ASSUME NEW c \in Calls, Cmd(c) # "open", CallAct(c) PROVE UpInv'
  <2>1. /\ UNCHANGED <<life, home>> /\ pc[c] \in Resolving
        /\ \A d \in Calls : d # c => pc'[d] = pc[d] /\ env'[d] = env[d]
    BY <1>9, CallMoves DEF CallAct
  <2>2. UNCHANGED marking /\ (UNCHANGED registered \/ Unregister(c))
    BY <1>9 DEF CallAct, Bind, PickOwn, PickForSession, PickAim, PickTarget, Send,
       Unregister, ClearAndRetry, Answered, CloseReturns, CallDropped
  <2>3. /\ \A b \in Bridges : life'[b] = "up" => b \in registered'
        /\ \A b \in marking' : life'[b] \notin {"none", "up"}
    <3>1. CASE Unregister(c)
      <4>1. life[env[c].at] # "up"
        BY <1>3, <3>1 DEF Unregister
      <4> QED BY <2>1, <2>2, <3>1, <4>1 DEF Unregister, Unlist, UpInv
    <3>2. CASE UNCHANGED registered
      BY <1>5, <2>1, <2>2, <3>2
    <3> QED BY <2>2, <3>1, <3>2
  <2>4. lost' \subseteq lost \/ ClearAndRetry(c)
    <3>1. \A y, b : Refresh(y, b) => lost' \subseteq lost
      BY DEF Refresh
    <3>2. \A y : Remove(y) => lost' \subseteq lost
      BY DEF Remove
    <3> QED BY <1>9, <3>1, <3>2 DEF CallAct, Bind, PickOwn, PickForSession, PickAim, PickTarget, Send,
         Unregister, Answered, CloseReturns, CallDropped
  <2>5. AllBridgesUp' => lost' = {}
    <3>1. CASE ClearAndRetry(c)
      BY <1>2, <1>3, <3>1 DEF ClearAndRetry
    <3> QED BY <1>6, <2>4, <3>1
  <2>6. ASSUME NEW l, Ends(c, l) PROVE pc'[c] = l
    BY <2>6, EndsFacts
  <2>7. ASSUME NEW b, NEW l, Resolved(c, b, l) PROVE pc'[c] = l
    BY <1>0, <2>7 DEF Resolved
  <2>8. pc'[c] = "finish" => Closing(c)
    BY <1>0, <1>9, <2>6, <2>7 DEF CallAct, Bind, PickOwn, PickForSession, PickAim, PickTarget, Send,
       Unregister, ClearAndRetry, Answered, CloseReturns, CallDropped, Goto, Returns, Fails
  <2>9. pc'[c] \in {"unregister", "mark"} => life'[env'[c].at] \notin {"none", "up"}
    <3>1. CASE Send(c)
      <4>1. ASSUME pc'[c] \in {"unregister", "mark"} PROVE env' = env /\ life[env[c].at] # "up"
        BY <1>0, <2>6, <3>1, <4>1 DEF Send, Goto, Returns, Fails
      <4>2. life[env[c].at] # "none"
        BY <3>1 DEF Send, TypeInv, CallInv, Holding
      <4> QED BY <2>1, <4>1, <4>2
    <3>2. CASE Unregister(c)
      BY <1>3, <2>1, <3>2 DEF Unregister, Goto
    <3>3. CASE ~Send(c) /\ ~Unregister(c)
      <4>1. pc'[c] \notin {"unregister", "mark"}
        BY <1>0, <1>9, <2>6, <2>7, <3>3 DEF CallAct, Bind, PickOwn, PickForSession, PickAim, PickTarget,
           ClearAndRetry, Answered, CloseReturns, CallDropped, Returns, Fails
      <4> QED BY <4>1
    <3> QED BY <3>1, <3>2, <3>3
  <2>10. ASSUME NEW d \in Calls, pc'[d] \in {"unregister", "mark"} PROVE life'[env'[d].at] \notin {"none", "up"}
    BY <1>3, <2>1, <2>9, <2>10
  <2>11. ASSUME NEW d \in Calls, pc'[d] = "finish" PROVE Closing(d)
    BY <2>1, <2>8, <2>11 DEF UpInv
  <2> QED BY <2>3, <2>5, <2>10, <2>11 DEF UpInv
<1>10. ASSUME \A c \in Calls : \/ pc'[c] = pc[c] /\ env'[c] = env[c]
                              \/ pc'[c] \notin {"unregister", "mark", "finish"},
              UNCHANGED <<life, registered, marking>>, lost' \subseteq lost
       PROVE  UpInv'
  <2>1. \A c \in Calls : pc'[c] \in {"unregister", "mark"} => life'[env'[c].at] \notin {"none", "up"}
    BY <1>3, <1>10
  <2>2. \A c \in Calls : pc'[c] = "finish" => Closing(c)
    BY <1>10 DEF UpInv
  <2> QED BY <1>5, <1>6, <1>10, <2>1, <2>2 DEF UpInv
<1>11. ASSUME NEW x \in Sessions, OpenAct(x) PROVE UpInv'
  <2>1. /\ UNCHANGED <<life, registered, marking>>
        /\ \A d \in Calls : d \notin {Open(x), Navigate(x)} => pc'[d] = pc[d] /\ env'[d] = env[d]
        /\ \/ OpenDropped(x) \/ OpenRechecks(x)
           \/ pc'[Navigate(x)] = pc[Navigate(x)] /\ env'[Navigate(x)] = env[Navigate(x)]
    BY <1>11, OpenMoves DEF OpenAct
  <2>2. UNCHANGED lost
    BY <1>11 DEF OpenAct, OpenBegins, OpenPicks, OpenChecks, OpenInserts, OpenRechecks, OpenReturns, OpenDropped
  <2>3. Open(x) \in Calls /\ Navigate(x) \in Calls /\ Open(x) # Navigate(x)
    BY CallNames
  <2>4. pc'[Open(x)] \notin {"unregister", "mark", "finish"}
    BY <1>0, <1>11, <2>3 DEF OpenAct, OpenBegins, OpenPicks, OpenChecks, OpenInserts, OpenRechecks,
       OpenReturns, OpenDropped, Goto, Ends, Resolved
  <2>5. \/ pc'[Navigate(x)] = pc[Navigate(x)] /\ env'[Navigate(x)] = env[Navigate(x)]
        \/ pc'[Navigate(x)] \notin {"unregister", "mark", "finish"}
    <3>1. CASE OpenDropped(x)
      <4>1. pc'[Navigate(x)] \in {"idle", "failed"}
        BY <1>0, <2>3, <3>1 DEF OpenDropped
      <4> QED BY <4>1
    <3>2. CASE OpenRechecks(x)
      BY <1>0, <2>3, <3>2 DEF OpenRechecks, Ends
    <3> QED BY <2>1, <3>1, <3>2
  <2>6. \A d \in Calls : \/ (pc'[d] = pc[d] /\ env'[d] = env[d]) \/ pc'[d] \notin {"unregister", "mark", "finish"}
    BY <2>1, <2>4, <2>5
  <2> QED BY <1>10, <2>1, <2>2, <2>6
<1>12. ASSUME NEW x \in Sessions, OrphanSends(x) \/ OrphanRemoves(x) \/ Sweep(x) PROVE UpInv'
  BY <1>4, <1>5, <1>6, <1>12 DEF OrphanSends, OrphanRemoves, Sweep, Remove, UpInv
<1>13. ASSUME NEW x \in Sessions, CloseBegins(x) PROVE UpInv'
  <2>1. PICK a \in CloseAims : Begin(Close(x), a, Nil)
    BY <1>13 DEF CloseBegins
  <2>2. \A c \in Calls : \/ pc'[c] = pc[c] /\ env'[c] = env[c]
                         \/ pc'[c] \notin {"unregister", "mark", "finish"}
    BY <1>0, <2>1 DEF Begin, FirstStage
  <2> QED BY <1>10, <1>13, <2>2 DEF CloseBegins
<1>14. ASSUME NEW s \in Steps, StepBegins(s) PROVE UpInv'
  <2> DEFINE t == IF StepRequest[s] # Nil THEN StepRequest[s] ELSE Inherits(StepSession[s])
  <2>1. Ends(<<"step", s>>, "done") \/ \E a \in StepAims : Begin(<<"step", s>>, a, t)
    BY <1>14 DEF StepBegins
  <2> HIDE DEF t
  <2>2. \A c \in Calls : \/ pc'[c] = pc[c] /\ env'[c] = env[c]
                         \/ pc'[c] \notin {"unregister", "mark", "finish"}
    BY <1>0, <2>1 DEF Begin, Ends, FirstStage
  <2> QED BY <1>10, <1>14, <2>2 DEF StepBegins
<1>15. ASSUME NEW r \in Requests, CancelMarks(r) \/ CancelScans(r) PROVE UpInv'
  <2>1. \A c \in Calls : \/ pc'[c] = pc[c] /\ env'[c] = env[c]
                         \/ pc'[c] \notin {"unregister", "mark", "finish"}
    BY <1>0, <1>15 DEF CancelMarks, CancelScans
  <2> QED BY <1>10, <1>15, <2>1 DEF CancelMarks, CancelScans
<1> QED BY <1>7, <1>8, <1>9, <1>11, <1>12, <1>13, <1>14, <1>15, Actors

\* A call keeps its target and its tag until it ends.
Kept(c) == env'[c].tag \in {env[c].tag, Nil} /\ env'[c].aim \in {env[c].aim, OwnSession}

\* No step of a call gives it another target or tag.
LEMMA TargetKept == ASSUME TypeInv, NEW c \in Calls, CallAct(c) PROVE Kept(c)
<1>1. /\ env \in [Calls -> Envs] /\ env[c] \in Envs /\ registered \subseteq Bridges
      /\ records[SessionOf(c)] \in Records \cup {Nil}
  BY CallNames DEF TypeInv, TypeOK
<1>2. ASSUME NEW l, Ends(c, l) PROVE Kept(c)
  BY <1>2, EndsFacts DEF NoEnv, Kept
<1>3. ASSUME NEW b \in registered, NEW l, Resolved(c, b, l) PROVE Kept(c)
  BY <1>3, ResolvedFacts DEF Kept
<1>4. Returns(c) \/ Fails(c) => Kept(c)
  BY <1>2 DEF Returns, Fails
<1>5. ASSUME NEW l, PickForSession(c, l) PROVE Kept(c)
  <2>1. ForSession(env[c].saw) # 0 => ForSession(env[c].saw) \in registered
    BY <1>1, ForSessionIsRegistered
  <2> QED BY <1>3, <1>4, <1>5, <2>1 DEF PickForSession
<1>6. CASE Bind(c)
  <2>1. CASE records[SessionOf(c)] # Nil /\ env' = [env EXCEPT ![c].saw = records[SessionOf(c)]]
    <3>1. env'[c] = [env[c] EXCEPT !.saw = records[SessionOf(c)]]
      BY <1>1, <2>1, FieldFacts
    <3> QED BY <1>1, <3>1 DEF Envs, Kept
  <2> QED BY <1>4, <1>6, <2>1 DEF Bind
<1>7. CASE PickAim(c)
  <2>1. CASE env' = [env EXCEPT ![c].at = 0, ![c].named = Nil]
    <3>1. env'[c] = [[env[c] EXCEPT !.at = 0] EXCEPT !.named = Nil]
      BY <2>1, FieldFacts
    <3> QED BY <1>1, <3>1 DEF Envs, Kept
  <2> QED BY <1>4, <1>7, <2>1 DEF PickAim
<1>8. CASE PickTarget(c)
  <2>1. Pick(env[c].aim) # 0 => Pick(env[c].aim) \in registered
    BY <1>1, PickIsRegistered
  <2> QED BY <1>3, <1>4, <1>5, <1>8, <2>1 DEF PickTarget
<1>9. CASE ClearAndRetry(c)
  <2>1. CASE env' = [env EXCEPT ![c].again = TRUE, ![c].at = 0]
    <3>1. env'[c] = [[env[c] EXCEPT !.again = TRUE] EXCEPT !.at = 0]
      BY <2>1, FieldFacts
    <3> QED BY <1>1, <3>1 DEF Envs, Kept
  <2> QED BY <1>4, <1>9, <2>1 DEF ClearAndRetry
<1>10. CASE PickOwn(c)
  BY <1>5, <1>10 DEF PickOwn
<1>11. CASE Send(c) \/ Unregister(c) \/ Answered(c) \/ CloseReturns(c) \/ CallDropped(c)
  BY <1>2, <1>4, <1>11 DEF Send, Unregister, Answered, CloseReturns, CallDropped, Goto, Kept
<1> QED BY <1>6, <1>7, <1>8, <1>9, <1>10, <1>11 DEF CallAct

\* Targets of steps are given when they begin.
LEMMA StepAimsKept ==
  ASSUME TypeInv, [Next]_vars, NEW s \in Steps, env[<<"step", s>>].aim \in StepAims \cup {OwnSession}
  PROVE  env'[<<"step", s>>].aim \in StepAims \cup {OwnSession}
<1> DEFINE c == <<"step", s>>
<1> USE DEF calls
<1>0. c \in Calls /\ Cmd(c) = "step" /\ pc \in [Calls -> Places] /\ env \in [Calls -> Envs]
  BY CallNames DEF TypeInv, TypeOK, Places
<1> SUFFICES ASSUME env'[c] # env[c] PROVE env'[c].aim \in StepAims \cup {OwnSession}
  OBVIOUS
<1> HIDE DEF c
<1>1. ~UNCHANGED vars /\ ~BridgeStep
  BY DEF vars, BridgeStep, Register, PingRecorded, Restart, Deafens, ConnectionEnds, SessionsMarked
<1>2. ASSUME NEW d \in Calls, Cmd(d) # "open", CallAct(d) PROVE env'[c].aim \in StepAims \cup {OwnSession}
  <2>1. d = c
    BY <1>0, <1>2, CallMoves DEF CallAct
  <2> QED BY <1>2, <2>1, TargetKept DEF c, Kept
<1>3. ASSUME NEW y \in Sessions, OpenAct(y) PROVE FALSE
  <2>1. c \notin {Open(y), Navigate(y)}
    BY <1>0, CallNames
  <2> QED BY <1>0, <1>3, <2>1, OpenMoves DEF OpenAct
<1>4. ASSUME NEW y \in Sessions, OrphanSends(y) \/ OrphanRemoves(y) \/ CloseBegins(y) \/ Sweep(y)
      PROVE  FALSE
  <2>1. c # Close(y)
    BY <1>0, CallNames
  <2> QED BY <1>0, <1>4, <2>1 DEF OrphanSends, OrphanRemoves, CloseBegins, Begin, Sweep
<1>5. ASSUME NEW q \in Steps, StepBegins(q) PROVE env'[c].aim \in StepAims \cup {OwnSession}
  <2> DEFINE d == <<"step", q>>
             t == IF StepRequest[q] # Nil THEN StepRequest[q] ELSE Inherits(StepSession[q])
  <2>1. Ends(d, "done") \/ \E a \in StepAims : Begin(d, a, t)
    BY <1>5 DEF StepBegins
  <2>2. d \in Calls /\ t \in Requests \cup {Nil}
    BY CallNames, SessionsAssumption DEF Inherits
  <2> HIDE DEF d, t
  <2>3. CASE Ends(d, "done")
    <3>1. env'[d] = NoEnv /\ (d # c => env'[c] = env[c])
      BY <1>0, <2>2, <2>3, EndsFacts
    <3> QED BY <3>1, NoEnvType
  <2>4. ASSUME NEW a \in StepAims, Begin(d, a, t) PROVE env'[c].aim \in StepAims \cup {OwnSession}
    <3>1. env'[d].aim = a /\ (d # c => env'[c] = env[c])
      BY <1>0, <2>2, <2>4, BeginFacts, GivenAims
    <3> QED BY <3>1
  <2> QED BY <2>1, <2>3, <2>4
<1>6. ASSUME NEW r \in Requests, CancelMarks(r) \/ CancelScans(r) PROVE FALSE
  BY <1>6 DEF CancelMarks, CancelScans
<1> QED BY <1>1, <1>2, <1>3, <1>4, <1>5, <1>6, Actors

\* The stages of an opener before its record.
Early == {"idle", "pick", "asked", "insert"}
\* Which step leads an opener to which stage.
LEMMA Stages ==
  ASSUME TypeInv, NEW x \in Sessions, OpenAct(x)
  PROVE  /\ pc[Open(x)] \notin {"opened", "failed"} /\ pc'[Open(x)] \in Opening \cup {"opened", "failed"}
         /\ pc'[Open(x)] \in Early => pc[Open(x)] \in Early /\ UNCHANGED birth
         /\ pc'[Open(x)] = "recheck" => pc[Open(x)] = "insert" /\ OpenInserts(x)
         /\ pc'[Open(x)] \in {"navigating", "opened"} => pc[Open(x)] \in {"recheck", "navigating"}
         /\ pc[Open(x)] = "navigating" => OpenReturns(x) \/ OpenDropped(x)
<1>1. /\ Open(x) \in Calls /\ Navigate(x) \in Calls /\ Open(x) # Navigate(x)
      /\ pc \in [Calls -> Places] /\ env \in [Calls -> Envs]
  BY CallNames DEF TypeInv, TypeOK, Places
<1> USE DEF history
<1>2. CASE OpenBegins(x)
  BY <1>1, <1>2 DEF OpenBegins, Early, Opening
<1>3. CASE OpenPicks(x)
  BY <1>1, <1>3 DEF OpenPicks, Early, Opening, Ends, Resolved
<1>4. CASE OpenChecks(x)
  BY <1>1, <1>4 DEF OpenChecks, Early, Opening, Ends, Goto
<1>5. CASE OpenInserts(x)
  BY <1>1, <1>5 DEF OpenInserts, Early, Opening, Ends
<1>6. CASE OpenRechecks(x)
  BY <1>1, <1>6 DEF OpenRechecks, Early, Opening, Ends
<1>7. CASE OpenReturns(x)
  BY <1>1, <1>7 DEF OpenReturns, Early, Opening, Ends
<1>8. CASE OpenDropped(x)
  BY <1>1, <1>8 DEF OpenDropped, Early, Opening
<1> QED BY <1>2, <1>3, <1>4, <1>5, <1>6, <1>7, <1>8 DEF OpenAct

\* Navigations and steps run only at their stage of the opener, closers after the scan.
LEMMA StageStep ==
  ASSUME TypeInv, [Next]_vars, NEW x \in Sessions, StageInv(x)
  PROVE  StageInv(x)'
<1>0. /\ {Open(x), Navigate(x), Closer(x)} \subseteq Calls /\ Open(x) # Navigate(x)
      /\ Cmd(Navigate(x)) = "navigate" /\ Cmd(Closer(x)) = "closer" /\ Closing(Closer(x))
      /\ SessionOf(Navigate(x)) = x /\ SessionOf(Closer(x)) = x
      /\ pc \in [Calls -> Places] /\ env \in [Calls -> Envs]
  BY CallNames DEF Closing, TypeInv, TypeOK, Places
<1>1. \/ pc'[Open(x)] = pc[Open(x)] /\ birth'[x] = birth[x]
      \/ OpenAct(x)
  BY OpenersMove
<1>2. pc'[Navigate(x)] \in Resolving => pc'[Open(x)] = "navigating"
  <2> SUFFICES ASSUME pc'[Navigate(x)] \in Resolving, pc[Navigate(x)] \in Resolving
               PROVE  pc'[Open(x)] = "navigating"
    BY <1>0, UsersBegin
  <2>1. pc[Open(x)] = "navigating"
    BY DEF StageInv
  <2>2. ~OpenReturns(x)
    BY DEF OpenReturns, Resolving
  <2>3. ~OpenDropped(x)
    BY <1>0 DEF OpenDropped, Resolving
  <2> QED BY <1>1, <2>1, <2>2, <2>3, Stages
<1>3. ASSUME NEW s \in Steps, StepSession[s] = x, pc'[<<"step", s>>] \in Resolving
      PROVE  pc'[Open(x)] = "opened"
  <2>1. <<"step", s>> \in Calls /\ Cmd(<<"step", s>>) = "step" /\ SessionOf(<<"step", s>>) = x
    BY <1>3, CallNames
  <2>2. CASE pc[<<"step", s>>] \notin Resolving
    BY <1>3, <2>1, <2>2, UsersBegin
  <2>3. CASE pc[<<"step", s>>] \in Resolving
    BY <1>1, <1>3, <2>3, Stages DEF StageInv
  <2> QED BY <2>2, <2>3
<1>4. ASSUME pc'[Closer(x)] # "idle" PROVE Request[x] # Nil /\ cancel'[Request[x]] = "scanned"
  <2>1. CASE pc[Closer(x)] # "idle"
    <3>1. Request[x] \in Requests /\ cancel[Request[x]] = "scanned" /\ Request[x] # Nil
      BY <2>1, SessionsAssumption DEF StageInv
    <3>2. cancel'[Request[x]] = cancel[Request[x]]
      BY <3>1, CancelsMove DEF CancelMarks, CancelScans
    <3> QED BY <3>1, <3>2
  <2>2. CASE pc[Closer(x)] = "idle"
    <3>1. ~CallAct(Closer(x))
      BY <2>2 DEF CallAct, Bind, PickOwn, PickAim, PickTarget, Send, Unregister, ClearAndRetry, Answered,
         CloseReturns, CallDropped, Resolving
    <3>2. Request[x] \in Requests /\ CancelScans(Request[x])
      BY <1>0, <1>4, <2>2, <3>1, ClosesMove
    <3> QED BY <3>2, SessionsAssumption DEF CancelScans, TypeInv, TypeOK
  <2> QED BY <2>1, <2>2
<1>5. env'[Closer(x)].tag = Nil
  <2>1. env[Closer(x)].tag = Nil
    BY DEF StageInv
  <2>2. CASE CallAct(Closer(x))
    BY <1>0, <2>1, <2>2, TargetKept DEF Kept
  <2>3. CASE ~CallAct(Closer(x))
    BY <1>0, <2>1, <2>3, ClosesMove
  <2> QED BY <2>2, <2>3
<1>6. pc'[Open(x)] \in Early => birth'[x] = Nil
  BY <1>1, Stages DEF StageInv, Early
<1>8. \A s \in Steps : StepSession[s] = x => env'[<<"step", s>>].aim \in StepAims \cup {OwnSession}
  BY StepAimsKept DEF StageInv
<1>9. ASSUME pc'[Open(x)] \in {"recheck", "navigating", "opened"} PROVE birth'[x] # Nil
  <2>1. CASE OpenInserts(x)
    <3>1. birth'[x] = home[env[Open(x)].at] /\ env[Open(x)].at # 0
      BY <1>0, <2>1 DEF OpenInserts, TypeInv, TypeOK, CallInv, Holding
    <3>2. env[Open(x)].at \in Bridges /\ home[env[Open(x)].at] \in Homes
      BY <1>0, <3>1, EnvFields DEF TypeInv, CallInv, BridgesInv
    <3> QED BY <3>1, <3>2, SessionsAssumption
  <2>2. CASE ~OpenInserts(x)
    <3>1. birth'[x] = birth[x]
      BY <2>2, OpenersMove DEF OpenAct, OpenBegins, OpenPicks, OpenChecks, OpenRechecks, OpenReturns,
         OpenDropped, history
    <3>2. pc[Open(x)] \in {"recheck", "navigating", "opened"}
      BY <1>1, <1>9, <2>2, Stages
    <3> QED BY <3>1, <3>2 DEF StageInv
  <2> QED BY <2>1, <2>2
<1>7. ASSUME pc'[Open(x)] \in Early \cup {"recheck"}, NEW h \in Homes, <<x, h>> \in tabs' PROVE FALSE
  <2>1. pc[Open(x)] \in Early \cup {"recheck"}
    BY <1>1, <1>7, Stages DEF Early
  <2>2. <<x, h>> \notin tabs
    BY <2>1 DEF StageInv, Early
  <2>3. PICK c \in Calls : Sent(c) /\ SessionOf(c) = x /\ Cmd(c) \in {"navigate", "step"}
    BY <1>7, <2>2, TabsMove
  <2>4. pc[c] \in Resolving
    BY <2>3 DEF Sent, Resolving
  <2>5. c = Navigate(x) \/ \E s \in Steps : c = <<"step", s>> /\ StepSession[s] = x
    BY <2>3, CallNames
  <2> QED BY <2>1, <2>4, <2>5 DEF StageInv, Early
<1> QED BY <1>2, <1>3, <1>4, <1>5, <1>6, <1>7, <1>8, <1>9 DEF StageInv, Early

\* A new tab means a call under way, and a session that is in use.
LEMMA TabsOfUsers ==
  ASSUME TypeInv, [Next]_vars, NEW x \in Sessions, StageInv(x), NEW h, <<x, h>> \in tabs', <<x, h>> \notin tabs
  PROVE  pc[Open(x)] \in {"navigating", "opened"}
<1>1. PICK c \in Calls : Sent(c) /\ SessionOf(c) = x /\ Cmd(c) \in {"navigate", "step"}
  BY TabsMove
<1>2. pc[c] \in Resolving
  BY <1>1 DEF Sent, Resolving
<1>3. c = Navigate(x) \/ \E s \in Steps : c = <<"step", s>> /\ StepSession[s] = x
  BY <1>1, CallNames
<1> QED BY <1>2, <1>3 DEF StageInv

\* A guard is set by OpenChecks, and then only kept or cleared.
LEMMA GuardValues ==
  ASSUME TypeInv, [Next]_vars, NEW x \in Sessions
  PROVE  /\ guard'[x] \in {guard[x], 0} \/ (OpenChecks(x) /\ guard'[x] = env[Open(x)].at)
         /\ guard'[x] # guard[x] => OpenAct(x) \/ OrphanSends(x)
<1>1. DOMAIN guard = Sessions /\ guard[x] \in Bridges \cup {0}
  BY DEF TypeInv, TypeOK
<1> QED BY <1>1, GuardsMove DEF OpenAct, OpenBegins, OpenPicks, OpenChecks, OpenInserts, OpenRechecks,
     OpenReturns, OpenDropped, OrphanSends, OrphanRemoves, CallDropped, DropGuard, Disarm, guards

\* An orphan close begins where the opener fails.
LEMMA OrphansBegin ==
  ASSUME TypeInv, NEW x \in Sessions, OpenAct(x), orphan'[x] # orphan[x]
  PROVE  /\ pc'[Open(x)] = "failed" /\ pc[Open(x)] \in {"insert", "recheck", "navigating"}
         /\ guard' = guard /\ UNCHANGED <<tabs, birth>>
         /\ orphan'[x] = IF guard[x] # 0 THEN "queue" ELSE "remove"
<1>1. /\ Open(x) \in Calls /\ Open(x) # Navigate(x) /\ DOMAIN pc = Calls /\ DOMAIN orphan = Sessions
  BY CallNames DEF TypeInv, TypeOK
<1>2. DropGuard(x) /\ (OpenRechecks(x) \/ OpenReturns(x) \/ OpenDropped(x))
  BY <1>1 DEF OpenAct, OpenBegins, OpenPicks, OpenChecks, OpenInserts, OpenRechecks, OpenReturns, OpenDropped,
     Disarm, guards
<1>3. orphan'[x] = (IF guard[x] # 0 THEN "queue" ELSE "remove") /\ guard' = guard
  BY <1>1, <1>2 DEF DropGuard
<1>4. pc[Open(x)] \in {"insert", "recheck", "navigating"} /\ pc'[Open(x)] = "failed" /\ UNCHANGED <<tabs, birth>>
  BY <1>1, <1>2, <1>3 DEF OpenRechecks, OpenReturns, OpenDropped, Ends, Disarm, guards, history
<1> QED BY <1>3, <1>4

\* The guard keeps the bridge of the open until the opener ends or its orphan close is sent.
LEMMA GuardStep ==
  ASSUME TypeInv, [Next]_vars, NEW x \in Sessions, StageInv(x), GuardInv(x)
  PROVE  GuardInv(x)'
<1>0. /\ Open(x) \in Calls /\ guard[x] \in Bridges \cup {0} /\ env[Open(x)] \in Envs
      /\ env[Open(x)].at \in Bridges \cup {0}
      /\ orphan \in [Sessions -> {"no", "queue", "remove", "removed", "refused"}]
      /\ guard \in [Sessions -> Bridges \cup {0}]
      /\ \A h : <<x, h>> \in tabs => h \in Homes
      /\ Nil \notin Homes
      /\ birth \in [Sessions -> Homes \cup {Nil}] /\ birth[x] \in Homes \cup {Nil}
      /\ pc \in [Calls -> Places]
  BY CallNames, EnvFields, SessionsAssumption DEF TypeInv, TypeOK, Places
<1>1. \/ pc'[Open(x)] = pc[Open(x)] /\ env'[Open(x)] = env[Open(x)] /\ birth'[x] = birth[x]
      \/ OpenAct(x)
  BY OpenersMove
<1>2. \A b \in Bridges : life[b] # "none" => life'[b] # "none" /\ home'[b] = home[b]
  BY AlwaysGrows DEF Grows
<1>3. OpenChecks(x) => /\ pc[Open(x)] = "asked" /\ birth[x] = Nil /\ env[Open(x)].at # 0
                       /\ life[env[Open(x)].at] # "none" /\ UNCHANGED birth
  BY <1>0 DEF OpenChecks, TypeInv, CallInv, Holding, StageInv, history
<1>4. ASSUME guard'[x] # 0
      PROVE  /\ life'[guard'[x]] # "none"
             /\ birth'[x] # Nil => home'[guard'[x]] = birth'[x]
             /\ pc'[Open(x)] = "insert" => guard'[x] = env'[Open(x)].at
  <2>1. CASE OpenChecks(x)
    <3>1. pc'[Open(x)] = "insert" => env' = env /\ guard'[x] = env[Open(x)].at
      BY <1>0, <1>4, <2>1 DEF OpenChecks, Goto, Ends
    <3>2. guard'[x] = guard[x] \/ guard'[x] = env[Open(x)].at
      BY <1>4, GuardValues
    <3> QED BY <1>0, <1>2, <1>3, <1>4, <2>1, <3>1, <3>2 DEF GuardInv
  <2>2. CASE ~OpenChecks(x)
    <3>1. guard'[x] = guard[x] /\ guard[x] # 0 /\ guard[x] \in Bridges
      BY <1>0, <1>4, <2>2, GuardValues
    <3>2. life'[guard'[x]] # "none" /\ home'[guard[x]] = home[guard[x]]
      BY <1>2, <3>1 DEF GuardInv
    <3>3. birth'[x] # Nil => home[guard[x]] = birth'[x]
      <4>1. CASE birth'[x] = birth[x]
        BY <3>1, <4>1 DEF GuardInv
      <4>2. CASE birth'[x] # birth[x]
        <5>1. OpenInserts(x)
          BY <1>1, <4>2 DEF OpenAct, OpenBegins, OpenPicks, OpenChecks, OpenRechecks, OpenReturns, OpenDropped, history
        <5>2. birth'[x] = home[env[Open(x)].at] /\ pc[Open(x)] = "insert"
          BY <1>0, <5>1 DEF OpenInserts
        <5> QED BY <3>1, <5>2 DEF GuardInv
      <4> QED BY <4>1, <4>2
    <3>4. pc'[Open(x)] = "insert" => guard[x] = env'[Open(x)].at
      <4>1. CASE OpenAct(x)
        <5>1. pc'[Open(x)] # "insert"
          BY <1>0, <2>2, <4>1, CallNames DEF OpenAct, OpenBegins, OpenPicks, OpenInserts, OpenRechecks,
             OpenReturns, OpenDropped, Ends, Resolved
        <5> QED BY <5>1
      <4>2. CASE ~OpenAct(x)
        BY <1>1, <3>1, <4>2 DEF GuardInv
      <4> QED BY <4>1, <4>2
    <3> QED BY <3>1, <3>2, <3>3, <3>4
  <2> QED BY <2>1, <2>2
<1>5. ASSUME Calm(x)'
      PROVE  /\ pc'[Open(x)] = "navigating" \/ orphan'[x] = "queue" => guard'[x] # 0
             /\ pc'[Open(x)] # "failed" => orphan'[x] = "no"
             /\ orphan'[x] \in {"remove", "removed"} => <<x, birth'[x]>> \notin tabs'
  <2>0. Calm(x)
    BY <1>5, CalmWas
  <2>1. ~CallDropped(Close(x))
    BY <2>0 DEF Calm, CallDropped, Resolving
  <2>2. CASE OpenAct(x)
    <3>1. pc[Open(x)] # "failed" /\ orphan[x] = "no"
      BY <2>0, <2>2, Stages DEF GuardInv
    <3>2. CASE orphan'[x] = orphan[x]
      <4>1. pc'[Open(x)] = "navigating" => guard'[x] # 0
        <5>1. pc[Open(x)] = "navigating" => pc'[Open(x)] # "navigating"
          BY <1>0, <2>2, Stages, CallNames DEF OpenReturns, OpenDropped, Ends
        <5>2. pc'[Open(x)] = "navigating" => OpenRechecks(x)
          BY <1>0, <2>2, Stages, <5>1 DEF OpenAct, OpenBegins, OpenPicks, OpenChecks, OpenInserts, OpenReturns, OpenDropped
        <5>3. pc'[Open(x)] = "navigating" => guard' = guard /\ guard[x] # 0
          BY <1>0, <5>2 DEF OpenRechecks, Ends, guards
        <5> QED BY <5>3
      <4> QED BY <3>1, <3>2, <4>1
    <3>3. CASE orphan'[x] # orphan[x]
      <4>1. /\ pc'[Open(x)] = "failed" /\ pc[Open(x)] \in {"insert", "recheck", "navigating"}
            /\ guard' = guard /\ UNCHANGED <<tabs, birth>>
            /\ orphan'[x] = IF guard[x] # 0 THEN "queue" ELSE "remove"
        BY <2>2, <3>3, OrphansBegin
      <4>2. orphan'[x] = "remove" => pc[Open(x)] \in {"insert", "recheck"}
        BY <2>0, <4>1 DEF GuardInv
      <4>3. orphan'[x] = "remove" => <<x, birth[x]>> \notin tabs
        BY <1>0, <4>2 DEF StageInv
      <4> QED BY <4>1, <4>3
    <3> QED BY <3>2, <3>3
  <2>3. CASE OrphanSends(x)
    <3>1. orphan[x] = "queue" /\ guard[x] # 0 /\ guard[x] \in Bridges
      BY <1>0, <2>0, <2>3 DEF OrphanSends, GuardInv
    <3>2. life[guard[x]] = "up"
      BY <2>0, <3>1 DEF GuardInv, Calm, AllBridgesUp
    <3>3. /\ tabs' = tabs \ {<<x, home[guard[x]]>>} /\ orphan'[x] = "remove"
          /\ pc' = pc /\ birth' = birth
      BY <1>0, <2>3, <3>2 DEF OrphanSends, calls
    <3>4. pc[Open(x)] = "failed"
      BY <2>0, <3>1 DEF GuardInv
    <3>5. <<x, birth[x]>> \notin tabs'
      BY <1>0, <3>1, <3>3 DEF GuardInv
    <3> QED BY <3>3, <3>4, <3>5
  <2>4. CASE ~OpenAct(x) /\ ~OrphanSends(x)
    <3>1. /\ guard'[x] = guard[x] /\ pc'[Open(x)] = pc[Open(x)] /\ birth'[x] = birth[x]
      BY <1>1, <2>4, GuardValues
    <3>2. orphan'[x] = orphan[x] \/ (orphan[x] = "remove" /\ orphan'[x] = "removed")
      BY <1>0, <2>1, <2>4, GuardsMove DEF OrphanRemoves
    <3>3. orphan'[x] \in {"remove", "removed"} => <<x, birth[x]>> \notin tabs /\ pc[Open(x)] = "failed"
      BY <2>0, <3>2 DEF GuardInv
    <3>4. orphan'[x] \in {"remove", "removed"} => <<x, birth[x]>> \notin tabs'
      BY <3>3, TabsOfUsers
    <3> QED BY <2>0, <3>1, <3>2, <3>4 DEF GuardInv
  <2> QED BY <2>2, <2>3, <2>4
<1> QED BY <1>4, <1>5 DEF GuardInv

\* While all is calm a record is removed only by the closer or by an orphan close.
LEMMA RecordsStay ==
  ASSUME TypeInv, UpInv, [Next]_vars, NEW x \in Sessions, Calm(x), records[x] # Nil, records'[x] = Nil
  PROVE  orphan[x] = "remove" \/ pc[Closer(x)] = "finish"
<1>1. lost = {} /\ pc[Close(x)] # "finish"
  BY DEF Calm, UpInv
<1> QED BY <1>1, RecordsLeave DEF OrphanRemoves, Sweep

\* Nobody but a cancellation's closer removes the record of a session in use.
LEMMA UsedStep ==
  ASSUME TypeInv, UpInv, [Next]_vars, NEW x \in Sessions, StageInv(x), GuardInv(x), UsedInv(x)
  PROVE  UsedInv(x)'
<1> SUFFICES ASSUME Calm(x)', Request[x] # Nil, cancel'[Request[x]] # "scanned",
                    pc'[Open(x)] \in {"recheck", "navigating", "opened"}, records'[x] = Nil
             PROVE  FALSE
  BY DEF UsedInv
<1>1. Calm(x) /\ Request[x] \in Requests
  BY CalmWas, SessionsAssumption
<1>2. cancel[Request[x]] # "scanned"
  BY <1>1, CancelsMove DEF CancelMarks, CancelScans
<1>3. CASE pc[Open(x)] \in {"recheck", "navigating", "opened"}
  <2>1. records[x] # Nil
    BY <1>1, <1>2, <1>3 DEF UsedInv
  <2>2. orphan[x] # "remove"
    BY <1>1, <1>3 DEF GuardInv
  <2>3. pc[Closer(x)] # "finish"
    BY <1>2 DEF StageInv
  <2> QED BY <1>1, <2>1, <2>2, <2>3, RecordsStay
<1>4. CASE pc[Open(x)] \notin {"recheck", "navigating", "opened"}
  <2>1. OpenAct(x)
    BY <1>4, OpenersMove
  <2>2. OpenInserts(x)
    BY <1>4, <2>1, Stages
  <2>3. /\ Open(x) \in Calls /\ pc[Open(x)] = "insert" /\ DOMAIN records = Sessions
        /\ records' = [records EXCEPT ![x] = Bound(env[Open(x)].at, env[Open(x)].named)]
    BY <2>2, CallNames DEF OpenInserts, TypeInv, TypeOK
  <2>4. env[Open(x)].at \in Bridges /\ env[Open(x)].named \in Instances \cup {Nil}
    BY <2>3, EnvFields DEF TypeInv, TypeOK, CallInv, Holding
  <2>5. Bound(env[Open(x)].at, env[Open(x)].named) # Nil
    BY <2>4, SessionsAssumption DEF Bound, Records
  <2> QED BY <2>3, <2>5
<1> QED BY <1>3, <1>4

\* The close of a cancellation reaches the tab, once it has found a record.
LEMMA CloserCloses ==
  ASSUME TypeInv, HomeInv, UpInv, [Next]_vars, NEW x \in Sessions, StageInv(x), Calm(x),
         \/ pc[Closer(x)] \in {"pick", "send"}
         \/ pc[Closer(x)] = "bind" /\ records[x] # Nil,
         CallAct(Closer(x))
  PROVE  pc'[Closer(x)] \in {"pick", "send"} \/ <<x, birth[x]>> \notin tabs'
<1> DEFINE c == Closer(x)
<1>0. /\ c \in Calls /\ Cmd(c) = "closer" /\ SessionOf(c) = x /\ Closing(c)
      /\ pc \in [Calls -> Places] /\ env[c] \in Envs /\ env[c].tag = Nil /\ env[c].aim \in Aims
      /\ registered \subseteq Bridges
      /\ pc[c] \in {"bind", "pick", "send"}
  BY CallNames, EnvFields DEF Closing, TypeInv, TypeOK, Places, StageInv
<1>1. env[c].aim = OwnSession /\ ~env[c].aim.soft
  <2>1. env[c].aim.by = "session"
    BY <1>0 DEF HomeInv, CallHome
  <2>2. \A a \in Explicit \cup {Default} : a.by \in {"bridge", "instance", "browser", "default"}
    BY DEF Explicit, Default, Aim
  <2>3. env[c].aim = OwnSession
    BY <1>0, <2>1, <2>2 DEF Aims
  <2> QED BY <2>3 DEF OwnSession, Aim
<1>2. \A b \in Bridges : life[b] # "none" => life[b] = "up" /\ b \in registered
  BY DEF Calm, AllBridgesUp, UpInv
<1> HIDE DEF c
<1>3. CASE pc[c] = "bind"
  <2>1. Bind(c)
    BY <1>0, <1>3 DEF CallAct, PickOwn, PickAim, PickTarget, Send, Unregister, ClearAndRetry,
       Answered, CloseReturns, CallDropped, c
  <2>2. records[x] # Nil
    BY <1>3 DEF c
  <2> QED BY <1>0, <1>3, <2>1, <2>2 DEF Bind, c
<1>4. CASE pc[c] = "pick"
  <2>1. PickTarget(c)
    BY <1>0, <1>4 DEF CallAct, Bind, PickOwn, PickAim, Send, Unregister, ClearAndRetry,
       Answered, CloseReturns, CallDropped, c
  <2>2. PickForSession(c, "send")
    BY <1>1, <2>1 DEF PickTarget, OwnSession, Aim
  <2>3. env[c].saw \in Records /\ AtHome(env[c].saw, x)
    BY <1>0, <1>1, <1>4, EnvFields DEF TypeInv, CallInv, HomeInv, CallHome, OwnSession, Aim
  <2>4. ForSession(env[c].saw) # 0
    <3>1. env[c].saw.bridge \in Bridges /\ env[c].saw.bridge \in registered
      BY <1>2, <2>3, RecordFields DEF AtHome
    <3>2. 0 \notin Bridges
      BY SessionsAssumption DEF Bridges
    <3> DEFINE same == {b \in SameInstance(env[c].saw) : Compatible(env[c].saw, b)}
    <3>3. same # {} => Newest(same) \in Bridges
      BY <1>0, NewestIsIn DEF SameInstance, OfInstance
    <3> QED BY <1>0, <3>1, <3>2, <3>3 DEF ForSession
  <2>5. Resolved(c, ForSession(env[c].saw), "send")
    BY <2>2, <2>4 DEF PickForSession
  <2>6. pc'[c] = "send"
    BY <1>0, <2>5 DEF Resolved
  <2> QED BY <2>6 DEF c
<1>5. CASE pc[c] = "send"
  <2>1. Send(c)
    BY <1>0, <1>5 DEF CallAct, Bind, PickOwn, PickAim, PickTarget, Unregister, ClearAndRetry,
       Answered, CloseReturns, CallDropped, c
  <2>2. env[c].at \in Bridges /\ life[env[c].at] = "up" /\ home[env[c].at] = birth[x]
    BY <1>0, <1>1, <1>2, <1>5, EnvFields DEF TypeInv, CallInv, Holding, HomeInv, CallHome, OwnSession, Aim
  <2>3. ~Marked(env[c].tag)
    BY <1>0 DEF Marked
  <2>4. Delivered(c)
    BY <2>1, <2>2, <2>3 DEF Send
  <2>5. tabs' = tabs \ {<<x, birth[x]>>}
    BY <1>0, <1>1, <2>2, <2>4 DEF Delivered
  <2> QED BY <2>5
<1> QED BY <1>0, <1>3, <1>4, <1>5

\* While there is a tab somebody will close it: the scan finds the record, and what removes
\* the record in between is an orphan close that has closed the tab.
LEMMA TabStep ==
  ASSUME TypeInv, HomeInv, QuietInv, UpInv, [Next]_vars, NEW x \in Sessions,
         StageInv(x), GuardInv(x), UsedInv(x), TabInv(x), GuardInv(x)'
  PROVE  TabInv(x)'
<1> SUFFICES ASSUME Calm(x)', Request[x] # Nil, StepsAreOwn(x), <<x, birth'[x]>> \in tabs'
             PROVE  WillClose(x)'
  BY DEF TabInv, StepsAreOwn
<1>1. Calm(x) /\ Request[x] \in Requests
  BY CalmWas, SessionsAssumption
<1>2. birth'[x] = birth[x] /\ pc'[Open(x)] \notin Early \cup {"recheck"}
  <2>1. \A h : <<x, h>> \in tabs' => h \in Homes
    BY TypeStep DEF TypeInv, TypeOK
  <2>2. pc'[Open(x)] \notin Early \cup {"recheck"}
    BY <2>1, StageStep DEF StageInv, Early
  <2>3. OpenInserts(x) => pc'[Open(x)] = "recheck"
    BY CallNames DEF OpenInserts, Ends, TypeInv, TypeOK
  <2>4. birth'[x] # birth[x] => OpenInserts(x)
    BY OpenersMove DEF OpenAct, OpenBegins, OpenPicks, OpenChecks, OpenRechecks, OpenReturns, OpenDropped, history
  <2> QED BY <2>2, <2>3, <2>4
<1>3. cancel'[Request[x]] # "scanned" => cancel[Request[x]] # "scanned"
  BY <1>1, CancelsMove DEF CancelMarks, CancelScans
<1>4. orphan[x] # "remove"
  BY <1>1, <1>2, TabsOfUsers DEF GuardInv
<1>5. CASE <<x, birth[x]>> \notin tabs
  <2>1. PICK c \in Calls : /\ Sent(c) /\ SessionOf(c) = x /\ Cmd(c) \in {"navigate", "step"}
                           /\ ~env[c].aim.soft
    BY <1>2, <1>5, TabsMove
  <2>2. Obliged(c) /\ pc[c] = "send" /\ pc[c] \in Resolving
    BY <2>1, CallNames DEF Obliged, Sent, Resolving, StepsAreOwn
  <2>3. env[c].tag = Request[x]
    BY <2>1, <2>2 DEF QuietInv, Tagged
  <2>4. cancel[Request[x]] = "no"
    BY <2>1, <2>3, SentUnmarked DEF Marked
  <2>5. pc[Open(x)] \in {"navigating", "opened"}
    BY <1>2, <1>5, TabsOfUsers
  <2>6. records[x] # Nil /\ pc[Closer(x)] = "idle"
    BY <1>1, <2>4, <2>5 DEF UsedInv, StageInv
  <2>7. records'[x] # Nil
    BY <1>1, <1>4, <2>6, RecordsStay
  <2>8. cancel'[Request[x]] # "scanned"
    BY <1>1, <2>4, CancelsMove DEF CancelMarks, CancelScans, TypeInv, TypeOK
  <2> QED BY <2>7, <2>8 DEF WillClose
<1>6. CASE <<x, birth[x]>> \in tabs
  <2>1. WillClose(x)
    BY <1>1, <1>6 DEF TabInv
  <2>2. CASE orphan[x] = "queue"
    <3>1. orphan'[x] \in {"queue", "remove"} \/ orphan'[x] = orphan[x]
      <4>1. pc[Open(x)] = "failed"
        BY <1>1, <2>2 DEF GuardInv
      <4>2. ~OpenAct(x)
        BY <4>1, Stages
      <4>3. orphan'[x] # orphan[x] => OrphanSends(x)
        BY <1>1, <2>2, <4>2, GuardsMove DEF OrphanRemoves, CallDropped, Calm, Resolving
      <4>4. OrphanSends(x) => orphan'[x] = "remove"
        <5>1. guard[x] \in Bridges /\ life[guard[x]] = "up"
          BY <1>1, <2>2 DEF GuardInv, Calm, AllBridgesUp, TypeInv, TypeOK
        <5> QED BY <5>1 DEF OrphanSends, TypeInv, TypeOK
      <4> QED BY <4>3, <4>4
    <3>2. orphan'[x] # "remove"
      BY <1>2 DEF GuardInv
    <3> QED BY <2>2, <3>1, <3>2 DEF WillClose
  <2>3. CASE pc[Closer(x)] \in {"pick", "send"} \/ (pc[Closer(x)] = "bind" /\ records[x] # Nil)
    <3>1. CASE CallAct(Closer(x))
      BY <1>1, <1>2, <2>3, <3>1, CloserCloses DEF WillClose
    <3>2. CASE ~CallAct(Closer(x))
      <4>1. Closer(x) \in Calls /\ Closing(Closer(x)) /\ Cmd(Closer(x)) = "closer" /\ SessionOf(Closer(x)) = x
        BY CallNames DEF Closing
      <4>2. cancel[Request[x]] = "scanned"
        BY <2>3 DEF StageInv
      <4>3. pc'[Closer(x)] = pc[Closer(x)]
        BY <3>2, <4>1, <4>2, ClosesMove DEF CancelScans
      <4>4. pc[Closer(x)] = "bind" => records'[x] # Nil
        BY <1>1, <1>4, <2>3, RecordsStay
      <4> QED BY <2>3, <4>3, <4>4 DEF WillClose
    <3> QED BY <3>1, <3>2
  <2>4. CASE records[x] # Nil /\ cancel[Request[x]] # "scanned"
    <3>1. pc[Closer(x)] = "idle"
      BY <2>4 DEF StageInv
    <3>2. records'[x] # Nil
      BY <1>1, <1>4, <2>4, <3>1, RecordsStay
    <3>3. CASE cancel'[Request[x]] # "scanned"
      BY <3>2, <3>3 DEF WillClose
    <3>4. CASE cancel'[Request[x]] = "scanned"
      <4>1. CancelScans(Request[x])
        BY <1>1, <2>4, <3>4, CancelsMove DEF CancelMarks, TypeInv, TypeOK
      <4>2. pc'[Closer(x)] = "bind"
        BY <2>4, <4>1, CallNames DEF CancelScans
      <4> QED BY <3>2, <4>2 DEF WillClose
    <3> QED BY <3>3, <3>4
  <2> QED BY <2>1, <2>2, <2>3, <2>4 DEF WillClose
<1> QED BY <1>5, <1>6

\* All of it together is kept by every step, and holds at the start.
LEMMA CloseStep == TypeInv /\ HomeInv /\ QuietInv /\ UpInv /\ CloseInv /\ [Next]_vars => CloseInv'
  BY StageStep, GuardStep, UsedStep, TabStep DEF CloseInv

LEMMA CloseInit == Init => UpInv /\ CloseInv /\ TabsAtHome
  BY CallNames DEF Init, UpInv, CloseInv, StageInv, GuardInv, UsedInv, TabInv, TabsAtHome, NoEnv, Resolving, AllBridgesUp

\* A firm frame is for the installation of the session, or one that shares its instance.
LEMMA TabsAtHomeStep ==
  TypeInv /\ HomeInv /\ CloseInv /\ TabsAtHome /\ [Next]_vars => TabsAtHome'
<1> SUFFICES ASSUME TypeInv, HomeInv, CloseInv, TabsAtHome, [Next]_vars, AimsAreHome,
                    NEW x \in Sessions, NEW h \in Homes, <<x, h>> \in tabs'
             PROVE  h = birth'[x]
  BY DEF TabsAtHome, AimsAreHome
<1>0. StageInv(x)
  BY DEF CloseInv
<1>1. birth'[x] = birth[x]
  <2>1. StageInv(x)'
    BY <1>0, StageStep
  <2>2. pc'[Open(x)] # "recheck"
    BY <2>1 DEF StageInv
  <2>3. OpenInserts(x) => pc'[Open(x)] = "recheck"
    BY CallNames DEF OpenInserts, Ends, TypeInv, TypeOK
  <2>4. birth'[x] # birth[x] => OpenInserts(x)
    BY OpenersMove DEF OpenAct, OpenBegins, OpenPicks, OpenChecks, OpenRechecks, OpenReturns, OpenDropped, history
  <2> QED BY <2>2, <2>3, <2>4
<1>2. CASE <<x, h>> \in tabs
  BY <1>1, <1>2 DEF TabsAtHome
<1>3. CASE <<x, h>> \notin tabs
  <2>1. PICK c \in Calls : /\ Sent(c) /\ SessionOf(c) = x /\ home[env[c].at] = h
                           /\ Cmd(c) \in {"navigate", "step"} /\ ~env[c].aim.soft
    BY <1>3, TabsMove
  <2>2. pc[c] = "send" /\ CallHome(c) /\ Cmd(c) # "open" /\ birth[x] \in Homes
    <3>1. birth[x] # Nil
      BY <1>0, <1>3, TabsOfUsers DEF StageInv
    <3> QED BY <2>1, <3>1 DEF Sent, HomeInv, TypeInv, TypeOK
  <2>3. CASE env[c].aim.by = "session"
    BY <1>1, <2>1, <2>2, <2>3 DEF CallHome
  <2>4. CASE env[c].aim.by # "session"
    <3>1. env[c].aim \in StepAims
      <4>1. Cmd(c) = "step"
        BY <2>1, <2>2, <2>4 DEF CallHome
      <4>2. c = <<"step", c[2]>> /\ c[2] \in Steps /\ StepSession[c[2]] = x
        BY <2>1, <4>1, CallNames
      <4>3. env[c].aim \in StepAims \cup {OwnSession}
        BY <1>0, <4>2 DEF StageInv
      <4> QED BY <2>4, <4>3 DEF OwnSession, Aim
    <3>2. env[c].aim.by \in {"bridge", "instance"}
      <4>1. \A a \in Explicit : a.by \in {"bridge", "instance", "browser"}
        BY DEF Explicit, Aim
      <4>2. OwnSession.by = "session"
        BY DEF OwnSession, Aim
      <4>3. env[c].aim \in Explicit
        BY <2>4, <3>1, <4>2, SessionsAssumption
      <4> QED BY <2>1, <3>1, <4>1, <4>3 DEF AimsAreHome
    <3>3. Instance[h] = Instance[birth[x]]
      BY <2>1, <2>2, <3>2 DEF CallHome
    <3> QED BY <1>1, <2>2, <3>3 DEF AimsAreHome
  <2> QED BY <2>3, <2>4
<1> QED BY <1>2, <1>3

\* A cancelled opener leaves no tab behind, where nothing is lost.
THEOREM CancelledLeavesNoTabHolds == Spec => []CancelledLeavesNoTab
<1>1. TypeInv /\ UpInv /\ CloseInv /\ TabsAtHome => CancelledLeavesNoTab
  <2> SUFFICES ASSUME TypeInv, UpInv, CloseInv, TabsAtHome, NEW x \in Sessions, Request[x] # Nil,
                      StepsAreOwn(x), Settled(x), AllBridgesUp, pc[Close(x)] = "idle"
               PROVE  /\ <<x, birth[x]>> \notin tabs
                      /\ AimsAreHome => \A h \in Homes : <<x, h>> \notin tabs
    BY DEF CancelledLeavesNoTab
  <2>1. Closer(x) \in Calls /\ SessionOf(Closer(x)) = x
    BY CallNames
  <2>2. ~WillClose(x)
    BY <2>1 DEF Settled, Quiet, WillClose, Resolving
  <2>3. <<x, birth[x]>> \notin tabs
    BY <2>2 DEF CloseInv, TabInv, Calm
  <2> QED BY <2>3 DEF TabsAtHome
<1>2. Init => QuietInv
  BY DEF Init, QuietInv, Resolving
<1> QED BY <1>1, <1>2, TypeInit, TypeStep, HomeInit, HomeStep, QuietStep, CloseInit, UpStep, CloseStep,
     TabsAtHomeStep, PTL DEF Spec
=============================================================================
