----------------------------- MODULE ExtensionCall -----------------------------
(***************************************************************************)
(* What the bridge promises the callers of try_call_native_bridge_raw: a   *)
(* call is given to a native host once at most, an answer means that it    *)
(* was, and a refusal that it was not and never will be. After a           *)
(* disconnect, a timeout or a dropped caller it may have been, or still    *)
(* be. Abstracts the bridges, queues and hosts of NativeBridge.            *)
(***************************************************************************)
EXTENDS Integers

CONSTANTS Calls, Refusals

VARIABLES
  told, \* what the caller of each call was told, "open" before
  runs  \* how many hosts the call was given to

vars == <<told, runs>>

Outcomes == Refusals \cup {"answered", "disconnected", "timeout", "dropped"}

Init == told = [c \in Calls |-> "open"] /\ runs = [c \in Calls |-> 0]

Give(c) ==
  /\ runs[c] = 0 /\ told[c] \notin Refusals
  /\ runs' = [runs EXCEPT ![c] = 1]
  /\ UNCHANGED told

Tell(c) ==
  /\ told[c] = "open"
  /\ \E o \in Outcomes :
       /\ o \in Refusals => runs[c] = 0
       /\ o = "answered" => runs[c] = 1
       /\ told' = [told EXCEPT ![c] = o]
  /\ UNCHANGED runs

Next == \E c \in Calls : Give(c) \/ Tell(c)

Spec == Init /\ [][Next]_vars
=============================================================================
