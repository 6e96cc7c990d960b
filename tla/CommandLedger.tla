---------------------------- MODULE CommandLedger ----------------------------
(***************************************************************************)
(* What the supervisor promises a cloud backend about the commands it      *)
(* sends (docs/reviews/2026-09-24-stability-audit.md, "Direct Cloud Actor  *)
(* commands"): a command runs at most once, and what is said about it is   *)
(* consistent.  CloudReceipts implements it.                               *)
(***************************************************************************)
EXTENDS Integers

CONSTANTS Envelopes,  \* <<scope, command_id, fingerprint>>
          Verdicts    \* what can be said about an envelope

VARIABLES ran, told

SameCommand(e, f) == e[1] = f[1] /\ e[2] = f[2]

Init ==
  /\ ran = [e \in Envelopes |-> 0]
  /\ told = [e \in Envelopes |-> {}]

\* A command reaches the browser once, under one fingerprint, and never after
\* it was reported as not dispatched.
Run(e) ==
  /\ \A f \in Envelopes : SameCommand(e, f) => ran[f] = 0 /\ "undispatched" \notin told[f]
  /\ ran' = [ran EXCEPT ![e] = @ + 1]
  /\ UNCHANGED told

Justified(e, verdict) ==
  CASE verdict = "result" -> ran[e] = 1
    [] verdict = "undispatched" -> \A f \in Envelopes : SameCommand(e, f) => ran[f] = 0
    [] verdict = "indeterminate" -> "result" \notin told[e]
    [] OTHER -> TRUE

Tell(e, verdict) ==
  /\ Justified(e, verdict)
  /\ told' = [told EXCEPT ![e] = @ \cup {verdict}]
  /\ UNCHANGED ran

Next ==
  \/ \E e \in Envelopes : Run(e)
  \/ \E e \in Envelopes, verdict \in Verdicts : Tell(e, verdict)

Spec == Init /\ [][Next]_<<ran, told>>
=============================================================================
