---------------------------- MODULE MCNativeBridge ----------------------------
(* Small instances of NativeBridge.                                          *)
EXTENDS NativeBridge, TLC

CONSTANTS s1, p1, p2, p3, r1, m1

StepOfRun == s1 :> r1
StepOfMcp == s1 :> m1
PingSymmetry == Permutations({p1, p2, p3})
=============================================================================
