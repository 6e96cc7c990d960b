----------------------------- MODULE MCNativeHost -----------------------------
(* A small instance of NativeHost.                                           *)
EXTENDS NativeHost, TLC

CONSTANTS a, b, x, z

CancelsA == x :> a

\* A call and its cancellation; the call again, on the next connection.
Resent == {Wire(1, a), Wire(1, x), Wire(2, a)}

\* One connection with two calls and a third that Chrome would not take.
Crowded == {Wire(1, a), Wire(1, b), Wire(1, z)}
=============================================================================
