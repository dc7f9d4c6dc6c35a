----------------------------- MODULE MCMuxPoller -----------------------------
(* An instance of MuxPoller for TLC: more hosts than sessions. *)
EXTENDS MuxPoller, TLC

CONSTANTS a, b, c

ThreeHosts == {a, b, c}
=============================================================================
