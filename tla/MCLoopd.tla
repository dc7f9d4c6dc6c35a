------------------------------- MODULE MCLoopd -------------------------------
(* Instances of Loopd for TLC. *)
EXTENDS Loopd, TLC

CONSTANTS h1, h2

OneDevice == {h1}
TwoDevices == {h1, h2}

\* Devices are interchangeable: nothing in the module orders them.
DeviceSymmetry == Permutations(TwoDevices)
=============================================================================
