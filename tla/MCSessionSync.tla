--------------------------- MODULE MCSessionSync ---------------------------
(* Two client devices of one session, over a few connections. *)
EXTENDS SessionSync

DeviceSymmetry == Permutations(Devices)
=============================================================================
