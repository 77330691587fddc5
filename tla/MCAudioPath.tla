---------------------------- MODULE MCAudioPath ----------------------------
(* AudioPath for TLC: a few users on one channel, each at one or two addresses. *)
EXTENDS AudioPath, TLC

CONSTANTS u1, u2, c1, a1, a2

MCUsers == {u1, u2}
MCChannels == {c1}
Symmetry == Permutations(Addrs)
=============================================================================
