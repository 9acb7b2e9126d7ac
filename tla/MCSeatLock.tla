----------------------------- MODULE MCSeatLock -----------------------------
(***************************************************************************)
(* Constants of SeatLock for TLC: requests are interchangeable.            *)
(***************************************************************************)
EXTENDS SeatLock, TLC

RequestSymmetry == Permutations(Requests)
=============================================================================
