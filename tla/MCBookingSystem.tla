--------------------------- MODULE MCBookingSystem --------------------------
(***************************************************************************)
(* Constants of BookingSystem for TLC: a line of four stations on which    *)
(* seat s1 is reserved and s2 is not.                                      *)
(***************************************************************************)
EXTENDS BookingInvariant, TLC

CONSTANTS s1, s2, d1

MCDistance == [s \in Stations |-> CASE s = 0 -> 0 [] s = 1 -> 3 [] s = 2 -> 4 [] OTHER -> 9]

Ask(s, from, to) == [seat |-> s, leg |-> [date |-> d1, origin |-> from, destination |-> to]]

\* Two legs that overlap without one containing the other.
OverlappingRequests == {Ask(s1, 0, 2), Ask(s1, 1, 3)}

\* A station to itself, and a seat of an unreserved coach.
BadRequests == {Ask(s1, 1, 1), Ask(s2, 0, 2)}

AllRequests == OverlappingRequests \cup BadRequests

RequestSymmetry == Permutations(Creators) \cup Permutations(Finalizers)
=============================================================================
