------------------------------ MODULE MCListing -----------------------------
(***************************************************************************)
(* Constants of Listing for TLC: two reserved seats and one that is not, a *)
(* line of four stations, searches for its first stretch.                  *)
(***************************************************************************)
EXTENDS Listing, TLC

CONSTANTS s1, s2, s3, d1

MCDistance == [s \in Stations |-> CASE s = 0 -> 0 [] s = 1 -> 3 [] s = 2 -> 4 [] OTHER -> 9]

AskLeg(from, to) == [date |-> d1, origin |-> from, destination |-> to]
Ask(s, from, to) == [seat |-> s, leg |-> AskLeg(from, to)]

\* On s1 a leg in the way of the search and one that leaves it a gap of one
\* stretch; on s2 a leg in the way.
MCRequests == {Ask(s1, 0, 2), Ask(s1, 2, 3), Ask(s2, 0, 2)}

MCQueries == {AskLeg(0, 1), AskLeg(1, 1)}

CreatorSymmetry == Permutations(Creators) \cup Permutations(Finalizers)
=============================================================================
