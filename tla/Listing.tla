------------------------------- MODULE Listing ------------------------------
(***************************************************************************)
(* GET /availability, which reads while the three writing requests of      *)
(* BookingSystem run: the seats of the reserved coaches, all their         *)
(* bookings, then every hold, and lists the seats that are available with  *)
(* their fares.  It takes no lock and reads no snapshot.                   *)
(***************************************************************************)
EXTENDS BookingSystem

CONSTANTS
  Searchers,      \* GET /availability requests
  Queries,        \* the legs they may ask for
  NoQuery

ASSUME ListingAssumption == NoQuery \notin Queries

VARIABLES
  spc, query, sreply,
  read,           \* booked and held legs read so far, by seat; tokens due
  listed,         \* the answer: the fare of each seat in it
  touched,        \* ghost: seats on which something changed since the start
  taken           \* ghost: seats the leg was not free on at some moment since

searchVars == <<spc, query, sreply, read, listed>>
ghostVars == <<touched, taken>>
listingVars == <<vars, searchVars, ghostVars>>

\* Mutant: without the condition on the coach's type.
ListEverySeat == SeatIds

ListReserved == ReservedSeats

Nothing == [s \in ReservedSeats |-> {}]
NothingRead == [booked |-> Nothing, due |-> {}, held |-> Nothing]
EmptyList == [s \in {} |-> 0]

HoldsOn(s) == {t \in LiveTokens : holds[t].seat = s}

IsTaken(s, l) == \/ \E b \in BookedLegs(s) : Overlaps(b, l)
                 \/ \E t \in HoldsOn(s) : Overlaps(holds[t].leg, l)

TakenSeats(l) == IF l \in Leg THEN {s \in SeatIds : IsTaken(s, l)} ELSE {}

ListingInit == /\ Init
               /\ spc = [q \in Searchers |-> "idle"]
               /\ query = [q \in Searchers |-> NoQuery]
               /\ sreply = [q \in Searchers |-> "none"]
               /\ read = [q \in Searchers |-> NothingRead]
               /\ listed = [q \in Searchers |-> EmptyList]
               /\ touched = [q \in Searchers |-> {}]
               /\ taken = [q \in Searchers |-> {}]

-----------------------------------------------------------------------------
(* seats.Handler.Availability, seats.Service.Availability *)

SGoto(q, there) == spc' = [spc EXCEPT ![q] = there]
SReply(q, r) == sreply' = [sreply EXCEPT ![q] = r]

StartSearch(q, l) ==
  /\ spc[q] = "idle"
  /\ SGoto(q, "reading")
  /\ query' = [query EXCEPT ![q] = l]
  /\ taken' = [taken EXCEPT ![q] = TakenSeats(l)]
  /\ UNCHANGED <<sreply, read, listed, touched>>

\* resolveLeg refuses the leg.
RefuseSearch(q) ==
  /\ spc[q] = "reading" /\ query[q] \notin Leg
  /\ SGoto(q, "done") /\ SReply(q, "badRequest")
  /\ UNCHANGED <<query, read, listed, ghostVars>>

\* Mutant: only the bookings in the way are read.
ReadConflicts(q) ==
  /\ spc[q] = "reading" /\ query[q] \in Leg
  /\ read' = [read EXCEPT ![q].booked = [s \in ListReserved |->
                {b \in BookedLegs(s) : Overlaps(b, query[q])}]]
  /\ SGoto(q, "listing")
  /\ UNCHANGED <<query, sreply, listed, ghostVars>>

\* ListReserved and BookingsForSeats; seats and coaches never change.
ReadAllBookings(q) ==
  /\ spc[q] = "reading" /\ query[q] \in Leg
  /\ read' = [read EXCEPT ![q].booked = [s \in ListReserved |-> BookedLegs(s)]]
  /\ SGoto(q, "listing")
  /\ UNCHANGED <<query, sreply, listed, ghostVars>>

\* AllHolds, as for a creator: SCAN owes every key that exists now.
BeginSweep(q) ==
  /\ spc[q] = "listing"
  /\ read' = [read EXCEPT ![q].due = LiveTokens]
  /\ SGoto(q, "sweeping")
  /\ UNCHANGED <<query, sreply, listed, ghostVars>>

\* Mutant: the holds are not grouped by seat.
VisitForAllSeats(q, t) ==
  /\ spc[q] = "sweeping" /\ Live(t)
  /\ read' = [read EXCEPT ![q].due = @ \ {t},
                          ![q].held = [s \in DOMAIN @ |-> @[s] \cup {holds[t].leg}]]
  /\ UNCHANGED <<spc, query, sreply, listed, ghostVars>>

\* A hold on a seat that is not listed is grouped too, and never looked at.
VisitForListing(q, t) ==
  /\ spc[q] = "sweeping" /\ Live(t)
  /\ read' = [read EXCEPT ![q].due = @ \ {t},
                ![q].held = [s \in DOMAIN @ |->
                   IF s = holds[t].seat THEN @[s] \cup {holds[t].leg} ELSE @[s]]]
  /\ UNCHANGED <<spc, query, sreply, listed, ghostVars>>

\* priceOne for each seat, once the sweep is over; only available ones go out.
ListSeats(q) ==
  /\ spc[q] = "sweeping" /\ read[q].due \cap LiveTokens = {}
  /\ listed' = [listed EXCEPT ![q] =
       LET r == read[q]
       IN  [s \in {s \in DOMAIN r.booked : Status(query[q], r.booked[s], r.held[s]) = "available"}
              |-> Fare(query[q], r.booked[s], r.held[s])]]
  /\ read' = [read EXCEPT ![q] = NothingRead]
  /\ SGoto(q, "done") /\ SReply(q, "listed")
  /\ UNCHANGED <<query, ghostVars>>

\* A call fails, the client goes away or the process dies: a search writes
\* nothing, so all that is left of it is that it has no answer.
SearchFails(q) ==
  /\ spc[q] \in {"reading", "listing", "sweeping"}
  /\ read' = [read EXCEPT ![q] = NothingRead]
  /\ SGoto(q, "done") /\ SReply(q, "error")
  /\ UNCHANGED <<query, listed, ghostVars>>

SearchStep(q) ==
  \/ \E l \in Queries : StartSearch(q, l)
  \/ RefuseSearch(q) \/ ReadAllBookings(q) \/ BeginSweep(q)
  \/ \E t \in Creators : VisitForListing(q, t)
  \/ ListSeats(q) \/ SearchFails(q)

-----------------------------------------------------------------------------
\* What the other requests do meanwhile, and how the ghosts follow it.
Changed(s) == BookedLegs(s)' # BookedLegs(s) \/ HoldsOn(s)' # HoldsOn(s)

OthersStep ==
  /\ Next /\ UNCHANGED searchVars
  /\ touched' = [q \in Searchers |-> IF spc[q] = "idle" THEN {}
                   ELSE touched[q] \cup {s \in SeatIds : Changed(s)}]
  /\ taken' = [q \in Searchers |-> IF spc[q] = "idle" THEN {}
                 ELSE taken[q] \cup TakenSeats(query[q])']

ListingNext == (\E q \in Searchers : SearchStep(q) /\ UNCHANGED vars) \/ OthersStep

ListingSpec == ListingInit /\ [][ListingNext]_listingVars

-----------------------------------------------------------------------------
(* Properties *)

Answered(q) == spc[q] = "done" /\ sreply[q] = "listed"

SearchPC == {"idle", "reading", "listing", "sweeping", "done"}
LegsBySeat == [ReservedSeats -> SUBSET Leg]

ListingTypeOK ==
  /\ spc \in [Searchers -> SearchPC]
  /\ query \in [Searchers -> Queries \cup {NoQuery}]
  /\ sreply \in [Searchers -> {"none", "badRequest", "listed", "error"}]
  /\ read \in [Searchers -> [booked : LegsBySeat, due : SUBSET Creators, held : LegsBySeat]]
  /\ DOMAIN listed = Searchers
  /\ \A q \in Searchers : /\ DOMAIN listed[q] \subseteq ReservedSeats
                          /\ \A s \in DOMAIN listed[q] : listed[q][s] \in Nat
  /\ touched \in [Searchers -> SUBSET SeatIds]
  /\ taken \in [Searchers -> SUBSET SeatIds]

HeldLegs(s) == {holds[t].leg : t \in HoldsOn(s)}

\* A listing is right, and stays right, about every seat on which nothing has
\* happened since the search began: the seat is in it exactly if it is
\* available, at exactly the fare a hold taken now would be quoted.  (The
\* page sends the passenger on to POST /holds with what the listing showed.)
SteadySeatsListedRight ==
  \A q \in Searchers : Answered(q) => \A s \in ReservedSeats \ touched[q] :
    IF Status(query[q], BookedLegs(s), HeldLegs(s)) = "available"
      THEN /\ s \in DOMAIN listed[q]
           /\ listed[q][s] = Fare(query[q], BookedLegs(s), HeldLegs(s))
      ELSE s \notin DOMAIN listed[q]

\* Whatever happens meanwhile, a seat that was free for the leg all along is
\* in the listing.  The converse fails: a seat that goes from held to booked
\* between the two reads is listed although it was never free.
NoFreeSeatHidden ==
  \A q \in Searchers : Answered(q) => ReservedSeats \ taken[q] \subseteq DOMAIN listed[q]
=============================================================================
