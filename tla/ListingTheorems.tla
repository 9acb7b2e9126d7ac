--------------------------- MODULE ListingTheorems --------------------------
(***************************************************************************)
(* What GET /availability answers, for any number of searches, requests,   *)
(* seats, stations and dates, whatever fails, expires or lapses: right     *)
(* about every seat nothing happened to, and hiding no seat that was free. *)
(***************************************************************************)
EXTENDS Listing, BookingTheorems

\* How a step changes the bookkeeping is expanded everywhere.
USE DEF vars, storeVars, creatorVars, finalizerVars, At, Goto, Reply, Reads, NoView,
        FGoto, FReply, CallWorks, CallFails, ReplyLost, Fault,
        SetHold, DeleteHold, SetLockNX, CompareAndDelete, HoldLapses, LockLapses
USE DEF IInv, TypeOK, StoreTypeOK
USE DEF SGoto, SReply, searchVars, ghostVars, NothingRead, Nothing, ListReserved, SearchPC

Reading(q) == spc[q] \in {"reading", "listing", "sweeping"}

\* A search past resolveLeg is for a real leg; nothing is held against a seat
\* before the sweep.
SearchOK ==
  \A q \in Searchers :
    /\ spc[q] \in {"listing", "sweeping"} => query[q] \in Leg
    /\ spc[q] \in {"idle", "reading", "listing"} => read[q].held = Nothing

\* What has been read of a seat on which nothing happened is what is there:
\* all its bookings, and of its holds those the sweep does not owe any more.
ReadRight ==
  \A q \in Searchers : \A s \in ReservedSeats \ touched[q] :
    /\ spc[q] \in {"listing", "sweeping"} =>
         read[q].booked[s] = BookedLegs(s)
    /\ spc[q] = "sweeping" =>
         /\ read[q].held[s] \subseteq HeldLegs(s)
         /\ \A t \in HoldsOn(s) : t \in read[q].due \/ holds[t].leg \in read[q].held[s]

\* What has been read of a seat that was free all along is not in the way.
FreeRight ==
  \A q \in Searchers : \A s \in ReservedSeats \ taken[q] :
    /\ Reading(q) /\ query[q] \in Leg => ~ IsTaken(s, query[q])
    /\ spc[q] \in {"listing", "sweeping"} =>
         \A b \in read[q].booked[s] : ~ Overlaps(b, query[q])
    /\ spc[q] = "sweeping" => \A h \in read[q].held[s] : ~ Overlaps(h, query[q])

ListingInv == /\ ListingTypeOK /\ SearchOK /\ ReadRight /\ FreeRight
              /\ SteadySeatsListedRight /\ NoFreeSeatHidden

-----------------------------------------------------------------------------
\* A step never rewrites a hold: the one it stores was not there before.
LEMMA HoldsKept ==
  ASSUME IInv, Next, NEW t \in Creators, Live(t), Live(t)'
  PROVE  holds'[t] = holds[t]
<1>. USE DEF Live
<1>1. ASSUME NEW c \in Creators,
             AcquireLock(c) \/ LockBusy(c) \/ LockFails(c) \/ LockReplyLost(c)
               \/ RefuseRequest(c) \/ ReadBookings(c) \/ BeginScan(c) \/ PriceSeat(c)
               \/ CheckFails(c) \/ StoreFails(c) \/ Unlock(c)
      PROVE  holds' = holds
  BY <1>1 DEF AcquireLock, LockBusy, LockFails, LockReplyLost, RefuseRequest,
    ReadBookings, BeginScan, PriceSeat, CheckFails, StoreFails, Unlock
<1>2. ASSUME NEW c \in Creators, StoreHold(c)
      PROVE  holds'[t] = holds[t]
  BY <1>2 DEF StoreHold, HoldsOK
<1>3. ASSUME NEW c \in Creators, NEW r \in Requests, StartCreate(c, r)
      PROVE  holds' = holds
  BY <1>3 DEF StartCreate
<1>4. ASSUME NEW c \in Creators, NEW u \in Creators, VisitHold(c, u)
      PROVE  holds' = holds
  BY <1>4 DEF VisitHold
<1>5. ASSUME NEW f \in Finalizers,
             GetHold(f) \/ GetFails(f) \/ InsertBooking(f) \/ InsertRefused(f)
               \/ InsertFails(f)
      PROVE  holds' = holds
  BY <1>5 DEF GetHold, GetFails, InsertBooking, InsertRefused, InsertFails
<1>6. ASSUME NEW f \in Finalizers, ReleaseHold(f)
      PROVE  holds'[t] = holds[t]
  BY <1>6 DEF ReleaseHold
<1>7. ASSUME NEW f \in Finalizers, NEW u \in Creators, StartFinalize(f, u)
      PROVE  holds' = holds
  BY <1>7 DEF StartFinalize
<1>8. ASSUME NEW u \in Creators, CancelHold(u) \/ ExpireHold(u)
      PROVE  holds'[t] = holds[t]
  BY <1>8 DEF CancelHold, ExpireHold
<1>9. ASSUME NEW s \in SeatIds, ExpireLock(s)
      PROVE  holds' = holds
  BY <1>9 DEF ExpireLock
<1>10. ASSUME NEW r \in Creators \cup Finalizers, Disconnect(r) \/ Die(r)
       PROVE  holds' = holds
  BY <1>10 DEF Disconnect, Die
<1>. QED  BY <1>1, <1>2, <1>3, <1>4, <1>5, <1>6, <1>7, <1>8, <1>9, <1>10
  DEF Next, CreatorStep, FinalizerStep

\* What has been booked or is held on a seat are legs.
LEMMA SeatLegs ==
  ASSUME IInv, NEW s \in SeatIds
  PROVE  BookedLegs(s) \subseteq Leg /\ HeldLegs(s) \subseteq Leg
BY DEF BookedLegs, Row, HeldLegs, HoldsOn, LiveTokens, Live, Payload

\* A seat that did not change has the bookings and the held legs it had.
LEMMA UnchangedSeat ==
  ASSUME IInv, Next, NEW s \in SeatIds, ~ Changed(s)
  PROVE  /\ BookedLegs(s)' = BookedLegs(s)
         /\ HoldsOn(s)' = HoldsOn(s)
         /\ \A t \in HoldsOn(s) : holds'[t] = holds[t]
         /\ HeldLegs(s)' = HeldLegs(s)
<1>1. BookedLegs(s)' = BookedLegs(s) /\ HoldsOn(s)' = HoldsOn(s)
  BY DEF Changed
<1>2. ASSUME NEW t \in HoldsOn(s)
      PROVE  holds'[t] = holds[t]
  <2>1. t \in Creators /\ Live(t) /\ Live(t)'
    BY <1>1 DEF HoldsOn, LiveTokens
  <2>. HIDE DEF IInv
  <2>. QED  BY <2>1, HoldsKept
<1>3. HeldLegs(s)' = HeldLegs(s)
  BY <1>1, <1>2 DEF HeldLegs
<1>. HIDE DEF IInv
<1>. QED  BY <1>1, <1>2, <1>3

-----------------------------------------------------------------------------
\* The types hold at first, and nothing has been read.
LEMMA InitListingInv ==
  ASSUME ListingInit
  PROVE  ListingInv
<1>. USE DEF ListingInit, EmptyList
<1>1. ListingTypeOK
  BY DEF ListingTypeOK, LegsBySeat
<1>2. SearchOK /\ ReadRight /\ FreeRight
  BY DEF SearchOK, ReadRight, FreeRight, Reading
<1>3. SteadySeatsListedRight /\ NoFreeSeatHidden
  BY DEF SteadySeatsListedRight, NoFreeSeatHidden, Answered
<1>. QED  BY <1>1, <1>2, <1>3 DEF ListingInv

\* A step of the writing requests marks the seats it disturbs, and for the
\* others everything stays as it was.
LEMMA OthersKeep ==
  ASSUME IInv, ListingInv, OthersStep
  PROVE  ListingInv'
<1>. HIDE DEF IInv
<1>. USE SystemAssumption DEF OthersStep, ListingInv
<1>1. ASSUME NEW q \in Searchers, spc[q] # "idle", NEW s \in ReservedSeats \ touched'[q]
      PROVE  s \in ReservedSeats \ touched[q] /\ ~ Changed(s)
  BY <1>1
<1>2. ASSUME NEW q \in Searchers, spc[q] # "idle", NEW s \in ReservedSeats \ taken'[q]
      PROVE  s \in ReservedSeats \ taken[q] /\ s \notin TakenSeats(query[q])'
  BY <1>2
<1>3. ListingTypeOK'
  <2>1. touched' \in [Searchers -> SUBSET SeatIds]
    BY DEF ListingTypeOK
  <2>2. ASSUME NEW l
        PROVE  TakenSeats(l)' \subseteq SeatIds
    BY DEF TakenSeats
  <2>3. taken' \in [Searchers -> SUBSET SeatIds]
    BY <2>2 DEF ListingTypeOK
  <2>. QED  BY <2>1, <2>3 DEF ListingTypeOK, LegsBySeat
<1>4. SearchOK'
  BY DEF SearchOK
<1>5. ReadRight'
  <2>. SUFFICES ASSUME NEW q \in Searchers, spc[q] # "idle",
                       NEW s \in ReservedSeats \ touched'[q]
                PROVE  /\ spc[q] \in {"listing", "sweeping"} =>
                            read[q].booked[s] = BookedLegs(s)'
                       /\ spc[q] = "sweeping" =>
                            /\ read[q].held[s] \subseteq HeldLegs(s)'
                            /\ \A t \in HoldsOn(s)' :
                                  t \in read[q].due \/ holds'[t].leg \in read[q].held[s]
    BY DEF ReadRight
  <2>1. s \in ReservedSeats \ touched[q] /\ ~ Changed(s)
    BY <1>1
  <2>2. /\ BookedLegs(s)' = BookedLegs(s)
        /\ HoldsOn(s)' = HoldsOn(s)
        /\ \A t \in HoldsOn(s) : holds'[t] = holds[t]
        /\ HeldLegs(s)' = HeldLegs(s)
    BY <2>1, UnchangedSeat
  <2>. QED  BY <2>1, <2>2 DEF ReadRight
<1>6. FreeRight'
  <2>. SUFFICES ASSUME NEW q \in Searchers, spc[q] # "idle",
                       NEW s \in ReservedSeats \ taken'[q]
                PROVE  /\ Reading(q) /\ query[q] \in Leg => ~ IsTaken(s, query[q])'
                       /\ spc[q] \in {"listing", "sweeping"} =>
                            \A b \in read[q].booked[s] : ~ Overlaps(b, query[q])
                       /\ spc[q] = "sweeping" =>
                            \A h \in read[q].held[s] : ~ Overlaps(h, query[q])
    BY DEF FreeRight, Reading
  <2>1. s \in ReservedSeats \ taken[q] /\ s \notin TakenSeats(query[q])'
    BY <1>2
  <2>2. query[q] \in Leg => ~ IsTaken(s, query[q])'
    BY <2>1 DEF TakenSeats
  <2>. QED  BY <2>1, <2>2 DEF FreeRight
<1>7. SteadySeatsListedRight'
  <2>. SUFFICES ASSUME NEW q \in Searchers, Answered(q), NEW s \in ReservedSeats \ touched'[q]
                PROVE  IF Status(query[q], BookedLegs(s)', HeldLegs(s)') = "available"
                         THEN /\ s \in DOMAIN listed[q]
                              /\ listed[q][s] = Fare(query[q], BookedLegs(s)', HeldLegs(s)')
                         ELSE s \notin DOMAIN listed[q]
    BY DEF SteadySeatsListedRight, Answered
  <2>1. s \in ReservedSeats \ touched[q] /\ ~ Changed(s)
    BY <1>1 DEF Answered
  <2>2. BookedLegs(s)' = BookedLegs(s) /\ HeldLegs(s)' = HeldLegs(s)
    BY <2>1, UnchangedSeat
  <2>. QED  BY <2>1, <2>2 DEF SteadySeatsListedRight
<1>8. NoFreeSeatHidden'
  BY <1>2 DEF NoFreeSeatHidden, Answered
<1>. QED  BY <1>3, <1>4, <1>5, <1>6, <1>7, <1>8

-----------------------------------------------------------------------------
\* What a search reads and writes is its own, so the state of the seats is the
\* same before and after its step.
SeatsSame == /\ holds' = holds
             /\ \A s \in SeatIds : BookedLegs(s)' = BookedLegs(s)
             /\ \A s \in SeatIds : HoldsOn(s)' = HoldsOn(s) /\ HeldLegs(s)' = HeldLegs(s)
             /\ \A s \in SeatIds : \A l : IsTaken(s, l)' = IsTaken(s, l)

LEMMA SearchDisturbsNothing ==
  ASSUME UNCHANGED vars
  PROVE  SeatsSame
BY DEF SeatsSame, BookedLegs, HoldsOn, HeldLegs, LiveTokens, Live, IsTaken

\* A search that starts has not read anything, and marks the seats that are
\* taken already.
LEMMA StartSearchKeeps ==
  ASSUME ListingInv, UNCHANGED vars, NEW q \in Searchers, NEW l \in Queries, StartSearch(q, l)
  PROVE  ListingInv'
<1>. USE SystemAssumption, SearchDisturbsNothing DEF StartSearch, ListingInv, ListingTypeOK
<1>1. TakenSeats(l) \subseteq SeatIds
  BY DEF TakenSeats
<1>2. ListingTypeOK'
  BY <1>1 DEF LegsBySeat
<1>3. SearchOK'
  BY DEF SearchOK
<1>4. ReadRight'
  BY DEF ReadRight, SeatsSame
<1>5. FreeRight'
  <2>. SUFFICES ASSUME NEW p \in Searchers, NEW s \in ReservedSeats \ taken'[p]
                PROVE  /\ Reading(p)' /\ query'[p] \in Leg => ~ IsTaken(s, query'[p])
                       /\ spc'[p] \in {"listing", "sweeping"} =>
                            \A b \in read[p].booked[s] : ~ Overlaps(b, query'[p])
                       /\ spc'[p] = "sweeping" =>
                            \A h \in read[p].held[s] : ~ Overlaps(h, query'[p])
    BY DEF FreeRight, SeatsSame
  <2>1. CASE p = q
    BY <2>1 DEF TakenSeats
  <2>2. CASE p # q
    BY <2>2 DEF FreeRight, Reading
  <2>. QED  BY <2>1, <2>2
<1>6. SteadySeatsListedRight' /\ NoFreeSeatHidden'
  BY DEF SteadySeatsListedRight, NoFreeSeatHidden, Answered, SeatsSame
<1>. QED  BY <1>2, <1>3, <1>4, <1>5, <1>6

ReadType == [booked : LegsBySeat, due : SUBSET Creators, held : LegsBySeat]

\* A search that is refused claims nothing.
LEMMA RefuseKeeps ==
  ASSUME ListingInv, UNCHANGED vars, NEW q \in Searchers, RefuseSearch(q)
  PROVE  ListingInv'
<1>. HIDE DEF vars
<1>. USE SystemAssumption, SearchDisturbsNothing
         DEF RefuseSearch, ListingInv, ListingTypeOK
<1>1. ListingTypeOK'
  BY DEF LegsBySeat
<1>2. SearchOK' /\ ReadRight'
  <2>1. SearchOK'
    BY DEF SearchOK
  <2>2. ReadRight'
    BY DEF ReadRight, SeatsSame
  <2>. QED  BY <2>1, <2>2
<1>3. FreeRight'
  BY DEF FreeRight, Reading, SeatsSame
<1>4. SteadySeatsListedRight' /\ NoFreeSeatHidden'
  BY DEF SteadySeatsListedRight, NoFreeSeatHidden, Answered, SeatsSame
<1>. QED  BY <1>1, <1>2, <1>3, <1>4

\* Nor does one that fails.
LEMMA FailKeeps ==
  ASSUME ListingInv, UNCHANGED vars, NEW q \in Searchers, SearchFails(q)
  PROVE  ListingInv'
<1>. HIDE DEF vars
<1>. USE SystemAssumption, SearchDisturbsNothing
         DEF SearchFails, ListingInv, ListingTypeOK
<1>1. NothingRead \in ReadType
  BY DEF ReadType, LegsBySeat
<1>2. read' \in [Searchers -> ReadType]
  <2>. HIDE DEF NothingRead
  <2>. QED  BY <1>1 DEF ReadType
<1>3. ListingTypeOK'
  BY <1>2 DEF ReadType
<1>4. SearchOK' /\ ReadRight'
  <2>1. SearchOK'
    BY DEF SearchOK
  <2>2. ReadRight'
    BY DEF ReadRight, SeatsSame
  <2>. QED  BY <2>1, <2>2
<1>5. FreeRight'
  BY DEF FreeRight, Reading, SeatsSame
<1>6. SteadySeatsListedRight' /\ NoFreeSeatHidden'
  BY DEF SteadySeatsListedRight, NoFreeSeatHidden, Answered, SeatsSame
<1>. QED  BY <1>3, <1>4, <1>5, <1>6

\* All bookings are read, of every listed seat.
LEMMA ReadKeeps ==
  ASSUME IInv, ListingInv, UNCHANGED vars, NEW q \in Searchers, ReadAllBookings(q)
  PROVE  ListingInv'
<1>. HIDE DEF IInv, vars
<1>. DEFINE got == [s \in ReservedSeats |-> BookedLegs(s)]
<1>. USE SystemAssumption DEF ListingInv
<1>1. got \in LegsBySeat
  BY SeatLegs DEF LegsBySeat
<1>2. /\ read' = [read EXCEPT ![q].booked = got]
      /\ spc[q] = "reading" /\ query[q] \in Leg
      /\ spc' = [spc EXCEPT ![q] = "listing"]
      /\ UNCHANGED <<query, sreply, listed, touched, taken>>
  BY DEF ReadAllBookings
<1>3. read \in [Searchers -> ReadType] /\ spc \in [Searchers -> SearchPC]
  BY DEF ListingTypeOK, ReadType
<1>4. /\ read'[q].booked = got /\ read'[q].held = read[q].held
      /\ \A p \in Searchers : p # q => read'[p] = read[p] /\ spc'[p] = spc[p]
      /\ spc'[q] = "listing"
  <2>. HIDE DEF got
  <2>. QED  BY <1>2, <1>3 DEF ReadType
<1>5. read' \in [Searchers -> ReadType]
  <2>. HIDE DEF got
  <2>. QED  BY <1>1, <1>2, <1>3 DEF ReadType
<1>6. ListingTypeOK'
  <2>. HIDE DEF got
  <2>. QED  BY <1>2, <1>5 DEF ReadType, ListingTypeOK
<1>7. SearchOK'
  BY <1>2, <1>4 DEF SearchOK
<1>8. \A s \in ReservedSeats : got[s] = BookedLegs(s)
  OBVIOUS
<1>. HIDE DEF got
<1>9. ReadRight'
  BY <1>2, <1>4, <1>8, SearchDisturbsNothing DEF ReadRight, SeatsSame
<1>10. FreeRight'
  <2>1. ASSUME NEW s \in ReservedSeats \ taken[q]
        PROVE  \A b \in got[s] : ~ Overlaps(b, query[q])
    BY <1>2, <1>8 DEF FreeRight, Reading, IsTaken
  <2>. QED  BY <1>2, <1>4, <2>1, SearchDisturbsNothing DEF FreeRight, Reading, SeatsSame
<1>11. SteadySeatsListedRight' /\ NoFreeSeatHidden'
  BY <1>2, <1>4, SearchDisturbsNothing
  DEF SteadySeatsListedRight, NoFreeSeatHidden, Answered, SeatsSame
<1>. QED  BY <1>6, <1>7, <1>9, <1>10, <1>11

\* A sweep owes every hold that exists when it begins.
LEMMA BeginKeeps ==
  ASSUME ListingInv, UNCHANGED vars, NEW q \in Searchers, BeginSweep(q)
  PROVE  ListingInv'
<1>. HIDE DEF vars
<1>. USE SystemAssumption DEF ListingInv
<1>1. /\ read' = [read EXCEPT ![q].due = LiveTokens]
      /\ spc[q] = "listing"
      /\ spc' = [spc EXCEPT ![q] = "sweeping"]
      /\ UNCHANGED <<query, sreply, listed, touched, taken>>
  BY DEF BeginSweep
<1>2. read \in [Searchers -> ReadType] /\ spc \in [Searchers -> SearchPC]
  BY DEF ListingTypeOK, ReadType
<1>3. /\ read'[q].booked = read[q].booked /\ read'[q].held = read[q].held
      /\ read'[q].due = LiveTokens
      /\ \A p \in Searchers : p # q => read'[p] = read[p] /\ spc'[p] = spc[p]
      /\ spc'[q] = "sweeping"
  BY <1>1, <1>2 DEF ReadType
<1>4. read' \in [Searchers -> ReadType]
  <2>1. LiveTokens \in SUBSET Creators
    BY DEF LiveTokens
  <2>. QED  BY <1>1, <1>2, <2>1 DEF ReadType
<1>5. ListingTypeOK'
  BY <1>1, <1>4 DEF ReadType, ListingTypeOK
<1>6. SearchOK'
  BY <1>1, <1>3 DEF SearchOK
<1>7. \A s \in ReservedSeats : read[q].held[s] = {} /\ HoldsOn(s) \subseteq LiveTokens
  BY <1>1 DEF SearchOK, HoldsOn
<1>8. ReadRight'
  BY <1>1, <1>3, <1>7, SearchDisturbsNothing DEF ReadRight, SeatsSame
<1>9. FreeRight'
  BY <1>1, <1>3, <1>7, SearchDisturbsNothing DEF FreeRight, Reading, SeatsSame
<1>10. SteadySeatsListedRight' /\ NoFreeSeatHidden'
  BY <1>1, <1>3, SearchDisturbsNothing
  DEF SteadySeatsListedRight, NoFreeSeatHidden, Answered, SeatsSame
<1>. QED  BY <1>5, <1>6, <1>8, <1>9, <1>10

\* The leg of a visited hold is added to its own seat's, and only to those.
LEMMA VisitKeeps ==
  ASSUME IInv, ListingInv, UNCHANGED vars, NEW q \in Searchers, NEW t \in Creators,
         VisitForListing(q, t)
  PROVE  ListingInv'
<1>. HIDE DEF IInv, vars
<1>. DEFINE H == read[q].held
            met == [s \in DOMAIN H |->
                      IF s = holds[t].seat THEN H[s] \cup {holds[t].leg} ELSE H[s]]
<1>. USE SystemAssumption DEF ListingInv
<1>1. /\ read' = [read EXCEPT ![q].due = @ \ {t}, ![q].held = met]
      /\ spc[q] = "sweeping" /\ Live(t)
      /\ UNCHANGED <<spc, query, sreply, listed, touched, taken>>
  BY DEF VisitForListing
<1>2. read \in [Searchers -> ReadType]
  BY DEF ListingTypeOK, ReadType
<1>3. H \in LegsBySeat /\ holds[t].leg \in Leg
  BY <1>1, <1>2 DEF ReadType, IInv, Live, Payload
<1>4. met \in LegsBySeat
  BY <1>3 DEF LegsBySeat
<1>5. \A s \in ReservedSeats : met[s] =
        IF s = holds[t].seat THEN H[s] \cup {holds[t].leg} ELSE H[s]
  BY <1>3 DEF LegsBySeat
<1>. HIDE DEF met
<1>6. /\ read'[q].booked = read[q].booked /\ read'[q].held = met
      /\ read'[q].due = read[q].due \ {t}
      /\ \A p \in Searchers : p # q => read'[p] = read[p]
  BY <1>1, <1>2 DEF ReadType
<1>7. read' \in [Searchers -> ReadType]
  BY <1>1, <1>2, <1>4 DEF ReadType
<1>8. ListingTypeOK'
  BY <1>1, <1>7 DEF ReadType, ListingTypeOK
<1>9. SearchOK'
  BY <1>1, <1>6 DEF SearchOK
<1>10. \A s \in ReservedSeats : s = holds[t].seat <=> t \in HoldsOn(s)
  BY <1>1 DEF HoldsOn, LiveTokens
<1>11. ASSUME NEW s \in ReservedSeats \ touched[q]
       PROVE  /\ met[s] \subseteq HeldLegs(s)
              /\ \A u \in HoldsOn(s) : u \in read[q].due \ {t} \/ holds[u].leg \in met[s]
  <2>1. /\ H[s] \subseteq HeldLegs(s)
        /\ \A u \in HoldsOn(s) : u \in read[q].due \/ holds[u].leg \in H[s]
    BY <1>1 DEF ReadRight
  <2>2. t \in HoldsOn(s) => holds[t].leg \in HeldLegs(s)
    BY DEF HeldLegs
  <2>3. met[s] \subseteq HeldLegs(s)
    BY <1>5, <1>10, <2>1, <2>2
  <2>. QED  BY <1>5, <1>10, <2>1, <2>3
<1>12. ReadRight'
  <2>. SUFFICES ASSUME NEW p \in Searchers, NEW s \in ReservedSeats \ touched[p]
                PROVE  /\ spc[p] \in {"listing", "sweeping"} =>
                            read'[p].booked[s] = BookedLegs(s)'
                       /\ spc[p] = "sweeping" =>
                            /\ read'[p].held[s] \subseteq HeldLegs(s)'
                            /\ \A u \in HoldsOn(s)' :
                                 u \in read'[p].due \/ holds'[u].leg \in read'[p].held[s]
    BY <1>1 DEF ReadRight
  <2>1. /\ BookedLegs(s)' = BookedLegs(s) /\ holds' = holds
        /\ HoldsOn(s)' = HoldsOn(s) /\ HeldLegs(s)' = HeldLegs(s)
    BY SearchDisturbsNothing DEF SeatsSame
  <2>2. CASE p = q
    BY <1>6, <1>11, <2>1, <2>2 DEF ReadRight
  <2>3. CASE p # q
    BY <1>6, <2>1, <2>3 DEF ReadRight
  <2>. QED  BY <2>2, <2>3
<1>13. ASSUME NEW s \in ReservedSeats \ taken[q]
       PROVE  \A h \in met[s] : ~ Overlaps(h, query[q])
  <2>1. query[q] \in Leg /\ ~ IsTaken(s, query[q]) /\ \A h \in H[s] : ~ Overlaps(h, query[q])
    BY <1>1 DEF FreeRight, Reading, SearchOK
  <2>2. t \in HoldsOn(s) => ~ Overlaps(holds[t].leg, query[q])
    BY <2>1 DEF IsTaken
  <2>. QED  BY <1>5, <1>10, <2>1, <2>2
<1>14. FreeRight'
  BY <1>1, <1>6, <1>13, SearchDisturbsNothing DEF FreeRight, Reading, SeatsSame
<1>15. SteadySeatsListedRight' /\ NoFreeSeatHidden'
  BY <1>1, SearchDisturbsNothing
  DEF SteadySeatsListedRight, NoFreeSeatHidden, Answered, SeatsSame
<1>. QED  BY <1>8, <1>9, <1>12, <1>14, <1>15

\* When the sweep owes no hold that still exists, what was read of a seat on
\* which nothing happened is all there is, and the answer is right about it.
LEMMA ListKeeps ==
  ASSUME IInv, ListingInv, UNCHANGED vars, NEW q \in Searchers, ListSeats(q)
  PROVE  ListingInv'
<1>. HIDE DEF IInv, vars
<1>. DEFINE B == read[q].booked
            H == read[q].held
            free == {s \in DOMAIN B : Status(query[q], B[s], H[s]) = "available"}
            answer == [s \in free |-> Fare(query[q], B[s], H[s])]
<1>. USE SystemAssumption DEF ListingInv
<1>1. /\ listed' = [listed EXCEPT ![q] = answer]
      /\ read' = [read EXCEPT ![q] = NothingRead]
      /\ spc[q] = "sweeping" /\ read[q].due \cap LiveTokens = {}
      /\ spc' = [spc EXCEPT ![q] = "done"] /\ sreply' = [sreply EXCEPT ![q] = "listed"]
      /\ UNCHANGED <<query, touched, taken>>
  BY DEF ListSeats
<1>2. read \in [Searchers -> ReadType] /\ spc \in [Searchers -> SearchPC]
  BY DEF ListingTypeOK, ReadType
<1>3. B \in LegsBySeat /\ H \in LegsBySeat
  BY <1>2 DEF ReadType
<1>4. DOMAIN B = ReservedSeats
  BY <1>3 DEF LegsBySeat
<1>5. NothingRead \in ReadType
  BY DEF ReadType, LegsBySeat
<1>6. /\ spc'[q] = "done" /\ listed'[q] = answer
      /\ \A p \in Searchers : p # q => /\ read'[p] = read[p] /\ spc'[p] = spc[p]
                                       /\ listed'[p] = listed[p] /\ sreply'[p] = sreply[p]
  <2>. HIDE DEF answer
  <2>. QED  BY <1>1, <1>2 DEF ListingTypeOK
<1>7. ASSUME NEW s \in free
      PROVE  answer[s] \in Nat
  <2>. query[q] \in Leg
    BY <1>1 DEF SearchOK
  <2>1. B[s] \cup H[s] \in SUBSET Leg
    BY <1>3, <1>4 DEF LegsBySeat
  <2>. QED  BY <1>7, <2>1, FareIsNat DEF Fare
<1>8. free \subseteq ReservedSeats /\ DOMAIN answer = free
  BY <1>4
<1>9. ASSUME NEW s \in ReservedSeats \ touched[q]
      PROVE  B[s] = BookedLegs(s) /\ H[s] = HeldLegs(s)
  <2>1. /\ B[s] = BookedLegs(s)
        /\ H[s] \subseteq HeldLegs(s)
        /\ \A t \in HoldsOn(s) : t \in read[q].due \/ holds[t].leg \in H[s]
    BY <1>1 DEF ReadRight
  <2>2. HeldLegs(s) \subseteq H[s]
    BY <1>1, <2>1 DEF HeldLegs, HoldsOn
  <2>. QED  BY <2>1, <2>2
<1>10. ASSUME NEW s \in ReservedSeats \ taken[q]
       PROVE  s \in free
  <2>1. /\ \A b \in B[s] : ~ Overlaps(b, query[q])
        /\ \A h \in H[s] : ~ Overlaps(h, query[q])
    BY <1>1 DEF FreeRight
  <2>. QED  BY <1>4, <2>1 DEF Status
<1>11. SearchOK' /\ ReadRight' /\ FreeRight'
  <2>1. SearchOK'
    BY <1>1, <1>6 DEF SearchOK
  <2>2. ReadRight'
    BY <1>1, <1>6, SearchDisturbsNothing DEF ReadRight, SeatsSame
  <2>3. FreeRight'
    BY <1>1, <1>6, SearchDisturbsNothing DEF FreeRight, Reading, SeatsSame
  <2>. QED  BY <2>1, <2>2, <2>3
<1>12. SteadySeatsListedRight'
  <2>. SUFFICES ASSUME NEW p \in Searchers, Answered(p)', NEW s \in ReservedSeats \ touched[p]
                PROVE  IF Status(query[p], BookedLegs(s), HeldLegs(s)) = "available"
                         THEN /\ s \in DOMAIN listed'[p]
                              /\ listed'[p][s] = Fare(query[p], BookedLegs(s), HeldLegs(s))
                         ELSE s \notin DOMAIN listed'[p]
    BY <1>1, SearchDisturbsNothing DEF SteadySeatsListedRight, SeatsSame
  <2>1. CASE p = q
    BY <1>4, <1>6, <1>8, <1>9, <2>1
  <2>2. CASE p # q
    BY <1>6, <2>2 DEF SteadySeatsListedRight, Answered
  <2>. QED  BY <2>1, <2>2
<1>13. NoFreeSeatHidden'
  <2>. HIDE DEF free, answer
  <2>. QED  BY <1>1, <1>6, <1>8, <1>10 DEF NoFreeSeatHidden, Answered
<1>14. ListingTypeOK'
  <2>1. read' \in [Searchers -> ReadType]
    <3>. HIDE DEF NothingRead
    <3>. QED  BY <1>1, <1>2, <1>5
  <2>2. DOMAIN listed' = Searchers
    <3>. HIDE DEF answer
    <3>. QED  BY <1>1 DEF ListingTypeOK
  <2>3. ASSUME NEW p \in Searchers
        PROVE  /\ DOMAIN listed'[p] \subseteq ReservedSeats
               /\ \A s \in DOMAIN listed'[p] : listed'[p][s] \in Nat
    <3>1. CASE p = q
      <4>. HIDE DEF answer, free
      <4>. QED  BY <1>6, <1>7, <1>8, <3>1
    <3>2. CASE p # q
      BY <1>6, <3>2 DEF ListingTypeOK
    <3>. QED  BY <3>1, <3>2
  <2>. HIDE DEF answer, free
  <2>. QED  BY <1>1, <2>1, <2>2, <2>3 DEF ReadType, ListingTypeOK
<1>. QED  BY <1>11, <1>12, <1>13, <1>14

\* A step that changes nothing keeps the invariant.
LEMMA StutterListingInv ==
  ASSUME ListingInv, UNCHANGED listingVars
  PROVE  ListingInv'
<1>. HIDE DEF vars
<1>. USE SystemAssumption, SearchDisturbsNothing DEF listingVars, ListingInv
<1>1. ListingTypeOK' /\ SearchOK'
  BY DEF ListingTypeOK, SearchOK
<1>2. ReadRight'
  BY DEF ReadRight, SeatsSame
<1>3. FreeRight'
  BY DEF FreeRight, Reading, SeatsSame
<1>4. SteadySeatsListedRight' /\ NoFreeSeatHidden'
  BY DEF SteadySeatsListedRight, NoFreeSeatHidden, Answered, SeatsSame
<1>. QED  BY <1>1, <1>2, <1>3, <1>4

-----------------------------------------------------------------------------
\* Searches only read: without them a behaviour is one of BookingSystem, so
\* all that is proved of it holds with any number of searches running.
THEOREM ListingOnlyReads == ListingSpec => Spec
<1>1. ListingInit => Init
  BY DEF ListingInit
<1>2. [ListingNext]_listingVars => [Next]_vars
  <2>. HIDE DEF vars
  <2>. QED  BY DEF ListingNext, OthersStep, listingVars
<1>. HIDE DEF vars
<1>. QED  BY <1>1, <1>2, PTL DEF ListingSpec, Spec

\* The invariant of searches holds in every reachable state.
THEOREM SpecListingInv == ListingSpec => []ListingInv
<1>. HIDE DEF IInv, vars
<1>1. ListingInit => ListingInv
  BY InitListingInv
<1>2. IInv /\ ListingInv /\ [ListingNext]_listingVars => ListingInv'
  <2>. SUFFICES ASSUME IInv, ListingInv, [ListingNext]_listingVars
                PROVE  ListingInv'
    OBVIOUS
  <2>1. ASSUME NEW q \in Searchers, SearchStep(q), UNCHANGED vars
        PROVE  ListingInv'
    BY <2>1, StartSearchKeeps, RefuseKeeps, ReadKeeps, BeginKeeps, VisitKeeps,
       ListKeeps, FailKeeps DEF SearchStep
  <2>2. CASE OthersStep
    BY <2>2, OthersKeep
  <2>3. CASE UNCHANGED listingVars
    BY <2>3, StutterListingInv
  <2>. QED  BY <2>1, <2>2, <2>3 DEF ListingNext
<1>3. ListingSpec => []IInv
  BY ListingOnlyReads, SpecIInv, PTL
<1>. QED  BY <1>1, <1>2, <1>3, PTL DEF ListingSpec

\* A listing only names seats of reserved coaches, at fares that are numbers.
THEOREM SpecListingTypeOK == ListingSpec => []ListingTypeOK
<1>1. ListingInv => ListingTypeOK
  BY DEF ListingInv
<1>. QED  BY <1>1, SpecListingInv, PTL

\* Status and fare in a listing are right about every seat on which nothing
\* happened since the search began.
THEOREM SpecSteadySeatsListedRight == ListingSpec => []SteadySeatsListedRight
<1>1. ListingInv => SteadySeatsListedRight
  BY DEF ListingInv
<1>. QED  BY <1>1, SpecListingInv, PTL

\* No listing leaves out a seat that was free for the leg all along.
THEOREM SpecNoFreeSeatHidden == ListingSpec => []NoFreeSeatHidden
<1>1. ListingInv => NoFreeSeatHidden
  BY DEF ListingInv
<1>. QED  BY <1>1, SpecListingInv, PTL
=============================================================================
