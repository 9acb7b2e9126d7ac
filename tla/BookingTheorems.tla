--------------------------- MODULE BookingTheorems --------------------------
(***************************************************************************)
(* IInv is an inductive invariant of BookingSystem, and so what is sold    *)
(* and what checkout answers are right for any number of requests, seats,  *)
(* stations and dates, any TTL and any number of faults, whether or not    *)
(* locks lapse.                                                            *)
(***************************************************************************)
EXTENDS BookingInvariant, PricingTheorems, FiniteSetTheorems

\* How a step changes the bookkeeping is expanded everywhere.
USE DEF vars, storeVars, creatorVars, finalizerVars, At, Goto, Reply, Reads, NoView,
        FGoto, FReply, CallWorks, CallFails, ReplyLost, Fault,
        SetHold, DeleteHold, SetLockNX, CompareAndDelete, HoldLapses, LockLapses
USE DEF IInv, TypeOK, StoreTypeOK

\* The initial state satisfies the invariant.
LEMMA InitIInv ==
  ASSUME Init
  PROVE  IInv
<1>. USE SystemAssumption, HoldStoreAssumption DEF Init, StoreInit
<1>1. TypeOK
  BY DEF CreatorPC, FinalizerPC, CreatorReply, FinalizerReply, View
<1>2. WantOK /\ OfferOK /\ HoldsOK /\ CheckoutOK
  BY DEF WantOK, OfferOK, HoldsOK, CheckoutOK, BeforeOffer, Live
<1>3. RowsOK /\ RowsApart /\ AnswersOK
  BY DEF RowsOK, RowsApart, AnswersOK, RowsOf
<1>. QED  BY <1>1, <1>2, <1>3

\* Every step keeps the types: in particular a fare is a natural number, and
\* a request never makes more than MaxAttempts attempts at the lock.
LEMMA TypeStep ==
  ASSUME IInv, Next
  PROVE  TypeOK'
<1>. USE SystemAssumption, HoldStoreAssumption
         DEF CreatorPC, FinalizerPC, CreatorReply, FinalizerReply
<1>1. ASSUME NEW c \in Creators,
             AcquireLock(c) \/ LockFails(c) \/ LockReplyLost(c) \/ StoreFails(c)
               \/ Unlock(c)
      PROVE  TypeOK'
  BY <1>1 DEF AcquireLock, LockFails, LockReplyLost, StoreFails, Unlock
<1>2. ASSUME NEW c \in Creators, LockBusy(c)
      PROVE  TypeOK'
  BY <1>2 DEF LockBusy, LastAttempt, WantOK
<1>3. ASSUME NEW c \in Creators, RefuseRequest(c)
      PROVE  TypeOK'
  <2>1. cpc' \in [Creators -> CreatorPC] /\ creply' \in [Creators -> CreatorReply]
    BY <1>3 DEF RefuseRequest
  <2>. QED
    BY <1>3, <2>1 DEF RefuseRequest
<1>4. ASSUME NEW c \in Creators, ReadBookings(c)
      PROVE  TypeOK'
  <2>1. BookedLegs(want[c].seat) \subseteq Leg
    BY DEF BookedLegs, Row
  <2>2. view' \in [Creators -> View]
    BY <1>4, <2>1 DEF ReadBookings, View
  <2>3. cpc' \in [Creators -> CreatorPC]
    BY <1>4 DEF ReadBookings
  <2>. QED
    BY <1>4, <2>2, <2>3 DEF ReadBookings
<1>5. ASSUME NEW c \in Creators, BeginScan(c)
      PROVE  TypeOK'
  BY <1>5 DEF BeginScan, View, LiveTokens
<1>6. ASSUME NEW c \in Creators, PriceSeat(c)
      PROVE  TypeOK'
  <2>. DEFINE quote == [seat |-> want[c].seat, leg |-> want[c].leg,
                        fare |-> Fare(want[c].leg, view[c].booked, view[c].seen)]
  <2>1. want[c].seat \in SeatIds /\ want[c].leg \in Leg
    BY <1>6 DEF PriceSeat, WantOK
  <2>2. view[c].booked \cup view[c].seen \in SUBSET Leg
    BY DEF View
  <2>3. quote \in Payload
    BY <2>1, <2>2, FareIsNat DEF Payload, Fare
  <2>4. offer' \in [Creators -> Payload \cup {NoHold}]
    BY <1>6, <2>3 DEF PriceSeat
  <2>5. cpc' \in [Creators -> CreatorPC] /\ creply' \in [Creators -> CreatorReply]
    BY <1>6 DEF PriceSeat
  <2>6. view' \in [Creators -> View]
    BY <1>6 DEF PriceSeat, View
  <2>. QED
    BY <1>6, <2>4, <2>5, <2>6 DEF PriceSeat
<1>7. ASSUME NEW c \in Creators, CheckFails(c)
      PROVE  TypeOK'
  BY <1>7 DEF CheckFails, View
<1>8. ASSUME NEW c \in Creators, StoreHold(c)
      PROVE  TypeOK'
  <2>1. offer[c] \in Payload
    BY <1>8 DEF StoreHold, OfferOK
  <2>2. holds' \in [Creators -> Payload \cup {NoHold}]
    BY <1>8, <2>1 DEF StoreHold
  <2>3. cpc' \in [Creators -> CreatorPC] /\ creply' \in [Creators -> CreatorReply]
    BY <1>8 DEF StoreHold
  <2>. QED
    BY <1>8, <2>2, <2>3 DEF StoreHold
<1>9. ASSUME NEW c \in Creators, NEW r \in Requests, StartCreate(c, r)
      PROVE  TypeOK'
  BY <1>9 DEF StartCreate
<1>10. ASSUME NEW c \in Creators, NEW t \in Creators, VisitHold(c, t)
      PROVE  TypeOK'
  <2>1. holds[t].leg \in Leg
    BY <1>10 DEF VisitHold, Live, Payload
  <2>2. view' \in [Creators -> View]
    BY <1>10, <2>1 DEF VisitHold, View
  <2>. QED
    BY <1>10, <2>2 DEF VisitHold
<1>11. ASSUME NEW f \in Finalizers,
             GetFails(f) \/ InsertRefused(f) \/ InsertFails(f) \/ ReleaseHold(f)
      PROVE  TypeOK'
  BY <1>11 DEF GetFails, InsertRefused, InsertFails, ReleaseHold
<1>12. ASSUME NEW f \in Finalizers, GetHold(f)
      PROVE  TypeOK'
  <2>1. fpc' \in [Finalizers -> FinalizerPC] /\ freply' \in [Finalizers -> FinalizerReply]
    BY <1>12 DEF GetHold
  <2>2. token[f] \in Creators
    BY <1>12 DEF GetHold, CheckoutOK
  <2>3. copy' \in [Finalizers -> Payload \cup {NoHold}]
    BY <1>12, <2>2 DEF GetHold
  <2>. QED
    BY <1>12, <2>1, <2>3 DEF GetHold
<1>13. ASSUME NEW f \in Finalizers, InsertBooking(f)
      PROVE  TypeOK'
  <2>1. copy[f] \in Payload
    BY <1>13 DEF InsertBooking, CheckoutOK
  <2>2. BookingRow(f, copy[f]) \in Row
    BY <2>1 DEF BookingRow, Row, Payload
  <2>3. bookings' \subseteq Row
    BY <1>13, <2>2 DEF InsertBooking, InsertRow
  <2>4. fpc' \in [Finalizers -> FinalizerPC] /\ freply' \in [Finalizers -> FinalizerReply]
    BY <1>13 DEF InsertBooking
  <2>. QED
    BY <1>13, <2>3, <2>4 DEF InsertBooking
<1>14. ASSUME NEW f \in Finalizers, NEW t \in Creators, StartFinalize(f, t)
      PROVE  TypeOK'
  BY <1>14 DEF StartFinalize
<1>15. ASSUME NEW t \in Creators,
             CancelHold(t) \/ ExpireHold(t)
      PROVE  TypeOK'
  BY <1>15 DEF CancelHold, ExpireHold
<1>16. ASSUME NEW s \in SeatIds, ExpireLock(s)
      PROVE  TypeOK'
  BY <1>16 DEF ExpireLock
<1>17. ASSUME NEW r \in Creators \cup Finalizers,
             Disconnect(r) \/ Die(r)
      PROVE  TypeOK'
  BY <1>17 DEF Disconnect, Die
<1>. QED  BY <1>1, <1>2, <1>3, <1>4, <1>5, <1>6, <1>7, <1>8, <1>9, <1>10,
  <1>11, <1>12, <1>13, <1>14, <1>15, <1>16, <1>17
  DEF Next, CreatorStep, FinalizerStep

\* Every step keeps WantOK: only StartCreate sets what is wanted, only LockBusy
\* counts attempts, and resolveLeg refuses what is not a leg.
LEMMA WantStep ==
  ASSUME IInv, Next
  PROVE  WantOK'
<1>. USE SystemAssumption, HoldStoreAssumption
         DEF WantOK, BeforeOffer, Idle, Running, LastAttempt
<1>1. ASSUME NEW c \in Creators,
             AcquireLock(c) \/ LockBusy(c) \/ LockFails(c) \/ LockReplyLost(c)
               \/ RefuseRequest(c) \/ ReadBookings(c) \/ BeginScan(c) \/ PriceSeat(c)
               \/ CheckFails(c) \/ StoreHold(c) \/ StoreFails(c) \/ Unlock(c)
      PROVE  WantOK'
  BY <1>1 DEF AcquireLock, LockBusy, LockFails, LockReplyLost, RefuseRequest,
    ReadBookings, BeginScan, PriceSeat, CheckFails, StoreHold, StoreFails,
    Unlock
<1>2. ASSUME NEW c \in Creators, NEW r \in Requests, StartCreate(c, r)
      PROVE  WantOK'
  BY <1>2 DEF StartCreate
<1>3. ASSUME NEW c \in Creators, NEW t \in Creators, VisitHold(c, t)
      PROVE  WantOK'
  BY <1>3 DEF VisitHold
<1>4. ASSUME NEW f \in Finalizers,
             GetHold(f) \/ GetFails(f) \/ InsertBooking(f) \/ InsertRefused(f)
               \/ InsertFails(f) \/ ReleaseHold(f)
      PROVE  WantOK'
  BY <1>4 DEF GetHold, GetFails, InsertBooking, InsertRefused, InsertFails,
    ReleaseHold
<1>5. ASSUME NEW f \in Finalizers, NEW t \in Creators, StartFinalize(f, t)
      PROVE  WantOK'
  BY <1>5 DEF StartFinalize
<1>6. ASSUME NEW t \in Creators,
             CancelHold(t) \/ ExpireHold(t)
      PROVE  WantOK'
  BY <1>6 DEF CancelHold, ExpireHold
<1>7. ASSUME NEW s \in SeatIds, ExpireLock(s)
      PROVE  WantOK'
  BY <1>7 DEF ExpireLock
<1>8. ASSUME NEW r \in Creators \cup Finalizers,
             Disconnect(r) \/ Die(r)
      PROVE  WantOK'
  BY <1>8 DEF Disconnect, Die
<1>. QED  BY <1>1, <1>2, <1>3, <1>4, <1>5, <1>6, <1>7, <1>8
  DEF Next, CreatorStep, FinalizerStep

\* Every step keeps OfferOK: only PriceSeat makes an offer, to a request that
\* has none, for what it wants.
LEMMA OfferStep ==
  ASSUME IInv, Next
  PROVE  OfferOK'
<1>. USE DEF OfferOK, BeforeOffer, WantOK
<1>1. ASSUME NEW c \in Creators,
             AcquireLock(c) \/ LockBusy(c) \/ LockFails(c) \/ LockReplyLost(c)
               \/ RefuseRequest(c) \/ ReadBookings(c) \/ BeginScan(c) \/ CheckFails(c)
               \/ StoreHold(c) \/ StoreFails(c) \/ Unlock(c)
      PROVE  OfferOK'
  BY <1>1 DEF AcquireLock, LockBusy, LockFails, LockReplyLost, RefuseRequest,
    ReadBookings, BeginScan, CheckFails, StoreHold, StoreFails, Unlock
<1>2. ASSUME NEW c \in Creators, PriceSeat(c)
      PROVE  OfferOK'
  <2>1. offer[c] = NoHold \/ cpc'[c] # "storing"
    BY <1>2 DEF PriceSeat
  <2>. DEFINE quote == [seat |-> want[c].seat, leg |-> want[c].leg,
                        fare |-> Fare(want[c].leg, view[c].booked, view[c].seen)]
  <2>2. quote \in Payload
    <3>1. want[c].seat \in SeatIds /\ want[c].leg \in Leg
      BY <1>2, SystemAssumption DEF PriceSeat
    <3>2. view[c].booked \cup view[c].seen \in SUBSET Leg
      BY DEF View
    <3>. QED  BY <3>1, <3>2, FareIsNat DEF Payload, Fare
  <2>3. quote # NoHold
    BY <2>2, HoldStoreAssumption
  <2>. QED
    BY <1>2, <2>3 DEF PriceSeat
<1>3. ASSUME NEW c \in Creators, NEW r \in Requests, StartCreate(c, r)
      PROVE  OfferOK'
  BY <1>3 DEF StartCreate
<1>4. ASSUME NEW c \in Creators, NEW t \in Creators, VisitHold(c, t)
      PROVE  OfferOK'
  BY <1>4 DEF VisitHold
<1>5. ASSUME NEW f \in Finalizers,
             GetHold(f) \/ GetFails(f) \/ InsertBooking(f) \/ InsertRefused(f)
               \/ InsertFails(f) \/ ReleaseHold(f)
      PROVE  OfferOK'
  BY <1>5 DEF GetHold, GetFails, InsertBooking, InsertRefused, InsertFails,
    ReleaseHold
<1>6. ASSUME NEW f \in Finalizers, NEW t \in Creators, StartFinalize(f, t)
      PROVE  OfferOK'
  BY <1>6 DEF StartFinalize
<1>7. ASSUME NEW t \in Creators,
             CancelHold(t) \/ ExpireHold(t)
      PROVE  OfferOK'
  BY <1>7 DEF CancelHold, ExpireHold
<1>8. ASSUME NEW s \in SeatIds, ExpireLock(s)
      PROVE  OfferOK'
  BY <1>8 DEF ExpireLock
<1>9. ASSUME NEW r \in Creators \cup Finalizers,
             Disconnect(r) \/ Die(r)
      PROVE  OfferOK'
  BY <1>9 DEF Disconnect, Die
<1>. QED  BY <1>1, <1>2, <1>3, <1>4, <1>5, <1>6, <1>7, <1>8, <1>9
  DEF Next, CreatorStep, FinalizerStep

\* Every step keeps HoldsOK: only StoreHold stores a hold, and stores the offer.
LEMMA HoldsStep ==
  ASSUME IInv, Next
  PROVE  HoldsOK'
<1>. USE DEF HoldsOK, OfferOK, BeforeOffer, Live
<1>1. ASSUME NEW c \in Creators,
             AcquireLock(c) \/ LockBusy(c) \/ LockFails(c) \/ LockReplyLost(c)
               \/ RefuseRequest(c) \/ ReadBookings(c) \/ BeginScan(c) \/ PriceSeat(c)
               \/ CheckFails(c) \/ StoreHold(c) \/ StoreFails(c) \/ Unlock(c)
      PROVE  HoldsOK'
  BY <1>1 DEF AcquireLock, LockBusy, LockFails, LockReplyLost, RefuseRequest,
    ReadBookings, BeginScan, PriceSeat, CheckFails, StoreHold, StoreFails,
    Unlock
<1>2. ASSUME NEW c \in Creators, NEW r \in Requests, StartCreate(c, r)
      PROVE  HoldsOK'
  BY <1>2 DEF StartCreate
<1>3. ASSUME NEW c \in Creators, NEW t \in Creators, VisitHold(c, t)
      PROVE  HoldsOK'
  BY <1>3 DEF VisitHold
<1>4. ASSUME NEW f \in Finalizers,
             GetHold(f) \/ GetFails(f) \/ InsertBooking(f) \/ InsertRefused(f)
               \/ InsertFails(f) \/ ReleaseHold(f)
      PROVE  HoldsOK'
  BY <1>4 DEF GetHold, GetFails, InsertBooking, InsertRefused, InsertFails,
    ReleaseHold
<1>5. ASSUME NEW f \in Finalizers, NEW t \in Creators, StartFinalize(f, t)
      PROVE  HoldsOK'
  BY <1>5 DEF StartFinalize
<1>6. ASSUME NEW t \in Creators,
             CancelHold(t) \/ ExpireHold(t)
      PROVE  HoldsOK'
  BY <1>6 DEF CancelHold, ExpireHold
<1>7. ASSUME NEW s \in SeatIds, ExpireLock(s)
      PROVE  HoldsOK'
  BY <1>7 DEF ExpireLock
<1>8. ASSUME NEW r \in Creators \cup Finalizers,
             Disconnect(r) \/ Die(r)
      PROVE  HoldsOK'
  BY <1>8 DEF Disconnect, Die
<1>. QED  BY <1>1, <1>2, <1>3, <1>4, <1>5, <1>6, <1>7, <1>8
  DEF Next, CreatorStep, FinalizerStep

\* Every step keeps CheckoutOK: GetHold copies the hold, which is the offer, and
\* the offer does not change while the copy is in use.
LEMMA CheckoutStep ==
  ASSUME IInv, Next
  PROVE  CheckoutOK'
<1>. USE DEF HoldsOK, OfferOK, CheckoutOK, BeforeOffer, Live, Running, Idle
<1>1. ASSUME NEW c \in Creators,
             AcquireLock(c) \/ LockBusy(c) \/ LockFails(c) \/ LockReplyLost(c)
               \/ RefuseRequest(c) \/ ReadBookings(c) \/ BeginScan(c) \/ PriceSeat(c)
               \/ CheckFails(c) \/ StoreHold(c) \/ StoreFails(c) \/ Unlock(c)
      PROVE  CheckoutOK'
  BY <1>1 DEF AcquireLock, LockBusy, LockFails, LockReplyLost, RefuseRequest,
    ReadBookings, BeginScan, PriceSeat, CheckFails, StoreHold, StoreFails,
    Unlock
<1>2. ASSUME NEW c \in Creators, NEW r \in Requests, StartCreate(c, r)
      PROVE  CheckoutOK'
  BY <1>2 DEF StartCreate
<1>3. ASSUME NEW c \in Creators, NEW t \in Creators, VisitHold(c, t)
      PROVE  CheckoutOK'
  BY <1>3 DEF VisitHold
<1>4. ASSUME NEW f \in Finalizers,
             GetHold(f) \/ GetFails(f) \/ InsertBooking(f) \/ InsertRefused(f)
               \/ InsertFails(f) \/ ReleaseHold(f)
      PROVE  CheckoutOK'
  BY <1>4 DEF GetHold, GetFails, InsertBooking, InsertRefused, InsertFails,
    ReleaseHold
<1>5. ASSUME NEW f \in Finalizers, NEW t \in Creators, StartFinalize(f, t)
      PROVE  CheckoutOK'
  BY <1>5 DEF StartFinalize
<1>6. ASSUME NEW t \in Creators,
             CancelHold(t) \/ ExpireHold(t)
      PROVE  CheckoutOK'
  BY <1>6 DEF CancelHold, ExpireHold
<1>7. ASSUME NEW s \in SeatIds, ExpireLock(s)
      PROVE  CheckoutOK'
  BY <1>7 DEF ExpireLock
<1>8. ASSUME NEW r \in Creators \cup Finalizers,
             Disconnect(r) \/ Die(r)
      PROVE  CheckoutOK'
  BY <1>8 DEF Disconnect, Die
<1>. QED  BY <1>1, <1>2, <1>3, <1>4, <1>5, <1>6, <1>7, <1>8
  DEF Next, CreatorStep, FinalizerStep

\* Every step keeps RowsOK: a row is inserted from the copy, and neither the
\* token of a checkout nor the offer of a token changes afterwards.
LEMMA RowsStep ==
  ASSUME IInv, Next
  PROVE  RowsOK'
<1>. USE DEF OfferOK, CheckoutOK, RowsOK, BeforeOffer, Row, BookingRow, InsertRow,
      Running, Idle
<1>1. ASSUME NEW c \in Creators,
             AcquireLock(c) \/ LockBusy(c) \/ LockFails(c) \/ LockReplyLost(c)
               \/ RefuseRequest(c) \/ ReadBookings(c) \/ BeginScan(c) \/ PriceSeat(c)
               \/ CheckFails(c) \/ StoreHold(c) \/ StoreFails(c) \/ Unlock(c)
      PROVE  RowsOK'
  BY <1>1 DEF AcquireLock, LockBusy, LockFails, LockReplyLost, RefuseRequest,
    ReadBookings, BeginScan, PriceSeat, CheckFails, StoreHold, StoreFails,
    Unlock
<1>2. ASSUME NEW c \in Creators, NEW r \in Requests, StartCreate(c, r)
      PROVE  RowsOK'
  BY <1>2 DEF StartCreate
<1>3. ASSUME NEW c \in Creators, NEW t \in Creators, VisitHold(c, t)
      PROVE  RowsOK'
  BY <1>3 DEF VisitHold
<1>4. ASSUME NEW f \in Finalizers,
             GetHold(f) \/ GetFails(f) \/ InsertBooking(f) \/ InsertRefused(f)
               \/ InsertFails(f) \/ ReleaseHold(f)
      PROVE  RowsOK'
  BY <1>4 DEF GetHold, GetFails, InsertBooking, InsertRefused, InsertFails,
    ReleaseHold
<1>5. ASSUME NEW f \in Finalizers, NEW t \in Creators, StartFinalize(f, t)
      PROVE  RowsOK'
  BY <1>5 DEF StartFinalize
<1>6. ASSUME NEW t \in Creators,
             CancelHold(t) \/ ExpireHold(t)
      PROVE  RowsOK'
  BY <1>6 DEF CancelHold, ExpireHold
<1>7. ASSUME NEW s \in SeatIds, ExpireLock(s)
      PROVE  RowsOK'
  BY <1>7 DEF ExpireLock
<1>8. ASSUME NEW r \in Creators \cup Finalizers,
             Disconnect(r) \/ Die(r)
      PROVE  RowsOK'
  BY <1>8 DEF Disconnect, Die
<1>. QED  BY <1>1, <1>2, <1>3, <1>4, <1>5, <1>6, <1>7, <1>8
  DEF Next, CreatorStep, FinalizerStep

\* Every step keeps RowsApart: the only INSERT checks the constraint.
LEMMA ApartStep ==
  ASSUME IInv, Next
  PROVE  RowsApart'
<1>. USE DEF RowsApart
<1>1. ASSUME NEW c \in Creators,
             AcquireLock(c) \/ LockBusy(c) \/ LockFails(c) \/ LockReplyLost(c)
               \/ RefuseRequest(c) \/ ReadBookings(c) \/ BeginScan(c) \/ PriceSeat(c)
               \/ CheckFails(c) \/ StoreHold(c) \/ StoreFails(c) \/ Unlock(c)
      PROVE  RowsApart'
  BY <1>1 DEF AcquireLock, LockBusy, LockFails, LockReplyLost, RefuseRequest,
    ReadBookings, BeginScan, PriceSeat, CheckFails, StoreHold, StoreFails,
    Unlock
<1>2. ASSUME NEW c \in Creators, NEW r \in Requests, StartCreate(c, r)
      PROVE  RowsApart'
  BY <1>2 DEF StartCreate
<1>3. ASSUME NEW c \in Creators, NEW t \in Creators, VisitHold(c, t)
      PROVE  RowsApart'
  BY <1>3 DEF VisitHold
<1>4. ASSUME NEW f \in Finalizers,
             GetHold(f) \/ GetFails(f) \/ InsertRefused(f) \/ InsertFails(f)
               \/ ReleaseHold(f)
      PROVE  RowsApart'
  BY <1>4 DEF GetHold, GetFails, InsertRefused, InsertFails, ReleaseHold
<1>5. ASSUME NEW f \in Finalizers, InsertBooking(f)
      PROVE  RowsApart'
  <2>. DEFINE row == BookingRow(f, copy[f])
  <2>1. bookings' = bookings \cup {row} /\ ~ Violates(row)
    BY <1>5 DEF InsertBooking, InsertRow
  <2>2. \A b \in bookings : b.seat = row.seat => ~ Excludes(b.leg, row.leg) /\ ~ Excludes(row.leg, b.leg)
    BY <2>1 DEF Violates, Excludes, SameTimeline
  <2>. HIDE DEF row
  <2>. QED
    BY <2>1, <2>2
<1>6. ASSUME NEW f \in Finalizers, NEW t \in Creators, StartFinalize(f, t)
      PROVE  RowsApart'
  BY <1>6 DEF StartFinalize
<1>7. ASSUME NEW t \in Creators,
             CancelHold(t) \/ ExpireHold(t)
      PROVE  RowsApart'
  BY <1>7 DEF CancelHold, ExpireHold
<1>8. ASSUME NEW s \in SeatIds, ExpireLock(s)
      PROVE  RowsApart'
  BY <1>8 DEF ExpireLock
<1>9. ASSUME NEW r \in Creators \cup Finalizers,
             Disconnect(r) \/ Die(r)
      PROVE  RowsApart'
  BY <1>9 DEF Disconnect, Die
<1>. QED  BY <1>1, <1>2, <1>3, <1>4, <1>5, <1>6, <1>7, <1>8, <1>9
  DEF Next, CreatorStep, FinalizerStep

\* Rows are only added, so what violated the constraint goes on violating it.
LEMMA ViolatesForGood ==
  ASSUME NEW row, Violates(row), bookings \subseteq bookings'
  PROVE  Violates(row)'
BY DEF Violates

\* Every step keeps AnswersOK: the offer a checkout has copied, or bought, or
\* been refused, is never made again.
LEMMA AnswersStep ==
  ASSUME IInv, Next
  PROVE  AnswersOK'
<1>. USE DEF FinalizerReply, AnswersOK, RowsOf, CheckoutOK, RowsOK, OfferOK, BeforeOffer,
      Running, Idle
<1>1. ASSUME NEW c \in Creators,
             AcquireLock(c) \/ LockBusy(c) \/ LockFails(c) \/ LockReplyLost(c)
               \/ RefuseRequest(c) \/ ReadBookings(c) \/ BeginScan(c) \/ CheckFails(c)
               \/ StoreHold(c) \/ StoreFails(c) \/ Unlock(c)
      PROVE  AnswersOK'
  <2>1. UNCHANGED <<bookings, token, freply, offer>>
    BY <1>1 DEF AcquireLock, LockBusy, LockFails, LockReplyLost, RefuseRequest,
      ReadBookings, BeginScan, CheckFails, StoreHold, StoreFails, Unlock
  <2>. QED  BY <2>1 DEF Violates
<1>2. ASSUME NEW c \in Creators, PriceSeat(c)
      PROVE  AnswersOK'
  <2>1. UNCHANGED <<bookings, token, freply>>
    BY <1>2 DEF PriceSeat
  <2>2. \A t \in Creators : offer[t] # NoHold => offer'[t] = offer[t]
    BY <1>2 DEF PriceSeat
  <2>3. \A f \in Finalizers : freply[f] # "none" => token[f] \in Creators
    OBVIOUS
  <2>4. \A f \in Finalizers : freply[f] \in {"booked", "conflict"} =>
          offer[token[f]] # NoHold
    <3>1. \A f \in Finalizers : freply[f] = "booked" => BookingRow(f, offer[token[f]]) \in bookings
      OBVIOUS
    <3>2. \A f \in Finalizers : BookingRow(f, offer[token[f]]).id = f
      BY DEF BookingRow
    <3>. QED  BY <3>1, <3>2
  <2>5. \A f \in Finalizers : freply[f] \in {"booked", "conflict"} =>
          offer'[token[f]] = offer[token[f]]
    BY <2>2, <2>3, <2>4
  <2>. QED
    BY <2>1, <2>4, <2>5 DEF Violates
<1>3. ASSUME NEW c \in Creators, NEW r \in Requests, StartCreate(c, r)
      PROVE  AnswersOK'
  BY <1>3 DEF StartCreate, Violates
<1>4. ASSUME NEW c \in Creators, NEW t \in Creators, VisitHold(c, t)
      PROVE  AnswersOK'
  BY <1>4 DEF VisitHold, Violates
<1>5. ASSUME NEW f \in Finalizers,
             GetHold(f) \/ GetFails(f) \/ InsertFails(f) \/ ReleaseHold(f)
      PROVE  AnswersOK'
  BY <1>5 DEF GetHold, GetFails, InsertFails, ReleaseHold, Violates
<1>6. ASSUME NEW f \in Finalizers, InsertBooking(f)
      PROVE  AnswersOK'
  <2>. DEFINE row == BookingRow(f, offer[token[f]])
  <2>1. bookings' = bookings \cup {row} /\ UNCHANGED <<token, offer>>
    BY <1>6 DEF InsertBooking, InsertRow
  <2>2. row.id = f /\ RowsOf(f) = {}
    BY <1>6 DEF InsertBooking, BookingRow
  <2>3. \A g \in Finalizers \ {f} : RowsOf(g)' = RowsOf(g) /\ freply'[g] = freply[g]
    BY <1>6, <2>1, <2>2 DEF InsertBooking
  <2>4. RowsOf(f)' = {row} /\ freply'[f] \in {"booked", "error"}
    BY <1>6, <2>1, <2>2 DEF InsertBooking
  <2>. HIDE DEF row, RowsOf
  <2>5. ASSUME NEW g \in Finalizers, g # f
        PROVE  (/\ freply[g] = "booked" => RowsOf(g) = {BookingRow(g, offer[token[g]])}
                /\ freply[g] \in {"none", "gone", "conflict"} => RowsOf(g) = {}
                /\ freply[g] = "conflict" => /\ offer[token[g]] # NoHold
                                             /\ Violates(BookingRow(g, offer[token[g]])))'
    BY <2>1, <2>3, <2>5 DEF Violates
  <2>. QED
    BY <2>1, <2>4, <2>5 DEF row
<1>7. ASSUME NEW f \in Finalizers, InsertRefused(f)
      PROVE  AnswersOK'
  <2>1. copy[f] = offer[token[f]] /\ offer[token[f]] # NoHold /\ RowsOf(f) = {}
    BY <1>7 DEF InsertRefused
  <2>2. UNCHANGED <<bookings, token, offer>> /\ freply' = [freply EXCEPT ![f] = "conflict"]
    BY <1>7 DEF InsertRefused
  <2>3. Violates(BookingRow(f, offer[token[f]]))
    BY <1>7, <2>1 DEF InsertRefused
  <2>. QED
    BY <2>1, <2>2, <2>3 DEF Violates
<1>8. ASSUME NEW f \in Finalizers, NEW t \in Creators, StartFinalize(f, t)
      PROVE  AnswersOK'
  BY <1>8 DEF StartFinalize, Violates
<1>9. ASSUME NEW t \in Creators,
             CancelHold(t) \/ ExpireHold(t)
      PROVE  AnswersOK'
  BY <1>9 DEF CancelHold, ExpireHold, Violates
<1>10. ASSUME NEW s \in SeatIds, ExpireLock(s)
      PROVE  AnswersOK'
  BY <1>10 DEF ExpireLock, Violates
<1>11. ASSUME NEW r \in Creators \cup Finalizers,
             Disconnect(r) \/ Die(r)
      PROVE  AnswersOK'
  BY <1>11 DEF Disconnect, Die, Violates
<1>. QED  BY <1>1, <1>2, <1>3, <1>4, <1>5, <1>6, <1>7, <1>8, <1>9, <1>10, <1>11
  DEF Next, CreatorStep, FinalizerStep

\* A step that changes nothing keeps the invariant.
LEMMA StutterIInv ==
  ASSUME IInv, UNCHANGED vars
  PROVE  IInv'
<1>1. TypeOK'
  OBVIOUS
<1>2. WantOK' /\ OfferOK' /\ HoldsOK' /\ CheckoutOK'
  BY DEF WantOK, OfferOK, HoldsOK, CheckoutOK, BeforeOffer, Live
<1>3. RowsOK' /\ RowsApart' /\ AnswersOK'
  BY DEF RowsOK, RowsApart, AnswersOK, RowsOf, Violates
<1>. QED  BY <1>1, <1>2, <1>3

-----------------------------------------------------------------------------
\* The inductive invariant holds in every reachable state.
THEOREM SpecIInv == Spec => []IInv
<1>1. Init => IInv
  BY InitIInv
<1>2. IInv /\ [Next]_vars => IInv'
  <2>. SUFFICES ASSUME IInv, [Next]_vars
                PROVE  IInv'
    OBVIOUS
  <2>1. CASE Next
    <3>1. TypeOK' /\ WantOK' /\ OfferOK' /\ HoldsOK'
      BY <2>1, TypeStep, WantStep, OfferStep, HoldsStep
    <3>2. CheckoutOK' /\ RowsOK' /\ RowsApart' /\ AnswersOK'
      BY <2>1, CheckoutStep, RowsStep, ApartStep, AnswersStep
    <3>. HIDE DEF TypeOK
    <3>. QED  BY <3>1, <3>2
  <2>2. CASE UNCHANGED vars
    <3>. HIDE DEF IInv, vars
    <3>. QED  BY <2>2, StutterIInv
  <2>. HIDE DEF IInv, vars
  <2>. QED  BY <2>1, <2>2
<1>. HIDE DEF IInv, vars
<1>. QED  BY <1>1, <1>2, PTL DEF Spec

\* Types are kept.
THEOREM SpecTypeOK == Spec => []TypeOK
<1>1. IInv => TypeOK
  OBVIOUS
<1>. HIDE DEF IInv, TypeOK
<1>. QED  BY <1>1, SpecIInv, PTL

\* No stretch of the line is sold twice on one seat, date and direction.  The
\* table keeps rows apart in the sense of its constraint, which is the sense of
\* cells (OverlapsIffCellsMeet).
THEOREM SpecNoSegmentSoldTwice == Spec => []NoSegmentSoldTwice
<1>1. IInv => NoSegmentSoldTwice
  <2>. SUFFICES ASSUME IInv, NEW a \in bookings, NEW b \in bookings, a # b
                PROVE  Cells(a.seat, a.leg) \cap Cells(b.seat, b.leg) = {}
    BY DEF NoSegmentSoldTwice
  <2>1. a.leg \in Leg /\ b.leg \in Leg
    BY DEF Row
  <2>2. CASE a.seat # b.seat
    BY <2>2, CellsOfDifferentSeats
  <2>3. CASE a.seat = b.seat
    <3>1. ~ Excludes(a.leg, b.leg)
      BY <2>3 DEF RowsApart
    <3>. QED  BY <2>1, <2>3, <3>1, OverlapsIffExcludes, OverlapsIffCellsMeet
  <2>. QED  BY <2>2, <2>3
<1>. HIDE DEF IInv
<1>. QED  BY <1>1, SpecIInv, PTL

\* A token buys one booking, however often and however concurrently checkout is
\* tried with it: two rows of one token would be the same leg on the same seat,
\* which excludes itself.
THEOREM SpecTokenBookedAtMostOnce == Spec => []TokenBookedAtMostOnce
<1>1. IInv => TokenBookedAtMostOnce
  <2>. SUFFICES ASSUME IInv, NEW a \in bookings, NEW b \in bookings,
                       token[a.id] = token[b.id], a # b
                PROVE  FALSE
    BY DEF TokenBookedAtMostOnce
  <2>1. a.seat = b.seat /\ a.leg = b.leg
    BY DEF RowsOK, BookingRow
  <2>2. Excludes(a.leg, a.leg)
    BY OverlapsReflexive, OverlapsIffExcludes DEF Row
  <2>. QED  BY <2>1, <2>2 DEF RowsApart
<1>. HIDE DEF IInv
<1>. QED  BY <1>1, SpecIInv, PTL

\* What a passenger is told is what it has.  A confirmed checkout's row is the
\* token's only one, since a second would be the same leg; the row that refused
\* another is never deleted, and needs a cell that the offer needs too.
THEOREM SpecRepliesTellTheTruth == Spec => []RepliesTellTheTruth
<1>1. IInv => RepliesTellTheTruth
  <2>. SUFFICES ASSUME IInv PROVE RepliesTellTheTruth
    OBVIOUS
  <2>. USE DEF RowsOK
  <2>1. ASSUME NEW t \in Creators, NEW f \in Finalizers, token[f] = t, freply[f] = "booked"
        PROVE  {b \in bookings : token[b.id] = t} = {BookingRow(f, offer[t])}
    <3>. DEFINE row == BookingRow(f, offer[t])
    <3>1. row \in bookings /\ row.id = f
      BY <2>1 DEF AnswersOK, RowsOf, BookingRow
    <3>2. \A b \in bookings : token[b.id] = t => b = row
      <4>. SUFFICES ASSUME NEW b \in bookings, token[b.id] = t, b # row
                    PROVE  FALSE
        OBVIOUS
      <4>1. b.seat = row.seat /\ b.leg = row.leg
        BY <2>1, <3>1 DEF BookingRow
      <4>2. Excludes(b.leg, b.leg)
        BY OverlapsReflexive, OverlapsIffExcludes DEF Row
      <4>. QED  BY <3>1, <4>1, <4>2 DEF RowsApart
    <3>. QED  BY <2>1, <3>1, <3>2
  <2>2. ASSUME NEW t \in Creators,
               \A f \in {g \in Finalizers : token[g] = t} : freply[f] \notin {"booked", "error"}
        PROVE  {b \in bookings : token[b.id] = t} = {}
    <3>. SUFFICES ASSUME NEW b \in bookings, token[b.id] = t
                  PROVE  FALSE
      OBVIOUS
    <3>1. b.id \in Finalizers /\ freply[b.id] \in {"none", "gone", "conflict"}
      BY <2>2 DEF Row, FinalizerReply
    <3>. QED  BY <3>1 DEF AnswersOK, RowsOf
  <2>3. ASSUME NEW t \in Creators, NEW f \in Finalizers, token[f] = t, freply[f] = "conflict"
        PROVE  \E b \in bookings : Cells(b.seat, b.leg) \cap Cells(offer[t].seat, offer[t].leg) # {}
    <3>1. offer[t] \in Payload /\ Violates(BookingRow(f, offer[t]))
      BY <2>3 DEF AnswersOK
    <3>2. PICK b \in bookings : b.seat = offer[t].seat /\ Excludes(b.leg, offer[t].leg)
      BY <3>1 DEF Violates, BookingRow
    <3>3. b.leg \in Leg /\ offer[t].leg \in Leg
      BY <3>1 DEF Row, Payload
    <3>. QED  BY <3>2, <3>3, OverlapsIffExcludes, OverlapsIffCellsMeet
  <2>. HIDE DEF IInv, RowsOK
  <2>. QED  BY <2>1, <2>2, <2>3 DEF RepliesTellTheTruth
<1>. HIDE DEF IInv
<1>. QED  BY <1>1, SpecIInv, PTL

-----------------------------------------------------------------------------
\* Counting: a set that gains at most one member, and a new one only with a
\* further fault, stays within the number of faults.
LEMMA OneMoreForOneFault ==
  ASSUME NEW A, NEW B, NEW r, NEW n \in Nat, NEW m \in Nat,
         IsFiniteSet(A), Cardinality(A) <= n,
         B \subseteq A \cup {r}, m >= n, r \in A \/ m > n
  PROVE  IsFiniteSet(B) /\ Cardinality(B) <= m
<1>1. IsFiniteSet(A \cup {r}) /\ Cardinality(A \cup {r}) \in Nat /\ Cardinality(A) \in Nat
  BY FS_AddElement, FS_CardinalityType
<1>2. Cardinality(A \cup {r}) <= m
  BY <1>1, FS_AddElement
<1>3. IsFiniteSet(B) /\ Cardinality(B) <= Cardinality(A \cup {r}) /\ Cardinality(B) \in Nat
  BY <1>1, FS_Subset, FS_CardinalityType
<1>. QED  BY <1>1, <1>2, <1>3

\* Every step keeps Settled.
LEMMA SettledStep ==
  ASSUME IInv, Settled, Next
  PROVE  Settled'
<1>. USE SystemAssumption, HoldStoreAssumption DEF Settled, CheckoutOK, Running, Idle, Issued
<1>1. ASSUME NEW c \in Creators,
             AcquireLock(c) \/ LockBusy(c) \/ LockFails(c) \/ LockReplyLost(c)
               \/ RefuseRequest(c) \/ ReadBookings(c) \/ BeginScan(c) \/ PriceSeat(c)
               \/ CheckFails(c) \/ StoreHold(c) \/ StoreFails(c) \/ Unlock(c)
      PROVE  Settled'
  BY <1>1 DEF AcquireLock, LockBusy, LockFails, LockReplyLost, RefuseRequest,
    ReadBookings, BeginScan, PriceSeat, CheckFails, StoreHold, StoreFails, Unlock
<1>2. ASSUME NEW c \in Creators, NEW r \in Requests, StartCreate(c, r)
      PROVE  Settled'
  BY <1>2 DEF StartCreate
<1>3. ASSUME NEW c \in Creators, NEW t \in Creators, VisitHold(c, t)
      PROVE  Settled'
  BY <1>3 DEF VisitHold
<1>4. ASSUME NEW f \in Finalizers,
             GetHold(f) \/ GetFails(f) \/ InsertBooking(f) \/ InsertRefused(f)
               \/ InsertFails(f) \/ ReleaseHold(f)
      PROVE  Settled'
  BY <1>4 DEF GetHold, GetFails, InsertBooking, InsertRefused, InsertFails, ReleaseHold
<1>5. ASSUME NEW f \in Finalizers, NEW t \in Creators, StartFinalize(f, t)
      PROVE  Settled'
  BY <1>5 DEF StartFinalize
<1>6. ASSUME NEW t \in Creators, CancelHold(t) \/ ExpireHold(t)
      PROVE  Settled'
  BY <1>6 DEF CancelHold, ExpireHold
<1>7. ASSUME NEW s \in SeatIds, ExpireLock(s)
      PROVE  Settled'
  BY <1>7 DEF ExpireLock
<1>8. ASSUME NEW r \in Creators \cup Finalizers, Disconnect(r) \/ Die(r)
      PROVE  Settled'
  BY <1>8 DEF Disconnect, Die
<1>. QED  BY <1>1, <1>2, <1>3, <1>4, <1>5, <1>6, <1>7, <1>8
  DEF Next, CreatorStep, FinalizerStep

\* A step after which nobody new is charged, or only the request r for a fault.
NobodyCharged == Charged' \subseteq Charged /\ faults' >= faults
OneCharged(r) == Charged' \subseteq Charged \cup {r} /\ faults' > faults

\* No step leaves anything behind but for a fault: a call fails only for those
\* already gone, or for a fault; a hold is stored after it was answered for, and
\* a lock is freed by its owner's unlock or with its key.
LEMMA ChargeStep ==
  ASSUME IInv, Settled, Next
  PROVE  NobodyCharged \/ \E r \in Creators \cup Finalizers : OneCharged(r)
<1>. USE SystemAssumption, HoldStoreAssumption
         DEF Settled, CheckoutOK, HoldsOK, BeforeOffer, Running, Idle, Issued,
             Charged, LeftBehind, InSection, Live, NobodyCharged, OneCharged
<1>. DEFINE Kept(r) == NobodyCharged \/ OneCharged(r)
<1>1. ASSUME NEW c \in Creators,
             LockBusy(c) \/ RefuseRequest(c) \/ ReadBookings(c) \/ BeginScan(c) \/ PriceSeat(c)
      PROVE  NobodyCharged
  BY <1>1 DEF LockBusy, RefuseRequest, ReadBookings, BeginScan, PriceSeat
<1>2. ASSUME NEW c \in Creators, AcquireLock(c)
      PROVE  NobodyCharged
  BY <1>2 DEF AcquireLock
<1>3. ASSUME NEW c \in Creators,
             LockFails(c) \/ LockReplyLost(c) \/ CheckFails(c) \/ StoreFails(c)
      PROVE  Kept(c)
  BY <1>3 DEF LockFails, LockReplyLost, CheckFails, StoreFails
<1>4. ASSUME NEW c \in Creators, StoreHold(c)
      PROVE  Kept(c)
  BY <1>4 DEF StoreHold
<1>5. ASSUME NEW c \in Creators, Unlock(c)
      PROVE  Kept(c)
  BY <1>5 DEF Unlock
<1>6. ASSUME NEW c \in Creators, NEW r \in Requests, StartCreate(c, r)
      PROVE  NobodyCharged
  BY <1>6 DEF StartCreate
<1>7. ASSUME NEW c \in Creators, NEW t \in Creators, VisitHold(c, t)
      PROVE  NobodyCharged
  BY <1>7 DEF VisitHold
<1>8. ASSUME NEW f \in Finalizers, GetHold(f) \/ InsertRefused(f)
      PROVE  NobodyCharged
  BY <1>8 DEF GetHold, InsertRefused
<1>9. ASSUME NEW f \in Finalizers,
             GetFails(f) \/ InsertBooking(f) \/ InsertFails(f) \/ ReleaseHold(f)
      PROVE  Kept(f)
  BY <1>9 DEF GetFails, InsertBooking, InsertFails, ReleaseHold
<1>10. ASSUME NEW f \in Finalizers, NEW t \in Creators, StartFinalize(f, t)
       PROVE  NobodyCharged
  BY <1>10 DEF StartFinalize
<1>11. ASSUME NEW t \in Creators, CancelHold(t) \/ ExpireHold(t)
       PROVE  NobodyCharged
  BY <1>11 DEF CancelHold, ExpireHold
<1>12. ASSUME NEW s \in SeatIds, ExpireLock(s)
       PROVE  NobodyCharged
  BY <1>12 DEF ExpireLock
<1>13. ASSUME NEW r \in Creators \cup Finalizers, Disconnect(r) \/ Die(r)
       PROVE  Kept(r)
  BY <1>13 DEF Disconnect, Die
<1>. QED
  <2>. HIDE DEF NobodyCharged, OneCharged
  <2>. QED  BY <1>1, <1>2, <1>3, <1>4, <1>5, <1>6, <1>7, <1>8, <1>9, <1>10,
    <1>11, <1>12, <1>13 DEF Next, CreatorStep, FinalizerStep

\* In every reachable state those who left a lock or a hold behind, those whose
\* client went away included, are at most as many as the faults there were.
THEOREM SpecLeftoversCostFaults == Spec => []LeftoversCostFaults
<1>1. Init => ChargeInv
  <2>. SUFFICES ASSUME Init PROVE ChargeInv
    OBVIOUS
  <2>1. Charged = {}
    BY HoldStoreAssumption DEF Init, StoreInit, Charged, LeftBehind, Live
  <2>2. Settled /\ faults = 0
    BY DEF Init, StoreInit, Settled
  <2>. QED  BY <2>1, <2>2, FS_EmptySet DEF ChargeInv
<1>2. IInv /\ IInv' /\ ChargeInv /\ [Next]_vars => ChargeInv'
  <2>. SUFFICES ASSUME IInv, IInv', ChargeInv, [Next]_vars
                PROVE  ChargeInv'
    OBVIOUS
  <2>1. CASE UNCHANGED vars
    BY <2>1 DEF ChargeInv, Settled, Charged, LeftBehind, InSection, Live
  <2>2. CASE Next
    <3>1. faults \in Nat /\ faults' \in Nat
      OBVIOUS
    <3>2. Settled'
      BY <2>2, SettledStep DEF ChargeInv
    <3>. HIDE DEF IInv, Charged
    <3>3. PICK r : Charged' \subseteq Charged \cup {r} /\ faults' >= faults
                     /\ (r \in Charged \/ faults' > faults \/ Charged' \subseteq Charged)
      BY <2>2, <3>1, ChargeStep DEF ChargeInv, NobodyCharged, OneCharged
    <3>. QED
      <4>1. CASE r \in Charged \/ faults' > faults
        BY <3>1, <3>2, <3>3, <4>1, OneMoreForOneFault DEF ChargeInv
      <4>2. CASE Charged' \subseteq Charged
        <5>1. IsFiniteSet(Charged') /\ Cardinality(Charged') <= Cardinality(Charged)
          BY <4>2, FS_Subset DEF ChargeInv
        <5>2. Cardinality(Charged) \in Nat /\ Cardinality(Charged') \in Nat
          BY <5>1, FS_CardinalityType DEF ChargeInv
        <5>. QED  BY <3>1, <3>2, <3>3, <5>1, <5>2 DEF ChargeInv
      <4>. QED  BY <3>3, <4>1, <4>2
  <2>. HIDE DEF IInv, vars
  <2>. QED  BY <2>1, <2>2
<1>3. IInv /\ ChargeInv => LeftoversCostFaults
  <2>. SUFFICES ASSUME IInv, ChargeInv
                PROVE  LeftoversCostFaults
    OBVIOUS
  <2>1. LeftBehind \subseteq Charged /\ faults \in Nat
    BY DEF Charged
  <2>2. IsFiniteSet(LeftBehind) /\ Cardinality(LeftBehind) <= Cardinality(Charged)
    BY <2>1, FS_Subset DEF ChargeInv
  <2>3. Cardinality(LeftBehind) \in Nat /\ Cardinality(Charged) \in Nat
    BY <2>2, FS_CardinalityType DEF ChargeInv
  <2>. QED  BY <2>1, <2>2, <2>3 DEF ChargeInv, LeftoversCostFaults
<1>. HIDE DEF IInv, vars
<1>. QED  BY <1>1, <1>2, <1>3, SpecIInv, PTL DEF Spec

-----------------------------------------------------------------------------
(* The system implements SeatLedger: every step grants, sells or leaves    *)
(* offers and sales alone.                                                 *)

HIDE DEF Reply, Reads, NoView, FGoto, FReply, CallWorks, CallFails, ReplyLost, Fault,
         SetHold, DeleteHold, SetLockNX, CompareAndDelete, HoldLapses, LockLapses
HIDE DEF IInv, TypeOK, StoreTypeOK

\* The sale a row stands for, as in the refinement mapping of Ledger.
SaleOf(b) == [buyer |-> token[b.id], seat |-> b.seat, leg |-> b.leg, fare |-> b.fare]
Sales == {SaleOf(b) : b \in bookings}

\* The ledger counts cells as the system does.
LEMMA LedgerCells ==
  ASSUME NEW seat, NEW l
  PROVE  Ledger!Cells(seat, l) = Cells(seat, l)
BY DEF Ledger!Cells, Cells, Ledger!Segment, Segment, Ledger!LegMin, LegMin,
       Ledger!LegMax, LegMax, Ledger!Outbound, Outbound

\* Nothing is granted or sold at first.
LEMMA InitLedger ==
  ASSUME Init
  PROVE  Ledger!LedgerInit
BY DEF Init, Ledger!LedgerInit

\* A step that adds no row and moves no token of a row leaves the sales alone.
LEMMA SalesUnchanged ==
  ASSUME UNCHANGED bookings, \A b \in bookings : token'[b.id] = token[b.id]
  PROVE  UNCHANGED Sales
BY DEF Sales, SaleOf

\* Pricing a seat is a grant, or changes neither offers nor sales.
LEMMA PriceGrants ==
  ASSUME IInv, IInv', NEW c \in Creators, PriceSeat(c)
  PROVE  Ledger!Grant(c) \/ UNCHANGED <<offer, Sales>>
<1>1. UNCHANGED Sales
  BY SalesUnchanged DEF PriceSeat
<1>2. CASE UNCHANGED offer
  BY <1>1, <1>2
<1>3. CASE offer' # offer
  <2>1. cpc'[c] = "storing" /\ offer' = [offer EXCEPT ![c] = offer'[c]]
    BY <1>3 DEF PriceSeat, IInv, TypeOK
  <2>2. offer'[c] \in Payload
    BY <2>1 DEF IInv, TypeOK, OfferOK
  <2>3. offer[c] = NoHold
    BY DEF PriceSeat, IInv, OfferOK, BeforeOffer
  <2>. QED  BY <1>1, <2>1, <2>2, <2>3 DEF Ledger!Grant, Sales, SaleOf
<1>. QED  BY <1>2, <1>3

\* The INSERT of a checkout sells its token's offer: the constraint leaves the
\* leg's cells free, and none of the rows can be the token's own, since that row
\* would be the same leg.
LEMMA InsertSells ==
  ASSUME IInv, NEW f \in Finalizers, InsertBooking(f)
  PROVE  \E t \in Creators : Ledger!Sell(t)
<1>0. PICK t \in Creators : t = token[f]
  BY DEF InsertBooking, IInv, CheckoutOK
<1>. DEFINE row == BookingRow(f, offer[t])
<1>1. offer[t] # NoHold /\ offer[t] \in Payload
  BY <1>0 DEF InsertBooking, IInv, CheckoutOK, TypeOK
<1>2. bookings' = bookings \cup {row} /\ ~ Violates(row)
  BY <1>0 DEF InsertBooking, InsertRow, IInv, CheckoutOK
<1>3. UNCHANGED <<offer, token>>
  BY DEF InsertBooking
<1>4. row.leg \in Leg /\ row.leg = offer[t].leg /\ row.seat = offer[t].seat
  BY <1>1 DEF BookingRow, Payload
<1>5. \A b \in bookings : token[b.id] # t
  <2>. SUFFICES ASSUME NEW b \in bookings, token[b.id] = t
                PROVE  FALSE
    OBVIOUS
  <2>1. b.seat = row.seat /\ b.leg = row.leg
    BY DEF IInv, RowsOK, BookingRow
  <2>2. Excludes(b.leg, row.leg)
    BY <1>4, <2>1, OverlapsReflexive, OverlapsIffExcludes
  <2>. QED  BY <1>2, <2>1, <2>2 DEF Violates
<1>6. \A b \in bookings : Cells(b.seat, b.leg) \cap Cells(row.seat, row.leg) = {}
  <2>. SUFFICES ASSUME NEW b \in bookings
                PROVE  Cells(b.seat, b.leg) \cap Cells(row.seat, row.leg) = {}
    OBVIOUS
  <2>1. CASE b.seat # row.seat
    BY <2>1, CellsOfDifferentSeats
  <2>2. CASE b.seat = row.seat
    <3>1. ~ Excludes(b.leg, row.leg) /\ b.leg \in Leg
      BY <1>2, <2>2 DEF Violates, IInv, TypeOK, Row
    <3>. QED  BY <1>4, <2>2, <3>1, OverlapsIffExcludes, OverlapsIffCellsMeet
  <2>. QED  BY <2>1, <2>2
<1>7. Ledger!Free(offer[t].seat, offer[t].leg)
  BY <1>4, <1>6, LedgerCells DEF Ledger!Free
<1>8. Sales' = Sales \cup {SaleOf(row)}
  BY <1>2, <1>3 DEF Sales, SaleOf
<1>9. SaleOf(row) = Ledger!Sale(t)
  BY <1>0 DEF SaleOf, Ledger!Sale, BookingRow
<1>10. \A s \in Sales : s.buyer # t
  BY <1>5 DEF Sales, SaleOf
<1>11. Sales' = Sales \cup {Ledger!Sale(t)}
  BY <1>8, <1>9
<1>12. Ledger!Sell(t)
  BY <1>1, <1>3, <1>7, <1>10, <1>11 DEF Ledger!Sell, Sales, SaleOf
<1>. QED  BY <1>12

\* Every step of the system is a step of the ledger or changes nothing there.
LEMMA StepImplementsLedger ==
  ASSUME IInv, IInv', [Next]_vars
  PROVE  [Ledger!LedgerNext]_<<offer, Sales>>
<1>. DEFINE Refined == Ledger!LedgerNext \/ UNCHANGED <<offer, Sales>>
<1>1. ASSUME NEW c \in Creators, PriceSeat(c)
      PROVE  Refined
  BY <1>1, PriceGrants DEF Ledger!LedgerNext
<1>2. ASSUME NEW f \in Finalizers, InsertBooking(f)
      PROVE  Refined
  BY <1>2, InsertSells DEF Ledger!LedgerNext
<1>3. ASSUME NEW f \in Finalizers, NEW t \in Creators, StartFinalize(f, t)
      PROVE  Refined
  <2>1. \A b \in bookings : b.id # f /\ b.id \in Finalizers
    BY <1>3 DEF StartFinalize, IInv, RowsOK, TypeOK, Row
  <2>2. \A b \in bookings : token'[b.id] = token[b.id]
    BY <1>3, <2>1 DEF StartFinalize, IInv, TypeOK
  <2>. QED  BY <1>3, <2>2, SalesUnchanged DEF StartFinalize
<1>4. ASSUME UNCHANGED <<bookings, offer, token>>
      PROVE  Refined
  BY <1>4, SalesUnchanged
<1>5. ASSUME NEW c \in Creators,
             \/ AcquireLock(c) \/ LockBusy(c) \/ LockFails(c) \/ LockReplyLost(c)
             \/ RefuseRequest(c) \/ ReadBookings(c) \/ BeginScan(c)
             \/ CheckFails(c) \/ StoreHold(c) \/ StoreFails(c) \/ Unlock(c)
      PROVE  Refined
  BY <1>4, <1>5 DEF AcquireLock, LockBusy, LockFails, LockReplyLost,
    RefuseRequest, ReadBookings, BeginScan, CheckFails, StoreHold,
    StoreFails, Unlock
<1>6. ASSUME NEW f \in Finalizers,
             \/ GetHold(f) \/ GetFails(f) \/ InsertRefused(f) \/ InsertFails(f)
             \/ ReleaseHold(f)
      PROVE  Refined
  BY <1>4, <1>6 DEF GetHold, GetFails, InsertRefused, InsertFails, ReleaseHold
<1>7. ASSUME NEW c \in Creators, NEW r \in Requests, StartCreate(c, r)
      PROVE  Refined
  BY <1>4, <1>7 DEF StartCreate
<1>8. ASSUME NEW t \in Creators, CancelHold(t) \/ ExpireHold(t)
      PROVE  Refined
  BY <1>4, <1>8 DEF CancelHold, ExpireHold
<1>9. ASSUME NEW s \in SeatIds, ExpireLock(s)
      PROVE  Refined
  BY <1>4, <1>9 DEF ExpireLock
<1>10. ASSUME NEW r \in Creators \cup Finalizers, Disconnect(r) \/ Die(r)
      PROVE  Refined
  BY <1>4, <1>10 DEF Disconnect, Die
<1>11. ASSUME NEW c \in Creators, NEW t \in Creators, VisitHold(c, t)
       PROVE  Refined
  BY <1>4, <1>11 DEF VisitHold
<1>12. ASSUME UNCHANGED vars
       PROVE  Refined
  BY <1>4, <1>12
<1>. HIDE DEF Refined
<1>13. ASSUME Next
       PROVE  Refined
  BY <1>1, <1>2, <1>3, <1>5, <1>6, <1>7, <1>8, <1>9, <1>10, <1>11, <1>13
  DEF Next, CreatorStep, FinalizerStep
<1>. QED  BY <1>12, <1>13 DEF Refined

\* What is sold is what was offered, at the fare quoted, once per token, and
\* never twice on one stretch, in every behaviour.
THEOREM SpecImplementsLedger == Spec => ImplementsLedger
<1>1. Init => Ledger!LedgerInit
  BY InitLedger
<1>2. IInv /\ IInv' /\ [Next]_vars => [Ledger!LedgerNext]_<<offer, Sales>>
  BY StepImplementsLedger
<1>3. ImplementsLedger <=> Ledger!LedgerInit /\ [][Ledger!LedgerNext]_<<offer, Sales>>
  BY DEF ImplementsLedger, Ledger!LedgerSpec, Sales, SaleOf
<1>. QED  BY <1>1, <1>2, <1>3, SpecIInv, PTL DEF Spec
=============================================================================
