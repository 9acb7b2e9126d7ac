---------------------------- MODULE LockTheorems ----------------------------
(***************************************************************************)
(* What the seat lock achieves if it outlives the work it protects:        *)
(* sections of one seat exclude each other, live holds never overlap, and  *)
(* holding a seat is one step of HoldRegister.  Without it these are       *)
(* false: Exclusive.cfg with LockMayLapse = TRUE.                          *)
(***************************************************************************)
EXTENDS BookingTheorems

\* How a step changes the bookkeeping is expanded everywhere.
USE DEF vars, storeVars, creatorVars, finalizerVars, At, Goto, Reply, Reads, NoView,
        FGoto, FReply, CallWorks, CallFails, ReplyLost, Fault,
        SetHold, DeleteHold, SetLockNX, CompareAndDelete, HoldLapses, LockLapses
USE DEF IInv, TypeOK, StoreTypeOK

\* No lock and no hold at first.
LEMMA InitLockInv ==
  ASSUME Init
  PROVE  LockInv
BY DEF Init, StoreInit, LockInv, SectionOwnsLock, InSection, SweepCovers,
       StoreIsClear, NoOverlappingHolds, LiveTokens, Live

\* Every step keeps SectionOwnsLock: a lock that is owned is not given away, and
\* only its owner's unlock or its expiry outside a section frees it.
LEMMA SectionOwnsLockStep ==
  ASSUME IInv, LockInv, Next, ~ LockMayLapse
  PROVE  SectionOwnsLock'
<1>. USE SystemAssumption, HoldStoreAssumption
         DEF SectionOwnsLock, LockInv, InSection, Idle, Running, WantOK,
           LastAttempt, Live, LiveTokens, OfferOK, HoldsOK, BeforeOffer
<1>1. ASSUME NEW c \in Creators,
             AcquireLock(c) \/ LockBusy(c) \/ LockFails(c) \/ LockReplyLost(c)
               \/ RefuseRequest(c) \/ ReadBookings(c) \/ BeginScan(c) \/ PriceSeat(c)
               \/ CheckFails(c) \/ StoreHold(c) \/ StoreFails(c) \/ Unlock(c)
      PROVE  SectionOwnsLock'
  BY <1>1 DEF AcquireLock, LockBusy, LockFails, LockReplyLost, RefuseRequest,
    ReadBookings, BeginScan, PriceSeat, CheckFails, StoreHold, StoreFails,
    Unlock
<1>2. ASSUME NEW c \in Creators, NEW r \in Requests, StartCreate(c, r)
      PROVE  SectionOwnsLock'
  BY <1>2 DEF StartCreate
<1>3. ASSUME NEW c \in Creators, NEW t \in Creators, VisitHold(c, t)
      PROVE  SectionOwnsLock'
  BY <1>3 DEF VisitHold
<1>4. ASSUME NEW f \in Finalizers,
             GetHold(f) \/ GetFails(f) \/ InsertBooking(f) \/ InsertRefused(f)
               \/ InsertFails(f) \/ ReleaseHold(f)
      PROVE  SectionOwnsLock'
  BY <1>4 DEF GetHold, GetFails, InsertBooking, InsertRefused, InsertFails,
    ReleaseHold
<1>5. ASSUME NEW f \in Finalizers, NEW t \in Creators, StartFinalize(f, t)
      PROVE  SectionOwnsLock'
  BY <1>5 DEF StartFinalize
<1>6. ASSUME NEW t \in Creators,
             CancelHold(t) \/ ExpireHold(t)
      PROVE  SectionOwnsLock'
  BY <1>6 DEF CancelHold, ExpireHold
<1>7. ASSUME NEW s \in SeatIds, ExpireLock(s)
      PROVE  SectionOwnsLock'
  BY <1>7 DEF ExpireLock
<1>8. ASSUME NEW r \in Creators \cup Finalizers,
             Disconnect(r) \/ Die(r)
      PROVE  SectionOwnsLock'
  BY <1>8 DEF Disconnect, Die
<1>. QED  BY <1>1, <1>2, <1>3, <1>4, <1>5, <1>6, <1>7, <1>8
  DEF Next, CreatorStep, FinalizerStep

\* Every step keeps SweepCovers: at BeginScan every live hold is still due, and
\* while the seat is locked no other request stores a hold on it.
LEMMA SweepStep ==
  ASSUME IInv, LockInv, Next, ~ LockMayLapse
  PROVE  SweepCovers'
<1>. USE SystemAssumption, HoldStoreAssumption
         DEF SweepCovers, LockInv, Live, LiveTokens
<1>1. ASSUME NEW c \in Creators,
             AcquireLock(c) \/ LockBusy(c) \/ LockFails(c) \/ LockReplyLost(c)
               \/ RefuseRequest(c) \/ ReadBookings(c) \/ CheckFails(c) \/ StoreFails(c)
               \/ Unlock(c)
      PROVE  SweepCovers'
  BY <1>1 DEF AcquireLock, LockBusy, LockFails, LockReplyLost, RefuseRequest,
    ReadBookings, CheckFails, StoreFails, Unlock
<1>2. ASSUME NEW c \in Creators, BeginScan(c)
      PROVE  SweepCovers'
  BY <1>2 DEF BeginScan, View
<1>3. ASSUME NEW c \in Creators, PriceSeat(c)
      PROVE  SweepCovers'
  BY <1>3 DEF PriceSeat
<1>4. ASSUME NEW c \in Creators, StoreHold(c)
      PROVE  SweepCovers'
  BY <1>4 DEF StoreHold, SectionOwnsLock, InSection, OfferOK
<1>5. ASSUME NEW c \in Creators, NEW r \in Requests, StartCreate(c, r)
      PROVE  SweepCovers'
  BY <1>5 DEF StartCreate
<1>6. ASSUME NEW c \in Creators, NEW t \in Creators, VisitHold(c, t)
      PROVE  SweepCovers'
  BY <1>6 DEF VisitHold, View
<1>7. ASSUME NEW f \in Finalizers,
             GetHold(f) \/ GetFails(f) \/ InsertBooking(f) \/ InsertRefused(f)
               \/ InsertFails(f) \/ ReleaseHold(f)
      PROVE  SweepCovers'
  BY <1>7 DEF GetHold, GetFails, InsertBooking, InsertRefused, InsertFails,
    ReleaseHold
<1>8. ASSUME NEW f \in Finalizers, NEW t \in Creators, StartFinalize(f, t)
      PROVE  SweepCovers'
  BY <1>8 DEF StartFinalize
<1>9. ASSUME NEW t \in Creators,
             CancelHold(t) \/ ExpireHold(t)
      PROVE  SweepCovers'
  BY <1>9 DEF CancelHold, ExpireHold, Issued
<1>10. ASSUME NEW s \in SeatIds, ExpireLock(s)
      PROVE  SweepCovers'
  BY <1>10 DEF ExpireLock
<1>11. ASSUME NEW r \in Creators \cup Finalizers,
             Disconnect(r) \/ Die(r)
      PROVE  SweepCovers'
  BY <1>11 DEF Disconnect, Die, Running, Idle
<1>. QED  BY <1>1, <1>2, <1>3, <1>4, <1>5, <1>6, <1>7, <1>8, <1>9, <1>10,
  <1>11
  DEF Next, CreatorStep, FinalizerStep

\* Every step keeps StoreIsClear: PriceSeat offers only when no hold it has met
\* overlaps, and has met them all.
LEMMA ClearStep ==
  ASSUME IInv, LockInv, Next, ~ LockMayLapse
  PROVE  StoreIsClear'
<1>. USE SystemAssumption, HoldStoreAssumption
         DEF SectionOwnsLock, StoreIsClear, LockInv, InSection, Idle,
           Running, WantOK, LastAttempt, Live, LiveTokens, OfferOK, HoldsOK,
           BeforeOffer
<1>1. ASSUME NEW c \in Creators,
             AcquireLock(c) \/ LockBusy(c) \/ LockFails(c) \/ LockReplyLost(c)
               \/ RefuseRequest(c) \/ ReadBookings(c) \/ BeginScan(c) \/ CheckFails(c)
               \/ StoreHold(c) \/ StoreFails(c) \/ Unlock(c)
      PROVE  StoreIsClear'
  BY <1>1 DEF AcquireLock, LockBusy, LockFails, LockReplyLost, RefuseRequest,
    ReadBookings, BeginScan, CheckFails, StoreHold, StoreFails, Unlock
<1>2. ASSUME NEW c \in Creators, PriceSeat(c)
      PROVE  StoreIsClear'
  <2>1. ASSUME cpc'[c] = "storing", NEW t \in LiveTokens, holds[t].seat = want[c].seat
        PROVE  ~ Overlaps(holds[t].leg, want[c].leg)
    <3>1. cpc[c] = "scanning" /\ t \notin view[c].due
      BY <1>2, <2>1 DEF PriceSeat
    <3>2. holds[t].leg \in view[c].seen
      BY <2>1, <3>1 DEF SweepCovers
    <3>3. Status(want[c].leg, view[c].booked, view[c].seen) = "available"
      BY <1>2, <2>1, <3>1 DEF PriceSeat
    <3>. QED
      BY <3>2, <3>3 DEF Status
  <2>2. UNCHANGED <<holds, want>> /\ LiveTokens' = LiveTokens
    BY <1>2 DEF PriceSeat
  <2>3. cpc'[c] = "storing" => offer'[c].seat = want[c].seat /\ offer'[c].leg = want[c].leg
    BY <1>2 DEF PriceSeat
  <2>4. \A d \in Creators \ {c} : cpc'[d] = cpc[d] /\ offer'[d] = offer[d]
    BY <1>2 DEF PriceSeat
  <2>. QED
    BY <2>1, <2>2, <2>3, <2>4
<1>3. ASSUME NEW c \in Creators, NEW r \in Requests, StartCreate(c, r)
      PROVE  StoreIsClear'
  BY <1>3 DEF StartCreate
<1>4. ASSUME NEW c \in Creators, NEW t \in Creators, VisitHold(c, t)
      PROVE  StoreIsClear'
  BY <1>4 DEF VisitHold
<1>5. ASSUME NEW f \in Finalizers,
             GetHold(f) \/ GetFails(f) \/ InsertBooking(f) \/ InsertRefused(f)
               \/ InsertFails(f) \/ ReleaseHold(f)
      PROVE  StoreIsClear'
  BY <1>5 DEF GetHold, GetFails, InsertBooking, InsertRefused, InsertFails,
    ReleaseHold
<1>6. ASSUME NEW f \in Finalizers, NEW t \in Creators, StartFinalize(f, t)
      PROVE  StoreIsClear'
  BY <1>6 DEF StartFinalize
<1>7. ASSUME NEW t \in Creators,
             CancelHold(t) \/ ExpireHold(t)
      PROVE  StoreIsClear'
  BY <1>7 DEF CancelHold, ExpireHold
<1>8. ASSUME NEW s \in SeatIds, ExpireLock(s)
      PROVE  StoreIsClear'
  BY <1>8 DEF ExpireLock
<1>9. ASSUME NEW r \in Creators \cup Finalizers,
             Disconnect(r) \/ Die(r)
      PROVE  StoreIsClear'
  BY <1>9 DEF Disconnect, Die
<1>. QED  BY <1>1, <1>2, <1>3, <1>4, <1>5, <1>6, <1>7, <1>8, <1>9
  DEF Next, CreatorStep, FinalizerStep

\* Every step keeps NoOverlappingHolds: what StoreHold adds is clear of the rest.
LEMMA NoOverlapStep ==
  ASSUME IInv, LockInv, Next, ~ LockMayLapse
  PROVE  NoOverlappingHolds'
<1>. USE SystemAssumption, HoldStoreAssumption
         DEF StoreIsClear, NoOverlappingHolds, LockInv, InSection, Idle,
           Running, WantOK, LastAttempt, Live, LiveTokens, OfferOK, HoldsOK,
           BeforeOffer
<1>1. ASSUME NEW c \in Creators,
             AcquireLock(c) \/ LockBusy(c) \/ LockFails(c) \/ LockReplyLost(c)
               \/ RefuseRequest(c) \/ ReadBookings(c) \/ BeginScan(c) \/ PriceSeat(c)
               \/ CheckFails(c) \/ StoreFails(c) \/ Unlock(c)
      PROVE  NoOverlappingHolds'
  BY <1>1 DEF AcquireLock, LockBusy, LockFails, LockReplyLost, RefuseRequest,
    ReadBookings, BeginScan, PriceSeat, CheckFails, StoreFails, Unlock
<1>2. ASSUME NEW c \in Creators, StoreHold(c)
      PROVE  NoOverlappingHolds'
  <2>1. \A t \in LiveTokens : holds[t].seat = offer[c].seat =>
          ~ Overlaps(holds[t].leg, offer[c].leg) /\ ~ Overlaps(offer[c].leg, holds[t].leg)
    BY <1>2, OverlapsSymmetric DEF StoreHold
  <2>2. holds' = [holds EXCEPT ![c] = offer[c]]
    BY <1>2 DEF StoreHold
  <2>3. \A t \in LiveTokens' \ {c} : t \in LiveTokens /\ holds'[t] = holds[t]
    BY <2>2
  <2>4. holds'[c] = offer[c]
    BY <2>2
  <2>. QED
    BY <2>1, <2>3, <2>4
<1>3. ASSUME NEW c \in Creators, NEW r \in Requests, StartCreate(c, r)
      PROVE  NoOverlappingHolds'
  BY <1>3 DEF StartCreate
<1>4. ASSUME NEW c \in Creators, NEW t \in Creators, VisitHold(c, t)
      PROVE  NoOverlappingHolds'
  BY <1>4 DEF VisitHold
<1>5. ASSUME NEW f \in Finalizers,
             GetHold(f) \/ GetFails(f) \/ InsertBooking(f) \/ InsertRefused(f)
               \/ InsertFails(f) \/ ReleaseHold(f)
      PROVE  NoOverlappingHolds'
  BY <1>5 DEF GetHold, GetFails, InsertBooking, InsertRefused, InsertFails,
    ReleaseHold
<1>6. ASSUME NEW f \in Finalizers, NEW t \in Creators, StartFinalize(f, t)
      PROVE  NoOverlappingHolds'
  BY <1>6 DEF StartFinalize
<1>7. ASSUME NEW t \in Creators,
             CancelHold(t) \/ ExpireHold(t)
      PROVE  NoOverlappingHolds'
  BY <1>7 DEF CancelHold, ExpireHold
<1>8. ASSUME NEW s \in SeatIds, ExpireLock(s)
      PROVE  NoOverlappingHolds'
  BY <1>8 DEF ExpireLock
<1>9. ASSUME NEW r \in Creators \cup Finalizers,
             Disconnect(r) \/ Die(r)
      PROVE  NoOverlappingHolds'
  BY <1>9 DEF Disconnect, Die
<1>. QED  BY <1>1, <1>2, <1>3, <1>4, <1>5, <1>6, <1>7, <1>8, <1>9
  DEF Next, CreatorStep, FinalizerStep

\* A step that changes nothing keeps the invariant.
LEMMA StutterLockInv ==
  ASSUME LockInv, UNCHANGED vars
  PROVE  LockInv'
BY DEF LockInv, SectionOwnsLock, InSection, SweepCovers, StoreIsClear,
       NoOverlappingHolds, LiveTokens, Live

-----------------------------------------------------------------------------
\* Whether or not locks lapse, only the owner's unlock or an expiry frees one:
\* SET NX needs a free key and the unlock script compares before it deletes.
THEOREM SpecOnlyOwnerOrExpiryFreesLock == Spec => OnlyOwnerOrExpiryFreesLock
<1>1. IInv /\ [Next]_vars => LockFreedRightly
  <2>. SUFFICES ASSUME IInv, [Next]_vars, NEW s \in SeatIds,
                       lock[s] # NoOwner, lock'[s] # lock[s]
                PROVE  ExpireLock(s) \/ Unlock(lock[s])
    BY DEF LockFreedRightly
  <2>. DEFINE Rightly == ExpireLock(s) \/ Unlock(lock[s])
  <2>1. ASSUME NEW c \in Creators, AcquireLock(c) \/ LockReplyLost(c)
        PROVE  Rightly
    BY <2>1 DEF AcquireLock, LockReplyLost
  <2>2. ASSUME NEW c \in Creators, Unlock(c)
        PROVE  Rightly
    <3>1. lock[s] = c
      BY <2>2 DEF Unlock
    <3>. QED  BY <2>2, <3>1 DEF Unlock
  <2>3. ASSUME NEW r \in SeatIds, ExpireLock(r)
        PROVE  Rightly
    BY <2>3 DEF ExpireLock
  <2>4. ASSUME NEW c \in Creators,
               \/ LockBusy(c) \/ LockFails(c) \/ RefuseRequest(c) \/ ReadBookings(c)
               \/ BeginScan(c) \/ PriceSeat(c) \/ CheckFails(c) \/ StoreHold(c)
               \/ StoreFails(c)
        PROVE  Rightly
    BY <2>4 DEF LockBusy, LockFails, RefuseRequest, ReadBookings, BeginScan, PriceSeat,
      CheckFails, StoreHold, StoreFails
  <2>5. ASSUME NEW c \in Creators, NEW t \in Creators, VisitHold(c, t)
        PROVE  Rightly
    BY <2>5 DEF VisitHold
  <2>6. ASSUME NEW c \in Creators, NEW r \in Requests, StartCreate(c, r)
        PROVE  Rightly
    BY <2>6 DEF StartCreate
  <2>7. ASSUME NEW f \in Finalizers,
               \/ GetHold(f) \/ GetFails(f) \/ InsertBooking(f) \/ InsertRefused(f)
               \/ InsertFails(f) \/ ReleaseHold(f)
        PROVE  Rightly
    BY <2>7 DEF GetHold, GetFails, InsertBooking, InsertRefused, InsertFails, ReleaseHold
  <2>8. ASSUME NEW f \in Finalizers, NEW t \in Creators, StartFinalize(f, t)
        PROVE  Rightly
    BY <2>8 DEF StartFinalize
  <2>9. ASSUME NEW t \in Creators, CancelHold(t) \/ ExpireHold(t)
        PROVE  Rightly
    BY <2>9 DEF CancelHold, ExpireHold
  <2>10. ASSUME NEW r \in Creators \cup Finalizers, Disconnect(r) \/ Die(r)
         PROVE  Rightly
    BY <2>10 DEF Disconnect, Die
  <2>11. ASSUME UNCHANGED vars
         PROVE  Rightly
    BY <2>11
  <2>. HIDE DEF IInv, vars, Rightly
  <2>12. ASSUME Next
         PROVE  Rightly
    BY <2>1, <2>2, <2>3, <2>4, <2>5, <2>6, <2>7, <2>8, <2>9, <2>10, <2>12
    DEF Next, CreatorStep, FinalizerStep
  <2>. QED  BY <2>11, <2>12 DEF Rightly
<1>. HIDE DEF IInv, vars
<1>. QED  BY <1>1, SpecIInv, PTL DEF Spec, OnlyOwnerOrExpiryFreesLock

\* With locks that outlive their sections LockInv holds in every reachable state.
THEOREM SpecLockInv ==
  ASSUME ~ LockMayLapse
  PROVE  Spec => []LockInv
<1>. HIDE DEF IInv, vars
<1>1. Init => LockInv
  BY InitLockInv
<1>2. IInv /\ LockInv /\ [Next]_vars => LockInv'
  <2>. SUFFICES ASSUME IInv, LockInv, [Next]_vars
                PROVE  LockInv'
    OBVIOUS
  <2>1. CASE Next
    <3>1. SectionOwnsLock' /\ SweepCovers' /\ StoreIsClear' /\ NoOverlappingHolds'
      BY <2>1, SectionOwnsLockStep, SweepStep, ClearStep, NoOverlapStep
    <3>. QED  BY <3>1 DEF LockInv
  <2>2. CASE UNCHANGED vars
    BY <2>2, StutterLockInv
  <2>. QED  BY <2>1, <2>2
<1>. QED  BY <1>1, <1>2, SpecIInv, PTL DEF Spec

\* Two requests are never both between lock and unlock for one seat: they would
\* both own its lock.
THEOREM SpecSectionsExclusive ==
  ASSUME ~ LockMayLapse
  PROVE  Spec => []SectionsExclusive
<1>1. LockInv => SectionsExclusive
  BY DEF LockInv, SectionOwnsLock, SectionsExclusive
<1>. QED  BY <1>1, SpecLockInv, PTL

\* Two live holds never want the same seat on overlapping legs.
THEOREM SpecNoOverlappingHolds ==
  ASSUME ~ LockMayLapse
  PROVE  Spec => []NoOverlappingHolds
<1>1. LockInv => NoOverlappingHolds
  BY DEF LockInv
<1>. QED  BY <1>1, SpecLockInv, PTL

-----------------------------------------------------------------------------
(* With such locks the system implements HoldRegister. *)

\* As in the refinement mapping of Register.
Spent == {t \in Creators : offer[t] # NoHold /\ ~ At(t, "storing")}

Refined == Register!RegisterNext \/ UNCHANGED <<holds, Spent>>

\* The register counts cells as the system does.
LEMMA RegisterCells ==
  ASSUME NEW seat, NEW l
  PROVE  Register!Cells(seat, l) = Cells(seat, l)
BY DEF Register!Cells, Cells, Register!Segment, Segment, Register!LegMin, LegMin,
       Register!LegMax, LegMax, Register!Outbound, Outbound

\* A step that leaves the offers alone and brings nobody to or from the SET of a
\* hold spends no token.
LEMMA SpentUnchanged ==
  ASSUME UNCHANGED offer, \A t \in Creators : At(t, "storing")' <=> At(t, "storing")
  PROVE  UNCHANGED Spent
BY DEF Spent

\* What StoreHold writes uses no stretch of a live hold.
LEMMA StorePlaces ==
  ASSUME IInv, LockInv, NEW c \in Creators, StoreHold(c)
  PROVE  Register!Place(c)
<1>1. cpc[c] = "storing" /\ offer[c] # NoHold /\ offer[c] \in Payload
  BY DEF StoreHold, OfferOK
<1>2. holds' = [holds EXCEPT ![c] = offer[c]] /\ holds'[c] = offer[c]
  BY DEF StoreHold
<1>3. Register!Clear(offer[c].seat, offer[c].leg)
  <2>. SUFFICES ASSUME NEW t \in Creators, holds[t] # NoHold, holds[t].seat = offer[c].seat
                PROVE  Cells(offer[c].seat, holds[t].leg) \cap Cells(offer[c].seat, offer[c].leg) = {}
    BY RegisterCells DEF Register!Clear
  <2>1. ~ Overlaps(holds[t].leg, offer[c].leg)
    BY <1>1 DEF LockInv, StoreIsClear, LiveTokens, Live
  <2>2. holds[t].leg \in Leg /\ offer[c].leg \in Leg
    BY <1>1 DEF Payload
  <2>. QED  BY <2>1, <2>2, OverlapsIffCellsMeet
<1>4. c \notin Spent /\ Spent' = Spent \cup {c}
  <2>1. cpc' = [cpc EXCEPT ![c] = "unlocking"] /\ offer' = offer
    BY DEF StoreHold
  <2>. HIDE DEF IInv, TypeOK
  <2>2. cpc \in [Creators -> CreatorPC]
    BY DEF IInv, TypeOK
  <2>. QED  BY <1>1, <2>1, <2>2 DEF Spent
<1>. QED  BY <1>1, <1>2, <1>3, <1>4 DEF Register!Place, Spent

\* Deleting a key drops a hold or changes nothing.
LEMMA DeleteDrops ==
  ASSUME IInv, NEW t \in Creators, DeleteHold(t), UNCHANGED Spent
  PROVE  Register!Drop(t) \/ UNCHANGED <<holds, Spent>>
<1>1. CASE holds[t] = NoHold
  BY <1>1
<1>2. CASE holds[t] # NoHold
  BY <1>2 DEF Register!Drop, Spent
<1>. QED  BY <1>1, <1>2

\* A request that fails at its SET, or dies before it, has spent its token.
LEMMA LeavingStoringWithdraws ==
  ASSUME IInv, NEW c \in Creators, cpc[c] = "storing", NEW pc, pc # "storing",
         cpc' = [cpc EXCEPT ![c] = pc], UNCHANGED <<offer, holds>>
  PROVE  Register!Withdraw(c)
<1>1. offer[c] # NoHold /\ cpc \in [Creators -> CreatorPC]
  BY DEF OfferOK
<1>2. c \notin Spent /\ Spent' = Spent \cup {c}
  BY <1>1 DEF Spent
<1>. QED  BY <1>2 DEF Register!Withdraw, Spent

\* Every step places, withdraws or drops one hold, or changes none.
LEMMA StepImplementsRegister ==
  ASSUME IInv, LockInv, [Next]_vars
  PROVE  Refined
<1>. USE DEF Register!RegisterNext
<1>1. ASSUME NEW c \in Creators, StoreHold(c)
      PROVE  Refined
  BY <1>1, StorePlaces DEF Refined
<1>2. ASSUME NEW c \in Creators, StoreFails(c)
      PROVE  Refined
  BY <1>2, LeavingStoringWithdraws DEF Refined, StoreFails
<1>3. ASSUME NEW c \in Creators, PriceSeat(c)
      PROVE  Refined
  <2>1. cpc[c] = "scanning" /\ offer[c] = NoHold /\ holds' = holds
    BY <1>3 DEF PriceSeat, OfferOK, BeforeOffer
  <2>2. \/ offer' = offer /\ cpc' = [cpc EXCEPT ![c] = "unlocking"]
        \/ cpc' = [cpc EXCEPT ![c] = "storing"] /\ \E o : offer' = [offer EXCEPT ![c] = o]
    BY <1>3 DEF PriceSeat
  <2>3. UNCHANGED Spent
    BY <2>1, <2>2 DEF Spent
  <2>. QED  BY <2>1, <2>3 DEF Refined
<1>4. ASSUME NEW r \in Creators \cup Finalizers, Die(r)
      PROVE  Refined
  <2>1. CASE r \in Creators /\ cpc[r] = "storing"
    BY <1>4, <2>1, LeavingStoringWithdraws DEF Refined, Die
  <2>2. CASE ~ (r \in Creators /\ cpc[r] = "storing")
    BY <1>4, <2>2, SpentUnchanged DEF Refined, Die
  <2>. QED  BY <2>1, <2>2
<1>5. ASSUME NEW t \in Creators, CancelHold(t) \/ ExpireHold(t)
      PROVE  Refined
  <2>1. DeleteHold(t) /\ UNCHANGED <<offer, cpc>>
    BY <1>5 DEF CancelHold, ExpireHold
  <2>. QED  BY <2>1, SpentUnchanged, DeleteDrops DEF Refined
<1>6. ASSUME NEW f \in Finalizers, ReleaseHold(f)
      PROVE  Refined
  <2>1. token[f] \in Creators /\ (DeleteHold(token[f]) \/ UNCHANGED holds) /\ UNCHANGED <<offer, cpc>>
    BY <1>6 DEF ReleaseHold, CheckoutOK
  <2>. QED  BY <2>1, SpentUnchanged, DeleteDrops DEF Refined
<1>7. ASSUME NEW c \in Creators,
             AcquireLock(c) \/ LockBusy(c) \/ LockFails(c) \/ LockReplyLost(c)
               \/ RefuseRequest(c) \/ ReadBookings(c) \/ BeginScan(c)
               \/ CheckFails(c) \/ Unlock(c)
      PROVE  Refined
  BY <1>7, SpentUnchanged DEF Refined, AcquireLock, LockBusy, LockFails, LockReplyLost, RefuseRequest,
    ReadBookings, BeginScan, CheckFails, Unlock
<1>8. ASSUME NEW c \in Creators, NEW r \in Requests, StartCreate(c, r)
      PROVE  Refined
  BY <1>8, SpentUnchanged DEF Refined, StartCreate
<1>9. ASSUME UNCHANGED <<holds, offer, cpc>>
      PROVE  Refined
  BY <1>9, SpentUnchanged DEF Refined
<1>10. ASSUME NEW c \in Creators, NEW t \in Creators, VisitHold(c, t)
       PROVE  Refined
  BY <1>9, <1>10 DEF VisitHold
<1>11. ASSUME NEW f \in Finalizers,
              GetHold(f) \/ GetFails(f) \/ InsertBooking(f) \/ InsertRefused(f) \/ InsertFails(f)
       PROVE  Refined
  BY <1>9, <1>11 DEF GetHold, GetFails, InsertBooking, InsertRefused, InsertFails
<1>12. ASSUME NEW f \in Finalizers, NEW t \in Creators, StartFinalize(f, t)
       PROVE  Refined
  BY <1>9, <1>12 DEF StartFinalize
<1>13. ASSUME NEW s \in SeatIds, ExpireLock(s)
       PROVE  Refined
  BY <1>9, <1>13 DEF ExpireLock
<1>14. ASSUME NEW r \in Creators \cup Finalizers, Disconnect(r)
       PROVE  Refined
  BY <1>9, <1>14 DEF Disconnect
<1>15. ASSUME UNCHANGED vars
       PROVE  Refined
  BY <1>9, <1>15
<1>. HIDE DEF IInv, vars
<1>16. ASSUME Next
       PROVE  Refined
  BY <1>1, <1>2, <1>3, <1>4, <1>5, <1>6, <1>7, <1>8, <1>10, <1>11, <1>12, <1>13, <1>14, <1>16
  DEF Next, CreatorStep, FinalizerStep
<1>. QED  BY <1>15, <1>16

\* Looking at a seat, pricing it and storing the hold is one step to everybody
\* else, and no hold comes back, whatever fails or dies.
THEOREM SpecImplementsRegister ==
  ASSUME ~ LockMayLapse
  PROVE  Spec => ImplementsRegister
<1>. HIDE DEF IInv, vars
<1>1. Init => Register!RegisterInit
  BY DEF Init, StoreInit, Register!RegisterInit
<1>2. IInv /\ LockInv /\ [Next]_vars => [Register!RegisterNext]_<<holds, Spent>>
  BY StepImplementsRegister DEF Refined
<1>3. ImplementsRegister <=> Register!RegisterInit /\ [][Register!RegisterNext]_<<holds, Spent>>
  BY DEF ImplementsRegister, Register!RegisterSpec, Spent
<1>. QED  BY <1>1, <1>2, <1>3, SpecIInv, SpecLockInv, PTL DEF Spec

-----------------------------------------------------------------------------
(* The same locks implement SeatMutex. *)

\* As in the refinement mapping of Mutex.
Inside == [s \in SeatIds |-> {c \in Creators : InSection(c) /\ want[c].seat = s}]

Excluding == Mutex!MutexNext \/ UNCHANGED <<lock, Inside>>

\* A step that brings nobody into or out of a section leaves Inside alone.
LEMMA InsideUnchanged ==
  ASSUME \A c \in Creators : /\ InSection(c)' <=> InSection(c)
                             /\ InSection(c) => want'[c] = want[c]
  PROVE  UNCHANGED Inside
<1>1. ASSUME NEW s \in SeatIds
      PROVE  {c \in Creators : InSection(c) /\ want[c].seat = s}'
               = {c \in Creators : InSection(c) /\ want[c].seat = s}
  OBVIOUS
<1>. QED  BY <1>1 DEF Inside

\* Nobody is on a free seat, and on an owned one at most its owner.
LEMMA OwnerIsInside ==
  ASSUME IInv, LockInv, NEW c \in Creators
  PROVE  /\ want[c] \in Requests => want[c].seat \in SeatIds
         /\ InSection(c) => /\ want[c] \in Requests
                            /\ lock[want[c].seat] = c
                            /\ Inside[want[c].seat] = {c}
         /\ \A s \in SeatIds : lock[s] = c /\ ~ InSection(c) => Inside[s] = {}
         /\ \A s \in SeatIds : lock[s] = NoOwner => Inside[s] = {}
BY SystemAssumption, HoldStoreAssumption
   DEF LockInv, SectionOwnsLock, InSection, Inside, WantOK

\* SET NX on a free seat takes it, whether or not its answer arrives.
LEMMA AcquireTakes ==
  ASSUME IInv, LockInv, NEW c \in Creators, AcquireLock(c) \/ LockReplyLost(c)
  PROVE  Excluding
<1>. PICK s \in SeatIds : s = want[c].seat
  BY SystemAssumption DEF AcquireLock, LockReplyLost, WantOK
<1>1. /\ lock[s] = NoOwner /\ lock' = [lock EXCEPT ![s] = c]
      /\ want' = want /\ cpc[c] = "locking" /\ cpc \in [Creators -> CreatorPC]
  BY SystemAssumption DEF AcquireLock, LockReplyLost, WantOK
<1>2. Inside[s] = {} /\ ~ InSection(c)
  BY <1>1, OwnerIsInside DEF InSection
<1>3. ASSUME AcquireLock(c)
      PROVE  Mutex!Take(s, c)
  <2>1. InSection(c)' /\ \A d \in Creators \ {c} : InSection(d)' <=> InSection(d)
    BY <1>1, <1>3 DEF AcquireLock, InSection
  <2>2. ASSUME NEW t \in SeatIds
        PROVE  Inside'[t] = IF t = s THEN {c} ELSE Inside[t]
    <3>. HIDE DEF IInv, LockInv
    <3>. QED  BY <1>1, <1>2, <2>1 DEF Inside
  <2>3. Inside' = [Inside EXCEPT ![s] = {c}]
    <3>. HIDE DEF IInv, LockInv
    <3>. QED  BY <2>2 DEF Inside
  <2>. QED  BY <1>1, <2>3 DEF Mutex!Take, Inside
<1>4. ASSUME LockReplyLost(c)
      PROVE  Mutex!Take(s, c)
  <2>1. UNCHANGED Inside
    BY <1>1, <1>4, InsideUnchanged DEF LockReplyLost, InSection
  <2>. QED  BY <1>1, <2>1 DEF Mutex!Take, Inside
<1>. HIDE DEF IInv, LockInv, Inside
<1>. QED  BY <1>3, <1>4 DEF Excluding, Mutex!MutexNext

\* Who leaves a section owns its seat, and frees it or does not.
LEMMA EndOfSectionLeaves ==
  ASSUME IInv, LockInv, NEW c \in Creators, InSection(c),
         NEW pc, cpc' = [cpc EXCEPT ![c] = pc], pc \in {"done", "dead"}, UNCHANGED want,
         lock' = lock \/ lock' = [lock EXCEPT ![want[c].seat] = NoOwner]
  PROVE  Excluding
<1>. PICK s \in SeatIds : s = want[c].seat
  BY OwnerIsInside
<1>1. lock[s] = c /\ Inside[s] = {c} /\ cpc \in [Creators -> CreatorPC]
  BY OwnerIsInside
<1>2. ~ InSection(c)' /\ \A d \in Creators \ {c} : InSection(d)' <=> InSection(d)
  BY <1>1 DEF InSection
<1>3. ASSUME NEW t \in SeatIds
      PROVE  Inside'[t] = IF t = s THEN {} ELSE Inside[t]
  <2>1. Inside'[t] = {d \in Creators : InSection(d)' /\ want[d].seat = t}
    BY DEF Inside
  <2>2. Inside[t] = {d \in Creators : InSection(d) /\ want[d].seat = t}
    BY DEF Inside
  <2>. HIDE DEF IInv, LockInv, Inside, InSection
  <2>3. CASE t = s
    BY <1>1, <1>2, <2>1, <2>2, <2>3
  <2>4. CASE t # s
    BY <1>1, <1>2, <2>1, <2>2, <2>4
  <2>. QED  BY <2>3, <2>4
<1>4. Inside' = [Inside EXCEPT ![s] = {}]
  <2>. HIDE DEF IInv, LockInv
  <2>. QED  BY <1>3 DEF Inside
<1>5. Mutex!Leave(s, c)
  BY <1>1, <1>4 DEF Mutex!Leave, Inside
<1>. HIDE DEF IInv, LockInv, Inside
<1>. QED  BY <1>5 DEF Excluding, Mutex!MutexNext

\* Every step takes, leaves or lapses one seat, or changes no lock and no section.
LEMMA StepImplementsMutex ==
  ASSUME IInv, LockInv, [Next]_vars, ~ LockMayLapse
  PROVE  Excluding
<1>1. ASSUME NEW c \in Creators, AcquireLock(c) \/ LockReplyLost(c)
      PROVE  Excluding
  BY <1>1, AcquireTakes
<1>2. ASSUME NEW c \in Creators, Unlock(c)
      PROVE  Excluding
  <2>1. InSection(c) /\ cpc' = [cpc EXCEPT ![c] = "done"] /\ UNCHANGED want
    BY <1>2 DEF Unlock, InSection
  <2>2. lock' = lock \/ lock' = [lock EXCEPT ![want[c].seat] = NoOwner]
    BY <1>2 DEF Unlock
  <2>. QED  BY <2>1, <2>2, EndOfSectionLeaves
<1>3. ASSUME NEW r \in Creators \cup Finalizers, Die(r)
      PROVE  Excluding
  <2>1. CASE r \in Creators /\ InSection(r)
    <3>1. cpc' = [cpc EXCEPT ![r] = "dead"] /\ UNCHANGED <<want, lock>>
      BY <1>3, <2>1 DEF Die
    <3>. QED  BY <2>1, <3>1, EndOfSectionLeaves
  <2>2. CASE r \in Creators /\ ~ InSection(r)
    <3>1. cpc' = [cpc EXCEPT ![r] = "dead"] /\ UNCHANGED <<want, lock>>
      BY <1>3, <2>2 DEF Die
    <3>. QED  BY <2>2, <3>1, InsideUnchanged DEF Excluding, InSection
  <2>3. CASE r \notin Creators
    BY <1>3, <2>3, InsideUnchanged DEF Excluding, Die, InSection
  <2>. QED  BY <2>1, <2>2, <2>3
<1>4. ASSUME NEW s \in SeatIds, ExpireLock(s)
      PROVE  Excluding
  <2>1. /\ lock[s] \in Creators /\ ~ InSection(lock[s])
        /\ lock' = [lock EXCEPT ![s] = NoOwner] /\ UNCHANGED <<cpc, want>>
    BY <1>4 DEF ExpireLock
  <2>2. Inside[s] = {}
    BY <2>1, OwnerIsInside
  <2>3. UNCHANGED Inside
    BY <2>1, InsideUnchanged DEF InSection
  <2>. QED  BY <2>1, <2>2, <2>3 DEF Excluding, Mutex!MutexNext, Mutex!Lapse, Inside
<1>5. ASSUME NEW c \in Creators,
             LockBusy(c) \/ LockFails(c) \/ RefuseRequest(c) \/ ReadBookings(c)
               \/ BeginScan(c) \/ PriceSeat(c) \/ CheckFails(c) \/ StoreHold(c) \/ StoreFails(c)
      PROVE  Excluding
  <2>1. /\ UNCHANGED <<lock, want>>
        /\ \A d \in Creators : InSection(d)' <=> InSection(d)
    BY <1>5 DEF InSection, LockBusy, LockFails, RefuseRequest, ReadBookings, BeginScan, PriceSeat,
      CheckFails, StoreHold, StoreFails
  <2>. QED  BY <2>1, InsideUnchanged DEF Excluding
<1>6. ASSUME NEW c \in Creators, NEW r \in Requests, StartCreate(c, r)
      PROVE  Excluding
  <2>1. /\ UNCHANGED lock /\ ~ InSection(c)
        /\ \A d \in Creators : InSection(d)' <=> InSection(d)
        /\ \A d \in Creators \ {c} : want'[d] = want[d]
    BY <1>6 DEF InSection, StartCreate
  <2>. QED  BY <2>1, InsideUnchanged DEF Excluding
<1>7. ASSUME UNCHANGED <<lock, want, cpc>>
      PROVE  Excluding
  BY <1>7, InsideUnchanged DEF Excluding, InSection
<1>8. ASSUME NEW c \in Creators, NEW t \in Creators, VisitHold(c, t)
      PROVE  Excluding
  BY <1>7, <1>8 DEF VisitHold
<1>9. ASSUME NEW f \in Finalizers,
             GetHold(f) \/ GetFails(f) \/ InsertBooking(f) \/ InsertRefused(f)
               \/ InsertFails(f) \/ ReleaseHold(f)
      PROVE  Excluding
  BY <1>7, <1>9 DEF GetHold, GetFails, InsertBooking, InsertRefused, InsertFails, ReleaseHold
<1>10. ASSUME NEW f \in Finalizers, NEW t \in Creators, StartFinalize(f, t)
       PROVE  Excluding
  BY <1>7, <1>10 DEF StartFinalize
<1>11. ASSUME NEW t \in Creators, CancelHold(t) \/ ExpireHold(t)
       PROVE  Excluding
  BY <1>7, <1>11 DEF CancelHold, ExpireHold
<1>12. ASSUME NEW r \in Creators \cup Finalizers, Disconnect(r)
       PROVE  Excluding
  BY <1>7, <1>12 DEF Disconnect
<1>13. ASSUME UNCHANGED vars
       PROVE  Excluding
  BY <1>7, <1>13
<1>. HIDE DEF IInv, vars
<1>14. ASSUME Next
       PROVE  Excluding
  BY <1>1, <1>2, <1>3, <1>4, <1>5, <1>6, <1>8, <1>9, <1>10, <1>11, <1>12, <1>14
  DEF Next, CreatorStep, FinalizerStep
<1>. QED  BY <1>13, <1>14

\* A request works alone under its lock, and the lock outlasts it, whatever
\* answers, clients and processes are lost.
THEOREM SpecImplementsMutex ==
  ASSUME ~ LockMayLapse
  PROVE  Spec => ImplementsMutex
<1>. HIDE DEF IInv, vars
<1>1. Init => Mutex!MutexInit
  BY DEF Init, StoreInit, Mutex!MutexInit, InSection
<1>2. IInv /\ LockInv /\ [Next]_vars => [Mutex!MutexNext]_<<lock, Inside>>
  BY StepImplementsMutex DEF Excluding
<1>3. ImplementsMutex <=> Mutex!MutexInit /\ [][Mutex!MutexNext]_<<lock, Inside>>
  BY DEF ImplementsMutex, Mutex!MutexSpec, Inside
<1>. QED  BY <1>1, <1>2, <1>3, SpecIInv, SpecLockInv, PTL DEF Spec
=============================================================================
