-------------------------- MODULE BookingInvariant --------------------------
(***************************************************************************)
(* The inductive invariants behind the safety properties of BookingSystem. *)
(* IInv holds whatever expires; LockInv needs locks that outlive the work  *)
(* they protect.  BookingTheorems and LockTheorems prove them.             *)
(***************************************************************************)
EXTENDS BookingSystem

BeforeOffer == {"idle", "locking", "checking", "listing", "scanning"}

\* A request under way has been read, is still allowed an attempt while it
\* waits for the lock, and past resolveLeg its leg is a real one.
WantOK ==
  \A c \in Creators :
    /\ cpc[c] # "idle" => want[c] \in Requests
    /\ cpc[c] \in {"idle", "locking"} => tries[c] < MaxAttempts
    /\ cpc[c] \in {"listing", "scanning"} => want[c].leg \in Leg

\* A request is made one offer, when it is priced, and for what it asked.
OfferOK ==
  \A c \in Creators :
    /\ cpc[c] \in BeforeOffer => offer[c] = NoHold
    /\ cpc[c] = "storing" => /\ offer[c] # NoHold
                             /\ offer[c].seat = want[c].seat
                             /\ offer[c].leg = want[c].leg

\* A hold is stored once, after pricing, and is the offer as long as it lives.
HoldsOK ==
  \A c \in Creators :
    /\ Live(c) => holds[c] = offer[c]
    /\ cpc[c] \in BeforeOffer \cup {"storing"} => ~ Live(c)

\* A checkout carries the offer of its token and has no row before its INSERT.
CheckoutOK ==
  \A f \in Finalizers :
    /\ fpc[f] # "idle" => token[f] \in Creators
    /\ fpc[f] = "inserting" => copy[f] # NoHold /\ copy[f] = offer[token[f]]
    /\ fpc[f] \in {"idle", "getting", "inserting"} => freply[f] = "none"

\* A row is the unchanged offer of the token it was bought with.
RowsOK ==
  \A b \in bookings :
    /\ fpc[b.id] # "idle"
    /\ token[b.id] \in Creators
    /\ offer[token[b.id]] # NoHold
    /\ b = BookingRow(b.id, offer[token[b.id]])

\* The table satisfies its exclusion constraint.
RowsApart ==
  \A a, b \in bookings : (a # b /\ a.seat = b.seat) => ~ Excludes(a.leg, b.leg)

\* What a checkout of its own was told about the row of its own INSERT; no row
\* is ever deleted, so the one that refused it is still there.
RowsOf(f) == {b \in bookings : b.id = f}

AnswersOK ==
  \A f \in Finalizers :
    /\ freply[f] = "booked" => RowsOf(f) = {BookingRow(f, offer[token[f]])}
    /\ freply[f] \in {"none", "gone", "conflict"} => RowsOf(f) = {}
    /\ freply[f] = "conflict" => /\ offer[token[f]] # NoHold
                                 /\ Violates(BookingRow(f, offer[token[f]]))

\* TypeOK and the rest are preserved by every step and imply the safety
\* properties of what is sold and of what checkout answers.
IInv == TypeOK /\ WantOK /\ OfferOK /\ HoldsOK /\ CheckoutOK /\ RowsOK /\ RowsApart
          /\ AnswersOK

\* Who left something behind, and whose calls fail from now on without a
\* further fault.
Charged == LeftBehind \cup gone

\* A checkout's hold was stored before it began, so it cannot come back; the seat
\* a lock is for is its owner's, who has begun.
Settled ==
  /\ \A f \in Finalizers : fpc[f] # "idle" => cpc[token[f]] = "done"
  /\ \A s \in SeatIds : lock[s] # NoOwner => cpc[lock[s]] # "idle" /\ want[lock[s]].seat = s

\* Everybody charged has had a fault of its own.
ChargeInv == Settled /\ IsFiniteSet(Charged) /\ Cardinality(Charged) <= faults

-----------------------------------------------------------------------------
\* A request that is working on a seat owns its lock.
SectionOwnsLock == \A c \in Creators : InSection(c) => lock[want[c].seat] = c

\* The sweep has met, or will meet, every live hold on its seat.
SweepCovers ==
  \A c \in Creators : cpc[c] = "scanning" =>
    \A t \in LiveTokens : holds[t].seat = want[c].seat =>
      t \in view[c].due \/ holds[t].leg \in view[c].seen

\* What is about to be stored overlaps no live hold.
StoreIsClear ==
  \A c \in Creators : cpc[c] = "storing" =>
    \A t \in LiveTokens : holds[t].seat = offer[c].seat =>
      ~ Overlaps(holds[t].leg, offer[c].leg)

\* With locks that outlive their sections the lock does its work: preserved
\* by every step, and NoOverlappingHolds is part of it.
LockInv == SectionOwnsLock /\ SweepCovers /\ StoreIsClear /\ NoOverlappingHolds
=============================================================================
