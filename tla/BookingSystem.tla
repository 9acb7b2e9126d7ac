---------------------------- MODULE BookingSystem ---------------------------
(***************************************************************************)
(* The API's three writing requests running concurrently over Redis and    *)
(* Postgres, on any number of API instances:                               *)
(*   POST /holds      a creator: lock the seat, read bookings, sweep the   *)
(*                    holds, price, store the hold, unlock                 *)
(*   POST /bookings   a finalizer: read the hold, insert the booking,      *)
(*                    release the hold                                     *)
(*   POST /holds/{token}/cancel   one DEL                                  *)
(* One action is one call to Redis or Postgres; between two calls anything *)
(* may happen: steps of other requests, a hold or a lock expiring, the     *)
(* client going away (its context is cancelled and every later call of the *)
(* request fails), the process dying, a call failing with or without       *)
(* having taken effect.  MaxFaults bounds the last three together.         *)
(***************************************************************************)
EXTENDS Pricing, HoldStore, BookingTable

CONSTANTS
  ReservedSeats,    \* seats of coaches of type 'reserved'
  Requests,         \* what POST /holds may ask for: [seat, leg] records
  MaxAttempts,      \* attempts of HoldStore.Lock (20 in the code)
  MaxFaults,        \* bound: disconnects + deaths + failed calls
  LockMayLapse,     \* may a lock expire while its owner is still working?
  NoRequest

ASSUME SystemAssumption ==
  /\ ReservedSeats \subseteq SeatIds
  /\ \A r \in Requests : r.seat \in SeatIds
  /\ MaxAttempts \in Nat \ {0}
  /\ MaxFaults \in Nat
  /\ LockMayLapse \in BOOLEAN
  /\ NoRequest \notin Requests
  /\ Creators \cap Finalizers = {}

VARIABLES
  cpc, want, tries, view, offer, creply,   \* creators
  fpc, token, copy, freply,                \* finalizers
  revoked,          \* tokens whose cancel was answered 204
  gone,             \* requests whose client has disconnected
  faults

creatorVars == <<cpc, want, tries, view, offer, creply>>
finalizerVars == <<fpc, token, copy, freply>>
storeVars == <<holds, lock>>
vars == <<storeVars, bookings, creatorVars, finalizerVars, revoked, gone, faults>>

\* What one CheckSeat call has read: the seat's booked legs, the tokens SCAN
\* has yet to return, the seat's held legs it has met.
NoView == [booked |-> {}, due |-> {}, seen |-> {}]

Init == /\ StoreInit
        /\ bookings = {}
        /\ cpc = [c \in Creators |-> "idle"]
        /\ want = [c \in Creators |-> NoRequest]
        /\ tries = [c \in Creators |-> 0]
        /\ view = [c \in Creators |-> NoView]
        /\ offer = [c \in Creators |-> NoHold]
        /\ creply = [c \in Creators |-> "none"]
        /\ fpc = [f \in Finalizers |-> "idle"]
        /\ token = [f \in Finalizers |-> NoOwner]
        /\ copy = [f \in Finalizers |-> NoHold]
        /\ freply = [f \in Finalizers |-> "none"]
        /\ revoked = {}
        /\ gone = {}
        /\ faults = 0

-----------------------------------------------------------------------------
(* How a call to Redis or Postgres can go *)

Fault == faults < MaxFaults /\ faults' = faults + 1

CallWorks(r) == r \notin gone /\ UNCHANGED faults

\* The call has no effect and returns an error: always with a cancelled
\* context, otherwise when something breaks.
CallFails(r) == IF r \in gone THEN UNCHANGED faults ELSE Fault

\* The call takes effect but its caller gets an error.
ReplyLost(r) == r \notin gone /\ Fault

-----------------------------------------------------------------------------
(* Creators: holds.Handler.Create, holds.Service.CreateHold.  A request    *)
(* the handler itself rejects (400: body, required fields, date format)    *)
(* makes no call and is left out, here and below.                          *)

At(c, here) == cpc[c] = here
Goto(c, there) == cpc' = [cpc EXCEPT ![c] = there]
Reply(c, r) == creply' = [creply EXCEPT ![c] = r]
Reads(c, booked, due, seen) ==
  view' = [view EXCEPT ![c] = [booked |-> booked, due |-> due, seen |-> seen]]

StartCreate(c, r) ==
  /\ At(c, "idle")
  /\ Goto(c, "locking")
  /\ want' = [want EXCEPT ![c] = r]
  /\ UNCHANGED <<storeVars, bookings, tries, view, offer, creply, finalizerVars, revoked, gone, faults>>

AcquireLock(c) ==
  /\ At(c, "locking") /\ CallWorks(c)
  /\ SetLockNX(want[c].seat, c)
  /\ Goto(c, "checking")
  /\ UNCHANGED <<holds, bookings, want, tries, view, offer, creply, finalizerVars, revoked, gone>>

\* Mutant: one attempt too many.
OneAttemptMore(c) == tries[c] = MaxAttempts

LastAttempt(c) == tries[c] + 1 = MaxAttempts

\* The key exists: wait retryDelay, or give up after the last attempt.
LockBusy(c) ==
  /\ At(c, "locking") /\ CallWorks(c)
  /\ lock[want[c].seat] # NoOwner
  /\ tries' = [tries EXCEPT ![c] = @ + 1]
  /\ IF LastAttempt(c)
       THEN Goto(c, "done") /\ Reply(c, "busy")
       ELSE UNCHANGED <<cpc, creply>>
  /\ UNCHANGED <<storeVars, bookings, want, view, offer, finalizerVars, revoked, gone>>

LockFails(c) ==
  /\ At(c, "locking") /\ CallFails(c)
  /\ Goto(c, "done") /\ Reply(c, "error")
  /\ UNCHANGED <<storeVars, bookings, want, tries, view, offer, finalizerVars, revoked, gone>>

\* SET NX took effect but the answer is lost.  Lock returns an error and
\* nobody will unlock, or the Redis client repeats the command and the
\* request goes on waiting for a lock that is its own.
LockReplyLost(c) ==
  /\ At(c, "locking") /\ ReplyLost(c)
  /\ SetLockNX(want[c].seat, c)
  /\ \/ Goto(c, "done") /\ Reply(c, "error")
     \/ UNCHANGED <<cpc, creply>>
  /\ UNCHANGED <<holds, bookings, want, tries, view, offer, finalizerVars, revoked, gone>>

\* CheckSeat: resolveLeg refuses the leg, or GetReserved does not find the seat.
RefuseRequest(c) ==
  /\ At(c, "checking") /\ CallWorks(c)
  /\ \/ want[c].leg \notin Leg /\ Reply(c, "badRequest")
     \/ want[c].leg \in Leg /\ want[c].seat \notin ReservedSeats /\ Reply(c, "notFound")
  /\ Goto(c, "unlocking")
  /\ UNCHANGED <<storeVars, bookings, want, tries, view, offer, finalizerVars, revoked, gone>>

ReadBookings(c) ==
  /\ At(c, "checking") /\ CallWorks(c)
  /\ want[c].leg \in Leg /\ want[c].seat \in ReservedSeats
  /\ Reads(c, BookedLegs(want[c].seat), {}, {})
  /\ Goto(c, "listing")
  /\ UNCHANGED <<storeVars, bookings, want, tries, offer, creply, finalizerVars, revoked, gone>>

\* SCAN returns every key that exists from its start to its end, and perhaps
\* keys created meanwhile; each returned key is then read with a GET.
BeginScan(c) ==
  /\ At(c, "listing") /\ CallWorks(c)
  /\ Reads(c, view[c].booked, LiveTokens, {})
  /\ Goto(c, "scanning")
  /\ UNCHANGED <<storeVars, bookings, want, tries, offer, creply, finalizerVars, revoked, gone>>

VisitHold(c, t) ==
  /\ At(c, "scanning") /\ CallWorks(c)
  /\ Live(t)
  /\ LET met == IF holds[t].seat = want[c].seat THEN {holds[t].leg} ELSE {}
     IN  Reads(c, view[c].booked, view[c].due \ {t}, view[c].seen \cup met)
  /\ UNCHANGED <<storeVars, bookings, cpc, want, tries, offer, creply, finalizerVars, revoked, gone>>

\* The sweep is over (a key that expired before its GET is skipped), and
\* priceOne decides.
PriceSeat(c) ==
  /\ At(c, "scanning") /\ CallWorks(c)
  /\ view[c].due \cap LiveTokens = {}
  /\ IF Status(want[c].leg, view[c].booked, view[c].seen) = "available"
       THEN /\ offer' = [offer EXCEPT ![c] =
                           [seat |-> want[c].seat, leg |-> want[c].leg,
                            fare |-> Fare(want[c].leg, view[c].booked, view[c].seen)]]
            /\ Goto(c, "storing") /\ UNCHANGED creply
       ELSE Goto(c, "unlocking") /\ Reply(c, "conflict") /\ UNCHANGED offer
  /\ view' = [view EXCEPT ![c] = NoView]
  /\ UNCHANGED <<storeVars, bookings, want, tries, finalizerVars, revoked, gone>>

\* Any of CheckSeat's calls fails.
CheckFails(c) ==
  /\ cpc[c] \in {"checking", "listing", "scanning"} /\ CallFails(c)
  /\ Goto(c, "unlocking") /\ Reply(c, "error")
  /\ view' = [view EXCEPT ![c] = NoView]
  /\ UNCHANGED <<storeVars, bookings, want, tries, offer, finalizerVars, revoked, gone>>

StoreHold(c) ==
  /\ At(c, "storing")
  /\ SetHold(c, offer[c])
  /\ \/ CallWorks(c) /\ Reply(c, "created")
     \/ ReplyLost(c) /\ Reply(c, "error")
  /\ Goto(c, "unlocking")
  /\ UNCHANGED <<lock, bookings, want, tries, view, offer, finalizerVars, revoked, gone>>

StoreFails(c) ==
  /\ At(c, "storing") /\ CallFails(c)
  /\ Goto(c, "unlocking") /\ Reply(c, "error")
  /\ UNCHANGED <<storeVars, bookings, want, tries, view, offer, finalizerVars, revoked, gone>>

\* The deferred unlock runs with the request's own context and its error is
\* dropped; the answer goes out afterwards.
Unlock(c) ==
  /\ At(c, "unlocking")
  /\ \/ CallWorks(c) /\ CompareAndDelete(want[c].seat, c)
     \/ CallFails(c) /\ UNCHANGED lock
  /\ Goto(c, "done")
  /\ UNCHANGED <<holds, bookings, want, tries, view, offer, creply, finalizerVars, revoked, gone>>

CreatorStep(c) ==
  \/ AcquireLock(c) \/ LockBusy(c) \/ LockFails(c) \/ LockReplyLost(c)
  \/ RefuseRequest(c) \/ ReadBookings(c) \/ BeginScan(c)
  \/ \E t \in Creators : VisitHold(c, t)
  \/ PriceSeat(c) \/ CheckFails(c) \/ StoreHold(c) \/ StoreFails(c) \/ Unlock(c)

\* From acquiring the seat lock to running the deferred unlock.
InSection(c) == cpc[c] \in {"checking", "listing", "scanning", "storing", "unlocking"}

-----------------------------------------------------------------------------
(* Finalizers: bookings.Handler.Create, bookings.Service.FinalizeBooking *)

FGoto(f, there) == fpc' = [fpc EXCEPT ![f] = there]
FReply(f, r) == freply' = [freply EXCEPT ![f] = r]

\* The client knows the token of a hold whose creation it saw answered 201.
Issued(t) == cpc[t] = "done" /\ creply[t] = "created" /\ t \notin gone

StartFinalize(f, t) ==
  /\ fpc[f] = "idle" /\ Issued(t)
  /\ FGoto(f, "getting")
  /\ token' = [token EXCEPT ![f] = t]
  /\ UNCHANGED <<storeVars, bookings, creatorVars, copy, freply, revoked, gone, faults>>

GetHold(f) ==
  /\ fpc[f] = "getting" /\ CallWorks(f)
  /\ IF Live(token[f])
       THEN /\ copy' = [copy EXCEPT ![f] = holds[token[f]]]
            /\ FGoto(f, "inserting") /\ UNCHANGED freply
       ELSE FGoto(f, "done") /\ FReply(f, "gone") /\ UNCHANGED copy
  /\ UNCHANGED <<storeVars, bookings, creatorVars, token, revoked, gone>>

GetFails(f) ==
  /\ fpc[f] = "getting" /\ CallFails(f)
  /\ FGoto(f, "done") /\ FReply(f, "error")
  /\ UNCHANGED <<storeVars, bookings, creatorVars, token, copy, revoked, gone>>

InsertBooking(f) ==
  /\ fpc[f] = "inserting"
  /\ InsertRow(BookingRow(f, copy[f]))
  /\ \/ CallWorks(f) /\ FReply(f, "booked")
     \/ ReplyLost(f) /\ FReply(f, "error")
  /\ FGoto(f, "releasing")
  /\ UNCHANGED <<storeVars, creatorVars, token, copy, revoked, gone>>

\* Mutant: ON CONFLICT DO NOTHING, answered as a success.
InsertRefusedSilently(f) ==
  /\ fpc[f] = "inserting" /\ CallWorks(f)
  /\ Violates(BookingRow(f, copy[f]))
  /\ FGoto(f, "releasing") /\ FReply(f, "booked")
  /\ UNCHANGED <<storeVars, bookings, creatorVars, token, copy, revoked, gone>>

InsertRefused(f) ==
  /\ fpc[f] = "inserting" /\ CallWorks(f)
  /\ Violates(BookingRow(f, copy[f]))
  /\ FGoto(f, "releasing") /\ FReply(f, "conflict")
  /\ UNCHANGED <<storeVars, bookings, creatorVars, token, copy, revoked, gone>>

InsertFails(f) ==
  /\ fpc[f] = "inserting" /\ CallFails(f)
  /\ FGoto(f, "releasing") /\ FReply(f, "error")
  /\ UNCHANGED <<storeVars, bookings, creatorVars, token, copy, revoked, gone>>

\* Mutants: the hold is released only after a booking; the release is tried
\* again until it has deleted something; without a booking the hold is put back.
ReleaseIfBooked(f) ==
  /\ fpc[f] = "releasing" /\ CallWorks(f)
  /\ IF freply[f] = "booked" THEN DeleteHold(token[f]) ELSE UNCHANGED holds
  /\ FGoto(f, "done")
  /\ UNCHANGED <<lock, bookings, creatorVars, token, copy, freply, revoked, gone>>

ReleaseUntilDeleted(f) ==
  /\ fpc[f] = "releasing" /\ CallWorks(f)
  /\ Live(token[f]) /\ DeleteHold(token[f])
  /\ FGoto(f, "done")
  /\ UNCHANGED <<lock, bookings, creatorVars, token, copy, freply, revoked, gone>>

RestoreUnlessBooked(f) ==
  /\ fpc[f] = "releasing" /\ CallWorks(f)
  /\ IF freply[f] = "booked" THEN DeleteHold(token[f]) ELSE SetHold(token[f], copy[f])
  /\ FGoto(f, "done")
  /\ UNCHANGED <<lock, bookings, creatorVars, token, copy, freply, revoked, gone>>

\* The hold is released whatever the INSERT said; a failure is only logged.
ReleaseHold(f) ==
  /\ fpc[f] = "releasing"
  /\ \/ CallWorks(f) /\ DeleteHold(token[f])
     \/ CallFails(f) /\ UNCHANGED holds
  /\ FGoto(f, "done")
  /\ UNCHANGED <<lock, bookings, creatorVars, token, copy, freply, revoked, gone>>

FinalizerStep(f) ==
  \/ GetHold(f) \/ GetFails(f)
  \/ InsertBooking(f) \/ InsertRefused(f) \/ InsertFails(f) \/ ReleaseHold(f)

-----------------------------------------------------------------------------
(* POST /holds/{token}/cancel: a lost reply leaves the client without its  *)
(* 204; a token that is not there is answered 404 and changes nothing.     *)

CancelHold(t) ==
  /\ Issued(t) /\ Live(t)
  /\ DeleteHold(t)
  /\ \/ revoked' = revoked \cup {t} /\ UNCHANGED faults
     \/ Fault /\ UNCHANGED revoked
  /\ UNCHANGED <<lock, bookings, creatorVars, finalizerVars, gone>>

-----------------------------------------------------------------------------
(* The environment *)

Idle == {"idle", "done", "dead"}
Running == {c \in Creators : cpc[c] \notin Idle} \cup {f \in Finalizers : fpc[f] \notin Idle}

Disconnect(r) ==
  /\ r \in Running \ gone /\ Fault
  /\ gone' = gone \cup {r}
  /\ UNCHANGED <<storeVars, bookings, creatorVars, finalizerVars, revoked>>

\* The API process dies; deferred calls do not run.
Die(r) ==
  /\ r \in Running /\ Fault
  /\ IF r \in Creators THEN Goto(r, "dead") /\ UNCHANGED fpc
                       ELSE FGoto(r, "dead") /\ UNCHANGED cpc
  /\ UNCHANGED <<storeVars, bookings, want, tries, view, offer, creply,
                 token, copy, freply, revoked, gone>>

ExpireHold(t) ==
  /\ HoldLapses(t)
  /\ UNCHANGED <<lock, bookings, creatorVars, finalizerVars, revoked, gone, faults>>

\* With LockMayLapse = FALSE, a lock outlives its owner's work: the five
\* seconds of lockTTL are longer than any section.
ExpireLock(s) ==
  /\ LockLapses(s)
  /\ LockMayLapse \/ ~ InSection(lock[s])
  /\ UNCHANGED <<holds, bookings, creatorVars, finalizerVars, revoked, gone, faults>>

-----------------------------------------------------------------------------
Next ==
  \/ \E c \in Creators : \/ \E r \in Requests : StartCreate(c, r)
                         \/ CreatorStep(c)
  \/ \E f \in Finalizers : \/ \E t \in Creators : StartFinalize(f, t)
                           \/ FinalizerStep(f)
  \/ \E t \in Creators : CancelHold(t) \/ ExpireHold(t)
  \/ \E s \in SeatIds : ExpireLock(s)
  \/ \E r \in Creators \cup Finalizers : Disconnect(r) \/ Die(r)

Spec == Init /\ [][Next]_vars

\* A request that is running keeps running.  Nothing obliges a client to send
\* or cancel anything, or a key to expire.
FairSpec == /\ Spec
            /\ \A c \in Creators : WF_vars(CreatorStep(c))
            /\ \A f \in Finalizers : WF_vars(FinalizerStep(f))

-----------------------------------------------------------------------------
(* Properties *)

Row == [id : Finalizers, seat : SeatIds, leg : Leg, fare : Nat]
View == [booked : SUBSET Leg, due : SUBSET Creators, seen : SUBSET Leg]
CreatorPC == {"idle", "locking", "checking", "listing", "scanning", "storing",
              "unlocking", "done", "dead"}
FinalizerPC == {"idle", "getting", "inserting", "releasing", "done", "dead"}
CreatorReply == {"none", "created", "badRequest", "notFound", "conflict", "busy", "error"}
FinalizerReply == {"none", "booked", "gone", "conflict", "error"}

TypeOK ==
  /\ StoreTypeOK
  /\ bookings \subseteq Row
  /\ cpc \in [Creators -> CreatorPC]
  /\ want \in [Creators -> Requests \cup {NoRequest}]
  /\ tries \in [Creators -> 0 .. MaxAttempts]
  /\ view \in [Creators -> View]
  /\ offer \in [Creators -> Payload \cup {NoHold}]
  /\ creply \in [Creators -> CreatorReply]
  /\ fpc \in [Finalizers -> FinalizerPC]
  /\ token \in [Finalizers -> Creators \cup {NoOwner}]
  /\ copy \in [Finalizers -> Payload \cup {NoHold}]
  /\ freply \in [Finalizers -> FinalizerReply]
  /\ revoked \subseteq Creators
  /\ gone \subseteq Creators \cup Finalizers
  /\ faults \in 0 .. MaxFaults

\* No two bookings use the same stretch of the line on one seat, date and
\* direction, whatever expires, fails or is retried (README "Concurrency
\* model", point 3; the exclusion constraint of migration 0005).
NoSegmentSoldTwice ==
  \A a, b \in bookings : a # b => Cells(a.seat, a.leg) \cap Cells(b.seat, b.leg) = {}

\* However often checkout is retried with a token, it yields one booking: the
\* constraint is also what makes POST /bookings idempotent.
TokenBookedAtMostOnce ==
  \A a, b \in bookings : token[a.id] = token[b.id] => a = b

\* What POST /bookings answers is what happened, to a passenger who may have
\* sent the token more than once: if one of its checkouts was confirmed, the
\* passenger has exactly the seat, leg and fare of its hold, whatever the
\* others answered; if all it was told is 409 or 410, it has nothing; and a 409
\* means that the stretch is sold, perhaps to the same passenger.
RepliesTellTheTruth ==
  \A t \in Creators :
    LET checkouts == {f \in Finalizers : token[f] = t}
        rows == {b \in bookings : token[b.id] = t}
    IN  /\ \A f \in checkouts : freply[f] = "booked" => rows = {BookingRow(f, offer[t])}
        /\ (\A f \in checkouts : freply[f] \notin {"booked", "error"}) => rows = {}
        /\ \A f \in checkouts : freply[f] = "conflict" =>
             \E b \in bookings : Cells(b.seat, b.leg) \cap Cells(offer[t].seat, offer[t].leg) # {}

LockFreedRightly ==
  \A s \in SeatIds :
    (lock[s] # NoOwner /\ lock'[s] # lock[s]) => ExpireLock(s) \/ Unlock(lock[s])

\* A lock changes hands only through its owner's own unlock or its expiry: a
\* request whose lock lapsed never releases the next owner's (the comment on
\* unlockScript).
OnlyOwnerOrExpiryFreesLock == [][LockFreedRightly]_vars

\* At most one request at a time is between lock and unlock for a seat.
SectionsExclusive ==
  \A c, d \in Creators :
    (InSection(c) /\ InSection(d) /\ want[c].seat = want[d].seat) => c = d

\* Two live holds never want the same seat on overlapping legs: the lock
\* closes the race of two requests that both see "available" (comments on
\* CreateHold and Lock).
NoOverlappingHolds ==
  \A t, u \in LiveTokens :
    (t # u /\ holds[t].seat = holds[u].seat) => ~ Overlaps(holds[t].leg, holds[u].leg)

\* Requests that have left something behind in Redis: the lock of a seat on
\* which they are not working, a hold whose token its client never learns, the
\* hold of a checkout that is over.
LeftBehind ==
  {c \in Creators : ~ InSection(c) /\ \E s \in SeatIds : lock[s] = c}
    \cup {c \in Creators : Live(c) /\ (creply[c] # "created" \/ cpc[c] = "dead" \/ c \in gone)}
    \cup {f \in Finalizers : fpc[f] \in {"done", "dead"} /\ Live(token[f])}

\* "The hold is released either way afterward" (comment on FinalizeBooking),
\* and the deferred unlock runs on every path: only a client that went away, a
\* process that died or a call that failed can leave a lock or a hold to its
\* TTL, each of them at most one request's.  No path of the code, refusals,
\* conflicts and lapsed locks included, does so by itself.
LeftoversCostFaults == Cardinality(LeftBehind) <= faults

-----------------------------------------------------------------------------
(* What the documentation says and the code does not always keep *)

\* "A second request re-prices after the lock is released and finds the seat
\* taken" (comment on CreateHold): nobody is left holding a leg that is booked
\* already, bookings whose own hold was cancelled midway set aside.  CheckSeat
\* reads bookings before holds, FinalizeBooking writes them in the same order,
\* so a leg on its way from one to the other is seen in neither.
HoldsOnlyOnUnbookedLegs ==
  \A t \in LiveTokens : \A b \in bookings :
    (token[b.id] \notin revoked \cup {t} /\ b.seat = holds[t].seat)
      => ~ Overlaps(b.leg, holds[t].leg)

-----------------------------------------------------------------------------
(* The ledger this system implements: the offer is the one made by         *)
(* PriceSeat, a sale is a row, its buyer the token it was finalized with.  *)

Ledger == INSTANCE SeatLedger WITH
  Buyers <- Creators, Offers <- Payload, NoOffer <- NoHold,
  granted <- offer,
  sales <- {[buyer |-> token[b.id], seat |-> b.seat, leg |-> b.leg, fare |-> b.fare] :
              b \in bookings}

\* Every behaviour of the system is, seen through offers and rows, one of the
\* ledger: what is sold is what was offered, at the fare quoted, once, and
\* never to two passengers.
ImplementsLedger == Ledger!LedgerSpec

\* The register this system implements as long as locks outlive their owners'
\* work: a token is spent when the SET of its hold has been sent, or will
\* never be.
Register == INSTANCE HoldRegister WITH
  Tokens <- Creators, Nothing <- NoHold,
  register <- holds,
  spent <- {t \in Creators : offer[t] # NoHold /\ ~ At(t, "storing")}

\* The lock makes one step of the calls between a request's first look at a
\* seat and the SET of its hold (the race in the comment on Lock is closed);
\* and a hold that was cancelled, released or has expired is never written
\* back by a request that is still under way.
ImplementsRegister == Register!RegisterSpec

\* The locks alone, as the requests that hold and lose them see them.
Mutex == INSTANCE SeatMutex WITH
  Seats <- SeatIds, Workers <- Creators, Nobody <- NoOwner,
  owner <- lock,
  inside <- [s \in SeatIds |-> {c \in Creators : InSection(c) /\ want[c].seat = s}]

\* As long as locks outlive their owners' work, a lost answer, a lost client or a
\* dead process costs the seat for a while and never lets two requests in.
ImplementsMutex == Mutex!MutexSpec

-----------------------------------------------------------------------------
(* Liveness, under FairSpec *)

\* Every request that is not killed is answered.
EveryRequestAnswered ==
  /\ \A c \in Creators : cpc[c] = "locking" ~> cpc[c] \in {"done", "dead"}
  /\ \A f \in Finalizers : fpc[f] = "getting" ~> fpc[f] \in {"done", "dead"}
=============================================================================
