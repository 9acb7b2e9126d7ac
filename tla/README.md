# Specification of the train seat booking system

TLA+ models of the booking system in this repository, TLC configurations that
check them on small instances, and proofs that TLAPS checks for every instance.
Paths below are relative to the repository's root; `internal/` abbreviates
`backend/internal/`, `pages/` abbreviates `frontend/src/pages/`.

## 1. The system

One railway line; a seat is sold leg by leg (boarding station to alighting
station, on a date, in a direction). A Go API runs in any number of instances
over one Redis and one Postgres; a React client runs in browsers.

| Component | State | Operations | Talks to |
|---|---|---|---|
| Hold store and seat lock (`internal/cache/holds.go`) | Redis keys `hold:<token>` and `lock:seat:<id>`, each with a time to live | Create, Get, Cancel, AllHolds (SCAN and one GET per key), Lock (SET NX with retries), unlock script (compare and delete), expiry | called by holds, seats, bookings |
| Hold creation and cancellation (`internal/holds`) | one request's locals | `POST /holds`: lock, check and price, store, unlock; `POST /holds/{token}/cancel` | hold store, seats |
| Availability and pricing (`internal/seats`) | none | resolveLeg, CheckSeat, Availability, priceOne, CalculateFare | bookings table, hold store, catalogue |
| Booking finalization (`internal/bookings`) | one request's locals | `POST /bookings`: get hold, insert, cancel hold; `GET /bookings/{id}` | hold store, bookings table |
| Bookings table (`backend/migrations/0004`, `0005`) | rows; generated columns and an exclusion constraint | INSERT, SELECT | |
| Catalogue (`internal/stations`, migrations 0001-0003) | stations, coaches, seats; never changed by the API | SELECT | |
| Configuration (`internal/config`) | rate, fragmentation rate, hold TTL | read once at startup | startup |
| Browser pages (`pages/`, `frontend/src/hooks`, `frontend/src/api`) | history, seats shown, busy flags, requests in flight | search, choose, hold, pay, cancel, Back and Forward, countdown | the API over HTTP |
| Startup, migrations, shutdown (`backend/cmd/server/main.go`, `internal/db`, `internal/cache/redis.go`) | process, `schema_migrations`, advisory lock | load, migrate, connect, serve, SIGTERM | Postgres, Redis |
| Routing (`internal/httpapi`) | none | a fixed table | all handlers |

### What is hard

* No call to Redis is in a transaction with one to Postgres. `CreateHold` reads
  bookings, then sweeps holds; `FinalizeBooking` writes them in the same order
  and without the seat lock.
* Holds and locks expire on their own, between any two calls of anybody.
* A call may fail without effect or after it. Every call, the deferred unlock
  included, uses the request's context, which is cancelled when the client goes
  away. A process may die with a lock or hold in its hands.
* `Lock` polls 20 times, 50 ms apart; the lock lasts five seconds and is not renewed.
* Checkout has no idempotency key: a token may be submitted twice, at once or
  after a lost answer, or cancelled and submitted.
* SCAN is not a snapshot, and a listing reads seats, bookings and holds one after
  another, without the lock, while they are written.
* Instances migrate the one database when they start, several at once, and may
  die between marking a version dirty and marking it clean. On SIGTERM `main`
  returns while `Shutdown` and the handlers still run.
* In the browser a continuation runs whenever its answer arrives, whatever page
  is on top by then, and it navigates.

### What makes each component correct

* Table and finalization: no stretch of the line sold twice on a seat, date and
  direction; one token, at most one booking; what checkout answers is what happened;
  the fare charged is the fare offered.
* Lock: one section per seat at a time; a lock is freed only by its owner or its expiry.
* Holds: live holds do not overlap.
* Both: a lock or a hold is left to its TTL only where something failed.
* Pricing: the status agrees with the stretches a leg needs; the surcharge is for
  the stretches a leg boxes in and no others; nobody gains by splitting a journey
  or by paying for a shorter one.
* Listing: right about every seat nothing happens to; no seat that stays free is hidden.
* API: every request is answered; one that waits for a lock gets it, within limits.
* Servers: migrations take effect once and in order, and the version tells which; nobody
  serves an unfinished schema; a start and a stop come to an end.
* Pages: no control stays disabled, a confirmation is of a booking that exists,
  a passenger who has paid sees it.

`PROJECT.json` lists the hazards line by line, with the properties that watch them.

## 2. Modules

```
Legs ──┬── Pricing ──┬─────────────── MCPricing ── FareTheorems
       ├── HoldStore ┤
       └── BookingTable ── BookingSystem ──┬── BookingInvariant ── MCBookingSystem
           SeatLedger,                     └── Listing ── MCListing
           HoldRegister,            │
           SeatMutex ───(INSTANCE)──┘
PricingTheorems ── BookingTheorems ──┬── LockTheorems
                                     └── ListingTheorems
SeatLock   ── MCSeatLock,   SeatLockTheorems  (SeatMutex ─(INSTANCE)─ SeatLock)
Server     ── MCServer,     ServerTheorems    (SchemaUpgrade ─(INSTANCE)─ Server)
BrowserTab ── MCBrowserTab, BrowserTabTheorems
```

**Legs** (`internal/seats/seat.go`, migrations 0004 and 0005). A leg is a date and two
stations. It holds both definitions of conflict that the system relies on:
`Overlaps` is `BookedRange.Overlaps` in Go, `Excludes` the Postgres constraint
over the generated range. `Cells`, the stretches between neighbouring stations
a leg uses on a seat, is the independent notion the properties speak of.

**Pricing** (`internal/seats/fare.go`, `priceOne` in `service.go`). `Status`, `CalculateFare`.
Money is integer: cents for the rate, hundredths of a cent before rounding. The
code computes in float64; its representation error is not modelled.

**HoldStore** (`internal/cache/holds.go`). `holds[t]` and `lock[s]`, one operator per Redis
command. Time is not counted: a key with a time to live may vanish at any
moment. A `HOLD_TTL_SECONDS` of zero or less means no time to live, as in the
Redis client. A request draws one random token and one random lock value, so the
request itself names both; that two draws are never equal is assumed.

**BookingTable** (`internal/bookings/repo.go`, `BookingsForSeats` in `internal/seats/repo.go`).
Rows, and `InsertRow` guarded by `Violates`.

**BookingSystem** composes these with the three writing requests. One action is
one call to Redis or Postgres; that is the granularity at which the real
processes interleave.

| `POST /holds` (`internal/holds/service.go`) | `cpc` | Actions |
|---|---|---|
| `store.Lock` | locking | AcquireLock, LockBusy, LockFails, LockReplyLost |
| `checker.CheckSeat`: resolveLeg, GetReserved, BookingsForSeats | checking | RefuseRequest, ReadBookings, CheckFails |
| `AllHolds`: SCAN | listing | BeginScan, CheckFails |
| `AllHolds`: the GETs; `priceOne` | scanning | VisitHold, PriceSeat, CheckFails |
| `store.Create` | storing | StoreHold, StoreFails |
| deferred unlock, then the answer | unlocking | Unlock |

| `POST /bookings` (`internal/bookings/service.go`) | `fpc` | Actions |
|---|---|---|
| `holds.Get` | getting | GetHold, GetFails |
| `repo.Insert` | inserting | InsertBooking, InsertRefused, InsertFails |
| `holds.Cancel`, whatever the INSERT said | releasing | ReleaseHold |

`CancelHold` is the cancel request's DEL. The environment is `ExpireHold`,
`ExpireLock`, `Disconnect` (later calls of that request fail) and `Die` (deferred
calls do not run). A call that takes effect without its caller learning of it is
in LockReplyLost, StoreHold and InsertBooking. LockReplyLost also has the
outcome in which the Redis client repeats the command and the request waits for
its own lock. `view[c]` is what one CheckSeat has read: `due` are the tokens
present when SCAN began and not yet read, and keys created meanwhile may
be read too, which is what SCAN guarantees.

**SeatLedger** is the abstract specification: a buyer is granted one offer; a sale is
that offer unchanged, once per buyer, of free stretches only; sales are final.
An offer is no promise. BookingSystem implements it with `granted <- offer` and
`sales` the rows, each with the token it was finalized with.

**HoldRegister** is the abstract specification of holding seats: looking at a seat and taking
it is one step (`Place`), each token is placed once or withdrawn, and a hold that was dropped
never returns. It speaks of stretches (`Cells`) where the code compares legs. BookingSystem
implements it, while locks outlive their owners' work, with `register <- holds`; a token is
spent once the SET of its hold has been sent or never will be.

**SeatMutex** is the abstract specification of the seat's lock, for those who work under it:
`Take` and `Leave`, either of which may go unnoticed (a lost answer, an owner that never
unlocks), and `Lapse` when nobody is inside. Two modules implement it, BookingSystem with
`owner <- lock` and `inside` the requests in their sections, call by call, and SeatLock, with
one seat and a clock. It is where they meet: `LockMayLapse = FALSE` in the one is
`SectionMax < LockTTL` in the other.

**BookingInvariant** has the inductive invariants (section 5).

**Listing** (`Availability` in `internal/seats/service.go`) runs `GET /availability`, one
action per read, beside every action of BookingSystem:

| `GET /availability` | `spc` | Actions |
|---|---|---|
| resolveLeg | reading | RefuseSearch |
| ListReserved and BookingsForSeats | reading | ReadAllBookings |
| `AllHolds`: SCAN, the GETs | listing, sweeping | BeginSweep, VisitForListing |
| `priceOne` for each seat, the answer | sweeping | ListSeats |

ListReserved and BookingsForSeats are one action since seats and coaches never
change. `SearchFails` is any failure: a search writes nothing. Two ghosts, which no
guard reads, let the properties speak of the time since the search
began: `touched`, the seats whose bookings or holds changed, and `taken`, those on
which the leg was not free at some moment.

**SeatLock** (`Lock` in `internal/cache/holds.go`) is one seat's lock with its clock, which
HoldStore leaves out: `MaxAttempts` attempts `RetryDelay` apart, `LockTTL`, sections of
at most `SectionMax`, requests that end without unlocking (`LeaveLocked`). `Tick` passes
time; attempts and the ends of delays may come late. What a section
does is in BookingSystem, whose constant `LockMayLapse` stands for the outcome here.

**Server** (`cmd/server/main.go`, `internal/db`, `internal/config`) is any number of API processes
over one database: `Boot` (what `Load` accepts), `OpenDriver` (`postgres.WithInstance`, which
takes the advisory lock for the table of versions and waits for it without a limit), the
migrations with version, dirty flag and the same lock (`m.Up` waits fifteen seconds for it:
`NoMigrationLock`), the two connections, serving, `Stop` at SIGTERM, the end of
`Shutdown`'s ten seconds, main's deferred `Close` calls last to first, `Crash` anywhere.
A request takes and returns a connection of the pool as often as it likes.
**SchemaUpgrade** is its abstract specification: one migration is announced, takes effect
and is confirmed before the next, one left unconfirmed blocks all others, a process opens
for requests on the complete schema only. It has no starts, locks or crashes; Server
implements it with the version, the dirty flag, the applied migrations and the processes that
serve or are stopping.
SIGTERM before `NotifyContext` is installed kills the process: a Crash.

**BrowserTab** (`pages/`, `useCountdown.ts`, `api/client.ts`). One tab: its history, the
flags of the page on top, its requests with the answers on their way. `Arrive`
is everything that happens when a page comes on top: unmounting the old one
(setting its state does nothing from then on, but its `navigate` still works),
the effects of BookingPage, the immediate expiry of a CheckoutPage whose hold has
lapsed. A route change that keeps the page keeps its state, as React does. The
server is reduced to what a client can tell: the tab's holds, their expiry, its bookings.

**MCPricing** takes and gives back legs on one seat, so that it visits every set of at
most `MaxTaken` legs that requests can put there, and compares Pricing with
definitions by stretches. The other MC modules give constants.

Definitions commented "Mutant" are plausible mistakes in the code next to
them, paired in `PROJECT.json` with the property that catches each.

## 3. Runs

| Run | Bounds | Shows |
|---|---|---|
| Fares | 6 stations, 2 dates, 3 legs on the seat | `StatusMatchesCells`, `FareMatchesBoxedIn`, `SplittingNeverCheaper`, `TravellingFurtherNeverCheaper` |
| Concurrent | 2 creators, 2 finalizers, 2 faults, 2 lock attempts, all four requests, locks may lapse | `TypeOK`, `NoSegmentSoldTwice`, `TokenBookedAtMostOnce`, `RepliesTellTheTruth`, `LeftoversCostFaults`, `OnlyOwnerOrExpiryFreesLock`, `ImplementsLedger` |
| Exclusive | 3 creators, 1 finalizer, 1 fault, locks outlive sections | `SectionsExclusive`, `NoOverlappingHolds`, `ImplementsRegister`, `ImplementsMutex` |
| Progress | 2 creators, 1 finalizer, 1 fault, fair | `EveryRequestAnswered` |
| Listing | 1 search, 2 creators, 1 finalizer, 2 reserved seats and 1 other, locks may lapse | `ListingTypeOK`, `SteadySeatsListedRight`, `NoFreeSeatHidden` |
| SeatLock | 3 requests, the code's numbers in ticks of 50 ms (20 attempts, 100 ticks to live), sections up to 4 ticks, 1 lock left behind | `TypeOK`, `OwnersWorkAlone`, `WaitersGetTheirTurn`, `ImplementsMutex` |
| Server | 3 processes, 3 migrations, 3 crashes, 1 request, 3 environments, fair | `TypeOK`, `VersionTellsTheTruth`, `ServesCompleteSchema`, `ImplementsUpgrade`, `StartsComeToAnEnd`, `StopsComeToAnEnd` |
| Tab | 2 searches, 1 coach, 1 hold, 6 clicks, 2 requests and 2 lists under way, fair | `TypeOK`, `NoStuckButtons`, `ConfirmationIsTrue`, `PaidPassengerSeesConfirmation` |

Each of the following runs finds a behaviour of the code that contradicts a
statement in the repository (`PROJECT.json`, "findings", quotes them):

| Run | Property | What happens |
|---|---|---|
| StaleBookings | `HoldsOnlyOnUnbookedLegs` | A reads the seat's bookings; B's checkout inserts and deletes its hold; A sweeps the holds and sees neither. A is granted a hold on a booked leg, fills in the form, and gets a 409. No fault or expiry is needed. |
| SpentForm | `SpentFormStaysBehind` | The countdown ends, or an earlier cancellation is answered, while a payment is under way; the payment's continuation replaces the wrong history entry and the paid form stays behind the confirmation. |
| ListRace | `ListMatchesSearch` | Back to an earlier search while a later one loads: the late answer is shown under the earlier heading, and Loading ends with it. |
| Shutdown | `RequestsGetTheirGrace` | SIGTERM during a request: `ListenAndServe` returns as soon as `Shutdown` begins, so `main` closes the pool and exits, and the request is dropped within its ten seconds. |

The sale itself is unharmed in all of them; that is what the proofs are about.

One comment is refuted by a run that passes. `internal/seats/seat.go:27-28` says that two legs
conflict when "sharing at least one station". They do not if a station is all they share: a
seat is free again where its passenger alights (`README.md`, "Segment model", and the `'[)'`
ranges of migration 0004). `StatusMatchesCells` has it so in Fares, and its mutant,
`OverlapsClosed`, is the comment taken at its word.

`RepliesTellTheTruth` speaks of a passenger, who may send its token twice, and not of one
request. A single 409 or 410 does not say that the passenger has nothing: the second checkout
of a token is answered so when the first has the row. What holds is that a passenger all of
whose checkouts were answered 409 or 410 has nothing, and that one confirmed checkout means
exactly the seat, leg and fare of the hold.

Three limits show where a passing property stops, and need no run of
their own. With `LockMayLapse = TRUE`, Exclusive refutes all four of its properties: a
section longer than five seconds loses its lock and two overlapping holds are granted (the
table still sells only one). A cancellation confirmed with 204 after checkout has read the
hold does not stop the sale. And a seat may be listed that was never free, when it
goes from held to booked between the two reads; `POST /holds` refuses it.

**Why the bounds are enough to be interesting.** On four stations the two requests
`0-2` and `1-3` overlap without one containing the other, and the other two are
one for a leg from a station to itself and one for a seat that is not reserved.
Two checkouts suffice for one token twice or two tokens at once. Two lock attempts
let a request wait once and give up once. Two faults allow the pairs that matter,
such as a lost answer and then a death. Three creators are needed to have an owner,
one whose lock is gone, and a newcomer. One expiry per key is no bound: it may
expire whenever it exists. The pricing properties need a gap, a neighbour and a second neighbour on each
side of it or on another date: six stations and three legs. A search
needs a seat with a neighbour whose gap changes the fare and a second seat not to be confused with
it; two writers can free one leg and take another between its reads. In SeatLock the
premise of `WaitersGetTheirTurn` is tight: three requests with sections of 9 ticks violate
its conclusion, with 8 they do not. It is about locks that are released: one left by a
dead owner stays for five seconds, the attempts of a request last about one, so all who
ask for the seat meanwhile are told that it is busy. Three of the five migrations have a first, a
middle and a last; three processes and three crashes let every one of them fail. In the tab, six
clicks are search, coach, proceed, pay and two more (Back, Forward, cancel, pay again).
Beyond `MaxLists` a further availability request is not counted.

**Deadlock.** The system is driven by clients and a finite number of requests or
clicks, so its runs end; `CHECK_DEADLOCK FALSE` is set where that is so, and
`EveryRequestAnswered`, `StartsComeToAnEnd`, `StopsComeToAnEnd` and `NoStuckButtons` say that nothing is left
waiting. Fares checks deadlock.

**Symmetry** is used for creators, finalizers, lock requests and dates in runs without liveness.

**Fairness** (Progress, Server, Tab). A request that is running keeps running: its goroutine
is scheduled and each call returns or fails. No hold or lock is obliged to expire. In the tab, answers to requests under way come and their continuations
run. In Server, a process that is starting or stopping goes on when it can: its calls return,
Postgres grants a lock that is free, `m.Up` gives up after fifteen seconds, a query, which is
one statement, ends. That WithInstance's wait ends is not assumed: it follows from whoever
has the lock going on. Nothing is assumed of clients, passengers or operators (no process need
ever start, be told to stop or die), nor that any call succeeds; a
single weak fairness per request, over all its actions, leaves open which of the
enabled ones is taken. That a waiting request is answered rests on the bound on
attempts, not on the lock's being fair, which it is not.

## 4. What is abstracted

* Time is counted in SeatLock only. Elsewhere expiry may come at any moment, and
  `LockMayLapse` chooses whether a lock may expire under its owner; SeatLock's
  `OwnersWorkAlone` and `ImplementsMutex` say when FALSE is justified.
* A failed call has had its effect, if any, by the time its error is returned; a
  command that reaches the server later is not modelled.
* Requests rejected by a handler before any call (400: body, fields, dates) are left out.
* A seat id, date, token or e-mail is a model value; coaches of a seat are reduced to
  "reserved or not". Dates do not move into the past.
* Bookings and the catalogue are never deleted, as in the code.
* The migrations library and the advisory lock are external, modelled as `RunMigrations` uses
  them: each migration's statements take effect together, and a version found dirty is
  refused at every start until somebody repairs it. A process runs once; a restart is another process.
* The tab: no reload, no station list, no fetch of the confirmation page, no form
  fields, no notices.

**Not modelled**, and why:

* Routing and rendering hold no state; `GET /stations` and `GET /bookings/{id}` are one read of data
  that is never changed once written.
* Addresses, ports and credentials of the configuration: a wrong one is a call that fails.
* `LandingSearch`'s fields: `activeSearch` is a new object at each render, so an effect resets
  what is being typed; nothing the other components keep depends on it.
* A reload of CheckoutPage or the confirmation page starts from the history state the browser
  kept, which is an entry of `history`, and drops the requests under way: the same as
  their answers never mattering, but the fetch of the confirmation page is left out with it.
* The distance between the browser's clock and the server's: the countdown may end at any
  moment, before or after the hold expires.

## 5. Proofs

Assumptions: `LegsAssumption` (two integers in order), `PricingAssumption` (distances do
not decrease along the line, rates are not negative), `HoldStoreAssumption` and
`SystemAssumption` (placeholders are not values, requests name seat ids in `SeatIds`,
at least one attempt), `ListingAssumption`, `SeatLockAssumption`, `ServerAssumption`
and `TabAssumption` of the same kind. Nothing bounds the numbers of requests,
searches, seats, stations, dates, processes, migrations, clicks or faults.

**PricingTheorems.** `OverlapsIffExcludes`: the Go test and the Postgres constraint
are the same relation on legs. `OverlapsIffCellsMeet`: it is that of needing a common
stretch. `FareIsNat`: a fare is a natural number of cents for any neighbours.
`LeftBound` and `RightBound` lie on the line and on the right side of the leg,
so that distances being monotone no gap is negative. It is what `TypeOK` needs of PriceSeat.

**FareTheorems** proves the four properties of Fares for any line and any legs on the seat.
`SpecStatusMatchesCells` is `OverlapsIffCellsMeet` for sets of legs. `SpecFareMatchesBoxedIn`
compares the code's two bounds with a reference that knows no bounds: the free stretches that
connect to the leg and are closed off by a taken one, their kilometres added up along the line
(`Km`, a recursive function). `KmIsTotal` shows by a least counterexample that one function
alone satisfies that recursion, so that `KmOfTwoSpans` can read off the sum of two separate
spans; `BeforeIsLeftGap` and `AfterIsRightGap` show that what a free leg boxes in before and
after it are two such spans, from its nearest neighbour to the leg, empty where there is
none. Rounding is off by half a cent at most. The other two rest on
`PartHasSameBounds` (a part of a free leg has the leg's neighbours, since no neighbour
starts or ends inside the leg) and `PartGaps` (so its gaps grow by no more than what it
leaves out). A first piece then pays at least the surcharge of the whole, and each piece its distance: splitting
saves nothing. That a longer leg costs no less needs
the fragmentation rate to be at most 100 percent, which the theorem assumes and
`Load` does not check; the default is 50.

**BookingTheorems.** None of the safety properties is inductive alone: that two rows
are apart needs only the constraint, but that a row is what its client was told
needs the way from the offer to the row. `IInv` follows it: an offer is made once, at
pricing, for what was asked (`WantOK`, `OfferOK`); a live hold is its request's offer and is
stored after it (`HoldsOK`); a checkout that has read the hold carries that offer and
has no row yet (`CheckoutOK`); a row is the offer of its token (`RowsOK`); rows
satisfy the constraint (`RowsApart`); each request's own answer is right about its own row, and
a 409 about what violates the constraint (`AnswersOK`). `TypeStep` to `AnswersStep` prove that each
conjunct is preserved by every action, `SpecIInv` that `IInv` always holds.
`SpecTypeOK`, `SpecNoSegmentSoldTwice` and `SpecTokenBookedAtMostOnce` follow. Overlap of a leg
with itself, which is where a leg's having two different stations matters, gives the last, and
with it `SpecRepliesTellTheTruth`: from what each request was told to what the passenger has,
whichever of its requests inserted the row.

`SpecLeftoversCostFaults` counts. `Charged` are the requests that left something behind and
those whose client is gone, whose later calls fail without a further fault. `ChargeInv` has
it that they are no more than the faults, and `Settled`, that a token is submitted
only after its hold was stored, so that a deleted hold cannot come back. `ChargeStep` goes through the
actions: each charges nobody, or one request and for a fault of that step; `OneMoreForOneFault`
is the arithmetic.

`SpecImplementsLedger`: each step leaves offers and sales alone
(`SalesUnchanged`), is PriceSeat and grants (`PriceGrants`), or is InsertBooking and sells
(`InsertSells`, by `IInv`: the row is the token's offer, the token has no row yet,
the stretches are free).

**LockTheorems.** `SpecOnlyOwnerOrExpiryFreesLock` needs no invariant beyond `TypeOK` and holds
even when locks lapse. With the extra assumption `~ LockMayLapse`,
`LockInv` is inductive relative to `IInv`: who is in a section owns the lock
(`SectionOwnsLock`); a sweep has met or will meet every live hold on its seat
(`SweepCovers`: nobody else can store one meanwhile); what is about to be stored overlaps
no live hold (`StoreIsClear`). Hence `SpecSectionsExclusive` and `SpecNoOverlappingHolds`, and
`SpecImplementsRegister`: StoreHold is a `Place` (`StorePlaces`, by `StoreIsClear` and
`OverlapsIffCellsMeet`), a request that fails or dies at its SET withdraws
(`LeavingStoringWithdraws`), every DEL and every expiry drops a hold or finds none
(`DeleteDrops`), all other steps change neither.
`SpecImplementsMutex`: a SET NX that takes effect is a `Take`, heard of or not
(`AcquireTakes`); the unlock, done or refused, and a death in a section are a `Leave`
(`EndOfSectionLeaves`, where `SectionOwnsLock` says that the seat is the leaver's own); a
lock lapses when its owner is outside. Without the assumption all four are false.

**ListingTheorems.** A listing is right although its reads are at different moments, because what has been read of
an untouched seat is what is there still: `ReadRight` says so for the
bookings, and for the holds that each is read or still due; `FreeRight` that nothing
read of a seat that stayed free is in the way. Both use `HoldsKept`: a token's hold is never
rewritten.

**SeatLockTheorems.** `LockInv`: the key ages exactly as fast as its owner's section, so
with `SectionMax < LockTTL` the owner finds it in place (`SpecOwnersWorkAlone`). Hence too
`SpecImplementsMutex`: at a `Tick` that drops the key nobody is working, or the key would
have more than one tick left.

`SpecWaitersGetTheirTurn` holds for any number of requests, provided there are finitely many
(its own hypothesis, `IsFiniteSet(Requests)`), and needs an account of every attempt of a
waiting request. `Past` are the others that have had the lock and do not have it now;
`AttemptsPerSection` attempts are charged to each, and the rest, `Extra`, fell into the present
owner's section, `RetryDelay` apart (`WaitInv`). An owner that is done joins `Past` and takes
up to that many with it (`PastGrows`, `ExtraFitsSection`); nobody is past twice, so while
`AttemptsReach` no request uses up its attempts (`AttemptsRemain`). `WaitInv` holds while no
lock was left behind; `LostIsCounted` carries it to the property's premise. None of this needs
`SectionMax < LockTTL`: a lock that lapses lets the waiting requests in sooner.

**ServerTheorems.** `Inv`: who is inside RunMigrations has the advisory lock
(`MigratorOwnsLock`); where a migrating process is in its loop tells what version and
flag mean (`LoopOK`); who got past the migrations found them all applied, and nothing takes one
back or makes the version dirty again (`CompleteOK`). `SpecImplementsUpgrade`: MarkDirty, ApplyMigration and MarkClean are the
three steps of the abstract upgrade (`LoopImplements`, by `LoopOK`); Listen, or a SIGTERM just
before it, opens a process (by `CompleteOK`), Exit and Crash shut it; no other step of a start,
a request or a stop shows (`StartImplements`, `ServeImplements`).

**BrowserTabTheorems.** `Inv`: `CallsOK` says of each request under way that a payment answered
201 has its booking and that a request whose continuation may still set state has its page on
top. `MayArrive` is what `Arrive` may be called with; `ArriveHistory` and its
neighbours show once what arriving keeps, each navigation cites them.
`SpecNoStuckButtons` and `SpecConfirmationIsTrue` follow for any number of clicks and requests.

**Only model-checked:** liveness (`EveryRequestAnswered`, `StartsComeToAnEnd`,
`StopsComeToAnEnd`, `PaidPassengerSeesConfirmation`), which is out of the prover's reach, as is whatever needs ENABLED. Every invariant, action property and refinement
that a passing run checks is also proved.

## 6. Plan

All modules above, their runs and theorems are done. Worth doing next:

1. **BrowserTab** composed with BookingSystem's replies, with reload and the confirmation page's fetch.
2. A hold that outlives midnight: `resolveLeg` compares the travel date with today only when
   the hold is made, so it needs a clock that moves dates into the past.
