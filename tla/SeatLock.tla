------------------------------ MODULE SeatLock ------------------------------
(***************************************************************************)
(* The timing of one seat's lock, which BookingSystem leaves open: a key   *)
(* with lockTTL, maxAttempts attempts retryDelay apart, and requests that  *)
(* spend at most SectionMax between acquiring and releasing.  Time is      *)
(* counted in ticks (one retryDelay of 50 ms in the run).  An attempt or   *)
(* the end of a delay may come late, never early; Redis drops the key when *)
(* its time has come.                                                      *)
(***************************************************************************)
EXTENDS Integers, FiniteSets

CONSTANTS
  Requests,         \* POST /holds requests for one seat
  LockTTL, RetryDelay, MaxAttempts,
  SectionMax,       \* the longest a request works under the lock
  MaxLost,          \* bound: requests that end without releasing it
  NoOwner

ASSUME SeatLockAssumption ==
  /\ LockTTL \in Nat \ {0} /\ RetryDelay \in Nat \ {0} /\ MaxAttempts \in Nat \ {0}
  /\ SectionMax \in Nat /\ MaxLost \in Nat
  /\ NoOwner \notin Requests

VARIABLES
  pc, tries, reply,
  timer,            \* ticks since the request began waiting, or working
  lock, ttl,        \* the key's value and its remaining time
  lost

vars == <<pc, tries, reply, timer, lock, ttl, lost>>

Init == /\ pc = [r \in Requests |-> "idle"]
        /\ tries = [r \in Requests |-> 0]
        /\ reply = [r \in Requests |-> "none"]
        /\ timer = [r \in Requests |-> 0]
        /\ lock = NoOwner /\ ttl = 0
        /\ lost = 0

-----------------------------------------------------------------------------
Goto(r, there) == pc' = [pc EXCEPT ![r] = there]
Finish(r, how) == Goto(r, "done") /\ reply' = [reply EXCEPT ![r] = how]
ResetTimer(r) == timer' = [timer EXCEPT ![r] = 0]

Start(r) == /\ pc[r] = "idle"
            /\ Goto(r, "trying")
            /\ UNCHANGED <<tries, reply, timer, lock, ttl, lost>>

\* Mutant: the lock gets the delay for its time to live.
AcquireBriefly(r) ==
  /\ pc[r] = "trying" /\ lock = NoOwner
  /\ lock' = r /\ ttl' = RetryDelay
  /\ Goto(r, "working") /\ ResetTimer(r)
  /\ UNCHANGED <<tries, reply, lost>>

\* SET NX PX
Acquire(r) == /\ pc[r] = "trying" /\ lock = NoOwner
              /\ lock' = r /\ ttl' = LockTTL
              /\ Goto(r, "working") /\ ResetTimer(r)
              /\ UNCHANGED <<tries, reply, lost>>

FindTaken(r) == /\ pc[r] = "trying" /\ lock # NoOwner
                /\ tries' = [tries EXCEPT ![r] = @ + 1]
                /\ Goto(r, "waiting") /\ ResetTimer(r)
                /\ UNCHANGED <<reply, lock, ttl, lost>>

\* Mutants: one attempt too many; the next attempt follows at once.
OneMoreAttempt(r) ==
  /\ pc[r] = "waiting" /\ timer[r] = RetryDelay
  /\ IF tries[r] > MaxAttempts THEN Finish(r, "busy") ELSE Goto(r, "trying") /\ UNCHANGED reply
  /\ UNCHANGED <<tries, timer, lock, ttl, lost>>

RetryAtOnce(r) ==
  /\ pc[r] = "waiting"
  /\ IF tries[r] = MaxAttempts THEN Finish(r, "busy") ELSE Goto(r, "trying") /\ UNCHANGED reply
  /\ UNCHANGED <<tries, timer, lock, ttl, lost>>

\* The delay follows the last attempt too.
DelayOver(r) ==
  /\ pc[r] = "waiting" /\ timer[r] = RetryDelay
  /\ IF tries[r] = MaxAttempts THEN Finish(r, "busy") ELSE Goto(r, "trying") /\ UNCHANGED reply
  /\ UNCHANGED <<tries, timer, lock, ttl, lost>>

\* ctx.Done(), or the attempt itself fails.
GiveUp(r) == /\ pc[r] \in {"trying", "waiting"}
             /\ Finish(r, "error")
             /\ UNCHANGED <<tries, timer, lock, ttl, lost>>

\* unlockScript; what the section answered is BookingSystem's business.
Unlock(r) == /\ pc[r] = "working"
             /\ Finish(r, "served")
             /\ lock' = IF lock = r THEN NoOwner ELSE lock
             /\ ttl' = IF lock = r THEN 0 ELSE ttl
             /\ UNCHANGED <<tries, timer, lost>>

\* The process dies in its section, or its context is cancelled and the
\* unlock, which uses it, does nothing.
LeaveLocked(r) == /\ pc[r] = "working" /\ lost < MaxLost
                  /\ Finish(r, "error") /\ lost' = lost + 1
                  /\ UNCHANGED <<tries, timer, lock, ttl>>

\* Time passes; nobody works longer than SectionMax.
Tick == /\ \A r \in Requests : pc[r] = "working" => timer[r] < SectionMax
        /\ timer' = [r \in Requests |->
             IF pc[r] = "working" \/ (pc[r] = "waiting" /\ timer[r] < RetryDelay)
               THEN timer[r] + 1 ELSE timer[r]]
        /\ lock' = IF ttl <= 1 THEN NoOwner ELSE lock
        /\ ttl' = IF ttl = 0 THEN 0 ELSE ttl - 1
        /\ UNCHANGED <<pc, tries, reply, lost>>

Next == \/ \E r \in Requests : \/ Start(r) \/ Acquire(r) \/ FindTaken(r) \/ DelayOver(r)
                               \/ GiveUp(r) \/ Unlock(r) \/ LeaveLocked(r)
        \/ Tick

Spec == Init /\ [][Next]_vars

-----------------------------------------------------------------------------
(* Properties *)

TypeOK == /\ pc \in [Requests -> {"idle", "trying", "waiting", "working", "done"}]
          /\ tries \in [Requests -> 0 .. MaxAttempts]
          /\ reply \in [Requests -> {"none", "busy", "error", "served"}]
          /\ timer \in [Requests -> Nat]
          /\ lock \in Requests \cup {NoOwner}
          /\ ttl \in 0 .. LockTTL
          /\ lost \in 0 .. MaxLost

\* A lock does not lapse under its owner if no section takes as long as
\* lockTTL, and then no two requests work on the seat at once: the premise
\* under which BookingSystem is run with LockMayLapse = FALSE.
OwnersWorkAlone ==
  SectionMax < LockTTL =>
    \A r \in Requests : pc[r] = "working" =>
      lock = r /\ \A q \in Requests : pc[q] = "working" => q = r

\* One seat's mutex, as in BookingSystem.
Mutex == INSTANCE SeatMutex WITH
  Seats <- {"seat"}, Workers <- Requests, Nobody <- NoOwner,
  owner <- [s \in {"seat"} |-> lock],
  inside <- [s \in {"seat"} |-> {r \in Requests : pc[r] = "working"}]

\* If every section is shorter than lockTTL, the key with its clock is the lock
\* that BookingSystem with LockMayLapse = FALSE works with.
ImplementsMutex == Mutex!MutexSpec

\* While one request works it finds another at the lock at most this often.
AttemptsPerSection == SectionMax \div RetryDelay + 1

\* "The other blocks, then re-checks after the lock is released" (README): as
\* long as every lock is released and the others' sections together are
\* shorter than the attempts reach, nobody is told that the seat is busy.
WaitersGetTheirTurn ==
  (lost = 0 /\ (Cardinality(Requests) - 1) * AttemptsPerSection < MaxAttempts)
    => \A r \in Requests : reply[r] # "busy"
=============================================================================
