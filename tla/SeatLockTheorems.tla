-------------------------- MODULE SeatLockTheorems --------------------------
(***************************************************************************)
(* A seat lock whose time to live exceeds the longest section never lapses *)
(* under its owner, and a request whose attempts reach further than the    *)
(* others' sections gets it, for any number of requests and any timing     *)
(* constants.                                                              *)
(***************************************************************************)
EXTENDS SeatLock, FiniteSetTheorems, TLAPS

USE SeatLockAssumption DEF Goto, Finish, ResetTimer

\* Attempts stop at MaxAttempts; a request that works holds a key that has
\* aged exactly as long as its section.
LockInv ==
  /\ TypeOK
  /\ \A r \in Requests : pc[r] \in {"idle", "trying"} => tries[r] < MaxAttempts
  /\ SectionMax < LockTTL =>
       \A r \in Requests : pc[r] = "working" =>
         lock = r /\ timer[r] <= SectionMax /\ ttl = LockTTL - timer[r]

\* The initial state satisfies the invariant.
LEMMA InitLockInv ==
  ASSUME Init
  PROVE  LockInv
BY DEF Init, LockInv, TypeOK

\* Every step keeps the invariant: the key's age and the section's grow
\* together, and a section ends before the key does.
LEMMA LockInvStep ==
  ASSUME LockInv, [Next]_vars
  PROVE  LockInv'
<1>. USE DEF LockInv, TypeOK
<1>1. ASSUME NEW r \in Requests, Start(r)
      PROVE  LockInv'
  BY <1>1 DEF Start
<1>2. ASSUME NEW r \in Requests, Acquire(r)
      PROVE  LockInv'
  BY <1>2 DEF Acquire
<1>3. ASSUME NEW r \in Requests, FindTaken(r)
      PROVE  LockInv'
  BY <1>3 DEF FindTaken
<1>4. ASSUME NEW r \in Requests, DelayOver(r)
      PROVE  LockInv'
  BY <1>4 DEF DelayOver
<1>5. ASSUME NEW r \in Requests, GiveUp(r)
      PROVE  LockInv'
  BY <1>5 DEF GiveUp
<1>6. ASSUME NEW r \in Requests, Unlock(r)
      PROVE  LockInv'
  BY <1>6 DEF Unlock
<1>7. ASSUME NEW r \in Requests, LeaveLocked(r)
      PROVE  LockInv'
  BY <1>7 DEF LeaveLocked
<1>8. CASE Tick
  BY <1>8 DEF Tick
<1>9. CASE UNCHANGED vars
  BY <1>9 DEF vars
<1>. QED  BY <1>1, <1>2, <1>3, <1>4, <1>5, <1>6, <1>7, <1>8, <1>9 DEF Next

\* The invariant holds in every reachable state.
LEMMA SpecLockInv == Spec => []LockInv
<1>. QED  BY InitLockInv, LockInvStep, PTL DEF Spec

\* The types are kept: in particular nobody makes more than MaxAttempts attempts.
THEOREM SpecTypeOK == Spec => []TypeOK
<1>1. LockInv => TypeOK
  BY DEF LockInv
<1>. QED  BY <1>1, SpecLockInv, PTL

\* Whoever works on the seat owns its lock and works alone, if a section is
\* always shorter than lockTTL.
THEOREM SpecOwnersWorkAlone == Spec => []OwnersWorkAlone
<1>1. LockInv => OwnersWorkAlone
  BY DEF LockInv, OwnersWorkAlone
<1>. QED  BY <1>1, SpecLockInv, PTL

-----------------------------------------------------------------------------
(* The lock implements SeatMutex. *)

\* As in the refinement mapping of Mutex.
Owner == [s \in {"seat"} |-> lock]
Inside == [s \in {"seat"} |-> {r \in Requests : pc[r] = "working"}]

\* The steps of the abstract mutex on the seat's owner and workers.
LEMMA MutexStep ==
  ASSUME NEW w \in Requests,
         NEW ins, NEW ins2, ins = {r \in Requests : pc[r] = "working"},
         ins2 = {r \in Requests : pc[r] = "working"}',
         \/ lock = NoOwner /\ lock' = w /\ ins2 = {w}
         \/ lock = w /\ ins = {w} /\ ins2 = {} /\ lock' \in {lock, NoOwner}
  PROVE  Mutex!MutexNext
<1>1. /\ Owner["seat"] = lock /\ Inside["seat"] = ins
      /\ Owner' = [Owner EXCEPT !["seat"] = lock'] /\ Inside' = [Inside EXCEPT !["seat"] = ins2]
  BY DEF Owner, Inside
<1>2. Owner' = Owner \/ lock' # lock
  BY DEF Owner
<1>. QED  BY <1>1, <1>2 DEF Mutex!MutexNext, Mutex!Take, Mutex!Leave, Owner, Inside

\* The key takes a worker on, lets it go, or lapses when its section must be
\* over; no other step changes it.
LEMMA StepImplementsMutex ==
  ASSUME LockInv, [Next]_vars, SectionMax < LockTTL
  PROVE  Mutex!MutexNext \/ UNCHANGED <<Owner, Inside>>
<1>. USE DEF LockInv, TypeOK
<1>. DEFINE ins == {r \in Requests : pc[r] = "working"}
<1>1. ASSUME NEW r \in Requests, Acquire(r)
      PROVE  Mutex!MutexNext
  <2>1. lock = NoOwner /\ lock' = r /\ ins' = {r}
    BY <1>1 DEF Acquire
  <2>. QED  BY <2>1, MutexStep
<1>2. ASSUME NEW r \in Requests, Unlock(r) \/ LeaveLocked(r)
      PROVE  Mutex!MutexNext
  <2>1. lock = r /\ ins = {r} /\ ins' = {} /\ lock' \in {lock, NoOwner}
    BY <1>2 DEF Unlock, LeaveLocked
  <2>. QED  BY <2>1, MutexStep
<1>3. CASE Tick
  <2>1. ins' = ins
    BY <1>3 DEF Tick
  <2>2. lock' = lock \/ (lock' = NoOwner /\ ins = {})
    BY <1>3 DEF Tick
  <2>3. CASE lock' = lock
    BY <2>1, <2>3 DEF Owner, Inside
  <2>4. CASE lock' = NoOwner /\ ins = {}
    <3>1. Inside["seat"] = {} /\ Inside' = Inside
      BY <2>1, <2>4 DEF Inside
    <3>2. Owner' = [Owner EXCEPT !["seat"] = NoOwner]
      BY <2>4 DEF Owner
    <3>. QED  BY <3>1, <3>2 DEF Mutex!MutexNext, Mutex!Lapse, Owner, Inside
  <2>. QED  BY <2>2, <2>3, <2>4
<1>4. ASSUME NEW r \in Requests, Start(r) \/ FindTaken(r) \/ DelayOver(r) \/ GiveUp(r)
      PROVE  UNCHANGED <<Owner, Inside>>
  <2>1. lock' = lock /\ ins' = ins
    BY <1>4 DEF Start, FindTaken, DelayOver, GiveUp
  <2>. QED  BY <2>1 DEF Owner, Inside
<1>5. ASSUME UNCHANGED vars
      PROVE  UNCHANGED <<Owner, Inside>>
  BY <1>5 DEF vars, Owner, Inside
<1>. QED  BY <1>1, <1>2, <1>3, <1>4, <1>5 DEF Next

\* A key that outlives every section is an exclusive lock: what SetNX,
\* lockTTL and unlockScript (redis.go) are there for.
THEOREM SpecImplementsMutex ==
  ASSUME SectionMax < LockTTL
  PROVE  Spec => ImplementsMutex
<1>1. Init => Mutex!MutexInit
  BY DEF Init, Mutex!MutexInit
<1>2. LockInv /\ [Next]_vars => [Mutex!MutexNext]_<<Owner, Inside>>
  BY StepImplementsMutex
<1>3. ImplementsMutex <=> Mutex!MutexInit /\ [][Mutex!MutexNext]_<<Owner, Inside>>
  BY DEF ImplementsMutex, Mutex!MutexSpec, Owner, Inside
<1>. QED  BY <1>1, <1>2, <1>3, SpecLockInv, PTL DEF Spec

-----------------------------------------------------------------------------
(* Waiting for one's turn *)

\* Requests that have had the lock and do not have it now.
Past(r) == {q \in Requests \ {r, lock} : pc[q] = "working" \/ reply[q] = "served"}

\* The attempts of a request beyond those that past owners can account for.
Extra(r) == tries[r] - AttemptsPerSection * Cardinality(Past(r))

\* While no lock has been left behind, its owner is at work, and the extra
\* attempts of a request are RetryDelay apart within the owner's section.
ExtraOK(r) ==
  Extra(r) > 0 =>
    /\ lock # NoOwner
    /\ pc[r] = "trying" => Extra(r) * RetryDelay <= timer[lock]
    /\ pc[r] = "waiting" => (Extra(r) - 1) * RetryDelay + timer[r] <= timer[lock]

WaitInv ==
  /\ \A q \in Requests : lock = q => pc[q] = "working"
  /\ \A q \in Requests : pc[q] = "working" => timer[q] <= SectionMax
  /\ \A r \in Requests : pc[r] = "idle" => tries[r] = 0
  /\ \A r \in Requests : pc[r] # "done" => reply[r] = "none"
  /\ \A r \in Requests : pc[r] \in {"trying", "waiting"} => ExtraOK(r)
  /\ \A r \in Requests : reply[r] # "busy"

\* The premise of WaitersGetTheirTurn about the constants.
AttemptsReach == (Cardinality(Requests) - 1) * AttemptsPerSection < MaxAttempts

LEMMA AttemptsPerSectionType == AttemptsPerSection \in Nat \ {0}
BY DEF AttemptsPerSection

LEMMA ProductIsMonotone ==
  ASSUME NEW a \in Nat, NEW x \in Int, NEW y \in Int, x <= y
  PROVE  a * x \in Int /\ a * y \in Int /\ a * x <= a * y
<1>1. PICK d \in Nat : y = x + d
  <2>1. y - x \in Nat /\ y = x + (y - x)
    OBVIOUS
  <2>. QED  BY <2>1
<1>2. a * y = a * x + a * d
  BY <1>1
<1>3. a * x \in Int /\ a * d \in Nat
  OBVIOUS
<1>. QED  BY <1>2, <1>3

\* What fits into one section, spaced by RetryDelay.
LEMMA ExtraFitsSection ==
  ASSUME NEW e \in Int, (e - 1) * RetryDelay <= SectionMax
  PROVE  e <= AttemptsPerSection
<1>. DEFINE d == SectionMax \div RetryDelay
<1>1. d \in Nat /\ SectionMax < RetryDelay * (d + 1)
  OBVIOUS
<1>. HIDE DEF d
<1>2. SUFFICES ASSUME e >= d + 2 PROVE FALSE
  BY <1>1 DEF AttemptsPerSection, d
<1>3. RetryDelay * (d + 1) <= RetryDelay * (e - 1)
  BY <1>1, <1>2, ProductIsMonotone
<1>4. RetryDelay * (e - 1) = (e - 1) * RetryDelay
  OBVIOUS
<1>. QED  BY <1>1, <1>3, <1>4

\* A set that leaves a request out is smaller.
LEMMA PastIsSmall ==
  ASSUME IsFiniteSet(Requests), TypeOK, NEW r \in Requests
  PROVE  /\ IsFiniteSet(Past(r)) /\ Cardinality(Past(r)) \in Nat
         /\ Cardinality(Past(r)) <= Cardinality(Requests) - 1
         /\ lock \in Requests \ {r} => Cardinality(Past(r)) <= Cardinality(Requests) - 2
         /\ Extra(r) \in Int /\ Extra(r) <= tries[r]
<1>1. /\ IsFiniteSet(Requests \ {r})
      /\ Cardinality(Requests \ {r}) = Cardinality(Requests) - 1
  BY FS_RemoveElement
<1>2. /\ IsFiniteSet((Requests \ {r}) \ {lock})
      /\ Cardinality((Requests \ {r}) \ {lock})
           = IF lock \in Requests \ {r} THEN Cardinality(Requests) - 2 ELSE Cardinality(Requests) - 1
  <2>. DEFINE T == Requests \ {r}
  <2>1. IsFiniteSet(T) /\ Cardinality(T) = Cardinality(Requests) - 1 /\ Cardinality(Requests) \in Nat
    BY <1>1, FS_CardinalityType
  <2>. HIDE DEF T
  <2>2. /\ IsFiniteSet(T \ {lock})
        /\ Cardinality(T \ {lock}) = IF lock \in T THEN Cardinality(T) - 1 ELSE Cardinality(T)
    BY <2>1, FS_RemoveElement
  <2>. QED  BY <2>1, <2>2 DEF T
<1>3. Past(r) \in SUBSET ((Requests \ {r}) \ {lock})
  BY DEF Past
<1>4. IsFiniteSet(Past(r)) /\ Cardinality(Past(r)) <= Cardinality((Requests \ {r}) \ {lock})
  BY <1>2, <1>3, FS_Subset
<1>5. Cardinality(Past(r)) \in Nat /\ Cardinality(Requests) \in Nat
  BY <1>4, FS_CardinalityType
<1>6. AttemptsPerSection * Cardinality(Past(r)) \in Nat /\ tries[r] \in Int
  BY <1>5, AttemptsPerSectionType DEF TypeOK
<1>. QED  BY <1>2, <1>4, <1>5, <1>6 DEF Extra

\* What an owner leaves a waiting request with when it is past.
LEMMA ExtraIsBounded ==
  ASSUME IsFiniteSet(Requests), TypeOK, WaitInv, NEW r \in Requests,
         pc[r] \in {"trying", "waiting"}
  PROVE  /\ Extra(r) <= AttemptsPerSection
         /\ Extra(r) > 0 => lock \in Requests \ {r}
<1>. DEFINE e == Extra(r)
<1>1. e \in Int
  BY PastIsSmall
<1>2. CASE e <= 0
  BY <1>1, <1>2, AttemptsPerSectionType
<1>3. CASE e > 0
  <2>1. lock \in Requests \ {r} /\ pc[lock] = "working"
    BY <1>3 DEF WaitInv, ExtraOK, TypeOK
  <2>2. timer[lock] \in Nat /\ timer[r] \in Nat /\ timer[lock] <= SectionMax
    BY <2>1 DEF WaitInv, TypeOK
  <2>3. (pc[r] = "trying" /\ e * RetryDelay <= timer[lock])
           \/ (pc[r] = "waiting" /\ (e - 1) * RetryDelay + timer[r] <= timer[lock])
    BY <1>3 DEF WaitInv, ExtraOK
  <2>. HIDE DEF e
  <2>4. e * RetryDelay = (e - 1) * RetryDelay + RetryDelay /\ (e - 1) * RetryDelay \in Int
    BY <1>1
  <2>5. (e - 1) * RetryDelay <= SectionMax
    BY <2>2, <2>3, <2>4
  <2>6. e <= AttemptsPerSection
    BY <1>1, <2>5, ExtraFitsSection
  <2>. QED  BY <2>1, <2>6 DEF e
<1>. QED  BY <1>1, <1>2, <1>3

\* Nobody has used up its attempts.
LEMMA AttemptsRemain ==
  ASSUME IsFiniteSet(Requests), AttemptsReach, TypeOK, WaitInv, NEW r \in Requests,
         pc[r] \in {"trying", "waiting"}
  PROVE  tries[r] < MaxAttempts
<1>. DEFINE k == Cardinality(Past(r))
            n == Cardinality(Requests)
            a == AttemptsPerSection
<1>1. k \in Nat /\ n \in Nat /\ k <= n - 1 /\ a \in Nat /\ tries[r] \in Int
  BY PastIsSmall, FS_CardinalityType, AttemptsPerSectionType DEF TypeOK
<1>2. tries[r] = a * k + Extra(r) /\ Extra(r) \in Int
  BY <1>1, PastIsSmall DEF Extra
<1>3. Extra(r) <= 0 \/ (Extra(r) <= a /\ k + 1 <= n - 1)
  BY <1>1, <1>2, PastIsSmall, ExtraIsBounded
<1>4. (n - 1) * a < MaxAttempts
  BY DEF AttemptsReach
<1>. HIDE DEF k, n, a
<1>5. (n - 1) * a = a * (n - 1)
  BY <1>1
<1>6. a * k <= a * (n - 1) /\ a * k \in Int /\ a * (n - 1) \in Int
  BY <1>1, ProductIsMonotone
<1>7. k + 1 <= n - 1 => a * (k + 1) <= a * (n - 1)
  BY <1>1, ProductIsMonotone
<1>8. a * (k + 1) = a * k + a
  BY <1>1
<1>. QED  BY <1>1, <1>2, <1>3, <1>4, <1>5, <1>6, <1>7, <1>8

\* A step that brings no owner to an end accounts for the attempts as before.
LEMMA PastUnchanged ==
  ASSUME NEW r \in Requests, Past(r)' = Past(r)
  PROVE  Extra(r)' = tries'[r] - AttemptsPerSection * Cardinality(Past(r))
BY DEF Extra, AttemptsPerSection

\* An owner that is past accounts for as many attempts as fit into a section.
LEMMA PastGrows ==
  ASSUME IsFiniteSet(Requests), TypeOK, NEW r \in Requests, NEW q,
         q \notin Past(r), Past(r)' = Past(r) \cup {q}, tries'[r] = tries[r]
  PROVE  Extra(r)' = Extra(r) - AttemptsPerSection
<1>. DEFINE k == Cardinality(Past(r))
            a == AttemptsPerSection
<1>1. k \in Nat /\ a \in Nat /\ tries[r] \in Int
  BY PastIsSmall, AttemptsPerSectionType DEF TypeOK
<1>2. Cardinality(Past(r) \cup {q}) = k + 1
  BY PastIsSmall, FS_AddElement
<1>3. Extra(r)' = tries[r] - a * (k + 1) /\ Extra(r) = tries[r] - a * k
  BY <1>2 DEF Extra, AttemptsPerSection
<1>. HIDE DEF k, a
<1>4. a * (k + 1) = a * k + a /\ a * k \in Int
  BY <1>1
<1>. QED  BY <1>1, <1>3, <1>4 DEF a

\* Every step keeps the invariant while no lock is left behind.
LEMMA WaitStep ==
  ASSUME IsFiniteSet(Requests), AttemptsReach, LockInv, WaitInv, Next, lost = 0, lost' = 0
  PROVE  WaitInv'
<1>. USE DEF WaitInv, ExtraOK
<1>0. TypeOK /\ TypeOK'
  BY LockInvStep DEF LockInv
<1>1. \A r \in Requests : Extra(r) \in Int /\ Extra(r) <= tries[r]
  BY <1>0, PastIsSmall
<1>2. ASSUME NEW q \in Requests, Start(q)
      PROVE  WaitInv'
  <2>1. \A r \in Requests : Past(r)' = Past(r)
    BY <1>0, <1>2 DEF Start, Past, TypeOK
  <2>2. \A r \in Requests : Extra(r)' = Extra(r)
    BY <1>2, <2>1, PastUnchanged DEF Start, Extra
  <2>3. Extra(q) <= 0
    BY <1>1, <1>2 DEF Start
  <2>. QED  BY <1>0, <1>1, <1>2, <2>2, <2>3 DEF Start, TypeOK
<1>3. ASSUME NEW q \in Requests, Acquire(q)
      PROVE  WaitInv'
  <2>1. \A r \in Requests : r # q => Past(r)' = Past(r)
    BY <1>0, <1>3 DEF Acquire, Past, TypeOK
  <2>2. \A r \in Requests : r # q => Extra(r)' = Extra(r)
    BY <1>3, <2>1, PastUnchanged DEF Acquire, Extra
  <2>. QED  BY <1>0, <1>1, <1>3, <2>2 DEF Acquire, TypeOK
<1>4. ASSUME NEW q \in Requests, FindTaken(q)
      PROVE  WaitInv'
  <2>1. \A r \in Requests : Past(r)' = Past(r)
    BY <1>0, <1>4 DEF FindTaken, Past, TypeOK
  <2>2. \A r \in Requests : r # q => Extra(r)' = Extra(r)
    BY <1>0, <1>4, <2>1, PastUnchanged DEF FindTaken, Extra, TypeOK
  <2>3. Extra(q)' = Extra(q) + 1
    <3>1. Extra(q)' = tries'[q] - AttemptsPerSection * Cardinality(Past(q)) /\ tries'[q] = tries[q] + 1
      BY <1>0, <1>4, <2>1, PastUnchanged DEF FindTaken, TypeOK
    <3>2. AttemptsPerSection * Cardinality(Past(q)) \in Int /\ tries[q] \in Int
      BY <1>0, PastIsSmall, AttemptsPerSectionType DEF TypeOK
    <3>. QED  BY <3>1, <3>2 DEF Extra
  <2>4. lock \in Requests /\ lock # q /\ timer[lock] \in Nat
    BY <1>0, <1>4 DEF FindTaken, TypeOK
  <2>5. ExtraOK(q)'
    <3>1. Extra(q) = 0 => Extra(q) * RetryDelay <= timer[lock]
      BY <2>4
    <3>2. Extra(q)' > 0 => Extra(q) * RetryDelay <= timer[lock]
      BY <1>1, <1>4, <2>3, <3>1 DEF FindTaken
    <3>3. (Extra(q)' - 1) * RetryDelay = Extra(q) * RetryDelay
      BY <1>1, <2>3
    <3>4. timer'[q] = 0 /\ timer'[lock'] = timer[lock] /\ lock' = lock /\ pc'[q] = "waiting"
      BY <1>0, <1>4, <2>4 DEF FindTaken, TypeOK
    <3>5. Extra(q) * RetryDelay \in Int
      BY <1>1
    <3>. QED  BY <2>4, <3>2, <3>3, <3>4, <3>5 DEF FindTaken
  <2>6. ASSUME NEW r \in Requests, r # q, pc'[r] \in {"trying", "waiting"}
        PROVE  ExtraOK(r)'
    <3>1. /\ pc'[r] = pc[r] /\ timer'[r] = timer[r] /\ lock' = lock
          /\ timer'[lock] = timer[lock]
      BY <1>0, <1>4, <2>4, <2>6 DEF FindTaken, TypeOK
    <3>. QED  BY <1>4, <2>2, <2>6, <3>1
  <2>7. /\ \A r \in Requests : lock' = r => pc'[r] = "working"
        /\ \A r \in Requests : pc'[r] = "working" => timer'[r] <= SectionMax
        /\ \A r \in Requests : pc'[r] = "idle" => tries'[r] = 0
        /\ \A r \in Requests : pc'[r] # "done" => reply'[r] = "none"
        /\ \A r \in Requests : reply'[r] # "busy"
    BY <1>0, <1>4 DEF FindTaken, TypeOK
  <2>. QED  BY <2>5, <2>6, <2>7
<1>5. ASSUME NEW q \in Requests, DelayOver(q)
      PROVE  WaitInv'
  <2>1. pc[q] = "waiting" /\ timer[q] = RetryDelay /\ tries[q] < MaxAttempts
    BY <1>0, <1>5, AttemptsRemain DEF DelayOver
  <2>2. tries[q] # MaxAttempts
    BY <1>0, <2>1 DEF TypeOK
  <2>3. pc' = [pc EXCEPT ![q] = "trying"] /\ UNCHANGED <<tries, reply, timer, lock>>
    BY <1>5, <2>2 DEF DelayOver
  <2>4. \A r \in Requests : Past(r)' = Past(r)
    BY <1>0, <2>1, <2>3 DEF Past, TypeOK
  <2>5. \A r \in Requests : Extra(r)' = Extra(r)
    BY <2>3, <2>4, PastUnchanged DEF Extra
  <2>6. Extra(q) > 0 => Extra(q) * RetryDelay <= timer[lock]
    <3>1. Extra(q) * RetryDelay = (Extra(q) - 1) * RetryDelay + timer[q]
      BY <1>1, <2>1
    <3>. QED  BY <2>1, <3>1
  <2>. QED  BY <1>0, <1>1, <2>1, <2>3, <2>5, <2>6 DEF TypeOK
<1>6. ASSUME NEW q \in Requests, GiveUp(q)
      PROVE  WaitInv'
  <2>1. \A r \in Requests : Past(r)' = Past(r)
    BY <1>0, <1>6 DEF GiveUp, Past, TypeOK
  <2>2. \A r \in Requests : Extra(r)' = Extra(r)
    BY <1>6, <2>1, PastUnchanged DEF GiveUp, Extra
  <2>. QED  BY <1>0, <1>1, <1>6, <2>2 DEF GiveUp, TypeOK
<1>7. ASSUME NEW q \in Requests, Unlock(q)
      PROVE  WaitInv'
  <2>1. CASE lock = q
    <3>1. ASSUME NEW r \in Requests, pc'[r] \in {"trying", "waiting"}
          PROVE  Extra(r)' \in Int /\ Extra(r)' <= 0
      <4>1. r # q /\ pc[r] = pc'[r] /\ tries'[r] = tries[r]
        BY <1>0, <1>7, <3>1 DEF Unlock, TypeOK
      <4>2. Past(r)' = Past(r) \cup {q} /\ q \notin Past(r)
        BY <1>0, <1>7, <2>1, <4>1, SeatLockAssumption DEF Unlock, Past, TypeOK
      <4>3. Extra(r)' = Extra(r) - AttemptsPerSection
        BY <1>0, <4>1, <4>2, PastGrows
      <4>4. Extra(r) <= AttemptsPerSection
        BY <1>0, <3>1, <4>1, ExtraIsBounded
      <4>. QED  BY <1>1, <4>3, <4>4, AttemptsPerSectionType
    <3>2. \A r \in Requests : pc'[r] \in {"trying", "waiting"} => ExtraOK(r)'
      BY <3>1
    <3>. QED  BY <1>0, <1>7, <2>1, <3>2 DEF Unlock, TypeOK
  <2>2. CASE lock # q
    <3>1. \A r \in Requests : Past(r)' = Past(r)
      BY <1>0, <1>7, <2>2 DEF Unlock, Past, TypeOK
    <3>2. \A r \in Requests : Extra(r)' = Extra(r)
      BY <1>7, <3>1, PastUnchanged DEF Unlock, Extra
    <3>. QED  BY <1>0, <1>1, <1>7, <2>2, <3>2 DEF Unlock, TypeOK
  <2>. QED  BY <2>1, <2>2
<1>8. ASSUME NEW q \in Requests, LeaveLocked(q)
      PROVE  WaitInv'
  BY <1>8 DEF LeaveLocked
<1>9. CASE Tick
  <2>1. /\ UNCHANGED <<pc, tries, reply>>
        /\ lock' = lock \/ lock' = NoOwner
    BY <1>9 DEF Tick
  <2>2. \A r \in Requests : pc[r] = "working" => timer'[r] = timer[r] + 1 /\ timer'[r] <= SectionMax
    BY <1>0, <1>9 DEF Tick, TypeOK
  <2>3. \A r \in Requests : timer'[r] <= timer[r] + 1
    BY <1>0, <1>9 DEF Tick, TypeOK
  <2>4. ASSUME NEW r \in Requests, pc[r] \in {"trying", "waiting"}
        PROVE  ExtraOK(r)'
    <3>1. CASE lock' = lock
      <4>1. Past(r)' = Past(r)
        BY <2>1, <3>1 DEF Past
      <4>2. Extra(r)' = Extra(r)
        BY <2>1, <4>1, PastUnchanged DEF Extra
      <4>3. SUFFICES ASSUME Extra(r) > 0
                     PROVE  /\ lock # NoOwner
                            /\ pc[r] = "trying" => Extra(r) * RetryDelay <= timer'[lock]
                            /\ pc[r] = "waiting" => (Extra(r) - 1) * RetryDelay + timer'[r] <= timer'[lock]
        BY <2>1, <3>1, <4>2
      <4>4. lock \in Requests /\ timer'[lock] = timer[lock] + 1 /\ timer[lock] \in Nat
        BY <1>0, <2>2, <2>4, <4>3 DEF TypeOK
      <4>5. Extra(r) * RetryDelay \in Int /\ (Extra(r) - 1) * RetryDelay \in Int
        BY <1>1
      <4>6. timer[r] \in Nat /\ timer'[r] \in Nat
        BY <1>0 DEF TypeOK
      <4>. QED  BY <2>3, <2>4, <4>3, <4>4, <4>5, <4>6
    <3>2. CASE lock' # lock
      <4>1. lock \in Requests /\ pc[lock] = "working" /\ lock # r
        BY <1>0, <2>1, <2>4, <3>2 DEF TypeOK
      <4>2. Past(r)' = Past(r) \cup {lock} /\ lock \notin Past(r)
        BY <2>1, <3>2, <4>1, SeatLockAssumption DEF Past
      <4>3. Extra(r)' = Extra(r) - AttemptsPerSection
        BY <1>0, <2>1, <4>2, PastGrows
      <4>4. Extra(r) <= AttemptsPerSection
        BY <1>0, <2>4, ExtraIsBounded
      <4>. QED  BY <1>1, <4>3, <4>4, AttemptsPerSectionType
    <3>. QED  BY <3>1, <3>2
  <2>. QED  BY <1>0, <2>1, <2>2, <2>4, SeatLockAssumption DEF TypeOK
<1>. QED  BY <1>2, <1>3, <1>4, <1>5, <1>6, <1>7, <1>8, <1>9 DEF Next

\* A lock that was left behind stays counted.
LEMMA LostIsCounted ==
  ASSUME TypeOK, [Next]_vars, lost' = 0
  PROVE  lost = 0
BY DEF TypeOK, Next, vars, Start, Acquire, FindTaken, DelayOver, GiveUp, Unlock, LeaveLocked, Tick

\* As long as every lock is released, a request whose attempts reach further
\* than the sections of all the others is never told that the seat is busy,
\* whether or not locks lapse under their owners.
THEOREM SpecWaitersGetTheirTurn ==
  ASSUME IsFiniteSet(Requests)
  PROVE  Spec => []WaitersGetTheirTurn
<1>. DEFINE Inv == LockInv /\ ((AttemptsReach /\ lost = 0) => WaitInv)
<1>1. Init => Inv
  <2>. SUFFICES ASSUME Init PROVE WaitInv
    BY InitLockInv
  <2>. QED  BY SeatLockAssumption DEF Init, WaitInv
<1>2. Inv /\ [Next]_vars => Inv'
  <2>. SUFFICES ASSUME Inv, [Next]_vars PROVE Inv'
    OBVIOUS
  <2>1. LockInv'
    BY LockInvStep
  <2>2. AttemptsReach' <=> AttemptsReach
    BY DEF AttemptsReach, AttemptsPerSection
  <2>3. ASSUME AttemptsReach, lost' = 0
        PROVE  WaitInv'
    <3>1. lost = 0 /\ WaitInv
      BY <2>3, LostIsCounted DEF LockInv
    <3>2. CASE Next
      BY <2>3, <3>1, <3>2, WaitStep
    <3>3. CASE UNCHANGED vars
      BY <3>1, <3>3 DEF vars, WaitInv, ExtraOK, Extra, Past, AttemptsPerSection
    <3>. QED  BY <3>2, <3>3
  <2>. QED  BY <2>1, <2>2, <2>3
<1>3. Inv => WaitersGetTheirTurn
  BY DEF WaitInv, WaitersGetTheirTurn, AttemptsReach
<1>. QED  BY <1>1, <1>2, <1>3, PTL DEF Spec
=============================================================================
