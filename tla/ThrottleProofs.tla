--------------------------- MODULE ThrottleProofs ---------------------------
(***************************************************************************)
(* The password throttle in real time, for every value of its constants:   *)
(* the clamp of readAttempts against the schedule, how long a space can be *)
(* refused whatever happens to the clock, and what a series of guesses     *)
(* costs.                                                                  *)
(***************************************************************************)
EXTENDS ThrottleClock, FiniteSetTheorems, TLAPS

Typed ==
    /\ clock \in Nat /\ shift \in Nat /\ guesses \in Nat
    /\ stored \in AttemptRecords
    /\ faulty \in BOOLEAN

\* The stored date is at most a ceiling, its jitter and the set-backs ahead of
\* the clock as it was when the file was written: time brings it nearer, and a
\* set-back takes it exactly as far away as it is counted.
Within ==
    /\ Typed /\ quiet \in Nat
    /\ stored.nextTry + quiet <= clock + MaxUnlockDelay + (MaxUnlockDelay \div 4) + shift

\* A wait is positive and at most the ceiling and a quarter.
LEMMA DelayBound ==
    ASSUME NEW f \in Nat, NEW d \in unlockDelays(f)
    PROVE  d \in Nat /\ d <= MaxUnlockDelay + (MaxUnlockDelay \div 4)
<1>1. Doublings(f) \in Nat
  BY ThrottleAssumption DEF Doublings
<1>2. 2^Doublings(f) \in Int
  BY <1>1
<1>3. BaseUnlockDelay * 2^Doublings(f) \in Int
  BY <1>2, ThrottleAssumption
<1>4. backoffFor(f) \in Nat /\ backoffFor(f) <= MaxUnlockDelay
  BY <1>3, ThrottleAssumption DEF backoffFor
<1>5. d \in Int /\ 0 <= d /\ d <= backoffFor(f) + (backoffFor(f) \div 4)
  BY <1>4 DEF unlockDelays
<1> QED BY <1>4, <1>5, ThrottleAssumption

\* What one more failure writes is an attempt record with a near date.
LEMMA FailureBound ==
    ASSUME NEW a \in AttemptRecords, NEW now \in Nat, NEW r \in FailureRecords(a, now)
    PROVE  r \in AttemptRecords /\ r.nextTry <= now + MaxUnlockDelay + (MaxUnlockDelay \div 4)
<1>1. a.failures + 1 \in Nat
  BY DEF AttemptRecords
<1>2. PICK d \in unlockDelays(a.failures + 1) :
         r = [failures |-> a.failures + 1, nextTry |-> now + d]
  BY DEF FailureRecords
<1>3. d \in Nat /\ d <= MaxUnlockDelay + (MaxUnlockDelay \div 4)
  BY <1>1, DelayBound
<1> QED BY <1>1, <1>2, <1>3, ThrottleAssumption DEF AttemptRecords

\* The absence of a file is a record.
LEMMA NoAttemptsIsRecord == NoAttempts \in AttemptRecords
BY DEF NoAttempts, AttemptRecords

\* What a reader gets is a record; unless the file fails it has the failures
\* of the file.
LEMMA ReadRecord ==
    ASSUME NEW a \in AttemptRecords, NEW now \in Nat
    PROVE  /\ readAttempts(a, now) \subseteq AttemptRecords
           /\ clamped(a, now) \in AttemptRecords
           /\ clamped(a, now).failures = a.failures
BY NoAttemptsIsRecord, ThrottleAssumption DEF readAttempts, clamped, AttemptRecords

\* Whatever date a file holds, the clamp decides nothing: with or without it an
\* attempt is refused at the same instants, and the next failure writes the
\* same record.  It is recomputed from the moving clock at every read and never
\* written, so that all it changes is the wait that the error message quotes;
\* the comment on it in readAttempts claims more.
THEOREM ClampDecidesNothing ==
    ASSUME NEW a \in AttemptRecords, NEW now \in Nat
    PROVE  /\ CoolingDown(clamped(a, now), now) <=> CoolingDown(a, now)
           /\ FailureRecords(clamped(a, now), now) = FailureRecords(a, now)
BY ThrottleAssumption DEF CoolingDown, FailureRecords, clamped, AttemptRecords

\* Every step keeps the date within its reach.
LEMMA NextWithin == Within /\ [ThrottleNext]_throttleVars => Within'
<1> SUFFICES ASSUME Within, [ThrottleNext]_throttleVars PROVE Within'
  OBVIOUS
<1> USE ThrottleAssumption, ClockAssumption DEF Typed
<1>0. /\ clock \in Nat /\ shift \in Nat /\ guesses \in Nat /\ quiet \in Nat
      /\ stored \in AttemptRecords /\ stored.nextTry \in Int
      /\ MaxUnlockDelay \div 4 \in Nat
  BY DEF Within, AttemptRecords
\* The file is to hold a record that is near.
<1>a. ASSUME NEW r \in AttemptRecords, Stored(r), UNCHANGED clock,
             r.nextTry <= clock + MaxUnlockDelay + (MaxUnlockDelay \div 4),
             guesses' \in Nat, faulty' \in BOOLEAN
      PROVE  Within'
  <2>1. r.nextTry \in Int
    BY <1>a DEF AttemptRecords
  <2>2. stored' \in {r, stored}
    BY <1>a DEF Stored, writeAttempts
  <2>3. CASE stored' = r
    BY <1>0, <1>a, <2>1, <2>3 DEF Stored, Within
  <2>4. CASE stored' # r
    BY <1>0, <1>a, <2>2, <2>4 DEF Stored, Within
  <2> QED BY <2>3, <2>4
<1>1. CASE Tick
  BY <1>0, <1>1 DEF Tick, Later, Within
<1>2. CASE SetBack
  <2>1. PICK d \in Setbacks : clock - d >= 0 /\ clock' = clock - d /\ shift' = shift + d
    BY <1>2 DEF SetBack
  <2>2. UNCHANGED <<stored, guesses, faulty, quiet>> /\ d \in Nat
    BY <1>2 DEF SetBack
  <2> QED BY <1>0, <2>1, <2>2 DEF Within
<1>3. CASE WrongPassword
  <2>1. PICK again \in readAttempts(stored, clock) : \E r \in FailureRecords(again, clock) :
           Stored(r) /\ faulty' \in BOOLEAN
    BY <1>3 DEF WrongPassword, Within
  <2>2. PICK r \in FailureRecords(again, clock) : Stored(r) /\ faulty' \in BOOLEAN
    BY <2>1
  <2>3. again \in AttemptRecords
    BY <1>0, <2>1, ReadRecord
  <2>4. r \in AttemptRecords /\ r.nextTry <= clock + MaxUnlockDelay + (MaxUnlockDelay \div 4)
    BY <1>0, <2>2, <2>3, FailureBound
  <2>5. guesses' \in Nat /\ UNCHANGED clock
    BY <1>0, <1>3 DEF WrongPassword
  <2> QED BY <1>a, <2>2, <2>4, <2>5
<1>4. CASE RightPassword
  <2>1. Stored(NoAttempts) /\ guesses' \in Nat /\ faulty' \in BOOLEAN /\ UNCHANGED clock
    BY <1>4 DEF RightPassword
  <2>2. NoAttempts.nextTry <= clock + MaxUnlockDelay + (MaxUnlockDelay \div 4)
    BY <1>0 DEF NoAttempts
  <2> QED BY <1>a, <2>1, <2>2, NoAttemptsIsRecord
<1>5. CASE UNCHANGED throttleVars
  BY <1>5 DEF throttleVars, Within
<1> QED BY <1>1, <1>2, <1>3, <1>4, <1>5 DEF ThrottleNext

\* The variables start with their types.
LEMMA InitTyped == ThrottleInit => Typed
<1> SUFFICES ASSUME ThrottleInit PROVE Typed
  OBVIOUS
<1>1. clock \in Nat /\ shift \in Nat /\ guesses \in Nat
  BY ClockAssumption DEF ThrottleInit
<1>2. stored \in AttemptRecords
  BY NoAttemptsIsRecord DEF ThrottleInit
<1>3. faulty \in BOOLEAN
  BY DEF ThrottleInit
<1> QED BY <1>1, <1>2, <1>3 DEF Typed

\* The date is within its reach from the start on.
LEMMA AlwaysWithin == ThrottleSpec => []Within
<1>1. ThrottleInit => Within
  <2> SUFFICES ASSUME ThrottleInit PROVE Within
    OBVIOUS
  <2>1. Typed
    BY InitTyped
  <2>2. clock \in Nat /\ stored.nextTry = 0 /\ quiet = 0 /\ shift = 0
    BY ClockAssumption DEF ThrottleInit, NoAttempts
  <2> QED BY <2>1, <2>2, ThrottleAssumption DEF Within
<1> QED BY <1>1, NextWithin, PTL DEF ThrottleSpec

\* The clamp of readAttempts never shortens a wait that recordUnlockFailure
\* imposed, whatever the base, the ceiling and the cap of the schedule.
THEOREM ClampCorrect == ThrottleSpec => []ClampLeavesScheduleAlone
<1>1. Within => ClampLeavesScheduleAlone
  BY ThrottleAssumption DEF Within, Typed, ClampLeavesScheduleAlone, clamped, AttemptRecords
<1> QED BY <1>1, AlwaysWithin, PTL

\* A space is refused for at most the longest wait of the schedule and what the
\* clock was set back, in real time since unlock.json was written, however
\* often and by whatever amounts it was set back and whatever unlock.json
\* failed to take in.
THEOREM RefusalEnds == ThrottleSpec => []RefusedNoLonger
<1>1. Within => RefusedNoLonger
  <2> SUFFICES ASSUME Within, CoolingDown(clamped(stored, clock), clock)
               PROVE  quiet < MaxUnlockDelay + (MaxUnlockDelay \div 4) + shift
    BY DEF RefusedNoLonger
  <2>1. CoolingDown(stored, clock)
    BY ClampDecidesNothing DEF Within, Typed
  <2>2. clock < stored.nextTry /\ stored.nextTry \in Int
    BY <2>1 DEF CoolingDown, Within, Typed, AttemptRecords
  <2> QED BY <2>2, ThrottleAssumption DEF Within, Typed
<1> QED BY <1>1, AlwaysWithin, PTL

-----------------------------------------------------------------------------
(* What a series of guesses costs.                                         *)

\* A nonempty set of naturals has a least element.  (The initial segments
\* below its elements are finite sets, which strict inclusion well-founds.)
LEMMA LeastNatural ==
    ASSUME NEW S \in SUBSET Nat, S # {}
    PROVE  \E x \in S : \A y \in S : x <= y
<1> DEFINE Initials == {0..x : x \in S}
<1>1. Initials \subseteq FiniteSubsetsOf(Nat) /\ Initials # {}
  <2>1. \A x \in Nat : 0..x \in SUBSET Nat /\ IsFiniteSet(0..x)
    BY FS_Interval
  <2> QED BY <2>1 DEF FiniteSubsetsOf
<1>2. PICK t \in Initials : \A u \in Initials : <<u, t>> \notin StrictSubsetOrdering(Nat)
  BY <1>1, FS_StrictSubsetOrderingWellFounded, WFMin
<1>3. PICK x \in S : t = 0..x
  OBVIOUS
<1>4. ASSUME NEW y \in S, y < x PROVE FALSE
  <2>1. 0..y \subseteq 0..x /\ 0..y # 0..x
    <3>1. x \in 0..x /\ x \notin 0..y
      BY <1>4
    <3> QED BY <1>4, <3>1
  <2>2. <<0..y, 0..x>> \in StrictSubsetOrdering(Nat)
    BY <2>1 DEF StrictSubsetOrdering
  <2> QED BY <1>2, <1>3, <2>2
<1> QED BY <1>4

\* Induction over the naturals, in the form the provers can use: a set that
\* has zero and the successor of each of its elements has them all.
LEMMA AllNaturals ==
    ASSUME NEW S \in SUBSET Nat, 0 \in S, \A n \in S : n + 1 \in S
    PROVE  S = Nat
<1> SUFFICES ASSUME Nat \ S # {} PROVE FALSE
  OBVIOUS
<1>1. PICK x \in Nat \ S : \A y \in Nat \ S : x <= y
  BY LeastNatural
<1>2. x - 1 \in Nat /\ x - 1 \in S
  BY <1>1
<1> QED BY <1>1, <1>2

\* The wait that lies between failure n - 1 and failure n.
Wait(n) == IF n - 1 > FreeUnlockAttempts THEN backoffFor(n - 1) ELSE 0

\* The sum of the waits is what its definition says: there is a function that
\* satisfies the equation, put together from the finite ones.
LEMMA CostDef ==
    /\ Cost \in [Nat -> Nat]
    /\ \A n \in Nat : Cost[n] = IF n <= 1 THEN 0 ELSE Cost[n - 1] + Wait(n)
<1>0. \A n \in Nat : n > 1 => Wait(n) \in Nat
  <2> SUFFICES ASSUME NEW n \in Nat, n > 1, n - 1 > FreeUnlockAttempts PROVE backoffFor(n - 1) \in Nat
    BY DEF Wait
  <2>1. n - 1 \in Nat
    OBVIOUS
  <2>2. Doublings(n - 1) \in Nat
    BY <2>1, ThrottleAssumption DEF Doublings
  <2>3. BaseUnlockDelay * 2^Doublings(n - 1) \in Int
    BY <2>2, ThrottleAssumption
  <2> QED BY <2>3, ThrottleAssumption DEF backoffFor
<1> HIDE DEF Wait
<1> DEFINE Step(g, n) == IF n <= 1 THEN 0 ELSE g[n - 1] + Wait(n)
           Sums(n) == {g \in [0..n -> Nat] : \A k \in 0..n : g[k] = Step(g, k)}
\* There is a finite sum of every length,
<1>1. \A n \in Nat : Sums(n) # {}
  <2> DEFINE S == {n \in Nat : Sums(n) # {}}
  <2>1. 0 \in S
    <3>1. [k \in 0..0 |-> 0] \in Sums(0)
      OBVIOUS
    <3> QED BY <3>1
  <2>2. ASSUME NEW n \in S PROVE n + 1 \in S
    <3>1. PICK g \in [0..n -> Nat] : \A k \in 0..n : g[k] = Step(g, k)
      OBVIOUS
    <3> DEFINE h == [k \in 0..(n + 1) |-> IF k = n + 1 THEN Step(g, n + 1) ELSE g[k]]
    <3>2. Step(g, n + 1) \in Nat
      BY <1>0
    <3>3. h \in [0..(n + 1) -> Nat]
      BY <3>2
    <3>4. ASSUME NEW k \in 0..(n + 1) PROVE h[k] = Step(h, k)
      <4>1. k > 1 => k - 1 \in 0..n /\ h[k - 1] = g[k - 1]
        OBVIOUS
      <4>2. CASE k = n + 1
        BY <4>1, <4>2
      <4>3. CASE k # n + 1
        BY <3>1, <4>1, <4>3
      <4> QED BY <4>2, <4>3
    <3>5. h \in Sums(n + 1)
      BY <3>3, <3>4
    <3> HIDE DEF Sums, h
    <3> QED BY <3>5
  <2> HIDE DEF Sums
  <2> QED BY <2>1, <2>2, AllNaturals
\* and any two of them agree where both are defined.
<1>2. ASSUME NEW n \in Nat, NEW m \in Nat, NEW g \in Sums(n), NEW h \in Sums(m), n <= m
      PROVE  \A k \in 0..n : g[k] = h[k]
  <2> SUFFICES ASSUME {k \in 0..n : g[k] # h[k]} # {} PROVE FALSE
    OBVIOUS
  <2>1. PICK x \in 0..n : g[x] # h[x] /\ \A y \in 0..n : g[y] # h[y] => x <= y
    <3>1. {k \in 0..n : g[k] # h[k]} \in SUBSET Nat
      OBVIOUS
    <3> QED BY <3>1, LeastNatural
  <2>2. g[x] = Step(g, x) /\ h[x] = Step(h, x)
    BY <1>2
  <2>3. x > 1 => x - 1 \in 0..n /\ g[x - 1] = h[x - 1]
    BY <2>1
  <2> QED BY <2>1, <2>2, <2>3
<1> DEFINE Sum(n) == CHOOSE g \in Sums(n) : TRUE
           F == [n \in Nat |-> Sum(n)[n]]
<1>3. \A n \in Nat : Sum(n) \in Sums(n)
  <2> HIDE DEF Sums
  <2> QED BY <1>1
<1>4. F \in [Nat -> Nat]
  <2>1. \A n \in Nat : Sum(n) \in [0..n -> Nat]
    BY <1>3
  <2> HIDE DEF Sum
  <2> QED BY <2>1
<1>5. ASSUME NEW n \in Nat PROVE F[n] = Step(F, n)
  <2>1. F[n] = Step(Sum(n), n)
    <3> HIDE DEF Sum
    <3> QED BY <1>3
  <2>2. ASSUME n > 1 PROVE Sum(n)[n - 1] = F[n - 1]
    <3>1. n - 1 \in Nat /\ n - 1 <= n /\ n - 1 \in 0..(n - 1)
      BY <2>2
    <3>2. Sum(n - 1) \in Sums(n - 1) /\ Sum(n) \in Sums(n)
      BY <1>3, <3>1
    <3> HIDE DEF Sums, Sum
    <3> QED BY <1>2, <3>1, <3>2
  <2> HIDE DEF F, Sum
  <2> QED BY <2>1, <2>2
<1>6. F = [n \in Nat |-> IF n <= 1 THEN 0
                         ELSE F[n - 1] + (IF n - 1 > FreeUnlockAttempts THEN backoffFor(n - 1) ELSE 0)]
  <2> HIDE DEF F
  <2> QED BY <1>4, <1>5 DEF Wait
<1>7. Cost = [n \in Nat |-> IF n <= 1 THEN 0
                         ELSE Cost[n - 1] + (IF n - 1 > FreeUnlockAttempts THEN backoffFor(n - 1) ELSE 0)]
  <2> HIDE DEF F
  <2> QED BY <1>6 DEF Cost
<1>8. \A n \in Nat : Cost[n] = Step(Cost, n)
  BY <1>7 DEF Wait
<1>9. \A n \in Nat : Cost[n] \in Nat
  <2> DEFINE S == {n \in Nat : Cost[n] \in Nat}
  <2>1. 0 \in S
    BY <1>8
  <2>2. ASSUME NEW n \in S PROVE n + 1 \in S
    <3>1. Cost[n + 1] = Step(Cost, n + 1) /\ (n + 1) - 1 = n
      BY <1>8
    <3> QED BY <1>0, <3>1
  <2>3. S \in SUBSET Nat
    OBVIOUS
  <2>4. S = Nat
    <3> HIDE DEF S
    <3> QED BY <2>1, <2>2, <2>3, AllNaturals
  <2> QED BY <2>4
<1>10. Cost \in [Nat -> Nat]
  BY <1>7, <1>9
<1> QED BY <1>8, <1>10

\* What one more failure writes, from below.
LEMMA FailureWait ==
    ASSUME NEW a \in AttemptRecords, NEW now \in Nat, NEW r \in FailureRecords(a, now)
    PROVE  /\ r.failures = a.failures + 1
           /\ backoffFor(a.failures + 1) \in Nat
           /\ r.nextTry \in Int /\ r.nextTry >= now + backoffFor(a.failures + 1)
<1>1. a.failures + 1 \in Nat
  BY DEF AttemptRecords
<1>2. PICK d \in unlockDelays(a.failures + 1) :
         r = [failures |-> a.failures + 1, nextTry |-> now + d]
  BY DEF FailureRecords
<1>3. Doublings(a.failures + 1) \in Nat
  BY <1>1, ThrottleAssumption DEF Doublings
<1>4. BaseUnlockDelay * 2^Doublings(a.failures + 1) \in Int
  BY <1>3, ThrottleAssumption
<1>5. backoffFor(a.failures + 1) \in Nat
  BY <1>4, ThrottleAssumption DEF backoffFor
<1>6. d \in Int /\ d >= backoffFor(a.failures + 1)
  BY <1>5 DEF unlockDelays
<1> QED BY <1>2, <1>5, <1>6

\* Unless the file has failed, it counts the guesses, they are paid for, and
\* what is left to wait pays for the one that comes next; the time measured
\* stops at the horizon.
Paid ==
    /\ Typed
    /\ elapsed \in Nat /\ elapsed <= Horizon
    /\ guesses <= MaxFailures
    /\ ~faulty =>
         /\ stored.failures = guesses
         /\ elapsed >= Cost[guesses]
         /\ guesses > 0 => backoffFor(guesses) \in Nat
         /\ guesses > 0 /\ elapsed < Horizon =>
              elapsed + (stored.nextTry - clock) >= Cost[guesses] + backoffFor(guesses)

\* Every step keeps the account.
LEMMA NextPaid ==
    ASSUME \A n \in 0..MaxFailures : Cost[n] <= Horizon, Paid, Within',
           [ThrottleNext]_throttleVars
    PROVE  Paid'
<1> USE ThrottleAssumption, ClockAssumption
<1> DEFINE n == guesses
<1>0. /\ clock \in Nat /\ n \in Nat /\ stored.nextTry \in Int /\ shift \in Nat
      /\ stored \in AttemptRecords
      /\ Cost[0] = 0 /\ Cost[n] \in Nat
      /\ elapsed \in Nat /\ elapsed <= Horizon
  BY CostDef DEF Paid, Typed, AttemptRecords
<1>t. Typed'
  BY DEF Within
<1>1. CASE Tick
  <2>1. stored' = stored /\ n' = n /\ faulty' = faulty /\ clock' = clock + 1
        /\ elapsed' = IF n = 0 THEN 0 ELSE Later(elapsed)
    BY <1>1 DEF Tick
  <2> HIDE DEF n
  <2>2. elapsed' \in Nat /\ elapsed' <= Horizon /\ (n > 0 => elapsed' >= elapsed)
        /\ (n > 0 /\ elapsed' < Horizon => elapsed' = elapsed + 1 /\ elapsed < Horizon)
    BY <1>0, <2>1 DEF Later
  <2> USE DEF n
  <2>3. ~faulty => elapsed' >= Cost[n]
    BY <1>0, <2>1, <2>2 DEF Paid
  <2>4. ~faulty /\ n > 0 /\ elapsed' < Horizon
          => elapsed' + (stored.nextTry - clock') >= Cost[n] + backoffFor(n)
    BY <1>0, <2>1, <2>2 DEF Paid
  <2> QED BY <1>0, <1>t, <2>1, <2>2, <2>3, <2>4 DEF Paid
<1>2. CASE SetBack
  <2>1. PICK d \in Setbacks : clock - d >= 0 /\ clock' = clock - d
    BY <1>2 DEF SetBack
  <2>2. UNCHANGED <<stored, guesses, faulty, elapsed>>
    BY <1>2 DEF SetBack
  <2>3. d \in Nat /\ clock' \in Nat
    BY <1>0, <2>1
  <2>4. ~faulty /\ n > 0 /\ elapsed < Horizon
          => elapsed + (stored.nextTry - clock') >= Cost[n] + backoffFor(n)
    BY <1>0, <2>1, <2>3 DEF Paid
  <2> QED BY <1>0, <1>t, <2>2, <2>4 DEF Paid
<1>3. CASE WrongPassword
  <2>1. n < MaxFailures /\ n' = n + 1 /\ UNCHANGED <<clock, elapsed>>
    BY <1>3 DEF WrongPassword
  <2>2. CASE faulty'
    BY <1>0, <1>t, <2>1, <2>2 DEF Paid
  <2>3. CASE ~faulty'
    <3> DEFINE a == clamped(stored, clock)
    <3>1. /\ ~faulty /\ ~CoolingDown(a, clock) /\ stored' \in FailureRecords(a, clock)
      BY <1>3, <2>3 DEF WrongPassword, Stored
    <3>2. a \in AttemptRecords /\ a.failures = n
      BY <1>0, <3>1, ReadRecord DEF Paid
    <3>3. stored'.failures = n + 1 /\ backoffFor(n + 1) \in Nat
          /\ stored'.nextTry \in Int /\ stored'.nextTry >= clock + backoffFor(n + 1)
      BY <1>0, <3>1, <3>2, FailureWait
    <3>4. n > FreeUnlockAttempts => clock >= stored.nextTry
      BY <1>0, <3>1, ClampDecidesNothing DEF CoolingDown, Paid
    <3>5. Cost[n + 1] = (IF n + 1 <= 1 THEN 0
                         ELSE Cost[n] + (IF n > FreeUnlockAttempts THEN backoffFor(n) ELSE 0))
      <4>1. n + 1 \in Nat /\ (n + 1) - 1 = n
        BY <1>0
      <4> QED BY <4>1, CostDef DEF Wait
    <3>6. elapsed >= Cost[n + 1]
      <4>1. CASE elapsed < Horizon
        BY <1>0, <3>1, <3>4, <3>5, <4>1 DEF Paid
      <4>2. CASE elapsed = Horizon
        <5>1. n + 1 \in 0..MaxFailures
          BY <1>0, <2>1
        <5> QED BY <4>2, <5>1
      <4> QED BY <1>0, <4>1, <4>2
    <3>7. Cost[n + 1] \in Nat
      BY <1>0, CostDef
    <3>8. elapsed + (stored'.nextTry - clock) >= Cost[n + 1] + backoffFor(n + 1)
      BY <1>0, <3>3, <3>6, <3>7
    <3> QED BY <1>0, <1>t, <2>1, <3>3, <3>6, <3>8 DEF Paid
  <2> QED BY <2>2, <2>3
<1>4. CASE RightPassword
  <2>1. guesses' = 0 /\ elapsed' = 0 /\ (~faulty' => stored' = NoAttempts)
    BY <1>4 DEF RightPassword
  <2> QED BY <1>0, <1>t, <2>1 DEF Paid, NoAttempts
<1>5. CASE UNCHANGED throttleVars
  BY <1>5 DEF throttleVars, Paid, Typed
<1> QED BY <1>1, <1>2, <1>3, <1>4, <1>5 DEF ThrottleNext

\* However attempts, restarts and setbacks of the clock are timed, n wrong
\* passwords in a row took at least the sum of the waits of the schedule
\* (checkUnlockCooldown against the date of recordUnlockFailure), as long as
\* unlock.json has not failed meanwhile and the horizon, up to which time is
\* measured, has room for that sum.
THEOREM GuessesPay ==
    ASSUME \A n \in 0..MaxFailures : Cost[n] <= Horizon
    PROVE  ThrottleSpec => []GuessesPayTheSchedule
<1>1. ThrottleInit => Paid
  <2> SUFFICES ASSUME ThrottleInit PROVE Paid
    OBVIOUS
  <2>1. Typed
    BY InitTyped
  <2>2. stored.failures = 0 /\ guesses = 0 /\ elapsed = 0
    BY DEF ThrottleInit, NoAttempts
  <2> QED BY <2>1, <2>2, CostDef, ClockAssumption DEF Paid
<1>2. Paid => GuessesPayTheSchedule
  BY DEF Paid, GuessesPayTheSchedule
<1>3. Paid /\ Within' /\ [ThrottleNext]_throttleVars => Paid'
  BY NextPaid
<1> QED BY <1>1, <1>2, <1>3, AlwaysWithin, PTL DEF ThrottleSpec
=============================================================================
