--------------------------- MODULE UnlockThrottle ---------------------------
(***************************************************************************)
(* The cooldown that follows wrong passwords, internal/space/throttle.go:  *)
(* the schedule, the test "may this space be tried now" and what one wrong *)
(* password writes.  The record of a space is its unlock.json, so it is    *)
(* durable state; where the state lives is the business of the modules     *)
(* that use these operators.  Time is counted in whole units.              *)
(***************************************************************************)
EXTENDS Integers

CONSTANTS
    FreeUnlockAttempts,   \* failures that cost nothing (3 in the code)
    BaseUnlockDelay,      \* first wait (2 s)
    MaxUnlockDelay,       \* ceiling of the schedule (15 min)
    MaxUnlockDoublings,   \* cap of the shift (20)
    FileErrors            \* unlock.json may fail to be read, parsed, written or removed

ASSUME ThrottleAssumption ==
    /\ FreeUnlockAttempts \in Nat
    /\ BaseUnlockDelay \in Nat \ {0}
    /\ MaxUnlockDelay \in Nat \ {0}
    /\ MaxUnlockDoublings \in Nat
    /\ FileErrors \in BOOLEAN

\* What an absent unlock.json is read as.
NoAttempts == [failures |-> 0, nextTry |-> 0]

AttemptRecords == [failures : Nat, nextTry : Int]

Doublings(failures) ==
    LET past == failures - FreeUnlockAttempts - 1
    IN  IF past < 0 THEN 0
        ELSE IF past > MaxUnlockDoublings THEN MaxUnlockDoublings ELSE past

\* The schedule without the jitter.
backoffFor(failures) ==
    LET delay == BaseUnlockDelay * 2^Doublings(failures)
    IN  IF delay > MaxUnlockDelay \/ delay <= 0 THEN MaxUnlockDelay ELSE delay

\* Every wait the schedule with jitter can produce: up to a quarter more.
unlockDelays(failures) ==
    LET delay == backoffFor(failures) IN delay .. delay + (delay \div 4)

\* Mutant: a date past one ceiling already counts as a broken clock.
clampAtOneCeiling(stored, now) ==
    IF stored.nextTry > now + MaxUnlockDelay
    THEN [stored EXCEPT !.nextTry = now + MaxUnlockDelay]
    ELSE stored

\* The copy readAttempts makes at time now of a record it could read.  The file
\* keeps the date it has.
clamped(stored, now) ==
    IF stored.nextTry > now + 2 * MaxUnlockDelay
    THEN [stored EXCEPT !.nextTry = now + MaxUnlockDelay]
    ELSE stored

\* What a reader may get: an error reads as no attempts at all.
readAttempts(stored, now) ==
    {clamped(stored, now)} \cup (IF FileErrors THEN {NoAttempts} ELSE {})

\* What the file may hold once record was to be written to it, or removed from
\* it (NoAttempts): the errors of both calls are ignored.
writeAttempts(stored, record) == {record} \cup (IF FileErrors THEN {stored} ELSE {})

\* Mutant: one more free attempt than the schedule has.
CoolingDownLate(record, now) ==
    record.failures > FreeUnlockAttempts + 1 /\ now < record.nextTry

\* Mutant: too many failures lock the space, and no date unlocks it.
CoolingDownForGood(record, now) == record.failures > FreeUnlockAttempts

\* checkUnlockCooldown, having read record, refuses the attempt.
CoolingDown(record, now) == record.failures > FreeUnlockAttempts /\ now < record.nextTry

\* Mutant: a wait that was sat out is forgotten together with its failures.
FailuresForgotten(record, now) ==
    LET failures == IF now >= record.nextTry THEN 1 ELSE record.failures + 1
    IN  {[failures |-> failures, nextTry |-> now + d] : d \in unlockDelays(failures)}

\* The records recordUnlockFailure can want to write, having read record: one
\* per value of the jitter.
FailureRecords(record, now) ==
    LET failures == record.failures + 1
    IN  {[failures |-> failures, nextTry |-> now + d] : d \in unlockDelays(failures)}
=============================================================================
