---------------------------- MODULE ThrottleClock ----------------------------
(***************************************************************************)
(* One space under the cooldown of UnlockThrottle, seen from the outside:  *)
(* somebody guesses as often as the wallet lets them, the process restarts *)
(* whenever it likes, the wall clock may be set back (Setbacks), and       *)
(* unlock.json may fail (FileErrors).  The verdict and the write of one    *)
(* attempt are one step here because the per-space lock orders them;       *)
(* SpaceManager has the fine-grained version.                              *)
(***************************************************************************)
EXTENDS UnlockThrottle

CONSTANTS
    Setbacks,       \* amounts by which the wall clock may jump backwards
    Horizon,        \* bound: last instant of the wall clock, longest time measured
    MaxShift,       \* bound: how far it jumps between two writes of unlock.json
    MaxFailures     \* bound: wrong guesses in a row, failures on file

ASSUME ClockAssumption ==
    /\ Setbacks \subseteq Nat \ {0}
    /\ Horizon \in Nat
    /\ MaxShift \in Nat
    /\ MaxFailures \in Nat

VARIABLES
    clock,    \* wall clock, what m.now() returns
    stored,   \* unlock.json
    guesses,  \* wrong passwords since the last right one
    faulty,   \* unlock.json has failed during this series of guesses
    elapsed,  \* real time since the first of them
    quiet,    \* real time since unlock.json was last written or removed
    shift     \* by how much the clock was set back since then

throttleVars == <<clock, stored, guesses, faulty, elapsed, quiet, shift>>

ThrottleInit ==
    /\ clock \in 0 .. Horizon
    /\ stored = NoAttempts
    /\ guesses = 0 /\ faulty = FALSE
    /\ elapsed = 0 /\ quiet = 0 /\ shift = 0

\* Measured times saturate at the horizon.
Later(t) == IF t < Horizon THEN t + 1 ELSE t

Tick ==
    /\ clock < Horizon
    /\ clock' = clock + 1
    /\ elapsed' = IF guesses = 0 THEN 0 ELSE Later(elapsed)
    /\ quiet' = Later(quiet)
    /\ UNCHANGED <<stored, guesses, faulty, shift>>

\* The wall clock is corrected backwards; no real time passes.
SetBack ==
    /\ \E d \in Setbacks :
         /\ clock - d >= 0 /\ shift + d <= MaxShift
         /\ clock' = clock - d /\ shift' = shift + d
    /\ UNCHANGED <<stored, guesses, faulty, elapsed, quiet>>

\* unlock.json was to hold record from now on; it may have kept what it had.
Stored(record) ==
    /\ stored' \in writeAttempts(stored, record)
    /\ IF stored' = record THEN quiet' = 0 /\ shift' = 0 ELSE UNCHANGED <<quiet, shift>>

\* A wrong password that the cooldown lets through (checkUnlockCooldown, then
\* the derivation fails, then recordUnlockFailure, which reads the file anew).
WrongPassword ==
    LET onFile == clamped(stored, clock) IN
    /\ guesses < MaxFailures /\ stored.failures < MaxFailures
    /\ guesses' = guesses + 1
    /\ \E seen, again \in readAttempts(stored, clock) :
         /\ ~CoolingDown(seen, clock)
         /\ \E record \in FailureRecords(again, clock) :
              /\ Stored(record)
              /\ faulty' = (faulty \/ {seen, again} # {onFile} \/ stored' # record)
    /\ UNCHANGED <<clock, elapsed>>

\* The right password removes unlock.json.
RightPassword ==
    /\ \E seen \in readAttempts(stored, clock) : ~CoolingDown(seen, clock)
    /\ Stored(NoAttempts)
    /\ guesses' = 0 /\ elapsed' = 0 /\ faulty' = (stored' # NoAttempts)
    /\ UNCHANGED clock

ThrottleNext == Tick \/ SetBack \/ WrongPassword \/ RightPassword

ThrottleSpec == ThrottleInit /\ [][ThrottleNext]_throttleVars

-----------------------------------------------------------------------------
\* The waits the schedule asks for before failure number n can be recorded.
Cost[n \in Nat] == IF n <= 1 THEN 0
                   ELSE Cost[n - 1] + (IF n - 1 > FreeUnlockAttempts
                                       THEN backoffFor(n - 1) ELSE 0)

\* However the attempts are timed, n wrong passwords in a row have taken at
\* least the sum of the waits the schedule lists for them: no attempt slips in
\* before the previous one's wait is over (checkUnlockCooldown against the
\* date recordUnlockFailure stored).  A failing unlock.json gives guesses
\* away, by design of readAttempts and writeAttempts.
GuessesPayTheSchedule == ~faulty => elapsed >= Cost[guesses]

\* A wait the schedule imposed is served in full: while the clock has not been
\* touched since, what readAttempts hands out is the date in the file, so that
\* no wait, jitter included, is taken for the date of a broken clock.
ClampLeavesScheduleAlone == shift = 0 => clamped(stored, clock) = stored

\* A space refuses attempts for no longer than the longest wait of the
\* schedule and what the clock was set back, in real time since unlock.json
\* was written (backoffFor's ceiling, unlockDelay's jitter, recordUnlockFailure).
RefusedNoLonger ==
    CoolingDown(clamped(stored, clock), clock)
        => quiet < MaxUnlockDelay + (MaxUnlockDelay \div 4) + shift

\* A space stops refusing attempts within the two ceilings past which
\* readAttempts holds a date to be unreachable: "A clock that moved backwards,
\* or a hand-edited file, must not be able to park a space behind an
\* unreachable date."  The code does not keep this; see the README.
NotParked == CoolingDown(clamped(stored, clock), clock) => quiet < 2 * MaxUnlockDelay

=============================================================================
