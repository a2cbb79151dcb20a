------------------------- MODULE SpaceManagerProofs -------------------------
(***************************************************************************)
(* Theorems about SpaceManager, for every value of its constants.  The     *)
(* inductive invariant IInv has the discipline of the per-space lock; the  *)
(* sections after it add what each further property needs.                 *)
(***************************************************************************)
EXTENDS SpaceManager, TLAPS

\* What holds of every call under way: which fields its phase has filled in;
\* that it holds the lock of its space from the cooldown check to its return;
\* that no other call has changed the password since it read the file; that
\* the password it was given is known to be right once the container opened;
\* and that a ChangePassword that derived no session key found, and still
\* finds, no session to refresh.
CallInv(c) ==
    LET call == calls[c] IN
    /\ call.phase \in {"waitOpen", "open"} => call.op \in PasswordOps
    /\ call.phase \in {"waitSeal", "seal", "waitRekey", "rekey"} =>
         call.op \in Creations \cup {"change"}
    /\ call.phase = "locking" =>
         call.op \in PasswordOps /\ call.space \in Spaces /\ Known(call.space) /\ call.pw \in Passwords
    /\ call.phase \in {"gated", "lent"} => call.op = "send" /\ call.space \in Spaces
    /\ call.op \in Creations \cup {"change"} => call.newPw \in Passwords
    /\ call.op \in Creations \cup {"change"} /\ call.phase \in {"waitRekey", "rekey", "apply"} =>
         call.sealed \in Vaults /\ call.sealed.pw = call.newPw
    /\ Holding(c) =>
         /\ call.space \in Spaces /\ Known(call.space) /\ spaceLock[call.space] = c
         /\ call.pw \in Passwords
         /\ call.snap \in Files /\ call.snap.vault.pw = files[call.space].vault.pw
         /\ call.phase \notin {"waitOpen", "open"} => call.pw = call.snap.vault.pw
         /\ call.op = "change" /\ call.phase = "apply" /\ ~call.rekeyed => sessions[call.space] = None

IInv ==
    /\ TypeOK
    /\ \A c \in Callers : CallInv(c)
    /\ SessionKeyOpensVault

\* What a step leaves alone, for one space.
FileKept(t) == Known(t) => files'[t] # None /\ files'[t].vault.pw = files[t].vault.pw
SessionKept(t) == sessions'[t] # None => sessions[t] # None /\ sessions'[t].pw = sessions[t].pw

USE DEF PasswordOps, Creations

\* A backoff is a positive delay that never exceeds the ceiling.
LEMMA BackoffType ==
    ASSUME NEW f \in Nat
    PROVE  backoffFor(f) \in Nat \ {0} /\ backoffFor(f) <= MaxUnlockDelay
<1>1. Doublings(f) \in Nat
  BY ThrottleAssumption DEF Doublings
<1>2. 2^Doublings(f) \in Int
  BY <1>1
<1>3. BaseUnlockDelay * 2^Doublings(f) \in Int
  BY <1>2, ThrottleAssumption
<1> QED BY <1>3, ThrottleAssumption DEF backoffFor

\* What recordUnlockFailure wants to write is an attempt record again, and
\* counts one failure more than what it has read.
LEMMA FailureRecordsType ==
    ASSUME NEW seen \in AttemptRecords, NEW now \in Nat
    PROVE  /\ FailureRecords(seen, now) \subseteq AttemptRecords
           /\ \A record \in FailureRecords(seen, now) : record.failures = seen.failures + 1
<1>1. seen.failures + 1 \in Nat
  BY DEF AttemptRecords
<1>2. unlockDelays(seen.failures + 1) \subseteq Int
  BY <1>1, BackoffType DEF unlockDelays
<1> QED BY <1>1, <1>2 DEF FailureRecords, AttemptRecords

\* The cleared attempt record is an attempt record.
LEMMA NoAttemptsType == NoAttempts \in AttemptRecords
BY DEF NoAttempts, AttemptRecords

\* The clamp of readAttempts keeps the count and the verdict on the cooldown.
LEMMA ClampType ==
    ASSUME NEW stored \in AttemptRecords, NEW now \in Nat
    PROVE  /\ clamped(stored, now) \in AttemptRecords
           /\ clamped(stored, now).failures = stored.failures
           /\ CoolingDown(clamped(stored, now), now) <=> CoolingDown(stored, now)
<1>1. CASE stored.nextTry > now + 2 * MaxUnlockDelay
  <2> DEFINE copy == [stored EXCEPT !.nextTry = now + MaxUnlockDelay]
  <2>1. clamped(stored, now) = copy
    BY <1>1 DEF clamped
  <2>2. copy.failures = stored.failures /\ copy.nextTry = now + MaxUnlockDelay /\ copy \in AttemptRecords
    BY ThrottleAssumption DEF AttemptRecords
  <2> QED BY <1>1, <2>1, <2>2, ThrottleAssumption DEF CoolingDown, AttemptRecords
<1>2. CASE ~(stored.nextTry > now + 2 * MaxUnlockDelay)
  BY <1>2 DEF clamped
<1> QED BY <1>1, <1>2

\* What is read from unlock.json and what is left in it are attempt records,
\* errors included.
LEMMA ReadWriteType ==
    ASSUME NEW stored \in AttemptRecords, NEW now \in Nat
    PROVE  /\ readAttempts(stored, now) \subseteq AttemptRecords
           /\ \A record \in AttemptRecords : writeAttempts(stored, record) \subseteq AttemptRecords
BY ClampType, NoAttemptsType DEF readAttempts, writeAttempts

\* lockLoop waits a positive time.
LEMMA IntervalType ==
    ASSUME NEW d \in AutoLocks
    PROVE  lockInterval(d) \in Nat \ {0}
BY SpaceAssumption DEF lockInterval

\* The sweep and the refresh of unlockedLocked keep the type of the session
\* map, and touch no session but the lapsed ones and the one in use.
LEMMA SessionHelpers ==
    ASSUME TypeOK
    PROVE  /\ Expired \in [Spaces -> Sessions \cup {None}]
           /\ \A s \in Spaces : Expired[s] # None => Expired[s] = sessions[s]
           /\ \A s \in Spaces : Unlocked(s) =>
                /\ sessions[s] \in Sessions
                /\ Known(s)
                /\ Touched(s) \in [Spaces -> Sessions \cup {None}]
                /\ Touched(s)[s] = [sessions[s] EXCEPT !.lastUsed = clock]
                /\ \A t \in Spaces : t # s => Touched(s)[t] = Expired[t]
<1>1. Expired \in [Spaces -> Sessions \cup {None}]
  BY DEF TypeOK, Expired
<1>2. \A s \in Spaces : Expired[s] # None => Expired[s] = sessions[s]
  BY DEF Expired
<1>3. ASSUME NEW s \in Spaces, Unlocked(s)
      PROVE  /\ sessions[s] \in Sessions
             /\ Known(s)
             /\ Touched(s) \in [Spaces -> Sessions \cup {None}]
             /\ Touched(s)[s] = [sessions[s] EXCEPT !.lastUsed = clock]
             /\ \A t \in Spaces : t # s => Touched(s)[t] = Expired[t]
  <2>1. Known(s) /\ Expired[s] # None /\ Expired[s] = sessions[s] /\ sessions[s] \in Sessions
    BY <1>1, <1>2, <1>3 DEF Unlocked, TypeOK
  <2>2. [sessions[s] EXCEPT !.lastUsed = clock] \in Sessions
    BY <2>1 DEF TypeOK, Sessions
  <2> QED BY <1>1, <2>1, <2>2 DEF Touched
<1> QED BY <1>1, <1>2, <1>3

\* An idle call satisfies the invariant of calls.
LEMMA IdleCall ==
    ASSUME NEW c \in Callers, calls'[c] = NoCall
    PROVE  CallInv(c)'
BY SpaceAssumption DEF CallInv, NoCall, Holding, AllOps

\* The idle call is a call.
LEMMA NoCallType == NoCall \in Calls
BY DEF NoCall, Calls, Phases

\* The initial states satisfy the inductive invariant.
LEMMA InitIInv == Init => IInv
<1> SUFFICES ASSUME Init PROVE IInv
  OBVIOUS
<1>1. TypeOK
  <2>1. /\ clock \in Nat /\ files \in [Spaces -> Files \cup {None}]
        /\ disk \in [Spaces -> Files \cup {None}] /\ sessions \in [Spaces -> Sessions \cup {None}]
        /\ spaceLock \in [Spaces -> Callers \cup {None}] /\ kdfFree \in Nat /\ issued \subseteq KeyRefs
        /\ autoLock \in AutoLocks /\ grantTTL \in GrantTTLs /\ wrong \in [Spaces -> Nat]
        /\ confirmed \in [Spaces -> Confirmations \cup {None}]
    BY SpaceAssumption DEF Init
  <2>2. lossy \in [Spaces -> BOOLEAN] /\ overlapped \in [Spaces -> BOOLEAN] /\ rearm \in BOOLEAN
    BY DEF Init
  <2>3. attempts \in [Spaces -> AttemptRecords] /\ calls \in [Callers -> Calls]
    BY NoAttemptsType, NoCallType DEF Init
  <2>4. sweepAt \in Nat
    BY IntervalType DEF Init
  <2> QED BY <2>1, <2>2, <2>3, <2>4 DEF TypeOK
<1>2. (\A c \in Callers : CallInv(c)) /\ SessionKeyOpensVault
  BY SpaceAssumption DEF Init, CallInv, NoCall, AllOps, Holding, SessionKeyOpensVault
<1> QED BY <1>1, <1>2 DEF IInv

\* Moving a call to another phase changes that field of that call alone.
LEMMA PhaseStep ==
    ASSUME TypeOK, NEW c \in Callers, NEW phase \in Phases, SetPhase(c, phase)
    PROVE  /\ calls' \in [Callers -> Calls]
           /\ calls'[c] = [calls[c] EXCEPT !.phase = phase]
           /\ \A d \in Callers : d # c => calls'[d] = calls[d]
<1>1. calls[c] \in Calls
  BY DEF TypeOK
<1>2. [calls[c] EXCEPT !.phase = phase] \in Calls
  BY <1>1 DEF Calls
<1>3. calls' = [calls EXCEPT ![c] = [calls[c] EXCEPT !.phase = phase]]
  BY <1>1 DEF SetPhase, TypeOK, Calls
<1> QED BY <1>2, <1>3 DEF TypeOK

\* A call that does not move keeps its invariant when nobody takes its lock,
\* changes the password of its space or opens a session there.
LEMMA OtherCall ==
    ASSUME TypeOK, NEW d \in Callers, CallInv(d), calls'[d] = calls[d],
           \A t \in Spaces : Known(t) => files'[t] # None,
           \A t \in Spaces : spaceLock[t] = d /\ Known(t) =>
             spaceLock'[t] = d /\ FileKept(t) /\ SessionKept(t)
    PROVE  CallInv(d)'
<1>1. Holding(d)' <=> Holding(d)
  BY DEF Holding
<1>2. ASSUME Holding(d) PROVE
         /\ spaceLock'[calls[d].space] = d
         /\ Known(calls[d].space)'
         /\ files'[calls[d].space].vault.pw = files[calls[d].space].vault.pw
         /\ sessions[calls[d].space] = None => sessions'[calls[d].space] = None
  BY <1>2 DEF CallInv, FileKept, SessionKept, Known
<1>3. calls[d].space \in Spaces /\ Known(calls[d].space) => Known(calls[d].space)'
  BY DEF Known
<1> QED BY <1>1, <1>2, <1>3 DEF CallInv

\* A step that opens no session and changes no password keeps the session
\* keys right.
LEMMA KeyStillOpens ==
    ASSUME SessionKeyOpensVault, \A t \in Spaces : FileKept(t) /\ SessionKept(t)
    PROVE  SessionKeyOpensVault'
BY DEF SessionKeyOpensVault, FileKept, SessionKept, Known

\* The sweep opens no session and changes no session key.
LEMMA ExpiredKeeps ==
    ASSUME TypeOK, sessions' = Expired
    PROVE  sessions' \in [Spaces -> Sessions \cup {None}] /\ \A t \in Spaces : SessionKept(t)
BY SessionHelpers DEF SessionKept

\* A step that rewrites one live session and keeps its password.
LEMMA OneSession ==
    ASSUME TypeOK, NEW s \in Spaces, Expired[s] # None,
           NEW new \in Sessions, new.pw = sessions[s].pw,
           sessions' = [Expired EXCEPT ![s] = new]
    PROVE  sessions' \in [Spaces -> Sessions \cup {None}] /\ \A t \in Spaces : SessionKept(t)
<1>1. sessions' \in [Spaces -> Sessions \cup {None}]
  BY SessionHelpers
<1>2. ASSUME NEW t \in Spaces PROVE SessionKept(t)
  BY SessionHelpers DEF SessionKept
<1> QED BY <1>1, <1>2

\* Neither does the refresh of the idle timer,
LEMMA TouchedKeeps ==
    ASSUME TypeOK, NEW s \in Spaces, Unlocked(s), sessions' = Touched(s)
    PROVE  sessions' \in [Spaces -> Sessions \cup {None}] /\ \A t \in Spaces : SessionKept(t)
<1> DEFINE new == [sessions[s] EXCEPT !.lastUsed = clock]
<1>1. Expired[s] # None /\ sessions[s] \in Sessions
  BY SessionHelpers DEF Unlocked
<1>2. new \in Sessions /\ new.pw = sessions[s].pw
  BY <1>1 DEF TypeOK, Sessions
<1>3. sessions' = [Expired EXCEPT ![s] = new]
  BY DEF Touched
<1> HIDE DEF new
<1> QED BY <1>1, <1>2, <1>3, OneSession

\* nor an edit of the payload's keys.
LEMMA EditedKeeps ==
    ASSUME TypeOK, NEW s \in Spaces, Unlocked(s), NEW keys \in SUBSET KeyRefs,
           sessions' = Edited(s, keys)
    PROVE  sessions' \in [Spaces -> Sessions \cup {None}] /\ \A t \in Spaces : SessionKept(t)
<1> DEFINE new == [sessions[s] EXCEPT !.lastUsed = clock, !.keys = keys]
<1>1. Expired[s] # None /\ sessions[s] \in Sessions
  BY SessionHelpers DEF Unlocked
<1>2. new \in Sessions /\ new.pw = sessions[s].pw
  BY <1>1 DEF TypeOK, Sessions
<1>3. sessions' = [Expired EXCEPT ![s] = new]
  BY DEF Edited
<1> HIDE DEF new
<1> QED BY <1>1, <1>2, <1>3, OneSession

\* What Save does to the files, in memory and on disk.
LEMMA SaveEffect ==
    ASSUME TypeOK, NEW s \in Spaces, NEW f \in Files, NEW outcome \in Outcomes, Save(s, f, outcome)
    PROVE  /\ files' \in [Spaces -> Files \cup {None}] /\ disk' \in [Spaces -> Files \cup {None}]
           /\ \A t \in Spaces : t # s => files'[t] = files[t] /\ disk'[t] = disk[t]
           /\ files'[s] = IF outcome = "ok" THEN f ELSE files[s]
           /\ disk'[s] = IF outcome = "failed" THEN disk[s] ELSE f
           /\ \A t \in Spaces : Known(t) => files'[t] # None
BY SpaceAssumption DEF Save, TypeOK, Known

\* A file resealed under the key of its session opens with the same password.
LEMMA ResealedKeeps ==
    ASSUME IInv, NEW s \in Spaces, Unlocked(s),
           NEW accounts \in SUBSET KeyRefs, NEW keys \in SUBSET KeyRefs, NEW outcome \in Outcomes,
           Save(s, Resealed(s, accounts, keys), outcome)
    PROVE  /\ Resealed(s, accounts, keys) \in Files
           /\ \A t \in Spaces : FileKept(t)
<1>1. Resealed(s, accounts, keys) \in Files
  BY SessionHelpers DEF IInv, Resealed, Files, Vaults, Sessions
<1>2. sessions[s] # None
  BY SessionHelpers, SpaceAssumption DEF IInv
<1>3. Resealed(s, accounts, keys).vault.pw = files[s].vault.pw
  BY <1>2 DEF IInv, Resealed, SessionKeyOpensVault
<1> QED BY <1>1, <1>3, SaveEffect, SpaceAssumption DEF IInv, FileKept

-----------------------------------------------------------------------------
\* Every step keeps the inductive invariant; one case per action.
LEMMA NextIInv == IInv /\ [Next]_vars => IInv'
<1> SUFFICES ASSUME IInv, [Next]_vars PROVE IInv'
  OBVIOUS
<1> USE SpaceAssumption DEF IInv
<1>1. ASSUME NEW c \in Callers, StartCall(c) PROVE IInv'
  <2>1. TypeOK'
    <3>1. calls' \in [Callers -> Calls]
      <4>1. PICK op \in Ops \cap PasswordOps, s \in KnownSpaces, p \in Passwords :
               \E q \in (IF op = "change" THEN Passwords ELSE {None}),
                  r \in (IF op = "delete" THEN files[s].accounts ELSE {None}) :
                 calls' = [calls EXCEPT ![c] = [NoCall EXCEPT !.phase = "locking", !.op = op,
                             !.space = s, !.pw = p, !.newPw = q, !.ref = r]]
        BY <1>1, ZenonT(30) DEF StartCall
      <4>2. files[s].accounts \subseteq KeyRefs
        BY DEF KnownSpaces, Known, TypeOK, Files
      <4>3. PICK q \in Passwords \cup {None}, r \in KeyRefs \cup {None} :
               calls' = [calls EXCEPT ![c] = [NoCall EXCEPT !.phase = "locking", !.op = op,
                             !.space = s, !.pw = p, !.newPw = q, !.ref = r]]
        BY <4>1, <4>2
      <4>4. [NoCall EXCEPT !.phase = "locking", !.op = op,
                           !.space = s, !.pw = p, !.newPw = q, !.ref = r] \in Calls
        BY DEF NoCall, Calls, Phases, AllOps, KnownSpaces
      <4> QED BY <4>3, <4>4 DEF TypeOK
    <3> QED
      BY <1>1, <3>1 DEF TypeOK, durable, throttle, locks, settings, StartCall
  <2>2. \A t \in Spaces : FileKept(t) /\ SessionKept(t)
    BY <1>1 DEF FileKept, SessionKept, Known, durable, StartCall
  <2>3. CallInv(c)'
    BY <1>1, <2>1, <2>2, SMTT(120)
       DEF StartCall, TypeOK, CallInv, Holding, Known, NoCall, Calls, Phases,
       AllOps, KnownSpaces, durable
  <2>4. ASSUME NEW d \in Callers, d # c PROVE CallInv(d)'
    <3>1. calls'[d] = calls[d] /\ \A t \in Spaces : spaceLock[t] = d => spaceLock'[t] = d
      BY <1>1, <2>4 DEF TypeOK, CallInv, Holding, locks, StartCall
    <3> QED BY <3>1, <2>2, OtherCall DEF FileKept
  <2>5. SessionKeyOpensVault'
    BY <2>2, KeyStillOpens
  <2> QED BY <2>1, <2>3, <2>4, <2>5
<1>2. ASSUME NEW c \in Callers, StartCreate(c) PROVE IInv'
  <2>1. TypeOK'
    <3>1. calls' \in [Callers -> Calls]
      <4>1. PICK op \in Ops \cap Creations, p \in Passwords :
               calls' = [calls EXCEPT ![c] = [NoCall EXCEPT !.phase = "waitSeal", !.op = op,
                                                            !.newPw = p, !.since = clock]]
        BY <1>2 DEF StartCreate
      <4>2. [NoCall EXCEPT !.phase = "waitSeal", !.op = op, !.newPw = p, !.since = clock] \in Calls
        BY DEF NoCall, Calls, Phases, AllOps, TypeOK
      <4> QED BY <4>1, <4>2 DEF TypeOK
    <3> QED
      BY <1>2, <3>1 DEF TypeOK, durable, throttle, locks, settings, StartCreate
  <2>2. \A t \in Spaces : FileKept(t) /\ SessionKept(t)
    BY <1>2 DEF FileKept, SessionKept, Known, durable, StartCreate
  <2>3. CallInv(c)'
    BY <1>2, <2>1, <2>2, SMTT(120)
       DEF StartCreate, TypeOK, CallInv, Holding, Known, NoCall, Calls, Phases,
       AllOps, durable
  <2>4. ASSUME NEW d \in Callers, d # c PROVE CallInv(d)'
    <3>1. calls'[d] = calls[d] /\ \A t \in Spaces : spaceLock[t] = d => spaceLock'[t] = d
      BY <1>2, <2>4 DEF TypeOK, CallInv, Holding, locks, StartCreate
    <3> QED BY <3>1, <2>2, OtherCall DEF FileKept
  <2>5. SessionKeyOpensVault'
    BY <2>2, KeyStillOpens
  <2> QED BY <2>1, <2>3, <2>4, <2>5
<1>3. ASSUME NEW c \in Callers, RequireSendConfirmation(c) PROVE IInv'
  <2>1. TypeOK'
    <3>1. calls' \in [Callers -> Calls]
      <4>1. PICK s \in Spaces, r \in KeyRefs :
               calls' \in {calls, [calls EXCEPT ![c] =
                 [NoCall EXCEPT !.phase = "gated", !.op = "send", !.space = s, !.ref = r]]}
        BY <1>3 DEF RequireSendConfirmation, TypeOK, KnownSpaces, Known, Files
      <4>2. [NoCall EXCEPT !.phase = "gated", !.op = "send", !.space = s, !.ref = r] \in Calls
        BY DEF NoCall, Calls, Phases, AllOps
      <4> QED BY <4>1, <4>2 DEF TypeOK
    <3> QED
      BY <1>3, <3>1, SessionHelpers DEF TypeOK, durable, throttle, locks, settings,
         RequireSendConfirmation
  <2>2. \A t \in Spaces : FileKept(t) /\ SessionKept(t)
    BY <1>3, ExpiredKeeps DEF FileKept, SessionKept, Known, durable, RequireSendConfirmation
  <2>3. CallInv(c)'
    BY <1>3, <2>1, <2>2, SMTT(120)
       DEF RequireSendConfirmation, TypeOK, CallInv, Holding, Known, NoCall,
       Calls, Phases, AllOps, KnownSpaces, durable, locks
  <2>4. ASSUME NEW d \in Callers, d # c PROVE CallInv(d)'
    <3>1. calls'[d] = calls[d] /\ \A t \in Spaces : spaceLock[t] = d => spaceLock'[t] = d
      BY <1>3, <2>4 DEF TypeOK, CallInv, Holding, locks, RequireSendConfirmation
    <3> QED BY <3>1, <2>2, OtherCall DEF FileKept
  <2>5. SessionKeyOpensVault'
    BY <2>2, KeyStillOpens
  <2> QED BY <2>1, <2>3, <2>4, <2>5
<1>4. ASSUME NEW c \in Callers, LockSpace(c) PROVE IInv'
  <2>1. TypeOK'
    <3>1. calls' \in [Callers -> Calls]
      <4>0. calls[c] \in Calls /\ files[calls[c].space] \in Files \cup {None}
        BY <1>4 DEF LockSpace, TypeOK, CallInv
      <4>1. CASE Return(c)
        BY <4>1, NoCallType DEF Return, TypeOK
      <4>2. CASE ~Return(c)
        <5> DEFINE passed(b) == [calls[c] EXCEPT !.phase = "waitOpen", !.snap = files[calls[c].space],
                                                 !.unread = b]
        <5>1. PICK b \in BOOLEAN : calls' = [calls EXCEPT ![c] = passed(b)]
          BY <1>4, <4>0, <4>2 DEF LockSpace, TypeOK, Calls
        <5>2. passed(b) \in Calls
          BY <4>0 DEF Calls, Phases
        <5> QED BY <5>1, <5>2 DEF TypeOK
      <4> QED BY <4>1, <4>2
    <3> QED
      BY <1>4, <3>1 DEF TypeOK, durable, throttle, locks, settings, LockSpace, CallInv
  <2>2. \A t \in Spaces : FileKept(t) /\ SessionKept(t)
    BY <1>4 DEF FileKept, SessionKept, Known, durable, LockSpace
  <2>3. CallInv(c)'
    <3>1. CASE Return(c)
      BY <3>1, IdleCall DEF Return, TypeOK
    <3>2. CASE ~Return(c)
      <4>1. /\ calls[c] \in Calls /\ calls[c].phase = "locking" /\ CallInv(c)
            /\ calls[c].space \in Spaces /\ UNCHANGED files
            /\ spaceLock' = [spaceLock EXCEPT ![calls[c].space] = c]
            /\ \E b \in BOOLEAN :
                 calls' = [calls EXCEPT ![c].phase = "waitOpen", ![c].snap = files[calls[c].space],
                                        ![c].unread = b]
        BY <1>4, <3>2 DEF LockSpace, TypeOK, CallInv, durable
      <4>2. /\ calls'[c].phase = "waitOpen" /\ calls'[c].snap = files[calls[c].space]
            /\ calls'[c].op = calls[c].op /\ calls'[c].space = calls[c].space
            /\ calls'[c].pw = calls[c].pw /\ calls'[c].newPw = calls[c].newPw
        BY <4>1 DEF TypeOK, Calls
      <4>3. Known(calls[c].space) /\ files[calls[c].space] \in Files
            /\ spaceLock'[calls[c].space] = c
        BY <4>1 DEF CallInv, TypeOK, Known
      <4> QED BY <4>1, <4>2, <4>3 DEF CallInv, Holding, Known
    <3> QED BY <3>1, <3>2
  <2>4. ASSUME NEW d \in Callers, d # c PROVE CallInv(d)'
    <3>1. calls'[d] = calls[d] /\ \A t \in Spaces : spaceLock[t] = d => spaceLock'[t] = d
      BY <1>4, <2>4 DEF TypeOK, CallInv, Holding, locks, LockSpace, Return, LockFree
    <3> QED BY <3>1, <2>2, OtherCall DEF FileKept
  <2>5. SessionKeyOpensVault'
    BY <2>2, KeyStillOpens
  <2> QED BY <2>1, <2>3, <2>4, <2>5
<1>5. ASSUME NEW c \in Callers, AcquireKDF(c) PROVE IInv'
  <2>1. TypeOK'
    <3>1. calls' \in [Callers -> Calls]
      <4>1. Deriving[calls[c].phase] \in Phases
        BY <1>5 DEF AcquireKDF, Deriving, Phases
      <4> QED BY <1>5, <4>1, PhaseStep DEF AcquireKDF
    <3> QED
      BY <1>5, <3>1 DEF TypeOK, durable, throttle, locks, settings, AcquireKDF, SlotFree
  <2>2. \A t \in Spaces : FileKept(t) /\ SessionKept(t)
    BY <1>5 DEF FileKept, SessionKept, Known, durable, AcquireKDF
  <2>3. CallInv(c)'
    BY <1>5, <2>1, <2>2, SMTT(120)
       DEF AcquireKDF, TypeOK, CallInv, Holding, Known, NoCall, Calls, Phases,
       AllOps, SetPhase, Deriving, durable, throttle
  <2>4. ASSUME NEW d \in Callers, d # c PROVE CallInv(d)'
    <3>1. calls'[d] = calls[d] /\ \A t \in Spaces : spaceLock[t] = d => spaceLock'[t] = d
      BY <1>5, <2>4 DEF TypeOK, CallInv, Holding, locks, AcquireKDF, SetPhase
    <3> QED BY <3>1, <2>2, OtherCall DEF FileKept
  <2>5. SessionKeyOpensVault'
    BY <2>2, KeyStillOpens
  <2> QED BY <2>1, <2>3, <2>4, <2>5
<1>6. ASSUME NEW c \in Callers, OpenWrong(c) PROVE IInv'
  <2>0. calls[c].space \in Spaces
    BY <1>6 DEF OpenWrong, CallInv, Holding
  <2>1. TypeOK'
    <3>1. attempts' \in [Spaces -> AttemptRecords] /\ lossy' \in [Spaces -> BOOLEAN]
      <4> DEFINE s == calls[c].space
      <4>1. attempts[s] \in AttemptRecords /\ clock \in Nat
        BY <2>0 DEF TypeOK
      <4>2. PICK seen \in readAttempts(attempts[s], clock) :
               \E record \in FailureRecords(seen, clock) :
                 \E left \in writeAttempts(attempts[s], record) :
                   /\ attempts' = [attempts EXCEPT ![s] = left]
                   /\ \E b \in BOOLEAN : lossy' = [lossy EXCEPT ![s] = b]
        BY <1>6 DEF OpenWrong
      <4>3. PICK record \in FailureRecords(seen, clock) :
               \E left \in writeAttempts(attempts[s], record) :
                 /\ attempts' = [attempts EXCEPT ![s] = left]
                 /\ \E b \in BOOLEAN : lossy' = [lossy EXCEPT ![s] = b]
        BY <4>2
      <4>4. PICK left \in writeAttempts(attempts[s], record) :
               /\ attempts' = [attempts EXCEPT ![s] = left]
               /\ \E b \in BOOLEAN : lossy' = [lossy EXCEPT ![s] = b]
        BY <4>3
      <4>5. left \in AttemptRecords
        BY <4>1, <4>2, <4>3, <4>4, ReadWriteType, FailureRecordsType
      <4> QED BY <4>4, <4>5 DEF TypeOK
    <3> QED BY <1>6, <2>0, <3>1, NoCallType DEF TypeOK, durable, throttle, locks, settings,
       OpenWrong, Release, Return
  <2>2. \A t \in Spaces : FileKept(t) /\ SessionKept(t)
    BY <1>6 DEF FileKept, SessionKept, Known, durable, OpenWrong
  <2>3. CallInv(c)'
    BY <1>6, <2>1, <2>2, IdleCall DEF OpenWrong, Return, TypeOK
  <2>4. ASSUME NEW d \in Callers, d # c PROVE CallInv(d)'
    <3>1. calls'[d] = calls[d] /\ \A t \in Spaces : spaceLock[t] = d => spaceLock'[t] = d
      BY <1>6, <2>4 DEF TypeOK, CallInv, Holding, locks, OpenWrong, Release, Return
    <3> QED BY <3>1, <2>2, OtherCall DEF FileKept
  <2>5. SessionKeyOpensVault'
    BY <2>2, KeyStillOpens
  <2> QED BY <2>1, <2>3, <2>4, <2>5
<1>7. ASSUME NEW c \in Callers, OpenDamaged(c) PROVE IInv'
  <2>1. TypeOK'
    BY <1>7, NoCallType DEF TypeOK, durable, throttle, locks, settings, OpenDamaged, Release,
       Return, CallInv, Holding
  <2>2. \A t \in Spaces : FileKept(t) /\ SessionKept(t)
    BY <1>7 DEF FileKept, SessionKept, Known, durable, OpenDamaged
  <2>3. CallInv(c)'
    BY <1>7, <2>1, <2>2, IdleCall DEF OpenDamaged, Return, TypeOK
  <2>4. ASSUME NEW d \in Callers, d # c PROVE CallInv(d)'
    <3>1. calls'[d] = calls[d] /\ \A t \in Spaces : spaceLock[t] = d => spaceLock'[t] = d
      BY <1>7, <2>4 DEF TypeOK, CallInv, Holding, locks, OpenDamaged, Release, Return
    <3> QED BY <3>1, <2>2, OtherCall DEF FileKept
  <2>5. SessionKeyOpensVault'
    BY <2>2, KeyStillOpens
  <2> QED BY <2>1, <2>3, <2>4, <2>5
<1>8. ASSUME NEW c \in Callers, OpenRight(c) PROVE IInv'
  <2>1. TypeOK'
    <3>1. calls' \in [Callers -> Calls]
      <4> DEFINE next == IF calls[c].op = "change" THEN "waitSeal" ELSE "apply"
      <4>1. calls' = [calls EXCEPT ![c].phase = next]
        BY <1>8 DEF OpenRight, SetPhase
      <4>2. next \in Phases
        BY DEF Phases
      <4> HIDE DEF next
      <4> QED BY <4>1, <4>2 DEF TypeOK, Calls
    <3> QED
      <4>1. calls[c].space \in Spaces
        BY <1>8 DEF OpenRight, CallInv, Holding
      <4>2. attempts' \in [Spaces -> AttemptRecords] /\ lossy' \in [Spaces -> BOOLEAN]
        <5> DEFINE s == calls[c].space
        <5>1. PICK left \in writeAttempts(attempts[s], NoAttempts) :
                 /\ attempts' = [attempts EXCEPT ![s] = left]
                 /\ lossy' = [lossy EXCEPT ![s] = (left # NoAttempts)]
          BY <1>8 DEF OpenRight
        <5>2. left \in AttemptRecords
          BY <4>1, <5>1, ReadWriteType, NoAttemptsType DEF TypeOK
        <5> QED BY <5>1, <5>2 DEF TypeOK
      <4> QED BY <1>8, <3>1, <4>1, <4>2 DEF TypeOK, durable, locks, settings, OpenRight
  <2>2. \A t \in Spaces : FileKept(t) /\ SessionKept(t)
    BY <1>8 DEF FileKept, SessionKept, Known, durable, OpenRight
  <2>3. CallInv(c)'
    BY <1>8, <2>1, <2>2, SMTT(120)
       DEF OpenRight, TypeOK, CallInv, Holding, Known, NoCall, Calls, Phases,
       AllOps, SetPhase, durable
  <2>4. ASSUME NEW d \in Callers, d # c PROVE CallInv(d)'
    <3>1. calls'[d] = calls[d] /\ \A t \in Spaces : spaceLock[t] = d => spaceLock'[t] = d
      BY <1>8, <2>4 DEF TypeOK, CallInv, Holding, locks, OpenRight, SetPhase
    <3> QED BY <3>1, <2>2, OtherCall DEF FileKept
  <2>5. SessionKeyOpensVault'
    BY <2>2, KeyStillOpens
  <2> QED BY <2>1, <2>3, <2>4, <2>5
<1>9. ASSUME NEW c \in Callers, Seal(c) PROVE IInv'
  <2>0. calls[c] \in Calls /\ calls[c].phase = "seal" /\ calls[c].op \in Creations \cup {"change"}
    BY <1>9 DEF Seal, TypeOK, CallInv
  <2> DEFINE call == calls[c]
             keys == IF call.op \in Creations THEN {} ELSE call.snap.vault.keys
             more == call.op \in Creations \/ sessions[call.space] # None
             sealed == [pw |-> call.newPw, keys |-> keys]
             next == IF more THEN "waitRekey" ELSE "apply"
  <2>1. sealed \in Vaults /\ sealed.pw = call.newPw
    BY <1>9, <2>0 DEF Seal, CallInv, Holding, Vaults, Files
  <2>2. calls' = [calls EXCEPT ![c] = [call EXCEPT !.sealed = sealed, !.phase = next]]
    BY <1>9, <2>0 DEF Seal, TypeOK, Calls
  <2> HIDE DEF sealed, keys
  <2>3. [call EXCEPT !.sealed = sealed, !.phase = next] \in Calls
    <3>1. next \in Phases /\ sealed \in Vaults \cup {None}
      BY <2>1 DEF Phases
    <3> HIDE DEF next
    <3> QED BY <2>0, <3>1 DEF Calls
  <2>4. TypeOK'
    <3>1. calls' \in [Callers -> Calls]
      BY <2>2, <2>3 DEF TypeOK
    <3> QED BY <1>9, <3>1 DEF TypeOK, durable, throttle, locks, settings, Seal
  <2>5. \A t \in Spaces : FileKept(t) /\ SessionKept(t)
    BY <1>9 DEF FileKept, SessionKept, Known, durable, Seal
  <2>6. CallInv(c)'
    <3>1. /\ calls'[c].op = call.op /\ calls'[c].space = call.space /\ calls'[c].pw = call.pw
          /\ calls'[c].newPw = call.newPw /\ calls'[c].snap = call.snap
          /\ calls'[c].sealed = sealed /\ calls'[c].phase = next
      BY <2>0, <2>2 DEF TypeOK, Calls
    <3>2. UNCHANGED <<files, spaceLock, sessions>>
      BY <1>9 DEF Seal, durable
    <3>3. CallInv(c)
      OBVIOUS
    <3> QED BY <2>0, <2>1, <3>1, <3>2, <3>3 DEF CallInv, Holding, Known
  <2>7. ASSUME NEW d \in Callers, d # c PROVE CallInv(d)'
    <3>1. calls'[d] = calls[d] /\ spaceLock' = spaceLock
      BY <1>9, <2>2, <2>7 DEF TypeOK, Seal
    <3> QED BY <3>1, <2>5, OtherCall DEF FileKept
  <2>8. SessionKeyOpensVault'
    BY <2>5, KeyStillOpens
  <2> QED BY <2>4, <2>6, <2>7, <2>8
<1>10. ASSUME NEW c \in Callers, Rekey(c) PROVE IInv'
  <2>1. TypeOK'
    <3>1. calls' \in [Callers -> Calls]
      <4>1. calls' = [calls EXCEPT ![c] = [calls[c] EXCEPT !.phase = "apply", !.rekeyed = TRUE]]
        BY <1>10 DEF Rekey, TypeOK, Calls
      <4>2. [calls[c] EXCEPT !.phase = "apply", !.rekeyed = TRUE] \in Calls
        <5>1. calls[c] \in Calls
          BY DEF TypeOK
        <5> QED BY <5>1 DEF Calls, Phases
      <4> QED BY <4>1, <4>2 DEF TypeOK
    <3> QED
      BY <1>10, <3>1 DEF TypeOK, durable, throttle, locks, settings, Rekey
  <2>2. \A t \in Spaces : FileKept(t) /\ SessionKept(t)
    BY <1>10 DEF FileKept, SessionKept, Known, durable, Rekey
  <2>3. CallInv(c)'
    BY <1>10, <2>1, <2>2 DEF Rekey, TypeOK, CallInv, Holding, Known, NoCall, Calls, Phases,
       AllOps, durable
  <2>4. ASSUME NEW d \in Callers, d # c PROVE CallInv(d)'
    <3>1. calls'[d] = calls[d] /\ \A t \in Spaces : spaceLock[t] = d => spaceLock'[t] = d
      BY <1>10, <2>4 DEF TypeOK, CallInv, Holding, locks, Rekey
    <3> QED BY <3>1, <2>2, OtherCall DEF FileKept
  <2>5. SessionKeyOpensVault'
    BY <2>2, KeyStillOpens
  <2> QED BY <2>1, <2>3, <2>4, <2>5
<1>11. ASSUME NEW c \in Callers, Backup(c) PROVE IInv'
  <2>1. TypeOK'
    BY <1>11, NoCallType DEF TypeOK, durable, throttle, locks, settings, Backup, Release, Return
  <2>2. \A t \in Spaces : FileKept(t) /\ SessionKept(t)
    BY <1>11 DEF FileKept, SessionKept, Known, durable, Backup
  <2>3. CallInv(c)'
    BY <1>11, <2>1, <2>2, IdleCall DEF Backup, Return, TypeOK
  <2>4. ASSUME NEW d \in Callers, d # c PROVE CallInv(d)'
    <3>1. calls'[d] = calls[d] /\ \A t \in Spaces : spaceLock[t] = d => spaceLock'[t] = d
      BY <1>11, <2>4 DEF TypeOK, CallInv, Holding, locks, Backup, At, Release, Return
    <3> QED BY <3>1, <2>2, OtherCall DEF FileKept
  <2>5. SessionKeyOpensVault'
    BY <2>2, KeyStillOpens
  <2> QED BY <2>1, <2>3, <2>4, <2>5
<1>12. ASSUME NEW c \in Callers, ConfirmSend(c) PROVE IInv'
  <2>0. Holding(c) /\ calls[c].space \in Spaces
    BY <1>12 DEF ConfirmSend, At, Holding, CallInv
  <2>1. sessions' \in [Spaces -> Sessions \cup {None}] /\ \A t \in Spaces : SessionKept(t)
    <3> DEFINE s == calls[c].space
               new == [sessions[s] EXCEPT !.lastUsed = clock, !.grant = clock + grantTTL]
    <3>1. CASE Expired[s] # None /\ sessions' = [Expired EXCEPT ![s] = new]
      <4>1. new \in Sessions /\ new.pw = sessions[s].pw
        <5>1. clock \in Nat /\ clock + grantTTL \in Nat /\ sessions[s] \in Sessions
          BY <2>0, <3>1, SessionHelpers DEF TypeOK
        <5> QED BY <5>1 DEF Sessions
      <4> HIDE DEF new
      <4> QED BY <2>0, <3>1, <4>1, OneSession
    <3>2. CASE sessions' = Expired
      BY <3>2, ExpiredKeeps
    <3>3. CASE sessions' = sessions
      BY <3>3 DEF SessionKept, TypeOK
    <3> QED BY <1>12, <3>1, <3>2, <3>3 DEF ConfirmSend
  <2>2. \A t \in Spaces : FileKept(t)
    BY <1>12 DEF ConfirmSend, durable, FileKept, Known
  <2>3. confirmed' \in [Spaces -> Confirmations \cup {None}]
    BY <1>12, <2>0 DEF Confirmations, ConfirmSend, TypeOK, CallInv
  <2>4. TypeOK'
    BY <1>12, <2>0, <2>1, <2>3, NoCallType DEF TypeOK, durable, throttle, locks, settings,
       ConfirmSend,
       Release, Return
  <2>5. CallInv(c)'
    BY <1>12, <2>4, IdleCall DEF ConfirmSend, Return, TypeOK
  <2>6. ASSUME NEW d \in Callers, d # c PROVE CallInv(d)'
    <3>1. calls'[d] = calls[d] /\ \A t \in Spaces : spaceLock[t] = d => spaceLock'[t] = d
      BY <1>12, <2>0, <2>6 DEF TypeOK, CallInv, ConfirmSend, Release, Return
    <3> QED BY <3>1, <2>1, <2>2, OtherCall DEF FileKept
  <2>7. SessionKeyOpensVault'
    BY <2>1, <2>2, KeyStillOpens
  <2> QED BY <2>4, <2>5, <2>6, <2>7
<1>13. ASSUME NEW c \in Callers, Reveal(c) PROVE IInv'
  <2>1. TypeOK'
    BY <1>13, NoCallType, ExpiredKeeps, TouchedKeeps DEF TypeOK, durable, throttle, locks,
       settings, Reveal, Release, Return, CallInv, Holding, At
  <2>2. \A t \in Spaces : FileKept(t) /\ SessionKept(t)
    BY <1>13, ExpiredKeeps, TouchedKeeps DEF FileKept, SessionKept, Known, durable, Reveal,
       CallInv, Holding, At
  <2>3. CallInv(c)'
    BY <1>13, <2>1, <2>2, IdleCall DEF Reveal, Return, TypeOK
  <2>4. ASSUME NEW d \in Callers, d # c PROVE CallInv(d)'
    <3>1. calls'[d] = calls[d] /\ \A t \in Spaces : spaceLock[t] = d => spaceLock'[t] = d
      BY <1>13, <2>4 DEF TypeOK, CallInv, Holding, locks, Reveal, At, Release, Return
    <3> QED BY <3>1, <2>2, OtherCall DEF FileKept
  <2>5. SessionKeyOpensVault'
    BY <2>2, KeyStillOpens
  <2> QED BY <2>1, <2>3, <2>4, <2>5
<1>14. ASSUME NEW c \in Callers, WithKey(c) PROVE IInv'
  <2>1. TypeOK'
    <3>1. calls' \in [Callers -> Calls]
      <4>1. CASE SetPhase(c, "lent")
        BY <4>1, PhaseStep DEF Phases
      <4>2. CASE Return(c)
        BY <4>2, NoCallType DEF Return, TypeOK
      <4> QED BY <1>14, <4>1, <4>2 DEF WithKey
    <3> QED
      BY <1>14, <3>1, ExpiredKeeps, TouchedKeeps DEF TypeOK, durable, throttle, locks, settings,
         WithKey, CallInv
  <2>2. \A t \in Spaces : FileKept(t) /\ SessionKept(t)
    BY <1>14, ExpiredKeeps, TouchedKeeps DEF FileKept, SessionKept, Known, durable, WithKey, CallInv
  <2>3. CallInv(c)'
    BY <1>14, <2>1, <2>2 DEF WithKey, TypeOK, CallInv, Holding, Known, NoCall, Calls, Phases,
       AllOps, SetPhase, Return, durable
  <2>4. ASSUME NEW d \in Callers, d # c PROVE CallInv(d)'
    <3>1. calls'[d] = calls[d] /\ \A t \in Spaces : spaceLock[t] = d => spaceLock'[t] = d
      BY <1>14, <2>4 DEF TypeOK, CallInv, Holding, locks, WithKey, SetPhase, Return
    <3> QED BY <3>1, <2>2, OtherCall DEF FileKept
  <2>5. SessionKeyOpensVault'
    BY <2>2, KeyStillOpens
  <2> QED BY <2>1, <2>3, <2>4, <2>5
<1>15. ASSUME NEW c \in Callers, KeyCleared(c) PROVE IInv'
  <2>1. TypeOK'
    BY <1>15, NoCallType DEF TypeOK, durable, throttle, locks, settings, KeyCleared, Return
  <2>2. \A t \in Spaces : FileKept(t) /\ SessionKept(t)
    BY <1>15 DEF FileKept, SessionKept, Known, durable, KeyCleared
  <2>3. CallInv(c)'
    BY <1>15, <2>1, <2>2, IdleCall DEF KeyCleared, Return, TypeOK
  <2>4. ASSUME NEW d \in Callers, d # c PROVE CallInv(d)'
    <3>1. calls'[d] = calls[d] /\ \A t \in Spaces : spaceLock[t] = d => spaceLock'[t] = d
      BY <1>15, <2>4 DEF TypeOK, CallInv, Holding, locks, KeyCleared, Return
    <3> QED BY <3>1, <2>2, OtherCall DEF FileKept
  <2>5. SessionKeyOpensVault'
    BY <2>2, KeyStillOpens
  <2> QED BY <2>1, <2>3, <2>4, <2>5
<1>16. ASSUME NEW c \in Callers, Unlock(c) PROVE IInv'
  <2> DEFINE s == calls[c].space
             new == Replaced(s, calls[c].pw, calls[c].snap.vault.keys)
  <2>0. Holding(c) /\ s \in Spaces /\ Known(s) /\ CallInv(c)
    BY <1>16 DEF Unlock, At, Holding, CallInv
  <2>1. new \in Sessions /\ new.pw = files[s].vault.pw
    BY <1>16, <2>0 DEF Unlock, At, CallInv, Replaced, FreshSession, Sessions, Files, Vaults, TypeOK
  <2>2. sessions' = [sessions EXCEPT ![s] = new] /\ UNCHANGED files
    BY <1>16 DEF Unlock, durable
  <2> HIDE DEF new
  <2>3. TypeOK'
    BY <1>16, <2>0, <2>1, <2>2, NoCallType DEF TypeOK, durable, throttle, locks, settings, Unlock,
       Release, Return
  <2>4. CallInv(c)'
    BY <1>16, IdleCall DEF Unlock, Return, TypeOK
  <2>7. ASSUME NEW d \in Callers, d # c PROVE CallInv(d)'
    <3>1. calls'[d] = calls[d] /\ \A t \in Spaces : spaceLock[t] = d =>
             spaceLock'[t] = d /\ t # calls[c].space
      BY <1>16, <2>0, <2>7 DEF TypeOK, CallInv, Unlock, Release, Return
    <3>2. \A t \in Spaces : FileKept(t) /\ (t # s => SessionKept(t))
      BY <2>2 DEF FileKept, SessionKept, Known, TypeOK
    <3> QED BY <3>1, <3>2, OtherCall DEF FileKept
  <2>8. SessionKeyOpensVault'
    BY <2>0, <2>1, <2>2 DEF SessionKeyOpensVault, Known, TypeOK
  <2> QED BY <2>3, <2>4, <2>7, <2>8
<1>17. ASSUME NEW c \in Callers, ChangePassword(c) PROVE IInv'
  <2> DEFINE s == calls[c].space
             file == [files[s] EXCEPT !.vault = calls[c].sealed]
             new == Replaced(s, calls[c].newPw, calls[c].sealed.keys)
  <2>0. Holding(c) /\ s \in Spaces /\ Known(s) /\ CallInv(c)
    BY <1>17 DEF ChangePassword, At, Holding, CallInv
  <2>1. /\ file \in Files /\ file.vault.pw = calls[c].newPw
        /\ new \in Sessions /\ new.pw = calls[c].newPw
    BY <1>17, <2>0 DEF ChangePassword, At, CallInv, Replaced, FreshSession, Sessions, Files,
       Vaults, TypeOK, Known
  <2>2. PICK outcome \in Outcomes :
           /\ Save(s, file, outcome)
           /\ sessions' = IF outcome = "ok" /\ SessionToReplace(c)
                          THEN [sessions EXCEPT ![s] = new] ELSE sessions
    BY <1>17 DEF ChangePassword
  <2> HIDE DEF new, file
  <2>3. /\ files' \in [Spaces -> Files \cup {None}] /\ disk' \in [Spaces -> Files \cup {None}]
        /\ \A t \in Spaces : t # s => files'[t] = files[t]
        /\ files'[s] = IF outcome = "ok" THEN file ELSE files[s]
        /\ \A t \in Spaces : Known(t) => files'[t] # None
    BY <2>0, <2>1, <2>2, SaveEffect
  <2>4. TypeOK'
    BY <1>17, <2>0, <2>1, <2>2, <2>3, NoCallType DEF TypeOK, throttle, locks, settings,
       ChangePassword, Release, Return
  <2>5. CallInv(c)'
    BY <1>17, IdleCall DEF ChangePassword, Return, TypeOK
  <2>7. ASSUME NEW d \in Callers, d # c PROVE CallInv(d)'
    <3>1. calls'[d] = calls[d] /\ \A t \in Spaces : spaceLock[t] = d =>
             spaceLock'[t] = d /\ t # calls[c].space
      BY <1>17, <2>0, <2>7 DEF TypeOK, CallInv, ChangePassword, Release, Return
    <3>2. \A t \in Spaces : t # s => FileKept(t) /\ SessionKept(t)
      BY <2>2, <2>3 DEF FileKept, SessionKept, Known, TypeOK
    <3> QED BY <3>1, <3>2, <2>3, OtherCall
  <2>8. SessionKeyOpensVault'
    <3>1. CASE outcome = "ok" /\ SessionToReplace(c)
      BY <2>0, <2>1, <2>2, <2>3, <3>1 DEF SessionKeyOpensVault, Known, TypeOK
    <3>2. CASE outcome = "ok" /\ ~SessionToReplace(c)
      <4>1. sessions[s] = None
        BY <1>17, <2>0, <3>2 DEF ChangePassword, At, SessionToReplace, CallInv
      <4> QED BY <4>1, <2>2, <2>3, <3>2 DEF SessionKeyOpensVault, Known
    <3>3. CASE outcome # "ok"
      BY <2>2, <2>3, <3>3 DEF SessionKeyOpensVault, Known
    <3> QED BY <3>1, <3>2, <3>3
  <2> QED BY <2>4, <2>5, <2>7, <2>8
<1>18. ASSUME NEW c \in Callers, DeleteAccount(c) PROVE IInv'
  <2> DEFINE s == calls[c].space
  <2>0. Holding(c) /\ s \in Spaces /\ Known(s) /\ CallInv(c)
    BY <1>18 DEF DeleteAccount, At, Holding, CallInv
  <2>1. /\ files' \in [Spaces -> Files \cup {None}] /\ disk' \in [Spaces -> Files \cup {None}]
        /\ sessions' \in [Spaces -> Sessions \cup {None}]
        /\ \A t \in Spaces : FileKept(t) /\ SessionKept(t)
    <3>1. CASE Unlocked(s) /\ calls[c].ref \in files[s].accounts
      <4> DEFINE r == calls[c].ref
                 keys == sessions[s].keys \ {r}
                 accounts == files[s].accounts \ {r}
      <4>1. keys \in SUBSET KeyRefs /\ accounts \in SUBSET KeyRefs /\ sessions[s].keys \in SUBSET KeyRefs
        <5>1. sessions[s] \in Sessions /\ files[s] \in Files
          BY <2>0, <3>1, SessionHelpers, ZenonT(30) DEF TypeOK, Known
        <5> QED BY <5>1 DEF Sessions, Files
      <4>2. PICK outcome \in Outcomes :
               /\ Save(s, Resealed(s, accounts, keys), outcome)
               /\ sessions' = Edited(s, KeysAfterWrite(s, keys, outcome))
        BY <1>18, <3>1 DEF DeleteAccount
      <4> HIDE DEF keys, accounts
      <4>3. KeysAfterWrite(s, keys, outcome) \in SUBSET KeyRefs
        BY <4>1 DEF KeysAfterWrite
      <4>4. Resealed(s, accounts, keys) \in Files /\ \A t \in Spaces : FileKept(t)
        BY <2>0, <3>1, <4>1, <4>2, ResealedKeeps
      <4>5. files' \in [Spaces -> Files \cup {None}] /\ disk' \in [Spaces -> Files \cup {None}]
        BY <2>0, <4>2, <4>4, SaveEffect
      <4>6. sessions' \in [Spaces -> Sessions \cup {None}] /\ \A t \in Spaces : SessionKept(t)
        BY <2>0, <3>1, <4>2, <4>3, EditedKeeps
      <4> QED BY <4>4, <4>5, <4>6
    <3>2. CASE ~(Unlocked(s) /\ calls[c].ref \in files[s].accounts)
      <4>1. UNCHANGED <<files, disk>> /\ sessions' = IF Unlocked(s) THEN Touched(s) ELSE Expired
        BY <1>18, <3>2 DEF DeleteAccount
      <4>2. sessions' \in [Spaces -> Sessions \cup {None}] /\ \A t \in Spaces : SessionKept(t)
        BY <2>0, <4>1, ExpiredKeeps, TouchedKeeps
      <4> QED BY <4>1, <4>2 DEF TypeOK, FileKept, Known
    <3> QED BY <3>1, <3>2
  <2>2. TypeOK'
    BY <1>18, <2>0, <2>1, NoCallType DEF TypeOK, throttle, locks, settings, DeleteAccount,
       Release, Return
  <2>3. CallInv(c)'
    BY <1>18, IdleCall DEF DeleteAccount, Return, TypeOK
  <2>7. ASSUME NEW d \in Callers, d # c PROVE CallInv(d)'
    <3>1. calls'[d] = calls[d] /\ \A t \in Spaces : spaceLock[t] = d =>
             spaceLock'[t] = d /\ t # calls[c].space
      BY <1>18, <2>0, <2>7 DEF TypeOK, CallInv, DeleteAccount, Release, Return
    <3> QED BY <3>1, <2>1, OtherCall DEF FileKept
  <2>8. SessionKeyOpensVault'
    BY <2>1, KeyStillOpens
  <2> QED BY <2>2, <2>3, <2>7, <2>8
<1>19. ASSUME NEW c \in Callers, Create(c) PROVE IInv'
  <2> DEFINE file == [accounts |-> {}, vault |-> calls[c].sealed]
             new == [FreshSession(file.vault.pw, {}) EXCEPT !.lastUsed = calls[c].since,
                                                           !.opened = clock]
  <2>0. CallInv(c) /\ calls[c].sealed \in Vaults /\ calls' = [calls EXCEPT ![c] = NoCall]
        /\ UNCHANGED spaceLock
    BY <1>19 DEF Create, CallInv, Return, locks
  <2>1. file \in Files /\ new \in Sessions /\ new.pw = file.vault.pw
    <3>1. calls[c].since \in Nat /\ clock \in Nat
      BY DEF TypeOK, Calls
    <3> QED BY <2>0, <3>1 DEF Files, Vaults, Sessions, FreshSession
  <2> HIDE DEF new, file
  <2> DEFINE Kept ==
             /\ files' \in [Spaces -> Files \cup {None}] /\ disk' \in [Spaces -> Files \cup {None}]
             /\ sessions' \in [Spaces -> Sessions \cup {None}]
             /\ \A t \in Spaces : FileKept(t)
             /\ \A t \in Spaces : Known(t) => SessionKept(t)
             /\ SessionKeyOpensVault'
  <2>2. Kept
    <3>1. CASE UNCHANGED <<files, disk, sessions>>
      BY <3>1, KeyStillOpens DEF TypeOK, FileKept, SessionKept, Known
    <3>2. ASSUME NEW s \in Spaces, NEW outcome \in Outcomes, files[s] = None, Save(s, file, outcome),
                 sessions' = IF outcome = "ok" THEN [sessions EXCEPT ![s] = new] ELSE sessions
          PROVE  Kept
      <4>1. /\ files' \in [Spaces -> Files \cup {None}] /\ disk' \in [Spaces -> Files \cup {None}]
            /\ \A t \in Spaces : t # s => files'[t] = files[t]
            /\ files'[s] = IF outcome = "ok" THEN file ELSE files[s]
        BY <2>1, <3>2, SaveEffect
      <4>2. sessions' \in [Spaces -> Sessions \cup {None}]
        BY <2>1, <3>2 DEF TypeOK
      <4>3. \A t \in Spaces : FileKept(t)
        BY <3>2, <4>1 DEF FileKept, Known
      <4>4. \A t \in Spaces : Known(t) => SessionKept(t)
        BY <3>2 DEF SessionKept, Known, TypeOK
      <4>5. SessionKeyOpensVault'
        BY <2>1, <3>2, <4>1 DEF SessionKeyOpensVault, Known, TypeOK
      <4> QED BY <4>1, <4>2, <4>3, <4>4, <4>5
    <3> QED BY <1>19, <3>1, <3>2 DEF Create, file, new
  <2>3. TypeOK'
    BY <1>19, <2>0, <2>2, NoCallType DEF TypeOK, throttle, locks, settings, Create
  <2>4. CallInv(c)'
    BY <2>0, IdleCall DEF TypeOK
  <2>5. ASSUME NEW d \in Callers, d # c PROVE CallInv(d)'
    <3>1. calls'[d] = calls[d]
      BY <2>0, <2>5 DEF TypeOK
    <3> QED BY <3>1, <2>0, <2>2, <2>5, OtherCall DEF FileKept
  <2> QED BY <2>2, <2>3, <2>4, <2>5
<1>20. ASSUME NEW s \in Spaces, Lock(s) PROVE IInv'
  <2>1. /\ files' \in [Spaces -> Files \cup {None}] /\ disk' \in [Spaces -> Files \cup {None}]
        /\ sessions' \in [Spaces -> Sessions \cup {None}]
        /\ \A t \in Spaces : FileKept(t) /\ SessionKept(t)
    BY <1>20 DEF TypeOK, FileKept, SessionKept, Known, durable, Lock
  <2>2. TypeOK'
    BY <1>20, <2>1 DEF TypeOK, durable, throttle, locks, settings, Lock
  <2>3. ASSUME NEW d \in Callers PROVE CallInv(d)'
    <3>1. UNCHANGED <<calls, spaceLock>>
      BY <1>20 DEF Lock, locks
    <3> QED BY <3>1, <2>1, OtherCall DEF FileKept
  <2>4. SessionKeyOpensVault'
    BY <2>1, KeyStillOpens
  <2> QED BY <2>2, <2>3, <2>4
<1>21. ASSUME NEW s \in Spaces, DeriveNetworks(s) PROVE IInv'
  <2>1. /\ files' \in [Spaces -> Files \cup {None}] /\ disk' \in [Spaces -> Files \cup {None}]
        /\ sessions' \in [Spaces -> Sessions \cup {None}]
        /\ \A t \in Spaces : FileKept(t) /\ SessionKept(t)
    BY <1>21, SaveEffect, TouchedKeeps, ExpiredKeeps DEF TypeOK, FileKept, SessionKept, Known,
       durable, DeriveNetworks
  <2>2. TypeOK'
    BY <1>21, <2>1 DEF TypeOK, durable, throttle, locks, settings, DeriveNetworks
  <2>3. ASSUME NEW d \in Callers PROVE CallInv(d)'
    <3>1. UNCHANGED <<calls, spaceLock>>
      BY <1>21 DEF DeriveNetworks, locks
    <3> QED BY <3>1, <2>1, OtherCall DEF FileKept
  <2>4. SessionKeyOpensVault'
    BY <2>1, KeyStillOpens
  <2> QED BY <2>2, <2>3, <2>4
<1>22. ASSUME NEW s \in Spaces, EditFile(s) PROVE IInv'
  <2>1. /\ files' \in [Spaces -> Files \cup {None}] /\ disk' \in [Spaces -> Files \cup {None}]
        /\ sessions' \in [Spaces -> Sessions \cup {None}]
        /\ \A t \in Spaces : FileKept(t) /\ SessionKept(t)
    BY <1>22, SaveEffect DEF TypeOK, FileKept, SessionKept, Known, durable, EditFile
  <2>2. TypeOK'
    BY <1>22, <2>1 DEF TypeOK, durable, throttle, locks, settings, EditFile
  <2>3. ASSUME NEW d \in Callers PROVE CallInv(d)'
    <3>1. UNCHANGED <<calls, spaceLock>>
      BY <1>22 DEF EditFile, locks
    <3> QED BY <3>1, <2>1, OtherCall DEF FileKept
  <2>4. SessionKeyOpensVault'
    BY <2>1, KeyStillOpens
  <2> QED BY <2>2, <2>3, <2>4
<1>23. ASSUME NEW s \in Spaces, ImportNetworks(s) PROVE IInv'
  <2> DEFINE Kept ==
             /\ files' \in [Spaces -> Files \cup {None}] /\ disk' \in [Spaces -> Files \cup {None}]
             /\ sessions' \in [Spaces -> Sessions \cup {None}]
             /\ \A t \in Spaces : FileKept(t) /\ SessionKept(t)
  <2>1. Kept
    <3>0. Known(s) /\ files[s] \in Files
      BY <1>23 DEF ImportNetworks, Unlocked, TypeOK, Known
    <3>1. ASSUME Unlocked(s), NEW r \in KeyRefs, NEW outcome \in Outcomes,
                 Save(s, Resealed(s, files[s].accounts \cup {r}, sessions[s].keys \cup {r}), outcome),
                 sessions' = Edited(s, KeysAfterWrite(s, sessions[s].keys \cup {r}, outcome))
          PROVE  Kept
      <4> DEFINE accounts == files[s].accounts \cup {r}
                 keys == sessions[s].keys \cup {r}
      <4>1. keys \in SUBSET KeyRefs /\ accounts \in SUBSET KeyRefs /\ sessions[s].keys \in SUBSET KeyRefs
        <5>1. sessions[s] \in Sessions
          BY <3>1, SessionHelpers
        <5> QED BY <5>1, <3>0 DEF Sessions, Files
      <4> HIDE DEF keys, accounts
      <4>2. Save(s, Resealed(s, accounts, keys), outcome)
            /\ sessions' = Edited(s, KeysAfterWrite(s, keys, outcome))
        BY <3>1 DEF keys, accounts
      <4>3. KeysAfterWrite(s, keys, outcome) \in SUBSET KeyRefs
        BY <4>1 DEF KeysAfterWrite
      <4>4. Resealed(s, accounts, keys) \in Files /\ \A t \in Spaces : FileKept(t)
        BY <3>1, <4>1, <4>2, ResealedKeeps
      <4>5. files' \in [Spaces -> Files \cup {None}] /\ disk' \in [Spaces -> Files \cup {None}]
        BY <4>2, <4>4, SaveEffect
      <4>6. sessions' \in [Spaces -> Sessions \cup {None}] /\ \A t \in Spaces : SessionKept(t)
        BY <3>1, <4>2, <4>3, EditedKeeps
      <4> QED BY <4>4, <4>5, <4>6
    <3>2. ASSUME UNCHANGED <<files, disk>>, sessions' = IF Unlocked(s) THEN Touched(s) ELSE Expired
          PROVE  Kept
      <4>1. sessions' \in [Spaces -> Sessions \cup {None}] /\ \A t \in Spaces : SessionKept(t)
        BY <3>2, ExpiredKeeps, TouchedKeeps
      <4> QED BY <3>2, <4>1 DEF TypeOK, FileKept, Known
    <3> QED BY <1>23, <3>1, <3>2 DEF ImportNetworks, durable
  <2>2. TypeOK'
    BY <1>23, <2>1 DEF TypeOK, durable, throttle, locks, settings, ImportNetworks
  <2>3. ASSUME NEW d \in Callers PROVE CallInv(d)'
    <3>1. UNCHANGED <<calls, spaceLock>>
      BY <1>23 DEF ImportNetworks, locks
    <3> QED BY <3>1, <2>1, OtherCall DEF FileKept
  <2>4. SessionKeyOpensVault'
    BY <2>1, KeyStillOpens
  <2> QED BY <2>2, <2>3, <2>4
<1>24. ASSUME Sweep PROVE IInv'
  <2>1. /\ files' \in [Spaces -> Files \cup {None}] /\ disk' \in [Spaces -> Files \cup {None}]
        /\ sessions' \in [Spaces -> Sessions \cup {None}]
        /\ \A t \in Spaces : FileKept(t) /\ SessionKept(t)
    BY <1>24, ExpiredKeeps DEF TypeOK, FileKept, SessionKept, Known, durable, Sweep
  <2>2. TypeOK'
    BY <1>24, <2>1, IntervalType DEF TypeOK, durable, throttle, locks, Sweep
  <2>3. ASSUME NEW d \in Callers PROVE CallInv(d)'
    <3>1. UNCHANGED <<calls, spaceLock>>
      BY <1>24 DEF Sweep, locks
    <3> QED BY <3>1, <2>1, OtherCall DEF FileKept
  <2>4. SessionKeyOpensVault'
    BY <2>1, KeyStillOpens
  <2> QED BY <2>2, <2>3, <2>4
<1>25. ASSUME SetAutoLock PROVE IInv'
  <2>1. /\ files' \in [Spaces -> Files \cup {None}] /\ disk' \in [Spaces -> Files \cup {None}]
        /\ sessions' \in [Spaces -> Sessions \cup {None}]
        /\ \A t \in Spaces : FileKept(t) /\ SessionKept(t)
    BY <1>25 DEF TypeOK, FileKept, SessionKept, Known, durable, SetAutoLock, LapsedUnder
  <2>2. TypeOK'
    BY <1>25, <2>1 DEF TypeOK, durable, throttle, locks, settings, SetAutoLock
  <2>3. ASSUME NEW d \in Callers PROVE CallInv(d)'
    <3>1. UNCHANGED <<calls, spaceLock>>
      BY <1>25 DEF SetAutoLock, locks
    <3> QED BY <3>1, <2>1, OtherCall DEF FileKept
  <2>4. SessionKeyOpensVault'
    BY <2>1, KeyStillOpens
  <2> QED BY <2>2, <2>3, <2>4
<1>26. ASSUME SetSendConfirmation PROVE IInv'
  <2>1. /\ files' \in [Spaces -> Files \cup {None}] /\ disk' \in [Spaces -> Files \cup {None}]
        /\ sessions' \in [Spaces -> Sessions \cup {None}]
        /\ \A t \in Spaces : FileKept(t) /\ SessionKept(t)
    BY <1>26 DEF TypeOK, FileKept, SessionKept, Known, durable, SetSendConfirmation
  <2>2. TypeOK'
    BY <1>26, <2>1 DEF TypeOK, durable, throttle, locks, settings, SetSendConfirmation
  <2>3. ASSUME NEW d \in Callers PROVE CallInv(d)'
    <3>1. UNCHANGED <<calls, spaceLock>>
      BY <1>26 DEF SetSendConfirmation, locks
    <3> QED BY <3>1, <2>1, OtherCall DEF FileKept
  <2>4. SessionKeyOpensVault'
    BY <2>1, KeyStillOpens
  <2> QED BY <2>2, <2>3, <2>4
<1>27. ASSUME Tick PROVE IInv'
  <2>1. /\ files' \in [Spaces -> Files \cup {None}] /\ disk' \in [Spaces -> Files \cup {None}]
        /\ sessions' \in [Spaces -> Sessions \cup {None}]
        /\ \A t \in Spaces : FileKept(t) /\ SessionKept(t)
    BY <1>27 DEF TypeOK, FileKept, SessionKept, Known, durable, Tick
  <2>2. TypeOK'
    BY <1>27, <2>1 DEF TypeOK, durable, throttle, locks, settings, Tick
  <2>3. ASSUME NEW d \in Callers PROVE CallInv(d)'
    <3>1. UNCHANGED <<calls, spaceLock>>
      BY <1>27 DEF Tick, locks
    <3> QED BY <3>1, <2>1, OtherCall DEF FileKept
  <2>4. SessionKeyOpensVault'
    BY <2>1, KeyStillOpens
  <2> QED BY <2>2, <2>3, <2>4
<1>28. ASSUME UNCHANGED vars PROVE IInv'
  <2>1. /\ files' \in [Spaces -> Files \cup {None}] /\ disk' \in [Spaces -> Files \cup {None}]
        /\ sessions' \in [Spaces -> Sessions \cup {None}]
        /\ \A t \in Spaces : FileKept(t) /\ SessionKept(t)
    BY <1>28 DEF TypeOK, FileKept, SessionKept, Known, durable, vars
  <2>2. TypeOK'
    BY <1>28, <2>1 DEF TypeOK, durable, throttle, locks, settings, vars
  <2>3. ASSUME NEW d \in Callers PROVE CallInv(d)'
    <3>1. UNCHANGED <<calls, spaceLock>>
      BY <1>28 DEF vars, locks
    <3> QED BY <3>1, <2>1, OtherCall DEF FileKept
  <2>4. SessionKeyOpensVault'
    BY <2>1, KeyStillOpens
  <2> QED BY <2>2, <2>3, <2>4
<1>29. ASSUME Restart PROVE IInv'
  <2>1. TypeOK'
    <3>1. rearm' \in BOOLEAN
      BY <1>29 DEF Restart
    <3>2. sweepAt' \in Nat
      BY <1>29, IntervalType DEF TypeOK, Restart
    <3>3. calls' \in [Callers -> Calls] /\ sessions' \in [Spaces -> Sessions \cup {None}]
      BY <1>29, NoCallType DEF Restart
    <3>4. spaceLock' \in [Spaces -> Callers \cup {None}] /\ kdfFree' \in Nat /\ files' = disk
      BY <1>29, SpaceAssumption DEF Restart
    <3>5. UNCHANGED <<clock, disk, issued, overlapped, throttle, autoLock, grantTTL, confirmed>>
      BY <1>29 DEF Restart
    <3> QED BY <3>1, <3>2, <3>3, <3>4, <3>5 DEF TypeOK, throttle
  <2>2. ASSUME NEW d \in Callers PROVE CallInv(d)'
    BY <1>29, IdleCall DEF Restart
  <2>3. SessionKeyOpensVault'
    BY <1>29 DEF Restart, SessionKeyOpensVault
  <2> QED BY <2>1, <2>2, <2>3
<1>30. ASSUME List PROVE IInv'
  <2>1. /\ files' \in [Spaces -> Files \cup {None}] /\ disk' \in [Spaces -> Files \cup {None}]
        /\ sessions' \in [Spaces -> Sessions \cup {None}]
        /\ \A t \in Spaces : FileKept(t) /\ SessionKept(t)
    BY <1>30, ExpiredKeeps DEF TypeOK, FileKept, SessionKept, Known, durable, List
  <2>2. TypeOK'
    BY <1>30, <2>1 DEF TypeOK, durable, throttle, locks, settings, List
  <2>3. ASSUME NEW d \in Callers PROVE CallInv(d)'
    <3>1. UNCHANGED <<calls, spaceLock>>
      BY <1>30 DEF List, locks
    <3> QED BY <3>1, <2>1, OtherCall DEF FileKept
  <2>4. SessionKeyOpensVault'
    BY <2>1, KeyStillOpens
  <2> QED BY <2>2, <2>3, <2>4
<1>31. ASSUME Rearm PROVE IInv'
  <2>1. /\ files' \in [Spaces -> Files \cup {None}] /\ disk' \in [Spaces -> Files \cup {None}]
        /\ sessions' \in [Spaces -> Sessions \cup {None}]
        /\ \A t \in Spaces : FileKept(t) /\ SessionKept(t)
    BY <1>31 DEF TypeOK, FileKept, SessionKept, Known, durable, Rearm
  <2>2. TypeOK'
    <3>1. rearm' \in BOOLEAN
      BY <1>31 DEF Rearm
    <3>2. sweepAt' \in Nat /\ UNCHANGED <<durable, throttle, locks, clock, calls, autoLock, grantTTL, confirmed>>
      BY <1>31, IntervalType DEF TypeOK, Rearm
    <3> QED BY <2>1, <3>1, <3>2 DEF TypeOK, durable, throttle, locks
  <2>3. ASSUME NEW d \in Callers PROVE CallInv(d)'
    <3>1. UNCHANGED <<calls, spaceLock>>
      BY <1>31 DEF Rearm, locks
    <3> QED BY <3>1, <2>1, OtherCall DEF FileKept
  <2>4. SessionKeyOpensVault'
    BY <2>1, KeyStillOpens
  <2> QED BY <2>2, <2>3, <2>4
<1> QED
  BY <1>1, <1>2, <1>3, <1>4, <1>5, <1>6, <1>7, <1>8, <1>9, <1>10, <1>11, <1>12, <1>13, <1>14,
     <1>15, <1>16, <1>17, <1>18, <1>19, <1>20, <1>21, <1>22, <1>23, <1>24, <1>25, <1>26, <1>27,
     <1>28, <1>29, <1>30, <1>31
     DEF Next, CallStep, SpaceStep, Progress

-----------------------------------------------------------------------------
\* The inductive invariant holds in every reachable state.
THEOREM Inductive == Spec => []IInv
BY InitIInv, NextIInv, PTL DEF Spec

\* Type correctness.
THEOREM TypeCorrect == Spec => []TypeOK
BY Inductive, PTL DEF IInv

\* The key of an open session is the one the vault in memory opens with,
\* whatever Unlock, ChangePassword, Create, imports, deletions, locks, sweeps,
\* failed writes and restarts are interleaved.
THEOREM SessionKeyCorrect == Spec => []SessionKeyOpensVault
BY Inductive, PTL DEF IInv

-----------------------------------------------------------------------------
(* The cooldown.                                                           *)

\* A call that has passed the cooldown check and not finished its derivation.
Checked(c) == calls[c].phase \in {"waitOpen", "open"}

\* A cooldown that is over does not begin again by the passing of time.
LEMMA StaysOver ==
    ASSUME NEW a \in AttemptRecords, NEW now \in Nat, ~CoolingDown(a, now)
    PROVE  ~CoolingDown(a, now + 1)
BY DEF CoolingDown, AttemptRecords

\* It was past the check before, and is still about the same space and check.
SameCheck(d) ==
    Checked(d) /\ calls'[d].space = calls[d].space /\ calls'[d].unread = calls[d].unread

\* Two calls that are past the check are not about the same space.
LEMMA CheckedAlone ==
    ASSUME IInv, NEW c \in Callers, NEW d \in Callers, Checked(c), Checked(d),
           calls[c].space = calls[d].space
    PROVE  c = d
BY DEF IInv, CallInv, Holding, Checked

\* A step that lets no call past the check and writes no attempt record.
LEMMA CooldownKept ==
    ASSUME IInv, CooldownRespected, UNCHANGED attempts, clock' \in {clock, clock + 1},
           \A d \in Callers : Checked(d)' => SameCheck(d)
    PROVE  CooldownRespected'
<1> SUFFICES ASSUME NEW d \in Callers, Checked(d)', ~calls'[d].unread
             PROVE  ~CoolingDown(attempts'[calls'[d].space], clock')
  BY DEF CooldownRespected, Checked
<1>1. /\ Checked(d) /\ calls'[d].space = calls[d].space /\ calls[d].space \in Spaces
      /\ ~calls[d].unread
  BY DEF IInv, CallInv, Holding, Checked, SameCheck
<1>2. ~CoolingDown(attempts[calls[d].space], clock) /\ attempts[calls[d].space] \in AttemptRecords
  BY <1>1 DEF CooldownRespected, Checked, IInv, TypeOK
<1> QED BY <1>1, <1>2, StaysOver DEF IInv, TypeOK

\* The same for a call that returns.
LEMMA CooldownAtReturn ==
    ASSUME IInv, CooldownRespected, NEW c \in Callers, Return(c), UNCHANGED <<attempts, clock>>
    PROVE  CooldownRespected'
<1>1. \A d \in Callers : Checked(d)' => SameCheck(d)
  BY DEF Return, NoCall, Checked, SameCheck, IInv, TypeOK
<1> QED BY <1>1, CooldownKept

\* Only the holder of a space's lock writes its attempt record.
LEMMA CooldownAtVerdict ==
    ASSUME IInv, CooldownRespected, NEW c \in Callers, Checked(c), ~Checked(c)', UNCHANGED clock,
           \A d \in Callers : d # c => calls'[d] = calls[d],
           \A s \in Spaces : s # calls[c].space => attempts'[s] = attempts[s]
    PROVE  CooldownRespected'
<1> SUFFICES ASSUME NEW d \in Callers, Checked(d)', ~calls'[d].unread
             PROVE  ~CoolingDown(attempts'[calls'[d].space], clock')
  BY DEF CooldownRespected, Checked
<1>1. d # c /\ calls'[d] = calls[d] /\ Checked(d)
  BY DEF Checked
<1>2. calls[d].space \in Spaces /\ calls[d].space # calls[c].space
  BY <1>1, CheckedAlone DEF IInv, CallInv, Holding, Checked
<1> QED BY <1>1, <1>2 DEF CooldownRespected, Checked

\* No step lets a password be tried under a cooldown; one case per action that
\* moves a call past the check or writes a record, the rest in groups.
LEMMA NextCooldown == IInv /\ CooldownRespected /\ [Next]_vars => CooldownRespected'
<1> SUFFICES ASSUME IInv, CooldownRespected, [Next]_vars PROVE CooldownRespected'
  OBVIOUS
<1>0. calls \in [Callers -> Calls] /\ attempts \in [Spaces -> AttemptRecords]
  BY DEF IInv, TypeOK
<1>1. ASSUME NEW c \in Callers, LockSpace(c) PROVE CooldownRespected'
  <2>1. CASE Return(c)
    BY <1>1, <2>1, CooldownAtReturn DEF LockSpace, throttle
  <2>2. CASE ~Return(c)
    <3> DEFINE s == calls[c].space
    <3>1. /\ s \in Spaces /\ attempts[s] \in AttemptRecords /\ clock \in Nat
          /\ UNCHANGED <<attempts, clock>>
      BY <1>1 DEF IInv, TypeOK, CallInv, LockSpace, throttle
    <3>2. PICK seen \in readAttempts(attempts[s], clock) :
             /\ ~CoolingDown(seen, clock)
             /\ calls' = [calls EXCEPT ![c].phase = "waitOpen", ![c].snap = files[s],
                                       ![c].unread = (seen # clamped(attempts[s], clock))]
      BY <1>1, <2>2 DEF LockSpace
    <3>3. /\ calls'[c].space = s /\ calls'[c].unread = (seen # clamped(attempts[s], clock))
          /\ \A d \in Callers : d # c => calls'[d] = calls[d]
      BY <1>0, <3>2 DEF Calls
    <3>4. ~calls'[c].unread => ~CoolingDown(attempts[s], clock)
      BY <3>1, <3>2, <3>3, ClampType
    <3> QED BY <3>1, <3>3, <3>4 DEF CooldownRespected
  <2> QED BY <2>1, <2>2
<1>2. ASSUME NEW c \in Callers, AcquireKDF(c) PROVE CooldownRespected'
  <2>1. calls' = [calls EXCEPT ![c].phase = Deriving[calls[c].phase]] /\ UNCHANGED <<attempts, clock>>
    BY <1>2 DEF AcquireKDF, SetPhase, throttle
  <2>2. \A d \in Callers : Checked(d)' => SameCheck(d)
    BY <1>0, <1>2, <2>1 DEF Checked, SameCheck, Deriving, AcquireKDF, Calls
  <2> QED BY <2>1, <2>2, CooldownKept
<1>3. ASSUME NEW c \in Callers, OpenWrong(c) PROVE CooldownRespected'
  <2>1. Checked(c) /\ ~Checked(c)' /\ UNCHANGED clock /\ \A d \in Callers : d # c => calls'[d] = calls[d]
    BY <1>0, <1>3 DEF OpenWrong, Return, NoCall, Checked
  <2>2. \A s \in Spaces : s # calls[c].space => attempts'[s] = attempts[s]
    BY <1>0, <1>3 DEF OpenWrong
  <2> QED BY <2>1, <2>2, CooldownAtVerdict
<1>4. ASSUME NEW c \in Callers, OpenRight(c) PROVE CooldownRespected'
  <2>1. calls' = [calls EXCEPT ![c].phase = IF calls[c].op = "change" THEN "waitSeal" ELSE "apply"]
    BY <1>4 DEF OpenRight, SetPhase
  <2>2. Checked(c) /\ ~Checked(c)' /\ UNCHANGED clock /\ \A d \in Callers : d # c => calls'[d] = calls[d]
    BY <1>0, <1>4, <2>1 DEF OpenRight, Checked, Calls
  <2>3. \A s \in Spaces : s # calls[c].space => attempts'[s] = attempts[s]
    BY <1>0, <1>4 DEF OpenRight
  <2> QED BY <2>2, <2>3, CooldownAtVerdict
<1>5. ASSUME NEW c \in Callers, StartCall(c) \/ StartCreate(c) \/ RequireSendConfirmation(c)
      PROVE  CooldownRespected'
  <2>1. UNCHANGED <<attempts, clock>>
    BY <1>5 DEF StartCall, StartCreate, RequireSendConfirmation, throttle
  <2>2. /\ ~Checked(c)'
        /\ \A d \in Callers : d # c => calls'[d] = calls[d]
    <3>1. CASE StartCall(c)
      BY <1>0, <3>1 DEF StartCall, NoCall, Checked
    <3>2. CASE StartCreate(c)
      BY <1>0, <3>2 DEF StartCreate, NoCall, Checked
    <3>3. CASE RequireSendConfirmation(c)
      BY <1>0, <3>3 DEF RequireSendConfirmation, NoCall, Checked
    <3> QED BY <1>5, <3>1, <3>2, <3>3
  <2> QED BY <2>1, <2>2, CooldownKept DEF Checked, SameCheck
<1>6. ASSUME NEW c \in Callers, Seal(c) \/ Rekey(c) PROVE CooldownRespected'
  <2>1. UNCHANGED <<attempts, clock>> /\ ~Checked(c)' /\ \A d \in Callers : d # c => calls'[d] = calls[d]
    BY <1>0, <1>6 DEF Seal, Rekey, throttle, Checked, Calls
  <2> QED BY <2>1, CooldownKept DEF Checked, SameCheck
<1>7. ASSUME NEW c \in Callers, WithKey(c) PROVE CooldownRespected'
  <2>1. CASE Return(c)
    BY <1>7, <2>1, CooldownAtReturn DEF WithKey, throttle
  <2>2. CASE ~Return(c)
    <3>1. calls' = [calls EXCEPT ![c].phase = "lent"] /\ UNCHANGED <<attempts, clock>>
      BY <1>7, <2>2 DEF WithKey, SetPhase, throttle
    <3>2. ~Checked(c)' /\ \A d \in Callers : d # c => calls'[d] = calls[d]
      BY <1>0, <3>1 DEF Checked, Calls
    <3> QED BY <3>1, <3>2, CooldownKept DEF Checked, SameCheck
  <2> QED BY <2>1, <2>2
<1>8. ASSUME NEW c \in Callers,
             \/ OpenDamaged(c) \/ Unlock(c) \/ ChangePassword(c) \/ ConfirmSend(c) \/ Reveal(c)
             \/ Backup(c) \/ DeleteAccount(c) \/ Create(c) \/ KeyCleared(c)
      PROVE  CooldownRespected'
  <2>1. Return(c) /\ UNCHANGED <<attempts, clock>>
    BY <1>8 DEF OpenDamaged, Unlock, ChangePassword, ConfirmSend, Reveal, Backup, DeleteAccount,
                Create, KeyCleared, throttle
  <2> QED BY <2>1, CooldownAtReturn
<1>9. ASSUME \/ \E s \in Spaces : SpaceStep(s)
             \/ List \/ Sweep \/ Rearm \/ SetAutoLock \/ SetSendConfirmation \/ Tick \/ UNCHANGED vars
      PROVE  CooldownRespected'
  <2>1. UNCHANGED <<attempts, calls>> /\ clock' \in {clock, clock + 1}
    BY <1>9 DEF SpaceStep, Lock, ImportNetworks, DeriveNetworks, EditFile, List, Sweep, Rearm, SetAutoLock,
                SetSendConfirmation, Tick, throttle, vars
  <2> QED BY <2>1, CooldownKept DEF Checked, SameCheck
<1>10. CASE Restart
  BY <1>10 DEF Restart, NoCall, CooldownRespected
<1> QED
  BY <1>1, <1>2, <1>3, <1>4, <1>5, <1>6, <1>7, <1>8, <1>9, <1>10 DEF Next, CallStep, Progress

\* No password is tried while its space cools down (checkUnlockCooldown under
\* lockSpace), for any number of spaces and handlers.
THEOREM CooldownCorrect == Spec => []CooldownRespected
<1>1. Init => CooldownRespected
  BY DEF Init, NoCall, CooldownRespected
<1> QED BY <1>1, Inductive, NextCooldown, PTL DEF Spec

-----------------------------------------------------------------------------
(* The spending grant.                                                     *)

\* The step gives the session of t no grant it did not have.
GrantKept(t) ==
    sessions'[t] # None =>
        \/ sessions'[t].grant = 0
        \/ sessions[t] # None /\ sessions'[t].grant = sessions[t].grant

\* A step that changes no password, opens no window and confirms nothing.
LEMMA GrantStillBacked ==
    ASSUME IInv, GrantBackedByPassword, UNCHANGED confirmed,
           \A t \in Spaces : FileKept(t) /\ GrantKept(t)
    PROVE  GrantBackedByPassword'
<1> SUFFICES ASSUME NEW t \in Spaces, sessions'[t] # None, sessions'[t].grant > 0
             PROVE  /\ confirmed[t] # None
                    /\ confirmed[t].pw = files'[t].vault.pw
                    /\ sessions'[t].grant = confirmed[t].at + confirmed[t].ttl
  BY DEF GrantBackedByPassword
<1>1. sessions[t] # None /\ sessions'[t].grant = sessions[t].grant /\ Known(t)
  BY DEF GrantKept, IInv, SessionKeyOpensVault
<1> QED BY <1>1 DEF GrantBackedByPassword, FileKept

\* The sweep, the refresh of the idle timer and an edit of the payload open no
\* window.
LEMMA SweptGrants ==
    ASSUME TypeOK, sessions' = Expired
    PROVE  \A t \in Spaces : GrantKept(t)
BY SessionHelpers DEF GrantKept

\* Refreshing the idle time of a session leaves its grant alone.
LEMMA TouchedGrants ==
    ASSUME TypeOK, NEW s \in Spaces, Unlocked(s), sessions' = Touched(s)
    PROVE  \A t \in Spaces : GrantKept(t)
<1>1. sessions[s] \in Sessions /\ sessions[s] # None
  BY SessionHelpers, SpaceAssumption
<1>2. sessions'[s] = [sessions[s] EXCEPT !.lastUsed = clock]
  BY SessionHelpers
<1>3. sessions'[s].grant = sessions[s].grant
  BY <1>1, <1>2 DEF Sessions
<1>4. \A t \in Spaces : t # s => sessions'[t] = Expired[t]
  BY SessionHelpers
<1> QED BY <1>1, <1>3, <1>4, SessionHelpers DEF GrantKept

\* Editing the payload leaves the grant alone as well.
LEMMA EditedGrants ==
    ASSUME TypeOK, NEW s \in Spaces, Unlocked(s), NEW keys, sessions' = Edited(s, keys)
    PROVE  \A t \in Spaces : GrantKept(t)
<1>1. sessions[s] \in Sessions /\ sessions[s] # None
  BY SessionHelpers, SpaceAssumption
<1>2. sessions'[s] = [sessions[s] EXCEPT !.lastUsed = clock, !.keys = keys]
  BY SessionHelpers DEF Edited
<1>3. sessions'[s].grant = sessions[s].grant
  BY <1>1, <1>2 DEF Sessions
<1>4. \A t \in Spaces : t # s => sessions'[t] = Expired[t]
  BY SessionHelpers DEF Edited
<1> QED BY <1>1, <1>3, <1>4, SessionHelpers DEF GrantKept

\* Every step keeps the grants backed; one case per action that touches
\* sessions, files or confirmations, the rest in groups.
LEMMA NextGrant == IInv /\ GrantBackedByPassword /\ [Next]_vars => GrantBackedByPassword'
<1> SUFFICES ASSUME IInv, GrantBackedByPassword, [Next]_vars PROVE GrantBackedByPassword'
  OBVIOUS
<1>0. TypeOK /\ sessions \in [Spaces -> Sessions \cup {None}]
  BY DEF IInv, TypeOK
<1>1. ASSUME NEW c \in Callers, Unlock(c) PROVE GrantBackedByPassword'
  <2>1. UNCHANGED <<files, confirmed>> /\ \A t \in Spaces : FileKept(t)
    BY <1>1 DEF Unlock, durable, FileKept, Known
  <2>2. \A t \in Spaces : GrantKept(t)
    BY <1>0, <1>1 DEF Unlock, Replaced, FreshSession, GrantKept
  <2> QED BY <2>1, <2>2, GrantStillBacked
<1>2. ASSUME NEW c \in Callers, ChangePassword(c) PROVE GrantBackedByPassword'
  <2> DEFINE s == calls[c].space
             new == [files[s] EXCEPT !.vault = calls[c].sealed]
  <2>1. s \in Spaces /\ Known(s) /\ UNCHANGED confirmed
    BY <1>2 DEF ChangePassword, At, IInv, CallInv, Holding
  <2>2. PICK outcome \in Outcomes :
           /\ Save(s, new, outcome)
           /\ sessions' = IF outcome = "ok" /\ SessionToReplace(c)
                          THEN [sessions EXCEPT ![s] = Replaced(s, calls[c].newPw, calls[c].sealed.keys)]
                          ELSE sessions
    BY <1>2 DEF ChangePassword
  <2>3. new \in Files
    BY <1>2, <2>1 DEF ChangePassword, At, IInv, TypeOK, CallInv, Files, Known
  <2>4. \A t \in Spaces : GrantKept(t)
    BY <1>0, <2>2 DEF GrantKept, Replaced, FreshSession
  <2>5. CASE outcome # "ok"
    <3>1. \A t \in Spaces : FileKept(t)
      BY <1>0, <2>1, <2>2, <2>3, <2>5, SaveEffect DEF FileKept, Known
    <3> QED BY <2>1, <2>4, <3>1, GrantStillBacked
  <2>6. CASE outcome = "ok"
    \* The session of s, if there is one, is a fresh one without a grant.
    <3>1. sessions'[s] = None \/ sessions'[s].grant = 0
      <4>1. CASE SessionToReplace(c)
        BY <1>0, <2>1, <2>2, <2>6, <4>1 DEF Replaced, FreshSession
      <4>2. CASE ~SessionToReplace(c)
        BY <1>2, <2>1, <2>2, <4>2 DEF SessionToReplace, ChangePassword, At, IInv, CallInv, Holding
      <4> QED BY <4>1, <4>2
    <3>2. \A t \in Spaces : t # s => files'[t] = files[t] /\ sessions'[t] = sessions[t]
      BY <1>0, <2>1, <2>2, <2>3, SaveEffect
    <3> QED BY <2>1, <3>1, <3>2 DEF GrantBackedByPassword
  <2> QED BY <2>5, <2>6
<1>3. ASSUME NEW c \in Callers, ConfirmSend(c) PROVE GrantBackedByPassword'
  <2> DEFINE s == calls[c].space
  <2>1. s \in Spaces /\ calls[c].pw = files[s].vault.pw /\ UNCHANGED files
    BY <1>3 DEF ConfirmSend, At, IInv, CallInv, Holding, durable
  <2>2. \A t \in Spaces : FileKept(t)
    BY <2>1 DEF FileKept, Known
  <2>3. CASE UNCHANGED confirmed /\ (sessions' = Expired \/ UNCHANGED sessions)
    <3>1. \A t \in Spaces : GrantKept(t)
      BY <1>0, <2>3, SweptGrants DEF GrantKept
    <3> QED BY <2>2, <2>3, <3>1, GrantStillBacked
  <2>4. CASE ~(UNCHANGED confirmed /\ (sessions' = Expired \/ UNCHANGED sessions))
    <3>1. /\ Expired[s] # None
          /\ sessions' = [Expired EXCEPT ![s] = [sessions[s] EXCEPT !.lastUsed = clock,
                                                                 !.grant = clock + grantTTL]]
          /\ confirmed' = [confirmed EXCEPT ![s] = [pw |-> calls[c].pw, at |-> clock, ttl |-> grantTTL]]
      BY <1>3, <2>4 DEF ConfirmSend
    <3>2. sessions'[s].grant = clock + grantTTL /\ \A t \in Spaces : t # s => sessions'[t] = Expired[t]
      BY <1>0, <2>1, <3>1, SessionHelpers DEF Sessions
    <3>3. /\ confirmed'[s] = [pw |-> calls[c].pw, at |-> clock, ttl |-> grantTTL]
          /\ \A t \in Spaces : t # s => confirmed'[t] = confirmed[t]
      BY <2>1, <3>1 DEF IInv, TypeOK
    <3>4. confirmed'[s] \in Confirmations
      BY <1>3, <3>3 DEF Confirmations, ConfirmSend, At, IInv, TypeOK, CallInv, Holding
    <3>5. confirmed'[s] # None
      BY <3>4, SpaceAssumption
    <3> QED BY <1>0, <2>1, <3>2, <3>3, <3>5, SessionHelpers DEF GrantBackedByPassword
  <2> QED BY <2>3, <2>4
<1>4. ASSUME NEW c \in Callers, Reveal(c) PROVE GrantBackedByPassword'
  <2>1. UNCHANGED <<files, confirmed>> /\ \A t \in Spaces : FileKept(t)
    BY <1>4 DEF Reveal, durable, FileKept, Known
  <2>2. calls[c].space \in Spaces
    BY <1>4 DEF Reveal, At, IInv, CallInv, Holding
  <2> QED
    BY <1>0, <1>4, <2>1, <2>2, SweptGrants, TouchedGrants, GrantStillBacked DEF Reveal
<1>5. ASSUME NEW c \in Callers, DeleteAccount(c) PROVE GrantBackedByPassword'
  <2> DEFINE s == calls[c].space
             keys == sessions[s].keys \ {calls[c].ref}
  <2>1. s \in Spaces /\ UNCHANGED confirmed
    BY <1>5 DEF DeleteAccount, At, IInv, CallInv, Holding
  <2>2. CASE Unlocked(s) /\ calls[c].ref \in files[s].accounts
    <3>1. PICK outcome \in Outcomes :
             /\ Save(s, Resealed(s, files[s].accounts \ {calls[c].ref}, keys), outcome)
             /\ sessions' = Edited(s, KeysAfterWrite(s, keys, outcome))
      BY <1>5, <2>2 DEF DeleteAccount
    <3>2. files[s].accounts \ {calls[c].ref} \subseteq KeyRefs /\ keys \subseteq KeyRefs
      <4>1. files[s] \in Files /\ sessions[s] \in Sessions
        BY <1>0, <2>1, <2>2, SessionHelpers DEF TypeOK, Known
      <4> QED BY <4>1 DEF Files, Sessions
    <3>3. \A t \in Spaces : FileKept(t)
      BY <2>1, <2>2, <3>1, <3>2, ResealedKeeps
    <3> QED BY <1>0, <2>1, <2>2, <3>1, <3>3, EditedGrants, GrantStillBacked
  <2>3. CASE ~(Unlocked(s) /\ calls[c].ref \in files[s].accounts)
    <3>1. UNCHANGED files /\ sessions' = IF Unlocked(s) THEN Touched(s) ELSE Expired
      BY <1>5, <2>3 DEF DeleteAccount
    <3>2. \A t \in Spaces : FileKept(t)
      BY <3>1 DEF FileKept, Known
    <3> QED BY <1>0, <2>1, <3>1, <3>2, SweptGrants, TouchedGrants, GrantStillBacked
  <2> QED BY <2>2, <2>3
<1>6. ASSUME NEW c \in Callers, Create(c) PROVE GrantBackedByPassword'
  <2>1. UNCHANGED confirmed
    BY <1>6 DEF Create
  <2>2. CASE UNCHANGED <<files, sessions>>
    BY <2>1, <2>2, GrantStillBacked DEF FileKept, Known, GrantKept
  <2>3. CASE ~UNCHANGED <<files, sessions>>
    <3> DEFINE file == [accounts |-> {}, vault |-> calls[c].sealed]
    <3>1. PICK s \in Spaces, outcome \in Outcomes :
             /\ files[s] = None
             /\ Save(s, file, outcome)
             /\ sessions' = IF outcome = "ok"
                            THEN [sessions EXCEPT ![s] = [FreshSession(file.vault.pw, {})
                                         EXCEPT !.lastUsed = calls[c].since, !.opened = clock]]
                            ELSE sessions
      BY <1>6, <2>3 DEF Create
    <3>2. file \in Files
      BY <1>6 DEF Create, IInv, CallInv, Files
    <3>3. \A t \in Spaces : FileKept(t)
      BY <1>0, <3>1, <3>2, SaveEffect DEF FileKept, Known
    <3>4. \A t \in Spaces : GrantKept(t)
      BY <1>0, <3>1 DEF GrantKept, FreshSession
    <3> QED BY <2>1, <3>3, <3>4, GrantStillBacked
  <2> QED BY <2>2, <2>3
<1>7. ASSUME NEW s \in Spaces, ImportNetworks(s) PROVE GrantBackedByPassword'
  <2>1. UNCHANGED confirmed
    BY <1>7 DEF ImportNetworks
  <2>2. CASE Unlocked(s) /\ Cardinality(files[s].accounts) < MaxAccounts
    <3>1. PICK r \in KeyRefs, outcome \in Outcomes :
             /\ Save(s, Resealed(s, files[s].accounts \cup {r}, sessions[s].keys \cup {r}), outcome)
             /\ sessions' = Edited(s, KeysAfterWrite(s, sessions[s].keys \cup {r}, outcome))
      BY <1>7, <2>2 DEF ImportNetworks
    <3>2. files[s].accounts \cup {r} \subseteq KeyRefs /\ sessions[s].keys \cup {r} \subseteq KeyRefs
      <4>1. files[s] \in Files /\ sessions[s] \in Sessions
        BY <1>0, <2>2, SessionHelpers DEF TypeOK, Known
      <4> QED BY <4>1 DEF Files, Sessions
    <3>3. \A t \in Spaces : FileKept(t)
      BY <2>2, <3>1, <3>2, ResealedKeeps
    <3> QED BY <1>0, <2>1, <2>2, <3>1, <3>3, EditedGrants, GrantStillBacked
  <2>3. CASE ~(Unlocked(s) /\ Cardinality(files[s].accounts) < MaxAccounts)
    <3>1. UNCHANGED files /\ sessions' = IF Unlocked(s) THEN Touched(s) ELSE Expired
      BY <1>7, <2>3 DEF ImportNetworks, durable
    <3>2. \A t \in Spaces : FileKept(t)
      BY <3>1 DEF FileKept, Known
    <3> QED BY <1>0, <2>1, <3>1, <3>2, SweptGrants, TouchedGrants, GrantStillBacked
  <2> QED BY <2>2, <2>3
<1>8. ASSUME NEW s \in Spaces, DeriveNetworks(s) \/ EditFile(s) PROVE GrantBackedByPassword'
  <2>1. UNCHANGED confirmed /\ Known(s)
    BY <1>8 DEF DeriveNetworks, EditFile
  <2>2. UNCHANGED files \/ \E outcome \in Outcomes : Save(s, files[s], outcome)
    BY <1>8 DEF DeriveNetworks, EditFile
  <2>3. files[s] \in Files
    BY <1>0, <2>1 DEF TypeOK, Known
  <2>4. \A t \in Spaces : FileKept(t)
    BY <1>0, <2>2, <2>3, SaveEffect DEF FileKept, Known
  <2>5. \A t \in Spaces : GrantKept(t)
    <3>1. \/ UNCHANGED sessions \/ sessions' = Expired
          \/ Unlocked(s) /\ sessions' = Touched(s)
      BY <1>8 DEF DeriveNetworks, EditFile
    <3> QED BY <1>0, <3>1, SweptGrants, TouchedGrants DEF GrantKept
  <2> QED BY <2>1, <2>4, <2>5, GrantStillBacked
<1>9. ASSUME NEW c \in Callers, RequireSendConfirmation(c) \/ WithKey(c) PROVE GrantBackedByPassword'
  <2>1. UNCHANGED <<files, confirmed>> /\ \A t \in Spaces : FileKept(t)
    BY <1>9 DEF RequireSendConfirmation, WithKey, durable, FileKept, Known
  <2>2. \A t \in Spaces : GrantKept(t)
    <3>1. CASE sessions' = Expired
      BY <1>0, <3>1, SweptGrants
    <3>2. CASE sessions' # Expired
      <4>1. calls[c].space \in Spaces /\ Unlocked(calls[c].space) /\ sessions' = Touched(calls[c].space)
        BY <1>9, <3>2 DEF RequireSendConfirmation, WithKey, IInv, CallInv
      <4> QED BY <1>0, <4>1, TouchedGrants
    <3> QED BY <3>1, <3>2
  <2> QED BY <2>1, <2>2, GrantStillBacked
<1>10. ASSUME NEW c \in Callers,
              \/ StartCall(c) \/ StartCreate(c) \/ LockSpace(c) \/ AcquireKDF(c) \/ OpenWrong(c)
              \/ OpenDamaged(c) \/ OpenRight(c) \/ Seal(c) \/ Rekey(c) \/ Backup(c) \/ KeyCleared(c)
       PROVE  GrantBackedByPassword'
  <2>1. UNCHANGED <<files, sessions, confirmed>>
    BY <1>10 DEF StartCall, StartCreate, LockSpace, AcquireKDF, OpenWrong, OpenDamaged, OpenRight,
                 Seal, Rekey, Backup, KeyCleared, durable
  <2> QED BY <2>1 DEF GrantBackedByPassword
<1>11. ASSUME \/ \E s \in Spaces : Lock(s)
              \/ List \/ Sweep \/ Rearm \/ SetAutoLock \/ SetSendConfirmation \/ Tick \/ UNCHANGED vars
       PROVE  GrantBackedByPassword'
  <2>1. UNCHANGED <<files, confirmed>> /\ \A t \in Spaces : FileKept(t)
    BY <1>11 DEF Lock, List, Sweep, Rearm, SetAutoLock, SetSendConfirmation, Tick, vars, durable, FileKept, Known
  <2>2. \A t \in Spaces : sessions'[t] \in {sessions[t], None}
    BY <1>0, <1>11 DEF Lock, List, Sweep, Rearm, Expired, SetAutoLock, SetSendConfirmation, Tick, vars
  <2> QED BY <2>1, <2>2, GrantStillBacked DEF GrantKept
<1>12. CASE Restart
  BY <1>12 DEF Restart, GrantBackedByPassword
<1> QED
  BY <1>1, <1>2, <1>3, <1>4, <1>5, <1>6, <1>7, <1>8, <1>9, <1>10, <1>11, <1>12
  DEF Next, CallStep, Progress, SpaceStep

\* A spending window is backed by the password of the vault (ConfirmSend, and
\* the session that Unlock and ChangePassword allocate anew), for any number of
\* spaces, handlers, passwords and durations.
THEOREM GrantCorrect == Spec => []GrantBackedByPassword
<1>1. Init => GrantBackedByPassword
  BY DEF Init, GrantBackedByPassword
<1> QED BY <1>1, Inductive, NextGrant, PTL DEF Spec

-----------------------------------------------------------------------------
(* The count of wrong passwords.                                           *)

\* Every step keeps the count; only the verdict on a password changes it.
LEMMA NextCounted == IInv /\ FailuresCounted /\ [Next]_vars => FailuresCounted'
<1> SUFFICES ASSUME IInv, FailuresCounted, [Next]_vars PROVE FailuresCounted'
  OBVIOUS
<1>0. /\ attempts \in [Spaces -> AttemptRecords] /\ wrong \in [Spaces -> Nat]
      /\ lossy \in [Spaces -> BOOLEAN]
      /\ \A c \in Callers : calls[c].phase = "open" => calls[c].space \in Spaces
  BY DEF IInv, TypeOK, CallInv, Holding
<1>1. ASSUME NEW c \in Callers, OpenWrong(c) PROVE FailuresCounted'
  <2> DEFINE s == calls[c].space
  <2>1. s \in Spaces /\ attempts[s] \in AttemptRecords /\ clock \in Nat
    BY <1>0, <1>1 DEF OpenWrong, IInv, TypeOK
  <2>2. PICK seen \in readAttempts(attempts[s], clock) :
           \E record \in FailureRecords(seen, clock) :
             \E left \in writeAttempts(attempts[s], record) :
               /\ attempts' = [attempts EXCEPT ![s] = left]
               /\ lossy' = [lossy EXCEPT ![s] =
                              @ \/ seen # clamped(attempts[s], clock) \/ left # record]
    BY <1>1 DEF OpenWrong
  <2>3. PICK record \in FailureRecords(seen, clock) :
           \E left \in writeAttempts(attempts[s], record) :
             /\ attempts' = [attempts EXCEPT ![s] = left]
             /\ lossy' = [lossy EXCEPT ![s] =
                            @ \/ seen # clamped(attempts[s], clock) \/ left # record]
    BY <2>2
  <2>0. PICK left \in writeAttempts(attempts[s], record) :
           /\ attempts' = [attempts EXCEPT ![s] = left]
           /\ lossy' = [lossy EXCEPT ![s] =
                          @ \/ seen # clamped(attempts[s], clock) \/ left # record]
    BY <2>3
  <2>4. wrong' = [wrong EXCEPT ![s] = @ + 1]
    BY <1>1 DEF OpenWrong
  <2>5. seen \in AttemptRecords
    BY <2>1, <2>2, ReadWriteType
  <2>6. ASSUME ~lossy'[s] PROVE attempts'[s].failures = wrong'[s]
    <3>1. ~lossy[s] /\ seen = clamped(attempts[s], clock) /\ left = record
      BY <1>0, <2>0, <2>1, <2>6
    <3>2. seen.failures = attempts[s].failures
      BY <2>1, <3>1, ClampType
    <3>3. record.failures = attempts[s].failures + 1
      BY <2>1, <2>3, <2>5, <3>2, FailureRecordsType
    <3>4. attempts'[s] = record /\ wrong'[s] = wrong[s] + 1
      BY <1>0, <2>0, <2>1, <2>4, <3>1
    <3> QED BY <2>1, <3>1, <3>3, <3>4 DEF FailuresCounted
  <2>7. \A t \in Spaces : t # s =>
           attempts'[t] = attempts[t] /\ wrong'[t] = wrong[t] /\ (lossy'[t] <=> lossy[t])
    BY <1>0, <2>0, <2>1, <2>4
  <2> QED BY <2>6, <2>7 DEF FailuresCounted
<1>2. ASSUME NEW c \in Callers, OpenRight(c) PROVE FailuresCounted'
  <2> DEFINE s == calls[c].space
  <2>1. PICK left \in writeAttempts(attempts[s], NoAttempts) :
           /\ attempts' = [attempts EXCEPT ![s] = left]
           /\ lossy' = [lossy EXCEPT ![s] = (left # NoAttempts)]
    BY <1>2 DEF OpenRight
  <2>2. s \in Spaces /\ wrong' = [wrong EXCEPT ![s] = 0]
    BY <1>0, <1>2 DEF OpenRight
  <2>3. ~lossy'[s] => attempts'[s].failures = wrong'[s]
    <3>1. ~lossy'[s] => left = NoAttempts
      BY <1>0, <2>1, <2>2
    <3>2. attempts'[s] = left /\ wrong'[s] = 0
      BY <1>0, <2>1, <2>2
    <3> QED BY <3>1, <3>2 DEF NoAttempts
  <2>4. \A t \in Spaces : t # s =>
           attempts'[t] = attempts[t] /\ wrong'[t] = wrong[t] /\ (lossy'[t] <=> lossy[t])
    BY <1>0, <2>1, <2>2
  <2> QED BY <2>3, <2>4 DEF FailuresCounted
<1>3. ASSUME NEW c \in Callers,
             \/ StartCall(c) \/ StartCreate(c) \/ RequireSendConfirmation(c) \/ LockSpace(c)
             \/ AcquireKDF(c) \/ OpenDamaged(c) \/ Seal(c) \/ Rekey(c) \/ Unlock(c)
             \/ ChangePassword(c) \/ ConfirmSend(c) \/ Reveal(c) \/ Backup(c)
             \/ DeleteAccount(c) \/ Create(c) \/ WithKey(c) \/ KeyCleared(c)
      PROVE  FailuresCounted'
  <2>1. UNCHANGED throttle
    BY <1>3 DEF StartCall, StartCreate, RequireSendConfirmation, LockSpace, AcquireKDF,
                OpenDamaged, Seal, Rekey, Unlock, ChangePassword, ConfirmSend, Reveal, Backup,
                DeleteAccount, Create, WithKey, KeyCleared
  <2> QED BY <2>1 DEF throttle, FailuresCounted
<1>4. ASSUME \/ \E s \in Spaces : SpaceStep(s)
             \/ List \/ Sweep \/ Rearm \/ SetAutoLock \/ SetSendConfirmation \/ Restart \/ Tick \/ UNCHANGED vars
      PROVE  FailuresCounted'
  <2>1. UNCHANGED throttle
    BY <1>4 DEF SpaceStep, Lock, ImportNetworks, DeriveNetworks, EditFile, List, Sweep, Rearm, SetAutoLock,
                SetSendConfirmation, Restart, Tick, vars
  <2> QED BY <2>1 DEF throttle, FailuresCounted
<1> QED BY <1>1, <1>2, <1>3, <1>4 DEF Next, CallStep, Progress

\* Every wrong password since the last right one is on record
\* (recordUnlockFailure, clearUnlockFailures), through restarts and for any
\* schedule of handlers, unless an error of the file was ignored since it was
\* last removed: its reading, its writing and its removal are all best effort.
THEOREM CountCorrect == Spec => []FailuresCounted
<1>1. Init => FailuresCounted
  BY DEF Init, NoAttempts, FailuresCounted
<1> QED BY <1>1, Inductive, NextCounted, PTL DEF Spec

-----------------------------------------------------------------------------
(* The imported keys.                                                      *)

\* What an Unlock, a ChangePassword or a Create knows of the keys it will put
\* to use: the copy read before the derivation still has the keys of the file,
\* as long as no import came in between; the container it sealed has the keys
\* of that copy, and that of a new space has none.
CallKeys(c) ==
    LET call == calls[c] IN
    /\ \A s \in Spaces : Rereading(c, s) /\ ~overlapped[s] =>
         call.snap.vault.keys = files[s].vault.keys
    /\ call.op = "change" /\ call.phase \in {"waitRekey", "rekey", "apply"} =>
         call.sealed.keys = call.snap.vault.keys
    /\ call.op \in Creations /\ call.phase \in {"waitRekey", "rekey", "apply"} =>
         call.sealed.keys = {}

KeyInv ==
    /\ KeysSurvive
    /\ \A c \in Callers : CallKeys(c)

\* The step gives the session of t no other keys.
KeysKept(t) ==
    sessions'[t] # None => sessions[t] # None /\ sessions'[t].keys = sessions[t].keys

\* Neither the sweep nor the refresh of the idle timer edits the payload.
LEMMA SweptKeys ==
    ASSUME TypeOK, sessions' = Expired
    PROVE  \A t \in Spaces : KeysKept(t)
BY SessionHelpers DEF KeysKept

\* Refreshing the idle time of a session leaves its keys alone.
LEMMA TouchedKeys ==
    ASSUME TypeOK, NEW s \in Spaces, Unlocked(s), sessions' = Touched(s)
    PROVE  \A t \in Spaces : KeysKept(t)
<1>1. sessions[s] \in Sessions /\ sessions[s] # None
  BY SessionHelpers, SpaceAssumption
<1>2. sessions'[s] = [sessions[s] EXCEPT !.lastUsed = clock]
  BY SessionHelpers
<1>3. sessions'[s].keys = sessions[s].keys
  BY <1>1, <1>2 DEF Sessions
<1>4. \A t \in Spaces : t # s => sessions'[t] = Expired[t]
  BY SessionHelpers
<1> QED BY <1>1, <1>3, <1>4, SessionHelpers DEF KeysKept

\* The payload after an edit, and the sessions of the other spaces.
LEMMA EditedKeys ==
    ASSUME TypeOK, NEW s \in Spaces, Unlocked(s), NEW keys, sessions' = Edited(s, keys)
    PROVE  sessions'[s].keys = keys /\ \A t \in Spaces : t # s => KeysKept(t)
<1>1. sessions[s] \in Sessions
  BY SessionHelpers
<1>2. sessions'[s] = [sessions[s] EXCEPT !.lastUsed = clock, !.keys = keys]
  BY SessionHelpers DEF Edited
<1>3. \A t \in Spaces : t # s => sessions'[t] = Expired[t]
  BY SessionHelpers DEF Edited
<1> QED BY <1>1, <1>2, <1>3, SessionHelpers DEF Sessions, KeysKept

\* A step that at most writes the file in memory to disk, and edits no payload.
LEMMA KeysStillThere ==
    ASSUME KeysSurvive, UNCHANGED <<files, overlapped>>,
           \A t \in Spaces : disk'[t] \in {disk[t], files[t]} /\ KeysKept(t)
    PROVE  KeysSurvive'
BY DEF KeysSurvive, KeysKept, Verified

\* The same for one space out of several.
LEMMA KeysStillThereAt ==
    ASSUME KeysSurvive, NEW t \in Spaces, overlapped'[t] = overlapped[t], files'[t] = files[t],
           disk'[t] \in {disk[t], files[t]}, KeysKept(t), ~overlapped'[t]
    PROVE  /\ files'[t] # None => Verified(files'[t])
           /\ disk'[t] # None => Verified(disk'[t])
           /\ sessions'[t] # None => sessions'[t].keys = files'[t].vault.keys
BY DEF KeysSurvive, KeysKept, Verified

\* A call that stands still keeps what it knows when nobody changes the keys
\* of its space unnoticed.
LEMMA OtherCallKeys ==
    ASSUME NEW d \in Callers, CallKeys(d), calls'[d] = calls[d],
           \A t \in Spaces : Rereading(d, t) /\ ~overlapped'[t] =>
             ~overlapped[t] /\ files'[t].vault.keys = files[t].vault.keys
    PROVE  CallKeys(d)'
<1>1. \A t \in Spaces : Rereading(d, t)' <=> Rereading(d, t)
  BY DEF Rereading, Holding
<1> QED BY <1>1 DEF CallKeys

\* A call that has returned knows nothing.
LEMMA ReturnedKeys ==
    ASSUME NEW c \in Callers, calls'[c] = NoCall
    PROVE  CallKeys(c)'
BY SpaceAssumption DEF CallKeys, Rereading, Holding, NoCall, AllOps

\* Two calls past lockSpace are not about the same space.
LEMMA HoldingAlone ==
    ASSUME IInv, NEW c \in Callers, NEW d \in Callers, Holding(c), Holding(d),
           calls[c].space = calls[d].space
    PROVE  c = d
BY DEF IInv, CallInv

\* When only a returning call moves and no file changes.
LEMMA KeysAtReturn ==
    ASSUME IInv, KeyInv, NEW c \in Callers, Return(c), UNCHANGED <<files, overlapped>>
    PROVE  \A d \in Callers : CallKeys(d)'
<1>1. calls'[c] = NoCall /\ \A d \in Callers : d # c => calls'[d] = calls[d]
  BY DEF Return, IInv, TypeOK
<1>2. ASSUME NEW d \in Callers, d # c PROVE CallKeys(d)'
  BY <1>1, <1>2, OtherCallKeys DEF KeyInv
<1> QED BY <1>1, <1>2, ReturnedKeys

\* When the returning call rewrote the file of a space whose lock it holds.
LEMMA KeysAtWrite ==
    ASSUME IInv, KeyInv, NEW c \in Callers, Holding(c), Return(c), UNCHANGED overlapped,
           \A t \in Spaces : t # calls[c].space => files'[t] = files[t]
    PROVE  \A d \in Callers : CallKeys(d)'
<1>1. calls'[c] = NoCall /\ \A d \in Callers : d # c => calls'[d] = calls[d]
  BY DEF Return, IInv, TypeOK
<1>2. ASSUME NEW d \in Callers, d # c PROVE CallKeys(d)'
  <2>1. \A t \in Spaces : Rereading(d, t) => t # calls[c].space
    BY <1>2, HoldingAlone DEF Rereading
  <2> QED BY <1>1, <1>2, <2>1, OtherCallKeys DEF KeyInv
<1> QED BY <1>1, <1>2, ReturnedKeys

\* Every step keeps the keys; one case per action that changes files, sessions
\* or what a call knows, the rest in groups.
LEMMA NextKeys == IInv /\ KeyInv /\ [Next]_vars => KeyInv'
<1> SUFFICES ASSUME IInv, KeyInv, [Next]_vars PROVE KeyInv'
  OBVIOUS
<1>0. /\ TypeOK /\ KeysSurvive /\ calls \in [Callers -> Calls]
      /\ files \in [Spaces -> Files \cup {None}] /\ disk \in [Spaces -> Files \cup {None}]
      /\ sessions \in [Spaces -> Sessions \cup {None}] /\ overlapped \in [Spaces -> BOOLEAN]
  BY DEF IInv, KeyInv, TypeOK
<1>1. ASSUME NEW c \in Callers, UNCHANGED <<files, disk, overlapped>>, CallKeys(c)',
             \A d \in Callers : d # c => calls'[d] = calls[d],
             \A t \in Spaces : KeysKept(t)
      PROVE  KeyInv'
  <2>1. KeysSurvive'
    BY <1>0, <1>1, KeysStillThere
  <2>2. ASSUME NEW d \in Callers, d # c PROVE CallKeys(d)'
    BY <1>1, <2>2, OtherCallKeys DEF KeyInv
  <2> QED BY <1>1, <2>1, <2>2 DEF KeyInv
<1>2. ASSUME NEW c \in Callers, StartCall(c) \/ StartCreate(c) \/ RequireSendConfirmation(c)
      PROVE  KeyInv'
  <2>1. UNCHANGED <<files, disk, overlapped>> /\ (UNCHANGED sessions \/ sessions' = Expired)
    BY <1>2 DEF StartCall, StartCreate, RequireSendConfirmation, durable
  <2>2. \A t \in Spaces : KeysKept(t)
    BY <1>0, <2>1, SweptKeys DEF KeysKept
  <2>3. \A d \in Callers : d # c => calls'[d] = calls[d]
    BY <1>0, <1>2 DEF StartCall, StartCreate, RequireSendConfirmation
  <2>4. CallKeys(c)'
    <3>1. \/ calls'[c] = NoCall \/ calls'[c].phase \in {"locking", "gated"}
          \/ calls'[c].phase = "waitSeal" /\ calls'[c].op \in Creations
      <4>1. CASE StartCall(c)
        BY <1>0, <4>1 DEF StartCall, NoCall
      <4>2. CASE StartCreate(c)
        BY <1>0, <4>2 DEF StartCreate, NoCall
      <4>3. CASE RequireSendConfirmation(c)
        <5>1. CASE calls' = calls
          BY <4>3, <5>1 DEF RequireSendConfirmation
        <5>2. CASE calls' # calls
          <6>1. PICK s \in KnownSpaces : \E r \in files[s].accounts :
                   calls' = [calls EXCEPT ![c] = [NoCall EXCEPT !.phase = "gated", !.op = "send",
                                                                !.space = s, !.ref = r]]
            BY <4>3, <5>2 DEF RequireSendConfirmation
          <6> QED BY <1>0, <6>1 DEF NoCall
        <5> QED BY <5>1, <5>2
      <4> QED BY <1>2, <4>1, <4>2, <4>3
    <3>2. calls'[c].phase = "gated" => calls'[c].op = "send"
      <4>1. IInv'
        BY NextIInv
      <4> QED BY <4>1 DEF IInv, CallInv
    <3> QED BY <3>1, <3>2, ReturnedKeys DEF CallKeys, Rereading, Holding
  <2> QED BY <1>1, <2>1, <2>2, <2>3, <2>4
<1>3. ASSUME NEW c \in Callers, LockSpace(c) PROVE KeyInv'
  <2>1. UNCHANGED <<files, disk, overlapped, sessions>>
    BY <1>3 DEF LockSpace, durable
  <2>2. \A t \in Spaces : KeysKept(t)
    BY <2>1 DEF KeysKept
  <2>3. \A d \in Callers : d # c => calls'[d] = calls[d]
    BY <1>0, <1>3 DEF LockSpace, Return
  <2>4. CallKeys(c)'
    <3>1. CASE Return(c)
      BY <1>0, <3>1, ReturnedKeys DEF Return
    <3>2. CASE ~Return(c)
      <4>1. calls' = [calls EXCEPT ![c].phase = "waitOpen", ![c].snap = files[calls[c].space]]
        BY <1>3, <3>2 DEF LockSpace
      <4>2. /\ calls'[c].phase = "waitOpen" /\ calls'[c].space = calls[c].space
            /\ calls'[c].snap = files[calls[c].space]
        BY <1>0, <4>1 DEF Calls
      <4> QED BY <2>1, <4>2 DEF CallKeys, Rereading
    <3> QED BY <3>1, <3>2
  <2> QED BY <1>1, <2>1, <2>2, <2>3, <2>4
<1>4. ASSUME NEW c \in Callers, AcquireKDF(c) \/ OpenRight(c) \/ Rekey(c) PROVE KeyInv'
  <2>1. UNCHANGED <<files, disk, overlapped, sessions>>
    BY <1>4 DEF AcquireKDF, OpenRight, Rekey, durable
  <2>2. \A t \in Spaces : KeysKept(t)
    BY <2>1 DEF KeysKept
  <2>3. /\ \A d \in Callers : d # c => calls'[d] = calls[d]
        /\ calls'[c].op = calls[c].op /\ calls'[c].space = calls[c].space
        /\ calls'[c].snap = calls[c].snap /\ calls'[c].sealed = calls[c].sealed
    <3>1. CASE AcquireKDF(c)
      BY <1>0, <3>1 DEF AcquireKDF, SetPhase, Calls
    <3>2. CASE OpenRight(c)
      BY <1>0, <3>2 DEF OpenRight, SetPhase, Calls
    <3>3. CASE Rekey(c)
      BY <1>0, <3>3 DEF Rekey, Calls
    <3> QED BY <1>4, <3>1, <3>2, <3>3
  <2>4. /\ calls[c].phase \notin {"idle", "locking"}
        /\ calls'[c].phase \in {"waitRekey", "rekey", "apply"} =>
             \/ calls[c].phase \in {"waitRekey", "rekey", "apply"}
             \/ calls[c].phase = "open" /\ calls[c].op # "change"
    <3>1. CASE AcquireKDF(c)
      BY <1>0, <3>1 DEF AcquireKDF, SetPhase, Calls, Deriving
    <3>2. CASE OpenRight(c)
      BY <1>0, <3>2 DEF OpenRight, SetPhase, Calls
    <3>3. CASE Rekey(c)
      BY <1>0, <3>3 DEF Rekey, Calls
    <3> QED BY <1>4, <3>1, <3>2, <3>3
  <2>5. calls[c].phase = "open" => calls[c].op \notin Creations
    BY DEF IInv, CallInv
  <2>6. CallKeys(c)
    BY DEF KeyInv
  <2>7. \A t \in Spaces : Rereading(c, t)' => Rereading(c, t)
    BY <2>3, <2>4 DEF Rereading, Holding
  <2>8. CallKeys(c)'
    BY <2>1, <2>3, <2>4, <2>5, <2>6, <2>7 DEF CallKeys
  <2> QED BY <1>1, <2>1, <2>2, <2>3, <2>8
<1>5. ASSUME NEW c \in Callers, Seal(c) PROVE KeyInv'
  <2> DEFINE keys == IF calls[c].op \in Creations THEN {} ELSE calls[c].snap.vault.keys
  <2>1. UNCHANGED <<files, disk, overlapped, sessions>>
    BY <1>5 DEF Seal, durable
  <2>2. \A t \in Spaces : KeysKept(t)
    BY <2>1 DEF KeysKept
  <2>3. /\ \A d \in Callers : d # c => calls'[d] = calls[d]
        /\ calls'[c].op = calls[c].op /\ calls'[c].space = calls[c].space
        /\ calls'[c].snap = calls[c].snap
        /\ calls'[c].sealed = [pw |-> calls[c].newPw, keys |-> keys]
    BY <1>0, <1>5 DEF Seal, Calls
  <2>4. \A t \in Spaces : Rereading(c, t)' => Rereading(c, t)
    BY <1>5, <2>3 DEF Seal, Rereading, Holding
  <2>5. CallKeys(c)'
    <3>1. CallKeys(c)
      BY DEF KeyInv
    <3> QED BY <2>1, <2>3, <2>4, <3>1 DEF CallKeys
  <2> QED BY <1>1, <2>1, <2>2, <2>3, <2>5
<1>6. ASSUME NEW c \in Callers,
             \/ OpenWrong(c) \/ OpenDamaged(c) \/ ConfirmSend(c) \/ Reveal(c) \/ Backup(c)
             \/ KeyCleared(c)
      PROVE  KeyInv'
  <2>1. UNCHANGED <<files, disk, overlapped>> /\ Return(c)
    BY <1>6 DEF OpenWrong, OpenDamaged, ConfirmSend, Reveal, Backup, KeyCleared, durable
  <2>2. \A t \in Spaces : KeysKept(t)
    <3>1. CASE UNCHANGED sessions \/ sessions' = Expired
      BY <1>0, <3>1, SweptKeys DEF KeysKept
    <3>2. CASE Reveal(c)
      <4>1. calls[c].space \in Spaces
        BY <3>2 DEF Reveal, At, IInv, CallInv, Holding
      <4> QED BY <1>0, <3>2, <4>1, SweptKeys, TouchedKeys DEF Reveal
    <3>3. CASE ConfirmSend(c) /\ ~(UNCHANGED sessions \/ sessions' = Expired)
      <4> DEFINE s == calls[c].space
      <4>1. s \in Spaces
        BY <3>3 DEF ConfirmSend, At, IInv, CallInv, Holding
      <4>2. /\ Expired[s] # None
            /\ sessions' = [Expired EXCEPT ![s] = [sessions[s] EXCEPT !.lastUsed = clock,
                                                                   !.grant = clock + grantTTL]]
        BY <3>3 DEF ConfirmSend
      <4>3. sessions[s] # None /\ sessions'[s].keys = sessions[s].keys
        BY <1>0, <4>1, <4>2, SessionHelpers DEF Sessions
      <4> QED BY <1>0, <4>1, <4>2, <4>3, SessionHelpers DEF KeysKept
    <3> QED BY <1>6, <3>1, <3>2, <3>3 DEF OpenWrong, OpenDamaged, Backup, KeyCleared
  <2>3. calls'[c] = NoCall /\ \A d \in Callers : d # c => calls'[d] = calls[d]
    BY <1>0, <2>1 DEF Return
  <2> QED BY <1>1, <2>1, <2>2, <2>3, ReturnedKeys
<1>7. ASSUME NEW c \in Callers, WithKey(c) PROVE KeyInv'
  <2>1. UNCHANGED <<files, disk, overlapped>>
    BY <1>7 DEF WithKey, durable
  <2>2. calls[c].space \in Spaces /\ calls[c].op = "send"
    BY <1>7 DEF WithKey, IInv, CallInv
  <2>3. \A t \in Spaces : KeysKept(t)
    BY <1>0, <1>7, <2>2, SweptKeys, TouchedKeys DEF WithKey
  <2>4. (calls'[c] = NoCall \/ calls'[c].op = "send") /\ \A d \in Callers : d # c => calls'[d] = calls[d]
    BY <1>0, <1>7, <2>2 DEF WithKey, SetPhase, Return, Calls
  <2>5. CallKeys(c)'
    BY <2>4, ReturnedKeys DEF CallKeys, Rereading, Holding
  <2> QED BY <1>1, <2>1, <2>3, <2>4, <2>5
\* A step about one space: that space is in order, the others stay as they are.
<1>8. ASSUME NEW s \in Spaces,
             \A t \in Spaces : t # s => /\ overlapped'[t] = overlapped[t] /\ files'[t] = files[t]
                                        /\ disk'[t] = disk[t] /\ KeysKept(t),
             ~overlapped'[s] =>
               /\ files'[s] # None => Verified(files'[s])
               /\ disk'[s] # None => Verified(disk'[s])
               /\ sessions'[s] # None => sessions'[s].keys = files'[s].vault.keys
      PROVE  KeysSurvive'
  <2>1. ASSUME NEW t \in Spaces, ~overlapped'[t]
        PROVE  /\ files'[t] # None => Verified(files'[t])
               /\ disk'[t] # None => Verified(disk'[t])
               /\ sessions'[t] # None => sessions'[t].keys = files'[t].vault.keys
    BY <1>0, <1>8, <2>1, KeysStillThereAt
  <2> QED BY <2>1 DEF KeysSurvive, Verified
<1>9. ASSUME NEW c \in Callers, Unlock(c) PROVE KeyInv'
  <2> DEFINE s == calls[c].space
             new == Replaced(s, calls[c].pw, calls[c].snap.vault.keys)
  <2>1. s \in Spaces /\ Known(s) /\ Holding(c) /\ Rereading(c, s)
    BY <1>9 DEF Unlock, At, IInv, CallInv, Holding, Rereading
  <2>2. UNCHANGED <<files, disk, overlapped>> /\ Return(c) /\ sessions' = [sessions EXCEPT ![s] = new]
    BY <1>9 DEF Unlock, durable
  <2>3. ~overlapped[s] => new.keys = files[s].vault.keys
    BY <2>1 DEF Replaced, FreshSession, KeyInv, CallKeys
  <2>4. KeysSurvive'
    <3>1. sessions'[s] = new /\ \A t \in Spaces : t # s => KeysKept(t)
      BY <1>0, <2>1, <2>2 DEF KeysKept
    <3>2. ~overlapped'[s] =>
            /\ files'[s] # None => Verified(files'[s])
            /\ disk'[s] # None => Verified(disk'[s])
            /\ sessions'[s] # None => sessions'[s].keys = files'[s].vault.keys
      BY <1>0, <2>1, <2>2, <2>3, <3>1 DEF KeysSurvive, Verified
    <3> QED BY <1>8, <2>1, <2>2, <3>1, <3>2
  <2>5. \A d \in Callers : CallKeys(d)'
    BY <2>2, KeysAtReturn
  <2> QED BY <2>4, <2>5 DEF KeyInv
<1>10. ASSUME NEW c \in Callers, ChangePassword(c) PROVE KeyInv'
  <2> DEFINE s == calls[c].space
             file == [files[s] EXCEPT !.vault = calls[c].sealed]
             new == Replaced(s, calls[c].newPw, calls[c].sealed.keys)
  <2>1. s \in Spaces /\ Known(s) /\ Holding(c) /\ Rereading(c, s) /\ Return(c) /\ UNCHANGED overlapped
    BY <1>10 DEF ChangePassword, At, IInv, CallInv, Holding, Rereading
  <2>2. calls[c].sealed \in Vaults /\ files[s] \in Files
    BY <1>0, <1>10, <2>1 DEF ChangePassword, At, IInv, CallInv, Known
  <2>3. file \in Files /\ file.accounts = files[s].accounts /\ file.vault = calls[c].sealed
    BY <2>2 DEF Files
  <2>4. ~overlapped[s] => calls[c].sealed.keys = files[s].vault.keys
    BY <1>10, <2>1 DEF ChangePassword, At, KeyInv, CallKeys
  <2>5. new.keys = calls[c].sealed.keys
    BY DEF Replaced, FreshSession
  <2>6. PICK outcome \in Outcomes :
           /\ Save(s, file, outcome)
           /\ sessions' = IF outcome = "ok" /\ SessionToReplace(c)
                          THEN [sessions EXCEPT ![s] = new] ELSE sessions
    BY <1>10 DEF ChangePassword
  <2> HIDE DEF new, file
  <2>7. /\ \A t \in Spaces : t # s => files'[t] = files[t] /\ disk'[t] = disk[t]
        /\ files'[s] = IF outcome = "ok" THEN file ELSE files[s]
        /\ disk'[s] = IF outcome = "failed" THEN disk[s] ELSE file
    BY <1>0, <2>1, <2>3, <2>6, SaveEffect
  <2>8. KeysSurvive'
    <3>1. \A t \in Spaces : t # s => KeysKept(t)
      BY <1>0, <2>6 DEF KeysKept
    <3>2. ~overlapped[s] => Verified(file) /\ Verified(files[s]) /\ (disk[s] # None => Verified(disk[s]))
      BY <1>0, <2>1, <2>3, <2>4 DEF KeysSurvive, Verified, Known
    \* A session that is not replaced is not there.
    <3>3. outcome = "ok" => sessions'[s] = new \/ sessions'[s] = None
      <4>1. CASE SessionToReplace(c)
        BY <1>0, <2>1, <2>6, <4>1
      <4>2. CASE ~SessionToReplace(c)
        BY <1>10, <2>1, <2>6, <4>2 DEF SessionToReplace, ChangePassword, At, IInv, CallInv
      <4> QED BY <4>1, <4>2
    <3>4. outcome # "ok" => sessions'[s] = sessions[s] /\ files'[s] = files[s]
      BY <2>6, <2>7
    <3>5. ~overlapped[s] =>
            /\ files'[s] # None => Verified(files'[s])
            /\ disk'[s] # None => Verified(disk'[s])
      BY <2>7, <3>2
    <3>6. ~overlapped[s] /\ sessions'[s] # None => sessions'[s].keys = files'[s].vault.keys
      <4>1. CASE outcome = "ok"
        BY <2>3, <2>4, <2>5, <2>7, <3>3, <4>1
      <4>2. CASE outcome # "ok"
        BY <1>0, <2>1, <3>4, <4>2 DEF KeysSurvive
      <4> QED BY <4>1, <4>2
    <3> QED BY <1>8, <2>1, <2>7, <3>1, <3>5, <3>6
  <2>9. \A d \in Callers : CallKeys(d)'
    BY <2>1, <2>7, KeysAtWrite
  <2> QED BY <2>8, <2>9 DEF KeyInv
<1>11. ASSUME NEW c \in Callers, DeleteAccount(c) PROVE KeyInv'
  <2> DEFINE s == calls[c].space
             r == calls[c].ref
             keys == sessions[s].keys \ {r}
             file == Resealed(s, files[s].accounts \ {r}, keys)
  <2>1. s \in Spaces /\ Known(s) /\ Holding(c) /\ Return(c) /\ UNCHANGED overlapped
    BY <1>11 DEF DeleteAccount, At, IInv, CallInv, Holding
  <2>2. CASE Unlocked(s) /\ r \in files[s].accounts
    <3>1. PICK outcome \in Outcomes :
             Save(s, file, outcome) /\ sessions' = Edited(s, KeysAfterWrite(s, keys, outcome))
      BY <1>11, <2>2 DEF DeleteAccount
    <3>2. sessions[s] \in Sessions /\ sessions[s] # None /\ files[s] \in Files
      BY <1>0, <2>1, <2>2, SessionHelpers, SpaceAssumption DEF Known
    <3>3. file \in Files /\ file.accounts = files[s].accounts \ {r} /\ file.vault.keys = keys
      BY <3>2 DEF Resealed, Files, Vaults, Sessions
    <3>4. ~overlapped[s] => /\ Verified(file) /\ Verified(files[s]) /\ (disk[s] # None => Verified(disk[s]))
                            /\ sessions[s].keys = files[s].vault.keys
      BY <1>0, <2>1, <3>2, <3>3 DEF KeysSurvive, Verified, Known
    <3>5. sessions'[s].keys = KeysAfterWrite(s, keys, outcome) /\ \A t \in Spaces : t # s => KeysKept(t)
      BY <1>0, <2>1, <2>2, <3>1, EditedKeys
    <3> HIDE DEF file
    <3>6. /\ \A t \in Spaces : t # s => files'[t] = files[t] /\ disk'[t] = disk[t]
          /\ files'[s] = IF outcome = "ok" THEN file ELSE files[s]
          /\ disk'[s] = IF outcome = "failed" THEN disk[s] ELSE file
      BY <1>0, <2>1, <3>1, <3>3, SaveEffect
    <3>7. ~overlapped[s] => sessions'[s].keys = files'[s].vault.keys
      BY <3>3, <3>4, <3>5, <3>6 DEF KeysAfterWrite
    <3>8. ~overlapped[s] => Verified(files'[s]) /\ (disk'[s] # None => Verified(disk'[s]))
      BY <3>4, <3>6
    <3>9. KeysSurvive'
      BY <1>8, <2>1, <3>5, <3>6, <3>7, <3>8
    <3>10. \A d \in Callers : CallKeys(d)'
      BY <2>1, <3>6, KeysAtWrite
    <3> QED BY <3>9, <3>10 DEF KeyInv
  <2>3. CASE ~(Unlocked(s) /\ r \in files[s].accounts)
    <3>1. UNCHANGED <<files, disk>> /\ sessions' = IF Unlocked(s) THEN Touched(s) ELSE Expired
      BY <1>11, <2>3 DEF DeleteAccount
    <3>2. \A t \in Spaces : KeysKept(t)
      BY <1>0, <2>1, <3>1, SweptKeys, TouchedKeys
    <3>3. KeysSurvive'
      BY <1>0, <2>1, <3>1, <3>2, KeysStillThere
    <3> QED BY <2>1, <3>1, <3>3, KeysAtReturn DEF KeyInv
  <2> QED BY <2>2, <2>3
<1>12. ASSUME NEW c \in Callers, Create(c) PROVE KeyInv'
  <2> DEFINE file == [accounts |-> {}, vault |-> calls[c].sealed]
             new == [FreshSession(file.vault.pw, {}) EXCEPT !.lastUsed = calls[c].since,
                                                           !.opened = clock]
  <2>1. Return(c) /\ UNCHANGED overlapped /\ calls[c].sealed \in Vaults /\ calls[c].sealed.keys = {}
    BY <1>12 DEF Create, IInv, CallInv, KeyInv, CallKeys
  <2>2. CASE UNCHANGED <<files, disk, sessions>>
    <3>1. KeysSurvive'
      BY <1>0, <2>1, <2>2, KeysStillThere DEF KeysKept
    <3> QED BY <2>1, <2>2, <3>1, KeysAtReturn DEF KeyInv
  <2>3. CASE ~UNCHANGED <<files, disk, sessions>>
    <3>1. PICK s \in Spaces, outcome \in Outcomes :
             /\ files[s] = None /\ disk[s] = None
             /\ Save(s, file, outcome)
             /\ sessions' = IF outcome = "ok" THEN [sessions EXCEPT ![s] = new] ELSE sessions
      BY <1>12, <2>3 DEF Create
    <3>2. file \in Files /\ Verified(file) /\ file.vault.keys = {} /\ new.keys = {}
      BY <2>1 DEF Files, Verified, FreshSession
    <3>3. sessions[s] = None
      BY <3>1 DEF IInv, SessionKeyOpensVault, Known
    <3> HIDE DEF file, new
    <3>4. /\ \A t \in Spaces : t # s => files'[t] = files[t] /\ disk'[t] = disk[t]
          /\ files'[s] = IF outcome = "ok" THEN file ELSE files[s]
          /\ disk'[s] = IF outcome = "failed" THEN disk[s] ELSE file
      BY <1>0, <3>1, <3>2, SaveEffect
    <3>5. \A t \in Spaces : t # s => KeysKept(t)
      BY <1>0, <3>1 DEF KeysKept
    <3>6. sessions'[s] # None => outcome = "ok" /\ sessions'[s] = new
      BY <1>0, <3>1, <3>3
    <3>7. KeysSurvive'
      BY <1>8, <2>1, <3>1, <3>2, <3>4, <3>5, <3>6
    <3>8. calls'[c] = NoCall /\ \A d \in Callers : d # c => calls'[d] = calls[d]
      BY <1>0, <2>1 DEF Return
    <3>9. ASSUME NEW d \in Callers, d # c PROVE CallKeys(d)'
      <4>1. \A t \in Spaces : Rereading(d, t) => t # s
        BY <3>1 DEF Rereading, IInv, CallInv, Known
      <4> QED BY <2>1, <3>4, <3>8, <3>9, <4>1, OtherCallKeys DEF KeyInv
    <3> QED BY <3>7, <3>8, <3>9, ReturnedKeys DEF KeyInv
  <2> QED BY <2>2, <2>3
<1>13. ASSUME UNCHANGED <<calls, files, overlapped>>,
              \A t \in Spaces : disk'[t] \in {disk[t], files[t]} /\ KeysKept(t)
       PROVE  KeyInv'
  <2>1. KeysSurvive'
    BY <1>0, <1>13, KeysStillThere
  <2>2. ASSUME NEW d \in Callers PROVE CallKeys(d)'
    BY <1>13, OtherCallKeys DEF KeyInv
  <2> QED BY <2>1, <2>2 DEF KeyInv
<1>14. ASSUME NEW s \in Spaces, ImportNetworks(s) PROVE KeyInv'
  <2>1. CASE Unlocked(s) /\ Cardinality(files[s].accounts) < MaxAccounts
    <3>1. PICK r \in KeyRefs, outcome \in Outcomes :
             /\ overlapped' = [overlapped EXCEPT ![s] = @ \/ \E c \in Callers : Rereading(c, s)]
             /\ Save(s, Resealed(s, files[s].accounts \cup {r}, sessions[s].keys \cup {r}), outcome)
             /\ sessions' = Edited(s, KeysAfterWrite(s, sessions[s].keys \cup {r}, outcome))
      BY <1>14, <2>1 DEF ImportNetworks
    <3> DEFINE keys == sessions[s].keys \cup {r}
               file == Resealed(s, files[s].accounts \cup {r}, keys)
    <3>2. sessions[s] \in Sessions /\ sessions[s] # None /\ Known(s) /\ files[s] \in Files
      BY <1>0, <2>1, SessionHelpers, SpaceAssumption DEF Known
    <3>3. file \in Files /\ file.accounts = files[s].accounts \cup {r} /\ file.vault.keys = keys
      BY <3>2 DEF Resealed, Files, Vaults, Sessions
    <3>4. ~overlapped[s] => /\ Verified(file) /\ Verified(files[s]) /\ (disk[s] # None => Verified(disk[s]))
                            /\ sessions[s].keys = files[s].vault.keys
      BY <1>0, <3>2, <3>3 DEF KeysSurvive, Verified, Known
    <3>5. sessions'[s].keys = KeysAfterWrite(s, keys, outcome) /\ \A t \in Spaces : t # s => KeysKept(t)
      BY <1>0, <2>1, <3>1, EditedKeys
    <3>6. /\ \A t \in Spaces : t # s => files'[t] = files[t] /\ disk'[t] = disk[t]
          /\ files'[s] = IF outcome = "ok" THEN file ELSE files[s]
          /\ disk'[s] = IF outcome = "failed" THEN disk[s] ELSE file
      BY <1>0, <3>1, <3>3, SaveEffect
    <3> HIDE DEF file
    <3>7. /\ \A t \in Spaces : t # s => overlapped'[t] = overlapped[t]
          /\ ~overlapped'[s] => ~overlapped[s] /\ \A c \in Callers : ~Rereading(c, s)
      BY <1>0, <3>1
    <3>8. ~overlapped[s] => sessions'[s].keys = files'[s].vault.keys
      BY <3>3, <3>4, <3>5, <3>6 DEF KeysAfterWrite
    <3>9. ~overlapped[s] => Verified(files'[s]) /\ (disk'[s] # None => Verified(disk'[s]))
      BY <3>4, <3>6
    <3>10. KeysSurvive'
      BY <1>8, <3>5, <3>6, <3>7, <3>8, <3>9
    <3>11. ASSUME NEW d \in Callers PROVE CallKeys(d)'
      <4>1. calls'[d] = calls[d]
        BY <1>14 DEF ImportNetworks
      <4>2. \A t \in Spaces : Rereading(d, t) /\ ~overlapped'[t] =>
               ~overlapped[t] /\ files'[t].vault.keys = files[t].vault.keys
        BY <3>6, <3>7
      <4> QED BY <4>1, <4>2, OtherCallKeys DEF KeyInv
    <3> QED BY <3>10, <3>11 DEF KeyInv
  <2>2. CASE ~(Unlocked(s) /\ Cardinality(files[s].accounts) < MaxAccounts)
    <3>1. /\ UNCHANGED <<calls, files, disk, overlapped>>
          /\ sessions' = IF Unlocked(s) THEN Touched(s) ELSE Expired
      BY <1>14, <2>2 DEF ImportNetworks, durable
    <3>2. \A t \in Spaces : KeysKept(t)
      BY <1>0, <3>1, SweptKeys, TouchedKeys
    <3> QED BY <1>13, <3>1, <3>2
  <2> QED BY <2>1, <2>2
<1>15. ASSUME NEW s \in Spaces, DeriveNetworks(s) \/ EditFile(s) PROVE KeyInv'
  <2>1. UNCHANGED <<calls, overlapped>> /\ Known(s)
    BY <1>15 DEF DeriveNetworks, EditFile
  <2>2. UNCHANGED <<files, disk>> \/ \E outcome \in Outcomes : Save(s, files[s], outcome)
    BY <1>15 DEF DeriveNetworks, EditFile
  <2>3. UNCHANGED files /\ \A t \in Spaces : disk'[t] \in {disk[t], files[t]}
    BY <1>0, <2>2 DEF Save
  <2>4. \A t \in Spaces : KeysKept(t)
    <3>1. \/ UNCHANGED sessions \/ sessions' = Expired
          \/ Unlocked(s) /\ sessions' = Touched(s)
      BY <1>15 DEF DeriveNetworks, EditFile
    <3> QED BY <1>0, <3>1, SweptKeys, TouchedKeys DEF KeysKept
  <2> QED BY <1>13, <2>1, <2>3, <2>4
<1>16. ASSUME \/ \E s \in Spaces : Lock(s)
              \/ List \/ Sweep \/ Rearm \/ SetAutoLock \/ SetSendConfirmation \/ Tick \/ UNCHANGED vars
       PROVE  KeyInv'
  <2>1. UNCHANGED <<calls, files, disk, overlapped>>
    BY <1>16 DEF Lock, List, Sweep, Rearm, SetAutoLock, SetSendConfirmation, Tick, vars, durable
  <2>2. \A t \in Spaces : sessions'[t] \in {sessions[t], None}
    BY <1>0, <1>16 DEF Lock, List, Sweep, Rearm, Expired, SetAutoLock, SetSendConfirmation, Tick, vars
  <2> QED BY <1>13, <2>1, <2>2 DEF KeysKept
<1>17. CASE Restart
  <2>1. KeysSurvive'
    BY <1>0, <1>17 DEF Restart, KeysSurvive, Verified
  <2> QED BY <1>17, <2>1, ReturnedKeys DEF Restart, KeyInv
<1> QED
  BY <1>2, <1>3, <1>4, <1>5, <1>6, <1>7, <1>9, <1>10, <1>11, <1>12, <1>14, <1>15, <1>16, <1>17
  DEF Next, CallStep, Progress, SpaceStep

\* No imported key is lost (ImportNetworks, DeleteAccount, ChangePassword,
\* saveLocked, NewManager's scan): account and key stay together in memory and
\* on disk through deletions, failed writes, password changes and restarts,
\* for any number of handlers, unless a key came in during an Unlock or a
\* ChangePassword of its space.
THEOREM KeysCorrect == Spec => []KeysSurvive
<1>1. Init => KeyInv
  BY ReturnedKeys, SpaceAssumption
     DEF Init, KeyInv, KeysSurvive, CallKeys, Rereading, Holding, NoCall, AllOps
<1> QED BY <1>1, Inductive, NextKeys, PTL DEF Spec, KeyInv

-----------------------------------------------------------------------------
(* What a step may do to a session.                                        *)

\* A session that is there after a step, and was not there in this form
\* before it, was alive, or was made by the call that returns in this step.
SessionStep(t) ==
    sessions'[t] # None /\ sessions'[t] # sessions[t] =>
        \/ sessions[t] # None /\ ~Lapsed(t)
        \/ \E c \in Callers : Unlock(c) /\ calls[c].space = t
        \/ \E c \in Callers : ChangePassword(c) /\ calls[c].space = t /\ SessionToReplace(c)
        \/ \E c \in Callers : Create(c) /\ files[t] = None

\* The sweep leaves alive sessions only, and unlockedLocked refreshes an alive
\* one.
LEMMA SweptAlive ==
    ASSUME TypeOK, NEW s \in Spaces, NEW t \in Spaces, NEW new,
           \/ sessions' = Expired
           \/ Expired[s] # None /\ sessions' = [Expired EXCEPT ![s] = new],
           sessions'[t] # None
    PROVE  sessions[t] # None /\ ~Lapsed(t)
<1>1. \A u \in Spaces : Expired[u] # None => sessions[u] # None /\ ~Lapsed(u)
  BY DEF Expired
<1>2. Expired[t] # None
  BY SessionHelpers
<1> QED BY <1>1, <1>2

\* Every step treats every session in that way; one case per action that
\* touches sessions, the rest in groups.
LEMMA NextSession == IInv /\ [Next]_vars => \A t \in Spaces : SessionStep(t)
<1> SUFFICES ASSUME IInv, [Next]_vars, NEW t \in Spaces PROVE SessionStep(t)
  OBVIOUS
<1>0. TypeOK /\ sessions \in [Spaces -> Sessions \cup {None}]
  BY DEF IInv, TypeOK
<1>1. ASSUME NEW s \in Spaces, NEW new,
             \/ sessions' = Expired
             \/ Expired[s] # None /\ sessions' = [Expired EXCEPT ![s] = new]
      PROVE  SessionStep(t)
  BY <1>0, <1>1, SweptAlive DEF SessionStep
<1>2. ASSUME NEW s \in Spaces, sessions' = IF Unlocked(s) THEN Touched(s) ELSE Expired
      PROVE  SessionStep(t)
  BY <1>1, <1>2 DEF Unlocked, Touched
<1>3. ASSUME NEW c \in Callers, Unlock(c) PROVE SessionStep(t)
  BY <1>0, <1>3 DEF Unlock, SessionStep
<1>4. ASSUME NEW c \in Callers, ChangePassword(c) PROVE SessionStep(t)
  <2>1. \/ UNCHANGED sessions
        \/ SessionToReplace(c) /\ sessions' = [sessions EXCEPT ![calls[c].space] =
             Replaced(calls[c].space, calls[c].newPw, calls[c].sealed.keys)]
    BY <1>4 DEF ChangePassword
  <2> QED BY <1>0, <1>4, <2>1 DEF SessionStep
<1>5. ASSUME NEW c \in Callers, Create(c) PROVE SessionStep(t)
  <2>1. \/ UNCHANGED sessions
        \/ \E s \in Spaces, new \in {[FreshSession(calls[c].sealed.pw, {})
                                        EXCEPT !.lastUsed = calls[c].since, !.opened = clock]} :
             files[s] = None /\ sessions' = [sessions EXCEPT ![s] = new]
    BY <1>5 DEF Create
  <2> QED BY <1>0, <1>5, <2>1 DEF SessionStep
<1>6. ASSUME NEW c \in Callers, ConfirmSend(c) PROVE SessionStep(t)
  <2>1. calls[c].space \in Spaces
    BY <1>6 DEF ConfirmSend, At, IInv, CallInv, Holding
  <2>2. CASE UNCHANGED sessions
    BY <2>2 DEF SessionStep
  <2>3. CASE ~UNCHANGED sessions
    BY <1>1, <1>6, <2>1, <2>3 DEF ConfirmSend
  <2> QED BY <2>2, <2>3
<1>7. ASSUME NEW c \in Callers, Reveal(c) \/ WithKey(c) PROVE SessionStep(t)
  <2>1. calls[c].space \in Spaces
    BY <1>7 DEF Reveal, WithKey, At, IInv, CallInv, Holding
  <2> QED BY <1>2, <1>7, <2>1 DEF Reveal, WithKey
<1>8. ASSUME NEW c \in Callers, DeleteAccount(c) PROVE SessionStep(t)
  <2>1. calls[c].space \in Spaces
    BY <1>8 DEF DeleteAccount, At, IInv, CallInv, Holding
  <2> DEFINE s == calls[c].space
  <2>2. CASE Unlocked(s) /\ calls[c].ref \in files[s].accounts
    <3>1. PICK keys \in {KeysAfterWrite(s, sessions[s].keys \ {calls[c].ref}, o) : o \in Outcomes} :
             sessions' = Edited(s, keys)
      BY <1>8, <2>2 DEF DeleteAccount
    <3> QED BY <1>1, <2>1, <2>2, <3>1 DEF Edited, Unlocked
  <2>3. CASE ~(Unlocked(s) /\ calls[c].ref \in files[s].accounts)
    BY <1>2, <1>8, <2>1, <2>3 DEF DeleteAccount
  <2> QED BY <2>2, <2>3
<1>9. ASSUME NEW s \in Spaces, ImportNetworks(s) PROVE SessionStep(t)
  <2>1. CASE Unlocked(s) /\ Cardinality(files[s].accounts) < MaxAccounts
    <3>1. PICK r \in KeyRefs, outcome \in Outcomes :
             sessions' = Edited(s, KeysAfterWrite(s, sessions[s].keys \cup {r}, outcome))
      BY <1>9, <2>1 DEF ImportNetworks
    <3> QED BY <1>1, <2>1, <3>1 DEF Edited, Unlocked
  <2>2. CASE ~(Unlocked(s) /\ Cardinality(files[s].accounts) < MaxAccounts)
    BY <1>2, <1>9, <2>2 DEF ImportNetworks
  <2> QED BY <2>1, <2>2
<1>10. ASSUME NEW s \in Spaces, DeriveNetworks(s) PROVE SessionStep(t)
  BY <1>2, <1>10 DEF DeriveNetworks
<1>11. ASSUME NEW c \in Callers, RequireSendConfirmation(c) PROVE SessionStep(t)
  BY <1>1, <1>11 DEF RequireSendConfirmation
<1>12. ASSUME NEW c \in Callers,
              \/ StartCall(c) \/ StartCreate(c) \/ LockSpace(c) \/ AcquireKDF(c) \/ OpenWrong(c)
              \/ OpenDamaged(c) \/ OpenRight(c) \/ Seal(c) \/ Rekey(c) \/ Backup(c) \/ KeyCleared(c)
       PROVE  SessionStep(t)
  <2>1. UNCHANGED sessions
    BY <1>12 DEF StartCall, StartCreate, LockSpace, AcquireKDF, OpenWrong, OpenDamaged, OpenRight,
                 Seal, Rekey, Backup, KeyCleared
  <2> QED BY <2>1 DEF SessionStep
<1>13. ASSUME \/ \E s \in Spaces : Lock(s) \/ EditFile(s)
              \/ List \/ Sweep \/ Rearm \/ SetAutoLock \/ SetSendConfirmation \/ Restart \/ Tick \/ UNCHANGED vars
       PROVE  SessionStep(t)
  <2>1. sessions'[t] \in {sessions[t], None}
    BY <1>0, <1>13 DEF Lock, EditFile, List, Sweep, Rearm, Expired, SetAutoLock, SetSendConfirmation, Restart,
                       Tick, vars
  <2> QED BY <2>1 DEF SessionStep
<1> QED
  BY <1>3, <1>4, <1>5, <1>6, <1>7, <1>8, <1>9, <1>10, <1>11, <1>12, <1>13
  DEF Next, CallStep, Progress, SpaceStep

\* Only an Unlock with the password of the vault, or a Create, opens a session
\* where there was none: a ChangePassword never does, whatever was locked or
\* swept while it derived its keys, for any number of handlers and spaces.
THEOREM OnlyUnlockOpens == Spec => OnlyUnlockOpensSession
<1> DEFINE Opened ==
      \A s \in Spaces : sessions[s] = None /\ sessions'[s] # None =>
         \E c \in Callers :
            /\ calls[c].phase = "apply" /\ calls'[c] = NoCall
            /\ \/ calls[c].op = "unlock" /\ calls[c].space = s /\ calls[c].pw = files[s].vault.pw
               \/ calls[c].op \in Creations /\ files[s] = None
<1>1. ASSUME IInv, [Next]_vars, NEW s \in Spaces, sessions[s] = None, sessions'[s] # None
      PROVE  \E c \in Callers :
               /\ calls[c].phase = "apply" /\ calls'[c] = NoCall
               /\ \/ calls[c].op = "unlock" /\ calls[c].space = s /\ calls[c].pw = files[s].vault.pw
                  \/ calls[c].op \in Creations /\ files[s] = None
  <2>0. calls \in [Callers -> Calls] /\ \A d \in Callers : CallInv(d)
    BY <1>1 DEF IInv, TypeOK
  <2>1. \/ \E c \in Callers : Unlock(c) /\ calls[c].space = s
        \/ \E c \in Callers : Create(c) /\ files[s] = None
    BY <1>1, NextSession DEF SessionStep, SessionToReplace
  <2>2. ASSUME NEW c \in Callers, Unlock(c), calls[c].space = s
        PROVE  /\ calls[c].phase = "apply" /\ calls'[c] = NoCall
               /\ calls[c].op = "unlock" /\ calls[c].space = s /\ calls[c].pw = files[s].vault.pw
    BY <2>0, <2>2 DEF Unlock, At, Return, CallInv, Holding
  <2>3. ASSUME NEW c \in Callers, Create(c)
        PROVE  calls[c].phase = "apply" /\ calls'[c] = NoCall /\ calls[c].op \in Creations
    BY <2>0, <2>3 DEF Create, Return
  <2> QED BY <2>1, <2>2, <2>3
<1>2. IInv /\ [Next]_vars => [Opened]_vars
  BY <1>1
<1> QED BY <1>2, Inductive, PTL DEF Spec, OnlyUnlockOpensSession

\* A session past its idle deadline gives nothing away without the password
\* before the sweep comes by (expireLocked at the head of every use of a session
\* but ChangePassword's and Unlock's, which were given the password), for any
\* number of spaces and handlers and any duration.
THEOREM LapsedIsClosed == Spec => LapsedNeedsPassword
<1> DEFINE Closed ==
      /\ \A c \in Callers :
           calls'[c].phase \in {"gated", "lent"} /\ calls'[c].phase # calls[c].phase
             => ~Lapsed(calls'[c].space)
      /\ \A s \in Spaces : Lapsed(s) /\ sessions'[s] \notin {None, sessions[s]} =>
           /\ sessions'[s].grant = 0
           /\ \E c \in Callers :
                /\ calls[c].phase = "apply" /\ calls[c].space = s
                /\ calls[c].op \in {"unlock", "change"} /\ calls[c].pw = files[s].vault.pw
<1>1. ASSUME IInv, [Next]_vars, NEW c \in Callers, calls'[c].phase \in {"gated", "lent"},
             calls'[c].phase # calls[c].phase
      PROVE  ~Lapsed(calls'[c].space)
  <2>0. calls \in [Callers -> Calls]
    BY <1>1 DEF IInv, TypeOK
  <2>1. \/ RequireSendConfirmation(c) \/ WithKey(c)
    <3>1. ASSUME NEW d \in Callers, \/ OpenWrong(d) \/ OpenDamaged(d) \/ Unlock(d)
                 \/ ChangePassword(d) \/ ConfirmSend(d) \/ Reveal(d) \/ Backup(d)
                 \/ DeleteAccount(d) \/ Create(d) \/ KeyCleared(d)
          PROVE  FALSE
      <4>1. Return(d)
        BY <3>1 DEF OpenWrong, OpenDamaged, Unlock, ChangePassword, ConfirmSend, Reveal, Backup,
                    DeleteAccount, Create, KeyCleared
      <4> QED BY <1>1, <2>0, <4>1 DEF Return, NoCall
    <3>2. ASSUME NEW d \in Callers, StartCall(d) PROVE FALSE
      BY <1>1, <2>0, <3>2 DEF StartCall, NoCall
    <3>3. ASSUME NEW d \in Callers, StartCreate(d) PROVE FALSE
      BY <1>1, <2>0, <3>3 DEF StartCreate, NoCall
    <3>4. ASSUME NEW d \in Callers, LockSpace(d) PROVE FALSE
      BY <1>1, <2>0, <3>4 DEF LockSpace, Return, NoCall, Calls
    <3>5. ASSUME NEW d \in Callers, AcquireKDF(d) \/ OpenRight(d) \/ Seal(d) \/ Rekey(d) PROVE FALSE
      BY <1>1, <2>0, <3>5 DEF AcquireKDF, OpenRight, Seal, Rekey, SetPhase, Deriving, Calls
    <3>6. ASSUME NEW d \in Callers, d # c, RequireSendConfirmation(d) \/ WithKey(d) PROVE FALSE
      BY <1>1, <2>0, <3>6 DEF RequireSendConfirmation, WithKey, SetPhase, Return
    <3>7. ASSUME \/ \E s \in Spaces : SpaceStep(s)
                 \/ List \/ Sweep \/ Rearm \/ SetAutoLock \/ SetSendConfirmation \/ Tick \/ UNCHANGED vars
          PROVE  FALSE
      BY <1>1, <3>7 DEF SpaceStep, Lock, ImportNetworks, DeriveNetworks, EditFile, List, Sweep,
                        Rearm, SetAutoLock, SetSendConfirmation, Tick, vars
    <3>8. ~Restart
      BY <1>1 DEF Restart, NoCall
    <3> QED BY <1>1, <3>1, <3>2, <3>3, <3>4, <3>5, <3>6, <3>7, <3>8 DEF Next, CallStep, Progress
  <2>2. CASE RequireSendConfirmation(c)
    <3>1. PICK s \in Spaces : Expired[s] # None /\ calls'[c].space = s
      BY <1>1, <2>0, <2>2 DEF RequireSendConfirmation, KnownSpaces, NoCall
    <3> QED BY <3>1 DEF Expired
  <2>3. CASE WithKey(c)
    <3>1. calls[c].space \in Spaces
      BY <1>1, <2>3 DEF WithKey, IInv, CallInv
    <3>2. Unlocked(calls[c].space) /\ calls'[c].space = calls[c].space
      BY <1>1, <2>0, <2>3 DEF WithKey, SetPhase, Return, NoCall, Calls
    <3> QED BY <3>1, <3>2 DEF Unlocked, Expired
  <2> QED BY <2>1, <2>2, <2>3
<1>2. ASSUME IInv, [Next]_vars, NEW s \in Spaces, Lapsed(s), sessions'[s] \notin {None, sessions[s]}
      PROVE  /\ sessions'[s].grant = 0
             /\ \E c \in Callers :
                  /\ calls[c].phase = "apply" /\ calls[c].space = s
                  /\ calls[c].op \in {"unlock", "change"} /\ calls[c].pw = files[s].vault.pw
  <2>0. /\ sessions \in [Spaces -> Sessions \cup {None}] /\ sessions[s] # None /\ Known(s)
        /\ \A c \in Callers : CallInv(c)
    BY <1>2 DEF IInv, TypeOK, Lapsed, LapsedUnder, SessionKeyOpensVault
  <2>1. \/ \E c \in Callers : Unlock(c) /\ calls[c].space = s
        \/ \E c \in Callers : ChangePassword(c) /\ calls[c].space = s
    BY <1>2, <2>0, NextSession DEF SessionStep, Known
  <2>2. ASSUME NEW c \in Callers, Unlock(c), calls[c].space = s
        PROVE  /\ calls[c].phase = "apply" /\ calls[c].op = "unlock" /\ sessions'[s].grant = 0
               /\ calls[c].pw = files[s].vault.pw
    BY <2>0, <2>2 DEF Unlock, At, Replaced, FreshSession, CallInv, Holding
  <2>3. ASSUME NEW c \in Callers, ChangePassword(c), calls[c].space = s
        PROVE  /\ calls[c].phase = "apply" /\ calls[c].op = "change" /\ sessions'[s].grant = 0
               /\ calls[c].pw = files[s].vault.pw
    BY <1>2, <2>0, <2>3 DEF ChangePassword, At, Replaced, FreshSession, CallInv, Holding
  <2> QED BY <2>1, <2>2, <2>3
<1>3. IInv /\ [Next]_vars => [Closed]_vars
  BY <1>1, <1>2
<1> QED BY <1>3, Inductive, PTL DEF Spec, LapsedNeedsPassword

-----------------------------------------------------------------------------
(* The timer of lockLoop.                                                  *)

\* The session of s ends in time: it is alive, or just opened by a Create,
\* while the timer waits to be set anew; and the timer, once set, fires within
\* one pause of its deadline, or of its opening.
InTime(s) ==
    /\ rearm => \/ clock < sessions[s].lastUsed + autoLock
                \/ clock <= sessions[s].opened
    /\ ~rearm => \/ sweepAt < sessions[s].lastUsed + autoLock + lockInterval(autoLock)
                 \/ sweepAt <= sessions[s].opened + lockInterval(autoLock)

\* The timer has not been missed and was not set too far ahead.
TimerSet == ~rearm => clock <= sweepAt /\ sweepAt <= clock + lockInterval(autoLock)

TimerInv == TimerSet /\ \A s \in Spaces : sessions[s] # None => InTime(s)

\* A session that is there after a step was used or opened in it, or has the
\* times it had.
TimesKept(t) ==
    sessions'[t] # None =>
        \/ /\ sessions[t] # None
           /\ sessions'[t].lastUsed = sessions[t].lastUsed
           /\ sessions'[t].opened = sessions[t].opened
        \/ sessions'[t].lastUsed = clock
        \/ sessions'[t].opened = clock

\* A step that leaves clock and timer alone.
LEMMA TimerKept ==
    ASSUME IInv, TimerInv, UNCHANGED <<clock, autoLock, sweepAt, rearm>>,
           \A t \in Spaces : TimesKept(t)
    PROVE  TimerInv'
<1>1. TimerSet'
  BY DEF TimerInv, TimerSet
<1>2. ASSUME NEW t \in Spaces, sessions'[t] # None PROVE InTime(t)'
  <2>1. /\ clock \in Nat /\ sweepAt \in Nat /\ autoLock \in Nat \ {0}
        /\ lockInterval(autoLock) \in Nat \ {0}
    BY IntervalType, SpaceAssumption DEF IInv, TypeOK
  <2>2. lockInterval(autoLock)' = lockInterval(autoLock)
    OBVIOUS
  <2>3. CASE sessions'[t].lastUsed = clock \/ sessions'[t].opened = clock
    <3>1. CASE rearm
      BY <2>1, <2>3, <3>1 DEF InTime
    <3>2. CASE ~rearm
      BY <2>1, <2>2, <2>3, <3>2 DEF InTime, TimerInv, TimerSet
    <3> QED BY <3>1, <3>2
  <2>4. CASE /\ sessions[t] # None
             /\ sessions'[t].lastUsed = sessions[t].lastUsed
             /\ sessions'[t].opened = sessions[t].opened
    <3>1. InTime(t)
      BY <2>4 DEF TimerInv
    <3> QED BY <2>2, <2>4, <3>1 DEF InTime
  <2> QED BY <1>2, <2>3, <2>4 DEF TimesKept
<1> QED BY <1>1, <1>2 DEF TimerInv

\* The sweep, and one use of a session that is alive.
LEMMA UsedTimes ==
    ASSUME TypeOK, NEW s \in Spaces, NEW new,
           \/ sessions' = Expired
           \/ Expired[s] # None /\ new.lastUsed = clock /\ sessions' = [Expired EXCEPT ![s] = new]
    PROVE  \A t \in Spaces : TimesKept(t)
<1>1. \A t \in Spaces : Expired[t] # None => Expired[t] = sessions[t]
  BY SessionHelpers
<1> QED BY <1>1, SessionHelpers DEF TimesKept

\* A sweep leaves nothing but sessions that are alive.
LEMMA SweptInTime ==
    ASSUME TypeOK, sessions' = Expired, NEW t \in Spaces, sessions'[t] # None
    PROVE  /\ sessions'[t] = sessions[t] /\ sessions[t] \in Sessions
           /\ clock < sessions[t].lastUsed + autoLock
<1>1. sessions'[t] = sessions[t] /\ ~Lapsed(t) /\ sessions[t] # None /\ sessions[t] \in Sessions
  BY DEF Expired, TypeOK
<1>2. sessions[t].lastUsed \in Nat /\ clock \in Nat /\ autoLock \in Nat
  BY <1>1, SpaceAssumption DEF TypeOK, Sessions
<1> QED BY <1>1, <1>2 DEF Lapsed, LapsedUnder

\* Every step keeps the timer in time; one case per action that sets it, moves
\* the clock or writes a session, the rest in groups.
LEMMA NextTimer == IInv /\ TimerInv /\ [Next]_vars => TimerInv'
<1> SUFFICES ASSUME IInv, TimerInv, [Next]_vars PROVE TimerInv'
  OBVIOUS
<1>0. /\ TypeOK /\ sessions \in [Spaces -> Sessions \cup {None}]
      /\ clock \in Nat /\ sweepAt \in Nat /\ autoLock \in Nat \ {0}
      /\ lockInterval(autoLock) \in Nat \ {0}
  BY IntervalType, SpaceAssumption DEF IInv, TypeOK
<1>1. ASSUME NEW s \in Spaces, NEW new, UNCHANGED <<clock, autoLock, sweepAt, rearm>>,
             \/ sessions' = Expired
             \/ Expired[s] # None /\ new.lastUsed = clock /\ sessions' = [Expired EXCEPT ![s] = new]
      PROVE  TimerInv'
  BY <1>0, <1>1, UsedTimes, TimerKept
<1>2. ASSUME NEW s \in Spaces, UNCHANGED <<clock, autoLock, sweepAt, rearm>>,
             \/ sessions' = Expired
             \/ Unlocked(s) /\ sessions' = Touched(s)
             \/ Unlocked(s) /\ \E keys : sessions' = Edited(s, keys)
      PROVE  TimerInv'
  <2>1. CASE sessions' = Expired
    BY <1>1, <1>2, <2>1
  <2>2. CASE Unlocked(s) /\ sessions' = Touched(s)
    <3> DEFINE new == [sessions[s] EXCEPT !.lastUsed = clock]
    <3>1. sessions[s] \in Sessions /\ Expired[s] # None
      BY <1>0, <2>2, SessionHelpers DEF Unlocked
    <3>2. new.lastUsed = clock /\ sessions' = [Expired EXCEPT ![s] = new]
      BY <2>2, <3>1 DEF Touched, Sessions
    <3> HIDE DEF new
    <3> QED BY <1>1, <1>2, <3>1, <3>2
  <2>3. ASSUME Unlocked(s), NEW keys, sessions' = Edited(s, keys) PROVE TimerInv'
    <3> DEFINE new == [sessions[s] EXCEPT !.lastUsed = clock, !.keys = keys]
    <3>1. sessions[s] \in Sessions /\ Expired[s] # None
      BY <1>0, <2>3, SessionHelpers DEF Unlocked
    <3>2. new.lastUsed = clock /\ sessions' = [Expired EXCEPT ![s] = new]
      BY <2>3, <3>1 DEF Edited, Sessions
    <3> HIDE DEF new
    <3> QED BY <1>1, <1>2, <3>1, <3>2
  <2> QED BY <1>2, <2>1, <2>2, <2>3
\* The sessions that are there stay as they are, or one is put in its place
\* with the time of this step.
<1>3. ASSUME NEW s, NEW new, UNCHANGED <<clock, autoLock, sweepAt, rearm>>,
             new.lastUsed = clock \/ new.opened = clock,
             UNCHANGED sessions \/ sessions' = [sessions EXCEPT ![s] = new]
      PROVE  TimerInv'
  <2>1. \A t \in Spaces : TimesKept(t)
    BY <1>0, <1>3 DEF TimesKept
  <2> QED BY <1>3, <2>1, TimerKept
<1>4. ASSUME NEW c \in Callers, Unlock(c) PROVE TimerInv'
  <2> DEFINE new == Replaced(calls[c].space, calls[c].pw, calls[c].snap.vault.keys)
  <2>1. /\ UNCHANGED <<clock, autoLock, sweepAt, rearm>>
        /\ sessions' = [sessions EXCEPT ![calls[c].space] = new]
    BY <1>4 DEF Unlock, settings
  <2>2. new.lastUsed = clock
    BY DEF Replaced, FreshSession
  <2> HIDE DEF new
  <2> QED BY <1>3, <2>1, <2>2
<1>5. ASSUME NEW c \in Callers, ChangePassword(c) PROVE TimerInv'
  <2> DEFINE new == Replaced(calls[c].space, calls[c].newPw, calls[c].sealed.keys)
  <2>1. /\ UNCHANGED <<clock, autoLock, sweepAt, rearm>>
        /\ UNCHANGED sessions \/ sessions' = [sessions EXCEPT ![calls[c].space] = new]
    BY <1>5 DEF ChangePassword, settings
  <2>2. new.lastUsed = clock
    BY DEF Replaced, FreshSession
  <2> HIDE DEF new
  <2> QED BY <1>3, <2>1, <2>2
<1>6. ASSUME NEW c \in Callers, Create(c) PROVE TimerInv'
  <2> DEFINE new == [FreshSession(calls[c].sealed.pw, {}) EXCEPT !.lastUsed = calls[c].since,
                                                                !.opened = clock]
  <2>1. /\ UNCHANGED <<clock, autoLock, sweepAt, rearm>>
        /\ UNCHANGED sessions \/ \E s \in Spaces : sessions' = [sessions EXCEPT ![s] = new]
    BY <1>6 DEF Create, settings
  <2>2. new.opened = clock
    BY DEF FreshSession
  <2> HIDE DEF new
  <2>3. PICK s : UNCHANGED sessions \/ sessions' = [sessions EXCEPT ![s] = new]
    BY <2>1
  <2> QED BY <1>3, <2>1, <2>2, <2>3
<1>7. ASSUME NEW c \in Callers, ConfirmSend(c) PROVE TimerInv'
  <2> DEFINE s == calls[c].space
             new == [sessions[s] EXCEPT !.lastUsed = clock, !.grant = clock + grantTTL]
  <2>1. s \in Spaces /\ UNCHANGED <<clock, autoLock, sweepAt, rearm>>
    BY <1>7 DEF ConfirmSend, At, IInv, CallInv, Holding, settings
  <2>2. CASE UNCHANGED sessions
    BY <2>1, <2>2, TimerKept DEF TimesKept
  <2>3. CASE sessions' = Expired
    BY <1>1, <2>1, <2>3
  <2>4. CASE Expired[s] # None /\ sessions' = [Expired EXCEPT ![s] = new]
    <3>1. sessions[s] \in Sessions
      BY <1>0, <2>1, <2>4, SessionHelpers
    <3>2. new.lastUsed = clock
      BY <3>1 DEF Sessions
    <3> HIDE DEF new
    <3> QED BY <1>1, <2>1, <2>4, <3>2
  <2> QED BY <1>7, <2>2, <2>3, <2>4 DEF ConfirmSend
<1>8. ASSUME NEW c \in Callers, Reveal(c) \/ WithKey(c) PROVE TimerInv'
  <2>1. calls[c].space \in Spaces /\ UNCHANGED <<clock, autoLock, sweepAt, rearm>>
    BY <1>8 DEF Reveal, WithKey, At, IInv, CallInv, Holding, settings
  <2> QED BY <1>2, <1>8, <2>1 DEF Reveal, WithKey
<1>9. ASSUME NEW c \in Callers, DeleteAccount(c) PROVE TimerInv'
  <2>1. calls[c].space \in Spaces /\ UNCHANGED <<clock, autoLock, sweepAt, rearm>>
    BY <1>9 DEF DeleteAccount, At, IInv, CallInv, Holding, settings
  <2>2. \/ sessions' = Expired
        \/ Unlocked(calls[c].space) /\ sessions' = Touched(calls[c].space)
        \/ Unlocked(calls[c].space) /\ \E keys : sessions' = Edited(calls[c].space, keys)
    BY <1>9 DEF DeleteAccount
  <2> QED BY <1>2, <2>1, <2>2
<1>10. ASSUME NEW s \in Spaces, ImportNetworks(s) \/ DeriveNetworks(s) PROVE TimerInv'
  <2>1. UNCHANGED <<clock, autoLock, sweepAt, rearm>>
    BY <1>10 DEF ImportNetworks, DeriveNetworks, settings
  <2>2. \/ sessions' = Expired
        \/ Unlocked(s) /\ sessions' = Touched(s)
        \/ Unlocked(s) /\ \E keys : sessions' = Edited(s, keys)
    BY <1>10 DEF ImportNetworks, DeriveNetworks
  <2> QED BY <1>2, <2>1, <2>2
<1>11. ASSUME NEW c \in Callers, RequireSendConfirmation(c) PROVE TimerInv'
  <2>1. UNCHANGED <<clock, autoLock, sweepAt, rearm>> /\ sessions' = Expired
    BY <1>11 DEF RequireSendConfirmation, settings
  <2>2. \A t \in Spaces : TimesKept(t)
    BY <1>0, <2>1, UsedTimes
  <2> QED BY <2>1, <2>2, TimerKept
<1>12. ASSUME List PROVE TimerInv'
  <2>1. UNCHANGED <<clock, autoLock, sweepAt, rearm>> /\ sessions' = Expired
    BY <1>12 DEF List, settings
  <2>2. \A t \in Spaces : TimesKept(t)
    BY <1>0, <2>1, UsedTimes
  <2> QED BY <2>1, <2>2, TimerKept
<1>13. ASSUME NEW c \in Callers,
              \/ StartCall(c) \/ StartCreate(c) \/ LockSpace(c) \/ AcquireKDF(c) \/ OpenWrong(c)
              \/ OpenDamaged(c) \/ OpenRight(c) \/ Seal(c) \/ Rekey(c) \/ Backup(c) \/ KeyCleared(c)
       PROVE  TimerInv'
  <2>1. UNCHANGED <<clock, autoLock, sweepAt, rearm, sessions>>
    BY <1>13 DEF StartCall, StartCreate, LockSpace, AcquireKDF, OpenWrong, OpenDamaged, OpenRight,
                 Seal, Rekey, Backup, KeyCleared, settings
  <2> QED BY <2>1, TimerKept DEF TimesKept
<1>14. ASSUME (\E s \in Spaces : Lock(s) \/ EditFile(s)) \/ SetSendConfirmation \/ UNCHANGED vars
       PROVE  TimerInv'
  <2>1. UNCHANGED <<clock, autoLock, sweepAt, rearm>> /\ \A t \in Spaces : sessions'[t] \in {sessions[t], None}
    BY <1>0, <1>14 DEF Lock, EditFile, SetSendConfirmation, vars, settings
  <2> QED BY <2>1, TimerKept DEF TimesKept
<1>15. ASSUME Sweep PROVE TimerInv'
  <2>1. /\ UNCHANGED <<clock, autoLock, rearm>> /\ sessions' = Expired
        /\ sweepAt' = clock + lockInterval(autoLock)
    BY <1>15 DEF Sweep
  <2>2. TimerSet'
    BY <1>0, <2>1 DEF TimerSet
  <2>3. ASSUME NEW t \in Spaces, sessions'[t] # None PROVE InTime(t)'
    <3>1. /\ sessions'[t] = sessions[t] /\ sessions[t].lastUsed \in Nat
          /\ clock < sessions[t].lastUsed + autoLock
      BY <1>0, <2>1, <2>3, SweptInTime DEF Sessions
    <3>2. CASE rearm
      BY <2>1, <3>1, <3>2 DEF InTime
    <3>3. CASE ~rearm
      BY <1>0, <2>1, <3>1, <3>3 DEF InTime
    <3> QED BY <3>2, <3>3
  <2> QED BY <2>2, <2>3 DEF TimerInv
<1>16. ASSUME Rearm PROVE TimerInv'
  <2>1. /\ UNCHANGED <<clock, autoLock, sessions>> /\ rearm /\ ~rearm'
        /\ sweepAt' = clock + lockInterval(autoLock)
    BY <1>16 DEF Rearm
  <2>2. TimerSet'
    BY <1>0, <2>1 DEF TimerSet
  <2>3. ASSUME NEW t \in Spaces, sessions'[t] # None PROVE InTime(t)'
    <3>1. sessions'[t] = sessions[t] /\ sessions[t].lastUsed \in Nat /\ sessions[t].opened \in Nat
      BY <1>0, <2>1, <2>3 DEF Sessions
    <3>2. \/ clock < sessions[t].lastUsed + autoLock
          \/ clock <= sessions[t].opened
      BY <2>1, <2>3 DEF TimerInv, InTime
    <3> QED BY <1>0, <2>1, <3>1, <3>2 DEF InTime
  <2> QED BY <2>2, <2>3 DEF TimerInv
<1>17. ASSUME SetAutoLock PROVE TimerInv'
  <2>1. PICK d \in AutoLocks :
           /\ autoLock' = d
           /\ sessions' = [s \in Spaces |-> IF LapsedUnder(s, d) THEN None ELSE sessions[s]]
    BY <1>17 DEF SetAutoLock
  <2>2. rearm' /\ UNCHANGED clock
    BY <1>17 DEF SetAutoLock
  <2>3. TimerSet'
    BY <2>2 DEF TimerSet
  <2>4. ASSUME NEW t \in Spaces, sessions'[t] # None PROVE InTime(t)'
    <3>1. sessions'[t] = sessions[t] /\ ~LapsedUnder(t, d) /\ sessions[t] # None /\ sessions[t] \in Sessions
      BY <1>0, <2>1, <2>4
    <3>2. sessions[t].lastUsed \in Nat /\ d \in Nat
      BY <3>1, SpaceAssumption DEF Sessions
    <3>3. clock < sessions[t].lastUsed + d
      BY <1>0, <3>1, <3>2 DEF LapsedUnder
    <3> QED BY <2>1, <2>2, <3>1, <3>3 DEF InTime
  <2> QED BY <2>3, <2>4 DEF TimerInv
<1>18. ASSUME Tick PROVE TimerInv'
  <2>1. UNCHANGED <<autoLock, sweepAt, rearm, sessions>> /\ ~rearm /\ clock < sweepAt /\ clock' = clock + 1
    BY <1>18 DEF Tick, settings
  <2>2. TimerSet'
    BY <1>0, <2>1 DEF TimerSet, TimerInv
  <2>3. ASSUME NEW t \in Spaces, sessions'[t] # None PROVE InTime(t)'
    BY <2>1, <2>3 DEF InTime, TimerInv
  <2> QED BY <2>2, <2>3 DEF TimerInv
<1>19. ASSUME Restart PROVE TimerInv'
  <2>1. /\ UNCHANGED <<clock, autoLock>> /\ ~rearm' /\ sweepAt' = clock + lockInterval(autoLock)
        /\ \A t \in Spaces : sessions'[t] = None
    BY <1>19 DEF Restart
  <2>2. TimerSet'
    BY <1>0, <2>1 DEF TimerSet
  <2> QED BY <2>1, <2>2 DEF TimerInv
<1> QED
  BY <1>4, <1>5, <1>6, <1>7, <1>8, <1>9, <1>10, <1>11, <1>12, <1>13, <1>14, <1>15, <1>16, <1>17,
     <1>18, <1>19
  DEF Next, CallStep, Progress, SpaceStep

\* No session outlives its deadline by more than one pause of lockLoop
\* (lockInterval, SetAutoLock's reset of the timer, the sweep), for every
\* auto-lock duration and every change of it, as long as lockLoop runs when its
\* timer fires.
THEOREM IdleSessionsAreClosed == Spec => []IdleSessionsEnd
<1>1. Init => TimerInv
  <2> SUFFICES ASSUME Init PROVE TimerInv
    OBVIOUS
  <2>1. lockInterval(autoLock) \in Nat \ {0}
    BY IntervalType DEF Init
  <2> QED BY <2>1 DEF Init, TimerInv, TimerSet
<1>2. ASSUME IInv, TimerInv PROVE IdleSessionsEnd
  <2> SUFFICES ASSUME NEW s \in Spaces, sessions[s] # None
               PROVE  \/ clock < sessions[s].lastUsed + autoLock + lockInterval(autoLock)
                      \/ clock <= sessions[s].opened + lockInterval(autoLock)
    BY DEF IdleSessionsEnd
  <2>1. /\ clock \in Nat /\ sweepAt \in Nat /\ autoLock \in Nat
        /\ lockInterval(autoLock) \in Nat \ {0}
    BY <1>2, IntervalType, SpaceAssumption DEF IInv, TypeOK
  <2>2. sessions[s].lastUsed \in Nat /\ sessions[s].opened \in Nat
    BY <1>2 DEF IInv, TypeOK, Sessions
  <2>3. InTime(s) /\ TimerSet
    BY <1>2 DEF TimerInv
  <2>4. CASE rearm
    BY <2>1, <2>2, <2>3, <2>4 DEF InTime
  <2>5. CASE ~rearm
    BY <2>1, <2>2, <2>3, <2>5 DEF InTime, TimerSet
  <2> QED BY <2>4, <2>5
<1> QED BY <1>1, <1>2, Inductive, NextTimer, PTL DEF Spec
=============================================================================
