---------------------------- MODULE SpaceManager ----------------------------
(***************************************************************************)
(* The encrypted spaces of internal/space: the vault containers in memory  *)
(* and on disk, the open sessions with their idle timer and their spending *)
(* grant, the per-space lock, the slots for key derivations, and the       *)
(* password throttle.                                                      *)
(*                                                                         *)
(* A password is checked by a key derivation that runs outside the         *)
(* manager's mutex, so the operations that take one are calls in several   *)
(* steps; everything else happens in one critical section of m.mu and is   *)
(* one action.  A space file is abstracted to its imported accounts, each  *)
(* named by its key reference, and its vault container, which is the       *)
(* password it opens with and the imported keys inside.  Derived accounts  *)
(* never touch the container and are left out.                             *)
(***************************************************************************)
EXTENDS UnlockThrottle, FiniteSets

CONSTANTS
    Spaces,        \* space ids newID can return
    Callers,       \* request handlers that run at the same time
    Passwords,     \* passwords that satisfy validateNewPassword
    KeyRefs,       \* key references newID can return; bounds the imports
    Ops,           \* which multi-step operations the callers use
    KdfSlots,      \* capacity of kdfSlots
    MaxSpaces,     \* quota.go
    MaxAccounts,   \* quota.go
    AutoLocks,     \* auto-lock durations the settings can hold
    GrantTTLs,     \* spending windows the settings can hold
    SweepInterval, \* the longest pause of lockLoop (a minute)
    Faults,        \* how a write of space.json may go wrong
    MaxTime,       \* bound of the clock
    MaxWrong,      \* bound: no further guess starts past this many in a row,
                   \* or past a file that counts this many
    None

\* Create, plain and with ExpectEmpty; the operations that check a password;
\* the signing path.
Creations == {"create", "createFirst"}
PasswordOps == {"unlock", "change", "confirm", "reveal", "backup", "delete"}
AllOps == Creations \cup PasswordOps \cup {"send"}

\* "failed": AtomicWrite fails before its rename.  "unsynced": it fails after
\* the rename, at the directory sync, so the new file is there and the caller
\* is told otherwise.
AllFaults == {"failed", "unsynced"}

Vaults == [pw : Passwords, keys : SUBSET KeyRefs]
Files == [accounts : SUBSET KeyRefs, vault : Vaults]

\* grant = 0 is the zero time: no spending window.  opened is history: when a
\* Create published the session, which began before (0 for other sessions).
Sessions == [pw : Passwords, keys : SUBSET KeyRefs, lastUsed : Nat, grant : Nat, opened : Nat]

\* What a ConfirmSend established: the password it checked, when, for how long.
Confirmations == [pw : Passwords, at : Nat, ttl : GrantTTLs]

ASSUME SpaceAssumption ==
    /\ Ops \subseteq AllOps
    /\ Faults \subseteq AllFaults
    /\ KdfSlots \in Nat \ {0}
    /\ MaxSpaces \in Nat \ {0}
    /\ MaxAccounts \in Nat \ {0}
    /\ AutoLocks \subseteq Nat \ {0} /\ AutoLocks # {}
    /\ GrantTTLs \subseteq Nat \ {0} /\ GrantTTLs # {}
    /\ SweepInterval \in Nat \ {0}
    /\ MaxTime \in Nat
    /\ MaxWrong \in Nat
    /\ None \notin Spaces \cup Callers \cup Passwords \cup KeyRefs \cup AllOps
    /\ None \notin Files \cup Sessions \cup Confirmations

Phases == {"idle", "locking", "waitOpen", "open", "waitSeal", "seal",
           "waitRekey", "rekey", "apply", "gated", "lent"}

\* A call under way: its arguments, and what it has read and computed so far.
\* snap is the file it read before its derivation, sealed the container
\* ChangePassword or Create made, rekeyed whether it also derived a session,
\* since when a Create began: it dates the session it opens back to then.
\* unread is history: its cooldown check could not read unlock.json.
Calls == [phase : Phases, op : AllOps \cup {None}, space : Spaces \cup {None},
          pw : Passwords \cup {None}, newPw : Passwords \cup {None},
          ref : KeyRefs \cup {None}, snap : Files \cup {None},
          sealed : Vaults \cup {None}, rekeyed : BOOLEAN, since : Nat,
          unread : BOOLEAN]

NoCall == [phase |-> "idle", op |-> None, space |-> None, pw |-> None, newPw |-> None,
           ref |-> None, snap |-> None, sealed |-> None, rekeyed |-> FALSE,
           since |-> 0, unread |-> FALSE]

VARIABLES
    clock,
    files,      \* m.files
    disk,       \* spaces/<id>/space.json
    sessions,   \* m.sessions
    attempts,   \* spaces/<id>/unlock.json
    spaceLock,  \* m.spaceLocks: the caller that holds the lock of a space
    kdfFree,    \* free places in m.kdfSlots
    calls,      \* the handlers
    issued,     \* key references handed out so far
    autoLock,   \* m.autoLock
    grantTTL,   \* m.sendGrantTTL
    sweepAt,    \* when the timer of lockLoop fires
    rearm,      \* m.reset holds a value: the timer is to be set anew
    wrong,      \* history: wrong passwords per space since the last right one
    lossy,      \* history: unlock.json of a space was not read, not written or
                \* not removed since it was last removed
    confirmed,  \* history: password and time of the last ConfirmSend of a space
    overlapped  \* history: a key was imported while an Unlock or a
                \* ChangePassword of the space was under way

durable == <<files, disk, issued, overlapped>>
throttle == <<attempts, wrong, lossy>>
settings == <<autoLock, grantTTL, sweepAt, rearm>>
locks == <<spaceLock, kdfFree>>
vars == <<clock, durable, sessions, throttle, locks, calls, settings, confirmed>>

TypeOK ==
    /\ clock \in Nat
    /\ files \in [Spaces -> Files \cup {None}]
    /\ disk \in [Spaces -> Files \cup {None}]
    /\ sessions \in [Spaces -> Sessions \cup {None}]
    /\ attempts \in [Spaces -> AttemptRecords]
    /\ spaceLock \in [Spaces -> Callers \cup {None}]
    /\ kdfFree \in Nat
    /\ calls \in [Callers -> Calls]
    /\ issued \subseteq KeyRefs
    /\ autoLock \in AutoLocks
    /\ grantTTL \in GrantTTLs
    /\ sweepAt \in Nat /\ rearm \in BOOLEAN
    /\ wrong \in [Spaces -> Nat] /\ lossy \in [Spaces -> BOOLEAN]
    /\ confirmed \in [Spaces -> Confirmations \cup {None}]
    /\ overlapped \in [Spaces -> BOOLEAN]

\* lockInterval for an auto-lock of d.
lockInterval(d) == IF d < SweepInterval THEN d ELSE SweepInterval

Init ==
    /\ clock = 0
    /\ files = [s \in Spaces |-> None]
    /\ disk = [s \in Spaces |-> None]
    /\ sessions = [s \in Spaces |-> None]
    /\ attempts = [s \in Spaces |-> NoAttempts]
    /\ spaceLock = [s \in Spaces |-> None]
    /\ kdfFree = KdfSlots
    /\ calls = [c \in Callers |-> NoCall]
    /\ issued = {}
    /\ autoLock \in AutoLocks
    /\ grantTTL \in GrantTTLs
    /\ sweepAt = lockInterval(autoLock) /\ rearm = FALSE
    /\ wrong = [s \in Spaces |-> 0] /\ lossy = [s \in Spaces |-> FALSE]
    /\ confirmed = [s \in Spaces |-> None]
    /\ overlapped = [s \in Spaces |-> FALSE]

-----------------------------------------------------------------------------
(* Helpers that run inside a critical section of m.mu.                     *)

Known(s) == files[s] # None

KnownSpaces == {s \in Spaces : Known(s)}

\* The idle deadline of a session has passed, for an auto-lock of d.
LapsedUnder(s, d) == sessions[s] # None /\ clock - sessions[s].lastUsed >= d

Lapsed(s) == LapsedUnder(s, autoLock)

\* Mutant: the session map is read as it stands, unswept.
Unswept == sessions

\* expireLocked: m.sessions without the lapsed ones, and so without their
\* payloads, keys and grants (clearSessionLocked).
Expired == [s \in Spaces |-> IF Lapsed(s) THEN None ELSE sessions[s]]

\* unlockedLocked succeeds; it refreshes the idle timer.
Unlocked(s) == Known(s) /\ Expired[s] # None
Touched(s) == [Expired EXCEPT ![s] = [sessions[s] EXCEPT !.lastUsed = clock]]

\* The same, and the caller edits the imported keys of the payload.
Edited(s, keys) == [Expired EXCEPT ![s] = [sessions[s] EXCEPT !.lastUsed = clock, !.keys = keys]]

FreshSession(pw, keys) ==
    [pw |-> pw, keys |-> keys, lastUsed |-> clock, grant |-> 0, opened |-> 0]

\* Mutant: the live session gets the new key and payload and keeps the rest.
RefreshedInPlace(s, pw, keys) ==
    IF sessions[s] = None THEN FreshSession(pw, keys)
    ELSE [sessions[s] EXCEPT !.pw = pw, !.keys = keys, !.lastUsed = clock]

\* The session that takes the place of the one of s, if any.
Replaced(s, pw, keys) == FreshSession(pw, keys)

\* saveLocked and the assignment to m.files[id] that follows when it succeeds.
Outcomes == {"ok"} \cup (Faults \cap {"failed", "unsynced"})
Save(s, file, outcome) ==
    /\ disk' = IF outcome = "failed" THEN disk ELSE [disk EXCEPT ![s] = file]
    /\ files' = IF outcome = "ok" THEN [files EXCEPT ![s] = file] ELSE files

\* The file with the payload's keys sealed under the session's own key.
Resealed(s, accounts, keys) ==
    [accounts |-> accounts, vault |-> [pw |-> sessions[s].pw, keys |-> keys]]

\* Mutant: the payload keeps the edit although the write failed.
KeysNotRolledBack(s, keys, outcome) == keys

\* The payload of the session after an edit of its keys: rolled back when the
\* write is reported as failed.
KeysAfterWrite(s, keys, outcome) == IF outcome = "ok" THEN keys ELSE sessions[s].keys

\* verifyPayload: every imported account has its key in the container.
Verified(file) == file.accounts \subseteq file.vault.keys

-----------------------------------------------------------------------------
(* How a call moves: start, take the space lock, derive, return.           *)

SetPhase(c, phase) == calls' = [calls EXCEPT ![c].phase = phase]

\* Mutant: the lock is not dropped on return.
LockKept(c) == UNCHANGED spaceLock

Release(c) == spaceLock' = [spaceLock EXCEPT ![calls[c].space] = None]

Return(c) == calls' = [calls EXCEPT ![c] = NoCall]

\* c holds the lock of its space.
Holding(c) ==
    /\ calls[c].op \in PasswordOps
    /\ calls[c].phase \notin {"idle", "locking"}

\* c works on a copy of the container of s that it will put to use.
Rereading(c, s) == Holding(c) /\ calls[c].op \in {"unlock", "change"} /\ calls[c].space = s

At(c, op, phase) == calls[c].op = op /\ calls[c].phase = phase

\* A request for one of the operations that go through lockSpace.
StartCall(c) ==
    /\ calls[c] = NoCall
    /\ \E op \in Ops \cap PasswordOps, s \in KnownSpaces, p \in Passwords :
         \E q \in (IF op = "change" THEN Passwords ELSE {None}),
            r \in (IF op = "delete" THEN files[s].accounts ELSE {None}) :
           /\ wrong[s] < MaxWrong /\ attempts[s].failures <= MaxWrong
           /\ calls' = [calls EXCEPT ![c] = [NoCall EXCEPT !.phase = "locking", !.op = op,
                           !.space = s, !.pw = p, !.newPw = q, !.ref = r]]
    /\ UNCHANGED <<clock, durable, sessions, throttle, locks, settings, confirmed>>

\* Create checks the quota before it spends two derivations.  Its id is drawn
\* when it publishes: before that nothing can see it.
StartCreate(c) ==
    /\ calls[c] = NoCall
    /\ Cardinality(KnownSpaces) < MaxSpaces
    /\ \E op \in Ops \cap Creations, p \in Passwords :
         calls' = [calls EXCEPT ![c] = [NoCall EXCEPT !.phase = "waitSeal", !.op = op,
                                                      !.newPw = p, !.since = clock]]
    /\ UNCHANGED <<clock, durable, sessions, throttle, locks, settings, confirmed>>

\* Mutant: nobody waits for the lock.
LockIgnored(s) == TRUE

LockFree(s) == spaceLock[s] = None

\* lockSpace, then the file is read and the cooldown checked; a refused call
\* lets go of the lock at once.
LockSpace(c) ==
    LET s == calls[c].space IN
    /\ calls[c].phase = "locking"
    /\ LockFree(s)
    /\ \E seen \in readAttempts(attempts[s], clock) :
         \/ /\ CoolingDown(seen, clock)
            /\ Return(c)
            /\ UNCHANGED spaceLock
         \/ /\ ~CoolingDown(seen, clock)
            /\ spaceLock' = [spaceLock EXCEPT ![s] = c]
            /\ calls' = [calls EXCEPT ![c].phase = "waitOpen", ![c].snap = files[s],
                                      ![c].unread = (seen # clamped(attempts[s], clock))]
    /\ UNCHANGED <<clock, durable, sessions, throttle, kdfFree, settings, confirmed>>

Deriving == [waitOpen |-> "open", waitSeal |-> "seal", waitRekey |-> "rekey"]

\* Mutant: the send on kdfSlots does not block.
SlotNotAwaited == TRUE

SlotFree == kdfFree > 0

\* acquireKDF blocks until a slot is free.
AcquireKDF(c) ==
    /\ calls[c].phase \in DOMAIN Deriving
    /\ SlotFree
    /\ kdfFree' = kdfFree - 1
    /\ SetPhase(c, Deriving[calls[c].phase])
    /\ UNCHANGED <<clock, durable, sessions, throttle, spaceLock, settings, confirmed>>

\* The derivation was for the wrong password: the failure is added to what
\* unlock.json is read as, and the call returns.
OpenWrong(c) ==
    LET s == calls[c].space IN
    /\ calls[c].phase = "open"
    /\ calls[c].pw # calls[c].snap.vault.pw
    /\ \E seen \in readAttempts(attempts[s], clock) :
         \E record \in FailureRecords(seen, clock) :
           \E left \in writeAttempts(attempts[s], record) :
             /\ attempts' = [attempts EXCEPT ![s] = left]
             /\ lossy' = [lossy EXCEPT ![s] =
                            @ \/ seen # clamped(attempts[s], clock) \/ left # record]
    /\ wrong' = [wrong EXCEPT ![s] = @ + 1]
    /\ kdfFree' = kdfFree + 1
    /\ Release(c) /\ Return(c)
    /\ UNCHANGED <<clock, durable, sessions, settings, confirmed>>

\* The password is right, but a key of the file is missing from its container:
\* Unlock and ChangePassword refuse, and leave the cooldown as it is.
OpenDamaged(c) ==
    /\ calls[c].phase = "open"
    /\ calls[c].op \in {"unlock", "change"}
    /\ calls[c].pw = calls[c].snap.vault.pw
    /\ ~Verified(calls[c].snap)
    /\ kdfFree' = kdfFree + 1
    /\ Release(c) /\ Return(c)
    /\ UNCHANGED <<clock, durable, sessions, throttle, settings, confirmed>>

\* The password is right: unlock.json is removed, if that works, and the call
\* goes on.
OpenRight(c) ==
    LET s == calls[c].space IN
    /\ calls[c].phase = "open"
    /\ calls[c].pw = calls[c].snap.vault.pw
    /\ calls[c].op \in {"unlock", "change"} => Verified(calls[c].snap)
    /\ \E left \in writeAttempts(attempts[s], NoAttempts) :
         /\ attempts' = [attempts EXCEPT ![s] = left]
         /\ lossy' = [lossy EXCEPT ![s] = (left # NoAttempts)]
    /\ wrong' = [wrong EXCEPT ![s] = 0]
    /\ kdfFree' = kdfFree + 1
    /\ SetPhase(c, IF calls[c].op = "change" THEN "waitSeal" ELSE "apply")
    /\ UNCHANGED <<clock, durable, sessions, spaceLock, settings, confirmed>>

\* vault.SealJSON under the new password.  ChangePassword then looks, under
\* m.mu, whether there is a session to refresh; Create always makes one.
Seal(c) ==
    LET call == calls[c]
        new == call.op \in Creations
        keys == IF new THEN {} ELSE call.snap.vault.keys
        more == new \/ sessions[call.space] # None
    IN
    /\ call.phase = "seal"
    /\ kdfFree' = kdfFree + 1
    /\ calls' = [calls EXCEPT ![c].sealed = [pw |-> call.newPw, keys |-> keys],
                              ![c].phase = IF more THEN "waitRekey" ELSE "apply"]
    /\ UNCHANGED <<clock, durable, sessions, throttle, spaceLock, settings, confirmed>>

\* The session key for the new container.
Rekey(c) ==
    /\ calls[c].phase = "rekey"
    /\ kdfFree' = kdfFree + 1
    /\ calls' = [calls EXCEPT ![c].phase = "apply", ![c].rekeyed = TRUE]
    /\ UNCHANGED <<clock, durable, sessions, throttle, spaceLock, settings, confirmed>>

-----------------------------------------------------------------------------
(* The last step of a call, under m.mu.  It returns and drops the lock.    *)

\* Unlock replaces whatever session there is.
Unlock(c) ==
    LET call == calls[c] IN
    /\ At(c, "unlock", "apply")
    /\ sessions' = [sessions EXCEPT ![call.space] =
                                        Replaced(call.space, call.pw, call.snap.vault.keys)]
    /\ Release(c) /\ Return(c)
    /\ UNCHANGED <<clock, durable, throttle, kdfFree, settings, confirmed>>

\* Mutant: the session seen before the last derivation is put back.
SessionWasThere(c) == calls[c].rekeyed

\* There still is a session to replace, and a key was derived for it.
SessionToReplace(c) == sessions[calls[c].space] # None /\ calls[c].rekeyed

\* ChangePassword puts the container it sealed into the file as it is now, and
\* replaces the session if there still is one and it derived a key for it.
ChangePassword(c) ==
    LET call == calls[c]
        s == call.space
    IN
    /\ At(c, "change", "apply")
    /\ \E outcome \in Outcomes :
         /\ Save(s, [files[s] EXCEPT !.vault = call.sealed], outcome)
         /\ sessions' = IF outcome = "ok" /\ SessionToReplace(c)
                        THEN [sessions EXCEPT ![s] = Replaced(s, call.newPw, call.sealed.keys)]
                        ELSE sessions
    /\ Release(c) /\ Return(c)
    /\ UNCHANGED <<clock, issued, overlapped, throttle, kdfFree, settings, confirmed>>

\* ConfirmSend: the caller may have hung up, or the space be locked by now.
ConfirmSend(c) ==
    LET s == calls[c].space IN
    /\ At(c, "confirm", "apply")
    /\ \/ Expired[s] # None
          /\ sessions' = [Expired EXCEPT ![s] = [sessions[s] EXCEPT !.lastUsed = clock,
                                                                 !.grant = clock + grantTTL]]
          /\ confirmed' = [confirmed EXCEPT ![s] = [pw |-> calls[c].pw, at |-> clock,
                                                    ttl |-> grantTTL]]
       \/ Expired[s] = None /\ sessions' = Expired /\ UNCHANGED confirmed
       \/ UNCHANGED <<sessions, confirmed>>     \* ctx.Err(), before the sweep
    /\ Release(c) /\ Return(c)
    /\ UNCHANGED <<clock, durable, throttle, kdfFree, settings>>

\* Mnemonic and ExportPrivateKey read the open session.
Reveal(c) ==
    LET s == calls[c].space IN
    /\ At(c, "reveal", "apply")
    /\ sessions' = IF Unlocked(s) THEN Touched(s) ELSE Expired
    /\ Release(c) /\ Return(c)
    /\ UNCHANGED <<clock, durable, throttle, kdfFree, settings, confirmed>>

\* Backup hands over the file as it is and needs no session.
Backup(c) ==
    /\ At(c, "backup", "apply")
    /\ Release(c) /\ Return(c)
    /\ UNCHANGED <<clock, durable, sessions, throttle, kdfFree, settings, confirmed>>

\* DeleteAccount of an imported account.  The key comes back into the payload
\* when the write fails.
DeleteAccount(c) ==
    LET s == calls[c].space
        r == calls[c].ref
        keys == sessions[s].keys \ {r}
    IN
    /\ At(c, "delete", "apply")
    /\ \/ /\ Unlocked(s) /\ r \in files[s].accounts
          /\ \E outcome \in Outcomes :
               /\ Save(s, Resealed(s, files[s].accounts \ {r}, keys), outcome)
               /\ sessions' = Edited(s, KeysAfterWrite(s, keys, outcome))
       \/ /\ ~(Unlocked(s) /\ r \in files[s].accounts)
          /\ sessions' = IF Unlocked(s) THEN Touched(s) ELSE Expired
          /\ UNCHANGED <<files, disk>>
    /\ Release(c) /\ Return(c)
    /\ UNCHANGED <<clock, issued, overlapped, throttle, kdfFree, settings, confirmed>>

\* Create publishes the new space and opens its session; the quota and
\* ExpectEmpty are looked at here, for another Create may have got there first.
Create(c) ==
    LET file == [accounts |-> {}, vault |-> calls[c].sealed]
        allowed == /\ Cardinality(KnownSpaces) < MaxSpaces
                   /\ calls[c].op = "createFirst" => KnownSpaces = {}
    IN
    /\ calls[c].op \in Creations /\ calls[c].phase = "apply"
    /\ \/ /\ allowed
          /\ \E s \in Spaces, outcome \in Outcomes :
               /\ files[s] = None /\ disk[s] = None
               /\ Save(s, file, outcome)
               /\ sessions' = IF outcome = "ok"
                              THEN [sessions EXCEPT ![s] = [FreshSession(file.vault.pw, {})
                                           EXCEPT !.lastUsed = calls[c].since, !.opened = clock]]
                              ELSE sessions
       \/ /\ ~allowed
          /\ UNCHANGED <<files, disk, sessions>>
    /\ Return(c)
    /\ UNCHANGED <<clock, issued, overlapped, throttle, locks, settings, confirmed>>

-----------------------------------------------------------------------------
(* The signing path: RequireSendConfirmation, then WithKey, whose callback *)
(* keeps the key outside m.mu until it returns.                            *)

\* The gate opens for a live session with a live grant.  It sweeps first and
\* does not refresh the idle timer.  (confirm_sends is on: it is fixed when the
\* process starts, and with it off there is no gate.)
RequireSendConfirmation(c) ==
    /\ calls[c] = NoCall /\ "send" \in Ops
    /\ sessions' = Expired
    /\ \E s \in KnownSpaces :
         \E r \in files[s].accounts :
           calls' = IF Expired[s] # None /\ clock < Expired[s].grant
                    THEN [calls EXCEPT ![c] = [NoCall EXCEPT !.phase = "gated", !.op = "send",
                                                             !.space = s, !.ref = r]]
                    ELSE calls
    /\ UNCHANGED <<clock, durable, throttle, locks, settings, confirmed>>

\* withKey looks the account and its key up in the session of the moment.
WithKey(c) ==
    LET s == calls[c].space
        r == calls[c].ref
    IN
    /\ calls[c].phase = "gated"
    /\ sessions' = IF Unlocked(s) THEN Touched(s) ELSE Expired
    /\ IF Unlocked(s) /\ r \in files[s].accounts /\ r \in sessions[s].keys
       THEN SetPhase(c, "lent") ELSE Return(c)
    /\ UNCHANGED <<clock, durable, throttle, locks, settings, confirmed>>

\* The callback is done and the key is cleared.
KeyCleared(c) ==
    /\ calls[c].phase = "lent"
    /\ Return(c)
    /\ UNCHANGED <<clock, durable, sessions, throttle, locks, settings, confirmed>>

-----------------------------------------------------------------------------
(* Operations that are one critical section of m.mu, without the space     *)
(* lock.                                                                   *)

Lock(s) ==
    /\ Known(s)
    /\ sessions' = [sessions EXCEPT ![s] = None]
    /\ UNCHANGED <<clock, durable, throttle, locks, calls, settings, confirmed>>

\* ImportNetworks for a key the space does not have yet: the payload of the
\* session grows, is sealed under the session's key and saved with the account.
ImportNetworks(s) ==
    /\ \/ /\ Unlocked(s) /\ Cardinality(files[s].accounts) < MaxAccounts
          /\ \E r \in KeyRefs \ issued, outcome \in Outcomes :
               LET keys == sessions[s].keys \cup {r} IN
               /\ issued' = issued \cup {r}
               /\ overlapped' = [overlapped EXCEPT ![s] = @ \/ \E c \in Callers : Rereading(c, s)]
               /\ Save(s, Resealed(s, files[s].accounts \cup {r}, keys), outcome)
               /\ sessions' = Edited(s, KeysAfterWrite(s, keys, outcome))
       \/ /\ Known(s) /\ ~(Unlocked(s) /\ Cardinality(files[s].accounts) < MaxAccounts)
          /\ sessions' = IF Unlocked(s) THEN Touched(s) ELSE Expired
          /\ UNCHANGED durable
    /\ UNCHANGED <<clock, throttle, locks, calls, settings, confirmed>>

\* DeriveNetworks reads the session and saves the file, container unchanged;
\* so does ImportNetworks for a key that the space has already.
DeriveNetworks(s) ==
    /\ Known(s)
    /\ \/ /\ Unlocked(s)
          /\ sessions' = Touched(s)
          /\ \E outcome \in Outcomes : Save(s, files[s], outcome)
       \/ /\ ~Unlocked(s)
          /\ sessions' = Expired
          /\ UNCHANGED <<files, disk>>
    /\ UNCHANGED <<clock, issued, overlapped, throttle, locks, calls, settings, confirmed>>

\* Rename, RenameAccount, BindNetwork and UnbindNetwork save the file without
\* looking at the session.
EditFile(s) ==
    /\ Known(s)
    /\ \E outcome \in Outcomes : Save(s, files[s], outcome)
    /\ UNCHANGED <<clock, issued, overlapped, sessions, throttle, locks, calls, settings, confirmed>>

\* List and Get sweep first.
List ==
    /\ sessions' = Expired
    /\ UNCHANGED <<clock, durable, throttle, locks, calls, settings, confirmed>>

\* lockLoop: the timer fires.
Sweep ==
    /\ clock >= sweepAt
    /\ sessions' = Expired
    /\ sweepAt' = clock + lockInterval(autoLock)
    /\ UNCHANGED <<clock, durable, throttle, locks, calls, autoLock, grantTTL, rearm, confirmed>>

\* lockLoop: m.reset asks for the timer to be set anew.
Rearm ==
    /\ rearm /\ rearm' = FALSE
    /\ sweepAt' = clock + lockInterval(autoLock)
    /\ UNCHANGED <<clock, durable, sessions, throttle, locks, calls, autoLock, grantTTL, confirmed>>

\* Mutant: the timer runs on under the old duration.
SetAutoLockTimerKept ==
    /\ \E d \in AutoLocks :
         /\ autoLock' = d
         /\ sessions' = [s \in Spaces |-> IF LapsedUnder(s, d) THEN None ELSE sessions[s]]
    /\ UNCHANGED <<clock, durable, throttle, locks, calls, grantTTL, sweepAt, rearm, confirmed>>

\* SetAutoLock sweeps under the new duration and has the timer set anew.
SetAutoLock ==
    /\ \E d \in AutoLocks :
         /\ autoLock' = d
         /\ sessions' = [s \in Spaces |-> IF LapsedUnder(s, d) THEN None ELSE sessions[s]]
    /\ rearm' = TRUE
    /\ UNCHANGED <<clock, durable, throttle, locks, calls, grantTTL, sweepAt, confirmed>>

SetSendConfirmation ==
    /\ grantTTL' \in GrantTTLs
    /\ UNCHANGED <<clock, durable, sessions, throttle, locks, calls, autoLock, sweepAt, rearm,
                   confirmed>>

\* The process ends, at any point of any call, and starts again: NewManager
\* scans the disk and starts lockLoop.
Restart ==
    /\ files' = disk
    /\ sessions' = [s \in Spaces |-> None]
    /\ spaceLock' = [s \in Spaces |-> None]
    /\ kdfFree' = KdfSlots
    /\ calls' = [c \in Callers |-> NoCall]
    /\ sweepAt' = clock + lockInterval(autoLock) /\ rearm' = FALSE
    /\ UNCHANGED <<clock, disk, issued, overlapped, throttle, autoLock, grantTTL, confirmed>>

\* Time passes.  lockLoop is not held up for a whole unit of it: the timer's
\* sweep, and its setting anew, come before the clock moves on.
Tick ==
    /\ clock < MaxTime
    /\ clock < sweepAt /\ ~rearm
    /\ clock' = clock + 1
    /\ UNCHANGED <<durable, sessions, throttle, locks, calls, settings, confirmed>>

-----------------------------------------------------------------------------
\* What a call does by itself once it is started.
Progress(c) ==
    \/ OpenWrong(c) \/ OpenDamaged(c) \/ OpenRight(c) \/ Seal(c) \/ Rekey(c)
    \/ Unlock(c) \/ ChangePassword(c) \/ ConfirmSend(c) \/ Reveal(c) \/ Backup(c)
    \/ DeleteAccount(c) \/ Create(c) \/ WithKey(c) \/ KeyCleared(c)

CallStep(c) ==
    StartCall(c) \/ StartCreate(c) \/ RequireSendConfirmation(c)
    \/ LockSpace(c) \/ AcquireKDF(c) \/ Progress(c)

SpaceStep(s) == Lock(s) \/ ImportNetworks(s) \/ DeriveNetworks(s) \/ EditFile(s)

Next ==
    \/ \E c \in Callers : CallStep(c)
    \/ \E s \in Spaces : SpaceStep(s)
    \/ List \/ Sweep \/ Rearm \/ SetAutoLock \/ SetSendConfirmation \/ Restart \/ Tick

Spec == Init /\ [][Next]_vars

\* Handlers run, and both the Go mutex (which hands over to a waiter that has
\* starved) and a blocked channel send are fair.
Fairness ==
    \A c \in Callers : WF_vars(Progress(c)) /\ SF_vars(LockSpace(c)) /\ SF_vars(AcquireKDF(c))

FairSpec == Spec /\ Fairness

-----------------------------------------------------------------------------
(* Safety.                                                                 *)

\* The key an open session reseals the vault with is the one the password of
\* the container in memory derives: no interleaving of Unlock, ChangePassword,
\* Lock and the sweep leaves a session whose next import or deletion would
\* write the vault back under another password.
SessionKeyOpensVault ==
    \A s \in Spaces : sessions[s] # None =>
        Known(s) /\ sessions[s].pw = files[s].vault.pw

\* A spending window is backed by the password of the day: it was opened by a
\* ConfirmSend with the password the vault has now, and it ends when that
\* confirmation said it would (the comment on session.sendGrant).
GrantBackedByPassword ==
    \A s \in Spaces : sessions[s] # None /\ sessions[s].grant > 0 =>
        /\ confirmed[s] # None
        /\ confirmed[s].pw = files[s].vault.pw
        /\ sessions[s].grant = confirmed[s].at + confirmed[s].ttl

\* No password is tried while its space cools down, however the calls are
\* interleaved: the cooldown cannot begin between its check and the derivation.
\* Only a check that could not read unlock.json lets one through.
CooldownRespected ==
    \A c \in Callers : calls[c].phase \in {"waitOpen", "open"} =>
        calls[c].unread \/ ~CoolingDown(attempts[calls[c].space], clock)

\* unlock.json counts exactly the wrong passwords since the last right one,
\* whatever calls and restarts came between them.  The code ignores the errors
\* of reading, writing and removing it: the count is off after one of them, and
\* right again once the file is removed after a right password.
FailuresCounted == \A s \in Spaces : ~lossy[s] => attempts[s].failures = wrong[s]

\* No session outlives its idle deadline by more than one pause of lockLoop,
\* without any request arriving and however the auto-lock duration is changed
\* (SetAutoLock resets the timer: a pause begun under a long duration does not
\* stretch a short one).  A Create may open its session past the deadline, for
\* it counts from before its derivations; the pause then counts from there.
IdleSessionsEnd ==
    \A s \in Spaces : sessions[s] # None =>
        \/ clock < sessions[s].lastUsed + autoLock + lockInterval(autoLock)
        \/ clock <= sessions[s].opened + lockInterval(autoLock)

\* Every imported account has its key in the vault, in memory and on disk.
\* ChangePassword's comment takes this for granted: "The per-space lock is
\* what keeps the container this reads from being the one it writes back over."
VaultHoldsImportedKeys ==
    \A s \in Spaces :
        /\ files[s] # None => Verified(files[s])
        /\ disk[s] # None => Verified(disk[s])

\* As long as no key was imported while an Unlock or ChangePassword of the
\* same space was under way, no imported key is ever lost: account and key are
\* together in memory and on disk, through deletions, failed writes, password
\* changes and restarts, and the session would reseal exactly those keys.
KeysSurvive ==
    \A s \in Spaces : ~overlapped[s] =>
        /\ files[s] # None => Verified(files[s])
        /\ disk[s] # None => Verified(disk[s])
        /\ sessions[s] # None => sessions[s].keys = files[s].vault.keys

-----------------------------------------------------------------------------
(* What a step may never do.                                               *)

\* Only an Unlock or a Create opens a session where there was none, and with
\* the password that call was given: a ChangePassword that began while the
\* space was open does not reopen one that was locked meanwhile.
OnlyUnlockOpensSession ==
    [][\A s \in Spaces : sessions[s] = None /\ sessions'[s] # None =>
         \E c \in Callers :
            /\ calls[c].phase = "apply" /\ calls'[c] = NoCall
            /\ \/ calls[c].op = "unlock" /\ calls[c].space = s /\ calls[c].pw = files[s].vault.pw
               \/ calls[c].op \in Creations /\ files[s] = None]_vars

\* A session past its idle deadline gives nothing away without the password,
\* although the sweep has not come by yet: the gate does not open, no key is
\* lent, no grant is made and its idle timer is not refreshed, except that an
\* Unlock or a ChangePassword that was given the vault's password puts a session
\* without a grant in its place.
LapsedNeedsPassword ==
    [][/\ \A c \in Callers :
            calls'[c].phase \in {"gated", "lent"} /\ calls'[c].phase # calls[c].phase
              => ~Lapsed(calls'[c].space)
       /\ \A s \in Spaces : Lapsed(s) /\ sessions'[s] \notin {None, sessions[s]} =>
            /\ sessions'[s].grant = 0
            /\ \E c \in Callers :
                 /\ calls[c].phase = "apply" /\ calls[c].space = s
                 /\ calls[c].op \in {"unlock", "change"} /\ calls[c].pw = files[s].vault.pw]_vars

\* "The idle sweep runs first, as it does in every other method that reads
\* m.sessions" (RequireSendConfirmation): a session past its deadline, whose
\* sweep is not due yet, does not come back but by an Unlock.  It does not hold:
\* ChangePassword reads the map unswept, and renews it.
LapsedStaysClosed ==
    [][\A s \in Spaces : Lapsed(s) /\ clock < sweepAt /\ sessions'[s] \notin {None, sessions[s]} =>
         \E c \in Callers : At(c, "unlock", "apply") /\ calls[c].space = s]_vars

-----------------------------------------------------------------------------
(* Liveness, under FairSpec.                                               *)

\* Every request that waits for a lock or a derivation slot is answered:
\* nobody waits for a slot whose holder waits for a lock.
CallsReturn == \A c \in Callers : calls[c] # NoCall ~> calls[c] = NoCall
=============================================================================
