# walletspace in TLA+

walletspace is a self-hosted wallet: one Go process keeps encrypted *spaces* in
`~/.walletspace`, serves a UI on localhost, and signs and broadcasts transactions
for Tron, EVM chains and Solana. This directory models the parts of it in which
the order of things matters, model-checks them with TLC and proves facts about
them with TLAPS. Paths below are relative to `src/internal/` unless they say otherwise.

1. [Inventory](#1-inventory) – 2. [Modules](#2-modules-and-how-they-follow-the-code) –
3. [Runs](#3-runs) – 4. [Bounds](#4-bounds) – 5. [Fairness](#5-fairness) –
6. [Proofs](#6-proofs) – 7. [Findings](#7-findings) – 8. [Left out](#8-what-is-left-out) –
9. [Plan](#9-plan)

## 1. Inventory

| Part | State | Operations | What is hard | What makes it correct |
|---|---|---|---|---|
| Space manager, `space/manager.go` | `files` (= `space.json` of each space), `sessions` (payload, vault key, idle time, spending grant), settings | Create, Unlock, Lock, ChangePassword, ConfirmSend, Mnemonic, ExportPrivateKey, Backup, ImportNetworks, DeriveNetworks, Bind/Unbind, Rename, DeleteAccount, WithKey, the idle sweep | key derivations run for about a second outside `m.mu`; what was read before is used after; writes fail half way; sessions lapse between sweeps | the session key is the vault's; no imported key is lost; a grant belongs to the current password; a lapsed or locked space gives nothing |
| Password throttle, `space/throttle.go` | `unlock.json` (failures, date of the next try), per-space locks, the derivation slots | check, record, clear, acquire | check and record lie on both sides of the derivation; restarts; the wall clock moves | no guess is free, no failure is forgotten, no slot or lock leaks, nobody is shut out for longer than the clock explains |
| Vault, `vault/vault.go` | a sealed container | Encrypt, Unlock, Seal, Reseal | cryptography | perfect encryption is assumed |
| Storage, `storage/storage.go` | files, the lock file of the home directory | AtomicWrite, Lock | an error *after* the rename | old or new file, never half of one |
| Operation store, `operation/` | `operations.json`: idempotency key → request, transaction id, status, expiry | Begin (with prune), Update, UpdateExpiring, UpdateByTxHash, Get, FindByTxHash | two writers of one record; a full file; a failing write | a key signs once; a status never denies a transaction |
| Send handlers, `httpapi/platform.go`, `swap.go`, `solana_*.go` | the request under way | reserve, build, record, sign, broadcast, write the outcome; status request | lost answers, crashes between any two steps, replays | `failed` is safe to retry; what was sent is on record |
| Solana expiry, `chain/solana/transaction.go` | expiry book | record, forget, Transaction, restoreExpiry | lagging nodes; a full or lost book | never `failed` while it can land; settled in the end |
| Gas top-ups, `httpapi/refuel.go`, `refuel/` | `refuel.json`: plans started/finished | quote, send, status, Put, Claim, Mark | two files written one after the other; two tabs | one unresolved deposit per wallet |
| EVM adapter, `chain/evm/` | client cache, nonce locks | EstimateTransfer, EstimateMaxTransfer, EstimateFunding, Send, Transaction, Invalidate | nonces of concurrent sends; the market moves between estimate, approval and block | one nonce per transaction, a cost of at most what was shown |
| Solana adapter, `chain/solana/` | client cache, rent cache, expiry book | estimate, Send, Close, QuoteSwap, Swap | everything is computed twice, on a chain that moves in between | what lands keeps to the approval; what was just shown is not refused |
| Tron service, `tron/`, `chain/tron/` | connections, balance cache | transfers, staking, delegation, deployment, swaps: build, verify the intent, sign, broadcast | the *node* builds what is signed; clocks differ; late receipts; allowances that expire | nothing unverified is signed, nothing valid is refused |
| RPC pool, `rpcpool/`, and the client caches | endpoint cache and its file, one client per network | Endpoints, MarkHealthy, Headers, Invalidate; client lookup | settings change while a client is being dialled | a removed provider is not used again, a provider's key goes nowhere else |
| Configuration, `config/home.go` | two files and one revision | SaveConfig, SaveNetwork, DeleteNetworkOverride, reload | two pages save at once; each file is checked against the other; hand edits | no lost update; what is stored loads |
| Doctor, `doctor/` | a report, a trigger | Check, Refresh | a refresh during a pass | the report is of the settings in force |
| Accounts, `account/`, parts of `space/manager.go` | the wallets of a space | derive, import, bind, unbind, rename, delete, borrow a key | index allocation, migrated records, failing writes | one key is one wallet of a kind; what is bound can be spent |
| Prices, assets, host policy, server, UI | caches, token list | reads | little | – |

How they interact: a handler of `httpapi` asks the space manager for the gate
(`RequireSendConfirmation`) and the key (`WithKey`), reserves a record in the
operation store, and hands a signer to a chain adapter. For Tron and Solana that
signer is wrapped so that the transaction id is in the record *before* the
signature exists. Status requests come in on their own and write the same
records. Top-ups sit above this with a second file. The adapters find their nodes
through the RPC pool, which reads the configuration; a settings request saves
first and invalidates the adapters afterwards. Everything durable goes through
`AtomicWrite`.

The hazards that follow from this are in `PROJECT.json`, each at its line.

## 2. Modules and how they follow the code

`PROJECT.json` "map" names the lines behind each definition.

**UnlockThrottle** – the operators of `throttle.go`: the schedule `backoffFor`
with its jitter (`unlockDelays`, the *set* of possible waits), the clamp of
`readAttempts` (`clamped`), the test `CoolingDown`, and what one failure writes
(`FailureRecords`). The code ignores every error of reading, parsing, writing and
removing `unlock.json`; `readAttempts` and `writeAttempts` are therefore sets: what
the file holds or an empty record, the new content or the old (`FileErrors`).

**ThrottleClock** – one space, its `unlock.json`, and a wall clock that can be set
back. Real time is counted separately (`elapsed`, `quiet`), and so is what the
clock was set back since the last write (`shift`), so that a property can compare
them. Check and record are one step here; the per-space lock that justifies this
is part of the next module.

**SpaceManager** – the space manager. An operation that checks a password is a
*call* of several steps, because the derivation runs outside `m.mu`:

    locking --LockSpace--> waitOpen --AcquireKDF--> open --OpenRight--> apply --> idle
                 |                                    |
             refused                         OpenWrong / OpenDamaged

ChangePassword goes `open → waitSeal → seal → (waitRekey → rekey) → apply`, Create
starts at `waitSeal`. `snap` is the file the call read before it derived, and is
what it uses afterwards. Everything else is one critical section of `m.mu` and one
action. A file is its imported accounts and its container, a container is a
password and a set of keys. `Save` has the three outcomes of `AtomicWrite`: done,
`failed` (before the rename) and `unsynced` (after it: the file is new, the caller
is told it is not). `Restart` may happen between any two steps. `Expired` is
`expireLocked`, and every action that calls it in the code uses it. ChangePassword
does not call it, and reads the map as it is. `lockLoop` is a timer: `sweepAt` is when
it fires, `Sweep` runs then and sets it anew, SetAutoLock asks for that at once
(`rearm`, `Rearm`), and time does not pass a timer that is due: `lockLoop` is taken to
run within the time unit it is woken in, however long a derivation takes.

**OperationStore** – the records and the methods of `operation/store.go` as
operators from one map of records to the next: `Reserved`, `Updated`, `KeptHash`,
`ByTxHash`, and `PruneChoices`, the sets of keys that `prune` may drop.

**SendFlow** – sending handlers and status requests over that store, against an
external chain. A request belongs to a family: `Evm` (no recording signer),
`Solana` (expires at a height), `Deploys` (Tron deployments, which wait for the
receipt) or plain Tron. A broadcast is accepted, refused, or unanswered ("air"):
then the transaction may arrive later or never. A node may be `Lag` blocks behind
and say that it does not know a transaction that landed.

**Intents** – what the two modules above promise about an idempotency key, with no
records, handlers, nodes or crashes: a key has a *fate* (nothing signed, open, in effect,
void, or its record dropped) and there is something a client that asks is *told*. A key is
signed for once, what is decided stays decided, and "failed" is told only when nothing can
take effect any more, after which nothing is signed. SendFlow implements it: `Fate` reads
a key's fate off its transactions, the chain and the pruned keys, `Told` reads the answer
off the record, and `SendKeepsPromise` is `Intents!Spec` under that mapping.

**Refuel** – plans and their operations, in two files with two mutexes; the
operators of OperationStore are taken by `INSTANCE` with plans for keys. Every
write of either file is a step, so a crash or another tab fits in between.

**Accounts** – the wallets of one space. An address *is* its family and the key
behind it (an index of the seed, or an import), so that two wallets for one key can
be seen; a key that is imported may be one of the seed (`DerivedKey`), exported
before. `files` and `disk` part after a failed or unsynced write. Unlock and
ChangePassword are two steps: `Derive` reads the vault, and `Unlock`, of an open space
too, or `ChangePassword` installs what was read, whatever happened in between. A spending
request is two steps: look the sender up (`BeginRequest`), borrow the key (`WithKey`).

**HomeSettings** – `config.yaml` and `networks.yaml` with the rules that tie them
together. A page keeps the revision it was shown; a handler builds its next value
from a snapshot (`Begin`) and saves it under the mutex (`SaveConfig`, `SaveNetwork`).
A request that carries no revision is not compared (`Matches`). The revision is the
pair of what is hashed. `EditFile` is a hand edit of `config.yaml`, to any value it can
hold; `Reload` is `reload` in a new process. `tightened` remembers that an edit forbade
plain HTTP.

**HomeFiles** – ThrottleClock, Accounts and HomeSettings beside one another, each with
the files it keeps; one is at work in a behaviour, since they share no state.

**RpcClients** – one network, of any of the three families: the override, the
resolver's cache and file, the adapter's client and version, a settings request in
its steps (verify, save, then drop the client and clear the cache of one adapter after
the other, then refresh the doctor), requests that dial a client (look up, read the
endpoints, probe, install), the doctor, failing health checks, restarts.

**EvmSends** – two tabs on one address, from the estimate through the nonce lock to
the pool and the chain. The fee market and the gas a call needs move; a broadcast may be
refused, answered, or lost and arrive later.

**SolanaSends** – transfers, maxima, closing of token accounts and swaps of one or two
hops: load, measure, check, verdict, once for the quote and once for the send. A small
runtime (`Executed`) runs messages on lamports and token accounts and is used both for
the simulations and for the block.

**TronSends** – every operation the Tron service signs. The wallet states an intent, the
node answers with a body and a header, honestly or with a field changed, `verify`
compares, and what is signed may land until it expires. Node, wallet and chain have
their own clocks.

**TronSwaps** – SunSwap trades of two tabs in up to three transactions: token approval,
Permit2 grant, trade. Pools move, grants expire by the chain's clock, exact allowances
are used up.

**Adapters** – the four beside one another; one is at work in a behaviour, since they
share no state. **Absent** declares the value they share for "nothing".

**MCSpaceManager, MCSendFlow, MCRefuel, MCHomeFiles, MCRpcClients,
MCAdapters** – symmetry sets and small instances for TLC.
**SpaceManagerProofs, ThrottleProofs, SendFlowProofs, RefuelProofs, AccountsProofs,
HomeSettingsProofs, RpcClientsProofs, AdaptersProofs** – the theorems about these
modules, with the inductive invariants they need.

Operators marked *Mutant* are wrong versions of the definition after them. Each
property was tried against one, to see that it can fail.

`TypeOK` (`AccountsTypeOK`, `SettingsTypeOK`, `EvmTypeOK` and so on in the composites) states
the shape of a module's state. It is proved for every module but the adapters, where the
invariants of AdaptersProofs have their own types; ThrottleClock has its types in
ThrottleProofs.

## 3. Runs

| Run | Shows |
|---|---|
| `home_files` | *unlock.json*, with setbacks of the clock past what the clamp tolerates and a file that may fail: *n* wrong guesses took at least the sum of their waits unless the file failed (`GuessesPayTheSchedule`); on an untouched clock the clamp cuts no wait (`ClampLeavesScheduleAlone`); a space is refused for less than the longest wait and what the clock was set back (`RefusedNoLonger`). *space.json*: two wallets at most, on two EVM networks, Tron and Solana, from an empty or a migrated space, with keys of the seed imported again, a failing write, locks, password changes and unlocks of an open space: two derived wallets, or two imported ones, never stand for one key (`OneWalletPerKeyOfAKind`); what is bound has an address and a key that signs for it and that an open session holds (`BoundIsSpendable`); disk and memory pass the check that unlocking makes (`SpaceReopens`), both unless an import overlapped a derivation; a key borrowed late signs for the address looked up early (`SignsForItsAddress`). *Settings*: two pages, both kinds of failing write, any hand edit of `config.yaml`, restarts: a page whose revision matches shows what is in force (`MatchMeansSame`); what is stored loads again, but for an `http` override beside a `config.yaml` that forbids it, which only a hand edit or a write that failed after its rename can leave (`StoredSettingsLoad`). |
| `space_vault` | Unlock, ChangePassword, Create, DeleteAccount and Backup from two handlers, against imports, locks, restarts and both kinds of failing write. The session's key opens the vault in memory (`SessionKeyOpensVault`); no imported key is lost as long as no import overlaps an Unlock or ChangePassword (`KeysSurvive`); no derivation starts under a cooldown that could be read (`CooldownRespected`) and every failure is on record until `unlock.json` fails (`FailuresCounted`); a session is opened by Unlock and Create only, never by a ChangePassword that saw one before its derivation (`OnlyUnlockOpensSession`). |
| `space_guard` | Spending windows and idle deadlines: a grant belongs to the present password and ends when it should (`GrantBackedByPassword`); no session outlives its deadline by more than one pause of `lockLoop`, also when the auto-lock is changed under the running timer (`IdleSessionsEnd`); one that has lapsed and is not swept yet gives nothing, and only an Unlock or a ChangePassword with the right password puts another in its place (`LapsedNeedsPassword`). |
| `space_live` | Two spaces, one slot: every call returns, which it would not if a path kept a slot or a lock (`CallsReturn`). |
| `send_safety` | All families but Solana, two handlers, a status request, failing writes, crashes, a full file: `OneTransactionPerKey`, `SentIsRecorded`, `StatusIsTrue` (a failed record has no transaction that may still take effect, a confirmed one has landed), and `DroppedIsDecided` (prune forgets a young record only when its transaction is decided). |
| `send_expiry` | Solana with two handlers, a book of one entry, lagging nodes, failing writes and crashes: the flow implements Intents (`SendKeepsPromise`: a key is signed for once, and absence counts as failure only past the margin and after asking again), and `SolanaSettles`: a recorded transaction ends as confirmed or failed although crashes lose the expiry book. |
| `refuel_safety` | Two tabs, two plans, status requests, failing writes, crashes: `OneTopUpPerWallet`; plans and operations agree with what became of the deposit (`DepositAccountedFor`). |
| `rpc_clients` | Each family, two dialling requests, saves, discovery, a fault: with discovery off, once a settings request is answered a removed provider has no client (`RemovedProviderGone`); credentials go only to the endpoint they were typed for (`KeysStayHome`); the doctor does not rest on an old report (`DoctorNotStale`). |
| `adapters` | *EVM*: two sends of one address never compete for a nonce (`SendsCoexist`), cost at most what was shown (`CostsWhatWasShown`), and a maximum that was shown can be sent (`MaxFits`). *Solana*: what lands keeps to the approval (`SolanaKeepsToApproval`) and what was shown on a chain that stood still is not refused (`FreshQuoteIsHonoured`). *Tron*: what is signed does what was asked, whatever the node built (`SignedIsAsked`); with clocks off by the tolerated skew an honest answer is signed and what is signed can land for a bounded time only (`SignedInTime`); reclaiming all takes everything that is free (`ReclaimAllTakesAll`). *SunSwap*: a trade sells what was entered for at least the minimum shown or changes nothing, and is not lost to a grant that ran out (`SwapKeepsItsWord`). |
| `space_change_import`, `space_change_lapsed`, `throttle_set_back` | What a comment promises and the code does not keep: section 7. |

## 4. Bounds

- **Time.** `MaxTime` is at most eight units, with an auto-lock of 1 or 2, grants of
  1 or 2 and waits of 1 or 2: enough for every deadline to pass while a call is
  between two steps, and for a second one after it. In `send_expiry` the lifetime
  is 1 and margin and lag are 2: with a lag of 1 a node that is asked twice cannot
  be wrong any more, and dropping the margin would go unnoticed. A Solana
  transaction is signed only if expiry, margin and lag fit under `MaxTime`, so
  that the clock's end is never the reason why it is not settled.
- **Throttle.** One free attempt (none in `space_vault`), ceiling 4, shift cap 3: five
  failures go past ceiling and cap. The clock is set back by 6, which with a wait of 4
  or 5 lies past the two ceilings of the clamp, so that it fires; `MaxShift` bounds what
  it is set back between two writes. `Horizon` is more than three ceilings. The clock stops
  there, hence `CHECK_DEADLOCK FALSE`.
- **Sweep.** In `space_guard` the auto-lock is 1 or 2 and the pause at most 2
  (`SweepInterval`, a minute in the code): a timer set under the longer duration is
  still running when the shorter one is over.
- **Handlers.** Two: every race in this code is between two requests, or a request
  and a timer. One derivation slot makes them wait for each other.
- **Spaces, passwords, keys.** One space and two passwords, so that a change is
  visible; two key references, so that one can be lost while another stays; two
  spaces in `space_live`, where a slot is shared across them. `MaxWrong` stops new
  guesses past that many failures; a guess under way still ends.
- **Records.** `MaxOperations = 1` with two keys makes the file full at the second
  request (`send_safety`), where a retention of one unit lets both reasons for
  dropping occur. `send_expiry` has one key that two handlers use, and room. In
  `refuel_safety` both plans have room, because the race between their claims needs
  it; prune does not occur there.
- **Accounts.** Two ids let a wallet be deleted and another, or the same key again, take
  its place; two indexes let the lowest free one not be the first; one write fails or is
  unsynced, and any number of good ones and restarts follow. The secp256k1 key that is
  imported is the seed's key of index 0.
- **Settings.** Two saves and one hand edit: a page can be stale by another page, by a
  restart, or by both. The auto-lock is 1 or, by hand, 0, which the clamp raises; a
  discovery URL that is not allowed is the clamp's other case.
- **Endpoints.** One custom and one official endpoint, one secret; two saves let a
  provider be added and removed while a dial is under way, which takes two requests
  when single flight shares one. Discovery's answers come from the cache, as `Public`
  is empty.
- **Adapters.** Amounts, fees and rates are one-digit numbers, chosen so that rounding,
  a cap, a shortfall by one unit and a changed price all occur: `Micro` 4 makes the
  priority fee round up, `MaxLimit` 6 is reached by a raised limit, `Rent` 3 and
  balances of 4, 9 and 14 decide what may be opened. A recent price of 6 lies above
  `MaxPrice` 4, and one of the loans that are reclaimed is an empty record with the
  latest lock. The chain moves twice
  (`MaxMoves`), once before and once after the signature or both before. The code
  looks for a maximum in 4 rounds, the model in 3 (`MaxRounds`); a search that takes
  longer fails in both. Clocks are off by up to the tolerated skew of 2. A SunSwap
  tab signs three times, as often as a trade needs. All of these worlds end when
  everything has landed or been refused, hence `CHECK_DEADLOCK FALSE`.

Symmetry is used for sets whose members are interchangeable, and never with a
liveness property.

## 5. Fairness

`SpaceManager!FairSpec`: a call that can go on does (`WF`: goroutines are
scheduled). The sweep needs no fairness: its deadline is a safety property, and time
waits for `lockLoop` (section 2). Lock and slot get strong fairness: a Go mutex
hands over to a waiter that has starved for a millisecond, and a blocked channel
send is queued first in, first out. Nothing is assumed about new requests.

`SendFlow!FairSpec`: the clock goes on, and the UI's tracker keeps asking for the
status. Strong fairness of the steps of a status request says that between
crashes the process now and then lives long enough for each of them and that a
node now and then answers. `Broadcast`, `Deliver` and `Land` get none: a
transaction that never lands is the case that matters.

## 6. Proofs

Each theorem holds for every value of the constants the assumptions allow: any number
of spaces, handlers, tabs, keys, wallets and records, any durations, quotas, lags,
schedules, markets and rates, and any set of write faults. TLC checks each property on a
small instance.

| Module | Theorem | Statement |
|---|---|---|
| SpaceManagerProofs | `TypeCorrect` | `[]TypeOK` |
| | `SessionKeyCorrect` | `[]SessionKeyOpensVault` |
| | `CooldownCorrect`, `CountCorrect` | `[]CooldownRespected`, `[]FailuresCounted` |
| | `GrantCorrect` | `[]GrantBackedByPassword` |
| | `KeysCorrect` | `[]KeysSurvive` |
| | `OnlyUnlockOpens`, `LapsedIsClosed` | the action properties `OnlyUnlockOpensSession`, `LapsedNeedsPassword` |
| | `IdleSessionsAreClosed` | `[]IdleSessionsEnd` |
| ThrottleProofs | `ClampCorrect` | `[]ClampLeavesScheduleAlone` |
| | `RefusalEnds` | `[]RefusedNoLonger` |
| | `ClampDecidesNothing` | with or without the clamp, an attempt is refused at the same instants and the next failure writes the same record |
| | `GuessesPay` | `[]GuessesPayTheSchedule`, if the horizon has room for the sum of the waits |
| SendFlowProofs | `TypeCorrect` | `[]TypeOK` |
| | `OneIntentOneTransaction` | `[]OneTransactionPerKey` |
| | `RecordedBeforeSent` | `[]SentIsRecorded` |
| | `TruthOnRecord` | `[]StatusIsTrue` |
| | `OnlyDecidedDropped` | the action property `DroppedIsDecided` |
| | `PromiseKept` | `SendKeepsPromise`, the refinement of Intents |
| RefuelProofs | `TypeCorrect`, `OneTopUp`, `FilesAgree` | `[]TypeOK`, `[]OneTopUpPerWallet`, `[]DepositAccountedFor` |
| AccountsProofs | `TypeCorrect`, `KeysNotShared`, `EnabledCanSpend` | `[]AccountsTypeOK`, `[]OneWalletPerKeyOfAKind`, `[]BoundIsSpendable` |
| | `OpensAgain`, `KeyMatchesAddress` | `[]SpaceReopens`, `[]SignsForItsAddress` |
| HomeSettingsProofs | `TypeCorrect`, `NoLostUpdate`, `StartsAgain` | `[]SettingsTypeOK`, `[]MatchMeansSame`, `[]StoredSettingsLoad` |
| RpcClientsProofs | `TypeCorrect`, `RemovedIsGone` | `[]TypeOK`, `[]RemovedProviderGone` (with discovery off) |
| | `SecretsStayHome`, `DoctorCatchesUp` | `[]KeysStayHome`, `[]DoctorNotStale` |
| AdaptersProofs | `AcceptedSendsCoexist` | `[]SendsCoexist` |
| | `TransferCostsWhatWasShown`, `MaximumFits` | `[]CostsWhatWasShown`, `[]MaxFits` |
| | `WithinTheApproval`, `FreshQuotesPass` | `[]SolanaKeepsToApproval`, `[]FreshQuoteIsHonoured` |
| | `SignsWhatWasAsked`, `SignsInTime` | `[]SignedIsAsked`, `[]SignedInTime` |
| | `EverythingComesBack` | `[]ReclaimAllTakesAll` |
| | `TradeKeepsItsWord` | `[]SwapKeepsItsWord` |

### Assumptions

Most assumptions only give constants their type: durations, quotas and bounds are natural
numbers (some not zero), `None` is not a value, families of requests do not overlap. The
others are facts about the code's constants or its surroundings:

- `SendAssumption`: nodes lag by at most the expiry margin. That is what the margin is for,
  and `TruthOnRecord` is false without it.
- `GrantAssumption`: a Permit2 grant outlasts a slow request, a slow block and a swap (an
  hour against minutes), and an unlimited grant lives at least as long.
- `TronAssumption`: clocks differ by at most `maxClockSkew`; the lifetime the wallet
  tolerates (ten minutes) has room for a node's own (one) and that skew (two). Loans are
  lists of any length, of records whose amounts and locks are natural numbers.
- `SolAssumption`: a path names no account twice (`prepareClose` refuses such a list,
  `loadSwap` and `checkHops` such a route), a slippage is a part of the whole, and the
  one a quote was made with is at most the largest a send accepts.
- `SettingsAssumption`: the limits of the auto-lock are in order.
- The hypothesis of `GuessesPay`: the model counts real time up to `Horizon`, and
  cannot say more of a series that costs more than that.

### Arguments

**SpaceManager.** `SessionKeyOpensVault` is not inductive. Unlock installs the password it
checked against a file it read earlier: that is right only if nobody changed the password
since. ChangePassword without a session key leaves the sessions alone: that is right only
if none was opened since. Both follow from the per-space lock, so the inductive invariant
`IInv` adds `CallInv(c)` for each call: a call past the cooldown check holds the lock of
its space; its copy of the file still has the password of the file in memory; past `open`
it was given that password; and a ChangePassword about to apply without a derived key
finds no session. The step has one case per action. `CooldownRespected`, `FailuresCounted`
and `GrantBackedByPassword` are inductive given `IInv`: two calls past the check are about
different spaces (`CheckedAlone`), so the one that records a failure starts no cooldown for
the other; a cooldown that is over stays over although the clamp is recomputed at every
read (`StaysOver`); and the steps after which the vault has another password leave no
session with a grant. `KeysSurvive` needs `KeyInv`, which adds what a call knows about the
keys of the copy it read (`CallKeys`): they are those of the file unless an import came in
between. That exception is a finding of section 7. The two action properties follow from
a case analysis of who may open a session (`SessionStep`) and from `expireLocked` at the
head of every use but ChangePassword's, which was given the password. `IdleSessionsEnd`
needs `TimerInv`: the timer is set for at most one pause from now (`TimerSet`), and each
session is either within its deadline or opened since, whenever the timer was last set or
is about to be (`InTime`). SetAutoLock keeps it because it sweeps under the new duration
and leaves `rearm` behind.

**Throttle.** `Within`: the stored date is at most a ceiling, a quarter and `shift` away
from now, and `quiet` makes up for what has passed. On an untouched clock that is less than
the two ceilings of the clamp (`ClampCorrect`), and it bounds how long a space is refused
(`RefusalEnds`): there the clamp is out of the way, because it decides nothing
(`ClampDecidesNothing`). `Paid`: the time measured, and what remains of the current
wait, cover the sum of the waits so far. `Cost` is a recursive function; that it satisfies
its equation is shown by building it on longer and longer initial segments, with the
least counterexample taken from the well-founded order on finite sets.

**SendFlow.** `IInv` speaks about transactions (a landed one made it before its height),
records (a record that names a transaction names its only one), handlers (nothing was
signed before the handler signs; it gives up only what cannot take effect), pairs of
handlers (`Apart`: never one transaction, never one reserved key), and status requests
(they give up only past height, margin and a second look). What is said of a key is said
as long as prune has not dropped its record; `DroppedIsDecided` says which ones it may.
For `PromiseKept`, `IInv` gives a key one transaction at most, so that its fate is the fate
of that one (`FateOfOne`), and makes what the record tells true of it (`ToldTruly`). Then,
per action, a step leaves the fate of a key alone, signs for a key that had none and was
not given up, or decides what was open; and what prune forgets stays forgotten.

**Refuel.** Likewise over two files: `FreshInv`, `DepositInv`, `CallInv`, `MarkInv`, and
`OnePending`, at most one plan of a wallet is started and not finished. A deposit that is
not resolved keeps its plan pending, and so the second claim is refused.

**Accounts.** `FileInv` describes a file (memory's and disk's): each wallet is derived from
its index or imported with its key in the vault (unless `overlapped`), and no two that
were not migrated were made from one index or one import (`SameIdentity`). `DerivationInv`
and `PayloadInv` say that the vault a derivation read, and the keys of the session, are
those of the file unless an import came in between. The lowest free index is a least
element, which places it in its range. `RequestInv` carries the address looked
up early to the key lent late.

**HomeSettings.** `Meaning` reads a revision as the settings it stands for; a page shows
the meaning of the revision it saw, memory is the meaning of the current one, and so equal
revisions show equal settings. `FilesInv` says how far the files may differ from memory:
networks.yaml not at all, and config.yaml forbids plain HTTP that memory allows only after
a hand edit (`tightened`), unless a write failed after its rename.

**RpcClients.** `DropDue` is the time between a save and the drop of the client. Outside it,
neither the client nor a build of the current version names an endpoint that was removed
(`ClientInv`). A build of an older version is stopped by the version check.

**EVM.** `Taken(n)`: a nonce is on chain or in the pool. Taken nonces stay taken, also when
a transaction is replaced; the nonce of an accepted transfer is taken and differs from the
one about to be broadcast, of which there is at most one because of the lock; the pending
nonce of the node is never taken (`NonceIsFree`: each tab has one transaction at most, and
there is one nonce more to choose from). The rest of `EvmInv` ties what is signed, and what the pool holds, to what was shown.

**Solana.** Each instruction gets a lemma on what it does to the wallet's wealth in an
asset, lamports and wrapped SOL counted together: the fee, opening (`OpenedMoves`), wrapping,
a hop, a payment, closing. Together they bound what a message does to any chain it is
executed on (`ExecutedMoves`). `SolInv` ties the message that is signed to the approval
(`TxOK`): the caps are those of the quote, the route pays the minimum, sells the amount and
gives an intermediate token back in full, and the rent of the accounts it leaves open is
within the rent shown. What the chain needs to have opened anew when the message lands may
differ from what the send read; `RentWithinQuote` counts both.
`FreshQuoteIsHonoured` needs another invariant, `FreshInv`: until the chain moves, the plan
of a request is, stage by stage, exactly what the request computes on the present chain.
So a send computes the plan of its quote again and passes every comparison with it. A
maximum is approved as a send of the amount that was shown, and `MaxAsSend` shows that it
comes to the same plan. The first attempt failed: the model capped the price it
offered but not the recent price it compares with it, so that a market above the cap had
every send refused. The code caps both (`priorityPrice`), and so does the model now.

**Tron.** What a node answers is not constrained: `SignedIsAsked` follows from what `verify`
compared (`VerifiedBody`) and from what each operation states (`IntentFor`). The stake
behind units is a division rounded up, and `StakeIsLeast` shows that it is the least stake
that is worth the units. For the times, an honest answer waits as the node wrote it, and
each bound of `verifyHeader` can fail only once it has run out. `ReclaimAllTakesAll` compares
two folds over a list of loans: the row that `splitDelegations` adds up, and what the chain
holds. Each is a recursive function on the subsets of a finite set (`FoldExists` builds it);
that a sum does not depend on the order, nor on records of amount zero, is shown by a least
counterexample in the order of proper subsets. The lock of a row is the latest of its
records, so once the row is free all of it is. Empty records are skipped, as `add` does: one
with a late lock would otherwise hold back a row that is free.

**SunSwap.** A trade about to be signed, or under way, has the amount and the minimum shown,
and the grant it draws on is good until its deadline (`TradeOf`); a grant under way will be
good for a swap planned after it, by `GrantAssumption`.

### Only model-checked

- `CallsReturn`, `SolanaSettles`: liveness, out of the prover's reach.
- `VaultHoldsImportedKeys`, `LapsedStaysClosed` and `NotParked` are violated (section 7).
- `EvmTypeOK` and its like for the other adapters are part of no run.

## 7. Findings

Three runs end in a counterexample.

- **`space_change_import`** (`VaultHoldsImportedKeys`) – `ImportNetworks` does not take the per-space lock. A
  key imported while ChangePassword derives is overwritten by the container sealed
  from the earlier copy: the account stays and its key is gone. The comment on
  ChangePassword says the lock prevents this. `KeysSurvive` shows that imports
  that overlap an Unlock or ChangePassword are the only way to lose a key. (Unlock
  of an open space has the same overlap: the session it installs lacks the new key,
  and the next reseal drops it.)
- **`space_change_lapsed`** (`LapsedStaysClosed`) – ChangePassword reads `m.sessions`
  without sweeping it (`space/manager.go:612` and `647`). A session that is past its idle
  deadline and not swept yet counts as open, and ChangePassword puts a fresh one in its
  place: the space is open again although nobody unlocked it. The comment on
  RequireSendConfirmation says that every method that reads the map sweeps first. The
  caller did give the password, so nothing is given away (`LapsedNeedsPassword`).
- **`throttle_set_back`** (`NotParked`) – a clock set back past the slack of the clamp
  parks a space, which is what the comment at `space/throttle.go:167` says cannot happen.
  The clamp moves the date to one ceiling from the *present*, at every read, and never
  writes it: the date is always ahead, and the space is refused until the clock has
  caught up with the file. `ClampDecidesNothing` proves that the clamp never changes a
  verdict or a record, and `RefusedNoLonger` says how long the wait can get.

Met on the way and not kept as runs. None of these is claimed by a property; the
properties are stated so as to hold with them.

*Space manager, sends, top-ups.*

- Every error of `unlock.json` is ignored: a read that fails is an empty record, which
  lets a guess through and starts the count anew (`space/throttle.go:159`), a write that
  fails leaves the guess unrecorded (`throttle.go:183` says it costs throttling "on the next
  restart"; there is no counter in memory, so it costs it at once), and a removal that
  fails leaves the failures standing after a right password (`throttle.go:119`).
  `FailuresCounted`, `CooldownRespected` and `GuessesPayTheSchedule` except these.
- An EVM transfer writes no hash before it is broadcast: a crash leaves `building`,
  which `operation/status.go:8` documents as "Nothing has left the process yet".
- A crash after Claim and before the hash is recorded leaves a plan pending with no
  deposit (`httpapi/refuel.go:282`); so does a status request that writes `failed` first
  (`refuel.go:374`). The wallet is then not topped up again.
- A status request writes `pending` for a transaction that no node has accepted
  (`operation/status.go:15` says one did); a reverted transaction is `failed` although
  it reached the chain (`status.go:19`); the handler's own late write may take a record
  from `confirmed` back to `pending`; and a replay of a key whose confirmed record was
  pruned signs again (`store.go:86`).

*Accounts, settings, endpoints.*

- A migrated wallet has no family until it is bound, so deriving finds no wallet at its
  index and makes a second one for the same key (`space/manager.go:763`). An imported
  key is compared with imported ones only (`manager.go:855-870`), so a key of the seed that is
  exported and imported again is a second wallet for it too. The comment at
  `manager.go:763-765` speaks of not "persisting duplicate key identities".
  `OneWalletPerKeyOfAKind` leaves both out.
- The wallet does not start (`config/home.go:405`) from a `config.yaml` that forbids plain
  HTTP beside a `networks.yaml` that uses it. Setting `allow_insecure_rpc` to false by hand
  is enough for that, and so is a write of `config.yaml` that fails after its rename. Other
  values out of range are clamped. `StoredSettingsLoad` says that there is no third way.
- Two security pages may apply their auto-lock in the other order than they were
  saved; a hand edit is overwritten by the next save; and as the revision is a hash
  of the contents, settings that went there and back match again.
- A page that keeps a redacted key verifies with the key stored then and saves with the
  one stored later.
- With discovery on, a build that began before the save can put a removed provider into
  the health cache after it was cleared (`rpcpool/resolver.go:206` says the cache is
  cleared), so that it comes back. `RemovedProviderGone` is about discovery off.

*Adapters.*

- The layer-1 and operator fees of rollups (`chain/evm/funding.go:93`) are not part of
  the caps a user approves, nor of a maximum.
- An EVM transaction whose answer was lost and that arrives late may meet another with
  its nonce. `SendsCoexist` is about sends that were answered.
- A Solana quote counts the refusal of an intermediate account by the runtime as the
  route's or the wallet's by the order in which accounts are opened.
- A Tron deployment is compared with the submitted bytecode as a prefix: the
  constructor's arguments and the ABI are the node's word. So are the rates that turn
  an amount of energy into a stake.
- `reclaimable` reads locks by the wallet's clock. A balance read that overlaps a send
  can put the old balance back into the cache (`tron/service.go:580`).
- Exact SunSwap approvals of one tab overwrite another's, and an approval that is not
  yet confirmed may be paid twice.

## 8. What is left out

- **Cryptography** (Argon2id, AES-GCM, BIP32, signatures): perfect. A wrong
  password never opens a container, a right one always does.
- **Derived accounts, labels, bindings** in SpaceManager: only as writes of the file,
  which never touch the container. Accounts has them in detail, without passwords.
- **What a handler builds** in SendFlow: a free choice between going on and failing. The
  adapter modules have it in detail, without the operation store.
- **Pool arithmetic and byte layouts** (`chain/solana/raydium`, `tron/sunswap`,
  `swap_message.go`, `solana/intent.go`): a pool is a price, a message a record. 128 and 256-bit
  arithmetic is out of TLC's reach.
- **The rent of Solana accounts** is a constant; the code caches it for ten minutes.
  The second simulation after a raised compute limit is one step with the first.
- **Ranking of routes and resource prices** (`priceRoute`, Tron estimates): they choose
  what to show first and sign nothing.
- **Node answers** in TronSends differ from the honest one in one field or in the times.
- **`confirm_sends = false`**: then there is no gate to check.
- **The lock file** of the home directory: one process is assumed.
- **A power cut** between rename and directory sync: the rename counts as durable.
- **Prices, asset list, host policy, HTTP routing, the UI**: reads and rendering.

## 9. Plan

Done: throttle, space manager, operation store, send flow, gas top-ups, accounts,
configuration, RPC pool with client caches and doctor, and the EVM, Solana, Tron and
SunSwap paths. Proved: section 6. Next:

- A refinement of Intents by Refuel, with the deposits of a wallet for transactions.
