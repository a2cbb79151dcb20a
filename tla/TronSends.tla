----------------------------- MODULE TronSends -----------------------------
(***************************************************************************)
(* Transactions a Tron node assembles for the wallet (tron/intent.go,       *)
(* service.go, staking.go, contract.go).  The wallet states what it wants   *)
(* as an intent, a node answers with a transaction, and the wallet compares *)
(* the two before it signs.  The node is free to answer anything; clocks    *)
(* differ; a signed transaction may reach the chain at any time before it   *)
(* expires, or never.                                                       *)
(***************************************************************************)
EXTENDS Absent, Integers, Sequences, SequencesExt, FiniteSetsExt

CONSTANTS
    TronRequests,   \* [kind, to, amount, resource]
    StakeRates,     \* [weight, limit]: what the network stakes for how many units
    TronLoans,      \* what the node lists as lent: sequences of [to, resource, amount, lock]
    Skews,          \* how far the wallet's clock may be ahead of the chain's
    Lifetime,       \* maxTransactionLifetime
    ClockSkew,      \* maxClockSkew
    NodeLifetime,   \* the expiration an honest node sets
    FeeLimit,
    MaxTime

\* Ten minutes are more than a minute and two of skew.
ASSUME TronAssumption ==
    /\ \A r \in TronRequests : r.amount \in Nat
    /\ TronLoans \subseteq Seq([to : STRING, resource : STRING, amount : Nat, lock : Nat])
    /\ \A rate \in StakeRates : rate.weight \in Nat /\ rate.limit \in Nat \ {0}
    /\ Skews \subseteq (-ClockSkew)..ClockSkew
    /\ {Lifetime, ClockSkew, NodeLifetime, FeeLimit, MaxTime} \subseteq Nat
    /\ NodeLifetime > 0 /\ NodeLifetime + ClockSkew <= Lifetime

VARIABLES
    trTime, trSkew,
    trLoans,    \* what is lent
    trPhase, trReq, trIntent, trHonest,
    trRate,     \* the rate a delegation was converted at
    trTx,       \* the node's answer, signed once trPhase is "signed"
    trAt,       \* when the wallet compared the answer
    trLanded

trNode == <<trTime, trSkew, trLoans>>
trVars == <<trNode, trPhase, trReq, trIntent, trRate, trHonest, trTx, trAt, trLanded>>

\* An intent and the body of a transaction have the same shape; the body also
\* has the fields an intent never asks for.
NoBody == [type |-> "none", owner |-> "me", to |-> "none", amount |-> 0, resource |-> "none", contract |-> "none", data |-> <<>>,
           value |-> 0, feeLimit |-> 0, permission |-> 0, name |-> "none", percent |-> 0, energy |-> 0]
NoExtras == [token |-> 0, lock |-> FALSE, memo |-> 0, unknown |-> 0, contracts |-> 1]

TronTypeOK ==
    /\ trTime \in 0..MaxTime /\ trSkew \in Skews
    /\ trPhase \in {"idle", "asked", "answered", "signed", "refused", "done"}
    /\ trIntent # None => trIntent.feeLimit \in {0, FeeLimit} /\ trIntent.amount \in Nat
    /\ trPhase = "signed" => trTx # None /\ trAt \in 0..MaxTime
    /\ \A i \in DOMAIN trLoans : trLoans[i].amount >= 0

TronInit ==
    /\ trTime \in 1..2 /\ trSkew \in Skews /\ trLoans \in TronLoans
    /\ trPhase = "idle" /\ trReq = None /\ trIntent = None /\ trRate = None /\ trHonest = FALSE
    /\ trTx = None /\ trAt = 0 /\ trLanded = None

Now == trTime + trSkew

-----------------------------------------------------------------------------
(* Intents.                                                                *)

\* Calldata is rebuilt from the recipient and the amount.
trc20TransferData(to, amount) == <<"transfer", to, amount>>

trc20Intent(r) ==
    [NoBody EXCEPT !.type = "trigger", !.to = r.to, !.contract = "usdt",
                   !.data = trc20TransferData(r.to, r.amount), !.feeLimit = FeeLimit]

resourceIntent(type, r, amount) ==
    [NoBody EXCEPT !.type = type, !.to = IF type \in {"delegate", "reclaim"} THEN r.to ELSE "none",
                   !.amount = amount, !.resource = r.resource]

ownerIntent(type) == [NoBody EXCEPT !.type = type]

deployIntent(r) ==
    [NoBody EXCEPT !.type = "deploy", !.data = <<"code">>, !.name = "token", !.percent = r.amount,
                   !.energy = 1, !.feeLimit = FeeLimit]

\* A swap out of TRX sends the amount sold along.
swapIntent(r) ==
    [NoBody EXCEPT !.type = "trigger", !.contract = "router", !.data = <<"swap", r.to, r.amount>>,
                   !.value = r.amount, !.feeLimit = FeeLimit]

\* A record with nothing lent is skipped, whatever its lock.
adds(loan, to, resource) == loan.to = to /\ loan.resource = resource /\ loan.amount > 0

\* Mutant: only the first record of the receiver counts.
firstLoan(loans, to, resource) ==
    LET first == Min({i \in DOMAIN loans : adds(loans[i], to, resource)} \cup {Len(loans) + 1})
    IN  (loans \o <<[amount |-> 0, lock |-> 0]>>)[first]

\* splitDelegations: one row per receiver and resource, under the latest lock.
splitDelegations(loans, to, resource) ==
    FoldLeft(LAMBDA row, loan :
                 IF adds(loan, to, resource)
                 THEN [amount |-> row.amount + loan.amount, lock |-> Max({row.lock, loan.lock})]
                 ELSE row,
             [amount |-> 0, lock |-> 0], loans)

\* Everything, unless part of it is still locked.
reclaimable(row) == row.amount > 0 /\ row.lock <= Now

\* Both sides of a delegation differ.
counterparty(r) == r.to # "me"

\* stakeBehind: units of a resource in staked TRX, rounded up; zero is refused.
stakeBehind(units, rate) == (units * rate.weight + rate.limit - 1) \div rate.limit

-----------------------------------------------------------------------------
(* The operations.  Each states its intent and has a node build.            *)

\* stakeOpSigner and its like.
AskNode(r, intent, rate) ==
    /\ trPhase = "idle"
    /\ trPhase' = "asked" /\ trReq' = r /\ trIntent' = intent /\ trRate' = rate
    /\ UNCHANGED <<trNode, trHonest, trTx, trAt, trLanded>>

SendTRX(r) ==
    /\ r.kind = "trx" /\ r.amount > 0
    /\ AskNode(r, [NoBody EXCEPT !.type = "transfer", !.to = r.to, !.amount = r.amount], None)

SendToken(r) == r.kind = "trc20" /\ r.amount > 0 /\ AskNode(r, trc20Intent(r), None)

Trade(r) == r.kind = "swap" /\ AskNode(r, swapIntent(r), None)

Stake(r) == r.kind = "stake" /\ r.amount > 0 /\ AskNode(r, resourceIntent("stake", r, r.amount), None)

Unstake(r) == r.kind = "unstake" /\ r.amount > 0 /\ AskNode(r, resourceIntent("unstake", r, r.amount), None)

\* The user names units; the chain moves stake.
Delegate(r) ==
    /\ r.kind = "delegate" /\ counterparty(r) /\ r.amount > 0
    /\ \E rate \in StakeRates :
         LET sun == stakeBehind(r.amount, rate) IN sun > 0 /\ AskNode(r, resourceIntent("delegate", r, sun), rate)

Reclaim(r) ==
    /\ r.kind = "reclaim" /\ counterparty(r) /\ r.amount > 0
    /\ \E rate \in StakeRates :
         LET sun == stakeBehind(r.amount, rate) IN sun > 0 /\ AskNode(r, resourceIntent("reclaim", r, sun), rate)

ReclaimAll(r) ==
    LET row == splitDelegations(trLoans, r.to, r.resource) IN
    /\ r.kind = "reclaimAll" /\ counterparty(r) /\ reclaimable(row)
    /\ AskNode(r, resourceIntent("reclaim", r, row.amount), None)

WithdrawUnstaked(r) == r.kind = "withdraw" /\ AskNode(r, ownerIntent("withdraw"), None)

CancelUnstakes(r) == r.kind = "cancel" /\ AskNode(r, ownerIntent("cancel"), None)

Deploy(r) == r.kind = "deploy" /\ AskNode(r, deployIntent(r), None)

-----------------------------------------------------------------------------
(* The node.                                                               *)

\* What a node may write into a field instead.
Instead ==
    [type |-> {"transfer", "trigger", "stake", "unstake", "delegate", "reclaim", "withdraw", "cancel", "deploy"},
     owner |-> {"other"}, to |-> {"me", "friend", "other"}, amount |-> {1, 3}, resource |-> {"energy", "bandwidth"},
     contract |-> {"usdt", "router", "other"}, data |-> {<<>>, <<"transfer", "other", 1>>, <<"code", "arguments">>}, value |-> {0, 3},
     feeLimit |-> {0, FeeLimit + 1}, permission |-> {2}, name |-> {"other"}, percent |-> {3}, energy |-> {0},
     token |-> {1}, lock |-> {TRUE}, memo |-> {1}, unknown |-> {1}, contracts |-> {0, 2}]

Header(tx, built, expires) ==
    [f \in DOMAIN tx \cup {"built", "expires"} |->
       CASE f = "built" -> built [] f = "expires" -> expires [] OTHER -> tx[f]]

HonestBody ==
    [f \in DOMAIN NoBody \cup DOMAIN NoExtras |-> IF f \in DOMAIN NoBody THEN trIntent[f] ELSE NoExtras[f]]

AnswerHonestly ==
    /\ trPhase = "asked"
    /\ trPhase' = "answered" /\ trHonest' = TRUE
    /\ trTx' = Header(HonestBody, trTime, trTime + NodeLifetime)
    /\ UNCHANGED <<trNode, trReq, trIntent, trRate, trAt, trLanded>>

\* A field of the body differs, or the times do.
AnswerOtherwise ==
    /\ trPhase = "asked"
    /\ trPhase' = "answered" /\ trHonest' = FALSE
    /\ \/ \E f \in DOMAIN Instead : \E v \in Instead[f] :
            trTx' = Header([HonestBody EXCEPT ![f] = v], trTime, trTime + NodeLifetime)
       \/ \E built, expires \in 0..(MaxTime + Lifetime) : trTx' = Header(HonestBody, built, expires)
    /\ UNCHANGED <<trNode, trReq, trIntent, trRate, trAt, trLanded>>

-----------------------------------------------------------------------------
(* Verify.                                                                 *)

\* Mutant: an expiration just past is refused.
ExpiredStrictly(tx) == tx.expires < Now

\* Lenient by a skew: a clock that runs fast sees honest answers as expired.
Expired(tx) == tx.expires < Now - ClockSkew

LivesTooLong(tx) == tx.expires > Now + Lifetime

verifyHeader(tx) ==
    /\ tx.built > 0 /\ tx.built <= Now + ClockSkew /\ tx.built >= Now - Lifetime
    /\ ~Expired(tx) /\ ~LivesTooLong(tx) /\ tx.expires > tx.built

Same(tx, fields) == \A f \in fields : tx[f] = trIntent[f]

\* Mutant: whether a delegation is locked is not looked at.
ignoreLock(tx) ==
    CASE trIntent.type = "delegate" -> Same(tx, {"owner", "to", "amount", "resource"})
      [] OTHER -> Same(tx, DOMAIN NoBody) /\ tx.token = 0

\* What each contract type carries; the code of a deployment is a prefix.
verifyParameter(tx) ==
    CASE trIntent.type = "transfer" -> Same(tx, {"owner", "to", "amount"})
      [] trIntent.type = "trigger" -> Same(tx, {"owner", "contract", "data", "value"}) /\ tx.token = 0
      [] trIntent.type \in {"stake", "unstake"} -> Same(tx, {"owner", "amount", "resource"})
      [] trIntent.type = "delegate" -> Same(tx, {"owner", "to", "amount", "resource"}) /\ ~tx.lock
      [] trIntent.type = "reclaim" -> Same(tx, {"owner", "to", "amount", "resource"})
      [] trIntent.type \in {"withdraw", "cancel"} -> Same(tx, {"owner"})
      [] trIntent.type = "deploy" -> 
           /\ Same(tx, {"owner", "name", "percent", "energy"}) /\ IsPrefix(trIntent.data, tx.data)
           /\ tx.value = 0 /\ tx.token = 0

verify(tx) ==
    /\ verifyHeader(tx)
    /\ tx.contracts = 1 /\ tx.memo = 0 /\ tx.unknown = 0
    /\ Same(tx, {"feeLimit", "type", "permission"})
    /\ verifyParameter(tx)

\* submitWithSigner: nothing is signed before the answer is compared.
submitWithSigner ==
    /\ trPhase = "answered"
    /\ trPhase' = IF verify(trTx) THEN "signed" ELSE "refused"
    /\ trAt' = trTime
    /\ UNCHANGED <<trNode, trReq, trIntent, trRate, trHonest, trTx, trLanded>>

-----------------------------------------------------------------------------
(* The chain.                                                              *)

\* What a transaction does, by type.
Effect(tx) ==
    CASE tx.type = "transfer" -> <<"pays", tx.owner, tx.to, tx.amount>>
      [] tx.type = "trigger" -> <<"calls", tx.owner, tx.contract, tx.data, tx.value, tx.token, tx.feeLimit>>
      [] tx.type \in {"stake", "unstake"} -> <<tx.type, tx.owner, tx.resource, tx.amount>>
      [] tx.type = "delegate" -> <<"lends", tx.owner, tx.to, tx.resource, tx.amount, tx.lock>>
      [] tx.type = "reclaim" -> <<"takes back", tx.owner, tx.to, tx.resource, tx.amount>>
      [] tx.type \in {"withdraw", "cancel"} -> <<tx.type, tx.owner>>
      [] tx.type = "deploy" ->
           <<"creates", tx.owner, SubSeq(tx.data, 1, 1), tx.name, tx.percent, tx.energy, tx.value, tx.token, tx.feeLimit>>

\* What is lent of a resource to a receiver in some of the records, and the
\* records whose stake may come back now.
Lent(records, to, resource) ==
    MapThenSumSet(LAMBDA i : trLoans[i].amount,
                  {i \in records : trLoans[i].to = to /\ trLoans[i].resource = resource})
Unlocked == {i \in DOMAIN trLoans : trLoans[i].lock <= trTime}

TronLand ==
    LET takes == trTx.type = "reclaim"
        ok == takes => trTx.amount <= Lent(Unlocked, trTx.to, trTx.resource)
    IN  /\ trPhase = "signed" /\ trTime <= trTx.expires
        /\ trPhase' = "done"
        /\ trLanded' = [ok |-> ok, left |-> IF takes THEN Lent(DOMAIN trLoans, trTx.to, trTx.resource) - trTx.amount ELSE 0]
        /\ UNCHANGED <<trNode, trReq, trIntent, trRate, trHonest, trTx, trAt>>

TronTick ==
    /\ trTime < MaxTime /\ trPhase \notin {"refused", "done"}
    /\ trTime' = trTime + 1
    /\ UNCHANGED <<trSkew, trLoans, trPhase, trReq, trIntent, trRate, trHonest, trTx, trAt, trLanded>>

TronNext ==
    \/ \E r \in TronRequests :
         \/ SendTRX(r) \/ SendToken(r) \/ Trade(r) \/ Stake(r) \/ Unstake(r) \/ Delegate(r)
         \/ Reclaim(r) \/ ReclaimAll(r) \/ WithdrawUnstaked(r) \/ CancelUnstakes(r) \/ Deploy(r)
    \/ AnswerHonestly \/ AnswerOtherwise \/ submitWithSigner \/ TronLand \/ TronTick

-----------------------------------------------------------------------------
(* Properties.                                                             *)

\* The least stake that is worth the units.
StakeFor(units, rate) == Min({sun \in 1..(units * rate.weight) : sun * rate.limit >= units * rate.weight})

\* What the request asks for, in the terms of the chain.
Wanted(r) ==
    CASE r.kind = "trx" -> <<"pays", "me", r.to, r.amount>>
      [] r.kind = "trc20" -> <<"calls", "me", "usdt", <<"transfer", r.to, r.amount>>, 0, 0, FeeLimit>>
      [] r.kind = "swap" -> <<"calls", "me", "router", <<"swap", r.to, r.amount>>, r.amount, 0, FeeLimit>>
      [] r.kind \in {"stake", "unstake"} -> <<r.kind, "me", r.resource, r.amount>>
      [] r.kind = "delegate" -> <<"lends", "me", r.to, r.resource, StakeFor(r.amount, trRate), FALSE>>
      [] r.kind = "reclaim" -> <<"takes back", "me", r.to, r.resource, StakeFor(r.amount, trRate)>>
      [] r.kind \in {"withdraw", "cancel"} -> <<r.kind, "me">>
      [] r.kind = "deploy" -> <<"creates", "me", <<"code">>, "token", r.amount, 1, 0, 0, FeeLimit>>

\* Whatever a node answers, a signed transaction does what the request asks
\* for and nothing beside it: one contract, no memo, under the owner's own
\* permission (Intent.Verify).  Arguments of a deployed contract's constructor
\* follow the code, and are not compared.
SignedIsAsked ==
    trPhase \in {"signed", "done"} =>
      /\ trReq.kind # "reclaimAll" => Effect(trTx) = Wanted(trReq)
      /\ trTx.contracts = 1 /\ trTx.memo = 0 /\ trTx.unknown = 0 /\ trTx.permission = 0

\* The wallet's clock, off by the tolerated skew, errs on neither side of what
\* the chain would say (verifyHeader).  A node's honest answer that is still
\* good on chain is signed, and a signed transaction is worthless soon after:
\* it cannot land later than the lifetime past the signature and that skew.
SignedInTime ==
    /\ trPhase = "refused" /\ trHonest => trAt > trTx.expires
    /\ trPhase = "done" => trTime <= trAt + Lifetime + Max(Skews)

\* "Take everything back" names all that is lent to the receiver, although
\* the node lists it in several records, and the chain accepts it unless a
\* lock the wallet's fast clock believes past still holds (ReclaimAll,
\* splitDelegations, reclaimable).
ReclaimAllTakesAll ==
    trLanded # None /\ trReq.kind = "reclaimAll" =>
      /\ trLanded.left = 0
      /\ trLanded.ok \/ (trSkew > 0 /\ Unlocked # DOMAIN trLoans)
=============================================================================
