------------------------------ MODULE EvmSends ------------------------------
(***************************************************************************)
(* EVM transfers (chain/evm/adapter.go): an estimate is shown, the user     *)
(* approves it, and Send reads the node again, signs the approved caps and  *)
(* broadcasts once, all under the lock of the sending address.  The fee     *)
(* market moves at any time; a broadcast may be refused, lost, or arrive    *)
(* after the wallet gave up on it.  Tabs share one address.                 *)
(***************************************************************************)
EXTENDS Absent, Integers, FiniteSets, FiniteSetsExt

CONSTANTS
    EvmTabs,    \* requests under way for the address
    Amounts,    \* amounts a request may name
    Markets,    \* [model, base, tip] per gas, as a node may report them
    GasLevels,  \* gas a call may need
    MaxGasPrice,    \* maxSuggestedGasPriceWei
    Funds,      \* holdings of the address: [native, token, wrapped]
    MaxRounds  \* EstimateMaxTransfer gives up after so many

ASSUME EvmAssumption ==
    /\ IsFiniteSet(EvmTabs) /\ None \notin EvmTabs
    /\ None \notin {"native", "token", "wrapped", "refused", "pending", "failed", "unknown"}
    /\ Amounts \subseteq Nat /\ GasLevels \subseteq Nat /\ MaxGasPrice \in Nat /\ MaxRounds \in Nat
    /\ Markets \subseteq [model : {"eip1559", "legacy"}, base : Nat, tip : Nat]
    /\ Funds \subseteq [native : Nat, token : Nat, wrapped : Nat]

VARIABLES
    evmMarket, evmGas,  \* what the node would answer now
    evmHeld,    \* holdings of the address on chain
    evmNonce,   \* transactions of the address on chain
    evmPool,    \* transactions the node holds
    evmLate,    \* transactions on their way to it
    evmLock,    \* the tab that holds the address's nonce lock
    evmTab,     \* the tabs
    evmLanded   \* what each tab's transaction did on chain

evmChain == <<evmHeld, evmNonce, evmPool, evmLate, evmLanded>>
evmVars == <<evmMarket, evmGas, evmChain, evmLock, evmTab>>

\* The asset moved, and a native conversion if there is one.
Transfers ==
    [asset : {"native"}, action : {"none", "wrap"}, amount : Amounts]
      \cup [asset : {"token"}, action : {"none"}, amount : Amounts]
      \cup [asset : {"wrapped"}, action : {"none", "unwrap"}, amount : Amounts]

NoTab == [phase |-> "idle", req |-> None, max |-> None, est |-> None, tx |-> None, status |-> None]

EvmTypeOK ==
    /\ evmMarket \in Markets /\ evmGas \in GasLevels
    /\ DOMAIN evmHeld = {"native", "token", "wrapped"}
    /\ \A a \in DOMAIN evmHeld : evmHeld[a] \in Nat
    /\ evmNonce \in 0..Cardinality(EvmTabs) /\ evmLock \in EvmTabs \cup {None}
    /\ \A t \in EvmTabs :
         /\ evmTab[t].phase \in {"idle", "rounds", "shown", "locked", "signed", "done"}
         /\ evmTab[t].status \in {None, "refused", "pending", "failed", "unknown"}
    /\ \A tx \in evmPool \cup evmLate : tx.tab \in EvmTabs /\ tx.nonce \in Nat

EvmInit ==
    /\ evmMarket \in Markets /\ evmGas \in GasLevels /\ evmHeld \in Funds
    /\ evmNonce = 0 /\ evmPool = {} /\ evmLate = {} /\ evmLock = None
    /\ evmTab = [t \in EvmTabs |-> NoTab]
    /\ evmLanded = [t \in EvmTabs |-> None]

-----------------------------------------------------------------------------
(* Fees and calls.                                                         *)

\* suggestFees: twice the base fee leaves room for it to rise.
suggestFees ==
    [model |-> evmMarket.model, tip |-> evmMarket.tip,
     cap |-> IF evmMarket.model = "eip1559" THEN 2 * evmMarket.base + evmMarket.tip ELSE evmMarket.base]

sane(fees) == fees.cap <= MaxGasPrice /\ fees.tip <= MaxGasPrice

\* transferCall: the contract called, the value sent along, method and units.
transferCall(r) ==
    CASE r.action = "wrap" -> [to |-> "wrapped", value |-> r.amount, method |-> "deposit", units |-> 0]
      [] r.action = "unwrap" -> [to |-> "wrapped", value |-> 0, method |-> "withdraw", units |-> r.amount]
      [] r.action = "none" /\ r.asset = "native" -> [to |-> "recipient", value |-> r.amount, method |-> "none", units |-> 0]
      [] OTHER -> [to |-> r.asset, value |-> 0, method |-> "transfer", units |-> r.amount]

\* The EVM: whether the holdings pay for a call, and what it leaves of them.
Runs(held, call) ==
    /\ call.value <= held.native
    /\ call.units > 0 => call.units <= held[call.to]

After(held, call) ==
    LET paid == [held EXCEPT !.native = @ - call.value] IN
    CASE call.method = "none" -> paid
      [] call.method = "deposit" -> [paid EXCEPT !.wrapped = @ + call.value]
      [] call.method = "withdraw" -> [paid EXCEPT !.wrapped = @ - call.units, !.native = @ + call.units]
      [] call.method = "transfer" -> [paid EXCEPT ![call.to] = @ - call.units]

\* What a user is shown: the fee is the most the caps allow.
Estimate(r, fees) ==
    [amount |-> r.amount, model |-> fees.model, gas |-> evmGas, cap |-> fees.cap, tip |-> fees.tip,
     fee |-> evmGas * fees.cap]

-----------------------------------------------------------------------------
(* Estimates.                                                              *)

Shown(t, r) ==
    /\ sane(suggestFees)
    /\ evmTab' = [evmTab EXCEPT ![t] = [@ EXCEPT !.phase = "shown", !.req = r, !.est = Estimate(r, suggestFees)]]
    /\ UNCHANGED <<evmMarket, evmGas, evmChain, evmLock>>

\* The handler sends native amounts and conversions here.
EstimateTransfer(t, r) ==
    /\ evmTab[t].phase = "idle" /\ (r.asset = "native" \/ r.action # "none")
    /\ Runs(evmHeld, transferCall(r)) /\ Shown(t, r)

\* Token transfers, the maximum included, are priced even when there is no
\* native coin for the fee.
EstimateFunding(t, asset) ==
    /\ evmTab[t].phase = "idle"
    /\ \E amount \in Amounts \cup {evmHeld[asset]} :
         LET r == [asset |-> asset, action |-> "none", amount |-> amount] IN
         amount > 0 /\ Runs(evmHeld, transferCall(r)) /\ Shown(t, r)

\* The maximum of an unwrap: all of it, if the native balance covers the fee.
EstimateMaxToken(t) ==
    LET r == [asset |-> "wrapped", action |-> "unwrap", amount |-> evmHeld.wrapped] IN
    /\ evmTab[t].phase = "idle" /\ evmHeld.wrapped > 0
    /\ Estimate(r, suggestFees).fee <= evmHeld.native /\ Shown(t, r)

\* EstimateMaxTransfer reads the balance once and starts from the least amount.
EstimateMaxTransfer(t, action) ==
    /\ evmTab[t].phase = "idle" /\ evmHeld.native > 0
    /\ evmTab' = [evmTab EXCEPT ![t].phase = "rounds",
                    ![t].max = [action |-> action, balance |-> evmHeld.native, candidate |-> 1, reserved |-> 0, round |-> 1]]
    /\ UNCHANGED <<evmMarket, evmGas, evmChain, evmLock>>

\* Mutant: the lowest fee seen is kept.
ReserveLeast(reserved, fee) == IF fee < reserved THEN fee ELSE reserved

\* The highest fee of any round stays reserved.
Reserve(reserved, fee) == IF fee > reserved THEN fee ELSE reserved

\* One round prices the candidate; it is the answer when it repeats.
MaxRound(t) ==
    LET max == evmTab[t].max
        r == [asset |-> "native", action |-> max.action, amount |-> max.candidate]
        est == Estimate(r, suggestFees)
        reserved == Reserve(max.reserved, est.fee)
    IN  /\ evmTab[t].phase = "rounds"
        /\ evmTab' = [evmTab EXCEPT ![t] =
             IF ~sane(suggestFees) \/ reserved >= max.balance \/ ~Runs(evmHeld, transferCall(r)) THEN NoTab
             ELSE IF max.balance - reserved = max.candidate
               THEN [@ EXCEPT !.phase = "shown", !.req = r, !.est = [est EXCEPT !.fee = reserved]]
             ELSE IF max.round = MaxRounds THEN NoTab
             ELSE [@ EXCEPT !.max = [max EXCEPT !.candidate = max.balance - reserved,
                                                !.reserved = reserved, !.round = max.round + 1]]]
        /\ UNCHANGED <<evmMarket, evmGas, evmChain, evmLock>>

-----------------------------------------------------------------------------
(* Send.                                                                   *)

\* Mutant: nothing keeps two sends of the address apart.
NotLocked == TRUE

LockIsFree == evmLock = None

LockNonce(t) ==
    /\ evmTab[t].phase = "shown" /\ LockIsFree
    /\ evmLock' = t
    /\ evmTab' = [evmTab EXCEPT ![t].phase = "locked"]
    /\ UNCHANGED <<evmMarket, evmGas, evmChain>>

\* The node counts the transactions it holds after those on chain.
PendingNonce ==
    Min({n \in evmNonce..(evmNonce + Cardinality(EvmTabs)) : \A tx \in evmPool : tx.nonce # n})

Released(t, status) ==
    /\ evmLock' = IF evmLock = t THEN None ELSE evmLock
    /\ evmTab' = [evmTab EXCEPT ![t].phase = "done", ![t].status = status, ![t].max = None]

\* Mutant: the gas limit gets its margin a second time.
PaddedFees(approved, current) == [gas |-> approved.gas + evmGas, cap |-> approved.cap, tip |-> approved.tip]

SignedFees(approved, current) == [gas |-> approved.gas, cap |-> approved.cap, tip |-> approved.tip]

\* The approval is still good: same model, enough gas, and no higher price.
approvedFees(approved, current) ==
    /\ approved.model = current.model
    /\ approved.gas > 0 /\ sane(approved) /\ approved.tip <= approved.cap
    /\ evmGas <= approved.gas
    /\ current.cap <= approved.cap

\* Gas, pending nonce and fees are read; what is signed is the approval.
Sign(t) ==
    LET call == transferCall(evmTab[t].req)
        fees == SignedFees(evmTab[t].est, suggestFees)
        tx == [tab |-> t, nonce |-> PendingNonce, call |-> call, model |-> evmTab[t].est.model,
               gas |-> fees.gas, cap |-> fees.cap, tip |-> fees.tip]
    IN  /\ evmTab[t].phase = "locked"
        /\ IF Runs(evmHeld, call) /\ sane(suggestFees) /\ approvedFees(evmTab[t].est, suggestFees)
           THEN evmTab' = [evmTab EXCEPT ![t].phase = "signed", ![t].tx = tx] /\ UNCHANGED evmLock
           ELSE Released(t, "refused")
        /\ UNCHANGED <<evmMarket, evmGas, evmChain>>

\* A node replaces a transaction only by one that pays more.
Accepted(tx) ==
    /\ tx.nonce >= evmNonce
    /\ \A other \in evmPool : other.nonce = tx.nonce => other.cap < tx.cap

Replaced(tx) == {other \in evmPool : other.nonce # tx.nonce} \cup {tx}

\* SendTransaction, once.  An error object is a refusal; silence may mean the
\* node has it, will get it, or never will.
Broadcast(t) ==
    LET tx == evmTab[t].tx IN
    /\ evmTab[t].phase = "signed"
    /\ \/ Accepted(tx) /\ evmPool' = Replaced(tx) /\ UNCHANGED evmLate /\ Released(t, "pending")
       \/ UNCHANGED <<evmPool, evmLate>> /\ Released(t, "failed")
       \/ Accepted(tx) /\ evmPool' = Replaced(tx) /\ UNCHANGED evmLate /\ Released(t, "unknown")
       \/ evmLate' \in {evmLate, evmLate \cup {tx}} /\ UNCHANGED evmPool /\ Released(t, "unknown")
    /\ UNCHANGED <<evmMarket, evmGas, evmHeld, evmNonce, evmLanded>>

-----------------------------------------------------------------------------
(* The network.                                                            *)

Arrive ==
    /\ \E tx \in evmLate :
         /\ evmLate' = evmLate \ {tx}
         /\ evmPool' = IF Accepted(tx) THEN Replaced(tx) ELSE evmPool
    /\ UNCHANGED <<evmMarket, evmGas, evmHeld, evmNonce, evmLanded, evmLock, evmTab>>

\* The price a transaction pays per gas.
PricePaid(tx) ==
    IF tx.model = "eip1559" /\ evmMarket.model = "eip1559"
    THEN Min({tx.cap, evmMarket.base + tx.tip}) ELSE tx.cap

\* A call that reverts or runs out of gas still pays.
Land ==
    /\ \E tx \in evmPool :
         LET charged == Min({tx.gas, evmGas}) * PricePaid(tx)
             left == [evmHeld EXCEPT !.native = @ - charged]
             ok == evmGas <= tx.gas /\ Runs(left, tx.call)
         IN  /\ tx.nonce = evmNonce /\ tx.cap >= evmMarket.base
             /\ tx.gas * tx.cap + tx.call.value <= evmHeld.native
             /\ evmHeld' = IF ok THEN After(left, tx.call) ELSE left
             /\ evmLanded' = [evmLanded EXCEPT ![tx.tab] =
                  [charged |-> charged, ok |-> ok,
                   change |-> [a \in DOMAIN evmHeld |-> evmHeld'[a] - evmHeld[a]]]]
             /\ evmPool' = evmPool \ {tx} /\ evmNonce' = evmNonce + 1
    /\ UNCHANGED <<evmMarket, evmGas, evmLate, evmLock, evmTab>>

\* Between requests it makes no difference.
MarketMoves ==
    /\ evmPool \cup evmLate # {} \/ \E t \in EvmTabs : evmTab[t].phase \notin {"idle", "done"}
    /\ \/ \E market \in Markets \ {evmMarket} : evmMarket' = market /\ UNCHANGED evmGas
       \/ \E gas \in GasLevels \ {evmGas} : evmGas' = gas /\ UNCHANGED evmMarket
    /\ UNCHANGED <<evmChain, evmLock, evmTab>>

EvmNext ==
    \/ \E t \in EvmTabs :
         \/ \E r \in Transfers : EstimateTransfer(t, r)
         \/ \E asset \in {"token", "wrapped"} : EstimateFunding(t, asset)
         \/ \E action \in {"none", "wrap"} : EstimateMaxTransfer(t, action)
         \/ EstimateMaxToken(t) \/ MaxRound(t)
         \/ LockNonce(t) \/ Sign(t) \/ Broadcast(t)
    \/ Arrive \/ Land \/ MarketMoves

-----------------------------------------------------------------------------
(* Properties.                                                             *)

\* Two transfers the node took are two transactions: neither can displace the
\* other, because the nonce lock is held from reading the pending nonce to the
\* node's answer (Adapter.Send).  A transfer whose answer was lost is outside.
SendsCoexist ==
    \A s, t \in EvmTabs :
      s # t /\ evmTab[s].status = "pending" /\ evmTab[t].status = "pending"
        => evmTab[s].tx.nonce # evmTab[t].tx.nonce

\* Whatever the fee market did between the estimate, the signature and the
\* block, what left the address is the fee shown or less, and the amount asked
\* for in the asset asked for or nothing (approvedFees, transferCall).
CostsWhatWasShown ==
    \A t \in EvmTabs : evmLanded[t] # None =>
      LET l == evmLanded[t]
          r == evmTab[t].req
          gains == CASE r.action = "wrap" -> "wrapped" [] r.action = "unwrap" -> "native" [] OTHER -> None
          asked(a) == (IF a = gains THEN r.amount ELSE 0) - (IF a = r.asset THEN r.amount ELSE 0)
          fee(a) == IF a = "native" THEN l.charged ELSE 0
      IN  /\ l.charged <= evmTab[t].est.fee
          /\ \A a \in DOMAIN l.change : l.change[a] = (IF l.ok THEN asked(a) ELSE 0) - fee(a)

\* The maximum leaves room for its own fee: the amount and the caps that will
\* be signed fit the balance that was read, even when the market moves from
\* round to round (EstimateMaxTransfer).
MaxFits ==
    \A t \in EvmTabs :
      LET tab == evmTab[t] IN
      tab.phase = "shown" /\ tab.max # None =>
        tab.est.amount + tab.est.gas * tab.est.cap <= tab.max.balance
=============================================================================
