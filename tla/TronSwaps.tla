----------------------------- MODULE TronSwaps -----------------------------
(***************************************************************************)
(* SunSwap on Tron (tron/swap.go).  A swap is up to three transactions: the *)
(* token approval, the Permit2 grant of a V4 route and the trade.  Each is  *)
(* one request, planned from the allowances on chain, checked and signed a  *)
(* little later; it lands while its lifetime lasts, in any order, or never. *)
(* Tabs share the account; prices and clocks move.                          *)
(***************************************************************************)
EXTENDS Absent, Integers, Sequences

CONSTANTS
    SwapTabs,
    SwapRequests,       \* [in, protocol, amount, unlimited]
    SwapGrants,         \* Permit2 grants the account may start with: [amount, expires]
    Payouts,            \* what a pool may pay per unit sold
    Tolerances,         \* slippage a user may choose, in parts of Parts
    SwapSkews,          \* how far the wallet's clock may be ahead of the chain's
    SwapSlippage,       \* maxSwapSlippageBps, in parts of Parts
    Parts,
    SwapDeadline, Permit2Lifetime, Permit2UnlimitedLifetime,
    RequestTimeout,     \* of the handler, from plan to signature
    TxLifetime,         \* of a transaction
    Unlimited,          \* maxUint256 and maxUint160
    Holdings,           \* [trx, usdt] of the account at first
    MaxSigned,          \* transactions a tab may sign
    SwapEnd            \* last moment

ASSUME SwapAssumption ==
    /\ SwapRequests \subseteq [in : {"trx", "usdt"}, protocol : {"v2", "v3", "v4"}, amount : Nat, unlimited : BOOLEAN]
    /\ SwapGrants \subseteq [amount : Nat, expires : Nat] /\ Holdings \in [trx : Nat, usdt : Nat]
    /\ Payouts \subseteq Nat /\ SwapSkews \subseteq Int /\ Parts \in Nat \ {0} /\ Tolerances \subseteq 0..Parts
    /\ SwapSlippage \in 0..Parts /\ Unlimited \in Nat /\ MaxSigned \in Nat /\ SwapEnd \in Nat
    /\ {SwapDeadline, Permit2Lifetime, Permit2UnlimitedLifetime, RequestTimeout, TxLifetime} \subseteq Nat

\* An exact grant outlasts a slow request, a slow block and a swap: an hour
\* against minutes.  A grant without limit lives longer still.
ASSUME GrantAssumption ==
    /\ Permit2Lifetime >= RequestTimeout + TxLifetime + SwapDeadline
    /\ Permit2UnlimitedLifetime >= Permit2Lifetime

VARIABLES
    swTime, swSkew,
    swPays,     \* what each pool pays per unit
    swAllowed,  \* the token's allowances, by spender
    swGrant,    \* what Permit2 lets the universal router draw, until when
    swHeld,
    swTab,
    swFlight,   \* signed transactions that may still land
    swLanded    \* what each tab's trade did

swChain == <<swPays, swAllowed, swGrant, swHeld, swFlight, swLanded>>
swVars == <<swTime, swSkew, swChain, swTab>>

Protocols == {"v2", "v3", "v4"}
Spenders == {"v2", "v3", "permit2"}
NoSwap == [phase |-> "idle", req |-> None, minOut |-> 0, plan |-> None, signed |-> 0]

SwapTypeOK ==
    /\ swTime \in 0..SwapEnd /\ swSkew \in SwapSkews /\ swPays \in [Protocols -> Payouts]
    /\ \A s \in Spenders : swAllowed[s] \in 0..Unlimited
    /\ swGrant.amount \in 0..Unlimited /\ swHeld.trx \in Nat /\ swHeld.usdt \in Nat
    /\ \A t \in SwapTabs : swTab[t].phase \in {"idle", "shown", "planned", "sent"} /\ swTab[t].signed \in 0..MaxSigned
    /\ \A tx \in swFlight : tx.expires >= swTime

SwapInit ==
    /\ swTime = 0 /\ swSkew \in SwapSkews /\ \E v \in Payouts : swPays = [p \in Protocols |-> v]
    /\ swAllowed = [s \in Spenders |-> 0] /\ swGrant \in SwapGrants /\ swHeld = Holdings
    /\ swTab = [t \in SwapTabs |-> NoSwap] /\ swFlight = {}
    /\ swLanded = [t \in SwapTabs |-> None]

-----------------------------------------------------------------------------
(* Quotes and plans.                                                       *)

swapOut(in) == IF in = "trx" THEN "usdt" ELSE "trx"

\* quoteRoute: what the pool pays now.
quoteRoute(r) == swPays[r.protocol] * r.amount

Less(amount, slippage) == (amount * (Parts - slippage)) \div Parts

\* The user picks a route, and the least it may pay.
QuoteSwap(t, r, tolerance) ==
    /\ swTab[t].phase = "idle" /\ Less(quoteRoute(r), tolerance) > 0
    /\ swTab' = [swTab EXCEPT ![t] = [@ EXCEPT !.phase = "shown", !.req = r, !.minOut = Less(quoteRoute(r), tolerance)]]
    /\ UNCHANGED <<swTime, swSkew, swChain>>

Spender(r) == IF r.protocol = "v4" THEN "permit2" ELSE r.protocol

\* What the chain says may be drawn: by the spender, and by the universal router.
allowance(r) == swAllowed[Spender(r)]
permit2Allowance == swGrant

Call(kind, to, amount, min, until) == [kind |-> kind, to |-> to, amount |-> amount, min |-> min, until |-> until]

approveCall(r) == Call("approve", Spender(r), IF r.unlimited THEN Unlimited ELSE r.amount, 0, 0)

permit2Call(r, now) ==
    IF r.unlimited THEN Call("permit2", "v4", Unlimited, 0, now + Permit2UnlimitedLifetime)
    ELSE Call("permit2", "v4", r.amount, 0, now + Permit2Lifetime)

swapCall(r, min, now) == Call("swap", r.protocol, r.amount, min, now + SwapDeadline)

\* The grant has to outlive the swap that spends it.
NeedsGrant(r, now) == permit2Allowance.amount < r.amount \/ permit2Allowance.expires < now + SwapDeadline

\* swapCalls: what is still needed, by the allowances on chain.
swapCalls(r, min, now) ==
    (IF r.in = "usdt" /\ allowance(r) < r.amount THEN <<approveCall(r)>> ELSE <<>>)
      \o (IF r.in = "usdt" /\ r.protocol = "v4" /\ NeedsGrant(r, now) THEN <<permit2Call(r, now)>> ELSE <<>>)
      \o <<swapCall(r, min, now)>>

\* Mutant: the minimum is taken from the pool.
MinFromPool(tab) == Less(quoteRoute(tab.req), SwapSlippage)

SignedMinimum(tab) == tab.minOut

\* newSwapPlan: amounts in base units, and the wallet's clock.
newSwapPlan(tab) == [req |-> tab.req, min |-> SignedMinimum(tab), now |-> swTime + swSkew]

\* SwapWithSigner, up to the plan.  A request for another step than the next
\* one is refused and changes nothing.
PlanStep(t) ==
    LET plan == newSwapPlan(swTab[t]) IN
    /\ swTab[t].phase = "shown" /\ swTab[t].signed < MaxSigned
    /\ swTab' = [swTab EXCEPT ![t].phase = "planned",
         ![t].plan = [at |-> swTime, call |-> Head(swapCalls(plan.req, plan.min, plan.now))]]
    /\ UNCHANGED <<swTime, swSkew, swChain>>

-----------------------------------------------------------------------------
(* Contracts.                                                              *)

\* Why a trade would revert; the router looks at its deadline first, then
\* Permit2 at the grant, the token at allowance and balance, the pool at the
\* minimum.
Revert(r, call) ==
    CASE swTime > call.until -> "deadline"
      [] swTime <= call.until /\ r.in = "usdt" /\ r.protocol = "v4" /\ swTime > swGrant.expires -> "grant expired"
      [] OTHER ->
           IF r.in = "usdt" /\ r.protocol = "v4" /\ swGrant.amount < call.amount THEN "grant"
           ELSE IF r.in = "usdt" /\ allowance(r) < call.amount THEN "allowance"
           ELSE IF swHeld[r.in] < call.amount THEN "funds"
           ELSE IF quoteRoute(r) < call.min THEN "price" ELSE ""

\* The price still suits the approved minimum, from above and from below.
PriceHolds(tab) ==
    /\ quoteRoute(tab.req) >= tab.minOut
    /\ tab.minOut >= Less(quoteRoute(tab.req), SwapSlippage)

\* simulate: the node runs the call; an approval always goes through.
simulate(r, call) == call.kind = "swap" => Revert(r, call) = ""

\* SwapWithSigner, from the checks to the signature; a refusal leaves the tab
\* where it was.  A request that takes too long is cancelled.
SignStep(t) ==
    LET tab == swTab[t]
        call == tab.plan.call
        goes == (call.kind = "swap" => PriceHolds(tab)) /\ simulate(tab.req, call)
    IN  /\ tab.phase = "planned"
        /\ IF goes /\ swTime <= tab.plan.at + RequestTimeout
           THEN /\ swFlight' = swFlight \cup {[tab |-> t, call |-> call, expires |-> swTime + TxLifetime]}
                /\ swTab' = [swTab EXCEPT ![t] = [@ EXCEPT !.phase = IF call.kind = "swap" THEN "sent" ELSE "shown",
                                                           !.plan = None, !.signed = tab.signed + 1]]
           ELSE /\ swTab' = [swTab EXCEPT ![t] = [@ EXCEPT !.phase = "shown", !.plan = None]]
                /\ UNCHANGED swFlight
        /\ UNCHANGED <<swTime, swSkew, swPays, swAllowed, swGrant, swHeld, swLanded>>

\* An allowance without limit is not used up.
Drawn(granted, amount) == IF granted = Unlimited THEN granted ELSE granted - amount

LandApprove(call) == swAllowed' = [swAllowed EXCEPT ![call.to] = call.amount] /\ UNCHANGED <<swGrant, swHeld, swLanded>>

LandPermit2(call) ==
    swGrant' = [amount |-> call.amount, expires |-> call.until] /\ UNCHANGED <<swAllowed, swHeld, swLanded>>

LandSwap(t, call) ==
    LET r == swTab[t].req
        why == Revert(r, call)
    IN  /\ IF why # "" THEN UNCHANGED <<swHeld, swAllowed, swGrant>>
           ELSE /\ swHeld' = [swHeld EXCEPT ![r.in] = @ - call.amount, ![swapOut(r.in)] = @ + quoteRoute(r)]
                /\ swAllowed' = IF r.in = "trx" THEN swAllowed ELSE [swAllowed EXCEPT ![Spender(r)] = Drawn(@, call.amount)]
                /\ swGrant' = IF r.in = "trx" \/ r.protocol # "v4" THEN swGrant
                              ELSE [swGrant EXCEPT !.amount = Drawn(@, call.amount)]
        /\ swLanded' = [swLanded EXCEPT ![t] =
             [why |-> why, change |-> [a \in {"trx", "usdt"} |-> swHeld'[a] - swHeld[a]]]]

LandStep ==
    /\ \E tx \in swFlight :
         /\ swFlight' = swFlight \ {tx}
         /\ CASE tx.call.kind = "approve" -> LandApprove(tx.call)
              [] tx.call.kind = "permit2" -> LandPermit2(tx.call)
              [] tx.call.kind = "swap" -> LandSwap(tx.tab, tx.call)
    /\ UNCHANGED <<swTime, swSkew, swPays, swTab>>

\* Time passes; what is too old can no longer land.
SwapTick ==
    /\ swTime < SwapEnd /\ \E t \in SwapTabs : swLanded[t] = None
    /\ swTime' = swTime + 1
    /\ swFlight' = {tx \in swFlight : tx.expires > swTime}
    /\ UNCHANGED <<swSkew, swPays, swAllowed, swGrant, swHeld, swTab, swLanded>>

\* Only the pools of trades under way matter.
PoolMoves ==
    /\ \E t \in SwapTabs, v \in Payouts :
         /\ swTab[t].phase # "idle" /\ swLanded[t] = None
         /\ swPays[swTab[t].req.protocol] # v
         /\ swPays' = [swPays EXCEPT ![swTab[t].req.protocol] = v]
    /\ UNCHANGED <<swTime, swSkew, swAllowed, swGrant, swHeld, swTab, swFlight, swLanded>>

SwapNext ==
    \/ \E t \in SwapTabs :
         \/ \E r \in SwapRequests, tolerance \in Tolerances : QuoteSwap(t, r, tolerance)
         \/ PlanStep(t) \/ SignStep(t)
    \/ LandStep \/ SwapTick \/ PoolMoves

-----------------------------------------------------------------------------
(* Properties.                                                             *)

\* However prices move and whatever the other tab approves or trades, a swap
\* sells exactly the amount the user entered and pays at least the minimum the
\* user saw, or changes nothing (SwapWithSigner, swapCall).  It is never lost to
\* a Permit2 grant that ran out: the one found on chain lives as long as the
\* trade may, and so does one another tab puts in its place, whatever the
\* wallet's clock says (swapCalls).
SwapKeepsItsWord ==
    \A t \in SwapTabs : swLanded[t] # None =>
      LET r == swTab[t].req
          change == swLanded[t].change
      IN  /\ IF swLanded[t].why # "" THEN \A a \in DOMAIN change : change[a] = 0
             ELSE change[r.in] = -r.amount /\ change[swapOut(r.in)] >= swTab[t].minOut
          /\ swLanded[t].why # "grant expired"
=============================================================================
