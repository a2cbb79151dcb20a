--------------------------- MODULE AdaptersProofs ---------------------------
(***************************************************************************)
(* Theorems about the chain adapters, for any number of tabs, any requests *)
(* and markets, prices and clocks that move at will.                       *)
(***************************************************************************)
EXTENDS Adapters, FiniteSetTheorems, FunctionTheorems, SequenceTheorems, WellFoundedInduction, TLAPS

-----------------------------------------------------------------------------
(* SunSwap.                                                                *)

SwapCalls == [kind : {"approve", "permit2", "swap"}, to : Protocols \cup Spenders, amount : Nat, min : Int, until : Int]
SwapPlans == [at : Nat, call : SwapCalls]
SwapTabStates ==
    [phase : {"idle", "shown", "planned", "sent"}, req : SwapRequests \cup {None}, minOut : Int,
     plan : SwapPlans \cup {None}, signed : Nat]
SwapTxs == [tab : SwapTabs, call : SwapCalls, expires : Nat]

SwapTyped ==
    /\ swTime \in Nat /\ swSkew \in Int /\ swPays \in [Protocols -> Nat]
    /\ swGrant \in [amount : Int, expires : Int] /\ swHeld \in [{"trx", "usdt"} -> Int]
    /\ swTab \in [SwapTabs -> SwapTabStates] /\ swFlight \subseteq SwapTxs
    /\ DOMAIN swLanded = SwapTabs
    /\ \A t \in SwapTabs : swTab[t].phase # "idle" => swTab[t].req \in SwapRequests

\* The call is the trade the user saw, due within a swap's deadline; if it is
\* paid through a grant, that grant is good until then.
TradeOf(t, call) ==
    /\ call.amount = swTab[t].req.amount /\ call.min = swTab[t].minOut
    /\ call.until <= swTime + swSkew + SwapDeadline
    /\ swTab[t].req.in = "usdt" /\ swTab[t].req.protocol = "v4" => swGrant.expires >= call.until

\* What a tab is about to sign.
SwapPlanInv(t) ==
    swTab[t].phase = "planned" =>
      LET plan == swTab[t].plan IN
      /\ plan \in SwapPlans /\ plan.at <= swTime
      /\ plan.call.kind = "swap" => TradeOf(t, plan.call)
      /\ plan.call.kind = "permit2" => plan.call.until >= plan.at + swSkew + Permit2Lifetime

\* What may land: not past its lifetime; a grant that lands has longer to
\* live than a swap planned now.
SwapTxInv(tx) ==
    /\ tx.expires >= swTime
    /\ tx.call.kind = "swap" => swTab[tx.tab].phase = "sent" /\ TradeOf(tx.tab, tx.call)
    /\ tx.call.kind = "permit2" =>
         tx.call.until >= tx.expires + swSkew + Permit2Lifetime - RequestTimeout - TxLifetime

\* What landed, landed for good.
SwapWord(t) ==
    swLanded[t] # None =>
      LET r == swTab[t].req
          change == swLanded[t].change
      IN  /\ swTab[t].phase = "sent"
          /\ IF swLanded[t].why # "" THEN \A a \in DOMAIN change : change[a] = 0
             ELSE change[r.in] = -r.amount /\ change[swapOut(r.in)] >= swTab[t].minOut
          /\ swLanded[t].why # "grant expired"

SwapInv ==
    /\ SwapTyped
    /\ \A t \in SwapTabs : SwapPlanInv(t) /\ SwapWord(t)
    /\ \A tx \in swFlight : SwapTxInv(tx)

\* The first states, of an account with no trade under way.
LEMMA SwapInitInv == SwapInit => SwapInv
<1> SUFFICES ASSUME SwapInit PROVE SwapInv
  OBVIOUS
<1>1. swTab \in [SwapTabs -> SwapTabStates] /\ \A t \in SwapTabs : swTab[t].phase = "idle"
  BY DEF SwapInit, NoSwap, SwapTabStates
<1>2. SwapTyped
  BY <1>1, SwapAssumption DEF SwapInit, SwapTyped, Protocols
<1> QED BY <1>1, <1>2 DEF SwapInit, SwapInv, SwapPlanInv, SwapWord

\* What a pool pays is a number, and so is a minimum.
LEMMA QuoteTypes ==
    ASSUME SwapTyped, NEW r \in SwapRequests
    PROVE  /\ quoteRoute(r) \in Nat
           /\ \A tolerance \in Tolerances : Less(quoteRoute(r), tolerance) \in Int
<1>1. r.protocol \in Protocols /\ r.amount \in Nat
  BY SwapAssumption DEF Protocols
<1>2. quoteRoute(r) \in Nat
  <2>1. swPays[r.protocol] \in Nat
    BY <1>1 DEF SwapTyped
  <2> QED BY <1>1, <2>1 DEF quoteRoute
<1>3. ASSUME NEW tolerance \in Tolerances PROVE Less(quoteRoute(r), tolerance) \in Int
  <2>1. tolerance \in Int /\ Parts \in Nat /\ Parts > 0
    BY SwapAssumption
  <2> QED BY <1>2, <2>1 DEF Less
<1> QED BY <1>2, <1>3

\* A step that changes one tab only, which has no plan and did not trade.
LEMMA TabStep ==
    ASSUME SwapInv, NEW t \in SwapTabs, NEW new \in SwapTabStates,
           swTab' = [swTab EXCEPT ![t] = new], UNCHANGED <<swTime, swSkew, swChain>>,
           swTab[t].phase # "sent", new.phase # "idle" => new.req \in SwapRequests,
           new.phase = "planned" => SwapPlanInv(t)'
    PROVE  SwapInv'
<1>1. /\ swTab'[t] = new /\ \A u \in SwapTabs : u # t => swTab'[u] = swTab[u]
      /\ swTab' \in [SwapTabs -> SwapTabStates]
  BY DEF SwapInv, SwapTyped
<1>2. SwapTyped'
  BY <1>1 DEF SwapInv, SwapTyped, swChain
<1>3. ASSUME NEW u \in SwapTabs PROVE SwapPlanInv(u)' /\ SwapWord(u)'
  <2>1. SwapPlanInv(u) /\ SwapWord(u)
    BY DEF SwapInv
  <2>2. CASE u = t
    BY <1>1, <2>1, <2>2 DEF SwapPlanInv, SwapWord, swChain
  <2>3. CASE u # t
    BY <1>1, <2>1, <2>3 DEF SwapPlanInv, SwapWord, TradeOf, swChain
  <2> QED BY <2>2, <2>3
<1>4. ASSUME NEW tx \in swFlight' PROVE SwapTxInv(tx)'
  <2>1. tx \in swFlight /\ SwapTxInv(tx) /\ tx.tab \in SwapTabs
    BY DEF SwapInv, SwapTyped, SwapTxs, swChain
  <2>2. tx.call.kind = "swap" => tx.tab # t
    BY <2>1 DEF SwapTxInv
  <2> QED BY <1>1, <2>1, <2>2 DEF SwapTxInv, TradeOf, swChain
<1> QED BY <1>2, <1>3, <1>4 DEF SwapInv

\* A quote opens a tab.
LEMMA QuoteSwapInv ==
    ASSUME SwapInv, NEW t \in SwapTabs, NEW r \in SwapRequests, NEW tolerance \in Tolerances,
           QuoteSwap(t, r, tolerance)
    PROVE  SwapInv'
<1> DEFINE new == [swTab[t] EXCEPT !.phase = "shown", !.req = r, !.minOut = Less(quoteRoute(r), tolerance)]
<1>1. swTab[t] \in SwapTabStates
  BY DEF SwapInv, SwapTyped
<1>2. Less(quoteRoute(r), tolerance) \in Int
  BY QuoteTypes DEF SwapInv
<1>3. new \in SwapTabStates /\ new.phase = "shown" /\ new.req = r
  BY <1>1, <1>2 DEF SwapTabStates
<1>4. swTab' = [swTab EXCEPT ![t] = new] /\ swTab[t].phase = "idle"
  BY DEF QuoteSwap
<1> HIDE DEF new
<1> QED BY <1>3, <1>4, TabStep DEF QuoteSwap

\* The next call of a plan is the approval, the grant or the trade.
LEMMA NextCall ==
    ASSUME NEW r, NEW min, NEW now
    PROVE  Head(swapCalls(r, min, now)) \in {approveCall(r), permit2Call(r, now), swapCall(r, min, now)}
           /\ (Head(swapCalls(r, min, now)) = swapCall(r, min, now) =>
                 \/ ~(r.in = "usdt" /\ r.protocol = "v4" /\ NeedsGrant(r, now))
                 \/ swapCall(r, min, now) \in {approveCall(r), permit2Call(r, now)})
<1> DEFINE A == r.in = "usdt" /\ allowance(r) < r.amount
           B == r.in = "usdt" /\ r.protocol = "v4" /\ NeedsGrant(r, now)
           x == approveCall(r)
           y == permit2Call(r, now)
           z == swapCall(r, min, now)
           s == (IF A THEN <<x>> ELSE <<>>) \o (IF B THEN <<y>> ELSE <<>>) \o <<z>>
<1>1. swapCalls(r, min, now) = s
  BY DEF swapCalls
<1>2. Head(s) = IF A THEN x ELSE IF B THEN y ELSE z
  <2> HIDE DEF A, B, x, y, z
  <2>1. CASE A /\ B
    BY <2>1
  <2>2. CASE A /\ ~B
    BY <2>2
  <2>3. CASE ~A /\ B
    BY <2>3
  <2>4. CASE ~A /\ ~B
    BY <2>4
  <2> QED BY <2>1, <2>2, <2>3, <2>4
<1> HIDE DEF A, x, y, z, s
<1>3. Head(s) \in {x, y, z} /\ (Head(s) = z => ~B \/ z \in {x, y})
  <2> HIDE DEF B
  <2> QED BY <1>2
<1> QED BY <1>1, <1>3 DEF x, y, z, A

\* A plan: its trade has a grant that outlives it, or none of the sort is
\* needed; its grant is made out for the whole lifetime.
LEMMA PlanStepInv ==
    ASSUME SwapInv, NEW t \in SwapTabs, PlanStep(t)
    PROVE  SwapInv'
<1> DEFINE r == swTab[t].req
           min == swTab[t].minOut
           now == swTime + swSkew
<1>0. PICK call : call = Head(swapCalls(r, min, now))
  OBVIOUS
<1> DEFINE new == [swTab[t] EXCEPT !.phase = "planned", !.plan = [at |-> swTime, call |-> call]]
<1>1. swTab[t] \in SwapTabStates /\ swTab[t].phase = "shown" /\ r \in SwapRequests /\ min \in Int /\ now \in Int
  BY DEF SwapInv, SwapTyped, PlanStep, SwapTabStates
<1>2. r.in \in {"trx", "usdt"} /\ r.protocol \in Protocols /\ r.amount \in Nat /\ r.unlimited \in BOOLEAN
  BY <1>1, SwapAssumption DEF Protocols
<1>3. swTab' = [swTab EXCEPT ![t] = new] /\ UNCHANGED <<swTime, swSkew, swChain>>
  <2>1. swTab' = [swTab EXCEPT ![t].phase = "planned", ![t].plan = [at |-> swTime, call |-> call]]
    BY <1>0 DEF PlanStep, newSwapPlan, SignedMinimum
  <2> QED BY <1>1, <2>1 DEF PlanStep, SwapTabStates, SwapInv, SwapTyped
<1>4. approveCall(r) \in SwapCalls /\ approveCall(r).kind = "approve"
  BY <1>2, SwapAssumption DEF approveCall, Call, SwapCalls, Spender, Spenders, Protocols
<1>5. /\ permit2Call(r, now) \in SwapCalls /\ permit2Call(r, now).kind = "permit2"
      /\ permit2Call(r, now).until >= now + Permit2Lifetime
  BY <1>1, <1>2, SwapAssumption, GrantAssumption DEF permit2Call, Call, SwapCalls, Protocols
<1>6. /\ swapCall(r, min, now) \in SwapCalls /\ swapCall(r, min, now).kind = "swap"
      /\ swapCall(r, min, now).amount = r.amount /\ swapCall(r, min, now).min = min
      /\ swapCall(r, min, now).until = now + SwapDeadline
  BY <1>1, <1>2, SwapAssumption DEF swapCall, Call, SwapCalls
<1>7. /\ call \in SwapCalls
      /\ call.kind = "permit2" => call = permit2Call(r, now)
      /\ call.kind = "swap" =>
           call = swapCall(r, min, now) /\ ~(r.in = "usdt" /\ r.protocol = "v4" /\ NeedsGrant(r, now))
  <2> HIDE DEF r, min, now
  <2> QED BY <1>0, <1>4, <1>5, <1>6, NextCall
<1>8. new \in SwapTabStates /\ new.phase = "planned" /\ new.req = r /\ new.minOut = min
      /\ new.plan = [at |-> swTime, call |-> call] /\ new.plan \in SwapPlans
  BY <1>1, <1>7 DEF SwapTabStates, SwapPlans, SwapInv, SwapTyped
<1>9. swTab'[t] = new
  BY <1>3 DEF SwapInv, SwapTyped
<1> HIDE DEF new
<1>10. SwapPlanInv(t)'
  <2>1. call.kind = "swap" => TradeOf(t, call)'
    <3> SUFFICES ASSUME call.kind = "swap" PROVE TradeOf(t, call)'
      OBVIOUS
    <3>1. r.in = "usdt" /\ r.protocol = "v4" => swGrant.expires >= call.until
      BY <1>1, <1>6, <1>7, SwapAssumption DEF NeedsGrant, permit2Allowance, SwapInv, SwapTyped
    <3>2. call.amount = r.amount /\ call.min = min /\ call.until = swTime + swSkew + SwapDeadline /\ call.until \in Int
      BY <1>1, <1>6, <1>7 DEF SwapCalls
    <3> QED BY <1>3, <1>8, <1>9, <3>1, <3>2 DEF TradeOf, swChain
  <2>2. call.kind = "permit2" => call.until >= swTime + swSkew + Permit2Lifetime
    BY <1>5, <1>7
  <2> QED BY <1>3, <1>8, <1>9, <2>1, <2>2 DEF SwapPlanInv, SwapPlans, SwapInv, SwapTyped
<1> QED BY <1>1, <1>3, <1>8, <1>10, TabStep

\* A signature turns a plan into a transaction, in time.
LEMMA SignStepInv ==
    ASSUME SwapInv, NEW t \in SwapTabs, SignStep(t)
    PROVE  SwapInv'
<1>0. PICK call : call = swTab[t].plan.call
  OBVIOUS
<1>00. PICK tx : tx = [tab |-> t, call |-> call, expires |-> swTime + TxLifetime]
  OBVIOUS
<1> DEFINE phase == IF call.kind = "swap" THEN "sent" ELSE "shown"
           sent == [swTab[t] EXCEPT !.phase = phase, !.plan = None, !.signed = @ + 1]
           back == [swTab[t] EXCEPT !.phase = "shown", !.plan = None]
<1>1. /\ swTab[t] \in SwapTabStates /\ swTab[t].phase = "planned" /\ swTab[t].req \in SwapRequests
      /\ SwapPlanInv(t) /\ SwapTyped /\ swTime \in Nat
  BY DEF SwapInv, SwapTyped, SignStep
<1>2. call \in SwapCalls /\ swTab[t].plan.at \in Nat /\ swTab[t].plan.at <= swTime
  BY <1>0, <1>1 DEF SwapPlanInv, SwapPlans
<1>3. CASE swTab' = [swTab EXCEPT ![t] = back] /\ UNCHANGED swFlight
  <2>1. back \in SwapTabStates /\ back.phase = "shown" /\ back.req = swTab[t].req
    BY <1>1 DEF SwapTabStates
  <2> HIDE DEF back
  <2> QED BY <1>1, <1>3, <2>1, TabStep DEF SignStep, swChain
<1>4. CASE /\ swTime <= swTab[t].plan.at + RequestTimeout
           /\ swFlight' = swFlight \cup {tx} /\ swTab' = [swTab EXCEPT ![t] = sent]
  <2>0. phase \in {"shown", "sent"}
    OBVIOUS
  <2>1. /\ sent \in SwapTabStates /\ sent.phase = phase /\ sent.req = swTab[t].req
        /\ sent.minOut = swTab[t].minOut /\ phase \in {"shown", "sent"}
    <3> HIDE DEF phase
    <3>1. DOMAIN swTab[t] = {"phase", "req", "minOut", "plan", "signed"} /\ swTab[t].signed + 1 \in Nat
      BY <1>1 DEF SwapTabStates
    <3> QED BY <1>1, <2>0, <3>1 DEF SwapTabStates
  <2>2. /\ tx \in SwapTxs /\ tx.tab = t /\ tx.call = call /\ tx.expires = swTime + TxLifetime
    BY <1>00, <1>1, <1>2, SwapAssumption DEF SwapTxs
  <2> HIDE DEF sent
  <2>3. /\ swTab'[t] = sent /\ \A u \in SwapTabs : u # t => swTab'[u] = swTab[u]
        /\ swTab' \in [SwapTabs -> SwapTabStates]
    BY <1>1, <1>4, <2>1 DEF SwapTyped
  <2>4. UNCHANGED <<swTime, swSkew, swPays, swAllowed, swGrant, swHeld, swLanded>>
    BY DEF SignStep
  <2>5. SwapTyped'
    BY <1>1, <1>4, <2>1, <2>2, <2>3, <2>4 DEF SwapTyped
  <2>6. ASSUME NEW u \in SwapTabs PROVE SwapPlanInv(u)' /\ SwapWord(u)'
    <3>1. SwapPlanInv(u) /\ SwapWord(u)
      BY DEF SwapInv
    <3>2. CASE u = t
      BY <1>1, <2>1, <2>3, <2>4, <3>1, <3>2 DEF SwapPlanInv, SwapWord
    <3>3. CASE u # t
      BY <2>3, <2>4, <3>1, <3>3 DEF SwapPlanInv, SwapWord, TradeOf
    <3> QED BY <3>2, <3>3
  <2>7. SwapTxInv(tx)'
    <3>1. tx.expires >= swTime
      BY <1>1, <2>2, SwapAssumption
    <3>2. call.kind = "swap" => phase = "sent" /\ TradeOf(t, call)
      BY <1>0, <1>1 DEF SwapPlanInv
    <3>3. TradeOf(t, call) => TradeOf(t, call)'
      BY <2>1, <2>3, <2>4 DEF TradeOf
    <3>4. call.kind = "permit2" => call.until >= swTab[t].plan.at + swSkew + Permit2Lifetime
      BY <1>0, <1>1 DEF SwapPlanInv
    <3>5. call.kind = "permit2" =>
            call.until >= tx.expires + swSkew + Permit2Lifetime - RequestTimeout - TxLifetime
      BY <1>1, <1>2, <1>4, <2>2, <3>4, SwapAssumption DEF SwapCalls, SwapTyped
    <3> HIDE DEF phase
    <3> QED BY <2>1, <2>2, <2>3, <2>4, <3>1, <3>2, <3>3, <3>5 DEF SwapTxInv
  <2>8. ASSUME NEW other \in swFlight PROVE SwapTxInv(other)'
    <3>1. SwapTxInv(other) /\ other.tab \in SwapTabs
      BY DEF SwapInv, SwapTyped, SwapTxs
    <3>2. other.call.kind = "swap" => other.tab # t
      BY <1>1, <3>1 DEF SwapTxInv
    <3> QED BY <2>3, <2>4, <3>1, <3>2 DEF SwapTxInv, TradeOf
  <2> QED BY <1>4, <2>5, <2>6, <2>7, <2>8 DEF SwapInv
<1>5. \/ swTab' = [swTab EXCEPT ![t] = back] /\ UNCHANGED swFlight
      \/ /\ swTime <= swTab[t].plan.at + RequestTimeout
         /\ swFlight' = swFlight \cup {tx} /\ swTab' = [swTab EXCEPT ![t] = sent]
  <2> DEFINE goes == (call.kind = "swap" => PriceHolds(swTab[t])) /\ simulate(swTab[t].req, call)
  <2>1. CASE goes /\ swTime <= swTab[t].plan.at + RequestTimeout
    <3>1. swTab' = [swTab EXCEPT ![t] = sent]
      <4>1. swTab' = [swTab EXCEPT ![t] =
                       [swTab[t] EXCEPT !.phase = IF swTab[t].plan.call.kind = "swap" THEN "sent" ELSE "shown",
                                        !.plan = None, !.signed = @ + 1]]
        BY <1>0, <2>1 DEF SignStep
      <4> QED BY <1>0, <4>1
    <3>2. swFlight' = swFlight \cup {tx}
      BY <1>0, <1>00, <2>1 DEF SignStep
    <3> QED BY <2>1, <3>1, <3>2
  <2>2. CASE ~(goes /\ swTime <= swTab[t].plan.at + RequestTimeout)
    BY <1>0, <2>2 DEF SignStep
  <2> QED BY <2>1, <2>2
<1> QED BY <1>3, <1>4, <1>5

\* What a trade does when it lands: nothing, or what the user saw.
LEMMA LandSwapEffect ==
    ASSUME SwapInv, NEW tx \in swFlight, tx.call.kind = "swap", LandSwap(tx.tab, tx.call),
           UNCHANGED swTab
    PROVE  /\ swGrant' \in [amount : Int, expires : Int] /\ swGrant'.expires = swGrant.expires
           /\ swHeld' \in [{"trx", "usdt"} -> Int] /\ DOMAIN swLanded' = SwapTabs
           /\ \A t \in SwapTabs : t # tx.tab => swLanded'[t] = swLanded[t]
           /\ SwapWord(tx.tab)'
<1>0. PICK t, call : t = tx.tab /\ call = tx.call
  OBVIOUS
<1>00. PICK r, why : r = swTab[t].req /\ why = Revert(r, call)
  OBVIOUS
<1> DEFINE change == [a \in {"trx", "usdt"} |-> swHeld'[a] - swHeld[a]]
<1>1. SwapTyped /\ SwapTxInv(tx) /\ t \in SwapTabs /\ call \in SwapCalls
  BY <1>0 DEF SwapInv, SwapTyped, SwapTxs
<1>2. swTab[t].phase = "sent" /\ TradeOf(t, call) /\ r \in SwapRequests /\ swTab[t].minOut \in Int
  BY <1>0, <1>00, <1>1 DEF SwapTxInv, SwapTyped, SwapTabStates
<1>3. r.in \in {"trx", "usdt"} /\ r.protocol \in Protocols /\ r.amount \in Nat
  BY <1>2, SwapAssumption DEF Protocols
<1>4. quoteRoute(r) \in Nat
  BY <1>1, <1>2, QuoteTypes
<1>5. swLanded' = [swLanded EXCEPT ![t] = [why |-> why, change |-> change]]
  BY <1>0, <1>00 DEF LandSwap
<1> HIDE DEF change
<1>6. /\ swLanded'[t].why = why /\ swLanded'[t].change = change /\ DOMAIN swLanded' = SwapTabs
      /\ \A u \in SwapTabs : u # t => swLanded'[u] = swLanded[u]
  BY <1>1, <1>5 DEF SwapTyped
<1>7. why # "grant expired"
  <2>1. r.in = "usdt" /\ r.protocol = "v4" => swGrant.expires >= call.until
    BY <1>00, <1>2 DEF TradeOf
  <2>2. swTime \in Int /\ swGrant.expires \in Int /\ call.until \in Int
    BY <1>1 DEF SwapTyped, SwapCalls
  <2>3. why = Revert(r, call)
    BY <1>00
  <2>4. Revert(r, call) # "grant expired"
    BY <2>1, <2>2 DEF Revert
  <2> QED BY <2>3, <2>4
<1>8. why = "" => quoteRoute(r) >= swTab[t].minOut
  <2>1. call.min = swTab[t].minOut
    BY <1>2 DEF TradeOf
  <2>2. why = "" => ~(quoteRoute(r) < call.min)
    BY <1>00 DEF Revert
  <2>3. ASSUME NEW q \in Nat, NEW m \in Int PROVE ~(q < m) => q >= m
    OBVIOUS
  <2> QED BY <1>2, <1>4, <2>1, <2>2, <2>3, Zenon
<1>9. swTab'[t] = swTab[t] /\ swTab'[t].phase = "sent" /\ swTab'[t].req = r
  BY <1>00, <1>2
<1>10. CASE why # ""
  <2>1. UNCHANGED <<swHeld, swAllowed, swGrant>>
    BY <1>0, <1>00, <1>10 DEF LandSwap
  <2>2. DOMAIN change = {"trx", "usdt"} /\ \A a \in {"trx", "usdt"} : change[a] = 0
    BY <1>1, <2>1 DEF SwapTyped, change
  <2>3. SwapWord(t)'
    BY <1>6, <1>7, <1>9, <1>10, <2>2 DEF SwapWord
  <2> QED BY <1>0, <1>1, <1>6, <2>1, <2>3 DEF SwapTyped
<1>11. CASE why = ""
  <2>1. /\ swHeld' = [swHeld EXCEPT ![r.in] = @ - call.amount, ![swapOut(r.in)] = @ + quoteRoute(r)]
        /\ swGrant' = IF r.in = "trx" \/ r.protocol # "v4" THEN swGrant
                      ELSE [swGrant EXCEPT !.amount = Drawn(@, call.amount)]
    BY <1>0, <1>00, <1>11 DEF LandSwap
  <2>2. call.amount = r.amount
    BY <1>00, <1>2 DEF TradeOf
  <2>3. swapOut(r.in) \in {"trx", "usdt"} /\ swapOut(r.in) # r.in
    BY <1>3 DEF swapOut
  <2>4. /\ swHeld' \in [{"trx", "usdt"} -> Int]
        /\ change[r.in] = -r.amount /\ change[swapOut(r.in)] = quoteRoute(r)
    BY <1>1, <1>3, <1>4, <2>1, <2>2, <2>3 DEF SwapTyped, change
  <2>5. swGrant' \in [amount : Int, expires : Int] /\ swGrant'.expires = swGrant.expires
    <3>1. call.amount \in Int /\ swGrant.amount \in Int
      BY <1>1 DEF SwapCalls, SwapTyped
    <3>2. Drawn(swGrant.amount, call.amount) \in Int
      BY <3>1 DEF Drawn
    <3> QED BY <1>1, <2>1, <3>2 DEF SwapTyped
  <2>6. SwapWord(t)'
    <3>1. change[swapOut(r.in)] >= swTab[t].minOut
      BY <1>8, <1>11, <2>4
    <3> QED BY <1>6, <1>7, <1>9, <1>11, <2>4, <3>1 DEF SwapWord
  <2> QED BY <1>0, <1>6, <2>4, <2>5, <2>6
<1> QED BY <1>10, <1>11

\* A landing: a grant that takes the place of another is good for as long as
\* any trade under way.
LEMMA LandStepInv ==
    ASSUME SwapInv, LandStep
    PROVE  SwapInv'
<1>1. PICK tx \in swFlight :
        /\ swFlight' = swFlight \ {tx}
        /\ CASE tx.call.kind = "approve" -> LandApprove(tx.call)
             [] tx.call.kind = "permit2" -> LandPermit2(tx.call)
             [] tx.call.kind = "swap" -> LandSwap(tx.tab, tx.call)
  BY DEF LandStep
<1>2. UNCHANGED <<swTime, swSkew, swPays, swTab>>
  BY DEF LandStep
<1>3. /\ SwapTyped /\ SwapTxInv(tx) /\ tx \in SwapTxs /\ tx.tab \in SwapTabs /\ tx.call \in SwapCalls
      /\ swTime \in Nat /\ swSkew \in Int /\ tx.expires \in Nat
  BY DEF SwapInv, SwapTyped, SwapTxs
<1>4. /\ swGrant' \in [amount : Int, expires : Int] /\ swHeld' \in [{"trx", "usdt"} -> Int]
      /\ DOMAIN swLanded' = SwapTabs
      /\ \A t \in SwapTabs : SwapWord(t)'
      /\ swGrant'.expires = swGrant.expires \/ swGrant'.expires >= swTime + swSkew + SwapDeadline
  <2>0. \A t \in SwapTabs : swLanded'[t] = swLanded[t] => SwapWord(t)'
    BY <1>2 DEF SwapInv, SwapWord
  <2>1. CASE tx.call.kind = "approve"
    <3>1. UNCHANGED <<swGrant, swHeld, swLanded>>
      BY <1>1, <2>1 DEF LandApprove
    <3> QED BY <1>3, <2>0, <3>1 DEF SwapTyped
  <2>2. CASE tx.call.kind = "permit2"
    <3>1. /\ swGrant' = [amount |-> tx.call.amount, expires |-> tx.call.until]
          /\ UNCHANGED <<swHeld, swLanded>>
      BY <1>1, <2>2 DEF LandPermit2
    <3>2. tx.call.amount \in Int /\ tx.call.until \in Int
      BY <1>3 DEF SwapCalls
    <3>3. tx.call.until >= swTime + swSkew + SwapDeadline
      BY <1>3, <2>2, <3>2, SwapAssumption, GrantAssumption DEF SwapTxInv
    <3> QED BY <1>3, <2>0, <3>1, <3>2, <3>3 DEF SwapTyped
  <2>3. CASE tx.call.kind = "swap"
    <3>1. LandSwap(tx.tab, tx.call)
      BY <1>1, <2>3
    <3> QED BY <1>2, <2>0, <2>3, <3>1, LandSwapEffect
  <2> QED BY <1>3, <2>1, <2>2, <2>3 DEF SwapCalls
<1>5. SwapTyped'
  BY <1>1, <1>2, <1>3, <1>4 DEF SwapTyped
<1>6. ASSUME NEW t \in SwapTabs, NEW call \in SwapCalls, TradeOf(t, call) PROVE TradeOf(t, call)'
  <2>1. call.until \in Int /\ swGrant'.expires \in Int
    BY <1>4 DEF SwapCalls
  <2> QED BY <1>2, <1>3, <1>4, <1>6, <2>1, SwapAssumption DEF TradeOf
<1>7. ASSUME NEW t \in SwapTabs PROVE SwapPlanInv(t)'
  <2>1. SwapPlanInv(t)
    BY DEF SwapInv
  <2>2. swTab[t].phase = "planned" => swTab[t].plan.call \in SwapCalls
    BY <2>1 DEF SwapPlanInv, SwapPlans
  <2>3. swTab[t].phase = "planned" /\ swTab[t].plan.call.kind = "swap" =>
           \A call \in SwapCalls : call = swTab[t].plan.call => TradeOf(t, call)'
    BY <1>6, <2>1, <2>2 DEF SwapPlanInv
  <2> QED BY <1>2, <2>1, <2>2, <2>3 DEF SwapPlanInv, TradeOf
<1>8. ASSUME NEW other \in swFlight' PROVE SwapTxInv(other)'
  <2>1. other \in swFlight /\ SwapTxInv(other) /\ other.tab \in SwapTabs /\ other.call \in SwapCalls
    BY <1>1 DEF SwapInv, SwapTyped, SwapTxs
  <2>2. other.call.kind = "swap" => TradeOf(other.tab, other.call)'
    BY <1>6, <2>1 DEF SwapTxInv
  <2> QED BY <1>2, <2>1, <2>2 DEF SwapTxInv
<1> QED BY <1>4, <1>5, <1>7, <1>8 DEF SwapInv

\* Time passes; what has run out leaves.
LEMMA SwapTickInv ==
    ASSUME SwapInv, SwapTick
    PROVE  SwapInv'
<1>1. /\ swTime' = swTime + 1 /\ swTime \in Nat /\ swSkew \in Int /\ SwapTyped
      /\ swFlight' = {tx \in swFlight : tx.expires > swTime}
      /\ UNCHANGED <<swSkew, swPays, swAllowed, swGrant, swHeld, swTab, swLanded>>
  BY DEF SwapTick, SwapInv, SwapTyped
<1>2. SwapTyped'
  BY <1>1 DEF SwapTyped
<1>3. ASSUME NEW t \in SwapTabs, NEW call \in SwapCalls, TradeOf(t, call) PROVE TradeOf(t, call)'
  <2>1. call.until \in Int
    BY DEF SwapCalls
  <2> QED BY <1>1, <1>3, <2>1, SwapAssumption DEF TradeOf
<1>4. ASSUME NEW t \in SwapTabs PROVE SwapPlanInv(t)' /\ SwapWord(t)'
  <2>1. SwapPlanInv(t) /\ SwapWord(t)
    BY DEF SwapInv
  <2>2. swTab[t].phase = "planned" => swTab[t].plan.call \in SwapCalls /\ swTab[t].plan.at \in Nat
    BY <2>1 DEF SwapPlanInv, SwapPlans
  <2>3. swTab[t].phase = "planned" /\ swTab[t].plan.call.kind = "swap" =>
           \A call \in SwapCalls : call = swTab[t].plan.call => TradeOf(t, call)'
    BY <1>3, <2>1, <2>2 DEF SwapPlanInv
  <2>4. SwapPlanInv(t)'
    BY <1>1, <2>1, <2>2, <2>3 DEF SwapPlanInv, TradeOf
  <2>5. SwapWord(t)'
    BY <1>1, <2>1 DEF SwapWord
  <2> QED BY <2>4, <2>5
<1>5. ASSUME NEW tx \in swFlight' PROVE SwapTxInv(tx)'
  <2>1. /\ tx \in swFlight /\ SwapTxInv(tx) /\ tx.tab \in SwapTabs /\ tx.call \in SwapCalls
        /\ tx.expires \in Nat /\ tx.expires > swTime
    BY <1>1 DEF SwapInv, SwapTyped, SwapTxs
  <2>2. tx.call.kind = "swap" => TradeOf(tx.tab, tx.call)'
    BY <1>3, <2>1 DEF SwapTxInv
  <2> QED BY <1>1, <2>1, <2>2 DEF SwapTxInv
<1> QED BY <1>2, <1>4, <1>5 DEF SwapInv

\* Prices that move disturb none of this, nor do steps of other adapters.
LEMMA SwapRestInv ==
    ASSUME SwapInv, PoolMoves \/ UNCHANGED swVars
    PROVE  SwapInv'
<1>1. UNCHANGED <<swTime, swSkew, swGrant, swHeld, swTab, swFlight, swLanded>>
  BY DEF PoolMoves, swVars, swChain
<1>2. swPays' \in [Protocols -> Nat]
  BY SwapAssumption DEF PoolMoves, swVars, swChain, SwapInv, SwapTyped
<1> QED BY <1>1, <1>2 DEF SwapInv, SwapTyped, SwapPlanInv, SwapWord, SwapTxInv, TradeOf

\* All steps.
LEMMA SwapNextInv == SwapInv /\ (SwapNext \/ UNCHANGED swVars) => SwapInv'
<1> SUFFICES ASSUME SwapInv, SwapNext \/ UNCHANGED swVars PROVE SwapInv'
  OBVIOUS
<1>1. ASSUME NEW t \in SwapTabs,
             \/ \E r \in SwapRequests, tolerance \in Tolerances : QuoteSwap(t, r, tolerance)
             \/ PlanStep(t) \/ SignStep(t)
      PROVE  SwapInv'
  BY <1>1, QuoteSwapInv, PlanStepInv, SignStepInv
<1> QED BY <1>1, LandStepInv, SwapTickInv, SwapRestInv DEF SwapNext

\* A SunSwap trade sells exactly the amount entered for at least the minimum
\* the user saw, or changes nothing, and is never lost to a Permit2 grant that
\* ran out (SwapWithSigner, swapCalls).
THEOREM TradeKeepsItsWord == AdaptersSpec => []SwapKeepsItsWord
<1>1. AdaptersInit => SwapInv
  BY SwapInitInv DEF AdaptersInit
<1>2. SwapInv /\ [AdaptersNext]_adapterVars => SwapInv'
  <2>1. [AdaptersNext]_adapterVars => SwapNext \/ UNCHANGED swVars
    BY DEF AdaptersNext, EvmStep, SolanaStep, TronStep, SunSwapStep, adapterVars
  <2> QED BY <2>1, SwapNextInv
<1>3. SwapInv => SwapKeepsItsWord
  BY DEF SwapInv, SwapWord, SwapKeepsItsWord
<1> QED BY <1>1, <1>2, <1>3, PTL DEF AdaptersSpec

-----------------------------------------------------------------------------
(* EVM.                                                                    *)

EvmAssets == {"native", "token", "wrapped"}
EvmModels == {"eip1559", "legacy"}
EvmRequests ==
    [asset : {"native"}, action : {"none", "wrap"}, amount : Nat]
      \cup [asset : {"token"}, action : {"none"}, amount : Nat]
      \cup [asset : {"wrapped"}, action : {"none", "unwrap"}, amount : Nat]
EvmCalls ==
    [to : {"recipient", "token", "wrapped"}, value : Nat, method : {"none", "deposit", "withdraw", "transfer"}, units : Nat]
Estimates == [amount : Nat, model : EvmModels, gas : Nat, cap : Nat, tip : Nat, fee : Nat]
Maxima == [action : {"none", "wrap"}, balance : Nat, candidate : Nat, reserved : Nat, round : Nat]
EvmTxs == [tab : EvmTabs, nonce : Nat, call : EvmCalls, model : EvmModels, gas : Nat, cap : Nat, tip : Nat]
EvmTabStates ==
    [phase : {"idle", "rounds", "shown", "locked", "signed", "done"}, req : EvmRequests \cup {None},
     max : Maxima \cup {None}, est : Estimates \cup {None}, tx : EvmTxs \cup {None},
     status : {None, "refused", "pending", "failed", "unknown"}]

EvmTyped ==
    /\ evmMarket \in Markets /\ evmGas \in Nat /\ evmHeld \in [EvmAssets -> Int] /\ evmNonce \in Nat
    /\ evmTab \in [EvmTabs -> EvmTabStates] /\ evmPool \subseteq EvmTxs /\ evmLate \subseteq EvmTxs
    /\ DOMAIN evmLanded = EvmTabs

\* A tab that was shown an estimate knows the most it may cost; a maximum has
\* room for it.
EstimateInv(t) ==
    LET tab == evmTab[t] IN
    /\ tab.phase = "idle" => tab.max = None
    /\ tab.phase = "rounds" => tab.max \in Maxima
    /\ tab.phase \in {"shown", "locked", "signed", "done"} =>
         tab.req \in EvmRequests /\ tab.est \in Estimates /\ tab.est.gas * tab.est.cap <= tab.est.fee
    /\ tab.phase = "shown" /\ tab.max # None => tab.est.amount + tab.est.gas * tab.est.cap <= tab.max.balance

\* The lock is held from the nonce to the answer; what is signed is what was
\* shown.
SignedInv(t) ==
    LET tab == evmTab[t] IN
    /\ tab.phase # "done" => tab.status = None
    /\ tab.phase \in {"locked", "signed"} => evmLock = t
    /\ tab.phase \in {"signed", "done"} /\ tab.status # "refused" =>
         /\ tab.tx \in EvmTxs /\ tab.tx.tab = t /\ tab.tx.call = transferCall(tab.req)
         /\ tab.tx.gas = tab.est.gas /\ tab.tx.cap = tab.est.cap

\* A nonce that no later transaction will be given.
Taken(n) == n < evmNonce \/ \E tx \in evmPool : tx.nonce = n

\* The nonce of a transfer the node took is taken, and is not the one of a
\* transfer about to be broadcast.
NonceInv(t) ==
    evmTab[t].status = "pending" =>
      /\ Taken(evmTab[t].tx.nonce)
      /\ \A s \in EvmTabs : evmTab[s].phase = "signed" => evmTab[s].tx.nonce # evmTab[t].tx.nonce

\* What the node holds or will get was sent by a tab that is done.
Known(tx) ==
    /\ tx.tab \in EvmTabs /\ evmTab[tx.tab].phase = "done" /\ evmTab[tx.tab].status # "refused"
    /\ evmTab[tx.tab].tx = tx

\* What a transfer moves of an asset.
Asked(r, a) ==
    LET gains == CASE r.action = "wrap" -> "wrapped" [] r.action = "unwrap" -> "native" [] OTHER -> None IN
    (IF a = gains THEN r.amount ELSE 0) - (IF a = r.asset THEN r.amount ELSE 0)

CostInv(t) ==
    evmLanded[t] # None =>
      LET l == evmLanded[t]
          r == evmTab[t].req
      IN  /\ evmTab[t].phase = "done"
          /\ l.charged <= evmTab[t].est.fee
          /\ \A a \in DOMAIN l.change :
               l.change[a] = (IF l.ok THEN Asked(r, a) ELSE 0) - (IF a = "native" THEN l.charged ELSE 0)

EvmInv ==
    /\ EvmTyped
    /\ \A t \in EvmTabs : EstimateInv(t) /\ SignedInv(t) /\ NonceInv(t) /\ CostInv(t)
    /\ \A tx \in evmPool \cup evmLate : Known(tx)
    /\ SendsCoexist

\* The first states.
LEMMA EvmInitInv == EvmInit => EvmInv
<1> SUFFICES ASSUME EvmInit PROVE EvmInv
  OBVIOUS
<1>1. NoTab \in EvmTabStates /\ NoTab.phase = "idle" /\ NoTab.max = None /\ NoTab.status = None
  BY DEF NoTab, EvmTabStates
<1>2. evmTab \in [EvmTabs -> EvmTabStates] /\ \A t \in EvmTabs : evmTab[t] = NoTab
  BY <1>1 DEF EvmInit
<1>3. EvmTyped
  BY <1>2, EvmAssumption DEF EvmInit, EvmTyped, EvmAssets
<1>4. ASSUME NEW t \in EvmTabs PROVE EstimateInv(t) /\ SignedInv(t) /\ NonceInv(t) /\ CostInv(t)
  <2>1. evmTab[t].phase = "idle" /\ evmTab[t].max = None /\ evmTab[t].status = None /\ evmLanded[t] = None
    BY <1>1, <1>2 DEF EvmInit
  <2> QED BY <2>1, EvmAssumption DEF EstimateInv, SignedInv, NonceInv, CostInv
<1>5. SendsCoexist
  BY <1>1, <1>2, EvmAssumption DEF SendsCoexist
<1> QED BY <1>3, <1>4, <1>5 DEF EvmInit, EvmInv

\* A nonempty set of naturals has a least element, which Min finds.  (The
\* initial segments below its elements are finite sets, and those are
\* well-founded by strict inclusion.)
LEMMA MinIsLeast ==
    ASSUME NEW S \in SUBSET Nat, S # {}
    PROVE  Min(S) \in S /\ \A y \in S : Min(S) <= y
<1> DEFINE Initials == {0..x : x \in S}
<1>1. Initials \subseteq FiniteSubsetsOf(Nat) /\ Initials # {}
  <2>1. \A x \in Nat : 0..x \in SUBSET Nat /\ IsFiniteSet(0..x)
    BY FS_Interval
  <2> QED BY <2>1 DEF FiniteSubsetsOf
<1>2. PICK t \in Initials : \A u \in Initials : <<u, t>> \notin StrictSubsetOrdering(Nat)
  BY <1>1, FS_StrictSubsetOrderingWellFounded, WFMin
<1>3. PICK x \in S : t = 0..x
  OBVIOUS
<1>4. ASSUME NEW y \in S, y < x PROVE FALSE
  <2>1. 0..y \subseteq 0..x /\ 0..y # 0..x
    <3>1. x \in 0..x /\ x \notin 0..y
      BY <1>4
    <3> QED BY <1>4, <3>1
  <2>2. 0..y \in SUBSET Nat /\ 0..x \in SUBSET Nat
    OBVIOUS
  <2>3. <<0..y, 0..x>> \in StrictSubsetOrdering(Nat)
    BY <2>1, <2>2 DEF StrictSubsetOrdering
  <2> QED BY <1>2, <1>3, <2>3
<1>5. \A y \in S : x <= y
  BY <1>4
<1> QED BY <1>5 DEF Min

\* The smaller of two numbers.
LEMMA MinOfTwo ==
    ASSUME NEW x \in Nat, NEW y \in Nat
    PROVE  Min({x, y}) \in Nat /\ Min({x, y}) <= x /\ Min({x, y}) <= y
<1>1. \E m \in {x, y} : \A n \in {x, y} : m <= n
  <2>1. CASE x <= y
    BY <2>1
  <2>2. CASE y <= x
    BY <2>2
  <2> QED BY <2>1, <2>2
<1> QED BY <1>1 DEF Min

\* Products of naturals grow with their factors.
LEMMA Products ==
    ASSUME NEW a \in Nat, NEW b \in Nat, NEW c \in Nat, NEW d \in Nat, a <= c, b <= d
    PROVE  a * b \in Nat /\ a * b <= c * d
<1>1. a * b \in Nat /\ c * b \in Nat /\ c * d \in Nat
  OBVIOUS
<1>2. a * b <= c * b
  OBVIOUS
<1>3. c * b <= c * d
  OBVIOUS
<1> QED BY <1>1, <1>2, <1>3

\* Calls, and what they do to the holdings.
LEMMA CallTypes ==
    ASSUME NEW r \in EvmRequests
    PROVE  transferCall(r) \in EvmCalls
BY DEF EvmRequests, EvmCalls, transferCall

\* A call changes each holding by what the transfer moves of it.
LEMMA AfterEffect ==
    ASSUME NEW held \in [EvmAssets -> Int], NEW r \in EvmRequests
    PROVE  /\ After(held, transferCall(r)) \in [EvmAssets -> Int]
           /\ \A a \in EvmAssets : After(held, transferCall(r))[a] = held[a] + Asked(r, a)
<1>0. r.amount \in Nat /\ None \notin EvmAssets
  BY EvmAssumption DEF EvmRequests, EvmAssets
<1>00. (r.action = "wrap" => r.asset = "native") /\ (r.action = "unwrap" => r.asset = "wrapped")
  BY DEF EvmRequests
<1> DEFINE after == After(held, transferCall(r))
<1>1. CASE r.action = "wrap"
  <2>1. transferCall(r) = [to |-> "wrapped", value |-> r.amount, method |-> "deposit", units |-> 0] /\ r.asset = "native"
    BY <1>00, <1>1 DEF transferCall
  <2>0. PICK paid : paid = [held EXCEPT !.native = @ - r.amount]
    OBVIOUS
  <2>2. after = [paid EXCEPT !.wrapped = @ + r.amount]
    BY <2>0, <2>1 DEF After
  <2>4. paid \in [EvmAssets -> Int] /\ paid["native"] = held["native"] - r.amount
        /\ paid["wrapped"] = held["wrapped"] /\ paid["token"] = held["token"]
    BY <1>0, <2>0 DEF EvmAssets
  <2>5. after \in [EvmAssets -> Int] /\ after["wrapped"] = paid["wrapped"] + r.amount
        /\ after["native"] = paid["native"] /\ after["token"] = paid["token"]
    <3> HIDE DEF after
    <3> QED BY <1>0, <2>2, <2>4 DEF EvmAssets
  <2>3. \A a \in EvmAssets : Asked(r, a) = (IF a = "wrapped" THEN r.amount ELSE 0) - (IF a = "native" THEN r.amount ELSE 0)
    BY <1>1, <2>1 DEF Asked
  <2> HIDE DEF after
  <2>6. \A a \in EvmAssets : after[a] = held[a] + Asked(r, a)
    BY <1>0, <2>3, <2>4, <2>5 DEF EvmAssets
  <2> QED BY <2>5, <2>6 DEF after
<1>2. CASE r.action = "unwrap"
  <2>1. transferCall(r) = [to |-> "wrapped", value |-> 0, method |-> "withdraw", units |-> r.amount] /\ r.asset = "wrapped"
    BY <1>00, <1>2 DEF transferCall
  <2>0. PICK paid : paid = [held EXCEPT !.native = @ - 0]
    OBVIOUS
  <2>2. after = [paid EXCEPT !.wrapped = @ - r.amount, !.native = @ + r.amount]
    BY <2>0, <2>1 DEF After
  <2>4. paid \in [EvmAssets -> Int] /\ paid["native"] = held["native"]
        /\ paid["wrapped"] = held["wrapped"] /\ paid["token"] = held["token"]
    BY <2>0 DEF EvmAssets
  <2>5. after \in [EvmAssets -> Int] /\ after["wrapped"] = paid["wrapped"] - r.amount
        /\ after["native"] = paid["native"] + r.amount /\ after["token"] = paid["token"]
    <3> HIDE DEF after
    <3>1. PICK less : less = [paid EXCEPT !.wrapped = @ - r.amount]
      OBVIOUS
    <3>2. less \in [EvmAssets -> Int] /\ less["wrapped"] = paid["wrapped"] - r.amount
          /\ less["native"] = paid["native"] /\ less["token"] = paid["token"]
      BY <1>0, <2>4, <3>1 DEF EvmAssets
    <3>3. after = [less EXCEPT !.native = @ + r.amount]
      BY <2>2, <2>4, <3>1 DEF EvmAssets
    <3> QED BY <1>0, <3>2, <3>3 DEF EvmAssets
  <2>3. \A a \in EvmAssets : Asked(r, a) = (IF a = "native" THEN r.amount ELSE 0) - (IF a = "wrapped" THEN r.amount ELSE 0)
    BY <1>2, <2>1 DEF Asked
  <2> HIDE DEF after
  <2>6. \A a \in EvmAssets : after[a] = held[a] + Asked(r, a)
    BY <1>0, <2>3, <2>4, <2>5 DEF EvmAssets
  <2> QED BY <2>5, <2>6 DEF after
<1>3. CASE r.action = "none" /\ r.asset = "native"
  <2>1. transferCall(r) = [to |-> "recipient", value |-> r.amount, method |-> "none", units |-> 0]
    BY <1>3 DEF transferCall
  <2>2. after = [held EXCEPT !.native = @ - r.amount]
    BY <2>1 DEF After
  <2>3. \A a \in EvmAssets : Asked(r, a) = 0 - (IF a = "native" THEN r.amount ELSE 0)
    BY <1>0, <1>3 DEF Asked
  <2> QED BY <1>0, <2>2, <2>3 DEF EvmAssets
<1>4. CASE r.action = "none" /\ r.asset \in {"token", "wrapped"}
  <2>1. transferCall(r) = [to |-> r.asset, value |-> 0, method |-> "transfer", units |-> r.amount]
    BY <1>4 DEF transferCall
  <2>2. after = [[held EXCEPT !.native = @ - 0] EXCEPT ![r.asset] = @ - r.amount]
    BY <2>1 DEF After
  <2>3. \A a \in EvmAssets : Asked(r, a) = 0 - (IF a = r.asset THEN r.amount ELSE 0)
    BY <1>0, <1>4 DEF Asked
  <2> QED BY <1>0, <1>4, <2>2, <2>3 DEF EvmAssets
<1> QED BY <1>1, <1>2, <1>3, <1>4 DEF EvmRequests

\* A step of one tab before it signs.
LEMMA EvmTabStep ==
    ASSUME EvmInv, NEW t \in EvmTabs, NEW new \in EvmTabStates,
           evmTab' = [evmTab EXCEPT ![t] = new], UNCHANGED <<evmMarket, evmGas, evmChain>>,
           evmTab[t].phase \in {"idle", "rounds", "shown"}, new.phase \in {"idle", "rounds", "shown", "locked"},
           new.status = None, EstimateInv(t)',
           \/ evmLock' = evmLock /\ new.phase # "locked"
           \/ evmLock = None /\ evmLock' = t
    PROVE  EvmInv'
<1>1. /\ evmTab'[t] = new /\ \A u \in EvmTabs : u # t => evmTab'[u] = evmTab[u]
      /\ evmTab' \in [EvmTabs -> EvmTabStates]
  BY DEF EvmInv, EvmTyped
<1>2. EvmTyped'
  BY <1>1 DEF EvmInv, EvmTyped, evmChain
<1>3. ASSUME NEW u \in EvmTabs PROVE (EstimateInv(u) /\ SignedInv(u) /\ NonceInv(u) /\ CostInv(u))'
  <2>0. EstimateInv(u) /\ SignedInv(u) /\ NonceInv(u) /\ CostInv(u)
    BY DEF EvmInv
  <2>1. CASE u = t
    <3>1. SignedInv(t)'
      BY <1>1 DEF SignedInv
    <3>2. NonceInv(t)'
      BY <1>1, EvmAssumption DEF NonceInv
    <3>3. CostInv(t)'
      BY <2>0, <2>1 DEF CostInv, evmChain
    <3> QED BY <2>1, <3>1, <3>2, <3>3
  <2>2. CASE u # t
    <3>1. evmTab'[u] = evmTab[u]
      BY <1>1, <2>2
    <3>2. SignedInv(u)'
      BY <2>0, <3>1, EvmAssumption DEF SignedInv
    <3>3. NonceInv(u)'
      <4>1. \A s \in EvmTabs : evmTab'[s].phase = "signed" => evmTab[s].phase = "signed" /\ evmTab'[s].tx = evmTab[s].tx
        BY <1>1
      <4> QED BY <2>0, <3>1, <4>1 DEF NonceInv, Taken, evmChain
    <3>4. EstimateInv(u)' /\ CostInv(u)'
      BY <2>0, <3>1 DEF EstimateInv, CostInv, evmChain
    <3> QED BY <3>2, <3>3, <3>4
  <2> QED BY <2>1, <2>2
<1>4. ASSUME NEW tx \in (evmPool \cup evmLate)' PROVE Known(tx)'
  <2>1. Known(tx) /\ tx.tab # t
    BY DEF EvmInv, Known, evmChain
  <2> QED BY <1>1, <2>1 DEF Known
<1>5. SendsCoexist'
  <2>1. \A u \in EvmTabs : evmTab'[u].status = "pending" => evmTab'[u] = evmTab[u]
    BY <1>1, EvmAssumption
  <2> QED BY <2>1 DEF EvmInv, SendsCoexist
<1> QED BY <1>2, <1>3, <1>4, <1>5 DEF EvmInv

\* Fees a node suggests.
LEMMA FeeTypes ==
    ASSUME EvmTyped
    PROVE  suggestFees \in [model : EvmModels, tip : Nat, cap : Nat]
<1>1. evmMarket.model \in EvmModels /\ evmMarket.base \in Nat /\ evmMarket.tip \in Nat
  BY EvmAssumption DEF EvmTyped, EvmModels
<1> QED BY <1>1 DEF suggestFees

\* An estimate of a request, and the most it may cost.
LEMMA EstimateTypes ==
    ASSUME EvmTyped, NEW r, r.amount \in Nat
    PROVE  /\ Estimate(r, suggestFees) \in Estimates
           /\ Estimate(r, suggestFees).fee = Estimate(r, suggestFees).gas * Estimate(r, suggestFees).cap
           /\ Estimate(r, suggestFees).amount = r.amount
<1>1. PICK fees \in [model : EvmModels, tip : Nat, cap : Nat] : fees = suggestFees
  BY FeeTypes
<1>2. evmGas \in Nat /\ evmGas * fees.cap \in Nat
  BY DEF EvmTyped
<1>3. Estimate(r, fees) \in Estimates /\ Estimate(r, fees).fee = Estimate(r, fees).gas * Estimate(r, fees).cap
      /\ Estimate(r, fees).amount = r.amount
  BY <1>2 DEF Estimate, Estimates
<1> QED BY <1>1, <1>3

\* An estimate is shown.
LEMMA ShownInv ==
    ASSUME EvmInv, NEW t \in EvmTabs, NEW r \in EvmRequests, evmTab[t].phase = "idle", Shown(t, r)
    PROVE  EvmInv'
<1>0. PICK est : est = Estimate(r, suggestFees)
  OBVIOUS
<1>1. est \in Estimates /\ est.gas * est.cap <= est.fee
  <2>1. r.amount \in Nat
    BY DEF EvmRequests
  <2>2. est \in Estimates /\ est.fee = est.gas * est.cap
    BY <1>0, <2>1, EstimateTypes DEF EvmInv
  <2> QED BY <2>2 DEF Estimates
<1>2. evmTab[t] \in EvmTabStates /\ evmTab[t].max = None /\ evmTab[t].status = None
  BY DEF EvmInv, EvmTyped, EstimateInv, SignedInv
<1>3. PICK new : new = [evmTab[t] EXCEPT !.phase = "shown", !.req = r, !.est = est]
  OBVIOUS
<1>4. /\ new \in EvmTabStates /\ new.phase = "shown" /\ new.req = r /\ new.est = est
      /\ new.max = None /\ new.status = None
  BY <1>1, <1>2, <1>3 DEF EvmTabStates
<1>5. evmTab' = [evmTab EXCEPT ![t] = new]
  BY <1>0, <1>3 DEF Shown
<1>6. evmTab'[t] = new
  BY <1>5 DEF EvmInv, EvmTyped
<1>7. EstimateInv(t)'
  BY <1>1, <1>4, <1>6 DEF EstimateInv
<1> QED BY <1>4, <1>5, <1>7, EvmTabStep DEF Shown

\* The estimates the handlers ask for.
LEMMA EstimatesInv ==
    ASSUME EvmInv, NEW t \in EvmTabs,
           \/ \E r \in Transfers : EstimateTransfer(t, r)
           \/ \E asset \in {"token", "wrapped"} : EstimateFunding(t, asset)
           \/ EstimateMaxToken(t)
    PROVE  EvmInv'
<1>0. \A asset \in EvmAssets : evmHeld[asset] \in Int
  BY DEF EvmInv, EvmTyped
<1>1. ASSUME NEW r \in Transfers, EstimateTransfer(t, r) PROVE EvmInv'
  <2>1. r \in EvmRequests
    BY EvmAssumption DEF Transfers, EvmRequests
  <2> QED BY <1>1, <2>1, ShownInv DEF EstimateTransfer
<1>2. ASSUME NEW asset \in {"token", "wrapped"}, EstimateFunding(t, asset) PROVE EvmInv'
  <2>1. PICK amount \in Amounts \cup {evmHeld[asset]} :
          amount > 0 /\ Shown(t, [asset |-> asset, action |-> "none", amount |-> amount])
    BY <1>2 DEF EstimateFunding
  <2>2. amount \in Nat
    BY <1>0, <2>1, EvmAssumption DEF EvmAssets
  <2>3. [asset |-> asset, action |-> "none", amount |-> amount] \in EvmRequests
    BY <2>2 DEF EvmRequests
  <2> QED BY <1>2, <2>1, <2>3, ShownInv DEF EstimateFunding
<1>3. ASSUME EstimateMaxToken(t) PROVE EvmInv'
  <2>1. evmHeld.wrapped \in Nat
    BY <1>0, <1>3 DEF EstimateMaxToken, EvmAssets
  <2>2. [asset |-> "wrapped", action |-> "unwrap", amount |-> evmHeld.wrapped] \in EvmRequests
    BY <2>1 DEF EvmRequests
  <2> QED BY <1>3, <2>2, ShownInv DEF EstimateMaxToken
<1> QED BY <1>1, <1>2, <1>3

\* The search for a maximum begins,
LEMMA EstimateMaxInv ==
    ASSUME EvmInv, NEW t \in EvmTabs, NEW action \in {"none", "wrap"}, EstimateMaxTransfer(t, action)
    PROVE  EvmInv'
<1>0. PICK max : max = [action |-> action, balance |-> evmHeld.native, candidate |-> 1, reserved |-> 0, round |-> 1]
  OBVIOUS
<1>1. max \in Maxima
  BY <1>0 DEF Maxima, EstimateMaxTransfer, EvmInv, EvmTyped, EvmAssets
<1>2. evmTab[t] \in EvmTabStates /\ evmTab[t].phase = "idle" /\ evmTab[t].status = None
  BY DEF EvmInv, EvmTyped, SignedInv, EstimateMaxTransfer
<1>3. PICK new : new = [evmTab[t] EXCEPT !.phase = "rounds", !.max = max]
  OBVIOUS
<1>4. new \in EvmTabStates /\ new.phase = "rounds" /\ new.max = max /\ new.status = None
  BY <1>1, <1>2, <1>3 DEF EvmTabStates
<1>5. evmTab' = [evmTab EXCEPT ![t] = new]
  BY <1>0, <1>2, <1>3 DEF EstimateMaxTransfer, EvmInv, EvmTyped, EvmTabStates
<1>6. evmTab'[t] = new
  BY <1>5 DEF EvmInv, EvmTyped
<1>7. EstimateInv(t)'
  BY <1>1, <1>4, <1>6 DEF EstimateInv
<1> QED BY <1>2, <1>4, <1>5, <1>7, EvmTabStep DEF EstimateMaxTransfer

\* and goes on until an amount repeats: the fee of its last round is among
\* those reserved.
LEMMA MaxRoundInv ==
    ASSUME EvmInv, NEW t \in EvmTabs, MaxRound(t)
    PROVE  EvmInv'
<1>1. /\ evmTab[t] \in EvmTabStates /\ evmTab[t].phase = "rounds" /\ evmTab[t].status = None
      /\ evmTab[t].max \in Maxima /\ EvmTyped
  BY DEF EvmInv, EvmTyped, SignedInv, EstimateInv, MaxRound
<1>2. PICK max \in Maxima : max = evmTab[t].max
  BY <1>1
<1>3. PICK r : r = [asset |-> "native", action |-> max.action, amount |-> max.candidate]
  OBVIOUS
<1>4. r \in EvmRequests /\ r.amount = max.candidate /\ r.amount \in Nat
  BY <1>3 DEF EvmRequests, Maxima
<1>5. PICK est \in Estimates : est = Estimate(r, suggestFees) /\ est.fee = est.gas * est.cap /\ est.amount = r.amount
  BY <1>1, <1>4, EstimateTypes
<1>6. PICK reserved : reserved = Reserve(max.reserved, est.fee)
  OBVIOUS
<1>7. reserved \in Nat /\ reserved >= est.fee /\ max.balance \in Nat /\ max.candidate \in Nat /\ max.round \in Nat
  BY <1>6 DEF Reserve, Maxima, Estimates
<1> DEFINE shown == [evmTab[t] EXCEPT !.phase = "shown", !.req = r, !.est = [est EXCEPT !.fee = reserved]]
           again == [evmTab[t] EXCEPT !.max = [max EXCEPT !.candidate = max.balance - reserved,
                                                          !.reserved = reserved, !.round = max.round + 1]]
<1>8. PICK new :
        /\ evmTab' = [evmTab EXCEPT ![t] = new]
        /\ \/ new = NoTab
           \/ max.balance - reserved = max.candidate /\ new = shown
           \/ ~(reserved >= max.balance) /\ new = again
  <2> HIDE DEF shown, again
  <2> DEFINE next == IF ~sane(suggestFees) \/ reserved >= max.balance \/ ~Runs(evmHeld, transferCall(r)) THEN NoTab
                     ELSE IF max.balance - reserved = max.candidate THEN shown
                     ELSE IF max.round = MaxRounds THEN NoTab ELSE again
  <2>1. evmTab' = [evmTab EXCEPT ![t] = next]
    BY <1>2, <1>3, <1>5, <1>6 DEF MaxRound, shown, again
  <2>2. \/ next = NoTab
        \/ max.balance - reserved = max.candidate /\ next = shown
        \/ ~(reserved >= max.balance) /\ next = again
    OBVIOUS
  <2> HIDE DEF next
  <2> QED BY <2>1, <2>2
<1>9. evmTab'[t] = new
  BY <1>1, <1>8 DEF EvmTyped
<1>10. new \in EvmTabStates /\ new.phase \in {"idle", "rounds", "shown"} /\ new.status = None /\ EstimateInv(t)'
  <2>1. CASE new = NoTab
    <3>1. new \in EvmTabStates /\ new.phase = "idle" /\ new.max = None /\ new.status = None
      BY <2>1 DEF NoTab, EvmTabStates
    <3> QED BY <1>9, <3>1 DEF EstimateInv
  <2>2. CASE max.balance - reserved = max.candidate /\ new = shown
    <3>1. PICK e : e = [est EXCEPT !.fee = reserved]
      OBVIOUS
    <3>2. e \in Estimates /\ e.gas = est.gas /\ e.cap = est.cap /\ e.fee = reserved /\ e.amount = max.candidate
      BY <1>4, <1>5, <1>7, <3>1 DEF Estimates
    <3>3. /\ new \in EvmTabStates /\ new.phase = "shown" /\ new.status = None /\ new.req = r
          /\ new.est = e /\ new.max = max
      BY <1>1, <1>2, <1>4, <2>2, <3>1, <3>2 DEF EvmTabStates
    <3>4. e.gas * e.cap = est.fee /\ est.fee \in Nat
      BY <1>5, <3>2 DEF Estimates
    <3>5. e.gas * e.cap <= e.fee /\ e.amount + e.gas * e.cap <= max.balance
      BY <1>7, <2>2, <3>2, <3>4
    <3> QED BY <1>4, <1>9, <3>2, <3>3, <3>5 DEF EstimateInv
  <2>3. CASE ~(reserved >= max.balance) /\ new = again
    <3>1. PICK m : m = [max EXCEPT !.candidate = max.balance - reserved, !.reserved = reserved, !.round = max.round + 1]
      OBVIOUS
    <3>2. m \in Maxima
      <4>1. max.balance - reserved \in Nat /\ max.round + 1 \in Nat
        BY <1>7, <2>3
      <4> QED BY <1>7, <3>1, <4>1 DEF Maxima
    <3>3. new \in EvmTabStates /\ new.phase = "rounds" /\ new.status = None /\ new.max = m
      BY <1>1, <2>3, <3>1, <3>2 DEF EvmTabStates
    <3> QED BY <1>9, <3>2, <3>3 DEF EstimateInv
  <2> QED BY <1>8, <2>1, <2>2, <2>3
<1> HIDE DEF shown, again
<1> QED BY <1>1, <1>8, <1>10, EvmTabStep DEF MaxRound

\* One tab at a time takes the address's lock.
LEMMA LockNonceInv ==
    ASSUME EvmInv, NEW t \in EvmTabs, LockNonce(t)
    PROVE  EvmInv'
<1>1. /\ evmTab[t] \in EvmTabStates /\ evmTab[t].phase = "shown" /\ evmTab[t].status = None
      /\ EstimateInv(t) /\ evmLock = None
  BY DEF EvmInv, EvmTyped, SignedInv, LockNonce, LockIsFree
<1>2. PICK new : new = [evmTab[t] EXCEPT !.phase = "locked"]
  OBVIOUS
<1>3. /\ new \in EvmTabStates /\ new.phase = "locked" /\ new.status = None
      /\ new.req = evmTab[t].req /\ new.est = evmTab[t].est
  BY <1>1, <1>2 DEF EvmTabStates
<1>4. evmTab' = [evmTab EXCEPT ![t] = new] /\ evmLock' = t
  BY <1>2 DEF LockNonce
<1>5. evmTab'[t] = new
  BY <1>4 DEF EvmInv, EvmTyped
<1>6. EstimateInv(t)'
  BY <1>1, <1>3, <1>5 DEF EstimateInv
<1> QED BY <1>1, <1>3, <1>4, <1>6, EvmTabStep DEF LockNonce

\* There is always a nonce to give: the node holds at most one transaction of
\* each tab, and there is one nonce more to choose from.  It is not taken.
LEMMA NonceIsFree ==
    ASSUME EvmInv
    PROVE  PendingNonce \in Nat /\ ~Taken(PendingNonce)
<1>0. PICK N \in Nat : N = Cardinality(EvmTabs)
  BY EvmAssumption, FS_CardinalityType
<1> DEFINE free == {n \in evmNonce..(evmNonce + N) : \A tx \in evmPool : tx.nonce # n}
<1>1. evmNonce \in Nat /\ free \in SUBSET Nat
  BY DEF EvmInv, EvmTyped
<1>2. free # {}
  <2> SUFFICES ASSUME free = {} PROVE FALSE
    OBVIOUS
  <2> DEFINE I == evmNonce..(evmNonce + N)
             f == [t \in EvmTabs |-> IF evmTab[t].tx.nonce \in I THEN evmTab[t].tx.nonce ELSE evmNonce]
  <2>1. evmNonce \in I
    BY <1>1
  <2>2. ASSUME NEW n \in I PROVE \E t \in EvmTabs : f[t] = n
    <3>1. PICK tx \in evmPool : tx.nonce = n
      OBVIOUS
    <3>2. tx.tab \in EvmTabs /\ evmTab[tx.tab].tx = tx
      BY DEF EvmInv, Known
    <3> QED BY <3>1, <3>2
  <2>3. f \in [EvmTabs -> I]
    BY <2>1
  <2>4. f \in Surjection(EvmTabs, I)
    <3> HIDE DEF f, I
    <3> QED BY <2>2, <2>3 DEF Surjection
  <2>5. Cardinality(I) <= N
    <3> HIDE DEF f, I
    <3> QED BY <1>0, <2>4, FS_Surjection, EvmAssumption
  <2>6. Cardinality(I) = N + 1
    <3>1. evmNonce \in Int /\ evmNonce + N \in Int /\ ~(evmNonce > evmNonce + N)
      BY <1>1
    <3>2. Cardinality(I) = IF evmNonce > evmNonce + N THEN 0 ELSE evmNonce + N - evmNonce + 1
      BY <3>1, FS_Interval
    <3> QED BY <1>1, <3>1, <3>2
  <2> QED BY <2>5, <2>6
<1>3. PendingNonce = Min(free)
  BY <1>0 DEF PendingNonce
<1>4. PendingNonce \in free
  <2> HIDE DEF free
  <2> QED BY <1>1, <1>2, <1>3, MinIsLeast
<1> QED BY <1>1, <1>4 DEF Taken

\* A tab that ends frees the lock.
LEMMA ReleasedEffect ==
    ASSUME EvmInv, NEW t \in EvmTabs, NEW status \in {"refused", "pending", "failed", "unknown"},
           evmTab[t].phase \in {"locked", "signed"}, Released(t, status)
    PROVE  /\ evmTab' \in [EvmTabs -> EvmTabStates] /\ \A u \in EvmTabs : u # t => evmTab'[u] = evmTab[u]
           /\ evmTab'[t].phase = "done" /\ evmTab'[t].status = status /\ evmTab'[t].tx = evmTab[t].tx
           /\ evmTab'[t].req = evmTab[t].req /\ evmTab'[t].est = evmTab[t].est
           /\ evmLock = t /\ evmLock' = None
           /\ \A u \in EvmTabs : u # t => evmTab[u].phase \notin {"locked", "signed"}
<1>1. evmTab[t] \in EvmTabStates /\ evmTab \in [EvmTabs -> EvmTabStates] /\ evmLock = t
  BY DEF EvmInv, EvmTyped, SignedInv
<1>2. PICK new : new = [evmTab[t] EXCEPT !.phase = "done", !.status = status, !.max = None]
  OBVIOUS
<1>3. /\ new \in EvmTabStates /\ new.phase = "done" /\ new.status = status /\ new.tx = evmTab[t].tx
      /\ new.req = evmTab[t].req /\ new.est = evmTab[t].est
  BY <1>1, <1>2 DEF EvmTabStates
<1>4. evmTab' = [evmTab EXCEPT ![t] = new]
  BY <1>1, <1>2 DEF Released, EvmTabStates
<1>5. evmTab' \in [EvmTabs -> EvmTabStates] /\ evmTab'[t] = new /\ \A u \in EvmTabs : u # t => evmTab'[u] = evmTab[u]
  BY <1>1, <1>3, <1>4
<1>6. \A u \in EvmTabs : u # t => evmTab[u].phase \notin {"locked", "signed"}
  BY <1>1 DEF EvmInv, SignedInv
<1>7. evmLock' = None
  BY <1>1 DEF Released
<1> QED BY <1>1, <1>3, <1>5, <1>6, <1>7

\* A tab ends with a status; a transaction the node took has a nonce of its
\* own.
LEMMA EndInv ==
    ASSUME EvmInv, NEW t \in EvmTabs, NEW status \in {"refused", "pending", "failed", "unknown"},
           evmTab[t].phase \in {"locked", "signed"}, Released(t, status),
           status # "refused" => evmTab[t].phase = "signed",
           UNCHANGED <<evmMarket, evmGas, evmHeld, evmNonce, evmLanded>>,
           evmPool' \subseteq EvmTxs, evmLate' \subseteq EvmTxs,
           \A n \in Nat : Taken(n) => Taken(n)',
           status = "pending" => \E tx \in evmPool' : tx = evmTab[t].tx,
           \A tx \in (evmPool \cup evmLate)' : tx \in evmPool \cup evmLate \/ (tx = evmTab[t].tx /\ status # "refused")
    PROVE  EvmInv'
<1>1. /\ evmTab' \in [EvmTabs -> EvmTabStates] /\ \A u \in EvmTabs : u # t => evmTab'[u] = evmTab[u]
      /\ evmTab'[t].phase = "done" /\ evmTab'[t].status = status /\ evmTab'[t].tx = evmTab[t].tx
      /\ evmTab'[t].req = evmTab[t].req /\ evmTab'[t].est = evmTab[t].est
      /\ evmLock = t /\ evmLock' = None
      /\ \A u \in EvmTabs : u # t => evmTab[u].phase \notin {"locked", "signed"}
  BY ReleasedEffect
<1>2. EstimateInv(t) /\ SignedInv(t) /\ evmTab[t].status = None
  BY DEF EvmInv, SignedInv
<1>3. EvmTyped'
  BY <1>1 DEF EvmInv, EvmTyped
<1>4. \A s \in EvmTabs : evmTab'[s].phase # "signed"
  BY <1>1
<1>5. ASSUME NEW u \in EvmTabs, evmTab[u].status = "pending" PROVE evmTab[u].tx.nonce \in Nat
  <2>1. SignedInv(u) /\ evmTab[u].phase = "done"
    BY <1>5, EvmAssumption DEF EvmInv, SignedInv
  <2> QED BY <1>5, <2>1 DEF SignedInv, EvmTxs
<1>6. ASSUME NEW u \in EvmTabs PROVE (EstimateInv(u) /\ SignedInv(u) /\ NonceInv(u) /\ CostInv(u))'
  <2>0. EstimateInv(u) /\ SignedInv(u) /\ NonceInv(u) /\ CostInv(u)
    BY DEF EvmInv
  <2>1. CASE u = t
    <3>1. EstimateInv(t)'
      BY <1>1, <1>2 DEF EstimateInv
    <3>2. SignedInv(t)'
      BY <1>1, <1>2, EvmAssumption DEF SignedInv
    <3>3. NonceInv(t)'
      BY <1>1, <1>4 DEF NonceInv, Taken
    <3>4. CostInv(t)'
      BY <2>0, <2>1 DEF CostInv
    <3> QED BY <2>1, <3>1, <3>2, <3>3, <3>4
  <2>2. CASE u # t
    <3>1. evmTab'[u] = evmTab[u] /\ evmTab[u].phase \notin {"locked", "signed"}
      BY <1>1, <2>2
    <3>2. EstimateInv(u)'
      BY <2>0, <3>1 DEF EstimateInv
    <3>3. SignedInv(u)'
      BY <2>0, <3>1 DEF SignedInv
    <3>4. NonceInv(u)'
      <4>1. evmTab[u].status = "pending" => Taken(evmTab[u].tx.nonce)
        BY <2>0 DEF NonceInv
      <4>2. evmTab[u].status = "pending" => \A n \in Nat : n = evmTab[u].tx.nonce => Taken(n)'
        BY <4>1
      <4>3. evmTab'[u].status = "pending" => Taken(evmTab[u].tx.nonce)'
        BY <1>5, <3>1, <4>2 DEF Taken
      <4> QED BY <1>4, <3>1, <4>3 DEF NonceInv, Taken
    <3>5. CostInv(u)'
      BY <2>0, <3>1 DEF CostInv
    <3> QED BY <3>2, <3>3, <3>4, <3>5
  <2> QED BY <2>1, <2>2
<1>7. ASSUME NEW tx \in (evmPool \cup evmLate)' PROVE Known(tx)'
  <2>1. CASE tx \in evmPool \cup evmLate
    <3>1. Known(tx) /\ tx.tab # t
      BY <2>1 DEF EvmInv, Known
    <3> QED BY <1>1, <3>1 DEF Known
  <2>2. CASE tx = evmTab[t].tx /\ status # "refused"
    <3>1. tx.tab = t
      BY <1>2, <2>2, EvmAssumption DEF SignedInv
    <3> QED BY <1>1, <2>2, <3>1 DEF Known
  <2> QED BY <2>1, <2>2
<1>8. SendsCoexist'
  <2>1. ASSUME NEW u \in EvmTabs, u # t, evmTab'[u].status = "pending", status = "pending"
        PROVE  evmTab'[u].tx.nonce # evmTab'[t].tx.nonce
    <3>1. evmTab[u].status = "pending" /\ evmTab[t].phase = "signed" /\ NonceInv(u) /\ evmTab'[u] = evmTab[u]
      BY <1>1, <2>1 DEF EvmInv
    <3> QED BY <1>1, <3>1 DEF NonceInv
  <2>2. SendsCoexist
    BY DEF EvmInv
  <2>3. ASSUME NEW u \in EvmTabs, NEW v \in EvmTabs, u # v, evmTab'[u].status = "pending", evmTab'[v].status = "pending"
        PROVE  evmTab'[u].tx.nonce # evmTab'[v].tx.nonce
    <3>1. CASE u = t
      BY <1>1, <2>1, <2>3, <3>1
    <3>2. CASE v = t
      BY <1>1, <2>1, <2>3, <3>2
    <3>3. CASE u # t /\ v # t
      BY <1>1, <2>2, <2>3, <3>3 DEF SendsCoexist
    <3> QED BY <3>1, <3>2, <3>3
  <2> QED BY <2>3 DEF SendsCoexist
<1> QED BY <1>3, <1>6, <1>7, <1>8 DEF EvmInv

\* A signature takes the approved caps and a nonce nobody has; a refusal ends
\* the tab.
LEMMA SignInv ==
    ASSUME EvmInv, NEW t \in EvmTabs, Sign(t)
    PROVE  EvmInv'
<1>1. /\ evmTab[t] \in EvmTabStates /\ evmTab[t].phase = "locked" /\ evmTab[t].status = None
      /\ evmTab \in [EvmTabs -> EvmTabStates] /\ EstimateInv(t) /\ SignedInv(t) /\ evmLock = t
      /\ UNCHANGED <<evmMarket, evmGas, evmChain>>
  BY DEF EvmInv, EvmTyped, SignedInv, Sign
<1>2. PICK tx : tx = [tab |-> t, nonce |-> PendingNonce, call |-> transferCall(evmTab[t].req), model |-> evmTab[t].est.model,
                      gas |-> evmTab[t].est.gas, cap |-> evmTab[t].est.cap, tip |-> evmTab[t].est.tip]
  OBVIOUS
<1>3. CASE Released(t, "refused")
  <2>1. UNCHANGED <<evmMarket, evmGas, evmHeld, evmNonce, evmLanded, evmPool, evmLate>>
    BY <1>1 DEF evmChain
  <2>2. \A n \in Nat : Taken(n) => Taken(n)'
    BY <2>1 DEF Taken
  <2>3. /\ evmPool' \subseteq EvmTxs /\ evmLate' \subseteq EvmTxs
        /\ \A other \in (evmPool \cup evmLate)' : other \in evmPool \cup evmLate
    BY <2>1 DEF EvmInv, EvmTyped
  <2>4. PICK status \in {"refused", "pending", "failed", "unknown"} : status = "refused"
    OBVIOUS
  <2>5. Released(t, status)
    BY <1>3, <2>4
  <2>6. UNCHANGED <<evmMarket, evmGas, evmHeld, evmNonce, evmLanded>>
    BY <2>1
  <2>7. /\ evmTab[t].phase \in {"locked", "signed"} /\ (status # "refused" => evmTab[t].phase = "signed")
        /\ (status = "pending" => \E tx2 \in evmPool' : tx2 = evmTab[t].tx)
        /\ \A other \in (evmPool \cup evmLate)' : other \in evmPool \cup evmLate \/ (other = evmTab[t].tx /\ status # "refused")
    <3>1. evmTab[t].phase \in {"locked", "signed"} /\ (status # "refused" => evmTab[t].phase = "signed")
      BY <1>1, <2>4
    <3>2. status = "pending" => \E tx2 \in evmPool' : tx2 = evmTab[t].tx
      <4>1. "refused" # "pending"
        OBVIOUS
      <4> QED BY <2>4, <4>1
    <3>3. \A other \in (evmPool \cup evmLate)' : other \in evmPool \cup evmLate \/ (other = evmTab[t].tx /\ status # "refused")
      BY <2>3
    <3> QED BY <3>1, <3>2, <3>3
  <2> QED BY <2>2, <2>3, <2>5, <2>6, <2>7, EndInv
<1>4. CASE evmTab' = [evmTab EXCEPT ![t].phase = "signed", ![t].tx = tx] /\ UNCHANGED evmLock
  <2>1. evmTab[t].req \in EvmRequests /\ evmTab[t].est \in Estimates
    BY <1>1 DEF EstimateInv
  <2>2. transferCall(evmTab[t].req) \in EvmCalls /\ PendingNonce \in Nat /\ ~Taken(PendingNonce)
    BY <2>1, CallTypes, NonceIsFree
  <2>3. /\ tx \in EvmTxs /\ tx.tab = t /\ tx.call = transferCall(evmTab[t].req) /\ tx.gas = evmTab[t].est.gas
        /\ tx.cap = evmTab[t].est.cap /\ ~Taken(tx.nonce)
    BY <1>2, <2>1, <2>2 DEF EvmTxs, Estimates
  <2>4. PICK new : new = [evmTab[t] EXCEPT !.phase = "signed", !.tx = tx]
    OBVIOUS
  <2>5. /\ new \in EvmTabStates /\ new.phase = "signed" /\ new.tx = tx /\ new.status = None
        /\ new.req = evmTab[t].req /\ new.est = evmTab[t].est
    BY <1>1, <2>3, <2>4 DEF EvmTabStates
  <2>6. evmTab' = [evmTab EXCEPT ![t] = new]
    BY <1>1, <1>4, <2>4 DEF EvmTabStates
  <2>7. /\ evmTab'[t] = new /\ \A u \in EvmTabs : u # t => evmTab'[u] = evmTab[u]
        /\ evmTab' \in [EvmTabs -> EvmTabStates]
    BY <1>1, <2>5, <2>6
  <2>8. EvmTyped'
    BY <1>1, <2>7 DEF EvmInv, EvmTyped, evmChain
  <2>9. ASSUME NEW u \in EvmTabs PROVE (EstimateInv(u) /\ SignedInv(u) /\ NonceInv(u) /\ CostInv(u))'
    <3>0. EstimateInv(u) /\ SignedInv(u) /\ NonceInv(u) /\ CostInv(u)
      BY DEF EvmInv
    <3>1. CASE u = t
      <4>1. EstimateInv(t)'
        BY <1>1, <2>5, <2>7 DEF EstimateInv
      <4>2. SignedInv(t)'
        BY <1>1, <1>4, <2>3, <2>5, <2>7 DEF SignedInv
      <4>3. NonceInv(t)'
        BY <2>5, <2>7, EvmAssumption DEF NonceInv
      <4>4. CostInv(t)'
        BY <1>1, <3>0, <3>1 DEF CostInv, evmChain
      <4> QED BY <3>1, <4>1, <4>2, <4>3, <4>4
    <3>2. CASE u # t
      <4>1. evmTab'[u] = evmTab[u]
        BY <2>7, <3>2
      <4>2. EstimateInv(u)' /\ SignedInv(u)' /\ CostInv(u)'
        BY <1>1, <1>4, <3>0, <4>1 DEF EstimateInv, SignedInv, CostInv, evmChain
      <4>3. NonceInv(u)'
        <5> SUFFICES ASSUME evmTab[u].status = "pending" PROVE NonceInv(u)'
          BY <4>1 DEF NonceInv
        <5>1. /\ Taken(evmTab[u].tx.nonce)
              /\ \A s \in EvmTabs : evmTab[s].phase = "signed" => evmTab[s].tx.nonce # evmTab[u].tx.nonce
          BY <3>0 DEF NonceInv
        <5>2. evmTab[u].tx.nonce # tx.nonce
          BY <2>3, <5>1
        <5>3. \A s \in EvmTabs : evmTab'[s].phase = "signed" => evmTab'[s].tx.nonce # evmTab[u].tx.nonce
          BY <2>5, <2>7, <5>1, <5>2
        <5> QED BY <1>1, <4>1, <5>1, <5>3 DEF NonceInv, Taken, evmChain
      <4> QED BY <4>2, <4>3
    <3> QED BY <3>1, <3>2
  <2>10. ASSUME NEW other \in (evmPool \cup evmLate)' PROVE Known(other)'
    <3>1. Known(other) /\ other.tab # t
      BY <1>1 DEF EvmInv, Known, evmChain
    <3> QED BY <2>7, <3>1 DEF Known
  <2>11. SendsCoexist'
    <3>1. \A u \in EvmTabs : evmTab'[u].status = "pending" => evmTab'[u] = evmTab[u]
      BY <2>5, <2>7, EvmAssumption
    <3> QED BY <3>1 DEF EvmInv, SendsCoexist
  <2> QED BY <2>8, <2>9, <2>10, <2>11 DEF EvmInv
<1> QED BY <1>2, <1>3, <1>4 DEF Sign, SignedFees

\* A transaction that takes the place of another keeps its nonce taken.
LEMMA ReplacedKeeps ==
    ASSUME EvmTyped, NEW tx \in EvmTxs, evmPool' = Replaced(tx), UNCHANGED evmNonce
    PROVE  evmPool' \subseteq EvmTxs /\ \A n \in Nat : Taken(n) => Taken(n)'
BY DEF Replaced, Taken, EvmTyped

\* The broadcast, whatever came of it.
LEMMA EvmBroadcastInv ==
    ASSUME EvmInv, NEW t \in EvmTabs, Broadcast(t)
    PROVE  EvmInv'
<1>1. /\ evmTab[t].phase = "signed" /\ EvmTyped /\ evmTab[t].tx \in EvmTxs
      /\ UNCHANGED <<evmMarket, evmGas, evmHeld, evmNonce, evmLanded>>
  BY EvmAssumption DEF Broadcast, EvmInv, SignedInv
<1>2. PICK tx \in EvmTxs : tx = evmTab[t].tx
  BY <1>1
<1>3. evmPool \subseteq EvmTxs /\ evmLate \subseteq EvmTxs
  BY <1>1 DEF EvmTyped
<1>4. CASE evmPool' = Replaced(tx) /\ UNCHANGED evmLate /\ (Released(t, "pending") \/ Released(t, "unknown"))
  <2>1. evmPool' \subseteq EvmTxs /\ \A n \in Nat : Taken(n) => Taken(n)'
    BY <1>1, <1>4, ReplacedKeeps
  <2>2. tx \in evmPool' /\ \A other \in (evmPool \cup evmLate)' : other \in evmPool \cup evmLate \/ other = tx
    BY <1>4 DEF Replaced
  <2> QED BY <1>1, <1>2, <1>3, <1>4, <2>1, <2>2, EndInv
<1>5. CASE /\ UNCHANGED evmPool /\ evmLate' \in {evmLate, evmLate \cup {tx}}
           /\ Released(t, "failed") \/ Released(t, "unknown")
  <2>1. \A n \in Nat : Taken(n) => Taken(n)'
    BY <1>1, <1>5 DEF Taken
  <2>2. /\ evmLate' \subseteq EvmTxs /\ evmPool' \subseteq EvmTxs
        /\ \A other \in (evmPool \cup evmLate)' : other \in evmPool \cup evmLate \/ other = tx
    BY <1>3, <1>5
  <2> QED BY <1>1, <1>2, <1>5, <2>1, <2>2, EndInv
<1> QED BY <1>2, <1>4, <1>5 DEF Broadcast

\* A step of the network that leaves the tabs alone.
LEMMA NodeStep ==
    ASSUME EvmInv, UNCHANGED <<evmLock, evmTab>>, EvmTyped',
           \A n \in Nat : Taken(n) => Taken(n)',
           \A tx \in (evmPool \cup evmLate)' : tx \in evmPool \cup evmLate,
           \A t \in EvmTabs : CostInv(t)'
    PROVE  EvmInv'
<1>1. ASSUME NEW t \in EvmTabs PROVE (EstimateInv(t) /\ SignedInv(t) /\ NonceInv(t))'
  <2>1. EstimateInv(t) /\ SignedInv(t) /\ NonceInv(t)
    BY DEF EvmInv
  <2>2. EstimateInv(t)' /\ SignedInv(t)'
    BY <2>1 DEF EstimateInv, SignedInv
  <2>3. ASSUME evmTab[t].status = "pending" PROVE Taken(evmTab[t].tx.nonce)'
    <3>1. evmTab[t].tx.nonce \in Nat
      BY <2>1, <2>3, EvmAssumption DEF SignedInv, EvmTxs
    <3>2. PICK n \in Nat : n = evmTab[t].tx.nonce
      BY <3>1
    <3>3. Taken(n)'
      BY <2>1, <2>3, <3>2 DEF NonceInv
    <3> QED BY <3>2, <3>3 DEF Taken
  <2> QED BY <2>1, <2>2, <2>3 DEF NonceInv, Taken
<1>2. \A tx \in (evmPool \cup evmLate)' : Known(tx)'
  BY DEF EvmInv, Known
<1>3. SendsCoexist'
  BY DEF EvmInv, SendsCoexist
<1> QED BY <1>1, <1>2, <1>3 DEF EvmInv

\* A transaction that was under way reaches the node.
LEMMA ArriveInv ==
    ASSUME EvmInv, Arrive
    PROVE  EvmInv'
<1>1. PICK tx \in evmLate : evmLate' = evmLate \ {tx} /\ evmPool' = IF Accepted(tx) THEN Replaced(tx) ELSE evmPool
  BY DEF Arrive
<1>2. EvmTyped /\ UNCHANGED <<evmMarket, evmGas, evmHeld, evmNonce, evmLanded, evmLock, evmTab>> /\ tx \in EvmTxs
  BY DEF Arrive, EvmInv, EvmTyped
<1>3. evmPool' \subseteq EvmTxs /\ \A n \in Nat : Taken(n) => Taken(n)'
  <2>1. CASE Accepted(tx)
    BY <1>1, <1>2, <2>1, ReplacedKeeps
  <2>2. CASE ~Accepted(tx)
    BY <1>1, <1>2, <2>2 DEF Taken, EvmTyped
  <2> QED BY <2>1, <2>2
<1>4. EvmTyped'
  BY <1>1, <1>2, <1>3 DEF EvmTyped
<1>5. \A other \in (evmPool \cup evmLate)' : other \in evmPool \cup evmLate
  BY <1>1 DEF Replaced
<1>6. \A t \in EvmTabs : CostInv(t)'
  BY <1>2 DEF EvmInv, CostInv
<1> QED BY <1>2, <1>3, <1>4, <1>5, <1>6, NodeStep

\* A transaction lands: what it takes is what was shown or less.
LEMMA LandInv ==
    ASSUME EvmInv, Land
    PROVE  EvmInv'
<1>1. PICK tx \in evmPool :
        LET charged == Min({tx.gas, evmGas}) * PricePaid(tx)
            left == [evmHeld EXCEPT !.native = @ - charged]
            ok == evmGas <= tx.gas /\ Runs(left, tx.call)
        IN  /\ tx.nonce = evmNonce
            /\ evmHeld' = IF ok THEN After(left, tx.call) ELSE left
            /\ evmLanded' = [evmLanded EXCEPT ![tx.tab] =
                 [charged |-> charged, ok |-> ok,
                  change |-> [a \in DOMAIN evmHeld |-> evmHeld'[a] - evmHeld[a]]]]
            /\ evmPool' = evmPool \ {tx} /\ evmNonce' = evmNonce + 1
  BY DEF Land
<1>2. /\ EvmTyped /\ Known(tx) /\ tx \in EvmTxs /\ UNCHANGED <<evmMarket, evmGas, evmLate, evmLock, evmTab>>
      /\ evmHeld \in [EvmAssets -> Int] /\ evmGas \in Nat
  BY DEF Land, EvmInv, EvmTyped
<1>3. PICK t \in EvmTabs : t = tx.tab
  BY <1>2 DEF Known
<1>4. PICK charged : charged = Min({tx.gas, evmGas}) * PricePaid(tx)
  OBVIOUS
<1>5. PICK left : left = [evmHeld EXCEPT !.native = @ - charged]
  OBVIOUS
<1>6. PICK ok \in BOOLEAN : ok = (evmGas <= tx.gas /\ Runs(left, tx.call))
  OBVIOUS
<1>7. PICK change : change = [a \in DOMAIN evmHeld |-> evmHeld'[a] - evmHeld[a]]
  OBVIOUS
<1>8. /\ tx.nonce = evmNonce
      /\ evmHeld' = (IF ok THEN After(left, tx.call) ELSE left)
      /\ evmLanded' = [evmLanded EXCEPT ![t] = [charged |-> charged, ok |-> ok, change |-> change]]
      /\ evmPool' = evmPool \ {tx} /\ evmNonce' = evmNonce + 1
  BY <1>1, <1>3, <1>4, <1>5, <1>6, <1>7
<1>9. /\ evmTab[t].phase = "done" /\ evmTab[t].req \in EvmRequests /\ evmTab[t].est \in Estimates
      /\ evmTab[t].est.gas * evmTab[t].est.cap <= evmTab[t].est.fee
      /\ tx.call = transferCall(evmTab[t].req) /\ tx.gas = evmTab[t].est.gas /\ tx.cap = evmTab[t].est.cap
  <2>1. evmTab[t].phase = "done" /\ evmTab[t].status # "refused" /\ evmTab[t].tx = tx
    BY <1>2, <1>3 DEF Known
  <2> QED BY <2>1 DEF EvmInv, SignedInv, EstimateInv
<1>10. charged \in Nat /\ charged <= evmTab[t].est.fee
  <2>1. tx.gas \in Nat /\ tx.cap \in Nat /\ tx.tip \in Nat /\ evmMarket.base \in Nat
    BY <1>2, EvmAssumption DEF EvmTxs, EvmTyped
  <2>2. PricePaid(tx) \in Nat /\ PricePaid(tx) <= tx.cap
    <3>1. evmMarket.base + tx.tip \in Nat
      BY <2>1
    <3>2. Min({tx.cap, evmMarket.base + tx.tip}) \in Nat /\ Min({tx.cap, evmMarket.base + tx.tip}) <= tx.cap
      BY <2>1, <3>1, MinOfTwo
    <3> QED BY <2>1, <3>2 DEF PricePaid
  <2>3. Min({tx.gas, evmGas}) \in Nat /\ Min({tx.gas, evmGas}) <= tx.gas
    BY <1>2, <2>1, MinOfTwo
  <2>4. charged \in Nat /\ charged <= tx.gas * tx.cap /\ tx.gas * tx.cap \in Nat
    BY <1>4, <2>1, <2>2, <2>3, Products
  <2>5. evmTab[t].est.fee \in Nat /\ tx.gas * tx.cap <= evmTab[t].est.fee
    BY <1>9 DEF Estimates
  <2> QED BY <2>4, <2>5
<1>11. /\ left \in [EvmAssets -> Int]
       /\ \A a \in EvmAssets : left[a] = evmHeld[a] - (IF a = "native" THEN charged ELSE 0)
  BY <1>2, <1>5, <1>10 DEF EvmAssets
<1>12. /\ evmHeld' \in [EvmAssets -> Int]
       /\ \A a \in EvmAssets : evmHeld'[a] = left[a] + (IF ok THEN Asked(evmTab[t].req, a) ELSE 0)
  <2>1. CASE ok
    <3>1. evmHeld' = After(left, transferCall(evmTab[t].req))
      BY <1>8, <1>9, <2>1
    <3> QED BY <1>9, <1>11, <2>1, <3>1, AfterEffect
  <2>2. CASE ~ok
    BY <1>8, <1>11, <2>2
  <2> QED BY <2>1, <2>2
<1>13. /\ DOMAIN change = EvmAssets
       /\ \A a \in EvmAssets :
            change[a] = (IF ok THEN Asked(evmTab[t].req, a) ELSE 0) - (IF a = "native" THEN charged ELSE 0)
  <2>1. ASSUME NEW a \in EvmAssets
        PROVE  change[a] = (IF ok THEN Asked(evmTab[t].req, a) ELSE 0) - (IF a = "native" THEN charged ELSE 0)
    <3>1. PICK asked \in Int : asked = IF ok THEN Asked(evmTab[t].req, a) ELSE 0
      <4>1. evmTab[t].req.amount \in Nat
        BY <1>9 DEF EvmRequests
      <4>2. Asked(evmTab[t].req, a) \in Int
        BY <4>1 DEF Asked
      <4> QED BY <4>2
    <3>2. change[a] = evmHeld'[a] - evmHeld[a] /\ evmHeld'[a] = left[a] + asked
          /\ left[a] = evmHeld[a] - (IF a = "native" THEN charged ELSE 0) /\ evmHeld[a] \in Int
      BY <1>2, <1>7, <1>11, <1>12, <3>1
    <3>3. change[a] = asked - (IF a = "native" THEN charged ELSE 0)
      BY <1>10, <3>2
    <3> QED BY <3>1, <3>3
  <2> QED BY <1>2, <1>7, <2>1
<1>14. EvmTyped'
  BY <1>2, <1>8, <1>12 DEF EvmTyped
<1>15. \A n \in Nat : Taken(n) => Taken(n)'
  <2> SUFFICES ASSUME NEW n \in Nat, Taken(n) PROVE Taken(n)'
    OBVIOUS
  <2>1. evmNonce \in Nat
    BY <1>2 DEF EvmTyped
  <2>2. CASE n < evmNonce
    BY <1>8, <2>1, <2>2 DEF Taken
  <2>3. CASE \E other \in evmPool : other.nonce = n
    BY <1>8, <2>1, <2>3 DEF Taken
  <2> QED BY <2>2, <2>3 DEF Taken
<1>16. ASSUME NEW u \in EvmTabs PROVE CostInv(u)'
  <2>1. CASE u = t
    <3>1. evmLanded'[t].charged = charged /\ evmLanded'[t].ok = ok /\ evmLanded'[t].change = change
      BY <1>2, <1>8 DEF EvmTyped
    <3>2. evmTab'[t] = evmTab[t]
      BY <1>2
    <3> QED BY <1>9, <1>10, <1>13, <2>1, <3>1, <3>2 DEF CostInv
  <2>2. CASE u # t
    <3>1. evmLanded'[u] = evmLanded[u] /\ evmTab'[u] = evmTab[u]
      BY <1>2, <1>8, <2>2 DEF EvmTyped
    <3> QED BY <3>1 DEF EvmInv, CostInv
  <2> QED BY <2>1, <2>2
<1>17. \A other \in (evmPool \cup evmLate)' : other \in evmPool \cup evmLate
  BY <1>2, <1>8
<1> QED BY <1>2, <1>14, <1>15, <1>16, <1>17, NodeStep

\* The market moves, or another adapter is at work.
LEMMA EvmRestInv ==
    ASSUME EvmInv, MarketMoves \/ UNCHANGED evmVars
    PROVE  EvmInv'
<1>1. UNCHANGED <<evmHeld, evmNonce, evmPool, evmLate, evmLanded, evmLock, evmTab>>
  BY DEF MarketMoves, evmVars, evmChain
<1>2. evmMarket' \in Markets /\ evmGas' \in Nat
  BY EvmAssumption DEF MarketMoves, evmVars, EvmInv, EvmTyped
<1>3. EvmTyped'
  BY <1>1, <1>2 DEF EvmInv, EvmTyped
<1>4. \A t \in EvmTabs : CostInv(t)'
  BY <1>1 DEF EvmInv, CostInv
<1>5. \A n \in Nat : Taken(n) => Taken(n)'
  BY <1>1 DEF Taken
<1> QED BY <1>1, <1>3, <1>4, <1>5, NodeStep

\* All steps.
LEMMA EvmNextInv == EvmInv /\ (EvmNext \/ UNCHANGED evmVars) => EvmInv'
<1> SUFFICES ASSUME EvmInv, EvmNext \/ UNCHANGED evmVars PROVE EvmInv'
  OBVIOUS
<1>1. ASSUME NEW t \in EvmTabs,
             \/ \E r \in Transfers : EstimateTransfer(t, r)
             \/ \E asset \in {"token", "wrapped"} : EstimateFunding(t, asset)
             \/ \E action \in {"none", "wrap"} : EstimateMaxTransfer(t, action)
             \/ EstimateMaxToken(t) \/ MaxRound(t)
             \/ LockNonce(t) \/ Sign(t) \/ Broadcast(t)
      PROVE  EvmInv'
  BY <1>1, EstimatesInv, EstimateMaxInv, MaxRoundInv, LockNonceInv, SignInv, EvmBroadcastInv
<1> QED BY <1>1, ArriveInv, LandInv, EvmRestInv DEF EvmNext

\* Steps of the adapters beside one another are steps of the EVM adapter or
\* leave it alone.
LEMMA EvmIsInvariant == AdaptersSpec => []EvmInv
<1>1. AdaptersInit => EvmInv
  BY EvmInitInv DEF AdaptersInit
<1>2. EvmInv /\ [AdaptersNext]_adapterVars => EvmInv'
  <2>1. [AdaptersNext]_adapterVars => EvmNext \/ UNCHANGED evmVars
    BY DEF AdaptersNext, EvmStep, SolanaStep, TronStep, SunSwapStep, adapterVars
  <2> QED BY <2>1, EvmNextInv
<1> QED BY <1>1, <1>2, PTL DEF AdaptersSpec

\* Two transfers of one address that the node took never share a nonce, for
\* any number of tabs, late arrivals and replacements included (Adapter.Send's
\* nonce lock, PendingNonceAt).
THEOREM AcceptedSendsCoexist == AdaptersSpec => []SendsCoexist
<1>1. EvmInv => SendsCoexist
  BY DEF EvmInv
<1> QED BY <1>1, EvmIsInvariant, PTL

\* What leaves the address is at most the fee shown, and the amount asked for
\* in the asset asked for or nothing (approvedFees, transferCall).
THEOREM TransferCostsWhatWasShown == AdaptersSpec => []CostsWhatWasShown
<1>1. EvmInv => CostsWhatWasShown
  BY DEF EvmInv, CostInv, Asked, CostsWhatWasShown
<1> QED BY <1>1, EvmIsInvariant, PTL

\* A maximum and the caps that will be signed for it fit the balance that was
\* read, however the market moves between the rounds (EstimateMaxTransfer).
THEOREM MaximumFits == AdaptersSpec => []MaxFits
<1>1. EvmInv => MaxFits
  BY DEF EvmInv, EstimateInv, MaxFits
<1> QED BY <1>1, EvmIsInvariant, PTL

-----------------------------------------------------------------------------
(* Solana.                                                                 *)

\* What the wallet has of an asset, wrapped SOL counted as SOL.
Wealth(s, x) == Held(s, x) + (IF x = "SOL" THEN s.lamports ELSE 0)

\* Messages the wallet builds.
HopOK(hop) ==
    /\ hop.pool \in Pools /\ hop.in \in TokenAccounts /\ hop.out \in TokenAccounts /\ hop.in # hop.out
    /\ hop.amount \in Nat /\ hop.min \in Int
MessageOK(m) ==
    /\ m.limit \in Nat /\ m.price \in Nat /\ m.creates \subseteq TokenAccounts /\ m.wrap \in Nat
    /\ Len(m.hops) \in 0..2 /\ \A i \in 1..Len(m.hops) : HopOK(m.hops[i])
    /\ m.send.amount \in Nat /\ (m.send.amount # 0 => m.send.asset \in {"SOL", "a", "b"})
    /\ m.closes \subseteq TokenAccounts

\* What a hop moves at least, and what a route does.
HopMoves(hop, x) == (IF x = hop.out THEN hop.min ELSE 0) - (IF x = hop.in THEN hop.amount ELSE 0)
RouteMoves(route, x) ==
    IF Len(route) = 0 THEN 0
    ELSE IF Len(route) = 1 THEN HopMoves(route[1], x) ELSE HopMoves(route[1], x) + HopMoves(route[2], x)

\* Fees are natural numbers.
LEMMA NetworkFeeTypes ==
    ASSUME NEW limit \in Nat, NEW price \in Nat
    PROVE  networkFee(limit, price) \in Nat
<1>1. PICK n \in Nat : n = limit * price + Micro - 1
  <2>1. limit * price \in Nat /\ Micro \in Nat /\ Micro > 0
    BY SolAssumption
  <2> QED BY <2>1
<1>2. n \div Micro \in Nat /\ LamportsPerSignature \in Nat
  <2>1. Micro \in Nat /\ Micro > 0 /\ LamportsPerSignature \in Nat
    BY SolAssumption
  <2> QED BY <2>1
<1> QED BY <1>1, <1>2 DEF networkFee, priorityFee

\* A state with other lamports and tokens.
LEMMA StateParts ==
    ASSUME NEW s \in SolStates
    PROVE  /\ s.lamports \in Nat /\ s.token \in [TokenAccounts -> Nat \cup {None}] /\ s.rate \in [Pools -> Nat]
           /\ \A x \in TokenAccounts : Held(s, x) \in Nat /\ Wealth(s, x) \in Nat
           /\ \A l \in Nat, t \in [TokenAccounts -> Nat \cup {None}] : [s EXCEPT !.lamports = l, !.token = t] \in SolStates
<1>1. s.lamports \in Nat /\ s.token \in [TokenAccounts -> Nat \cup {None}] /\ s.rate \in [Pools -> Nat]
  BY DEF SolStates
<1>2. \A x \in TokenAccounts : Held(s, x) \in Nat
  BY <1>1 DEF Held
<1>3. \A x \in TokenAccounts : Wealth(s, x) \in Nat
  BY <1>1, <1>2 DEF Wealth
<1>4. \A l \in Nat, t \in [TokenAccounts -> Nat \cup {None}] : [s EXCEPT !.lamports = l, !.token = t] \in SolStates
  BY DEF SolStates
<1> QED BY <1>1, <1>2, <1>3, <1>4

\* The fee.
LEMMA ChargedMoves ==
    ASSUME NEW s \in SolStates, NEW m, MessageOK(m), Payable(s, m)
    PROVE  /\ Charged(s, m) \in SolStates /\ Charged(s, m).token = s.token
           /\ \A x \in TokenAccounts :
                Wealth(Charged(s, m), x) = Wealth(s, x) - (IF x = "SOL" THEN networkFee(m.limit, m.price) ELSE 0)
<1>1. PICK fee \in Nat : fee = networkFee(m.limit, m.price)
  BY NetworkFeeTypes DEF MessageOK
<1>2. PICK c : c = Charged(s, m)
  OBVIOUS
<1>3. c = [s EXCEPT !.lamports = s.lamports - fee] /\ s.lamports - fee >= 0
  BY <1>1, <1>2 DEF Charged, Payable
<1>4. c \in SolStates /\ c.token = s.token /\ c.lamports = s.lamports - fee
  BY <1>1, <1>3 DEF SolStates
<1>5. \A x \in TokenAccounts : Held(c, x) = Held(s, x) /\ Held(s, x) \in Nat
  BY <1>4, StateParts DEF Held
<1>6. \A x \in TokenAccounts : Wealth(c, x) = Wealth(s, x) - (IF x = "SOL" THEN fee ELSE 0)
  <2>1. s.lamports \in Nat
    BY StateParts
  <2> QED BY <1>1, <1>4, <1>5, <2>1 DEF Wealth
<1> QED BY <1>1, <1>2, <1>4, <1>6

\* There are finitely many accounts.
LEMMA AccountsFinite ==
    ASSUME NEW S \in SUBSET TokenAccounts
    PROVE  IsFiniteSet(S) /\ Cardinality(S) \in Nat
<1>1. IsFiniteSet({"SOL"}) /\ IsFiniteSet({"SOL"} \cup {"a"}) /\ IsFiniteSet(({"SOL"} \cup {"a"}) \cup {"b"})
      /\ IsFiniteSet((({"SOL"} \cup {"a"}) \cup {"b"}) \cup {"to"})
  <2>1. IsFiniteSet({"SOL"})
    BY FS_Singleton
  <2>2. IsFiniteSet({"SOL"} \cup {"a"})
    BY <2>1, FS_AddElement
  <2>3. IsFiniteSet(({"SOL"} \cup {"a"}) \cup {"b"})
    BY <2>2, FS_AddElement
  <2> QED BY <2>1, <2>2, <2>3, FS_AddElement
<1>2. TokenAccounts = (({"SOL"} \cup {"a"}) \cup {"b"}) \cup {"to"}
  BY DEF TokenAccounts
<1>3. IsFiniteSet(TokenAccounts)
  BY <1>1, <1>2
<1>4. IsFiniteSet(S)
  BY <1>3, FS_Subset
<1> QED BY <1>4, FS_CardinalityType

\* Opening accounts costs their rent.
LEMMA OpenedMoves ==
    ASSUME NEW s \in SolStates, NEW creates \in SUBSET TokenAccounts, Opened(s, creates) # None
    PROVE  /\ Opened(s, creates) \in SolStates
           /\ \A x \in TokenAccounts :
                Wealth(Opened(s, creates), x) =
                  Wealth(s, x) - (IF x = "SOL" THEN Rent * Cardinality({y \in creates : s.token[y] = None}) ELSE 0)
<1>1. PICK new \in SUBSET TokenAccounts : new = {y \in creates : s.token[y] = None}
  OBVIOUS
<1>2. PICK due \in Nat : due = Rent * Cardinality(new)
  <2>1. Rent \in Nat /\ Cardinality(new) \in Nat
    BY AccountsFinite, SolAssumption
  <2> QED BY <2>1
<1>3. PICK o : o = Opened(s, creates)
  OBVIOUS
<1>4. PICK t : t = [x \in TokenAccounts |-> IF x \in new THEN 0 ELSE s.token[x]]
  OBVIOUS
<1>5. o = [s EXCEPT !.lamports = s.lamports - due, !.token = t] /\ ~(s.lamports < due)
  BY <1>1, <1>2, <1>3, <1>4 DEF Opened
<1>6. s.lamports \in Nat /\ s.token \in [TokenAccounts -> Nat \cup {None}]
  BY StateParts
<1>7. t \in [TokenAccounts -> Nat \cup {None}] /\ s.lamports - due \in Nat
  BY <1>2, <1>4, <1>5, <1>6
<1>8. o \in SolStates /\ o.token = t /\ o.lamports = s.lamports - due
  BY <1>5, <1>7, StateParts DEF SolStates
<1>9. ASSUME NEW x \in TokenAccounts PROVE Held(o, x) = Held(s, x) /\ Held(s, x) \in Nat
  <2>1. Held(s, x) \in Nat
    BY StateParts
  <2>2. CASE x \in new
    <3>1. s.token[x] = None /\ t[x] = 0
      BY <1>1, <1>4, <2>2
    <3> QED BY <1>8, <2>1, <3>1, SolAssumption DEF Held
  <2>3. CASE x \notin new
    BY <1>4, <1>8, <2>1, <2>3 DEF Held
  <2> QED BY <2>2, <2>3
<1>10. \A x \in TokenAccounts : Wealth(o, x) = Wealth(s, x) - (IF x = "SOL" THEN due ELSE 0)
  BY <1>2, <1>6, <1>8, <1>9 DEF Wealth
<1> QED BY <1>1, <1>2, <1>3, <1>8, <1>10

\* Wrapping moves lamports into the account of wrapped SOL.
LEMMA WrappedMoves ==
    ASSUME NEW s \in SolStates, NEW amount \in Nat, Wrapped(s, amount) # None
    PROVE  /\ Wrapped(s, amount) \in SolStates
           /\ \A x \in TokenAccounts : Wealth(Wrapped(s, amount), x) = Wealth(s, x)
<1>0. s.lamports \in Nat /\ s.token \in [TokenAccounts -> Nat \cup {None}] /\ "SOL" \in TokenAccounts
  BY StateParts DEF TokenAccounts
<1>1. CASE amount = 0
  BY <1>1 DEF Wrapped
<1>2. CASE amount # 0
  <2>1. PICK w : w = Wrapped(s, amount)
    OBVIOUS
  <2>2. PICK t : t = [s.token EXCEPT !["SOL"] = s.token["SOL"] + amount]
    OBVIOUS
  <2>3. s.token["SOL"] # None /\ ~(s.lamports < amount) /\ w = [s EXCEPT !.lamports = s.lamports - amount, !.token = t]
    BY <1>2, <2>1, <2>2 DEF Wrapped, SolStates
  <2>4. t \in [TokenAccounts -> Nat \cup {None}] /\ s.lamports - amount \in Nat /\ s.token["SOL"] \in Nat
    BY <1>0, <2>2, <2>3
  <2>5. w \in SolStates /\ w.token = t /\ w.lamports = s.lamports - amount
    BY <2>3, <2>4, StateParts DEF SolStates
  <2>6. ASSUME NEW x \in TokenAccounts PROVE Wealth(w, x) = Wealth(s, x)
    <3>1. CASE x = "SOL"
      <4>1. t[x] = s.token["SOL"] + amount /\ t[x] \in Nat
        BY <1>0, <2>2, <2>4, <3>1
      <4>2. Held(w, x) = s.token["SOL"] + amount /\ Held(s, x) = s.token["SOL"]
        BY <2>3, <2>5, <3>1, <4>1, SolAssumption DEF Held
      <4> QED BY <1>0, <2>4, <2>5, <3>1, <4>2 DEF Wealth
    <3>2. CASE x # "SOL"
      <4>1. t[x] = s.token[x]
        BY <1>0, <2>2, <3>2
      <4> QED BY <2>5, <3>2, <4>1 DEF Wealth, Held
    <3> QED BY <3>1, <3>2
  <2> QED BY <2>1, <2>5, <2>6
<1> QED BY <1>1, <1>2

\* Two accounts change.
LEMMA TwoTokens ==
    ASSUME NEW s \in SolStates, NEW x \in TokenAccounts, NEW y \in TokenAccounts, x # y,
           NEW m \in Nat, NEW n \in Nat, NEW t, t = [[s.token EXCEPT ![x] = m] EXCEPT ![y] = n],
           NEW r, r = [s EXCEPT !.token = t]
    PROVE  /\ r \in SolStates /\ Held(r, x) = m /\ Held(r, y) = n /\ r.lamports = s.lamports
           /\ \A z \in TokenAccounts \ {x, y} : Held(r, z) = Held(s, z)
<1>2. s.lamports \in Nat /\ s.token \in [TokenAccounts -> Nat \cup {None}]
  BY StateParts
<1>3. /\ t \in [TokenAccounts -> Nat \cup {None}] /\ t[x] = m /\ t[y] = n
      /\ \A z \in TokenAccounts \ {x, y} : t[z] = s.token[z]
  BY <1>2
<1>5. r \in SolStates /\ r.token = t /\ r.lamports = s.lamports
  BY <1>3 DEF SolStates
<1> QED BY <1>3, <1>5, SolAssumption DEF Held

\* A hop pays its minimum or fails.
LEMMA HopMovesIt ==
    ASSUME NEW s \in SolStates, NEW hop, HopOK(hop), Hop(s, hop) # None
    PROVE  /\ Hop(s, hop) \in SolStates
           /\ \A x \in TokenAccounts : Wealth(Hop(s, hop), x) >= Wealth(s, x) + HopMoves(hop, x)
<1>1. PICK h : h = Hop(s, hop)
  OBVIOUS
<1>2. s.lamports \in Nat /\ s.token \in [TokenAccounts -> Nat \cup {None}] /\ s.rate \in [Pools -> Nat]
  BY StateParts
<1>3. PICK pays \in Nat : pays = hop.amount * s.rate[hop.pool]
  <2>1. hop.amount \in Nat /\ s.rate[hop.pool] \in Nat
    BY <1>2 DEF HopOK
  <2> QED BY <2>1
<1>4. /\ s.token[hop.in] # None /\ s.token[hop.out] # None /\ ~(hop.amount > Held(s, hop.in)) /\ ~(pays < hop.min)
      /\ h = [s EXCEPT !.token[hop.in] = @ - hop.amount, !.token[hop.out] = @ + pays]
  BY <1>1, <1>3 DEF Hop
<1>5. PICK m \in Nat, n \in Nat : m = s.token[hop.in] - hop.amount /\ n = s.token[hop.out] + pays
  <2>1. s.token[hop.in] \in Nat /\ s.token[hop.out] \in Nat /\ hop.amount \in Nat /\ hop.amount <= s.token[hop.in]
    BY <1>2, <1>4 DEF HopOK, Held
  <2> QED BY <2>1
<1>6. PICK t : t = [[s.token EXCEPT ![hop.in] = m] EXCEPT ![hop.out] = n] /\ h = [s EXCEPT !.token = t]
  <2>1. PICK t : t = [[s.token EXCEPT ![hop.in] = m] EXCEPT ![hop.out] = n]
    OBVIOUS
  <2>2. h = [s EXCEPT !.token = t]
    BY <1>2, <1>4, <1>5, <2>1 DEF HopOK, SolStates
  <2> QED BY <2>1, <2>2
<1>7. /\ h \in SolStates /\ Held(h, hop.in) = m /\ Held(h, hop.out) = n /\ h.lamports = s.lamports
      /\ \A z \in TokenAccounts \ {hop.in, hop.out} : Held(h, z) = Held(s, z)
  <2>1. hop.in \in TokenAccounts /\ hop.out \in TokenAccounts /\ hop.in # hop.out
    BY DEF HopOK
  <2> QED BY <1>6, <2>1, TwoTokens
<1>8. ASSUME NEW x \in TokenAccounts PROVE Wealth(h, x) >= Wealth(s, x) + HopMoves(hop, x)
  <2>1. Held(s, x) \in Nat /\ hop.amount \in Nat /\ hop.min \in Int /\ hop.in # hop.out
    BY StateParts DEF HopOK
  <2>2. Held(h, x) >= Held(s, x) + HopMoves(hop, x) /\ HopMoves(hop, x) \in Int /\ Held(h, x) \in Nat
    <3>1. CASE x = hop.in
      BY <1>4, <1>5, <1>7, <2>1, <3>1 DEF HopMoves, Held
    <3>2. CASE x = hop.out
      BY <1>4, <1>5, <1>7, <2>1, <3>2 DEF HopMoves, Held
    <3>3. CASE x \notin {hop.in, hop.out}
      <4>1. Held(h, x) = Held(s, x)
        BY <1>7, <3>3
      <4>2. HopMoves(hop, x) = 0
        BY <3>3 DEF HopMoves
      <4> QED BY <2>1, <4>1, <4>2
    <3> QED BY <3>1, <3>2, <3>3
  <2> QED BY <1>2, <1>7, <2>1, <2>2 DEF Wealth
<1> QED BY <1>1, <1>7, <1>8

\* So does a route.
LEMMA RouteMovesIt ==
    ASSUME NEW s \in SolStates, NEW route, Len(route) \in 0..2, \A i \in 1..Len(route) : HopOK(route[i]),
           AlongRoute(s, route) # None
    PROVE  /\ AlongRoute(s, route) \in SolStates
           /\ \A x \in TokenAccounts : RouteMoves(route, x) \in Int /\ Wealth(AlongRoute(s, route), x) >= Wealth(s, x) + RouteMoves(route, x)
<1>0. \A hop : HopOK(hop) => \A x \in TokenAccounts : HopMoves(hop, x) \in Int
  BY DEF HopOK, HopMoves
<1>1. CASE Len(route) = 0
  <2>1. AlongRoute(s, route) = s /\ \A x \in TokenAccounts : RouteMoves(route, x) = 0
    BY <1>1 DEF AlongRoute, RouteMoves
  <2>2. \A x \in TokenAccounts : Wealth(s, x) \in Nat
    BY StateParts
  <2> QED BY <2>1, <2>2
<1>2. CASE Len(route) = 1
  <2>1. HopOK(route[1])
    BY <1>2
  <2> QED BY <1>0, <1>2, <2>1, HopMovesIt DEF AlongRoute, RouteMoves
<1>3. CASE Len(route) = 2
  <2>1. HopOK(route[1]) /\ HopOK(route[2])
    BY <1>3
  <2>2. PICK h : h = Hop(s, route[1])
    OBVIOUS
  <2>3. PICK g : g = Hop(h, route[2])
    OBVIOUS
  <2>4. AlongRoute(s, route) = g
    BY <1>3, <2>2, <2>3 DEF AlongRoute
  <2>5. h # None /\ g # None
    BY <2>3, <2>4 DEF Hop
  <2>6. h \in SolStates /\ \A x \in TokenAccounts : Wealth(h, x) >= Wealth(s, x) + HopMoves(route[1], x)
    BY <2>1, <2>2, <2>5, HopMovesIt
  <2>7. g \in SolStates /\ \A x \in TokenAccounts : Wealth(g, x) >= Wealth(h, x) + HopMoves(route[2], x)
    BY <2>1, <2>3, <2>5, <2>6, HopMovesIt
  <2>8. ASSUME NEW x \in TokenAccounts
        PROVE  RouteMoves(route, x) \in Int /\ Wealth(g, x) >= Wealth(s, x) + RouteMoves(route, x)
    <3>1. HopMoves(route[1], x) \in Int /\ HopMoves(route[2], x) \in Int
      BY <1>0, <2>1
    <3>2. Wealth(s, x) \in Nat /\ Wealth(h, x) \in Nat /\ Wealth(g, x) \in Nat
      BY <2>6, <2>7, StateParts
    <3>3. RouteMoves(route, x) = HopMoves(route[1], x) + HopMoves(route[2], x)
      BY <1>3 DEF RouteMoves
    <3> QED BY <2>6, <2>7, <3>1, <3>2, <3>3
  <2> QED BY <2>4, <2>7, <2>8
<1> QED BY <1>1, <1>2, <1>3

\* A payment leaves with what was entered.
LEMMA SentMoves ==
    ASSUME NEW s \in SolStates, NEW send, send.amount \in Nat, send.amount # 0 => send.asset \in {"SOL", "a", "b"},
           Sent(s, send) # None
    PROVE  /\ Sent(s, send) \in SolStates
           /\ \A x \in TokenAccounts : Wealth(Sent(s, send), x) >= Wealth(s, x) - (IF x = send.asset THEN send.amount ELSE 0)
<1>0. s.lamports \in Nat /\ s.token \in [TokenAccounts -> Nat \cup {None}] /\ \A x \in TokenAccounts : Held(s, x) \in Nat /\ Wealth(s, x) \in Nat
  BY StateParts
<1>1. PICK p : p = Sent(s, send)
  OBVIOUS
<1>2. CASE send.amount = 0
  <2>1. p = s
    BY <1>1, <1>2 DEF Sent
  <2> QED BY <1>0, <1>1, <1>2, <2>1
<1>3. CASE send.amount # 0 /\ send.asset = "SOL"
  <2>1. ~(s.lamports < send.amount) /\ p = [s EXCEPT !.lamports = s.lamports - send.amount]
    BY <1>1, <1>3 DEF Sent
  <2>2. p \in SolStates /\ p.token = s.token /\ p.lamports = s.lamports - send.amount
    BY <1>0, <2>1 DEF SolStates
  <2>3. \A x \in TokenAccounts : Held(p, x) = Held(s, x)
    BY <2>2 DEF Held
  <2>4. \A x \in TokenAccounts : Wealth(p, x) = Wealth(s, x) - (IF x = send.asset THEN send.amount ELSE 0)
    BY <1>0, <1>3, <2>2, <2>3 DEF Wealth
  <2> QED BY <1>0, <1>1, <2>2, <2>4
<1>4. CASE send.amount # 0 /\ send.asset # "SOL"
  <2>0. send.asset \in TokenAccounts /\ send.asset # "to" /\ "to" \in TokenAccounts
    BY <1>4 DEF TokenAccounts
  <2>1. /\ ~(Held(s, send.asset) < send.amount) /\ s.token["to"] # None
        /\ p = [s EXCEPT !.token[send.asset] = @ - send.amount, !.token["to"] = @ + send.amount]
    BY <1>1, <1>4 DEF Sent
  <2>2. s.token[send.asset] \in Nat /\ s.token["to"] \in Nat /\ Held(s, send.asset) = s.token[send.asset]
        /\ Held(s, "to") = s.token["to"] /\ send.amount <= s.token[send.asset]
    BY <1>0, <1>4, <2>0, <2>1 DEF Held
  <2>3. PICK m \in Nat, n \in Nat : m = s.token[send.asset] - send.amount /\ n = s.token["to"] + send.amount
    BY <2>2
  <2>4. PICK t : t = [[s.token EXCEPT ![send.asset] = m] EXCEPT !["to"] = n] /\ p = [s EXCEPT !.token = t]
    <3>1. PICK t : t = [[s.token EXCEPT ![send.asset] = m] EXCEPT !["to"] = n]
      OBVIOUS
    <3>2. p = [s EXCEPT !.token = t]
      BY <1>0, <2>0, <2>1, <2>3, <3>1 DEF SolStates
    <3> QED BY <3>1, <3>2
  <2>5. /\ p \in SolStates /\ Held(p, send.asset) = m /\ Held(p, "to") = n /\ p.lamports = s.lamports
        /\ \A z \in TokenAccounts \ {send.asset, "to"} : Held(p, z) = Held(s, z)
    BY <2>0, <2>4, TwoTokens
  <2>6. ASSUME NEW x \in TokenAccounts
        PROVE  Held(p, x) >= Held(s, x) - (IF x = send.asset THEN send.amount ELSE 0) /\ Held(p, x) \in Int
    <3>1. CASE x = send.asset
      BY <2>2, <2>3, <2>5, <3>1
    <3>2. CASE x = "to"
      BY <2>0, <2>2, <2>3, <2>5, <3>2
    <3>3. CASE x \notin {send.asset, "to"}
      <4>1. Held(p, x) = Held(s, x) /\ Held(s, x) \in Nat
        BY <1>0, <2>5, <3>3
      <4> QED BY <3>3, <4>1
    <3> QED BY <3>1, <3>2, <3>3
  <2>7. \A x \in TokenAccounts : Wealth(p, x) >= Wealth(s, x) - (IF x = send.asset THEN send.amount ELSE 0)
    BY <1>0, <1>4, <2>5, <2>6 DEF Wealth
  <2> QED BY <1>1, <2>5, <2>7
<1> QED BY <1>2, <1>3, <1>4

\* Closing gives the rent back, and wrapped SOL as lamports.
LEMMA ClosedMoves ==
    ASSUME NEW s \in SolStates, NEW accounts \in SUBSET TokenAccounts, Closed(s, accounts) # None
    PROVE  /\ Closed(s, accounts) \in SolStates
           /\ \A x \in TokenAccounts :
                Wealth(Closed(s, accounts), x) = Wealth(s, x) + (IF x = "SOL" THEN Rent * Cardinality(accounts) ELSE 0)
<1>0. s.lamports \in Nat /\ s.token \in [TokenAccounts -> Nat \cup {None}] /\ "SOL" \in TokenAccounts
  BY StateParts DEF TokenAccounts
<1>1. PICK c : c = Closed(s, accounts)
  OBVIOUS
<1>2. PICK back \in Nat : back = Rent * Cardinality(accounts)
  <2>1. Rent \in Nat /\ Cardinality(accounts) \in Nat
    BY AccountsFinite, SolAssumption
  <2> QED BY <2>1
<1>3. \A x \in accounts : s.token[x] \in Nat /\ (x # "SOL" => s.token[x] = 0)
  <2>1. \A x \in accounts : s.token[x] # None /\ ~(x # "SOL" /\ s.token[x] > 0)
    BY DEF Closed
  <2> QED BY <1>0, <2>1
<1>4. PICK unwrapped \in Nat : unwrapped = IF "SOL" \in accounts THEN s.token["SOL"] ELSE 0
  BY <1>3
<1>5. PICK t : t = [x \in TokenAccounts |-> IF x \in accounts THEN None ELSE s.token[x]]
  OBVIOUS
<1>6. c = [s EXCEPT !.lamports = s.lamports + back + unwrapped, !.token = t]
  BY <1>1, <1>2, <1>4, <1>5 DEF Closed
<1>7. t \in [TokenAccounts -> Nat \cup {None}] /\ s.lamports + back + unwrapped \in Nat
  BY <1>0, <1>5
<1>8. c \in SolStates /\ c.token = t /\ c.lamports = s.lamports + back + unwrapped
  BY <1>6, <1>7, StateParts DEF SolStates
<1>9. ASSUME NEW x \in TokenAccounts
      PROVE  Wealth(c, x) = Wealth(s, x) + (IF x = "SOL" THEN back ELSE 0)
  <2>1. CASE x \in accounts
    <3>1. Held(c, x) = 0 /\ Held(s, x) = s.token[x] /\ s.token[x] \in Nat /\ (x # "SOL" => s.token[x] = 0)
      BY <1>3, <1>5, <1>8, <2>1, SolAssumption DEF Held
    <3> QED BY <1>0, <1>4, <1>8, <2>1, <3>1 DEF Wealth
  <2>2. CASE x \notin accounts
    <3>1. Held(c, x) = Held(s, x) /\ Held(s, x) \in Nat
      BY <1>5, <1>8, <2>2, StateParts DEF Held
    <3> QED BY <1>0, <1>4, <1>8, <2>2, <3>1 DEF Wealth
  <2> QED BY <2>1, <2>2
<1> QED BY <1>1, <1>2, <1>8, <1>9

\* What a message opens anew.
Anew(s, m) == {y \in m.creates : s.token[y] = None}

\* The trade of a message, up to its route.
LEMMA TradedMoves ==
    ASSUME NEW s \in SolStates, NEW m, MessageOK(m), Payable(s, m), Traded(s, m) # None
    PROVE  /\ Traded(s, m) \in SolStates
           /\ \A x \in TokenAccounts : RouteMoves(m.hops, x) \in Int /\
                Wealth(Traded(s, m), x) >=
                  Wealth(s, x) + RouteMoves(m.hops, x)
                    - (IF x = "SOL" THEN networkFee(m.limit, m.price) + Rent * Cardinality(Anew(s, m)) ELSE 0)
<1>1. PICK c : c = Charged(s, m)
  OBVIOUS
<1>2. PICK o : o = Opened(c, m.creates)
  OBVIOUS
<1>3. PICK w : w = IF o = None THEN None ELSE Wrapped(o, m.wrap)
  OBVIOUS
<1>4. PICK t : t = AlongRoute(w, m.hops)
  OBVIOUS
<1>5. Traded(s, m) = t
  BY <1>1, <1>2, <1>3, <1>4 DEF Traded
<1>6. w # None
  <2>1. \A hop : Hop(None, hop) = None
    BY DEF Hop
  <2>2. AlongRoute(None, m.hops) = None
    BY <2>1 DEF AlongRoute
  <2> QED BY <1>4, <1>5, <2>2
<1>7. o # None /\ Wrapped(o, m.wrap) # None /\ w = Wrapped(o, m.wrap)
  BY <1>3, <1>6
<1>8. PICK fee \in Nat : fee = networkFee(m.limit, m.price)
  BY NetworkFeeTypes DEF MessageOK
<1>9. c \in SolStates /\ c.token = s.token /\ \A x \in TokenAccounts : Wealth(c, x) = Wealth(s, x) - (IF x = "SOL" THEN fee ELSE 0)
  BY <1>1, <1>8, ChargedMoves
<1>10. PICK due \in Nat : due = Rent * Cardinality(Anew(s, m))
  <2>1. Anew(s, m) \in SUBSET TokenAccounts
    BY DEF Anew, MessageOK
  <2>2. Rent \in Nat /\ Cardinality(Anew(s, m)) \in Nat
    BY <2>1, AccountsFinite, SolAssumption
  <2> QED BY <2>2
<1>11. o \in SolStates /\ \A x \in TokenAccounts : Wealth(o, x) = Wealth(c, x) - (IF x = "SOL" THEN due ELSE 0)
  <2>1. m.creates \in SUBSET TokenAccounts
    BY DEF MessageOK
  <2>2. {y \in m.creates : c.token[y] = None} = Anew(s, m)
    BY <1>9 DEF Anew
  <2> QED BY <1>2, <1>7, <1>9, <1>10, <2>1, <2>2, OpenedMoves
<1>12. w \in SolStates /\ \A x \in TokenAccounts : Wealth(w, x) = Wealth(o, x)
  BY <1>7, <1>11, WrappedMoves DEF MessageOK
<1>13. t \in SolStates /\ \A x \in TokenAccounts : RouteMoves(m.hops, x) \in Int /\ Wealth(t, x) >= Wealth(w, x) + RouteMoves(m.hops, x)
  BY <1>4, <1>5, <1>12, RouteMovesIt DEF MessageOK
<1>14. ASSUME NEW x \in TokenAccounts
       PROVE  Wealth(t, x) >= Wealth(s, x) + RouteMoves(m.hops, x) - (IF x = "SOL" THEN fee + due ELSE 0)
  <2>1. Wealth(s, x) \in Nat /\ Wealth(t, x) \in Nat /\ Wealth(w, x) \in Nat
    BY <1>12, <1>13, StateParts
  <2>2. Wealth(w, x) = Wealth(s, x) - (IF x = "SOL" THEN fee + due ELSE 0)
    BY <1>8, <1>9, <1>10, <1>11, <1>12, <2>1
  <2> QED BY <1>8, <1>10, <1>13, <2>1, <2>2
<1> QED BY <1>5, <1>8, <1>10, <1>13, <1>14

\* All of a message.
LEMMA ExecutedMoves ==
    ASSUME NEW s \in SolStates, NEW m, MessageOK(m), Payable(s, m), Executed(s, m) # None
    PROVE  /\ Executed(s, m) \in SolStates
           /\ \A x \in TokenAccounts : RouteMoves(m.hops, x) \in Int /\
                Wealth(Executed(s, m), x) >=
                  Wealth(s, x) + RouteMoves(m.hops, x) - (IF x = m.send.asset THEN m.send.amount ELSE 0)
                    - (IF x = "SOL" THEN (networkFee(m.limit, m.price) + Rent * Cardinality(Anew(s, m))) - Rent * Cardinality(m.closes) ELSE 0)
<1>1. PICK t : t = Traded(s, m)
  OBVIOUS
<1>2. PICK p : p = IF t = None THEN None ELSE Sent(t, m.send)
  OBVIOUS
<1>3. p # None /\ t # None /\ p = Sent(t, m.send) /\ Executed(s, m) = Closed(p, m.closes)
  BY <1>1, <1>2 DEF Executed
<1>4. PICK out \in Int, back \in Int : out = networkFee(m.limit, m.price) + Rent * Cardinality(Anew(s, m)) /\ back = Rent * Cardinality(m.closes)
  <2>1. Anew(s, m) \in SUBSET TokenAccounts /\ m.closes \in SUBSET TokenAccounts
    BY DEF Anew, MessageOK
  <2>2. Rent \in Nat /\ Cardinality(Anew(s, m)) \in Nat /\ Cardinality(m.closes) \in Nat /\ networkFee(m.limit, m.price) \in Nat
    BY <2>1, AccountsFinite, SolAssumption, NetworkFeeTypes DEF MessageOK
  <2> QED BY <2>2
<1>5. t \in SolStates /\ \A x \in TokenAccounts : RouteMoves(m.hops, x) \in Int /\
        Wealth(t, x) >= Wealth(s, x) + RouteMoves(m.hops, x) - (IF x = "SOL" THEN out ELSE 0)
  BY <1>1, <1>3, <1>4, TradedMoves
<1>6. p \in SolStates /\ \A x \in TokenAccounts : Wealth(p, x) >= Wealth(t, x) - (IF x = m.send.asset THEN m.send.amount ELSE 0)
  BY <1>3, <1>5, SentMoves DEF MessageOK
<1>7. PICK e : e = Closed(p, m.closes)
  OBVIOUS
<1>8. e \in SolStates /\ \A x \in TokenAccounts : Wealth(e, x) = Wealth(p, x) + (IF x = "SOL" THEN back ELSE 0)
  <2>1. m.closes \in SUBSET TokenAccounts
    BY DEF MessageOK
  <2> QED BY <1>3, <1>4, <1>6, <1>7, <2>1, ClosedMoves
<1>9. ASSUME NEW x \in TokenAccounts
      PROVE  Wealth(e, x) >= Wealth(s, x) + RouteMoves(m.hops, x) - (IF x = m.send.asset THEN m.send.amount ELSE 0)
                               - (IF x = "SOL" THEN out - back ELSE 0)
  <2>1. Wealth(s, x) \in Nat /\ Wealth(t, x) \in Nat /\ Wealth(p, x) \in Nat /\ m.send.amount \in Nat
    BY <1>5, <1>6, StateParts DEF MessageOK
  <2> QED BY <1>4, <1>5, <1>6, <1>8, <2>1
<1>10. out - back = (networkFee(m.limit, m.price) + Rent * Cardinality(Anew(s, m))) - Rent * Cardinality(m.closes)
  BY <1>4
<1> QED BY <1>3, <1>5, <1>7, <1>8, <1>9, <1>10

\* The larger of two numbers.
LEMMA MaxOfTwo ==
    ASSUME NEW x \in Nat, NEW y \in Nat
    PROVE  Max({x, y}) \in Nat /\ Max({x, y}) >= x /\ Max({x, y}) >= y
<1>1. \E m \in {x, y} : \A n \in {x, y} : m >= n
  <2>1. CASE x <= y
    BY <2>1
  <2>2. CASE y <= x
    BY <2>2
  <2> QED BY <2>1, <2>2
<1> QED BY <1>1 DEF Max

\* Limits, prices and minima are natural numbers.
LEMMA LimitTypes ==
    ASSUME NEW n \in Nat
    PROVE  limitFor(n) \in Nat /\ offeredPrice(n) \in Nat /\ withSlippage(n, Slippage) \in Nat
<1>1. n + n \div 5 + Headroom \in Nat /\ n + n \div 4 \in Nat /\ {MaxLimit, MinPrice, MaxPrice} \subseteq Nat
  BY SolAssumption
<1>2. limitFor(n) \in Nat
  BY <1>1, MinOfTwo DEF limitFor
<1>3. Max({n + n \div 4, MinPrice}) \in Nat
  BY <1>1, MaxOfTwo
<1>4. offeredPrice(n) \in Nat
  BY <1>1, <1>3, MinOfTwo DEF offeredPrice
<1>5. withSlippage(n, Slippage) \in Nat
  <2>1. Whole \in Nat /\ Whole > 0 /\ Whole - Slippage \in Nat
    BY SolAssumption
  <2>2. PICK k \in Nat : k = n * (Whole - Slippage)
    BY <2>1
  <2>3. k \div Whole \in Nat
    BY <2>1
  <2> QED BY <2>2, <2>3 DEF withSlippage
<1> QED BY <1>2, <1>4, <1>5

SolPlans ==
    [balance : Nat, amount : Nat, creates : SUBSET TokenAccounts, before : [TokenAccounts -> Nat], base : Nat, price : Nat,
     needed : Nat, limit : Nat, mid : Nat, out : Nat, minOut : Nat]

\* A plan under way is about the amount of its request.
PlanOK(r, plan) ==
    /\ plan \in SolPlans /\ plan.creates \subseteq Needed(r)
    /\ r.kind \in {"send", "swap"} => plan.amount = r.amount

\* A quote shows the fee of its caps and the rent; what comes back as the
\* approval is about the amount that was shown.
QuoteOK(r, q) ==
    /\ {q.amount, q.limit, q.price, q.minOut, q.rent} \subseteq Nat
    /\ q.fee = networkFee(q.limit, q.price) + q.rent
    /\ r.kind \in {"send", "swap"} => q.amount = r.amount

\* What is about to be signed keeps to the approval.
CheckedOK(r, plan, q) == plan.limit = q.limit /\ plan.price = q.price /\ plan.minOut = q.minOut /\ rent(r, plan) <= q.rent

\* What is signed moves what was approved, and opens no more.
TxOK(r, m, q) ==
    /\ MessageOK(m) /\ m.limit = q.limit /\ m.price = q.price /\ m.closes = closes(r) /\ m.creates \subseteq Needed(r)
    /\ Rent * Cardinality(m.creates \ Temporary(r)) <= q.rent
    /\ \A x \in TokenAccounts :
         RouteMoves(m.hops, x) - (IF x = m.send.asset THEN m.send.amount ELSE 0) =
           (IF IsSwap(r) /\ x = Out(r) THEN q.minOut ELSE 0) - (IF r.kind # "close" /\ x = In(r) THEN q.amount ELSE 0)

SolInv ==
    /\ solChain \in SolStates /\ solSending \in BOOLEAN
    /\ solPhase \in {"idle", "asked", "loaded", "measured", "checked", "shown", "signed", "refused", "done"}
    /\ solPhase # "idle" => Shape(solReq)
    /\ solPhase \in {"loaded", "measured", "checked"} => PlanOK(solReq, solPlan)
    /\ solPhase = "shown" \/ solSending => QuoteOK(solReq, solQuote)
    /\ solSending => solPhase \notin {"idle", "shown"} /\ solReq.kind # "max"
    /\ solPhase = "checked" /\ solSending => CheckedOK(solReq, solPlan, solQuote)
    /\ solPhase = "signed" => solSending /\ TxOK(solReq, solTx, solQuote)
    /\ solLanded # None => solPhase = "done"
    /\ SolanaKeepsToApproval

\* The shapes of paths.
LEMMA PathFacts ==
    ASSUME NEW r, Shape(r)
    PROVE  /\ r.kind \in {"send", "max", "close", "swap"} /\ r.amount \in Nat
           /\ r.kind \in {"send", "max"} =>
                /\ In(r) \in {"SOL", "a", "b"} /\ Mid(r) = None /\ Temporary(r) = {} /\ closes(r) = {} /\ ~IsSwap(r)
           /\ r.kind = "close" =>
                Mid(r) = None /\ Temporary(r) = {} /\ closes(r) = Range(r.path) /\ closes(r) \subseteq TokenAccounts /\ Needed(r) = {} /\ ~IsSwap(r)
           /\ IsSwap(r) =>
                /\ In(r) \in {"SOL", "a", "b"} /\ Out(r) \in {"SOL", "a", "b"} /\ In(r) # Out(r)
                /\ closes(r) = Temporary(r) /\ Temporary(r) \in {{}, {"SOL"}}
                /\ r.path[1] = In(r)
                /\ \/ Mid(r) = None /\ Len(r.path) = 2 /\ r.path[2] = Out(r)
                   \/ /\ Mid(r) \in {"SOL", "a", "b"} \ {In(r), Out(r)} /\ Len(r.path) = 3
                      /\ r.path[2] = Mid(r) /\ r.path[3] = Out(r)
           /\ Needed(r) \subseteq TokenAccounts
<1>0. r.kind \in {"send", "max", "close", "swap"} /\ r.amount \in Nat
  BY DEF Shape
<1>1. CASE r.kind \in {"send", "max"}
  <2>1. r.path \in {<<"SOL">>, <<"a", "to">>, <<"b", "to">>}
    BY <1>1 DEF Shape
  <2>2. Head(r.path) \in {"SOL", "a", "b"}
    BY <2>1
  <2>3. Needed(r) \subseteq TokenAccounts
    BY <1>1 DEF Needed, IsSwap, TokenAccounts
  <2> QED BY <1>0, <1>1, <2>2, <2>3 DEF In, Mid, Temporary, closes, IsSwap, UsesSOL
<1>2. CASE r.kind = "close"
  <2>1. r.path \in Seq({"SOL", "a", "b"})
    BY <1>2 DEF Shape
  <2>2. Range(r.path) \subseteq TokenAccounts
    BY <2>1 DEF Range, TokenAccounts
  <2>3. Needed(r) = {}
    BY <1>2 DEF Needed, IsSwap
  <2> QED BY <1>0, <1>2, <2>2, <2>3 DEF Mid, Temporary, closes, IsSwap, UsesSOL
<1>3. CASE r.kind = "swap"
  <2>1. PICK x, y, z \in {"SOL", "a", "b"} : x # y /\ (r.path = <<x, y>> \/ (z \notin {x, y} /\ r.path = <<x, z, y>>))
    BY <1>3 DEF Shape
  <2>2. Head(r.path) = x /\ r.path[1] = x /\ Last(r.path) = y /\ Len(r.path) \in {2, 3}
    <3>1. CASE r.path = <<x, y>>
      BY <3>1 DEF Last
    <3>2. CASE r.path = <<x, z, y>>
      <4>1. Len(r.path) = 3 /\ r.path[3] = y /\ r.path[1] = x /\ Head(r.path) = x
        BY <3>2
      <4> QED BY <4>1 DEF Last
    <3> QED BY <2>1, <3>1, <3>2
  <2>3. /\ Len(r.path) = 2 => r.path[2] = y
        /\ Len(r.path) = 3 => z \notin {x, y} /\ r.path[2] = z /\ r.path[3] = y
    BY <2>1
  <2>4. Range(Tail(r.path)) \subseteq TokenAccounts
    <3>1. CASE r.path = <<x, y>>
      <4>1. PICK t : t = Tail(r.path)
        OBVIOUS
      <4>2. t = <<y>>
        BY <3>1, <4>1
      <4>3. DOMAIN t = {1} /\ t[1] = y
        BY <4>2
      <4> QED BY <4>1, <4>3 DEF Range, TokenAccounts
    <3>2. CASE r.path = <<x, z, y>>
      <4>1. PICK t : t = Tail(r.path)
        OBVIOUS
      <4>2. t = <<z, y>>
        BY <3>2, <4>1
      <4>3. DOMAIN t = {1, 2} /\ t[1] = z /\ t[2] = y
        BY <4>2
      <4> QED BY <4>1, <4>3 DEF Range, TokenAccounts
    <3> QED BY <2>1, <3>1, <3>2
  <2>5. Needed(r) \subseteq TokenAccounts
    BY <1>3, <2>4 DEF Needed, IsSwap, TokenAccounts
  <2>6. IsSwap(r) /\ In(r) = x /\ Out(r) = y /\ (Len(r.path) = 2 => Mid(r) = None) /\ (Len(r.path) = 3 => Mid(r) = z)
    BY <1>3, <2>2, <2>3 DEF IsSwap, In, Out, Mid
  <2>7. closes(r) = Temporary(r) /\ Temporary(r) \in {{}, {"SOL"}}
    BY <1>3 DEF closes, Temporary
  <2> QED BY <1>0, <1>3, <2>1, <2>2, <2>3, <2>5, <2>6, <2>7
<1> QED BY <1>0, <1>1, <1>2, <1>3

\* A route that is refused is replaced by the direct one, which is a request
\* like any other.
LEMMA DirectShape ==
    ASSUME NEW r, Shape(r), Mid(r) # None
    PROVE  Shape([r EXCEPT !.path = <<In(r), Out(r)>>])
<1>1. IsSwap(r) /\ In(r) \in {"SOL", "a", "b"} /\ Out(r) \in {"SOL", "a", "b"} /\ In(r) # Out(r)
  BY PathFacts DEF IsSwap
<1>2. PICK d : d = [r EXCEPT !.path = <<In(r), Out(r)>>]
  OBVIOUS
<1>3. r = [kind |-> r.kind, path |-> r.path, amount |-> r.amount] /\ r.amount \in Nat
  BY DEF Shape
<1>4. d = [kind |-> r.kind, path |-> <<In(r), Out(r)>>, amount |-> r.amount]
  BY <1>2, <1>3
<1>5. d.kind = "swap" /\ d.path = <<In(r), Out(r)>> /\ d.amount \in Nat
  BY <1>1, <1>3, <1>4 DEF IsSwap
<1> QED BY <1>1, <1>2, <1>4, <1>5 DEF Shape

\* Every message the wallet builds is well formed.
LEMMA MessageFine ==
    ASSUME NEW r, Shape(r), NEW plan, PlanOK(r, plan), NEW stage \in {"mid", "measure", "final"}
    PROVE  MessageOK(instructions(r, plan, stage))
<1>1. PICK m : m = instructions(r, plan, stage)
  OBVIOUS
<1>2. plan \in SolPlans /\ plan.creates \subseteq TokenAccounts /\ MaxLimit \in Nat
  BY SolAssumption DEF PlanOK, SolPlans
<1>3. plan.amount \in Nat /\ plan.limit \in Nat /\ plan.price \in Nat /\ plan.mid \in Nat /\ plan.minOut \in Nat
  BY <1>2 DEF SolPlans
<1>4. m.limit \in Nat /\ m.price \in Nat /\ m.creates \subseteq TokenAccounts /\ m.wrap \in Nat
  BY <1>1, <1>2, <1>3 DEF instructions
<1>5. Len(m.hops) \in 0..2 /\ \A i \in 1..Len(m.hops) : HopOK(m.hops[i])
  <2>1. PICK h : h = hops(r, plan, stage)
    OBVIOUS
  <2>2. m.hops = h
    BY <1>1, <2>1 DEF instructions
  <2>3. PICK w \in Nat : w = withSlippage(plan.mid, Slippage)
    BY <1>3, LimitTypes
  <2>4. \A i : PoolOf(r, i) \in Pools
    BY DEF PoolOf, Pools
  <2>5. CASE ~IsSwap(r)
    <3>1. h = <<>>
      BY <2>1, <2>5 DEF hops, Mid
    <3>2. Len(h) = 0
      BY <3>1
    <3> QED BY <2>2, <3>2
  <2>6. CASE IsSwap(r)
    <3>1. /\ In(r) \in {"SOL", "a", "b"} /\ Out(r) \in {"SOL", "a", "b"} /\ In(r) # Out(r) /\ r.path[1] = In(r)
          /\ \/ Mid(r) = None /\ r.path[2] = Out(r)
             \/ Mid(r) \in {"SOL", "a", "b"} \ {In(r), Out(r)} /\ r.path[2] = Mid(r) /\ r.path[3] = Out(r)
      BY <2>6, PathFacts
    <3>2. PICK min \in Int : min = IF stage = "final" THEN plan.minOut ELSE 1
      BY <1>3
    <3>3. CASE Mid(r) = None
      <4>1. h = <<[pool |-> PoolOf(r, 1), in |-> r.path[1], out |-> r.path[2], amount |-> plan.amount, min |-> min]>>
        BY <2>1, <2>6, <3>2, <3>3 DEF hops
      <4>2. Len(h) = 1 /\ h[1] = [pool |-> PoolOf(r, 1), in |-> r.path[1], out |-> r.path[2], amount |-> plan.amount, min |-> min]
        BY <4>1
      <4>3. r.path[2] = Out(r)
        BY <3>1, <3>3, SolAssumption DEF TokenAccounts
      <4>4. HopOK(h[1])
        BY <1>3, <2>4, <3>1, <3>2, <4>2, <4>3 DEF HopOK, TokenAccounts
      <4> QED BY <2>2, <4>2, <4>4
    <3>4. CASE Mid(r) # None
      <4>1. r.path[2] = Mid(r) /\ r.path[3] = Out(r) /\ Mid(r) \in {"SOL", "a", "b"} \ {In(r), Out(r)}
        BY <3>1, <3>4
      <4>2. CASE stage = "mid"
        <5>1. h = <<[pool |-> PoolOf(r, 1), in |-> r.path[1], out |-> r.path[2], amount |-> plan.amount, min |-> 1]>>
          BY <2>1, <2>6, <3>4, <4>2 DEF hops
        <5>2. Len(h) = 1 /\ h[1] = [pool |-> PoolOf(r, 1), in |-> r.path[1], out |-> r.path[2], amount |-> plan.amount, min |-> 1]
          BY <5>1
        <5>3. HopOK(h[1])
          BY <1>3, <2>4, <3>1, <4>1, <5>2 DEF HopOK, TokenAccounts
        <5> QED BY <2>2, <5>2, <5>3
      <4>3. CASE stage # "mid"
        <5>1. h = <<[pool |-> PoolOf(r, 1), in |-> r.path[1], out |-> r.path[2], amount |-> plan.amount, min |-> w],
                    [pool |-> PoolOf(r, 2), in |-> r.path[2], out |-> r.path[3], amount |-> w, min |-> min]>>
          BY <2>1, <2>3, <2>6, <3>2, <3>4, <4>3 DEF hops, SecondSells
        <5>2. /\ Len(h) = 2 /\ h[1] = [pool |-> PoolOf(r, 1), in |-> r.path[1], out |-> r.path[2], amount |-> plan.amount, min |-> w]
              /\ h[2] = [pool |-> PoolOf(r, 2), in |-> r.path[2], out |-> r.path[3], amount |-> w, min |-> min]
          BY <5>1
        <5>3. HopOK(h[1]) /\ HopOK(h[2])
          BY <1>3, <2>3, <2>4, <3>1, <3>2, <4>1, <5>2 DEF HopOK, TokenAccounts
        <5> QED BY <2>2, <5>2, <5>3
      <4> QED BY <4>2, <4>3
    <3> QED BY <3>3, <3>4
  <2> QED BY <2>5, <2>6
<1>6. m.send.amount \in Nat /\ (m.send.amount # 0 => m.send.asset \in {"SOL", "a", "b"})
  <2>1. CASE r.kind \in {"send", "max"}
    <3>1. m.send = [asset |-> In(r), amount |-> plan.amount] /\ In(r) \in {"SOL", "a", "b"}
      BY <1>1, <2>1, PathFacts DEF instructions
    <3> QED BY <1>3, <3>1
  <2>2. CASE r.kind \notin {"send", "max"}
    <3>1. m.send = [asset |-> "none", amount |-> 0]
      BY <1>1, <2>2 DEF instructions
    <3> QED BY <3>1
  <2> QED BY <2>1, <2>2
<1>7. m.closes \subseteq TokenAccounts
  <2>1. closes(r) \subseteq TokenAccounts
    BY PathFacts DEF TokenAccounts, IsSwap
  <2> QED BY <1>1, <2>1 DEF instructions
<1> QED BY <1>1, <1>4, <1>5, <1>6, <1>7 DEF MessageOK

\* What is signed for an approval keeps to it: the amount, the caps and the
\* minimum are those of the quote, and an intermediate token comes and goes.
LEMMA SignedFine ==
    ASSUME NEW r, Shape(r), NEW plan, PlanOK(r, plan), NEW q, QuoteOK(r, q), CheckedOK(r, plan, q), r.kind # "max"
    PROVE  TxOK(r, instructions(r, plan, "final"), q)
<1>1. PICK m : m = instructions(r, plan, "final")
  OBVIOUS
<1>2. MessageOK(m)
  BY <1>1, MessageFine
<1>3. m.limit = q.limit /\ m.price = q.price /\ m.closes = closes(r) /\ m.creates = plan.creates /\ m.creates \subseteq Needed(r)
  BY <1>1 DEF instructions, CheckedOK, PlanOK
<1>4. Rent * Cardinality(m.creates \ Temporary(r)) <= q.rent
  <2>1. IF IsSwap(r) THEN TRUE ELSE Temporary(r) = {}
    BY DEF Temporary, UsesSOL
  <2>2. m.creates \ Temporary(r) = plan.creates \ (IF IsSwap(r) THEN Temporary(r) ELSE {})
    BY <1>3, <2>1
  <2> QED BY <2>2 DEF CheckedOK, rent, persistentCreates
<1>5. plan.amount \in Nat /\ plan.mid \in Nat /\ plan.minOut \in Nat /\ plan.minOut = q.minOut /\ q.amount \in Nat
  BY DEF PlanOK, SolPlans, CheckedOK, QuoteOK
<1>6. ASSUME NEW x \in TokenAccounts
      PROVE  RouteMoves(m.hops, x) - (IF x = m.send.asset THEN m.send.amount ELSE 0) =
               (IF IsSwap(r) /\ x = Out(r) THEN q.minOut ELSE 0) - (IF r.kind # "close" /\ x = In(r) THEN q.amount ELSE 0)
  <2>1. PICK h : h = hops(r, plan, "final")
    OBVIOUS
  <2>2. m.hops = h
    BY <1>1, <2>1 DEF instructions
  <2>3. CASE r.kind = "close"
    <3>1. ~IsSwap(r) /\ h = <<>> /\ m.send = [asset |-> "none", amount |-> 0]
      BY <1>1, <2>1, <2>3 DEF IsSwap, hops, instructions
    <3>2. Len(h) = 0
      BY <3>1
    <3>3. RouteMoves(m.hops, x) = 0
      BY <2>2, <3>2 DEF RouteMoves
    <3> QED BY <2>3, <3>1, <3>3
  <2>4. CASE r.kind = "send"
    <3>1. ~IsSwap(r) /\ h = <<>> /\ m.send = [asset |-> In(r), amount |-> plan.amount] /\ plan.amount = q.amount
      BY <1>1, <2>1, <2>4 DEF IsSwap, hops, instructions, PlanOK, QuoteOK
    <3>2. Len(h) = 0
      BY <3>1
    <3>3. RouteMoves(m.hops, x) = 0
      BY <2>2, <3>2 DEF RouteMoves
    <3> QED BY <1>5, <2>4, <3>1, <3>3
  <2>5. CASE r.kind = "swap"
    <3>1. IsSwap(r) /\ m.send = [asset |-> "none", amount |-> 0] /\ plan.amount = q.amount
      BY <1>1, <2>5 DEF IsSwap, instructions, PlanOK, QuoteOK
    <3>2. /\ In(r) # Out(r) /\ r.path[1] = In(r)
          /\ \/ Mid(r) = None /\ r.path[2] = Out(r)
             \/ Mid(r) \in {"SOL", "a", "b"} \ {In(r), Out(r)} /\ r.path[2] = Mid(r) /\ r.path[3] = Out(r)
      BY <3>1, PathFacts
    <3>3. RouteMoves(h, x) = (IF x = Out(r) THEN q.minOut ELSE 0) - (IF x = In(r) THEN q.amount ELSE 0)
      <4>1. CASE Mid(r) = None
        <5>1. h = <<[pool |-> PoolOf(r, 1), in |-> r.path[1], out |-> r.path[2], amount |-> plan.amount, min |-> plan.minOut]>>
          BY <2>1, <3>1, <4>1 DEF hops
        <5>2. Len(h) = 1 /\ h[1] = [pool |-> PoolOf(r, 1), in |-> r.path[1], out |-> r.path[2], amount |-> plan.amount, min |-> plan.minOut]
          BY <5>1
        <5>3. r.path[2] = Out(r)
          BY <3>2, <4>1, SolAssumption DEF TokenAccounts
        <5> QED BY <1>5, <3>1, <3>2, <5>2, <5>3 DEF RouteMoves, HopMoves
      <4>2. CASE Mid(r) # None
        <5>1. PICK w \in Nat : w = withSlippage(plan.mid, Slippage)
          BY <1>5, LimitTypes
        <5>2. h = <<[pool |-> PoolOf(r, 1), in |-> r.path[1], out |-> r.path[2], amount |-> plan.amount, min |-> w],
                    [pool |-> PoolOf(r, 2), in |-> r.path[2], out |-> r.path[3], amount |-> w, min |-> plan.minOut]>>
          BY <2>1, <3>1, <4>2, <5>1 DEF hops, SecondSells
        <5>3. /\ Len(h) = 2 /\ h[1] = [pool |-> PoolOf(r, 1), in |-> r.path[1], out |-> r.path[2], amount |-> plan.amount, min |-> w]
              /\ h[2] = [pool |-> PoolOf(r, 2), in |-> r.path[2], out |-> r.path[3], amount |-> w, min |-> plan.minOut]
          BY <5>2
        <5>4. HopMoves(h[1], x) = (IF x = Mid(r) THEN w ELSE 0) - (IF x = In(r) THEN q.amount ELSE 0)
          BY <3>1, <3>2, <4>2, <5>3 DEF HopMoves
        <5>5. HopMoves(h[2], x) = (IF x = Out(r) THEN q.minOut ELSE 0) - (IF x = Mid(r) THEN w ELSE 0)
          BY <1>5, <3>2, <4>2, <5>3 DEF HopMoves
        <5>6. RouteMoves(h, x) = HopMoves(h[1], x) + HopMoves(h[2], x)
          BY <5>3 DEF RouteMoves
        <5> QED BY <1>5, <5>1, <5>4, <5>5, <5>6
      <4> QED BY <4>1, <4>2
    <3> QED BY <1>5, <2>2, <2>5, <3>1, <3>3
  <2> QED BY <2>3, <2>4, <2>5, PathFacts
<1> QED BY <1>1, <1>2, <1>3, <1>4, <1>6 DEF TxOK

\* An account is named once in a path of accounts to close.
LEMMA ClosesItsPath ==
    ASSUME NEW r, Shape(r), r.kind = "close"
    PROVE  Cardinality(Range(r.path)) = Len(r.path) /\ Len(r.path) \in Nat
<1>1. PICK p \in Seq({"SOL", "a", "b"}) : p = r.path /\ \A i, j \in DOMAIN p : p[i] = p[j] => i = j
  BY DEF Shape
<1>2. Len(p) \in Nat /\ DOMAIN p = 1..Len(p) /\ p \in [1..Len(p) -> Range(p)]
  BY <1>1 DEF Range
<1>3. \A y \in Range(p) : \E i \in 1..Len(p) : p[i] = y
  BY <1>2 DEF Range
<1>4. p \in Injection(1..Len(p), Range(p)) /\ p \in Surjection(1..Len(p), Range(p))
  <2>1. \A i, j \in 1..Len(p) : p[i] = p[j] => i = j
    BY <1>1, <1>2
  <2> QED BY <1>2, <1>3, <2>1, Fun_IsInj, Fun_IsSurj
<1>5. IsFiniteSet(1..Len(p)) /\ Cardinality(1..Len(p)) = Len(p)
  BY <1>2, FS_Interval
<1>6. Cardinality(Range(p)) = Cardinality(1..Len(p))
  BY <1>4, <1>5, FS_Surjection
<1> QED BY <1>1, <1>2, <1>5, <1>6

\* The rent a signed message takes, less what its closing returns, is within
\* the rent that was shown.
LEMMA RentWithinQuote ==
    ASSUME NEW s \in SolStates, NEW r, Shape(r), NEW q, QuoteOK(r, q), NEW m, TxOK(r, m, q)
    PROVE  Rent * Cardinality(Anew(s, m)) - Rent * Cardinality(m.closes)
             <= q.rent - (IF r.kind = "close" THEN Rent * Len(r.path) ELSE 0)
<1>1. Rent \in Nat /\ q.rent \in Nat
  BY SolAssumption DEF QuoteOK
<1>2. CASE r.kind = "close"
  <2>1. Anew(s, m) = {}
    BY <1>2, PathFacts DEF TxOK, Anew
  <2>2. Cardinality(Anew(s, m)) = 0
    BY <2>1, FS_EmptySet
  <2>3. m.closes = Range(r.path)
    BY <1>2, PathFacts DEF TxOK
  <2>4. Cardinality(m.closes) = Len(r.path) /\ Len(r.path) \in Nat
    BY <1>2, <2>3, ClosesItsPath
  <2>5. PICK k \in Nat : k = Rent * Len(r.path)
    BY <1>1, <2>4
  <2>6. Rent * Cardinality(Anew(s, m)) = 0 /\ Rent * Cardinality(m.closes) = k
    BY <1>1, <2>2, <2>4, <2>5
  <2> QED BY <1>1, <1>2, <2>5, <2>6
<1>3. CASE r.kind # "close"
  <2>1. m.closes = Temporary(r) /\ Temporary(r) \in SUBSET TokenAccounts
    <3>1. m.closes = closes(r)
      BY DEF TxOK
    <3>2. closes(r) = Temporary(r) /\ Temporary(r) \in {{}, {"SOL"}}
      BY <1>3, PathFacts DEF IsSwap
    <3> QED BY <3>1, <3>2 DEF TokenAccounts
  <2>2. PICK kept : kept = m.creates \ Temporary(r)
    OBVIOUS
  <2>3. kept \in SUBSET TokenAccounts /\ Anew(s, m) \in SUBSET (kept \cup Temporary(r))
    BY <2>2 DEF TxOK, MessageOK, Anew
  <2>4. /\ IsFiniteSet(kept) /\ IsFiniteSet(Temporary(r)) /\ Cardinality(kept) \in Nat /\ Cardinality(Temporary(r)) \in Nat
        /\ Cardinality(kept \cap Temporary(r)) \in Nat
    <3>1. kept \cap Temporary(r) \in SUBSET TokenAccounts
      BY <2>3
    <3> QED BY <2>1, <2>3, <3>1, AccountsFinite
  <2>5. /\ IsFiniteSet(kept \cup Temporary(r))
        /\ Cardinality(kept \cup Temporary(r)) = Cardinality(kept) + Cardinality(Temporary(r)) - Cardinality(kept \cap Temporary(r))
    BY <2>4, FS_Union
  <2>6. Cardinality(Anew(s, m)) <= Cardinality(kept \cup Temporary(r))
    BY <2>3, <2>5, FS_Subset
  <2>7. Cardinality(Anew(s, m)) \in Nat
    <3>1. Anew(s, m) \in SUBSET TokenAccounts
      BY DEF TxOK, MessageOK, Anew
    <3> QED BY <3>1, AccountsFinite
  <2>8. PICK a, k, t \in Nat : a = Cardinality(Anew(s, m)) /\ k = Cardinality(kept) /\ t = Cardinality(Temporary(r))
    BY <2>4, <2>7
  <2>9. a <= k + t
    BY <2>4, <2>5, <2>6, <2>8
  <2>10. Rent * a <= Rent * k + Rent * t /\ Rent * a \in Nat /\ Rent * k \in Nat /\ Rent * t \in Nat
    BY <1>1, <2>8, <2>9
  <2>11. Rent * k <= q.rent
    BY <2>2, <2>8 DEF TxOK
  <2>12. Rent * a - Rent * t <= q.rent
    BY <1>1, <2>10, <2>11
  <2> QED BY <1>1, <1>3, <2>1, <2>8, <2>12
<1> QED BY <1>2, <1>3

\* What lands keeps to the approval, whatever became of the chain.
LEMMA LandsWithinApproval ==
    ASSUME NEW s \in SolStates, NEW r, Shape(r), NEW q, QuoteOK(r, q), NEW m, TxOK(r, m, q), Payable(s, m),
           NEW after, after = IF Succeeds(s, m) THEN Executed(s, m) ELSE Charged(s, m)
    PROVE  /\ after \in SolStates
           /\ \A x \in TokenAccounts :
                Wealth(after, x) - Wealth(s, x) >=
                  (IF Succeeds(s, m) /\ IsSwap(r) /\ x = Out(r) THEN q.minOut ELSE 0)
                  + (IF Succeeds(s, m) /\ r.kind = "close" /\ x = "SOL" THEN Rent * Len(r.path) ELSE 0)
                  - (IF Succeeds(s, m) /\ r.kind # "close" /\ x = In(r) THEN q.amount ELSE 0)
                  - (IF x = "SOL" THEN q.fee ELSE 0)
<1>1. MessageOK(m)
  BY DEF TxOK
<1>2. PICK n \in Nat : n = networkFee(m.limit, m.price)
  BY <1>1, NetworkFeeTypes DEF MessageOK
<1>3. q.amount \in Nat /\ q.minOut \in Nat /\ q.rent \in Nat /\ q.fee = n + q.rent
  BY <1>2 DEF QuoteOK, TxOK
<1>4. CASE ~Succeeds(s, m)
  <2>1. after = Charged(s, m)
    BY <1>4
  <2>2. after \in SolStates /\ \A x \in TokenAccounts : Wealth(after, x) = Wealth(s, x) - (IF x = "SOL" THEN n ELSE 0)
    BY <1>1, <1>2, <2>1, ChargedMoves
  <2>3. \A x \in TokenAccounts : Wealth(s, x) \in Nat
    BY StateParts
  <2>4. \A x \in TokenAccounts : Wealth(after, x) - Wealth(s, x) >= 0 + 0 - 0 - (IF x = "SOL" THEN q.fee ELSE 0)
    BY <1>2, <1>3, <2>2, <2>3
  <2> QED BY <1>4, <2>2, <2>4
<1>5. CASE Succeeds(s, m)
  <2>1. after = Executed(s, m) /\ Executed(s, m) # None
    BY <1>5 DEF Succeeds
  <2>2. PICK due \in Int, back \in Int : due = Rent * Cardinality(Anew(s, m)) /\ back = Rent * Cardinality(m.closes)
    <3>1. Anew(s, m) \in SUBSET TokenAccounts /\ m.closes \in SUBSET TokenAccounts
      BY <1>1 DEF Anew, MessageOK
    <3>2. Rent \in Nat /\ Cardinality(Anew(s, m)) \in Nat /\ Cardinality(m.closes) \in Nat
      BY <3>1, AccountsFinite, SolAssumption
    <3> QED BY <3>2
  <2>3. PICK returned \in Int : returned = IF r.kind = "close" THEN Rent * Len(r.path) ELSE 0
    <3>1. r.kind = "close" => Len(r.path) \in Nat
      BY ClosesItsPath
    <3>2. Rent \in Nat
      BY SolAssumption
    <3> QED BY <3>1, <3>2
  <2>4. due - back <= q.rent - returned
    BY <2>2, <2>3, RentWithinQuote
  <2>5. /\ after \in SolStates
        /\ \A x \in TokenAccounts : RouteMoves(m.hops, x) \in Int /\
             Wealth(after, x) >= Wealth(s, x) + RouteMoves(m.hops, x) - (IF x = m.send.asset THEN m.send.amount ELSE 0)
                                   - (IF x = "SOL" THEN (n + due) - back ELSE 0)
    BY <1>1, <1>2, <2>1, <2>2, ExecutedMoves
  <2>6. ASSUME NEW x \in TokenAccounts
        PROVE  Wealth(after, x) - Wealth(s, x) >=
                 (IF IsSwap(r) /\ x = Out(r) THEN q.minOut ELSE 0) + (IF x = "SOL" THEN returned ELSE 0)
                 - (IF r.kind # "close" /\ x = In(r) THEN q.amount ELSE 0) - (IF x = "SOL" THEN q.fee ELSE 0)
    <3>1. PICK paid \in Int, gone \in Int : paid = (IF IsSwap(r) /\ x = Out(r) THEN q.minOut ELSE 0)
                                            /\ gone = (IF r.kind # "close" /\ x = In(r) THEN q.amount ELSE 0)
      BY <1>3
    <3>2. PICK route \in Int, send \in Int : route = RouteMoves(m.hops, x) /\ send = (IF x = m.send.asset THEN m.send.amount ELSE 0)
      BY <1>1, <2>5 DEF MessageOK
    <3>3. route - send = paid - gone
      BY <3>1, <3>2 DEF TxOK
    <3>4. PICK v, w \in Nat : v = Wealth(s, x) /\ w = Wealth(after, x)
      BY <2>5, StateParts
    <3>5. w >= v + route - send - (IF x = "SOL" THEN (n + due) - back ELSE 0)
      BY <2>5, <3>2, <3>4
    <3>6. w - v >= paid + (IF x = "SOL" THEN returned ELSE 0) - gone - (IF x = "SOL" THEN q.fee ELSE 0)
      <4>1. CASE x = "SOL"
        <5>1. w >= v + route - send - ((n + due) - back)
          BY <3>5, <4>1
        <5>2. w - v >= paid + returned - gone - (n + q.rent)
          <6>1. n \in Nat /\ due \in Int /\ back \in Int /\ returned \in Int /\ q.rent \in Nat
            BY <1>3
          <6>2. paid \in Int /\ gone \in Int /\ route \in Int /\ send \in Int /\ v \in Nat /\ w \in Nat
            OBVIOUS
          <6> QED BY <2>4, <3>3, <5>1, <6>1, <6>2
        <5> QED BY <1>3, <4>1, <5>2
      <4>2. CASE x # "SOL"
        <5>1. w >= v + route - send - 0
          BY <3>5, <4>2
        <5>2. w - v >= paid + 0 - gone - 0
          BY <3>1, <3>2, <3>3, <3>4, <5>1
        <5> QED BY <4>2, <5>2
      <4> QED BY <4>1, <4>2
    <3> QED BY <3>1, <3>4, <3>6
  <2>7. ASSUME NEW x \in TokenAccounts
        PROVE  (IF x = "SOL" THEN returned ELSE 0) = (IF r.kind = "close" /\ x = "SOL" THEN Rent * Len(r.path) ELSE 0)
    BY <2>3
  <2> QED BY <1>5, <2>5, <2>6, <2>7
<1> QED BY <1>4, <1>5

LEMMA SolInitInv == SolInit => SolInv
<1> SUFFICES ASSUME SolInit PROVE SolInv
  OBVIOUS
<1>1. solChain \in SolStates
  BY SolAssumption DEF SolInit
<1> QED BY <1>1 DEF SolInit, SolInv, SolanaKeepsToApproval

\* What a quote or a send on its way leaves alone.
OnItsWay ==
    /\ SolInv /\ solPhase \in {"asked", "loaded", "measured", "checked"}
    /\ UNCHANGED <<solChain, solSending, solQuote, solTx, solLanded>>

\* It is refused, or goes on with a plan of its request.
LEMMA RefusedInv ==
    ASSUME OnItsWay, NEW fault \in BOOLEAN, Refused(fault)
    PROVE  SolInv'
<1>1. solLanded = None /\ solLanded' = None
  BY DEF OnItsWay, SolInv
<1>2. CASE fault /\ ~solSending /\ Mid(solReq) # None
  <2>1. solPhase' = "asked" /\ solReq' = [solReq EXCEPT !.path = <<In(solReq), Out(solReq)>>]
    BY <1>2 DEF Refused
  <2>2. Shape(solReq)
    BY DEF OnItsWay, SolInv
  <2>3. Shape(solReq')
    BY <1>2, <2>1, <2>2, DirectShape
  <2> QED BY <1>1, <1>2, <2>1, <2>3 DEF OnItsWay, SolInv, SolanaKeepsToApproval
<1>3. CASE ~(fault /\ ~solSending /\ Mid(solReq) # None)
  <2>1. solPhase' = "refused" /\ solReq' = solReq
    BY <1>3 DEF Refused
  <2> QED BY <1>1, <2>1 DEF OnItsWay, SolInv, SolanaKeepsToApproval
<1> QED BY <1>2, <1>3

LEMMA GoesInv ==
    ASSUME OnItsWay, NEW phase \in {"loaded", "measured", "checked"}, NEW plan, Goes(phase, plan), PlanOK(solReq, plan),
           phase = "checked" /\ solSending => CheckedOK(solReq, plan, solQuote)
    PROVE  SolInv'
<1>1. solLanded = None /\ solLanded' = None /\ solPhase' = phase /\ solPlan' = plan /\ solReq' = solReq
  BY DEF OnItsWay, SolInv, Goes
<1>2. Shape(solReq) /\ solChain \in SolStates /\ solSending \in BOOLEAN
      /\ (solSending => QuoteOK(solReq, solQuote) /\ solReq.kind # "max")
  BY DEF OnItsWay, SolInv
<1>3. solChain' = solChain /\ solSending' = solSending /\ solQuote' = solQuote
  BY DEF OnItsWay
<1> QED BY <1>1, <1>2, <1>3 DEF SolInv, SolanaKeepsToApproval

\* A load reads the chain.
LEMMA LoadInv ==
    ASSUME SolInv, solPhase = "asked", NEW ok \in BOOLEAN, NEW amount, Load(ok, amount), ok => amount \in Nat,
           ok /\ solReq.kind \in {"send", "swap"} => amount = solReq.amount
    PROVE  SolInv'
<1>1. OnItsWay
  BY DEF OnItsWay, Load
<1>2. CASE ~ok
  <2>1. Refused(FALSE)
    BY <1>2 DEF Load
  <2> QED BY <1>1, <2>1, RefusedInv
<1>3. CASE ok
  <2>1. Goes("loaded", Loaded(solReq, amount))
    BY <1>3 DEF Load
  <2>2. Shape(solReq) /\ solChain \in SolStates
    BY DEF SolInv
  <2>3. PICK before, creates : before = [x \in TokenAccounts |-> Held(solChain, x)]
                               /\ creates = {x \in Needed(solReq) : solChain.token[x] = None}
    OBVIOUS
  <2>4. before \in [TokenAccounts -> Nat] /\ creates \in SUBSET TokenAccounts /\ creates \subseteq Needed(solReq)
    BY <2>2, <2>3, StateParts, PathFacts
  <2>5. PICK base \in Nat : base = priorityPrice(solChain.price)
    BY <2>2, MinOfTwo, SolAssumption DEF SolStates, priorityPrice
  <2>6. solChain.lamports \in Nat /\ offeredPrice(base) \in Nat
    BY <2>2, LimitTypes DEF SolStates
  <2>7. Loaded(solReq, amount) =
          [balance |-> solChain.lamports, amount |-> amount, creates |-> creates, before |-> before, base |-> base,
           price |-> offeredPrice(base), needed |-> 0, limit |-> 0, mid |-> 0, out |-> 0, minOut |-> 0]
    <3>1. Loaded(solReq, amount) =
            [NoPlan EXCEPT !.balance = solChain.lamports, !.amount = amount, !.creates = creates, !.before = before,
                           !.base = base, !.price = offeredPrice(base)]
      BY <2>3, <2>5 DEF Loaded
    <3> QED BY <3>1 DEF NoPlan
  <2>8. PlanOK(solReq, Loaded(solReq, amount))
    BY <1>3, <2>4, <2>5, <2>6, <2>7 DEF PlanOK, SolPlans
  <2> QED BY <1>1, <2>1, <2>8, GoesInv
<1> QED BY <1>2, <1>3

LEMMA LoadsInv ==
    ASSUME SolInv, prepareSOL \/ prepareToken \/ prepareClose \/ loadSwap
    PROVE  SolInv'
<1>0. solPhase = "asked"
  BY DEF prepareSOL, prepareToken, prepareClose, loadSwap
<1>1. Shape(solReq) /\ solChain \in SolStates /\ solReq.amount \in Nat
  BY <1>0 DEF SolInv, Shape
<1>2. CASE prepareSOL
  <2>1. Load(TRUE, solReq.amount) \/ Load(FALSE, solReq.amount)
    BY <1>2 DEF prepareSOL, Load
  <2> QED BY <1>0, <1>1, <2>1, LoadInv
<1>3. CASE prepareToken
  <2>1. PICK balance : balance = tokenAccountBalance(In(solReq))
    OBVIOUS
  <2>2. PICK amount : amount = IF solReq.kind = "max" THEN balance ELSE solReq.amount
    OBVIOUS
  <2>3. Load(amount <= balance /\ amount > 0 /\ solChain.lamports > 0, amount) /\ solReq.kind \in {"send", "max"}
    BY <1>3, <2>1, <2>2 DEF prepareToken
  <2>4. balance \in Nat
    <3>1. In(solReq) \in TokenAccounts
      BY <1>1, <2>3, PathFacts DEF TokenAccounts
    <3> QED BY <1>1, <2>1, <3>1, StateParts DEF tokenAccountBalance
  <2>5. amount \in Nat /\ (solReq.kind \in {"send", "swap"} => amount = solReq.amount)
    BY <1>1, <2>2, <2>4
  <2> QED BY <1>0, <2>3, <2>5, LoadInv
<1>4. CASE prepareClose
  <2>1. Load(\A x \in Range(solReq.path) : closable(x), 0) /\ solReq.kind = "close"
    BY <1>4 DEF prepareClose
  <2> QED BY <1>0, <2>1, LoadInv
<1>5. CASE loadSwap
  <2>1. Load(/\ solChain.lamports > 0
             /\ In(solReq) = "SOL" \/ tokenAccountBalance(In(solReq)) >= solReq.amount, solReq.amount)
    BY <1>5 DEF loadSwap
  <2> QED BY <1>0, <1>1, <2>1, LoadInv
<1> QED BY <1>2, <1>3, <1>4, <1>5

\* A plan keeps to its request when other fields change.
LEMMA PlanChanges ==
    ASSUME NEW r, NEW plan, PlanOK(r, plan), NEW n \in Nat, NEW l \in Nat, NEW k \in Nat
    PROVE  /\ PlanOK(r, [plan EXCEPT !.mid = n]) /\ PlanOK(r, [plan EXCEPT !.minOut = n]) /\ PlanOK(r, [plan EXCEPT !.limit = n])
           /\ PlanOK(r, [plan EXCEPT !.needed = n, !.limit = l]) /\ PlanOK(r, [plan EXCEPT !.out = n, !.needed = l, !.limit = k])
           /\ PlanOK(r, [plan EXCEPT !.limit = n, !.price = l, !.minOut = k])
           /\ r.kind = "max" => PlanOK(r, [plan EXCEPT !.amount = n])
<1>1. plan \in SolPlans /\ plan.creates \subseteq Needed(r) /\ (r.kind \in {"send", "swap"} => plan.amount = r.amount)
  BY DEF PlanOK
<1>2. PlanOK(r, [plan EXCEPT !.mid = n])
  BY <1>1 DEF PlanOK, SolPlans
<1>3. PlanOK(r, [plan EXCEPT !.minOut = n])
  BY <1>1 DEF PlanOK, SolPlans
<1>4. PlanOK(r, [plan EXCEPT !.limit = n])
  BY <1>1 DEF PlanOK, SolPlans
<1>5. PlanOK(r, [plan EXCEPT !.needed = n, !.limit = l])
  BY <1>1 DEF PlanOK, SolPlans
<1>6. PlanOK(r, [plan EXCEPT !.out = n, !.needed = l, !.limit = k])
  BY <1>1 DEF PlanOK, SolPlans
<1>7. PlanOK(r, [plan EXCEPT !.limit = n, !.price = l, !.minOut = k])
  BY <1>1 DEF PlanOK, SolPlans
<1>8. r.kind = "max" => PlanOK(r, [plan EXCEPT !.amount = n])
  BY <1>1 DEF PlanOK, SolPlans
<1> QED BY <1>2, <1>3, <1>4, <1>5, <1>6, <1>7, <1>8

\* What a simulation paid is a number.
LEMMA PaidTypes ==
    ASSUME NEW r, Shape(r), NEW plan, PlanOK(r, plan), NEW s \in SolStates, NEW stage \in {"mid", "measure", "final"},
           NEW m, m = instructions(r, plan, stage), Payable(s, m), Traded(s, m) # None, NEW x \in TokenAccounts
    PROVE  Held(Traded(s, m), x) - plan.before[x] \in Int
<1>1. MessageOK(m)
  BY MessageFine
<1>2. Traded(s, m) \in SolStates
  BY <1>1, TradedMoves
<1>3. Held(Traded(s, m), x) \in Nat
  BY <1>2, StateParts
<1>4. plan.before[x] \in Nat
  BY DEF PlanOK, SolPlans
<1> QED BY <1>3, <1>4

LEMMA MeasureMidInv ==
    ASSUME SolInv, MeasureMid
    PROVE  SolInv'
<1>1. solPhase = "loaded" /\ Mid(solReq) # None
  BY DEF MeasureMid
<1>2. OnItsWay
  BY <1>1 DEF OnItsWay, MeasureMid
<1>3. Shape(solReq) /\ PlanOK(solReq, solPlan) /\ solChain \in SolStates
  BY <1>1 DEF SolInv
<1>4. PICK m : m = instructions(solReq, solPlan, "mid")
  OBVIOUS
<1>5. PICK after : after = Traded(solChain, m)
  OBVIOUS
<1>6. PICK paid : paid = Held(after, Mid(solReq)) - solPlan.before[Mid(solReq)]
  OBVIOUS
<1>7. \/ Refused(FALSE) \/ Refused(explainSwap(solReq, m)) \/ Refused(TRUE)
      \/ Payable(solChain, m) /\ after # None /\ ~(paid <= 0) /\ Goes("loaded", [solPlan EXCEPT !.mid = paid])
  BY <1>4, <1>5, <1>6 DEF MeasureMid
<1>8. explainSwap(solReq, m) \in BOOLEAN
  BY DEF explainSwap
<1>9. CASE Payable(solChain, m) /\ after # None /\ ~(paid <= 0) /\ Goes("loaded", [solPlan EXCEPT !.mid = paid])
  <2>1. Mid(solReq) \in TokenAccounts
    BY <1>1, <1>3, PathFacts DEF TokenAccounts, IsSwap
  <2>2. paid \in Int
    BY <1>3, <1>4, <1>5, <1>6, <1>9, <2>1, PaidTypes
  <2>3. paid \in Nat
    BY <1>9, <2>2
  <2>4. PlanOK(solReq, [solPlan EXCEPT !.mid = paid])
    BY <1>3, <2>3, PlanChanges
  <2> QED BY <1>2, <1>9, <2>4, GoesInv
<1> QED BY <1>2, <1>7, <1>8, <1>9, RefusedInv

LEMMA MeasureInv ==
    ASSUME SolInv, measure
    PROVE  SolInv'
<1>1. solPhase = "loaded"
  BY DEF measure
<1>2. OnItsWay
  BY <1>1 DEF OnItsWay, measure
<1>3. Shape(solReq) /\ PlanOK(solReq, solPlan) /\ solChain \in SolStates
  BY <1>1 DEF SolInv
<1>4. solChain.used \in Nat /\ CloseAllowance \in Nat
  BY <1>3, SolAssumption DEF SolStates
<1>5. CASE ~IsSwap(solReq)
  <2>1. PICK limit \in Nat : limit = limitFor(solChain.used)
    BY <1>4, LimitTypes
  <2>2. \/ Refused(FALSE)
        \/ Goes("measured", [solPlan EXCEPT !.needed = limit, !.limit = limit])
    BY <1>5, <2>1 DEF measure, measureSend
  <2>3. PlanOK(solReq, [solPlan EXCEPT !.needed = limit, !.limit = limit])
    BY <1>3, PlanChanges
  <2> QED BY <1>2, <2>2, <2>3, RefusedInv, GoesInv
<1>6. CASE IsSwap(solReq)
  <2>1. PICK m : m = instructions(solReq, solPlan, "measure")
    OBVIOUS
  <2>2. PICK after : after = Traded(solChain, m)
    OBVIOUS
  <2>3. PICK paid : paid = Held(after, Out(solReq)) - solPlan.before[Out(solReq)]
    OBVIOUS
  <2>4. PICK limit \in Nat : limit = limitFor(solChain.used + (IF closes(solReq) # {} THEN CloseAllowance ELSE 0))
    <3>1. solChain.used + (IF closes(solReq) # {} THEN CloseAllowance ELSE 0) \in Nat
      BY <1>4
    <3> QED BY <3>1, LimitTypes
  <2>5. \/ Refused(FALSE) \/ Refused(explainSwap(solReq, m)) \/ Refused(TRUE)
        \/ Payable(solChain, m) /\ after # None /\ ~(paid <= 0)
             /\ Goes("measured", [solPlan EXCEPT !.out = paid, !.needed = limit, !.limit = limit])
    BY <1>6, <2>1, <2>2, <2>3, <2>4 DEF measure, measureSwap
  <2>6. explainSwap(solReq, m) \in BOOLEAN
    BY DEF explainSwap
  <2>7. CASE Payable(solChain, m) /\ after # None /\ ~(paid <= 0)
               /\ Goes("measured", [solPlan EXCEPT !.out = paid, !.needed = limit, !.limit = limit])
    <3>1. Out(solReq) \in TokenAccounts
      BY <1>3, <1>6, PathFacts DEF TokenAccounts
    <3>2. paid \in Int
      BY <1>3, <2>1, <2>2, <2>3, <2>7, <3>1, PaidTypes
    <3>3. paid \in Nat
      BY <2>7, <3>2
    <3>4. PlanOK(solReq, [solPlan EXCEPT !.out = paid, !.needed = limit, !.limit = limit])
      BY <1>3, <3>3, PlanChanges
    <3> QED BY <1>2, <2>7, <3>4, GoesInv
  <2> QED BY <1>2, <2>5, <2>6, <2>7, RefusedInv
<1> QED BY <1>5, <1>6

\* precheck lets a plan through or refuses it.
LEMMA PrecheckInv ==
    ASSUME OnItsWay, NEW plan, precheck(plan),
           solReq.kind # "max" \/ plan.amount > 0 => PlanOK(solReq, plan),
           solSending => CheckedOK(solReq, plan, solQuote)
    PROVE  SolInv'
<1>1. PICK fault \in BOOLEAN : Refused(fault) \/ (Goes("checked", plan) /\ (solReq.kind # "max" \/ plan.amount > 0))
  <2>1. PICK need : need = Need(solReq, plan)
    OBVIOUS
  <2>2. \/ Goes("checked", plan) /\ (solReq.kind = "close" \/ (solReq.kind = "max" => plan.amount > 0))
        \/ Refused(plan.balance >= need - routeOnlyRent(solReq, plan))
    BY <2>1 DEF precheck
  <2>3. Refused(plan.balance >= need - routeOnlyRent(solReq, plan)) => Refused(TRUE) \/ Refused(FALSE)
    BY DEF Refused
  <2> QED BY <2>2, <2>3
<1> QED BY <1>1, RefusedInv, GoesInv

LEMMA CheckInv ==
    ASSUME SolInv, Check
    PROVE  SolInv'
<1>1. solPhase = "measured"
  BY DEF Check
<1>2. OnItsWay
  BY <1>1 DEF OnItsWay, Check
<1>3. Shape(solReq) /\ PlanOK(solReq, solPlan) /\ solSending \in BOOLEAN
  BY <1>1 DEF SolInv
<1>4. CASE ~solSending
  <2>1. PICK min \in Nat : min = withSlippage(solPlan.out, Slippage)
    <3>1. solPlan.out \in Nat
      BY <1>3 DEF PlanOK, SolPlans
    <3> QED BY <3>1, LimitTypes
  <2>2. PICK plan : plan = [solPlan EXCEPT !.minOut = min]
    OBVIOUS
  <2>3. Refused(TRUE) \/ precheck(WithAmount(plan))
    BY <1>4, <2>1, <2>2 DEF Check
  <2>4. PlanOK(solReq, plan)
    BY <1>3, <2>2, PlanChanges
  <2>5. CASE precheck(WithAmount(plan))
    <3>1. CASE ~(solReq.kind = "max" /\ In(solReq) = "SOL")
      <4>1. WithAmount(plan) = plan
        BY <3>1 DEF WithAmount
      <4> QED BY <1>2, <1>4, <2>4, <2>5, <4>1, PrecheckInv
    <3>2. CASE solReq.kind = "max" /\ In(solReq) = "SOL"
      <4>1. PICK rest : rest = plan.balance - cost(solReq, plan)
        OBVIOUS
      <4>2. PICK full : full = [plan EXCEPT !.amount = rest]
        OBVIOUS
      <4>3. WithAmount(plan) = full
        BY <3>2, <4>1, <4>2 DEF WithAmount
      <4>4. rest \in Int
        <5>1. plan \in SolPlans
          BY <2>4 DEF PlanOK
        <5>2. plan.balance \in Nat /\ plan.limit \in Nat /\ plan.price \in Nat /\ plan.creates \in SUBSET TokenAccounts
          BY <5>1 DEF SolPlans
        <5>3. networkFee(plan.limit, plan.price) \in Nat
          BY <5>2, NetworkFeeTypes
        <5>4. persistentCreates(solReq, plan) \in Nat /\ Rent \in Nat
          BY <5>2, AccountsFinite, SolAssumption DEF persistentCreates
        <5>5. rent(solReq, plan) \in Nat
          BY <5>4 DEF rent
        <5> QED BY <4>1, <5>2, <5>3, <5>5 DEF cost
      <4>5. full.amount = rest
        BY <2>4, <4>2 DEF PlanOK, SolPlans
      <4>6. full.amount > 0 => PlanOK(solReq, full)
        <5> SUFFICES ASSUME full.amount > 0 PROVE PlanOK(solReq, full)
          OBVIOUS
        <5>1. rest \in Nat
          BY <4>4, <4>5
        <5> QED BY <2>4, <3>2, <4>2, <5>1, PlanChanges
      <4> QED BY <1>2, <1>4, <2>5, <3>2, <4>3, <4>6, PrecheckInv
    <3> QED BY <3>1, <3>2
  <2> QED BY <1>2, <2>3, <2>5, RefusedInv
<1>5. CASE solSending
  <2>1. PICK plan : plan = [solPlan EXCEPT !.limit = solQuote.limit, !.price = solQuote.price, !.minOut = solQuote.minOut]
    OBVIOUS
  <2>2. Refused(FALSE) \/ (Approved(solQuote) /\ precheck(plan))
    BY <1>5, <2>1 DEF Check, SignedMin
  <2>3. QuoteOK(solReq, solQuote)
    BY <1>5 DEF SolInv
  <2>4. CASE Approved(solQuote) /\ precheck(plan)
    <3>1. solQuote.limit \in Nat /\ solQuote.price \in Nat /\ solQuote.minOut \in Nat
      BY <2>3 DEF QuoteOK
    <3>2. PlanOK(solReq, plan)
      BY <1>3, <2>1, <3>1, PlanChanges
    <3>3. /\ plan.limit = solQuote.limit /\ plan.price = solQuote.price /\ plan.minOut = solQuote.minOut
          /\ plan.creates = solPlan.creates
      BY <1>3, <2>1 DEF PlanOK, SolPlans
    <3>4. rent(solReq, plan) <= solQuote.rent
      BY <2>4, <3>3 DEF Approved, rent, persistentCreates
    <3>5. CheckedOK(solReq, plan, solQuote)
      BY <3>3, <3>4 DEF CheckedOK
    <3> QED BY <1>2, <2>4, <3>2, <3>5, PrecheckInv
  <2> QED BY <1>2, <2>2, <2>4, RefusedInv
<1> QED BY <1>3, <1>4, <1>5

\* What is shown is the fee of the caps, and the amount that was asked for.
LEMMA QuoteFine ==
    ASSUME NEW plan, PlanOK(solReq, plan)
    PROVE  QuoteOK(solReq, Quote(plan))
<1>1. plan.amount \in Nat /\ plan.limit \in Nat /\ plan.price \in Nat /\ plan.minOut \in Nat /\ plan.creates \in SUBSET TokenAccounts
  BY DEF PlanOK, SolPlans
<1>2. rent(solReq, plan) \in Nat
  <2>1. persistentCreates(solReq, plan) \in Nat /\ Rent \in Nat
    BY <1>1, AccountsFinite, SolAssumption DEF persistentCreates
  <2> QED BY <2>1 DEF rent
<1>3. PICK q : q = Quote(plan)
  OBVIOUS
<1>4. /\ q.amount = plan.amount /\ q.limit = plan.limit /\ q.price = plan.price /\ q.minOut = plan.minOut
      /\ q.rent = rent(solReq, plan) /\ q.fee = networkFee(plan.limit, plan.price) + rent(solReq, plan)
  BY <1>3 DEF Quote, cost
<1> QED BY <1>1, <1>2, <1>3, <1>4 DEF QuoteOK, PlanOK

LEMMA VerdictInv ==
    ASSUME SolInv, Verdict
    PROVE  SolInv'
<1>1. solPhase = "checked" /\ UNCHANGED <<solChain, solSending, solLanded>>
  BY DEF Verdict
<1>2. /\ Shape(solReq) /\ PlanOK(solReq, solPlan) /\ solSending \in BOOLEAN /\ solChain \in SolStates /\ solLanded = None
      /\ (solSending => QuoteOK(solReq, solQuote) /\ CheckedOK(solReq, solPlan, solQuote) /\ solReq.kind # "max")
  BY <1>1 DEF SolInv
<1>3. \/ (Refused(TRUE) \/ Refused(FALSE)) /\ UNCHANGED <<solQuote, solTx>>
      \/ solSending /\ Goes("signed", NoPlan) /\ solTx' = instructions(solReq, solPlan, "final") /\ UNCHANGED solQuote
      \/ ~solSending /\ Goes("shown", NoPlan) /\ solQuote' = Quote(raised(solPlan)) /\ UNCHANGED solTx
  <2>1. PICK plan : plan = IF solSending THEN solPlan ELSE raised(solPlan)
    OBVIOUS
  <2>2. PICK short : short = IF solReq.kind = "close" THEN 0 ELSE Need(solReq, plan) - plan.balance
    OBVIOUS
  <2>3. PICK answer : answer = IF short > 0 THEN (IF short <= routeOnlyRent(solReq, plan) THEN "route" ELSE "wallet") ELSE verdict(plan)
    OBVIOUS
  <2>4. \/ Refused(answer = "route") /\ UNCHANGED <<solQuote, solTx>>
        \/ solSending /\ Goes("signed", NoPlan) /\ solTx' = instructions(solReq, plan, "final") /\ UNCHANGED solQuote
        \/ ~solSending /\ Goes("shown", NoPlan) /\ solQuote' = Quote(plan) /\ UNCHANGED solTx
    BY <2>1, <2>2, <2>3 DEF Verdict
  <2>5. Refused(answer = "route") => Refused(TRUE) \/ Refused(FALSE)
    BY DEF Refused
  <2> QED BY <2>1, <2>4, <2>5
<1>4. CASE (Refused(TRUE) \/ Refused(FALSE)) /\ UNCHANGED <<solQuote, solTx>>
  <2>1. OnItsWay
    BY <1>1, <1>4 DEF OnItsWay
  <2> QED BY <1>4, <2>1, RefusedInv
<1>5. CASE solSending /\ Goes("signed", NoPlan) /\ solTx' = instructions(solReq, solPlan, "final") /\ UNCHANGED solQuote
  <2>1. TxOK(solReq, solTx', solQuote)
    BY <1>2, <1>5, SignedFine
  <2>2. solPhase' = "signed" /\ solReq' = solReq /\ solQuote' = solQuote
    BY <1>5 DEF Goes
  <2> QED BY <1>1, <1>2, <1>5, <2>1, <2>2 DEF SolInv, SolanaKeepsToApproval
<1>6. CASE ~solSending /\ Goes("shown", NoPlan) /\ solQuote' = Quote(raised(solPlan)) /\ UNCHANGED solTx
  <2>1. PICK plan : plan = raised(solPlan)
    OBVIOUS
  <2>2. PlanOK(solReq, plan)
    <3>1. limitFor(solPlan.limit) \in Nat
      BY <1>2, LimitTypes DEF PlanOK, SolPlans
    <3>2. PlanOK(solReq, [solPlan EXCEPT !.limit = limitFor(solPlan.limit)])
      BY <1>2, <3>1, PlanChanges
    <3> QED BY <1>2, <2>1, <3>2 DEF raised
  <2>3. QuoteOK(solReq, solQuote')
    BY <1>6, <2>1, <2>2, QuoteFine
  <2>4. solPhase' = "shown" /\ solReq' = solReq
    BY <1>6 DEF Goes
  <2> QED BY <1>1, <1>2, <1>6, <2>3, <2>4 DEF SolInv, SolanaKeepsToApproval
<1> QED BY <1>3, <1>4, <1>5, <1>6

LEMMA ApproveInv ==
    ASSUME SolInv, Approve
    PROVE  SolInv'
<1>1. /\ solPhase = "shown" /\ solPhase' = "asked" /\ solSending' = TRUE /\ UNCHANGED <<solChain, solQuote, solTx, solLanded>>
      /\ solReq' = IF solReq.kind = "max" THEN [solReq EXCEPT !.kind = "send", !.amount = solQuote.amount] ELSE solReq
  BY DEF Approve
<1>2. Shape(solReq) /\ QuoteOK(solReq, solQuote) /\ solLanded = None /\ solChain \in SolStates
  BY <1>1 DEF SolInv
<1>3. Shape(solReq') /\ QuoteOK(solReq', solQuote) /\ solReq'.kind # "max"
  <2>1. CASE solReq.kind # "max"
    BY <1>1, <1>2, <2>1
  <2>2. CASE solReq.kind = "max"
    <3>1. solReq = [kind |-> solReq.kind, path |-> solReq.path, amount |-> solReq.amount]
      BY <1>2 DEF Shape
    <3>2. solReq' = [kind |-> "send", path |-> solReq.path, amount |-> solQuote.amount]
      BY <1>1, <2>2, <3>1
    <3>3. solQuote.amount \in Nat
      BY <1>2 DEF QuoteOK
    <3>4. solReq.path \in {<<"SOL">>, <<"a", "to">>, <<"b", "to">>}
      BY <1>2, <2>2 DEF Shape
    <3>5. solReq'.kind = "send" /\ solReq'.path = solReq.path /\ solReq'.amount = solQuote.amount
      BY <3>2
    <3>6. Shape(solReq')
      BY <3>2, <3>3, <3>4, <3>5 DEF Shape
    <3>7. QuoteOK(solReq', solQuote)
      BY <1>2, <3>5 DEF QuoteOK
    <3> QED BY <3>5, <3>6, <3>7
  <2> QED BY <2>1, <2>2
<1> QED BY <1>1, <1>2, <1>3 DEF SolInv, SolanaKeepsToApproval

LEMMA SolLandInv ==
    ASSUME SolInv, SolLand
    PROVE  SolInv'
<1>1. solPhase = "signed" /\ Payable(solChain, solTx) /\ solPhase' = "done" /\ UNCHANGED <<solSending, solReq, solQuote, solTx>>
  BY DEF SolLand
<1>2. /\ Shape(solReq) /\ QuoteOK(solReq, solQuote) /\ TxOK(solReq, solTx, solQuote) /\ solChain \in SolStates /\ solSending = TRUE
      /\ solReq.kind # "max"
  BY <1>1 DEF SolInv
<1>3. PICK after : after = IF Succeeds(solChain, solTx) THEN Executed(solChain, solTx) ELSE Charged(solChain, solTx)
  OBVIOUS
<1>4. /\ after \in SolStates
      /\ \A x \in TokenAccounts :
           Wealth(after, x) - Wealth(solChain, x) >=
             (IF Succeeds(solChain, solTx) /\ IsSwap(solReq) /\ x = Out(solReq) THEN solQuote.minOut ELSE 0)
             + (IF Succeeds(solChain, solTx) /\ solReq.kind = "close" /\ x = "SOL" THEN Rent * Len(solReq.path) ELSE 0)
             - (IF Succeeds(solChain, solTx) /\ solReq.kind # "close" /\ x = In(solReq) THEN solQuote.amount ELSE 0)
             - (IF x = "SOL" THEN solQuote.fee ELSE 0)
  BY <1>1, <1>2, <1>3, LandsWithinApproval
<1>5. PICK ok \in BOOLEAN : ok = Succeeds(solChain, solTx)
  BY DEF Succeeds
<1>6. /\ solChain' = after
      /\ solLanded' = [ok |-> ok, change |-> [x \in TokenAccounts |-> Wealth(after, x) - Wealth(solChain, x)]]
  BY <1>3, <1>5 DEF SolLand, Wealth
<1>7. solLanded'.ok = ok /\ \A x \in TokenAccounts : solLanded'.change[x] = Wealth(after, x) - Wealth(solChain, x)
  BY <1>6
<1>8. SolanaKeepsToApproval'
  BY <1>1, <1>4, <1>5, <1>7 DEF SolanaKeepsToApproval
<1> QED BY <1>1, <1>2, <1>4, <1>6, <1>8 DEF SolInv

\* The chain moves, and stays a chain.
LEMMA SolMoveInv ==
    ASSUME SolInv, Move
    PROVE  SolInv'
<1>1. solChain \in SolStates /\ UNCHANGED <<solPhase, solSending, solReq, solPlan, solQuote, solTx, solLanded>>
  BY DEF SolInv, Move
<1>2. SolUses \subseteq Nat /\ SolPrices \subseteq Nat /\ SolRates \subseteq Nat /\ SolLamports \subseteq Nat /\ SolTokens \subseteq Nat \cup {None}
  BY SolAssumption
<1>3. solChain' \in SolStates
  <2>1. CASE \E v \in SolPrices : solChain' = [solChain EXCEPT !.price = v]
    BY <1>1, <1>2, <2>1 DEF SolStates
  <2>2. CASE \E v \in SolUses : solChain' = [solChain EXCEPT !.used = v]
    BY <1>1, <1>2, <2>2 DEF SolStates
  <2>3. CASE \E v \in SolLamports : solChain' = [solChain EXCEPT !.lamports = v]
    BY <1>1, <1>2, <2>3 DEF SolStates
  <2>4. CASE \E pool \in Pools, v \in SolRates : solChain' = [solChain EXCEPT !.rate[pool] = v]
    BY <1>1, <1>2, <2>4 DEF SolStates
  <2>5. CASE \E x \in TokenAccounts, v \in SolTokens : solChain' = [solChain EXCEPT !.token[x] = v]
    BY <1>1, <1>2, <2>5 DEF SolStates
  <2> QED BY <2>1, <2>2, <2>3, <2>4, <2>5 DEF Move
<1> QED BY <1>1, <1>3 DEF SolInv, SolanaKeepsToApproval

LEMMA SolNextInv == SolInv /\ (SolNext \/ UNCHANGED solVars) => SolInv'
<1> SUFFICES ASSUME SolInv, SolNext \/ UNCHANGED solVars PROVE SolInv'
  OBVIOUS
<1>1. ASSUME NEW r \in SolRequests, Ask(r) PROVE SolInv'
  <2>1. Shape(r)
    BY SolAssumption
  <2>2. solPhase = "idle" /\ solPhase' = "asked" /\ solReq' = r /\ UNCHANGED <<solChain, solSending, solQuote, solTx, solLanded>>
    BY <1>1 DEF Ask
  <2> QED BY <2>1, <2>2 DEF SolInv, SolanaKeepsToApproval
<1>2. CASE RouteRejected
  <2>1. OnItsWay /\ Refused(TRUE)
    BY <1>2 DEF RouteRejected, OnItsWay
  <2> QED BY <2>1, RefusedInv
<1>3. CASE UNCHANGED solVars
  BY <1>3 DEF solVars, SolInv, SolanaKeepsToApproval
<1> QED
  BY <1>1, <1>2, <1>3, LoadsInv, MeasureMidInv, MeasureInv, CheckInv, VerdictInv, ApproveInv, SolLandInv, SolMoveInv DEF SolNext

LEMMA SolanaIsInvariant == AdaptersSpec => []SolInv
<1>1. AdaptersInit => SolInv
  BY SolInitInv DEF AdaptersInit
<1>2. SolInv /\ [AdaptersNext]_adapterVars => SolInv'
  <2>1. [AdaptersNext]_adapterVars => SolNext \/ UNCHANGED solVars
    BY DEF AdaptersNext, EvmStep, SolanaStep, TronStep, SunSwapStep, adapterVars
  <2> QED BY <2>1, SolNextInv
<1> QED BY <1>1, <1>2, PTL DEF AdaptersSpec

\* A Solana transfer, closing or swap that lands takes no more than was
\* approved and pays a swap's minimum, for any requests, fee parameters and
\* chain that moves at will before, between and after the steps (Send, Close,
\* Swap).
THEOREM WithinTheApproval == AdaptersSpec => []SolanaKeepsToApproval
<1>1. SolInv => SolanaKeepsToApproval
  BY DEF SolInv
<1> QED BY <1>1, SolanaIsInvariant, PTL

-----------------------------------------------------------------------------
(* Solana: a fresh quote is honoured.                                      *)

\* What a quote and a send of request r compute, one after the other, while
\* the chain is in state s: the amount and the condition of the load, ...
AmountOf(s, r) ==
    IF r.kind = "close" THEN 0 ELSE IF r.kind = "max" /\ In(r) # "SOL" THEN Held(s, In(r)) ELSE r.amount
LoadOK(s, r) ==
    IF r.kind = "close" THEN \A x \in Range(r.path) : s.token[x] = 0
    ELSE /\ s.lamports > 0
         /\ In(r) # "SOL" => AmountOf(s, r) <= Held(s, In(r)) /\ (~IsSwap(r) => AmountOf(s, r) > 0)
LoadPlan(s, r) ==
    [NoPlan EXCEPT !.balance = s.lamports, !.amount = AmountOf(s, r),
       !.creates = {x \in Needed(r) : s.token[x] = None},
       !.before = [x \in TokenAccounts |-> Held(s, x)],
       !.base = priorityPrice(s.price), !.price = offeredPrice(priorityPrice(s.price))]

\* ... what the first pool pays, ...
PaidBy(s, r, plan, stage, x) == Held(Traded(s, instructions(r, plan, stage)), x) - plan.before[x]
SwapPays(s, r, plan, stage, x) ==
    /\ Payable(s, instructions(r, plan, stage)) /\ Traded(s, instructions(r, plan, stage)) # None
    /\ PaidBy(s, r, plan, stage, x) > 0
MidOK(s, r) ==
    Mid(r) # None =>
      /\ SwapPays(s, r, LoadPlan(s, r), "mid", Mid(r))
      /\ withSlippage(PaidBy(s, r, LoadPlan(s, r), "mid", Mid(r)), Slippage) # 0
MidPlan(s, r) ==
    IF Mid(r) = None THEN LoadPlan(s, r)
    ELSE [LoadPlan(s, r) EXCEPT !.mid = PaidBy(s, r, LoadPlan(s, r), "mid", Mid(r))]

\* ... what the whole takes and pays, ...
LimitOf(s, r) == limitFor(s.used + (IF IsSwap(r) /\ closes(r) # {} THEN CloseAllowance ELSE 0))
MeasureOK(s, r) ==
    IF IsSwap(r) THEN SwapPays(s, r, MidPlan(s, r), "measure", Out(r)) ELSE s.lamports >= LamportsPerSignature
MeasuredPlan(s, r) ==
    [MidPlan(s, r) EXCEPT !.out = IF IsSwap(r) THEN PaidBy(s, r, MidPlan(s, r), "measure", Out(r)) ELSE 0,
                          !.needed = LimitOf(s, r), !.limit = LimitOf(s, r)]

\* ... what a quote makes of it, and a send under the approval q.
QuotedPlan(s, r) ==
    LET plan == [MeasuredPlan(s, r) EXCEPT !.minOut = withSlippage(MeasuredPlan(s, r).out, Slippage)] IN
    IF r.kind = "max" /\ In(r) = "SOL" THEN [plan EXCEPT !.amount = plan.balance - cost(r, plan)] ELSE plan
SendPlan(s, r, q) == [MeasuredPlan(s, r) EXCEPT !.limit = q.limit, !.price = q.price, !.minOut = q.minOut]

\* The checks of a send.
ApprovalCovers(r, plan, q) ==
    /\ plan.needed <= q.limit /\ plan.base <= q.price
    /\ persistentCreates(r, plan) <= q.creates /\ rent(r, plan) <= q.rent
    /\ IsSwap(r) => plan.out >= q.minOut /\ q.minOut >= withSlippage(plan.out, MaxSlippage)
BalanceCovers(r, plan) == r.kind = "close" \/ plan.balance >= Need(r, plan)
PassesVerdict(s, r, plan) ==
    LET m == instructions(r, plan, "final") IN
    /\ Succeeds(s, m)
    /\ IsSwap(r) /\ Out(r) # "SOL" => Held(Executed(s, m), Out(r)) - plan.before[Out(r)] >= plan.minOut

CarriedOut(s, r) == LoadOK(s, r) /\ MidOK(s, r) /\ MeasureOK(s, r)
Honoured(s, r, q) ==
    /\ CarriedOut(s, r) /\ ApprovalCovers(r, MeasuredPlan(s, r), q)
    /\ BalanceCovers(r, SendPlan(s, r, q)) /\ PassesVerdict(s, r, SendPlan(s, r, q))

\* The request an approval comes back with.
SendReq(r, q) == IF r.kind = "max" THEN [r EXCEPT !.kind = "send", !.amount = q.amount] ELSE r

\* Until the chain moves, a plan is what its request computes, and an approved
\* request passes every check that is left.
FreshPlan ==
    /\ solPhase = "loaded" =>
         /\ LoadOK(solChain, solReq)
         /\ \/ Mid(solReq) # None /\ solPlan = LoadPlan(solChain, solReq)
            \/ MidOK(solChain, solReq) /\ solPlan = MidPlan(solChain, solReq)
    /\ solPhase = "measured" => CarriedOut(solChain, solReq) /\ solPlan = MeasuredPlan(solChain, solReq)
    /\ solPhase = "checked" =>
         /\ CarriedOut(solChain, solReq)
         /\ solPlan = IF solSending THEN SendPlan(solChain, solReq, solQuote) ELSE QuotedPlan(solChain, solReq)
    /\ solPhase = "shown" => Honoured(solChain, SendReq(solReq, solQuote), solQuote)
    /\ solSending => solPhase # "refused"
    /\ solSending /\ solPhase \in {"asked", "loaded", "measured", "checked"} => Honoured(solChain, solReq, solQuote)

FreshInv ==
    /\ solSeen \in Nat /\ solMoves \in Nat /\ solSeen <= solMoves
    /\ solMoves = solSeen => FreshPlan
\* The smaller and the larger of two numbers are one of them.
LEMMA MinIsOne ==
    ASSUME NEW x \in Nat, NEW y \in Nat
    PROVE  Min({x, y}) \in {x, y} /\ Max({x, y}) \in {x, y} /\ Max({x, y}) >= x
<1>1. (\E m \in {x, y} : \A n \in {x, y} : m <= n) /\ (\E m \in {x, y} : \A n \in {x, y} : m >= n)
  <2>1. CASE x <= y
    BY <2>1
  <2>2. CASE y <= x
    BY <2>2
  <2> QED BY <2>1, <2>2
<1>2. Min({x, y}) \in {x, y}
  BY <1>1 DEF Min
<1>3. Max({x, y}) \in {x, y} /\ Max({x, y}) >= x
  BY <1>1 DEF Max
<1> QED BY <1>2, <1>3

\* A limit, raised, is no lower, and the price on offer covers the price read.
LEMMA LimitsGrow ==
    ASSUME NEW n \in Nat
    PROVE  /\ n <= MaxLimit => limitFor(n) >= n
           /\ limitFor(n) <= MaxLimit
           /\ priorityPrice(n) \in Nat /\ priorityPrice(n) <= MaxPrice
           /\ n <= MaxPrice => offeredPrice(n) >= n
<1>1. PICK l \in Nat, f \in Nat, k \in Nat : l = n + n \div 5 + Headroom /\ f = n + n \div 4 /\ k = Max({f, MinPrice}) /\ l >= n /\ k >= n
  <2>1. n + n \div 5 + Headroom \in Nat /\ n + n \div 4 \in Nat /\ n + n \div 5 + Headroom >= n /\ n + n \div 4 >= n
    <3>1. n \div 5 \in Nat /\ n \div 4 \in Nat /\ Headroom \in Nat
      BY SolAssumption
    <3> QED BY <3>1
  <2>2. MinPrice \in Nat
    BY SolAssumption
  <2>3. PICK f \in Nat : f = n + n \div 4
    BY <2>1
  <2>4. Max({f, MinPrice}) \in {f, MinPrice} /\ Max({f, MinPrice}) >= f /\ f >= n
    BY <2>1, <2>2, <2>3, MinIsOne
  <2>5. PICK k \in Nat : k = Max({f, MinPrice}) /\ k >= n
    BY <2>2, <2>4
  <2> QED BY <2>1, <2>3, <2>5
<1>2. MaxLimit \in Nat /\ MaxPrice \in Nat
  BY SolAssumption
<1>3. Min({l, MaxLimit}) \in {l, MaxLimit} /\ Min({l, MaxLimit}) <= MaxLimit
  BY <1>1, <1>2, MinIsOne, MinOfTwo
<1>4. Min({n, MaxPrice}) \in Nat /\ Min({n, MaxPrice}) <= MaxPrice /\ Min({k, MaxPrice}) \in {k, MaxPrice}
  BY <1>1, <1>2, MinIsOne, MinOfTwo
<1>5. limitFor(n) = Min({l, MaxLimit}) /\ priorityPrice(n) = Min({n, MaxPrice}) /\ offeredPrice(n) = Min({k, MaxPrice})
  BY <1>1 DEF limitFor, priorityPrice, offeredPrice
<1> QED BY <1>1, <1>2, <1>3, <1>4, <1>5

\* A quotient grows with its dividend.
LEMMA QuotientGrows ==
    ASSUME NEW x \in Nat, NEW y \in Nat, x <= y, NEW d \in Nat, d > 0
    PROVE  x \div d <= y \div d
OBVIOUS

\* The minimum of a quote is no more than the payout, and within the slippage
\* a send accepts.
LEMMA SlippageWithin ==
    ASSUME NEW n \in Nat
    PROVE  /\ withSlippage(n, Slippage) \in Nat /\ withSlippage(n, MaxSlippage) \in Nat
           /\ withSlippage(n, Slippage) <= n /\ withSlippage(n, MaxSlippage) <= withSlippage(n, Slippage)
<1>1. PICK u \in Nat, v \in Nat : u = Whole - Slippage /\ v = Whole - MaxSlippage /\ v <= u /\ u <= Whole
  BY SolAssumption
<1>2. Whole \in Nat /\ Whole > 0
  BY SolAssumption
<1>3. PICK x \in Nat, y \in Nat, z \in Nat : x = n * v /\ y = n * u /\ z = n * Whole
  BY <1>1, <1>2
<1>4. x <= y /\ y <= z
  BY <1>1, <1>2, <1>3
<1>5. x \div Whole <= y \div Whole /\ y \div Whole <= z \div Whole
  BY <1>2, <1>4, QuotientGrows
<1>6. z \div Whole = n
  BY <1>2, <1>3
<1>7. x \div Whole \in Nat /\ y \div Whole \in Nat
  BY <1>2
<1> QED BY <1>1, <1>3, <1>5, <1>6, <1>7 DEF withSlippage

\* The fields of a plan just loaded.
LEMMA LoadFields ==
    ASSUME NEW s \in SolStates, NEW r
    PROVE  LoadPlan(s, r) = [balance |-> s.lamports, amount |-> AmountOf(s, r), creates |-> {x \in Needed(r) : s.token[x] = None},
                before |-> [x \in TokenAccounts |-> Held(s, x)], base |-> priorityPrice(s.price),
                price |-> offeredPrice(priorityPrice(s.price)), needed |-> 0, limit |-> 0, mid |-> 0, out |-> 0, minOut |-> 0]
<1>1. PICK n, c, t, b, o : /\ n = AmountOf(s, r) /\ c = {x \in Needed(r) : s.token[x] = None} /\ t = [x \in TokenAccounts |-> Held(s, x)]
                          /\ b = priorityPrice(s.price) /\ o = offeredPrice(priorityPrice(s.price))
  OBVIOUS
<1>2. LoadPlan(s, r) = [NoPlan EXCEPT !.balance = s.lamports, !.amount = n, !.creates = c, !.before = t, !.base = b, !.price = o]
  BY <1>1 DEF LoadPlan
<1>3. LoadPlan(s, r) = [balance |-> s.lamports, amount |-> n, creates |-> c, before |-> t, base |-> b, price |-> o,
                        needed |-> 0, limit |-> 0, mid |-> 0, out |-> 0, minOut |-> 0]
  BY <1>2 DEF NoPlan
<1> QED BY <1>1, <1>3

\* What a request computes is a plan of that request.
LEMMA LoadPlanOK ==
    ASSUME NEW s \in SolStates, NEW r, Shape(r)
    PROVE  /\ AmountOf(s, r) \in Nat /\ (r.kind \in {"send", "swap"} => AmountOf(s, r) = r.amount)
           /\ PlanOK(r, LoadPlan(s, r))
<1>1. Needed(r) \subseteq TokenAccounts /\ r.amount \in Nat /\ r.kind \in {"send", "max", "close", "swap"}
  BY PathFacts
<1>2. AmountOf(s, r) \in Nat /\ (r.kind \in {"send", "swap"} => AmountOf(s, r) = r.amount)
  <2>1. r.kind = "max" => Held(s, In(r)) \in Nat
    <3>1. r.kind = "max" => In(r) \in TokenAccounts
      BY PathFacts DEF TokenAccounts
    <3> QED BY <3>1, StateParts
  <2> QED BY <1>1, <2>1 DEF AmountOf
<1>3. s.lamports \in Nat /\ s.price \in Nat /\ [x \in TokenAccounts |-> Held(s, x)] \in [TokenAccounts -> Nat]
  BY StateParts DEF SolStates
<1>4. priorityPrice(s.price) \in Nat
  BY <1>3, LimitsGrow
<1>5. offeredPrice(priorityPrice(s.price)) \in Nat
  BY <1>4, LimitTypes
<1>6. PICK c \in SUBSET TokenAccounts : c = {x \in Needed(r) : s.token[x] = None} /\ c \subseteq Needed(r)
  BY <1>1
<1>7. PICK p : p = LoadPlan(s, r)
  OBVIOUS
<1>8. p = [balance |-> s.lamports, amount |-> AmountOf(s, r), creates |-> c,
                before |-> [x \in TokenAccounts |-> Held(s, x)], base |-> priorityPrice(s.price),
                price |-> offeredPrice(priorityPrice(s.price)), needed |-> 0, limit |-> 0, mid |-> 0, out |-> 0, minOut |-> 0]
  BY <1>6, <1>7, LoadFields
<1>9. p \in SolPlans /\ p.creates = c /\ p.amount = AmountOf(s, r)
  BY <1>2, <1>3, <1>4, <1>5, <1>8 DEF SolPlans
<1> QED BY <1>2, <1>6, <1>7, <1>9 DEF PlanOK

\* A plan under way changes in what was measured.
LEMMA MidPlanOK ==
    ASSUME NEW s \in SolStates, NEW r, Shape(r), MidOK(s, r)
    PROVE  /\ PlanOK(r, MidPlan(s, r))
           /\ \A f \in {"balance", "amount", "creates", "before", "base", "price"} : MidPlan(s, r)[f] = LoadPlan(s, r)[f]
           /\ Mid(r) # None => MidPlan(s, r).mid > 0
<1>1. PlanOK(r, LoadPlan(s, r)) /\ LoadPlan(s, r) \in SolPlans
  BY LoadPlanOK DEF PlanOK
<1>2. CASE Mid(r) = None
  BY <1>1, <1>2 DEF MidPlan
<1>3. CASE Mid(r) # None
  <2>1. PICK paid : paid = PaidBy(s, r, LoadPlan(s, r), "mid", Mid(r))
    OBVIOUS
  <2>2. Mid(r) \in TokenAccounts
    BY <1>3, PathFacts DEF TokenAccounts, IsSwap
  <2>3. /\ Payable(s, instructions(r, LoadPlan(s, r), "mid")) /\ Traded(s, instructions(r, LoadPlan(s, r), "mid")) # None
        /\ paid > 0
    BY <1>3, <2>1 DEF MidOK, SwapPays
  <2>4. paid \in Nat
    <3>1. paid \in Int
      BY <1>1, <2>1, <2>2, <2>3, PaidTypes DEF PaidBy
    <3> QED BY <2>3, <3>1
  <2>5. MidPlan(s, r) = [LoadPlan(s, r) EXCEPT !.mid = paid]
    BY <1>3, <2>1 DEF MidPlan
  <2>6. PlanOK(r, MidPlan(s, r))
    <3>1. PlanOK(r, [LoadPlan(s, r) EXCEPT !.mid = paid])
      BY <1>1, <2>4, PlanChanges
    <3> QED BY <2>5, <3>1
  <2>7. /\ \A f \in {"balance", "amount", "creates", "before", "base", "price"} : MidPlan(s, r)[f] = LoadPlan(s, r)[f]
        /\ MidPlan(s, r).mid = paid
    BY <1>1, <2>5 DEF SolPlans
  <2> QED BY <2>3, <2>6, <2>7
<1> QED BY <1>2, <1>3

LEMMA MeasuredPlanOK ==
    ASSUME NEW s \in SolStates, NEW r, Shape(r), MidOK(s, r), MeasureOK(s, r)
    PROVE  /\ LimitOf(s, r) \in Nat /\ LimitOf(s, r) <= MaxLimit
           /\ PlanOK(r, MeasuredPlan(s, r))
           /\ MeasuredPlan(s, r) \in SolPlans
           /\ MeasuredPlan(s, r).needed = LimitOf(s, r) /\ MeasuredPlan(s, r).limit = LimitOf(s, r)
           /\ MeasuredPlan(s, r).minOut = 0
           /\ \A f \in {"balance", "amount", "creates", "before", "base", "price"} : MeasuredPlan(s, r)[f] = LoadPlan(s, r)[f]
<1>1. LimitOf(s, r) \in Nat /\ LimitOf(s, r) <= MaxLimit
  <2>1. PICK u \in Nat : u = s.used + (IF IsSwap(r) /\ closes(r) # {} THEN CloseAllowance ELSE 0)
    <3>1. s.used \in Nat /\ CloseAllowance \in Nat
      BY SolAssumption DEF SolStates
    <3> QED BY <3>1
  <2> QED BY <2>1, LimitTypes, LimitsGrow DEF LimitOf
<1>2. /\ PlanOK(r, MidPlan(s, r)) /\ MidPlan(s, r) \in SolPlans
      /\ \A f \in {"balance", "amount", "creates", "before", "base", "price"} : MidPlan(s, r)[f] = LoadPlan(s, r)[f]
  BY MidPlanOK DEF PlanOK
<1>3. MidPlan(s, r).minOut = 0
  <2>1. LoadPlan(s, r).minOut = 0
    BY LoadFields
  <2>2. LoadPlan(s, r) \in SolPlans
    BY LoadPlanOK DEF PlanOK
  <2> QED BY <2>1, <2>2 DEF MidPlan, SolPlans
<1>4. PICK paid : paid = IF IsSwap(r) THEN PaidBy(s, r, MidPlan(s, r), "measure", Out(r)) ELSE 0
  OBVIOUS
<1>5. paid \in Nat
  <2>1. CASE ~IsSwap(r)
    BY <1>4, <2>1
  <2>2. CASE IsSwap(r)
    <3>1. Out(r) \in TokenAccounts
      BY <2>2, PathFacts DEF TokenAccounts
    <3>2. /\ Payable(s, instructions(r, MidPlan(s, r), "measure")) /\ Traded(s, instructions(r, MidPlan(s, r), "measure")) # None
          /\ paid > 0
      BY <1>4, <2>2 DEF MeasureOK, SwapPays
    <3>3. paid \in Int
      BY <1>2, <1>4, <2>2, <3>1, <3>2, PaidTypes DEF PaidBy
    <3> QED BY <3>2, <3>3
  <2> QED BY <2>1, <2>2
<1>6. PICK l \in Nat : l = LimitOf(s, r)
  BY <1>1
<1>7. PICK p : p = MeasuredPlan(s, r)
  OBVIOUS
<1>8. p = [MidPlan(s, r) EXCEPT !.out = paid, !.needed = l, !.limit = l]
  BY <1>4, <1>6, <1>7 DEF MeasuredPlan
<1>9. PlanOK(r, [MidPlan(s, r) EXCEPT !.out = paid, !.needed = l, !.limit = l])
  BY <1>2, <1>5, <1>6, PlanChanges
<1>10. PlanOK(r, p) /\ p \in SolPlans
  BY <1>8, <1>9 DEF PlanOK
<1>11. /\ p.needed = l /\ p.limit = l /\ p.minOut = 0
       /\ \A f \in {"balance", "amount", "creates", "before", "base", "price"} : p[f] = MidPlan(s, r)[f]
  BY <1>2, <1>3, <1>8 DEF SolPlans
<1> QED BY <1>1, <1>2, <1>6, <1>7, <1>10, <1>11

\* An approval of all there is comes back as a send of the amount shown, which
\* computes the same.
LEMMA MaxAsSend ==
    ASSUME NEW s \in SolStates, NEW r, Shape(r), CarriedOut(s, r), r.kind = "max", NEW n \in Nat,
           In(r) # "SOL" => n = AmountOf(s, r), NEW t, Shape(t), t.kind = "send", t.path = r.path, t.amount = n
    PROVE  /\ ~IsSwap(t) /\ ~IsSwap(r) /\ CarriedOut(s, t)
           /\ MeasuredPlan(s, t) = [MeasuredPlan(s, r) EXCEPT !.amount = n]
           /\ \A p : /\ Need(t, p) = Need(r, p) /\ instructions(t, p, "final") = instructions(r, p, "final")
                     /\ persistentCreates(t, p) = persistentCreates(r, p) /\ rent(t, p) = rent(r, p)
<1>1. /\ ~IsSwap(t) /\ ~IsSwap(r) /\ Mid(t) = None /\ Mid(r) = None /\ closes(t) = {} /\ closes(r) = {}
      /\ Temporary(t) = {} /\ Temporary(r) = {} /\ In(t) = In(r)
  BY PathFacts DEF In
<1>2. Needed(t) = Needed(r)
  BY <1>1 DEF Needed
<1>3. AmountOf(s, t) = n
  BY DEF AmountOf
<1>4. LoadOK(s, t)
  BY <1>1, <1>3 DEF CarriedOut, LoadOK
<1>5. MidOK(s, t) /\ MidOK(s, r) /\ MeasureOK(s, t) /\ MeasureOK(s, r)
  BY <1>1 DEF CarriedOut, MidOK, MeasureOK
<1>6. LoadPlan(s, t) = [LoadPlan(s, r) EXCEPT !.amount = n] /\ LoadPlan(s, r) \in SolPlans
  <2>1. PICK c, b, o, u : /\ c = {x \in Needed(r) : s.token[x] = None} /\ u = [x \in TokenAccounts |-> Held(s, x)]
                          /\ b = priorityPrice(s.price) /\ o = offeredPrice(priorityPrice(s.price))
    OBVIOUS
  <2>2. LoadPlan(s, r) = [balance |-> s.lamports, amount |-> AmountOf(s, r), creates |-> c, before |-> u, base |-> b, price |-> o,
                          needed |-> 0, limit |-> 0, mid |-> 0, out |-> 0, minOut |-> 0]
    BY <2>1, LoadFields
  <2>3. LoadPlan(s, t) = [balance |-> s.lamports, amount |-> n, creates |-> c, before |-> u, base |-> b, price |-> o,
                          needed |-> 0, limit |-> 0, mid |-> 0, out |-> 0, minOut |-> 0]
    BY <1>2, <1>3, <2>1, LoadFields
  <2>4. LoadPlan(s, r) \in SolPlans
    BY LoadPlanOK DEF PlanOK
  <2> QED BY <2>2, <2>3, <2>4
<1>7. MidPlan(s, t) = LoadPlan(s, t) /\ MidPlan(s, r) = LoadPlan(s, r) /\ LimitOf(s, t) = LimitOf(s, r)
  BY <1>1 DEF MidPlan, LimitOf
<1>8. MeasuredPlan(s, t) = [MeasuredPlan(s, r) EXCEPT !.amount = n]
  <2>1. PICK l, p : l = LimitOf(s, r) /\ p = LoadPlan(s, r)
    OBVIOUS
  <2>2. MeasuredPlan(s, t) = [[p EXCEPT !.amount = n] EXCEPT !.out = 0, !.needed = l, !.limit = l]
    BY <1>1, <1>6, <1>7, <2>1 DEF MeasuredPlan
  <2>3. MeasuredPlan(s, r) = [p EXCEPT !.out = 0, !.needed = l, !.limit = l]
    BY <1>1, <1>7, <2>1 DEF MeasuredPlan
  <2> QED BY <1>6, <2>1, <2>2, <2>3 DEF SolPlans
<1>9. ASSUME NEW p
       PROVE  /\ persistentCreates(t, p) = persistentCreates(r, p) /\ rent(t, p) = rent(r, p) /\ Need(t, p) = Need(r, p)
              /\ instructions(t, p, "final") = instructions(r, p, "final")
  <2>1. persistentCreates(t, p) = persistentCreates(r, p)
    BY <1>1 DEF persistentCreates
  <2>2. rent(t, p) = rent(r, p) /\ cost(t, p) = cost(r, p)
    BY <2>1 DEF rent, cost
  <2>3. Need(t, p) = Need(r, p)
    BY <1>1, <2>2 DEF Need
  <2>4. hops(t, p, "final") = <<>> /\ hops(r, p, "final") = <<>>
    BY <1>1 DEF hops
  <2>5. instructions(t, p, "final") = instructions(r, p, "final")
    BY <1>1, <2>4 DEF instructions
  <2> QED BY <2>1, <2>2, <2>3, <2>5
<1>10. CarriedOut(s, t)
  BY <1>4, <1>5 DEF CarriedOut
<1> QED BY <1>1, <1>8, <1>9, <1>10

\* What was shown is honoured while the chain stands still: the send computes
\* the plan again that the quote had checked.
LEMMA QuoteHonoured ==
    ASSUME NEW s \in SolStates, NEW r, Shape(r), CarriedOut(s, r), PlanOK(r, QuotedPlan(s, r)),
           NEW l \in Nat, l >= LimitOf(s, r), NEW plan, plan = [QuotedPlan(s, r) EXCEPT !.limit = l],
           BalanceCovers(r, plan), PassesVerdict(s, r, plan), NEW q,
           q.amount = plan.amount, q.limit = plan.limit, q.price = plan.price, q.minOut = plan.minOut,
           q.creates = persistentCreates(r, plan), q.rent = rent(r, plan)
    PROVE  Honoured(s, SendReq(r, q), q)
<1>1. PICK b : b = MeasuredPlan(s, r)
  OBVIOUS
<1>2. PICK t : t = SendReq(r, q)
  OBVIOUS
<1>3. MidOK(s, r) /\ MeasureOK(s, r)
  BY DEF CarriedOut
<1>4. /\ PlanOK(r, b) /\ b \in SolPlans /\ b.needed = LimitOf(s, r) /\ b.limit = LimitOf(s, r) /\ LimitOf(s, r) \in Nat
      /\ \A f \in {"balance", "amount", "creates", "before", "base", "price"} : b[f] = LoadPlan(s, r)[f]
  BY <1>1, <1>3, MeasuredPlanOK
<1>5. PICK w \in Nat : w = withSlippage(b.out, Slippage) /\ w <= b.out /\ withSlippage(b.out, MaxSlippage) <= w
  <2>1. b.out \in Nat
    BY <1>4 DEF SolPlans
  <2> QED BY <2>1, SlippageWithin
<1>6. PICK n \in Nat : n = QuotedPlan(s, r).amount
  BY DEF PlanOK, SolPlans
<1>7. /\ QuotedPlan(s, r) = [b EXCEPT !.minOut = w, !.amount = n]
      /\ ~(r.kind = "max" /\ In(r) = "SOL") => n = b.amount
  <2>1. PICK p : p = [b EXCEPT !.minOut = w]
    OBVIOUS
  <2>2. p \in SolPlans /\ p.amount = b.amount
    BY <1>4, <2>1 DEF SolPlans
  <2>3. QuotedPlan(s, r) = IF r.kind = "max" /\ In(r) = "SOL" THEN [p EXCEPT !.amount = p.balance - cost(r, p)] ELSE p
    BY <1>1, <1>5, <2>1 DEF QuotedPlan
  <2>4. CASE r.kind = "max" /\ In(r) = "SOL"
    <3>1. PICK k : k = p.balance - cost(r, p)
      OBVIOUS
    <3>2. QuotedPlan(s, r) = [p EXCEPT !.amount = k]
      BY <2>3, <2>4, <3>1
    <3>3. k = n
      BY <1>6, <2>2, <3>2 DEF SolPlans
    <3> QED BY <1>4, <2>1, <2>4, <3>2, <3>3 DEF SolPlans
  <2>5. CASE ~(r.kind = "max" /\ In(r) = "SOL")
    <3>1. QuotedPlan(s, r) = p /\ n = b.amount
      BY <1>6, <2>2, <2>3, <2>5
    <3> QED BY <1>4, <2>1, <3>1 DEF SolPlans
  <2> QED BY <2>4, <2>5
<1>8. plan = [b EXCEPT !.minOut = w, !.amount = n, !.limit = l]
  BY <1>4, <1>7 DEF SolPlans
<1>9. /\ plan.amount = n /\ plan.limit = l /\ plan.minOut = w /\ plan.price = b.price /\ plan.creates = b.creates
      /\ plan.before = b.before /\ plan.balance = b.balance
  BY <1>4, <1>8 DEF SolPlans
<1>10. /\ CarriedOut(s, t) /\ MeasuredPlan(s, t) = [b EXCEPT !.amount = n] /\ (IsSwap(t) <=> IsSwap(r)) /\ t.path = r.path
       /\ (t.kind = "close" <=> r.kind = "close")
       /\ \A p : /\ Need(t, p) = Need(r, p) /\ instructions(t, p, "final") = instructions(r, p, "final")
                 /\ persistentCreates(t, p) = persistentCreates(r, p) /\ rent(t, p) = rent(r, p)
  <2>1. CASE r.kind = "max"
    <3>1. Shape(t) /\ t.kind = "send" /\ t.path = r.path /\ t.amount = n
      <4>1. r = [kind |-> r.kind, path |-> r.path, amount |-> r.amount] /\ r.path \in {<<"SOL">>, <<"a", "to">>, <<"b", "to">>}
        BY <2>1 DEF Shape
      <4>2. t = [kind |-> "send", path |-> r.path, amount |-> n]
        BY <1>2, <1>9, <2>1, <4>1 DEF SendReq
      <4>3. t.kind = "send" /\ t.path = r.path /\ t.amount = n
        BY <4>2
      <4> QED BY <1>6, <4>1, <4>2, <4>3 DEF Shape
    <3>2. In(r) # "SOL" => n = AmountOf(s, r)
      <4>1. LoadPlan(s, r).amount = AmountOf(s, r)
        BY LoadFields
      <4> QED BY <1>4, <1>7, <4>1
    <3>3. /\ ~IsSwap(t) /\ ~IsSwap(r) /\ CarriedOut(s, t)
          /\ MeasuredPlan(s, t) = [MeasuredPlan(s, r) EXCEPT !.amount = n]
          /\ \A p : /\ Need(t, p) = Need(r, p) /\ instructions(t, p, "final") = instructions(r, p, "final")
                    /\ persistentCreates(t, p) = persistentCreates(r, p) /\ rent(t, p) = rent(r, p)
      BY <1>6, <2>1, <3>1, <3>2, MaxAsSend
    <3> QED BY <1>1, <2>1, <3>1, <3>3
  <2>2. CASE r.kind # "max"
    <3>1. t = r
      BY <1>2, <2>2 DEF SendReq
    <3>2. [b EXCEPT !.amount = n] = b
      BY <1>4, <1>7, <2>2 DEF SolPlans
    <3> QED BY <1>1, <3>1, <3>2
  <2> QED BY <2>1, <2>2
<1>11. SendPlan(s, t, q) = plan
  <2>1. SendPlan(s, t, q) = [[b EXCEPT !.amount = n] EXCEPT !.limit = l, !.price = b.price, !.minOut = w]
    BY <1>9, <1>10 DEF SendPlan
  <2> QED BY <1>4, <1>8, <2>1 DEF SolPlans
<1>12. BalanceCovers(t, plan) /\ PassesVerdict(s, t, plan)
  <2>1. Out(t) = Out(r)
    BY <1>10 DEF Out
  <2>2. PassesVerdict(s, t, plan)
    BY <1>10, <2>1 DEF PassesVerdict
  <2> QED BY <1>10, <2>2 DEF BalanceCovers
<1>13. ApprovalCovers(t, MeasuredPlan(s, t), q)
  <2>1. PICK p : p = MeasuredPlan(s, t)
    OBVIOUS
  <2>2. p.needed = LimitOf(s, r) /\ p.creates = b.creates /\ p.base = b.base /\ p.out = b.out
    BY <1>4, <1>10, <2>1 DEF SolPlans
  <2>3. p.needed <= q.limit
    BY <1>9, <2>2
  <2>4. p.base <= q.price
    <3>1. s.price \in Nat
      BY DEF SolStates
    <3>2. PICK f \in Nat : f = priorityPrice(s.price) /\ f <= MaxPrice
      BY <3>1, LimitsGrow
    <3>3. offeredPrice(f) >= f
      BY <3>2, LimitsGrow
    <3>4. LoadPlan(s, r).base = f /\ LoadPlan(s, r).price = offeredPrice(f)
      BY <3>2, LoadFields
    <3> QED BY <1>4, <1>9, <2>2, <3>3, <3>4
  <2>5. persistentCreates(t, p) = q.creates /\ rent(t, p) = q.rent
    <3>1. persistentCreates(r, p) = persistentCreates(r, plan)
      BY <1>9, <2>2 DEF persistentCreates
    <3>2. rent(r, p) = rent(r, plan)
      BY <3>1 DEF rent
    <3> QED BY <1>10, <3>1, <3>2
  <2>6. persistentCreates(r, plan) \in Nat /\ rent(r, plan) \in Nat
    <3>1. persistentCreates(r, plan) \in Nat /\ Rent \in Nat
      BY <1>4, <1>9, AccountsFinite, SolAssumption DEF persistentCreates, SolPlans
    <3> QED BY <3>1 DEF rent
  <2>7. persistentCreates(t, p) <= q.creates /\ rent(t, p) <= q.rent
    BY <2>5, <2>6
  <2>8. p.out >= q.minOut /\ q.minOut >= withSlippage(p.out, MaxSlippage)
    <3>1. b.out \in Nat
      BY <1>4 DEF SolPlans
    <3>2. withSlippage(b.out, MaxSlippage) \in Nat
      BY <3>1, SlippageWithin
    <3> QED BY <1>5, <1>9, <2>2, <3>1, <3>2
  <2> QED BY <2>1, <2>3, <2>4, <2>7, <2>8 DEF ApprovalCovers
<1> QED BY <1>2, <1>10, <1>11, <1>12, <1>13 DEF Honoured

\* The load reads what the request computes.
LEMMA LoadsRead ==
    ASSUME SolInv, prepareSOL \/ prepareToken \/ prepareClose \/ loadSwap
    PROVE  /\ solPhase = "asked" /\ UNCHANGED <<solChain, solMoves, solSending, solQuote, solSeen>>
           /\ \/ LoadOK(solChain, solReq) /\ Goes("loaded", LoadPlan(solChain, solReq))
              \/ ~LoadOK(solChain, solReq) /\ Refused(FALSE)
<1>0. solPhase = "asked" /\ UNCHANGED <<solChain, solMoves, solSending, solQuote, solSeen>>
  BY DEF prepareSOL, prepareToken, prepareClose, loadSwap, Load
<1>1. Shape(solReq) /\ solChain \in SolStates /\ solReq.amount \in Nat
  BY <1>0 DEF SolInv, Shape
<1>2. Loaded(solReq, AmountOf(solChain, solReq)) = LoadPlan(solChain, solReq)
  BY DEF Loaded, LoadPlan
<1>3. CASE prepareSOL
  <2>1. AmountOf(solChain, solReq) = solReq.amount /\ (LoadOK(solChain, solReq) <=> solChain.lamports > 0)
    BY <1>3 DEF prepareSOL, AmountOf, LoadOK
  <2> QED BY <1>0, <1>2, <1>3, <2>1 DEF prepareSOL, Load
<1>4. CASE prepareToken
  <2>1. PICK balance : balance = tokenAccountBalance(In(solReq))
    OBVIOUS
  <2>2. PICK amount : amount = IF solReq.kind = "max" THEN balance ELSE solReq.amount
    OBVIOUS
  <2>3. Load(amount <= balance /\ amount > 0 /\ solChain.lamports > 0, amount) /\ solReq.kind \in {"send", "max"} /\ In(solReq) # "SOL"
    BY <1>4, <2>1, <2>2 DEF prepareToken
  <2>4. AmountOf(solChain, solReq) = amount
    BY <2>1, <2>2, <2>3 DEF AmountOf, tokenAccountBalance
  <2>5. LoadOK(solChain, solReq) <=> amount <= balance /\ amount > 0 /\ solChain.lamports > 0
    BY <2>1, <2>3, <2>4 DEF LoadOK, IsSwap, tokenAccountBalance
  <2> QED BY <1>0, <1>2, <2>3, <2>4, <2>5 DEF Load
<1>5. CASE prepareClose
  <2>1. Load(\A x \in Range(solReq.path) : closable(x), 0) /\ solReq.kind = "close"
    BY <1>5 DEF prepareClose
  <2>2. AmountOf(solChain, solReq) = 0
    BY <2>1 DEF AmountOf
  <2>3. LoadOK(solChain, solReq) <=> \A x \in Range(solReq.path) : closable(x)
    BY <2>1 DEF LoadOK, closable
  <2> QED BY <1>0, <1>2, <2>1, <2>2, <2>3 DEF Load
<1>6. CASE loadSwap
  <2>1. /\ Load(/\ solChain.lamports > 0
                /\ In(solReq) = "SOL" \/ tokenAccountBalance(In(solReq)) >= solReq.amount, solReq.amount)
        /\ IsSwap(solReq) /\ solReq.kind = "swap"
    BY <1>6 DEF loadSwap, IsSwap
  <2>2. AmountOf(solChain, solReq) = solReq.amount
    BY <2>1 DEF AmountOf
  <2>3. In(solReq) \in TokenAccounts
    BY <1>1, <2>1, PathFacts DEF TokenAccounts
  <2>4. Held(solChain, In(solReq)) \in Nat
    BY <1>1, <2>3, StateParts
  <2>5. LoadOK(solChain, solReq) <=> solChain.lamports > 0 /\ (In(solReq) = "SOL" \/ tokenAccountBalance(In(solReq)) >= solReq.amount)
    BY <1>1, <2>1, <2>2, <2>4 DEF LoadOK, tokenAccountBalance
  <2> QED BY <1>0, <1>2, <2>1, <2>2, <2>5 DEF Load
<1> QED BY <1>3, <1>4, <1>5, <1>6

\* A quote that is refused promises nothing.
LEMMA RefusedFresh ==
    ASSUME ~solSending, UNCHANGED solSending, NEW fault, Refused(fault)
    PROVE  FreshPlan'
<1>1. solPhase' \in {"asked", "refused"} /\ ~solSending'
  BY DEF Refused
<1> QED BY <1>1 DEF FreshPlan

LEMMA LoadsFresh ==
    ASSUME SolInv, FreshPlan, prepareSOL \/ prepareToken \/ prepareClose \/ loadSwap
    PROVE  FreshPlan'
<1>1. /\ solPhase = "asked" /\ UNCHANGED <<solChain, solSending, solQuote>>
      /\ \/ LoadOK(solChain, solReq) /\ Goes("loaded", LoadPlan(solChain, solReq))
         \/ ~LoadOK(solChain, solReq) /\ Refused(FALSE)
  BY LoadsRead
<1>2. solSending => Honoured(solChain, solReq, solQuote) /\ LoadOK(solChain, solReq)
  BY <1>1 DEF FreshPlan, Honoured, CarriedOut
<1>3. CASE LoadOK(solChain, solReq) /\ Goes("loaded", LoadPlan(solChain, solReq))
  <2>1. solPhase' = "loaded" /\ solPlan' = LoadPlan(solChain, solReq) /\ UNCHANGED solReq
    BY <1>3 DEF Goes
  <2>2. Mid(solReq) = None => MidOK(solChain, solReq) /\ MidPlan(solChain, solReq) = LoadPlan(solChain, solReq)
    BY DEF MidOK, MidPlan
  <2> QED BY <1>1, <1>2, <1>3, <2>1, <2>2 DEF FreshPlan
<1>4. CASE ~LoadOK(solChain, solReq) /\ Refused(FALSE)
  BY <1>1, <1>2, <1>4, RefusedFresh DEF SolInv
<1> QED BY <1>1, <1>3, <1>4

LEMMA MeasureMidFresh ==
    ASSUME SolInv, FreshPlan, MeasureMid
    PROVE  FreshPlan'
<1>1. /\ solPhase = "loaded" /\ Mid(solReq) # None /\ solPlan.mid = 0 /\ UNCHANGED <<solChain, solSending, solQuote>>
  BY DEF MeasureMid
<1>2. Shape(solReq) /\ solChain \in SolStates
  BY <1>1 DEF SolInv
<1>3. /\ LoadOK(solChain, solReq) /\ (solSending => Honoured(solChain, solReq, solQuote))
      /\ solPlan = LoadPlan(solChain, solReq)
  <2>1. MidOK(solChain, solReq) => MidPlan(solChain, solReq).mid > 0
    BY <1>1, <1>2, MidPlanOK
  <2> QED BY <1>1, <2>1 DEF FreshPlan
<1>4. PICK m, paid : m = instructions(solReq, solPlan, "mid") /\ paid = Held(Traded(solChain, m), Mid(solReq)) - solPlan.before[Mid(solReq)]
  OBVIOUS
<1>5. paid = PaidBy(solChain, solReq, LoadPlan(solChain, solReq), "mid", Mid(solReq))
  BY <1>3, <1>4 DEF PaidBy
<1>6. \/ /\ Payable(solChain, m) /\ Traded(solChain, m) # None /\ ~(paid <= 0) /\ withSlippage(paid, Slippage) # 0
         /\ Goes("loaded", [solPlan EXCEPT !.mid = paid])
      \/ /\ ~(Payable(solChain, m) /\ Traded(solChain, m) # None /\ ~(paid <= 0) /\ withSlippage(paid, Slippage) # 0)
         /\ \E fault : Refused(fault)
  BY <1>4 DEF MeasureMid
<1>7. CASE /\ Payable(solChain, m) /\ Traded(solChain, m) # None /\ ~(paid <= 0) /\ withSlippage(paid, Slippage) # 0
           /\ Goes("loaded", [solPlan EXCEPT !.mid = paid])
  <2>1. solPhase' = "loaded" /\ solPlan' = [solPlan EXCEPT !.mid = paid] /\ UNCHANGED solReq
    BY <1>7 DEF Goes
  <2>2. MidOK(solChain, solReq)
    <3>1. paid \in Int
      <4>1. Mid(solReq) \in TokenAccounts
        BY <1>1, <1>2, PathFacts DEF TokenAccounts, IsSwap
      <4>2. PlanOK(solReq, solPlan)
        BY <1>1 DEF SolInv
      <4> QED BY <1>2, <1>4, <1>7, <4>1, <4>2, PaidTypes
    <3>2. paid > 0
      BY <1>7, <3>1
    <3> QED BY <1>3, <1>4, <1>5, <1>7, <3>2 DEF MidOK, SwapPays
  <2>3. solPlan' = MidPlan(solChain, solReq)
    BY <1>1, <1>3, <1>5, <2>1 DEF MidPlan
  <2> QED BY <1>1, <1>3, <2>1, <2>2, <2>3 DEF FreshPlan
<1>8. CASE /\ ~(Payable(solChain, m) /\ Traded(solChain, m) # None /\ ~(paid <= 0) /\ withSlippage(paid, Slippage) # 0)
           /\ \E fault : Refused(fault)
  <2>1. ~solSending
    <3> SUFFICES ASSUME solSending PROVE FALSE
      BY <1>2 DEF SolInv
    <3>1. MidOK(solChain, solReq)
      BY <1>3 DEF Honoured, CarriedOut
    <3>2. /\ Payable(solChain, m) /\ Traded(solChain, m) # None /\ paid > 0 /\ withSlippage(paid, Slippage) # 0
      BY <1>1, <1>3, <1>4, <1>5, <3>1 DEF MidOK, SwapPays
    <3>3. PICK plan : plan = LoadPlan(solChain, solReq) /\ PlanOK(solReq, plan)
      BY <1>2, LoadPlanOK
    <3>4. paid \in Int
      <4>1. Mid(solReq) \in TokenAccounts
        BY <1>1, <1>2, PathFacts DEF TokenAccounts, IsSwap
      <4> QED BY <1>2, <1>3, <1>4, <3>2, <3>3, <4>1, PaidTypes
    <3> QED BY <1>8, <3>2, <3>4
  <2> QED BY <1>1, <1>8, <2>1, RefusedFresh
<1> QED BY <1>6, <1>7, <1>8

LEMMA MeasureFresh ==
    ASSUME SolInv, FreshPlan, measure
    PROVE  FreshPlan'
<1>1. solPhase = "loaded" /\ (Mid(solReq) # None => solPlan.mid > 0) /\ UNCHANGED <<solChain, solSending, solQuote>>
  BY DEF measure
<1>2. Shape(solReq) /\ solChain \in SolStates /\ PlanOK(solReq, solPlan) /\ solPlan \in SolPlans /\ solSending \in BOOLEAN
  BY <1>1 DEF SolInv, PlanOK
<1>3. /\ LoadOK(solChain, solReq) /\ (solSending => Honoured(solChain, solReq, solQuote))
      /\ MidOK(solChain, solReq) /\ solPlan = MidPlan(solChain, solReq)
  <2>1. LoadPlan(solChain, solReq).mid = 0
    BY <1>2, LoadFields
  <2> QED BY <1>1, <2>1 DEF FreshPlan
<1>4. solSending => MeasureOK(solChain, solReq)
  BY <1>3 DEF Honoured, CarriedOut
<1>5. ASSUME MeasureOK(solChain, solReq), Goes("measured", MeasuredPlan(solChain, solReq))
      PROVE  FreshPlan'
  <2>1. solPhase' = "measured" /\ solPlan' = MeasuredPlan(solChain, solReq) /\ UNCHANGED solReq
    BY <1>5 DEF Goes
  <2>2. CarriedOut(solChain, solReq)
    BY <1>3, <1>5 DEF CarriedOut
  <2> QED BY <1>1, <1>3, <2>1, <2>2 DEF FreshPlan
<1>6. PICK l : l = LimitOf(solChain, solReq)
  OBVIOUS
<1>7. CASE ~IsSwap(solReq)
  <2>1. \/ solChain.lamports < LamportsPerSignature /\ Refused(FALSE)
        \/ ~(solChain.lamports < LamportsPerSignature) /\ Goes("measured", [solPlan EXCEPT !.needed = l, !.limit = l])
    <3>1. l = limitFor(solChain.used)
      <4>1. solChain.used \in Nat
        BY <1>2 DEF SolStates
      <4> QED BY <1>6, <1>7, <4>1 DEF LimitOf
    <3> QED BY <1>7, <3>1 DEF measure, measureSend
  <2>2. solChain.lamports \in Nat /\ LamportsPerSignature \in Nat
    BY <1>2, StateParts, SolAssumption
  <2>3. MeasureOK(solChain, solReq) <=> ~(solChain.lamports < LamportsPerSignature)
    BY <1>7, <2>2 DEF MeasureOK
  <2>4. MeasuredPlan(solChain, solReq) = [solPlan EXCEPT !.needed = l, !.limit = l]
    <3>1. Mid(solReq) = None
      BY <1>7 DEF Mid
    <3>2. solPlan.out = 0
      <4>1. LoadPlan(solChain, solReq).out = 0
        BY <1>2, LoadFields
      <4> QED BY <1>3, <3>1, <4>1 DEF MidPlan
    <3>3. MeasuredPlan(solChain, solReq) = [solPlan EXCEPT !.out = 0, !.needed = l, !.limit = l]
      BY <1>3, <1>6, <1>7 DEF MeasuredPlan
    <3> QED BY <1>2, <3>2, <3>3 DEF SolPlans
  <2> QED BY <1>1, <1>2, <1>4, <1>5, <2>1, <2>3, <2>4, RefusedFresh
<1>8. CASE IsSwap(solReq)
  <2>1. PICK m, paid : m = instructions(solReq, solPlan, "measure") /\ paid = Held(Traded(solChain, m), Out(solReq)) - solPlan.before[Out(solReq)]
    OBVIOUS
  <2>2. \/ /\ Payable(solChain, m) /\ Traded(solChain, m) # None /\ ~(paid <= 0)
           /\ Goes("measured", [solPlan EXCEPT !.out = paid, !.needed = l, !.limit = l])
        \/ /\ ~(Payable(solChain, m) /\ Traded(solChain, m) # None /\ ~(paid <= 0))
           /\ \E fault : Refused(fault)
    <3>1. l = limitFor(solChain.used + (IF closes(solReq) # {} THEN CloseAllowance ELSE 0))
      BY <1>6, <1>8 DEF LimitOf
    <3> QED BY <1>8, <2>1, <3>1 DEF measure, measureSwap
  <2>3. Payable(solChain, m) /\ Traded(solChain, m) # None => paid \in Int
    <3>1. Out(solReq) \in TokenAccounts
      BY <1>2, <1>8, PathFacts DEF TokenAccounts
    <3> QED BY <1>2, <2>1, <3>1, PaidTypes
  <2>4. MeasureOK(solChain, solReq) <=> Payable(solChain, m) /\ Traded(solChain, m) # None /\ paid > 0
    BY <1>3, <1>8, <2>1 DEF MeasureOK, SwapPays, PaidBy
  <2>5. MeasuredPlan(solChain, solReq) = [solPlan EXCEPT !.out = paid, !.needed = l, !.limit = l]
    <3>1. paid = PaidBy(solChain, solReq, MidPlan(solChain, solReq), "measure", Out(solReq))
      BY <1>3, <2>1 DEF PaidBy
    <3> QED BY <1>3, <1>6, <1>8, <3>1 DEF MeasuredPlan
  <2>6. CASE /\ Payable(solChain, m) /\ Traded(solChain, m) # None /\ ~(paid <= 0)
             /\ Goes("measured", [solPlan EXCEPT !.out = paid, !.needed = l, !.limit = l])
    BY <1>5, <2>3, <2>4, <2>5, <2>6
  <2>7. CASE /\ ~(Payable(solChain, m) /\ Traded(solChain, m) # None /\ ~(paid <= 0))
             /\ \E fault : Refused(fault)
    <3>1. ~solSending
      BY <1>2, <1>4, <2>3, <2>4, <2>7
    <3> QED BY <1>1, <2>7, <3>1, RefusedFresh
  <2> QED BY <2>2, <2>6, <2>7
<1> QED BY <1>7, <1>8

LEMMA CheckFresh ==
    ASSUME SolInv, FreshPlan, Check
    PROVE  FreshPlan'
<1>1. solPhase = "measured" /\ UNCHANGED <<solChain, solSending, solQuote>>
  BY DEF Check
<1>2. Shape(solReq) /\ solChain \in SolStates /\ solSending \in BOOLEAN /\ (solSending => solReq.kind # "max")
  BY <1>1 DEF SolInv
<1>3. /\ CarriedOut(solChain, solReq) /\ solPlan = MeasuredPlan(solChain, solReq)
      /\ (solSending => Honoured(solChain, solReq, solQuote))
  BY <1>1 DEF FreshPlan
<1>4. CASE ~solSending
  <2>1. PICK plan : plan = [solPlan EXCEPT !.minOut = withSlippage(solPlan.out, Slippage)]
    OBVIOUS
  <2>2. Refused(TRUE) \/ precheck(WithAmount(plan))
    BY <1>4, <2>1 DEF Check
  <2>3. WithAmount(plan) = QuotedPlan(solChain, solReq)
    BY <1>3, <2>1 DEF WithAmount, QuotedPlan
  <2>4. (\E fault : Refused(fault)) \/ Goes("checked", QuotedPlan(solChain, solReq))
    BY <2>2, <2>3 DEF precheck
  <2>5. CASE Goes("checked", QuotedPlan(solChain, solReq))
    <3>1. solPhase' = "checked" /\ solPlan' = QuotedPlan(solChain, solReq) /\ UNCHANGED solReq
      BY <2>5 DEF Goes
    <3> QED BY <1>1, <1>3, <1>4, <3>1 DEF FreshPlan
  <2> QED BY <1>1, <1>4, <2>4, <2>5, RefusedFresh
<1>5. CASE solSending
  <2>1. PICK plan : plan = SendPlan(solChain, solReq, solQuote)
    OBVIOUS
  <2>2. /\ ApprovalCovers(solReq, solPlan, solQuote) /\ BalanceCovers(solReq, plan) /\ Honoured(solChain, solReq, solQuote)
    BY <1>3, <1>5, <2>1 DEF Honoured
  <2>3. Approved(solQuote)
    BY <2>2 DEF Approved, ApprovalCovers
  <2>4. precheck(plan)
    <3>1. plan = [solPlan EXCEPT !.limit = solQuote.limit, !.price = solQuote.price, !.minOut = SignedMin(solQuote)]
      BY <1>3, <2>1 DEF SendPlan, SignedMin
    <3> QED BY <1>5, <2>3, <3>1 DEF Check
  <2>5. Goes("checked", plan)
    BY <1>2, <1>5, <2>2, <2>4 DEF precheck, BalanceCovers
  <2>6. solPhase' = "checked" /\ solPlan' = plan /\ UNCHANGED solReq
    BY <2>5 DEF Goes
  <2> QED BY <1>1, <1>3, <1>5, <2>1, <2>2, <2>6 DEF FreshPlan
<1> QED BY <1>2, <1>4, <1>5

\* What the balance has to cover is a number.
LEMMA NeedTypes ==
    ASSUME NEW r, NEW plan, PlanOK(r, plan)
    PROVE  Need(r, plan) \in Nat /\ plan.balance \in Nat
<1>1. plan.balance \in Nat /\ plan.amount \in Nat /\ plan.limit \in Nat /\ plan.price \in Nat /\ plan.creates \in SUBSET TokenAccounts
  BY DEF PlanOK, SolPlans
<1>2. networkFee(plan.limit, plan.price) \in Nat /\ Rent \in Nat
  BY <1>1, NetworkFeeTypes, SolAssumption
<1>3. rent(r, plan) \in Nat
  <2>1. persistentCreates(r, plan) \in Nat
    BY <1>1, AccountsFinite DEF persistentCreates
  <2> QED BY <1>2, <2>1 DEF rent
<1>4. cost(r, plan) \in Nat
  BY <1>2, <1>3 DEF cost
<1> QED BY <1>1, <1>2, <1>4 DEF Need

\* The answer on the message of a plan.
LEMMA VerdictMeans ==
    ASSUME Shape(solReq), solChain \in SolStates, NEW plan, PlanOK(solReq, plan)
    PROVE  verdict(plan) = "fine" <=> PassesVerdict(solChain, solReq, plan)
<1>1. PICK m : m = instructions(solReq, plan, "final")
  OBVIOUS
<1>2. MessageOK(m)
  BY <1>1, MessageFine
<1>3. PICK u \in Nat : u = ComputeUsed(solChain, m)
  <2>1. solChain.used \in Nat /\ solChain.surplus \in Nat
    BY DEF SolStates
  <2> QED BY <2>1 DEF ComputeUsed
<1>4. m.limit \in Nat
  BY <1>2 DEF MessageOK
<1>5. Succeeds(solChain, m) => Payable(solChain, m) /\ u <= m.limit
  BY <1>3 DEF Succeeds
<1>6. PassesVerdict(solChain, solReq, plan) <=> Succeeds(solChain, m) /\ PaysMinimum(plan)
  BY <1>1 DEF PassesVerdict, PaysMinimum
<1>7. CASE ~Payable(solChain, m)
  <2>1. verdict(plan) = "wallet"
    BY <1>1, <1>7 DEF verdict
  <2> QED BY <1>5, <1>6, <1>7, <2>1
<1>8. CASE Payable(solChain, m) /\ u > m.limit
  <2>1. verdict(plan) = "route"
    BY <1>1, <1>3, <1>4, <1>8 DEF verdict
  <2> QED BY <1>3, <1>4, <1>5, <1>6, <1>8, <2>1
<1>9. CASE Payable(solChain, m) /\ u <= m.limit /\ ~Succeeds(solChain, m)
  <2>1. verdict(plan) \in {"route", "wallet"}
    BY <1>1, <1>3, <1>4, <1>9 DEF verdict
  <2> QED BY <1>6, <1>9, <2>1
<1>10. CASE Succeeds(solChain, m)
  <2>1. verdict(plan) = IF PaysMinimum(plan) THEN "fine" ELSE "route"
    BY <1>1, <1>3, <1>4, <1>5, <1>10 DEF verdict
  <2> QED BY <1>6, <1>10, <2>1
<1> QED BY <1>3, <1>4, <1>7, <1>8, <1>9, <1>10

\* The quote that is shown.
LEMMA ShownFresh ==
    ASSUME SolInv, solPhase = "checked", ~solSending, CarriedOut(solChain, solReq), solPlan = QuotedPlan(solChain, solReq),
           NEW plan, plan = raised(solPlan), BalanceCovers(solReq, plan), verdict(plan) = "fine"
    PROVE  Honoured(solChain, SendReq(solReq, Quote(plan)), Quote(plan))
<1>1. Shape(solReq) /\ solChain \in SolStates /\ PlanOK(solReq, solPlan) /\ solPlan \in SolPlans
  BY DEF SolInv, PlanOK
<1>2. PICK k \in Nat : k = LimitOf(solChain, solReq) /\ k <= MaxLimit /\ solPlan.limit = k
  <2>1. PICK b : b = MeasuredPlan(solChain, solReq)
    OBVIOUS
  <2>2. MidOK(solChain, solReq) /\ MeasureOK(solChain, solReq)
    BY DEF CarriedOut
  <2>3. /\ LimitOf(solChain, solReq) \in Nat /\ LimitOf(solChain, solReq) <= MaxLimit /\ b \in SolPlans
        /\ b.limit = LimitOf(solChain, solReq)
    BY <1>1, <2>1, <2>2, MeasuredPlanOK
  <2>4. PICK w : w = [b EXCEPT !.minOut = withSlippage(b.out, Slippage)]
    OBVIOUS
  <2>5. w.limit = b.limit /\ [w EXCEPT !.amount = w.balance - cost(solReq, w)].limit = w.limit
    <3>1. PICK y, z : y = withSlippage(b.out, Slippage) /\ z = w.balance - cost(solReq, w)
      OBVIOUS
    <3>2. w = [b EXCEPT !.minOut = y]
      BY <2>4, <3>1
    <3>3. w.limit = b.limit /\ [w EXCEPT !.amount = z].limit = w.limit
      BY <2>3, <3>2 DEF SolPlans
    <3> QED BY <3>1, <3>3
  <2>6. solPlan = w \/ solPlan = [w EXCEPT !.amount = w.balance - cost(solReq, w)]
    BY <2>1, <2>4 DEF QuotedPlan
  <2> QED BY <2>3, <2>5, <2>6
<1>3. PICK l \in Nat : l >= k /\ plan = [solPlan EXCEPT !.limit = l]
  <2>1. limitFor(k) \in Nat /\ limitFor(k) >= k
    BY <1>2, LimitTypes, LimitsGrow
  <2>2. CASE plan = [solPlan EXCEPT !.limit = limitFor(k)]
    BY <2>1, <2>2
  <2>3. CASE plan = solPlan
    <3>1. solPlan = [solPlan EXCEPT !.limit = k]
      BY <1>1, <1>2 DEF SolPlans
    <3> QED BY <2>3, <3>1
  <2> QED BY <1>2, <2>2, <2>3 DEF raised
<1>4. PlanOK(solReq, plan)
  <2>1. PlanOK(solReq, [solPlan EXCEPT !.limit = l])
    BY <1>1, <1>3, PlanChanges
  <2> QED BY <1>3, <2>1
<1>5. PassesVerdict(solChain, solReq, plan)
  BY <1>1, <1>4, VerdictMeans
<1>6. PICK q : q = Quote(plan)
  OBVIOUS
<1>7. /\ q.amount = plan.amount /\ q.limit = plan.limit /\ q.price = plan.price /\ q.minOut = plan.minOut
      /\ q.creates = persistentCreates(solReq, plan) /\ q.rent = rent(solReq, plan)
  BY <1>6 DEF Quote
<1>8. PlanOK(solReq, QuotedPlan(solChain, solReq)) /\ plan = [QuotedPlan(solChain, solReq) EXCEPT !.limit = l] /\ l >= LimitOf(solChain, solReq)
  BY <1>1, <1>2, <1>3
<1>9. Honoured(solChain, SendReq(solReq, q), q)
  BY <1>1, <1>3, <1>5, <1>7, <1>8, QuoteHonoured
<1> QED BY <1>6, <1>9

LEMMA VerdictFresh ==
    ASSUME SolInv, FreshPlan, Verdict
    PROVE  FreshPlan'
<1>1. solPhase = "checked" /\ UNCHANGED <<solChain, solSending>>
  BY DEF Verdict
<1>2. Shape(solReq) /\ solChain \in SolStates /\ solSending \in BOOLEAN /\ PlanOK(solReq, solPlan)
  BY <1>1 DEF SolInv
<1>3. CarriedOut(solChain, solReq)
  BY <1>1 DEF FreshPlan
<1>4. PICK plan : plan = IF solSending THEN solPlan ELSE raised(solPlan)
  OBVIOUS
<1>5. PICK short : short = IF solReq.kind = "close" THEN 0 ELSE Need(solReq, plan) - plan.balance
  OBVIOUS
<1>6. PICK answer : answer = IF short > 0 THEN (IF short <= routeOnlyRent(solReq, plan) THEN "route" ELSE "wallet") ELSE verdict(plan)
  OBVIOUS
<1>7. \/ answer # "fine" /\ (\E fault : Refused(fault)) /\ UNCHANGED solQuote
      \/ answer = "fine" /\ solSending /\ Goes("signed", NoPlan) /\ UNCHANGED solQuote
      \/ answer = "fine" /\ ~solSending /\ Goes("shown", NoPlan) /\ solQuote' = Quote(plan)
  BY <1>4, <1>5, <1>6 DEF Verdict
<1>8. PlanOK(solReq, plan)
  <2>1. limitFor(solPlan.limit) \in Nat
    BY <1>2, LimitTypes DEF PlanOK, SolPlans
  <2>2. PlanOK(solReq, [solPlan EXCEPT !.limit = limitFor(solPlan.limit)])
    BY <1>2, <2>1, PlanChanges
  <2> QED BY <1>2, <1>4, <2>2 DEF raised
<1>9. short > 0 <=> ~BalanceCovers(solReq, plan)
  <2>1. Need(solReq, plan) \in Nat /\ plan.balance \in Nat
    BY <1>8, NeedTypes
  <2> QED BY <1>5, <2>1 DEF BalanceCovers
<1>10. CASE solSending
  <2>1. solPlan = SendPlan(solChain, solReq, solQuote) /\ Honoured(solChain, solReq, solQuote)
    BY <1>1, <1>10 DEF FreshPlan
  <2>2. BalanceCovers(solReq, plan) /\ PassesVerdict(solChain, solReq, plan)
    BY <1>4, <1>10, <2>1 DEF Honoured
  <2>3. answer = "fine"
    <3>1. verdict(plan) = "fine"
      BY <1>2, <1>8, <2>2, VerdictMeans
    <3> QED BY <1>6, <1>9, <2>2, <3>1
  <2>4. solPhase' = "signed"
    BY <1>7, <1>10, <2>3 DEF Goes
  <2> QED BY <2>4 DEF FreshPlan
<1>11. CASE ~solSending /\ answer = "fine"
  <2>1. solPhase' = "shown" /\ UNCHANGED solReq /\ solQuote' = Quote(plan) /\ ~solSending'
    BY <1>1, <1>7, <1>11 DEF Goes
  <2>2. BalanceCovers(solReq, plan) /\ verdict(plan) = "fine"
    BY <1>6, <1>9, <1>11
  <2>3. solPlan = QuotedPlan(solChain, solReq)
    BY <1>1, <1>11 DEF FreshPlan
  <2>4. Honoured(solChain, SendReq(solReq, Quote(plan)), Quote(plan))
    BY <1>1, <1>3, <1>4, <1>11, <2>2, <2>3, ShownFresh
  <2> QED BY <1>1, <2>1, <2>4 DEF FreshPlan
<1>12. CASE ~solSending /\ answer # "fine"
  BY <1>1, <1>7, <1>12, RefusedFresh
<1> QED BY <1>2, <1>10, <1>11, <1>12

LEMMA ApproveFresh ==
    ASSUME SolInv, FreshPlan, Approve
    PROVE  FreshPlan'
<1>1. solPhase = "shown" /\ solPhase' = "asked" /\ UNCHANGED <<solChain, solQuote>> /\ solReq' = SendReq(solReq, solQuote)
  BY DEF Approve, SendReq
<1>2. Honoured(solChain, SendReq(solReq, solQuote), solQuote)
  BY <1>1 DEF FreshPlan
<1> QED BY <1>1, <1>2 DEF FreshPlan

\* The plan stays fresh, or the chain has moved.
LEMMA SolNextFresh == SolInv /\ FreshInv /\ (SolNext \/ UNCHANGED solVars) => FreshInv'
<1> SUFFICES ASSUME SolInv, FreshInv, SolNext \/ UNCHANGED solVars PROVE FreshInv'
  OBVIOUS
<1>1. solSeen \in Nat /\ solMoves \in Nat /\ solSeen <= solMoves /\ (solMoves = solSeen => FreshPlan)
  BY DEF FreshInv
<1>2. ASSUME NEW r \in SolRequests, Ask(r) PROVE FreshInv'
  <2>1. solPhase' = "asked" /\ solSeen' = solMoves /\ solMoves' = solMoves /\ ~solSending'
    BY <1>2 DEF Ask, SolInv
  <2> QED BY <1>1, <2>1 DEF FreshInv, FreshPlan
<1>3. CASE Move
  <2>1. solMoves' = solMoves + 1 /\ solSeen' = solSeen
    BY <1>3 DEF Move
  <2> QED BY <1>1, <2>1 DEF FreshInv
<1>4. ASSUME UNCHANGED <<solMoves, solSeen>>, FreshPlan => FreshPlan' PROVE FreshInv'
  BY <1>1, <1>4 DEF FreshInv
<1>5. CASE prepareSOL \/ prepareToken \/ prepareClose \/ loadSwap
  BY <1>4, <1>5, LoadsRead, LoadsFresh
<1>6. CASE RouteRejected
  <2>1. ~solSending /\ UNCHANGED <<solMoves, solSeen, solSending>> /\ Refused(TRUE)
    BY <1>6 DEF RouteRejected
  <2> QED BY <1>4, <2>1, RefusedFresh
<1>7. CASE MeasureMid
  BY <1>4, <1>7, MeasureMidFresh DEF MeasureMid
<1>8. CASE measure
  BY <1>4, <1>8, MeasureFresh DEF measure
<1>9. CASE Check
  BY <1>4, <1>9, CheckFresh DEF Check
<1>10. CASE Verdict
  BY <1>4, <1>10, VerdictFresh DEF Verdict
<1>11. CASE Approve
  BY <1>4, <1>11, ApproveFresh DEF Approve
<1>12. CASE SolLand
  <2>1. solPhase' = "done" /\ UNCHANGED <<solMoves, solSeen>>
    BY <1>12 DEF SolLand
  <2>2. FreshPlan'
    BY <2>1 DEF FreshPlan
  <2> QED BY <1>4, <2>1, <2>2
<1>13. CASE UNCHANGED solVars
  <2>1. UNCHANGED <<solMoves, solSeen, solChain, solPhase, solSending, solReq, solPlan, solQuote>>
    BY <1>13 DEF solVars
  <2>2. FreshPlan => FreshPlan'
    BY <2>1 DEF FreshPlan
  <2> QED BY <1>4, <2>1, <2>2
<1> QED BY <1>2, <1>3, <1>5, <1>6, <1>7, <1>8, <1>9, <1>10, <1>11, <1>12, <1>13 DEF SolNext

LEMMA SolInitFresh == SolInit => FreshInv
BY DEF SolInit, FreshInv, FreshPlan

LEMMA FreshIsInvariant == AdaptersSpec => []FreshInv
<1>1. AdaptersInit => FreshInv
  BY SolInitFresh DEF AdaptersInit
<1>2. SolInv /\ FreshInv /\ [AdaptersNext]_adapterVars => FreshInv'
  <2>1. [AdaptersNext]_adapterVars => SolNext \/ UNCHANGED solVars
    BY DEF AdaptersNext, EvmStep, SolanaStep, TronStep, SunSwapStep, adapterVars
  <2> QED BY <2>1, SolNextFresh
<1> QED BY <1>1, <1>2, SolanaIsInvariant, PTL DEF AdaptersSpec

\* A Solana request that is approved while nothing moved is not refused, for
\* any requests, fee parameters and chain: the send computes the plan of the
\* quote again and every check of it passes (Send, Close, Swap).
THEOREM FreshQuotesPass == AdaptersSpec => []FreshQuoteIsHonoured
<1>1. FreshInv => FreshQuoteIsHonoured
  BY DEF FreshInv, FreshPlan, FreshQuoteIsHonoured
<1> QED BY <1>1, FreshIsInvariant, PTL

-----------------------------------------------------------------------------
(* Tron.                                                                   *)

\* What the wallet states for a request, the stake behind units included.
IntentFor(r, intent, rate) ==
    \/ r.kind = "trx" /\ intent = [NoBody EXCEPT !.type = "transfer", !.to = r.to, !.amount = r.amount]
    \/ r.kind = "trc20" /\ intent = trc20Intent(r)
    \/ r.kind = "swap" /\ intent = swapIntent(r)
    \/ r.kind \in {"stake", "unstake"} /\ intent = resourceIntent(r.kind, r, r.amount)
    \/ r.kind \in {"delegate", "reclaim"} /\ intent = resourceIntent(r.kind, r, StakeFor(r.amount, rate))
    \/ r.kind = "reclaimAll" /\ intent = resourceIntent("reclaim", r, intent.amount)
    \/ r.kind \in {"withdraw", "cancel"} /\ intent = ownerIntent(r.kind)
    \/ r.kind = "deploy" /\ intent = deployIntent(r)

\* What verify says of a transaction beside its times.
VerifiedBody(tx) ==
    /\ tx.contracts = 1 /\ tx.memo = 0 /\ tx.unknown = 0
    /\ Same(tx, {"feeLimit", "type", "permission"})
    /\ verifyParameter(tx)

\* An honest answer waits as the node wrote it; one that was refused had run
\* out; one that was signed is the intent, and runs out in time.
TronInv ==
    /\ trTime \in Nat /\ trTime > 0 /\ trSkew \in Skews /\ trAt \in Nat
    /\ trPhase \in {"idle", "asked", "answered", "signed", "refused", "done"}
    /\ trPhase # "idle" => IntentFor(trReq, trIntent, trRate)
    /\ trPhase \in {"answered", "signed", "refused", "done"} => trTx.expires \in Nat
    /\ trPhase = "answered" /\ trHonest =>
         \E built \in 1..trTime : trTx = Header(HonestBody, built, built + NodeLifetime)
    /\ trPhase = "refused" /\ trHonest => trAt > trTx.expires
    /\ trPhase \in {"signed", "done"} => VerifiedBody(trTx) /\ trTx.expires <= trAt + trSkew + Lifetime
    /\ trPhase = "done" => trTime <= trTx.expires

\* The first states.
LEMMA TronInitInv == TronInit => TronInv
BY DEF TronInit, TronInv

\* A division rounded up is the least multiple that suffices.
LEMMA StakeIsLeast ==
    ASSUME NEW units \in Nat, NEW rate \in StakeRates, stakeBehind(units, rate) > 0
    PROVE  stakeBehind(units, rate) = StakeFor(units, rate)
<1>1. rate.weight \in Nat /\ rate.limit \in Nat /\ rate.limit > 0
  BY TronAssumption
<1>2. PICK n \in Nat : n = units * rate.weight
  BY <1>1
<1>3. PICK l \in Nat : l = rate.limit /\ l > 0
  BY <1>1
<1>4. PICK q \in Nat : q = stakeBehind(units, rate) /\ q * l <= n + l - 1 /\ n + l - 1 < q * l + l /\ q > 0
  <2>1. n + l - 1 \in Nat
    BY <1>3
  <2>2. PICK m \in Nat : m = n + l - 1
    BY <2>1
  <2>3. (m \div l) * l <= m /\ m < (m \div l) * l + l /\ m \div l \in Nat
    BY <1>3, <2>2
  <2>4. stakeBehind(units, rate) = m \div l
    BY <1>2, <1>3, <2>2 DEF stakeBehind
  <2> QED BY <2>2, <2>3, <2>4
<1>5. PICK ql \in Nat : ql = q * l
  OBVIOUS
<1>6. n <= ql /\ ql <= n + l - 1
  BY <1>4, <1>5
<1>7. n >= 1
  <2>1. CASE n = 0
    <3>1. ql >= l
      BY <1>3, <1>4, <1>5
    <3> QED BY <1>3, <1>6, <2>1, <3>1
  <2> QED BY <2>1
<1>8. q <= n
  <2> SUFFICES ASSUME q >= n + 1 PROVE FALSE
    OBVIOUS
  <2>1. q * l >= (n + 1) * l
    BY <1>3
  <2>2. PICK nl \in Nat : nl = n * l
    OBVIOUS
  <2>3. (n + 1) * l = nl + l
    BY <2>2
  <2>4. nl >= n
    BY <1>3, <2>2
  <2> QED BY <1>5, <1>6, <2>1, <2>3, <2>4
<1>9. PICK S \in SUBSET Nat : S = {sun \in 1..n : sun * l >= n}
  <2>1. {sun \in 1..n : sun * l >= n} \subseteq Nat
    OBVIOUS
  <2> QED BY <2>1
<1>10. q \in S
  BY <1>4, <1>5, <1>6, <1>8, <1>9
<1>11. ASSUME NEW s \in S PROVE q <= s
  <2> SUFFICES ASSUME s + 1 <= q PROVE FALSE
    BY <1>9
  <2>1. s \in Nat /\ s * l >= n
    BY <1>9
  <2>2. PICK sl \in Nat : sl = s * l
    BY <2>1
  <2>3. (s + 1) * l <= q * l
    BY <1>3, <2>1
  <2>4. (s + 1) * l = sl + l
    BY <2>1, <2>2
  <2> QED BY <1>5, <1>6, <2>1, <2>2, <2>3, <2>4, <1>3
<1>12. Min(S) \in S /\ Min(S) <= q
  BY <1>10, MinIsLeast
<1>13. Min(S) = q
  <2>1. Min(S) \in Nat /\ q <= Min(S)
    BY <1>11, <1>12
  <2> QED BY <1>12, <2>1
<1>14. StakeFor(units, rate) = Min(S)
  BY <1>2, <1>3, <1>9 DEF StakeFor
<1> QED BY <1>4, <1>13, <1>14

\* Every operation states what the request asks for.
LEMMA TronAskInv ==
    ASSUME TronInv, NEW r \in TronRequests,
           \/ SendTRX(r) \/ SendToken(r) \/ Trade(r) \/ Stake(r) \/ Unstake(r) \/ Delegate(r)
           \/ Reclaim(r) \/ ReclaimAll(r) \/ WithdrawUnstaked(r) \/ CancelUnstakes(r) \/ Deploy(r)
    PROVE  TronInv'
<1>1. r.amount \in Nat
  BY TronAssumption
<1>2. ASSUME NEW intent, NEW rate, AskNode(r, intent, rate), IntentFor(r, intent, rate)
      PROVE  TronInv'
  <2>1. UNCHANGED <<trTime, trSkew, trAt>> /\ trPhase' = "asked" /\ trReq' = r /\ trIntent' = intent /\ trRate' = rate
    BY <1>2 DEF AskNode, trNode
  <2>2. IntentFor(trReq', trIntent', trRate')
    BY <1>2, <2>1
  <2> QED BY <2>1, <2>2 DEF TronInv
<1>3. CASE SendTRX(r)
  BY <1>2, <1>3 DEF SendTRX, IntentFor
<1>4. CASE SendToken(r)
  BY <1>2, <1>4 DEF SendToken, IntentFor
<1>5. CASE Trade(r)
  BY <1>2, <1>5 DEF Trade, IntentFor
<1>6. CASE Stake(r)
  BY <1>2, <1>6 DEF Stake, IntentFor
<1>7. CASE Unstake(r)
  BY <1>2, <1>7 DEF Unstake, IntentFor
<1>8. CASE Delegate(r)
  <2>1. PICK rate \in StakeRates : stakeBehind(r.amount, rate) > 0
                                   /\ AskNode(r, resourceIntent("delegate", r, stakeBehind(r.amount, rate)), rate)
    BY <1>8 DEF Delegate
  <2>2. r.kind = "delegate" /\ stakeBehind(r.amount, rate) = StakeFor(r.amount, rate)
    BY <1>1, <1>8, <2>1, StakeIsLeast DEF Delegate
  <2> QED BY <1>2, <2>1, <2>2 DEF IntentFor
<1>9. CASE Reclaim(r)
  <2>1. PICK rate \in StakeRates : stakeBehind(r.amount, rate) > 0
                                   /\ AskNode(r, resourceIntent("reclaim", r, stakeBehind(r.amount, rate)), rate)
    BY <1>9 DEF Reclaim
  <2>2. r.kind = "reclaim" /\ stakeBehind(r.amount, rate) = StakeFor(r.amount, rate)
    BY <1>1, <1>9, <2>1, StakeIsLeast DEF Reclaim
  <2> QED BY <1>2, <2>1, <2>2 DEF IntentFor
<1>10. CASE ReclaimAll(r)
  <2>1. PICK sun : AskNode(r, resourceIntent("reclaim", r, sun), None) /\ r.kind = "reclaimAll"
    BY <1>10 DEF ReclaimAll
  <2>2. resourceIntent("reclaim", r, sun).amount = sun
    BY DEF resourceIntent, NoBody
  <2> QED BY <1>2, <2>1, <2>2 DEF IntentFor
<1>11. CASE WithdrawUnstaked(r)
  BY <1>2, <1>11 DEF WithdrawUnstaked, IntentFor
<1>12. CASE CancelUnstakes(r)
  BY <1>2, <1>12 DEF CancelUnstakes, IntentFor
<1>13. CASE Deploy(r)
  BY <1>2, <1>13 DEF Deploy, IntentFor
<1> QED BY <1>3, <1>4, <1>5, <1>6, <1>7, <1>8, <1>9, <1>10, <1>11, <1>12, <1>13

\* A header writes the times and nothing else.
LEMMA HeaderFields ==
    ASSUME NEW tx, NEW built, NEW expires
    PROVE  /\ Header(tx, built, expires).built = built /\ Header(tx, built, expires).expires = expires
           /\ \A f \in DOMAIN tx \ {"built", "expires"} : Header(tx, built, expires)[f] = tx[f]
BY DEF Header

\* A node answers, as it likes.
LEMMA TronAnswerInv ==
    ASSUME TronInv, AnswerHonestly \/ AnswerOtherwise
    PROVE  TronInv'
<1>1. /\ trPhase = "asked" /\ trPhase' = "answered"
      /\ UNCHANGED <<trTime, trSkew, trLoans, trReq, trIntent, trRate, trAt, trLanded>>
  BY DEF AnswerHonestly, AnswerOtherwise, trNode
<1>2. IntentFor(trReq', trIntent', trRate')
  BY <1>1 DEF TronInv
<1>3. NodeLifetime \in Nat /\ MaxTime + Lifetime \in Nat /\ trTime \in Nat /\ trTime > 0
  BY TronAssumption DEF TronInv
<1>4. CASE AnswerHonestly
  <2>1. trTx' = Header(HonestBody, trTime, trTime + NodeLifetime) /\ HonestBody' = HonestBody
    BY <1>1, <1>4 DEF AnswerHonestly, HonestBody
  <2>2. trTx'.expires \in Nat
    BY <1>3, <2>1, HeaderFields
  <2>3. trTx' = Header(HonestBody', trTime, trTime + NodeLifetime)
    BY <2>1
  <2> QED BY <1>1, <1>2, <1>3, <2>2, <2>3 DEF TronInv, Header
<1>5. CASE AnswerOtherwise
  <2>1. trTx'.expires \in Nat /\ trHonest' = FALSE
    <3>1. CASE \E f \in DOMAIN Instead : \E v \in Instead[f] :
                 trTx' = Header([HonestBody EXCEPT ![f] = v], trTime, trTime + NodeLifetime)
      BY <1>3, <1>5, <3>1, HeaderFields DEF AnswerOtherwise
    <3>2. CASE \E built, expires \in 0..(MaxTime + Lifetime) : trTx' = Header(HonestBody, built, expires)
      BY <1>3, <1>5, <3>2, HeaderFields DEF AnswerOtherwise
    <3> QED BY <1>5, <3>1, <3>2 DEF AnswerOtherwise
  <2> QED BY <1>1, <1>2, <2>1 DEF TronInv
<1> QED BY <1>4, <1>5

\* The intent has a type verify knows, and asks for nothing of its own.
LEMMA IntentTypes ==
    ASSUME NEW r, NEW rate, IntentFor(r, trIntent, rate)
    PROVE  /\ trIntent.type \in {"transfer", "trigger", "stake", "unstake", "delegate", "reclaim", "withdraw", "cancel", "deploy"}
           /\ trIntent.permission = 0
           /\ trIntent.type = "deploy" => trIntent.value = 0 /\ trIntent.data = <<"code">>
BY DEF IntentFor, NoBody, trc20Intent, swapIntent, resourceIntent, ownerIntent, deployIntent

\* An honest answer has the body that was asked for.
LEMMA HonestIsVerified ==
    ASSUME NEW r, NEW rate, IntentFor(r, trIntent, rate), NEW built, NEW expires
    PROVE  VerifiedBody(Header(HonestBody, built, expires))
<1>1. PICK tx : tx = Header(HonestBody, built, expires)
  OBVIOUS
<1>2. \A f \in DOMAIN NoBody : tx[f] = trIntent[f]
  BY <1>1, HeaderFields DEF HonestBody, NoBody
<1>3. tx.token = 0 /\ tx.lock = FALSE /\ tx.memo = 0 /\ tx.unknown = 0 /\ tx.contracts = 1
  BY <1>1, HeaderFields DEF HonestBody, NoBody, NoExtras
<1>4. \A fields \in SUBSET DOMAIN NoBody : Same(tx, fields)
  BY <1>2 DEF Same
<1>5. trIntent.type = "deploy" => tx.value = 0 /\ IsPrefix(trIntent.data, tx.data)
  <2>1. tx.value = trIntent.value /\ tx.data = trIntent.data
    BY <1>2 DEF NoBody
  <2>2. IsPrefix(<<"code">>, <<"code">>)
    BY DEF IsPrefix
  <2> QED BY <2>1, <2>2, IntentTypes
<1>6. /\ Same(tx, {"feeLimit", "type", "permission"}) /\ Same(tx, {"owner", "to", "amount"})
      /\ Same(tx, {"owner", "contract", "data", "value"}) /\ Same(tx, {"owner", "amount", "resource"})
      /\ Same(tx, {"owner", "to", "amount", "resource"}) /\ Same(tx, {"owner"})
      /\ Same(tx, {"owner", "name", "percent", "energy"})
  BY <1>4 DEF NoBody
<1>7. verifyParameter(tx)
  BY <1>3, <1>5, <1>6, IntentTypes DEF verifyParameter
<1> QED BY <1>1, <1>3, <1>6, <1>7 DEF VerifiedBody

\* What is signed was compared; what is refused although honest had run out.
LEMMA TronSubmitInv ==
    ASSUME TronInv, submitWithSigner
    PROVE  TronInv'
<1>1. /\ trPhase = "answered" /\ trAt' = trTime /\ trPhase' \in {"signed", "refused"}
      /\ (trPhase' = "signed" => verify(trTx)) /\ (trPhase' = "refused" => ~verify(trTx))
      /\ UNCHANGED <<trTime, trSkew, trLoans, trReq, trIntent, trRate, trHonest, trTx, trLanded>>
  BY DEF submitWithSigner, trNode
<1>2. trTime \in Nat /\ trSkew \in Int /\ trTx.expires \in Nat /\ IntentFor(trReq, trIntent, trRate) /\ -ClockSkew <= trSkew /\ trSkew <= ClockSkew
  BY <1>1, TronAssumption DEF TronInv
<1>3. {Lifetime, ClockSkew, NodeLifetime} \subseteq Nat /\ NodeLifetime > 0 /\ NodeLifetime + ClockSkew <= Lifetime
  BY TronAssumption
<1>4. ASSUME trPhase' = "signed" PROVE VerifiedBody(trTx) /\ trTx.expires <= trTime + trSkew + Lifetime
  <2>1. VerifiedBody(trTx) /\ ~LivesTooLong(trTx)
    BY <1>1, <1>4 DEF verify, VerifiedBody, verifyHeader
  <2> QED BY <1>2, <1>3, <2>1 DEF LivesTooLong, Now
<1>5. ASSUME trPhase' = "refused", trHonest PROVE trTime > trTx.expires
  <2>1. PICK built \in Nat : built > 0 /\ built <= trTime /\ trTx = Header(HonestBody, built, built + NodeLifetime)
    BY <1>1, <1>5 DEF TronInv
  <2>2. trTx.built = built /\ trTx.expires = built + NodeLifetime
    BY <2>1, HeaderFields
  <2>3. VerifiedBody(trTx)
    BY <1>2, <2>1, HonestIsVerified
  <2>4. ~verifyHeader(trTx)
    BY <1>1, <1>5, <2>3 DEF verify, VerifiedBody
  <2> QED BY <1>2, <1>3, <2>1, <2>2, <2>4 DEF verifyHeader, Expired, LivesTooLong, Now
<1>6. VerifiedBody(trTx) => VerifiedBody(trTx)'
  BY <1>1 DEF VerifiedBody, Same, verifyParameter
<1>7. IntentFor(trReq', trIntent', trRate')
  BY <1>1, <1>2
<1> QED BY <1>1, <1>2, <1>4, <1>5, <1>6, <1>7 DEF TronInv

\* The chain takes it, time passes, or another adapter is at work.
LEMMA TronRestInv ==
    ASSUME TronInv, TronLand \/ TronTick \/ UNCHANGED trVars
    PROVE  TronInv'
<1>1. UNCHANGED <<trSkew, trReq, trIntent, trRate, trHonest, trTx, trAt>>
  BY DEF TronLand, TronTick, trVars, trNode
<1>2. IntentFor(trReq, trIntent, trRate) => IntentFor(trReq', trIntent', trRate')
  BY <1>1
<1>3. VerifiedBody(trTx) => VerifiedBody(trTx)'
  BY <1>1 DEF VerifiedBody, Same, verifyParameter
<1>4. HonestBody' = HonestBody
  BY <1>1 DEF HonestBody
<1>5. \/ trPhase = "signed" /\ trPhase' = "done" /\ trTime' = trTime /\ trTime <= trTx.expires
      \/ trPhase' = trPhase /\ trTime' = trTime + 1 /\ trPhase \notin {"refused", "done"}
      \/ trPhase' = trPhase /\ trTime' = trTime
  BY DEF TronLand, TronTick, trVars, trNode
<1>6. trTime' \in Nat /\ trTime' > 0 /\ trTime <= trTime'
  BY <1>5 DEF TronInv
<1>7. trPhase' = "answered" /\ trHonest' =>
        \E built \in Nat : built > 0 /\ built <= trTime' /\ trTx' = Header(HonestBody', built, built + NodeLifetime)
  <2> SUFFICES ASSUME trPhase' = "answered", trHonest'
               PROVE  \E built \in Nat : built > 0 /\ built <= trTime' /\ trTx' = Header(HonestBody', built, built + NodeLifetime)
    OBVIOUS
  <2>1. PICK built \in Nat : built > 0 /\ built <= trTime /\ trTx = Header(HonestBody, built, built + NodeLifetime)
    BY <1>1, <1>5 DEF TronInv
  <2>2. built <= trTime' /\ trTx' = Header(HonestBody', built, built + NodeLifetime)
    BY <1>1, <1>4, <1>6, <2>1 DEF TronInv
  <2> QED BY <2>1, <2>2
<1> QED BY <1>1, <1>2, <1>3, <1>5, <1>6, <1>7 DEF TronInv, Header

\* All steps.
LEMMA TronNextInv == TronInv /\ (TronNext \/ UNCHANGED trVars) => TronInv'
<1> SUFFICES ASSUME TronInv, TronNext \/ UNCHANGED trVars PROVE TronInv'
  OBVIOUS
<1> QED BY TronAskInv, TronAnswerInv, TronSubmitInv, TronRestInv DEF TronNext

\* The greatest of some skews.
LEMMA MaxSkew ==
    ASSUME NEW skew \in Skews
    PROVE  Max(Skews) \in Skews /\ skew <= Max(Skews)
<1>1. ClockSkew \in Nat /\ \A s \in Skews : s \in Int /\ s <= ClockSkew
  BY TronAssumption
<1>2. PICK S \in SUBSET Nat : S = {ClockSkew - s : s \in Skews}
  <2>1. \A s \in Skews : ClockSkew - s \in Nat
    BY <1>1
  <2>2. {ClockSkew - s : s \in Skews} \subseteq Nat
    BY <2>1
  <2> QED BY <2>2
<1>3. Min(S) \in S /\ \A y \in S : Min(S) <= y
  <2>1. ClockSkew - skew \in S
    BY <1>2
  <2> QED BY <2>1, MinIsLeast
<1>4. PICK m \in Skews : Min(S) = ClockSkew - m
  BY <1>2, <1>3
<1>5. \A s \in Skews : m >= s
  <2> SUFFICES ASSUME NEW s \in Skews PROVE m >= s
    OBVIOUS
  <2>1. ClockSkew - m <= ClockSkew - s
    BY <1>2, <1>3, <1>4
  <2> QED BY <1>1, <2>1
<1>6. Max(Skews) \in Skews /\ \A s \in Skews : Max(Skews) >= s
  BY <1>5 DEF Max
<1> QED BY <1>1, <1>6

\* The intent and a body that matches it make the effect that was wanted.
LEMMA TronAskedInv == TronInv => SignedIsAsked
<1> SUFFICES ASSUME TronInv, trPhase \in {"signed", "done"}
             PROVE  /\ trReq.kind # "reclaimAll" => Effect(trTx) = Wanted(trReq)
                    /\ trTx.contracts = 1 /\ trTx.memo = 0 /\ trTx.unknown = 0 /\ trTx.permission = 0
  BY DEF SignedIsAsked
<1>1. VerifiedBody(trTx) /\ IntentFor(trReq, trIntent, trRate)
  BY DEF TronInv
<1>2. trTx.type = trIntent.type /\ trTx.feeLimit = trIntent.feeLimit /\ trTx.permission = trIntent.permission
  BY <1>1 DEF VerifiedBody, Same
<1>3. verifyParameter(trTx)
  BY <1>1 DEF VerifiedBody
<1>4. ASSUME trReq.kind = "trx" PROVE Effect(trTx) = Wanted(trReq)
  <2>1. trIntent.type = "transfer" /\ trIntent.owner = "me" /\ trIntent.to = trReq.to /\ trIntent.amount = trReq.amount
    BY <1>1, <1>4 DEF IntentFor, NoBody
  <2>2. trTx.type = "transfer" /\ trTx.owner = "me" /\ trTx.to = trReq.to /\ trTx.amount = trReq.amount
    BY <1>2, <1>3, <2>1 DEF verifyParameter, Same
  <2>3. Effect(trTx) = <<"pays", "me", trReq.to, trReq.amount>>
    BY <2>2 DEF Effect
  <2> QED BY <1>4, <2>3 DEF Wanted
<1>5. ASSUME trReq.kind = "trc20" PROVE Effect(trTx) = Wanted(trReq)
  <2>1. trIntent.type = "trigger" /\ trIntent.owner = "me" /\ trIntent.contract = "usdt" /\ trIntent.data = <<"transfer", trReq.to, trReq.amount>> /\ trIntent.value = 0 /\ trIntent.feeLimit = FeeLimit
    BY <1>1, <1>5 DEF IntentFor, NoBody, trc20Intent, trc20TransferData
  <2>2. trTx.type = "trigger" /\ trTx.owner = "me" /\ trTx.contract = "usdt" /\ trTx.data = <<"transfer", trReq.to, trReq.amount>> /\ trTx.value = 0 /\ trTx.feeLimit = FeeLimit /\ trTx.token = 0
    BY <1>2, <1>3, <2>1 DEF verifyParameter, Same
  <2>3. Effect(trTx) = <<"calls", "me", "usdt", <<"transfer", trReq.to, trReq.amount>>, 0, 0, FeeLimit>>
    BY <2>2 DEF Effect
  <2> QED BY <1>5, <2>3 DEF Wanted
<1>6. ASSUME trReq.kind = "swap" PROVE Effect(trTx) = Wanted(trReq)
  <2>1. trIntent.type = "trigger" /\ trIntent.owner = "me" /\ trIntent.contract = "router" /\ trIntent.data = <<"swap", trReq.to, trReq.amount>> /\ trIntent.value = trReq.amount /\ trIntent.feeLimit = FeeLimit
    BY <1>1, <1>6 DEF IntentFor, NoBody, swapIntent
  <2>2. trTx.type = "trigger" /\ trTx.owner = "me" /\ trTx.contract = "router" /\ trTx.data = <<"swap", trReq.to, trReq.amount>> /\ trTx.value = trReq.amount /\ trTx.feeLimit = FeeLimit /\ trTx.token = 0
    BY <1>2, <1>3, <2>1 DEF verifyParameter, Same
  <2>3. Effect(trTx) = <<"calls", "me", "router", <<"swap", trReq.to, trReq.amount>>, trReq.amount, 0, FeeLimit>>
    BY <2>2 DEF Effect
  <2> QED BY <1>6, <2>3 DEF Wanted
<1>7. ASSUME trReq.kind \in {"stake", "unstake"} PROVE Effect(trTx) = Wanted(trReq)
  <2>1. trIntent.type = trReq.kind /\ trIntent.owner = "me" /\ trIntent.resource = trReq.resource /\ trIntent.amount = trReq.amount
    BY <1>1, <1>7 DEF IntentFor, NoBody, resourceIntent
  <2>2. trTx.type = trReq.kind /\ trTx.owner = "me" /\ trTx.resource = trReq.resource /\ trTx.amount = trReq.amount
    BY <1>2, <1>3, <1>7, <2>1 DEF verifyParameter, Same
  <2>3. Effect(trTx) = <<trReq.kind, "me", trReq.resource, trReq.amount>>
    BY <1>7, <2>2 DEF Effect
  <2> QED BY <1>7, <2>3 DEF Wanted
<1>8. ASSUME trReq.kind = "delegate" PROVE Effect(trTx) = Wanted(trReq)
  <2>1. trIntent.type = "delegate" /\ trIntent.owner = "me" /\ trIntent.to = trReq.to /\ trIntent.resource = trReq.resource /\ trIntent.amount = StakeFor(trReq.amount, trRate)
    BY <1>1, <1>8 DEF IntentFor, NoBody, resourceIntent
  <2>2. trTx.type = "delegate" /\ trTx.owner = "me" /\ trTx.to = trReq.to /\ trTx.resource = trReq.resource /\ trTx.amount = StakeFor(trReq.amount, trRate) /\ trTx.lock = FALSE
    BY <1>2, <1>3, <2>1 DEF verifyParameter, Same
  <2>3. Effect(trTx) = <<"lends", "me", trReq.to, trReq.resource, StakeFor(trReq.amount, trRate), FALSE>>
    BY <2>2 DEF Effect
  <2> QED BY <1>8, <2>3 DEF Wanted
<1>9. ASSUME trReq.kind = "reclaim" PROVE Effect(trTx) = Wanted(trReq)
  <2>1. trIntent.type = "reclaim" /\ trIntent.owner = "me" /\ trIntent.to = trReq.to /\ trIntent.resource = trReq.resource /\ trIntent.amount = StakeFor(trReq.amount, trRate)
    BY <1>1, <1>9 DEF IntentFor, NoBody, resourceIntent
  <2>2. trTx.type = "reclaim" /\ trTx.owner = "me" /\ trTx.to = trReq.to /\ trTx.resource = trReq.resource /\ trTx.amount = StakeFor(trReq.amount, trRate)
    BY <1>2, <1>3, <2>1 DEF verifyParameter, Same
  <2>3. Effect(trTx) = <<"takes back", "me", trReq.to, trReq.resource, StakeFor(trReq.amount, trRate)>>
    BY <2>2 DEF Effect
  <2> QED BY <1>9, <2>3 DEF Wanted
<1>10. ASSUME trReq.kind \in {"withdraw", "cancel"} PROVE Effect(trTx) = Wanted(trReq)
  <2>1. trIntent.type = trReq.kind /\ trIntent.owner = "me"
    BY <1>1, <1>10 DEF IntentFor, NoBody, ownerIntent
  <2>2. trTx.type = trReq.kind /\ trTx.owner = "me"
    BY <1>2, <1>3, <1>10, <2>1 DEF verifyParameter, Same
  <2>3. Effect(trTx) = <<trReq.kind, "me">>
    BY <1>10, <2>2 DEF Effect
  <2> QED BY <1>10, <2>3 DEF Wanted
<1>11. ASSUME trReq.kind = "deploy" PROVE Effect(trTx) = Wanted(trReq)
  <2>1. trIntent.type = "deploy" /\ trIntent.owner = "me" /\ trIntent.name = "token" /\ trIntent.percent = trReq.amount /\ trIntent.energy = 1 /\ trIntent.feeLimit = FeeLimit
    BY <1>1, <1>11 DEF IntentFor, NoBody, deployIntent
  <2>2. trTx.type = "deploy" /\ trTx.owner = "me" /\ trTx.name = "token" /\ trTx.percent = trReq.amount /\ trTx.energy = 1 /\ trTx.feeLimit = FeeLimit /\ trTx.value = 0 /\ trTx.token = 0 /\ IsPrefix(trIntent.data, trTx.data)
    BY <1>2, <1>3, <2>1 DEF verifyParameter, Same
  <2>3. SubSeq(trTx.data, 1, 1) = <<"code">>
    <3>1. trIntent.data = <<"code">>
      BY <2>1, <1>1, IntentTypes
    <3>2. SubSeq(<<"code">>, 1, 1) = SubSeq(trTx.data, 1, 1)
      BY <2>2, <3>1 DEF IsPrefix
    <3>3. <<"code">> \in Seq({"code"}) /\ Len(<<"code">>) = 1
      OBVIOUS
    <3>4. SubSeq(<<"code">>, 1, Len(<<"code">>)) = <<"code">>
      BY <3>3, SubSeqFull
    <3> QED BY <3>2, <3>3, <3>4
  <2>4. Effect(trTx) = <<"creates", "me", <<"code">>, "token", trReq.amount, 1, 0, 0, FeeLimit>>
    BY <2>2, <2>3 DEF Effect
  <2> QED BY <1>11, <2>4 DEF Wanted
<1>12. trIntent.permission = 0
  BY <1>1, IntentTypes
<1> QED BY <1>1, <1>2, <1>4, <1>5, <1>6, <1>7, <1>8, <1>9, <1>10, <1>11, <1>12 DEF IntentFor, VerifiedBody

\* The clock is off by at most the greatest skew.
LEMMA TronInTimeInv == TronInv => SignedInTime
<1> SUFFICES ASSUME TronInv PROVE SignedInTime
  OBVIOUS
<1>1. trSkew <= Max(Skews) /\ Max(Skews) \in Int /\ trSkew \in Int /\ Lifetime \in Nat
  <2>1. trSkew \in Skews
    BY DEF TronInv
  <2>2. Max(Skews) \in Skews /\ trSkew <= Max(Skews)
    BY <2>1, MaxSkew
  <2>3. Skews \subseteq Int /\ Lifetime \in Nat
    BY TronAssumption
  <2> QED BY <2>1, <2>2, <2>3
<1>2. ASSUME trPhase = "done" PROVE trTime <= trAt + Lifetime + Max(Skews)
  BY <1>1, <1>2 DEF TronInv
<1> QED BY <1>2 DEF TronInv, SignedInTime

\* Steps of the adapters beside one another are steps of the Tron service or
\* leave it alone.
LEMMA TronIsInvariant == AdaptersSpec => []TronInv
<1>1. AdaptersInit => TronInv
  BY TronInitInv DEF AdaptersInit
<1>2. TronInv /\ [AdaptersNext]_adapterVars => TronInv'
  <2>1. [AdaptersNext]_adapterVars => TronNext \/ UNCHANGED trVars
    BY DEF AdaptersNext, EvmStep, SolanaStep, TronStep, SunSwapStep, adapterVars
  <2> QED BY <2>1, TronNextInv
<1> QED BY <1>1, <1>2, PTL DEF AdaptersSpec

\* Whatever a node answers, a signed transaction does what the request asks
\* for and nothing beside it (Intent.Verify); the stake behind units is the
\* least that is worth them, at any rate (stakeBehind).
THEOREM SignsWhatWasAsked == AdaptersSpec => []SignedIsAsked
BY TronIsInvariant, TronAskedInv, PTL

\* With any skew up to the tolerated one, an honest answer still good on chain
\* is signed, and what is signed cannot land later than a lifetime and a skew
\* past the signature (verifyHeader).
THEOREM SignsInTime == AdaptersSpec => []SignedInTime
BY TronIsInvariant, TronInTimeInv, PTL

-----------------------------------------------------------------------------
(* Folds over finite sets.                                                 *)

\* Among subsets of a finite set there is one with none of the others below it:
\* induction over finite sets in the form the provers can use.
LEMMA LeastSubset ==
    ASSUME NEW D, IsFiniteSet(D), NEW T \in SUBSET (SUBSET D), T # {}
    PROVE  \E t \in T : \A u \in T : u \subseteq t => u = t
<1>1. T \subseteq FiniteSubsetsOf(D)
  BY FS_FiniteSubsetsOfFinite
<1>2. PICK t \in T : \A u \in T : <<u, t>> \notin StrictSubsetOrdering(D)
  BY <1>1, FS_StrictSubsetOrderingWellFounded, WFMin
<1>3. ASSUME NEW u \in T, u \subseteq t, u # t PROVE FALSE
  <2>1. <<u, t>> \in StrictSubsetOrdering(D)
    BY <1>3 DEF StrictSubsetOrdering
  <2> QED BY <1>2, <2>1
<1> QED BY <1>2, <1>3

\* What a fold over a finite set satisfies: pick[s] is the element it takes
\* next, op the operation it applies.
IsFold(g, D, pick, op, base) ==
    \A s \in SUBSET D : g[s] = IF s = {} THEN base ELSE op[<<pick[s], g[s \ {pick[s]}]>>]

Picks(D) == {pick \in [SUBSET D -> D \cup {D}] : \A s \in SUBSET D : s # {} => pick[s] \in s}

\* There is such a function: those on smaller sets agree and are put together.
LEMMA FoldExists ==
    ASSUME NEW D, IsFiniteSet(D), NEW V, NEW base \in V, NEW pick \in Picks(D), NEW op \in [D \X V -> V]
    PROVE  \E g \in [SUBSET D -> V] : IsFold(g, D, pick, op, base)
<1> DEFINE Step(g, s) == IF s = {} THEN base ELSE op[<<pick[s], g[s \ {pick[s]}]>>]
           On(s) == {g \in [SUBSET s -> V] : \A u \in SUBSET s : g[u] = Step(g, u)}
<1>0. \A s \in SUBSET D : s # {} => pick[s] \in s /\ pick[s] \in D
  BY DEF Picks
<1>1. ASSUME NEW s \in SUBSET D, NEW t \in SUBSET D, NEW g \in On(s), NEW h \in On(t), s \subseteq t
      PROVE  \A u \in SUBSET s : g[u] = h[u]
  <2> DEFINE T == {u \in SUBSET s : g[u] # h[u]}
  <2> SUFFICES ASSUME T # {} PROVE FALSE
    OBVIOUS
  <2>1. PICK u \in T : \A v \in T : v \subseteq u => v = u
    <3>1. T \in SUBSET (SUBSET D)
      OBVIOUS
    <3> HIDE DEF T, On
    <3> QED BY <3>1, LeastSubset
  <2>2. u \in SUBSET s /\ u \in SUBSET t /\ u \in SUBSET D
    BY <1>1
  <2>3. g[u] = Step(g, u) /\ h[u] = Step(h, u)
    BY <1>1, <2>2
  <2>4. u # {} => g[u \ {pick[u]}] = h[u \ {pick[u]}]
    BY <1>0, <2>1, <2>2
  <2> QED BY <2>1, <2>3, <2>4
<1>2. \A s \in SUBSET D : On(s) # {}
  <2> DEFINE T == {s \in SUBSET D : On(s) = {}}
  <2> SUFFICES ASSUME T # {} PROVE FALSE
    OBVIOUS
  <2>1. PICK s \in T : \A v \in T : v \subseteq s => v = s
    <3>1. T \in SUBSET (SUBSET D)
      OBVIOUS
    <3> HIDE DEF T
    <3> QED BY <3>1, LeastSubset
  <2> DEFINE A(u) == CHOOSE g \in On(u) : TRUE
             Top == IF s = {} THEN base ELSE op[<<pick[s], A(s \ {pick[s]})[s \ {pick[s]}]>>]
             h == [u \in SUBSET s |-> IF u = s THEN Top ELSE A(u)[u]]
  <2>2. \A u \in SUBSET s : u # s => A(u) \in On(u)
    <3> HIDE DEF On
    <3>1. \A u \in SUBSET s : u # s => On(u) # {}
      BY <2>1
    <3> QED BY <3>1
  <2>3. \A u \in SUBSET s : u # s => A(u) \in [SUBSET u -> V] /\ A(u)[u] = Step(A(u), u)
    <3> HIDE DEF A
    <3> QED BY <2>2
  <2>4. \A u \in SUBSET s : u # s => A(u)[u] \in V
    <3> HIDE DEF A, On
    <3> SUFFICES ASSUME NEW u \in SUBSET s, u # s PROVE A(u)[u] \in V
      OBVIOUS
    <3>1. u \in SUBSET u /\ A(u) \in [SUBSET u -> V]
      BY <2>3
    <3> QED BY <3>1
  <2>5. s \in SUBSET D /\ On(s) = {} /\ (s # {} => pick[s] \in s /\ pick[s] \in D /\ s \ {pick[s]} \in SUBSET s /\ s \ {pick[s]} # s)
    BY <1>0
  <2>6. Top \in V
    <3> HIDE DEF A, On
    <3> QED BY <2>4, <2>5
  <2>7. h \in [SUBSET s -> V]
    <3> HIDE DEF A, On, Top
    <3> QED BY <2>4, <2>6
  <2>8. ASSUME NEW u \in SUBSET s PROVE h[u] = Step(h, u)
    <3>1. u # {} => pick[u] \in u /\ u \ {pick[u]} \in SUBSET s /\ u \ {pick[u]} # s /\ u \ {pick[u]} # u
      BY <1>0, <2>5
    <3>2. u # {} => h[u \ {pick[u]}] = A(u \ {pick[u]})[u \ {pick[u]}]
      <4> HIDE DEF A, On, Top
      <4> QED BY <3>1
    <3>3. CASE u = s
      <4>1. h[u] = Top
        <5> HIDE DEF A, On, Top
        <5> QED BY <3>3
      <4> HIDE DEF A, On, h
      <4> QED BY <3>2, <3>3, <4>1
    <3>4. CASE u # s
      <4>1. h[u] = A(u)[u]
        <5> HIDE DEF A, On, Top
        <5> QED BY <3>4
      <4>2. ASSUME u # {} PROVE A(u)[u \ {pick[u]}] = A(u \ {pick[u]})[u \ {pick[u]}]
        <5>1. A(u) \in On(u) /\ A(u \ {pick[u]}) \in On(u \ {pick[u]})
          <6> HIDE DEF A, On
          <6> QED BY <2>2, <3>1, <3>4, <4>2
        <5>2. u \in SUBSET D /\ u \ {pick[u]} \in SUBSET D /\ u \ {pick[u]} \subseteq u
          BY <2>5
        <5> HIDE DEF A, On
        <5> QED BY <1>1, <5>1, <5>2
      <4> HIDE DEF A, On, h
      <4> QED BY <2>3, <3>2, <3>4, <4>1, <4>2
    <3> QED BY <3>3, <3>4
  <2>9. h \in On(s)
    <3> HIDE DEF h
    <3> QED BY <2>7, <2>8
  <2> HIDE DEF h, On
  <2> QED BY <2>5, <2>9
<1>3. PICK g : g \in On(D)
  <2>1. D \in SUBSET D
    OBVIOUS
  <2> HIDE DEF On
  <2> QED BY <1>2, <2>1
<1> QED BY <1>3 DEF IsFold

\* g sums f over the subsets of D, taking pick[s] first.
IsSum(g, D, pick, f) ==
    \A s \in SUBSET D : g[s] = IF s = {} THEN 0 ELSE f[pick[s]] + g[s \ {pick[s]}]

\* The order does not matter: any element may be taken first.
AnyOrder(g, D, f) ==
    g[{}] = 0 /\ \A s \in SUBSET D : \A x \in s : g[s] = f[x] + g[s \ {x}]

LEMMA SumAnyOrder ==
    ASSUME NEW D, IsFiniteSet(D), NEW pick \in Picks(D), NEW f \in [D -> Nat],
           NEW g \in [SUBSET D -> Nat], IsSum(g, D, pick, f)
    PROVE  AnyOrder(g, D, f)
<1> DEFINE T == {s \in SUBSET D : \E x \in s : g[s] # f[x] + g[s \ {x}]}
<1>0. g[{}] = 0
  <2>1. {} \in SUBSET D
    OBVIOUS
  <2> QED BY <2>1 DEF IsSum
<1> SUFFICES ASSUME T # {} PROVE FALSE
  BY <1>0 DEF AnyOrder
<1>1. PICK s \in T : \A v \in T : v \subseteq s => v = s
  <2>1. T \in SUBSET (SUBSET D)
    OBVIOUS
  <2> HIDE DEF T
  <2> QED BY <2>1, LeastSubset
<1>2. PICK x \in s : g[s] # f[x] + g[s \ {x}]
  OBVIOUS
<1>3. PICK m \in s : m = pick[s] /\ g[s] = f[m] + g[s \ {m}]
  BY DEF Picks, IsSum
<1>4. m # x /\ s \in SUBSET D
  BY <1>2, <1>3
<1>5. PICK r \in SUBSET D : r = (s \ {m}) \ {x} /\ r = (s \ {x}) \ {m}
  BY <1>4
<1>6. g[s \ {m}] = f[x] + g[r]
  <2>1. s \ {m} \notin T /\ s \ {m} \in SUBSET D /\ x \in s \ {m}
    BY <1>1, <1>4
  <2> QED BY <1>5, <2>1
<1>7. g[s \ {x}] = f[m] + g[r]
  <2>1. s \ {x} \notin T /\ s \ {x} \in SUBSET D /\ m \in s \ {x}
    BY <1>1, <1>4
  <2> QED BY <1>5, <2>1
<1>8. f[x] \in Nat /\ f[m] \in Nat /\ g[r] \in Nat
  BY <1>4, <1>5
<1> QED BY <1>2, <1>3, <1>6, <1>7, <1>8

\* Elements that add nothing may be left out.
LEMMA SumWithoutZeros ==
    ASSUME NEW D, IsFiniteSet(D), NEW pick \in Picks(D), NEW f \in [D -> Nat],
           NEW g \in [SUBSET D -> Nat], IsSum(g, D, pick, f),
           NEW M \in SUBSET D, \A i \in D \ M : f[i] = 0
    PROVE  g[D] = g[M]
<1> DEFINE T == {s \in SUBSET D : M \subseteq s /\ g[s] # g[M]}
<1> SUFFICES ASSUME T # {} PROVE FALSE
  OBVIOUS
<1>1. PICK s \in T : \A v \in T : v \subseteq s => v = s
  <2>1. T \in SUBSET (SUBSET D)
    OBVIOUS
  <2> HIDE DEF T
  <2> QED BY <2>1, LeastSubset
<1>2. PICK x \in s : x \notin M
  <2>1. M \subseteq s /\ s # M
    BY <1>1
  <2> QED BY <2>1
<1>3. g[s] = f[x] + g[s \ {x}] /\ f[x] = 0
  <2>1. g[s] = f[x] + g[s \ {x}]
    <3>1. AnyOrder(g, D, f)
      BY SumAnyOrder
    <3> QED BY <3>1 DEF AnyOrder
  <2> QED BY <1>2, <2>1
<1>4. s \ {x} \in SUBSET D /\ M \subseteq s \ {x} /\ s \ {x} # s
  BY <1>2
<1>5. g[s \ {x}] = g[M]
  BY <1>1, <1>4
<1>6. M \in SUBSET D
  OBVIOUS
<1>7. g[M] \in Nat
  BY <1>6
<1> QED BY <1>1, <1>3, <1>5, <1>7

\* Two sums of one function over one set agree.
LEMMA SumsAgree ==
    ASSUME NEW D, IsFiniteSet(D), NEW f, NEW g, AnyOrder(g, D, f),
           NEW M \in SUBSET D, NEW take \in Picks(M), NEW h, IsSum(h, M, take, f)
    PROVE  g[M] = h[M]
<1> DEFINE T == {s \in SUBSET M : g[s] # h[s]}
<1> SUFFICES ASSUME T # {} PROVE FALSE
  OBVIOUS
<1>1. PICK s \in T : \A v \in T : v \subseteq s => v = s
  <2>1. T \in SUBSET (SUBSET D)
    OBVIOUS
  <2> HIDE DEF T
  <2> QED BY <2>1, LeastSubset
<1>2. s \in SUBSET M /\ s \in SUBSET D
  OBVIOUS
<1>3. CASE s = {}
  BY <1>1, <1>2, <1>3 DEF IsSum, AnyOrder
<1>4. CASE s # {}
  <2>1. PICK x \in s : x = take[s] /\ h[s] = f[x] + h[s \ {x}]
    BY <1>2, <1>4 DEF Picks, IsSum
  <2>2. g[s] = f[x] + g[s \ {x}]
    BY <1>2 DEF AnyOrder
  <2>3. g[s \ {x}] = h[s \ {x}]
    BY <1>1, <1>2
  <2> QED BY <1>1, <2>1, <2>2, <2>3
<1> QED BY <1>3, <1>4

\* A nonempty set of indices has a largest.
LEMMA MaxIsMember ==
    ASSUME NEW n \in Nat, NEW s \in SUBSET (1..n), s # {}
    PROVE  Max(s) \in s
<1> DEFINE U == {m \in Nat : \A i \in s : i <= m}
<1>1. PICK m \in U : \A y \in U : m <= y
  <2>1. n \in U /\ U \in SUBSET Nat
    OBVIOUS
  <2> HIDE DEF U
  <2> QED BY <2>1, MinIsLeast
<1>2. m \in s
  <2> SUFFICES ASSUME m \notin s PROVE FALSE
    OBVIOUS
  <2>1. m \in Nat /\ \A i \in s : i \in Nat /\ i <= m
    OBVIOUS
  <2>2. \A i \in s : i <= m - 1
    BY <2>1
  <2>3. m - 1 \in Nat
    <3>1. PICK i \in s : i \in 1..n
      OBVIOUS
    <3> QED BY <2>1, <2>2, <3>1
  <2>4. m - 1 \in U
    BY <2>2, <2>3
  <2> QED BY <1>1, <2>1, <2>4
<1>3. \E x \in s : \A y \in s : x >= y
  BY <1>1, <1>2
<1> QED BY <1>3 DEF Max

-----------------------------------------------------------------------------
(* Tron: taking everything back.                                           *)

\* A record adds its amount to the row of its receiver, and nothing to others.
Added(loans, to, resource) ==
    [i \in DOMAIN loans |-> IF adds(loans[i], to, resource) THEN loans[i].amount ELSE 0]

\* splitDelegations, unfolded: the row holds the sum of what its records add,
\* under a lock no earlier than any of theirs.
LEMMA RowOfLoans ==
    ASSUME NEW loans \in TronLoans, NEW to, NEW resource
    PROVE  /\ IsFiniteSet(DOMAIN loans)
           /\ Added(loans, to, resource) \in [DOMAIN loans -> Nat]
           /\ splitDelegations(loans, to, resource).lock \in Nat
           /\ \A i \in DOMAIN loans : adds(loans[i], to, resource) =>
                /\ loans[i].lock \in Nat
                /\ loans[i].lock <= splitDelegations(loans, to, resource).lock
           /\ \E pick \in Picks(DOMAIN loans), g \in [SUBSET DOMAIN loans -> Nat] :
                /\ IsSum(g, DOMAIN loans, pick, Added(loans, to, resource))
                /\ splitDelegations(loans, to, resource).amount = g[DOMAIN loans]
<1>0. PICK n \in Nat : /\ DOMAIN loans = 1..n
                       /\ \A i \in 1..n : loans[i].amount \in Nat /\ loans[i].lock \in Nat
  <2>1. loans \in Seq([to : STRING, resource : STRING, amount : Nat, lock : Nat])
    BY TronAssumption
  <2>2. PICK R : R = [to : STRING, resource : STRING, amount : Nat, lock : Nat]
    OBVIOUS
  <2>3. Len(loans) \in Nat /\ DOMAIN loans = 1..Len(loans) /\ \A i \in 1..Len(loans) : loans[i] \in R
    <3>1. loans \in Seq(R)
      BY <2>1, <2>2
    <3> QED BY <3>1
  <2> QED BY <2>2, <2>3
<1> DEFINE D == 1..n
           V == [amount : Nat, lock : Nat]
           base == [amount |-> 0, lock |-> 0]
           Op(i, row) == IF adds(loans[i], to, resource)
                         THEN [amount |-> row.amount + loans[i].amount, lock |-> Max({row.lock, loans[i].lock})]
                         ELSE row
           pick == [s \in SUBSET D |-> IF s = {} THEN D ELSE Max(s)]
           op == [p \in D \X V |-> Op(p[1], p[2])]
           f == Added(loans, to, resource)
<1>1. IsFiniteSet(D) /\ f \in [D -> Nat]
  <2>1. IsFiniteSet(D)
    BY FS_Interval
  <2> QED BY <1>0, <2>1 DEF Added
<1>2. pick \in Picks(D) /\ \A s \in SUBSET D : s # {} => pick[s] = Max(s) /\ pick[s] \in s
  BY MaxIsMember DEF Picks
<1>3. \A i \in D : \A row \in V : Op(i, row) \in V /\ op[<<i, row>>] = Op(i, row)
  <2> SUFFICES ASSUME NEW i \in D, NEW row \in V PROVE Op(i, row) \in V /\ op[<<i, row>>] = Op(i, row)
    OBVIOUS
  <2>1. loans[i].amount \in Nat /\ loans[i].lock \in Nat /\ row.amount \in Nat /\ row.lock \in Nat
    BY <1>0
  <2>2. Max({row.lock, loans[i].lock}) \in Nat
    BY <2>1, MaxOfTwo
  <2>3. Op(i, row) \in V
    BY <2>1, <2>2
  <2>4. op[<<i, row>>] = Op(i, row)
    <3> HIDE DEF Op, V
    <3> QED OBVIOUS
  <2> QED BY <2>3, <2>4
<1>4. op \in [D \X V -> V] /\ base \in V
  <2> HIDE DEF Op
  <2> QED BY <1>3
<1>5. PICK r \in [SUBSET D -> V] : IsFold(r, D, pick, op, base)
  <2> HIDE DEF pick, op, base, V, D
  <2> QED BY <1>1, <1>2, <1>4, FoldExists
<1>6. \A s \in SUBSET D : s # {} => s \ {Max(s)} \in SUBSET D /\ Max(s) \in s /\ Max(s) \in D
  BY <1>2
<1>7. \A s \in SUBSET D : r[s] = IF s = {} THEN base ELSE Op(Max(s), r[s \ {Max(s)}])
  <2> HIDE DEF pick, op, base, V, D, Op
  <2> QED BY <1>2, <1>3, <1>5, <1>6 DEF IsFold
<1>8. PICK row : row = [s \in SUBSET D |-> IF s = {} THEN base ELSE Op(Max(s), row[s \ {Max(s)}])]
                 /\ splitDelegations(loans, to, resource) = row[D]
  <2> DEFINE iter[s \in SUBSET D] ==
                 IF s = {} THEN base
                 ELSE IF adds(loans[Max(s)], to, resource)
                      THEN [amount |-> iter[s \ {Max(s)}].amount + loans[Max(s)].amount,
                            lock |-> Max({iter[s \ {Max(s)}].lock, loans[Max(s)].lock})]
                      ELSE iter[s \ {Max(s)}]
  <2>1. splitDelegations(loans, to, resource) = iter[D]
    <3>1. D = DOMAIN loans
      BY <1>0
    <3> HIDE DEF D
    <3> QED BY <3>1 DEF splitDelegations, FoldLeft, MapThenFoldSet
  <2>2. r = [s \in SUBSET D |->
               IF s = {} THEN base
                 ELSE IF adds(loans[Max(s)], to, resource)
                      THEN [amount |-> r[s \ {Max(s)}].amount + loans[Max(s)].amount,
                            lock |-> Max({r[s \ {Max(s)}].lock, loans[Max(s)].lock})]
                      ELSE r[s \ {Max(s)}]]
    <3> HIDE DEF D, V, base
    <3> QED BY <1>5, <1>7
  <2>3. iter = [s \in SUBSET D |->
               IF s = {} THEN base
                 ELSE IF adds(loans[Max(s)], to, resource)
                      THEN [amount |-> iter[s \ {Max(s)}].amount + loans[Max(s)].amount,
                            lock |-> Max({iter[s \ {Max(s)}].lock, loans[Max(s)].lock})]
                      ELSE iter[s \ {Max(s)}]]
    BY <2>2
  <2> HIDE DEF iter
  <2> QED BY <2>1, <2>3
<1>9. \A s \in SUBSET D : row[s] = IF s = {} THEN base ELSE Op(Max(s), row[s \ {Max(s)}])
  <2> HIDE DEF D, V, base, Op
  <2> QED BY <1>8
<1>10. \A s \in SUBSET D : row[s] \in V
  <2> DEFINE T == {s \in SUBSET D : row[s] \notin V}
  <2> SUFFICES ASSUME T # {} PROVE FALSE
    OBVIOUS
  <2>1. PICK s \in T : \A v \in T : v \subseteq s => v = s
    <3>1. T \in SUBSET (SUBSET D)
      OBVIOUS
    <3> HIDE DEF T, D
    <3> QED BY <1>1, <3>1, LeastSubset
  <2>2. s \in SUBSET D /\ row[s] \notin V
    OBVIOUS
  <2>3. s # {}
    BY <1>4, <1>9, <2>2
  <2>4. row[s \ {Max(s)}] \in V
    <3>1. s \ {Max(s)} \in SUBSET D /\ s \ {Max(s)} # s
      BY <1>6, <2>2, <2>3
    <3> HIDE DEF D, V
    <3> QED BY <2>1, <3>1
  <2>5. Op(Max(s), row[s \ {Max(s)}]) \in V
    <3> HIDE DEF D, V, Op, base
    <3> QED BY <1>3, <1>6, <2>2, <2>3, <2>4
  <2> HIDE DEF D, V, Op, base
  <2> QED BY <1>9, <2>2, <2>3, <2>5
<1>11. \A s \in SUBSET D : s # {} =>
         LET i == Max(s)
             rest == row[s \ {i}]
         IN  /\ i \in s /\ i \in D /\ s \ {i} \in SUBSET D /\ rest \in V
             /\ row[s].amount = f[i] + rest.amount
             /\ row[s].lock >= rest.lock
             /\ adds(loans[i], to, resource) => row[s].lock >= loans[i].lock
  <2> SUFFICES ASSUME NEW s \in SUBSET D, s # {}, NEW i \in D, i = Max(s)
               PROVE  /\ i \in s /\ s \ {i} \in SUBSET D /\ row[s \ {i}] \in V
                      /\ row[s].amount = f[i] + row[s \ {i}].amount
                      /\ row[s].lock >= row[s \ {i}].lock
                      /\ adds(loans[i], to, resource) => row[s].lock >= loans[i].lock
    <3> HIDE DEF D, V
    <3> QED BY <1>6
  <2>1. i \in s /\ s \ {i} \in SUBSET D
    BY <1>6
  <2>2. PICK rest \in V : rest = row[s \ {i}]
    <3> HIDE DEF D, V
    <3> QED BY <1>10, <2>1
  <2>3. row[s] = Op(i, rest)
    <3> HIDE DEF D, V, Op
    <3> QED BY <1>9, <2>2
  <2>4. loans[i].amount \in Nat /\ loans[i].lock \in Nat /\ rest.amount \in Nat /\ rest.lock \in Nat
    BY <1>0
  <2>5. f[i] = IF adds(loans[i], to, resource) THEN loans[i].amount ELSE 0
    BY <1>0 DEF Added
  <2>6. CASE adds(loans[i], to, resource)
    <3>1. row[s].amount = rest.amount + loans[i].amount /\ row[s].lock = Max({rest.lock, loans[i].lock})
      BY <2>3, <2>6
    <3>2. Max({rest.lock, loans[i].lock}) >= rest.lock /\ Max({rest.lock, loans[i].lock}) >= loans[i].lock
      BY <2>4, MaxOfTwo
    <3> HIDE DEF Op
    <3> QED BY <2>1, <2>2, <2>4, <2>5, <2>6, <3>1, <3>2
  <2>7. CASE ~adds(loans[i], to, resource)
    <3>1. row[s] = rest
      BY <2>3, <2>7
    <3> QED BY <2>1, <2>2, <2>4, <2>5, <2>7, <3>1
  <2> QED BY <2>6, <2>7
<1>12. \A s \in SUBSET D : \A i \in s : adds(loans[i], to, resource) => loans[i].lock <= row[s].lock
  <2> DEFINE T == {s \in SUBSET D : \E i \in s : adds(loans[i], to, resource) /\ ~(loans[i].lock <= row[s].lock)}
  <2> SUFFICES ASSUME T # {} PROVE FALSE
    OBVIOUS
  <2>1. PICK s \in T : \A v \in T : v \subseteq s => v = s
    <3>1. T \in SUBSET (SUBSET D)
      OBVIOUS
    <3> HIDE DEF T, D
    <3> QED BY <1>1, <3>1, LeastSubset
  <2>2. PICK i \in s : s \in SUBSET D /\ i \in D /\ adds(loans[i], to, resource) /\ ~(loans[i].lock <= row[s].lock)
    OBVIOUS
  <2>3. PICK m \in D : m = Max(s) /\ m \in s /\ s \ {m} \in SUBSET D
    <3> HIDE DEF D
    <3> QED BY <1>6, <2>2
  <2>4. PICK rest \in V : /\ rest = row[s \ {m}] /\ row[s].lock >= rest.lock
                          /\ adds(loans[m], to, resource) => row[s].lock >= loans[m].lock
    <3> HIDE DEF D, V
    <3> QED BY <1>11, <2>2, <2>3
  <2>5. row[s] \in V
    <3> HIDE DEF D, V
    <3> QED BY <1>10, <2>2
  <2>6. loans[i].lock \in Nat /\ loans[m].lock \in Nat /\ rest.lock \in Nat /\ row[s].lock \in Nat
    BY <1>0, <2>2, <2>5
  <2>7. i # m
    BY <2>2, <2>4, <2>6
  <2>8. loans[i].lock <= rest.lock
    <3>1. s \ {m} \notin T /\ i \in s \ {m}
      BY <2>1, <2>3, <2>7
    <3> HIDE DEF D
    <3> QED BY <2>2, <2>3, <2>4, <3>1
  <2> QED BY <2>2, <2>4, <2>6, <2>8
<1> DEFINE g == [s \in SUBSET D |-> row[s].amount]
<1>13. g \in [SUBSET D -> Nat]
  <2>1. \A s \in SUBSET D : row[s].amount \in Nat
    <3> SUFFICES ASSUME NEW s \in SUBSET D PROVE row[s].amount \in Nat
      OBVIOUS
    <3>1. row[s] \in V
      <4> HIDE DEF D, V
      <4> QED BY <1>10
    <3> QED BY <3>1
  <2> HIDE DEF D
  <2> QED BY <2>1
<1>14. IsSum(g, D, pick, f)
  <2> SUFFICES ASSUME NEW s \in SUBSET D PROVE g[s] = IF s = {} THEN 0 ELSE f[pick[s]] + g[s \ {pick[s]}]
    BY DEF IsSum
  <2>1. CASE s = {}
    <3>1. row[s] = base
      BY <1>9, <2>1
    <3> QED BY <2>1, <3>1
  <2>2. CASE s # {}
    <3>1. /\ pick[s] = Max(s) /\ s \ {Max(s)} \in SUBSET D
          /\ row[s].amount = f[Max(s)] + row[s \ {Max(s)}].amount
      <4> HIDE DEF D, V, pick, f
      <4> QED BY <1>2, <1>11, <2>2
    <3> HIDE DEF D, pick, f
    <3> QED BY <2>2, <3>1
  <2> QED BY <2>1, <2>2
<1>15. D \in SUBSET D /\ row[D] \in V /\ row[D].lock \in Nat /\ g[D] = row[D].amount
  <2>1. D \in SUBSET D /\ row[D] \in V
    <3> HIDE DEF D, V
    <3> QED BY <1>10
  <2> QED BY <2>1
<1>16. \A i \in D : adds(loans[i], to, resource) => loans[i].lock \in Nat /\ loans[i].lock <= row[D].lock
  BY <1>0, <1>12, <1>15
<1>17. PICK d, h, q : d = DOMAIN loans /\ d = D /\ h = g /\ q = pick
  BY <1>0
<1> HIDE DEF D, V, base, Op, pick, op, f, g
<1>18. /\ IsFiniteSet(d) /\ f \in [d -> Nat] /\ q \in Picks(d) /\ h \in [SUBSET d -> Nat]
       /\ IsSum(h, d, q, f) /\ splitDelegations(loans, to, resource).amount = h[d]
  BY <1>1, <1>2, <1>8, <1>13, <1>14, <1>15, <1>17
<1> QED BY <1>8, <1>15, <1>16, <1>17, <1>18 DEF f

\* What the chain has lent to a receiver is what the wallet's row says, as long
\* as no record that counts is left out.
LEMMA LentIsRow ==
    ASSUME trLoans \in TronLoans, NEW records \in SUBSET DOMAIN trLoans, NEW to, NEW resource,
           \A i \in DOMAIN trLoans : adds(trLoans[i], to, resource) => i \in records
    PROVE  Lent(records, to, resource) = splitDelegations(trLoans, to, resource).amount
<1> DEFINE D == DOMAIN trLoans
           M == {i \in records : trLoans[i].to = to /\ trLoans[i].resource = resource}
           f == Added(trLoans, to, resource)
           take == [s \in SUBSET M |-> IF s = {} THEN M ELSE CHOOSE x \in s : TRUE]
           op == [p \in M \X Nat |-> trLoans[p[1]].amount + p[2]]
<1>1. PICK pick \in Picks(D), g \in [SUBSET D -> Nat] :
         IsSum(g, D, pick, f) /\ splitDelegations(trLoans, to, resource).amount = g[D]
  BY RowOfLoans
<1>2. IsFiniteSet(D) /\ f \in [D -> Nat] /\ M \in SUBSET D /\ IsFiniteSet(M)
  <2>1. IsFiniteSet(D) /\ f \in [D -> Nat] /\ M \in SUBSET D
    BY RowOfLoans
  <2> HIDE DEF D, M
  <2> QED BY <2>1, FS_Subset
<1>3. \A i \in M : trLoans[i].amount = f[i] /\ trLoans[i].amount \in Nat
  <2>1. trLoans \in Seq([to : STRING, resource : STRING, amount : Nat, lock : Nat])
    BY TronAssumption
  <2>2. \A i \in D : trLoans[i].amount \in Nat
    <3>1. PICK R : R = [to : STRING, resource : STRING, amount : Nat, lock : Nat]
      OBVIOUS
    <3>2. \A i \in D : trLoans[i] \in R
      <4>1. trLoans \in Seq(R)
        BY <2>1, <3>1
      <4> QED BY <4>1
    <3> QED BY <3>1, <3>2
  <2> QED BY <2>2 DEF Added, adds
<1>4. \A i \in D \ M : f[i] = 0
  BY DEF Added, adds
<1>5. take \in Picks(M) /\ \A s \in SUBSET M : s # {} => take[s] = (CHOOSE x \in s : TRUE) /\ take[s] \in s
  <2> HIDE DEF M
  <2> QED BY DEF Picks
<1>6. op \in [M \X Nat -> Nat] /\ \A i \in M : \A n \in Nat : op[<<i, n>>] = trLoans[i].amount + n
  <2> HIDE DEF M
  <2> QED BY <1>3
<1>7. PICK h \in [SUBSET M -> Nat] : IsFold(h, M, take, op, 0)
  <2> HIDE DEF M, take, op
  <2> QED BY <1>2, <1>5, <1>6, FoldExists
<1>8. \A s \in SUBSET M : h[s] = IF s = {} THEN 0 ELSE trLoans[CHOOSE x \in s : TRUE].amount + h[s \ {CHOOSE x \in s : TRUE}]
  <2> SUFFICES ASSUME NEW s \in SUBSET M, s # {}
               PROVE  h[s] = trLoans[take[s]].amount + h[s \ {take[s]}]
    <3> HIDE DEF M, take, op
    <3> QED BY <1>5, <1>7 DEF IsFold
  <2>1. take[s] \in M /\ s \ {take[s]} \in SUBSET M /\ h[s] = op[<<take[s], h[s \ {take[s]}]>>]
    <3> HIDE DEF M, take, op
    <3> QED BY <1>5, <1>7 DEF IsFold
  <2>2. h[s \ {take[s]}] \in Nat
    <3> HIDE DEF M, take, op
    <3> QED BY <2>1
  <2> HIDE DEF M, take, op
  <2> QED BY <1>6, <2>1, <2>2
<1>9. PICK sum : /\ sum = [s \in SUBSET M |-> IF s = {} THEN 0
                             ELSE trLoans[CHOOSE x \in s : TRUE].amount + sum[s \ {CHOOSE x \in s : TRUE}]]
                 /\ Lent(records, to, resource) = sum[M]
  <2> DEFINE iter[s \in SUBSET M] ==
                 IF s = {} THEN 0
                 ELSE trLoans[CHOOSE x \in s : TRUE].amount + iter[s \ {CHOOSE x \in s : TRUE}]
  <2>1. Lent(records, to, resource) = iter[M]
    BY DEF Lent, MapThenSumSet, MapThenFoldSet
  <2>2. h = [s \in SUBSET M |-> IF s = {} THEN 0
               ELSE trLoans[CHOOSE x \in s : TRUE].amount + h[s \ {CHOOSE x \in s : TRUE}]]
    <3> HIDE DEF M
    <3> QED BY <1>7, <1>8
  <2>3. iter = [s \in SUBSET M |-> IF s = {} THEN 0
                  ELSE trLoans[CHOOSE x \in s : TRUE].amount + iter[s \ {CHOOSE x \in s : TRUE}]]
    <3> HIDE DEF M
    <3> QED BY <2>2
  <2> HIDE DEF iter
  <2> QED BY <2>1, <2>3
<1>10. IsSum(sum, M, take, f)
  <2> SUFFICES ASSUME NEW s \in SUBSET M PROVE sum[s] = IF s = {} THEN 0 ELSE f[take[s]] + sum[s \ {take[s]}]
    BY DEF IsSum
  <2>1. sum[s] = IF s = {} THEN 0 ELSE trLoans[CHOOSE x \in s : TRUE].amount + sum[s \ {CHOOSE x \in s : TRUE}]
    <3> HIDE DEF M
    <3> QED BY <1>9
  <2>2. s # {} => take[s] = (CHOOSE x \in s : TRUE) /\ take[s] \in M
    <3> HIDE DEF M, take
    <3> QED BY <1>5
  <2> HIDE DEF M, take, f
  <2> QED BY <1>3, <2>1, <2>2
<1> HIDE DEF D, M, take, f
<1>11. AnyOrder(g, D, f)
  BY <1>1, <1>2, SumAnyOrder
<1>12. g[M] = sum[M]
  BY <1>2, <1>5, <1>10, <1>11, SumsAgree
<1>13. g[D] = g[M]
  BY <1>1, <1>2, <1>4, SumWithoutZeros
<1> QED BY <1>1, <1>9, <1>12, <1>13

\* What was asked for is the row the records add up to, whose latest lock the
\* wallet's clock had passed.
AskedForAll ==
    LET row == splitDelegations(trLoans, trReq.to, trReq.resource) IN
    /\ trIntent.type = "reclaim" /\ trIntent.to = trReq.to /\ trIntent.resource = trReq.resource
    /\ trIntent.amount = row.amount
    /\ row.lock <= trTime + trSkew

ReclaimInv ==
    /\ trLoans \in TronLoans
    /\ trPhase # "idle" /\ trReq.kind = "reclaimAll" => AskedForAll
    /\ trLanded # None => trPhase = "done"
    /\ ReclaimAllTakesAll

LEMMA ReclaimAskInv ==
    ASSUME ReclaimInv, NEW r \in TronRequests,
           \/ SendTRX(r) \/ SendToken(r) \/ Trade(r) \/ Stake(r) \/ Unstake(r) \/ Delegate(r)
           \/ Reclaim(r) \/ ReclaimAll(r) \/ WithdrawUnstaked(r) \/ CancelUnstakes(r) \/ Deploy(r)
    PROVE  ReclaimInv'
<1>1. /\ UNCHANGED <<trTime, trSkew, trLoans, trLanded>> /\ trPhase = "idle" /\ trPhase' = "asked" /\ trReq' = r
      /\ r.kind = "reclaimAll" => ReclaimAll(r)
  BY DEF SendTRX, SendToken, Trade, Stake, Unstake, Delegate, Reclaim, ReclaimAll, WithdrawUnstaked,
     CancelUnstakes, Deploy, AskNode, trNode
<1>2. trLanded = None
  BY <1>1 DEF ReclaimInv
<1>3. ASSUME r.kind = "reclaimAll" PROVE AskedForAll'
  <2>1. PICK row : /\ row = splitDelegations(trLoans, r.to, r.resource) /\ row.lock <= trTime + trSkew
                   /\ trIntent' = resourceIntent("reclaim", r, row.amount)
    BY <1>1, <1>3 DEF ReclaimAll, reclaimable, AskNode, Now
  <2>2. /\ trIntent'.type = "reclaim" /\ trIntent'.to = r.to /\ trIntent'.resource = r.resource
        /\ trIntent'.amount = row.amount
    BY <2>1 DEF resourceIntent, NoBody
  <2> QED BY <1>1, <2>1, <2>2 DEF AskedForAll
<1> QED BY <1>1, <1>2, <1>3 DEF ReclaimInv, ReclaimAllTakesAll

\* Until it lands, nothing changes but the clock.
LEMMA ReclaimWaitInv ==
    ASSUME TronInv, ReclaimInv, AnswerHonestly \/ AnswerOtherwise \/ submitWithSigner \/ TronTick
    PROVE  ReclaimInv'
<1>1. /\ UNCHANGED <<trSkew, trLoans, trReq, trIntent, trLanded>> /\ trTime' \in {trTime, trTime + 1}
      /\ trPhase # "done" /\ (trPhase = "idle" <=> trPhase' = "idle")
  BY DEF AnswerHonestly, AnswerOtherwise, submitWithSigner, TronTick, trNode
<1>2. trLanded = None
  BY <1>1 DEF ReclaimInv
<1>3. ASSUME AskedForAll PROVE AskedForAll'
  <2>1. PICK row : row = splitDelegations(trLoans, trReq.to, trReq.resource)
    OBVIOUS
  <2>2. row.lock \in Nat
    BY <2>1, RowOfLoans DEF ReclaimInv
  <2>3. trTime \in Nat /\ trSkew \in Int
    BY TronAssumption DEF TronInv
  <2> QED BY <1>1, <1>3, <2>1, <2>2, <2>3 DEF AskedForAll
<1> QED BY <1>1, <1>2, <1>3 DEF ReclaimInv, ReclaimAllTakesAll

\* What is signed to take everything back asks for exactly what is lent, and
\* the chain refuses it only for a lock the wallet's clock is ahead of.
LEMMA ReclaimLandInv ==
    ASSUME TronInv, ReclaimInv, TronLand
    PROVE  ReclaimInv'
<1>1. /\ UNCHANGED <<trTime, trSkew, trLoans, trReq, trIntent, trTx>> /\ trPhase = "signed" /\ trPhase' = "done"
      /\ trTx.type = "reclaim" =>
           /\ trLanded'.ok = (trTx.amount <= Lent(Unlocked, trTx.to, trTx.resource))
           /\ trLanded'.left = Lent(DOMAIN trLoans, trTx.to, trTx.resource) - trTx.amount
  BY DEF TronLand, trNode
<1>2. AskedForAll => AskedForAll'
  BY <1>1 DEF AskedForAll
<1>3. ASSUME trReq.kind = "reclaimAll"
      PROVE  trLanded'.left = 0 /\ (trLanded'.ok \/ (trSkew > 0 /\ Unlocked # DOMAIN trLoans))
  <2>1. PICK row, to, resource : /\ row = splitDelegations(trLoans, to, resource)
                                 /\ to = trReq.to /\ resource = trReq.resource
    OBVIOUS
  <2>2. /\ trIntent.type = "reclaim" /\ trIntent.to = to /\ trIntent.resource = resource
        /\ trIntent.amount = row.amount /\ row.lock <= trTime + trSkew
    BY <1>1, <1>3, <2>1 DEF ReclaimInv, AskedForAll
  <2>3. trTx.type = "reclaim" /\ trTx.to = to /\ trTx.resource = resource /\ trTx.amount = row.amount
    <3>1. VerifiedBody(trTx)
      BY <1>1 DEF TronInv
    <3> QED BY <2>2, <3>1 DEF VerifiedBody, verifyParameter, Same
  <2>4. trLoans \in TronLoans /\ Unlocked \in SUBSET DOMAIN trLoans
    BY DEF ReclaimInv, Unlocked
  <2>5. row.lock \in Nat /\ row.amount \in Nat
    <3>1. PICK g \in [SUBSET DOMAIN trLoans -> Nat] : row.amount = g[DOMAIN trLoans]
      <4>1. \E pick \in Picks(DOMAIN trLoans), g \in [SUBSET DOMAIN trLoans -> Nat] :
              /\ IsSum(g, DOMAIN trLoans, pick, Added(trLoans, to, resource))
              /\ splitDelegations(trLoans, to, resource).amount = g[DOMAIN trLoans]
        BY <2>4, RowOfLoans
      <4> QED BY <2>1, <4>1
    <3>2. DOMAIN trLoans \in SUBSET DOMAIN trLoans
      OBVIOUS
    <3> QED BY <2>1, <2>4, <3>1, <3>2, RowOfLoans
  <2>6. Lent(DOMAIN trLoans, to, resource) = row.amount
    <3>1. DOMAIN trLoans \in SUBSET DOMAIN trLoans
      OBVIOUS
    <3> QED BY <2>1, <2>4, <3>1, LentIsRow
  <2>7. ASSUME ~(trSkew > 0 /\ Unlocked # DOMAIN trLoans)
        PROVE  \A i \in DOMAIN trLoans : adds(trLoans[i], to, resource) => i \in Unlocked
    <3>1. CASE Unlocked = DOMAIN trLoans
      BY <3>1
    <3>2. CASE ~(trSkew > 0)
      <4>1. trTime \in Nat /\ trSkew \in Int
        BY TronAssumption DEF TronInv
      <4>2. row.lock <= trTime
        BY <2>2, <2>5, <3>2, <4>1
      <4>3. \A i \in DOMAIN trLoans : adds(trLoans[i], to, resource) => trLoans[i].lock \in Nat /\ trLoans[i].lock <= row.lock
        BY <2>1, <2>4, RowOfLoans
      <4> QED BY <2>5, <4>1, <4>2, <4>3 DEF Unlocked
    <3> QED BY <2>7, <3>1, <3>2
  <2>8. ASSUME ~(trSkew > 0 /\ Unlocked # DOMAIN trLoans) PROVE Lent(Unlocked, to, resource) = row.amount
    BY <2>1, <2>4, <2>7, <2>8, LentIsRow
  <2>9. trLanded'.left = 0
    <3>1. PICK n \in Nat : n = row.amount
      BY <2>5
    <3> QED BY <1>1, <2>3, <2>6, <3>1
  <2>10. ASSUME Lent(Unlocked, to, resource) = row.amount PROVE trLanded'.ok
    <3>1. trTx.amount <= Lent(Unlocked, trTx.to, trTx.resource)
      BY <2>3, <2>5, <2>10
    <3> QED BY <1>1, <2>3, <3>1, Zenon
  <2> QED BY <2>8, <2>9, <2>10
<1>4. Unlocked' = Unlocked
  BY <1>1 DEF Unlocked
<1> QED BY <1>1, <1>2, <1>3, <1>4 DEF ReclaimInv, ReclaimAllTakesAll

\* Steps of the other adapters leave the Tron service alone.
LEMMA ReclaimIsInvariant == AdaptersSpec => []ReclaimInv
<1>1. AdaptersInit => ReclaimInv
  BY DEF AdaptersInit, TronInit, ReclaimInv, ReclaimAllTakesAll
<1>2. TronInv /\ ReclaimInv /\ [AdaptersNext]_adapterVars => ReclaimInv'
  <2> SUFFICES ASSUME TronInv, ReclaimInv, [AdaptersNext]_adapterVars PROVE ReclaimInv'
    OBVIOUS
  <2>1. TronNext \/ UNCHANGED trVars
    BY DEF AdaptersNext, EvmStep, SolanaStep, TronStep, SunSwapStep, adapterVars
  <2>2. CASE UNCHANGED trVars
    BY <2>2 DEF trVars, trNode, ReclaimInv, AskedForAll, ReclaimAllTakesAll, Unlocked
  <2> QED BY <2>1, <2>2, ReclaimAskInv, ReclaimWaitInv, ReclaimLandInv DEF TronNext
<1> QED BY <1>1, <1>2, TronIsInvariant, PTL DEF AdaptersSpec

\* "Take everything back" names all that is lent to the receiver, in however
\* many records the node lists it, and the chain accepts it unless a lock the
\* wallet's fast clock believes past still holds (ReclaimAll, splitDelegations,
\* reclaimable).
THEOREM EverythingComesBack == AdaptersSpec => []ReclaimAllTakesAll
<1>1. ReclaimInv => ReclaimAllTakesAll
  BY DEF ReclaimInv
<1> QED BY <1>1, ReclaimIsInvariant, PTL
=============================================================================
