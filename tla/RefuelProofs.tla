---------------------------- MODULE RefuelProofs ----------------------------
(***************************************************************************)
(* Theorems about Refuel, for any number of plans, wallets, transactions   *)
(* and requests, any lifetime of a quote and any way of failing to write.  *)
(***************************************************************************)
EXTENDS Refuel, TLAPS

\* A send request past Begin.
Sending(call) == call.phase \notin {"idle", "quoting"}

\* A stored plan is what was quoted under its id; an id that was not handed
\* out was never used.
PlanInv(p) ==
    /\ plans[p] # None => /\ p \in drawn /\ quoted[p] # None
                          /\ plans[p].wallet = quoted[p].wallet /\ plans[p].direct = quoted[p].direct
    /\ p \notin drawn => ops[p] = None /\ p \notin forgotten

\* As long as a plan has no record nobody signed for it, and nobody finished it.
FreshInv(p) ==
    p \notin forgotten /\ ops[p] = None =>
      /\ \A t \in Txs : txs[t].plan # p
      /\ plans[p] # None => ~plans[p].finished

\* A deposit is the one its record names, under a status that does not deny
\* it; while it is unresolved its plan is pending.
DepositInv(p) ==
    p \notin forgotten => \A t \in DepositsOf(p) :
      /\ ops[p] # None /\ ops[p].txHash = t
      /\ ops[p].status = "failed" => txs[t].state \in {"refused", "reverted"}
      /\ Unresolved(t) => plans[p] # None /\ Pending(p)

\* A send request and the record of its plan, as long as that is not pruned:
\* nothing was signed before it signs, from the claim on its plan is pending,
\* and it gives up only what cannot take effect.
CallInv(h) ==
    LET call == calls[h] p == call.plan IN
    /\ call.phase = "quoting" => call.wallet \in Wallets
    /\ call.phase = "signed" => call.tx \in Txs /\ txs[call.tx].plan = p
    /\ Sending(call) => p \in Plans
    /\ Sending(call) /\ p \notin forgotten =>
         /\ ops[p] # None
         /\ call.phase \in {"begun", "checked", "claimed"} =>
              ops[p].txHash = None /\ (plans[p] # None => ~plans[p].finished)
         /\ call.phase \in {"begun", "checked", "claimed", "fail", "failUpdate"} => DepositsOf(p) = {}
         /\ call.phase = "claimed" => plans[p] # None /\ Pending(p)
         /\ call.phase = "signed" => txs[call.tx].state = "signed"
         /\ call.tx # None => ops[p].txHash = call.tx
         /\ call.phase = "mark" \/ (call.phase = "finish" /\ call.status = "failed") =>
              \A t \in DepositsOf(p) : txs[t].state = "refused"

\* Two send requests never work on one plan.
Apart(g, h) ==
    g # h /\ Sending(calls[g]) /\ Sending(calls[h]) /\ calls[g].plan = calls[h].plan =>
      calls[g].plan \in forgotten

\* A status request marks a plan of which nothing more can come.
MarkInv(q) ==
    LET p == marking[q] IN
    p # None /\ p \notin forgotten =>
      /\ ops[p] # None /\ ops[p].txHash # None
      /\ \A t \in DepositsOf(p) : ~Unresolved(t)

\* One plan is pending for a wallet, whatever became of its record.
OnePending ==
    \A p, q \in Stored : Pending(p) /\ Pending(q) /\ plans[p].wallet = plans[q].wallet => p = q

IInv ==
    /\ TypeOK
    /\ \A p \in Plans : PlanInv(p) /\ FreshInv(p) /\ DepositInv(p)
    /\ \A h \in Handlers : CallInv(h)
    /\ \A g, h \in Handlers : Apart(g, h)
    /\ \A q \in Pollers : MarkInv(q)
    /\ OnePending

-----------------------------------------------------------------------------
(* The steps that write neither file.                                      *)

\* The initial states satisfy the inductive invariant.
LEMMA InitIInv == Init => IInv
<1> SUFFICES ASSUME Init PROVE IInv
  OBVIOUS
<1> USE RefuelAssumption DEF Init, NoCall, NoDeposit
<1>1. TypeOK
  BY DEF TypeOK, Calls, Phases, Deposits, Statuses
<1>2. \A p \in Plans : DepositsOf(p) = {}
  BY DEF DepositsOf
<1>3. \A p \in Plans : PlanInv(p) /\ FreshInv(p) /\ DepositInv(p)
  BY <1>2 DEF PlanInv, FreshInv, DepositInv
<1>4. \A h \in Handlers : CallInv(h)
  BY DEF CallInv, Sending
<1>5. \A g, h \in Handlers : Apart(g, h)
  BY DEF Apart, Sending
<1>6. \A q \in Pollers : MarkInv(q)
  BY DEF MarkInv
<1>7. OnePending
  BY DEF OnePending, Stored
<1> QED BY <1>1, <1>3, <1>4, <1>5, <1>6, <1>7 DEF IInv

\* A deposit that cannot take effect any more stays so.
LEMMA NetworkIInv ==
    ASSUME IInv, NEW t \in Txs, Deliver(t) \/ Land(t) \/ Bridge(t)
    PROVE  IInv'
<1>0. TypeOK /\ UNCHANGED <<clock, plans, ops, calls, marking, drawn, quoted, forgotten>>
  BY DEF IInv, Deliver, Land, Bridge
<1>1. txs' \in [Txs -> Deposits]
  BY <1>0 DEF TypeOK, Deposits, Deliver, Land, Bridge
<1>2. \A u \in Txs :
         /\ txs'[u].plan = txs[u].plan
         /\ txs[u].state \in {"refused", "reverted", "signed"} => txs'[u].state = txs[u].state
         /\ txs'[u].state = "withheld" <=> txs[u].state = "withheld"
         /\ Unresolved(u)' => Unresolved(u)
  <2>1. CASE Deliver(t)
    BY <1>0, <2>1 DEF TypeOK, Deposits, Deliver, Unresolved
  <2>2. CASE Bridge(t)
    BY <1>0, <2>2 DEF TypeOK, Deposits, Bridge, Unresolved
  <2>3. CASE Land(t)
    BY <1>0, <2>3 DEF TypeOK, Deposits, Land, Unresolved
  <2> QED BY <2>1, <2>2, <2>3
<1>3. \A p \in Plans : DepositsOf(p)' = DepositsOf(p) /\ DepositsOf(p) \subseteq Txs
  BY <1>2 DEF DepositsOf
<1>4. TypeOK'
  BY <1>0, <1>1 DEF TypeOK
<1>5. \A p \in Plans : PlanInv(p)' /\ FreshInv(p)'
  BY <1>0, <1>2 DEF IInv, PlanInv, FreshInv
<1>6. \A p \in Plans : DepositInv(p)'
  BY <1>0, <1>2, <1>3 DEF IInv, DepositInv, Pending
<1>7. \A h \in Handlers : CallInv(h)'
  BY <1>0, <1>2, <1>3 DEF IInv, CallInv, Sending, Pending
<1>8. \A g, h \in Handlers : Apart(g, h)'
  BY <1>0 DEF IInv, Apart, Sending
<1>9. \A q \in Pollers : MarkInv(q)'
  BY <1>0, <1>2, <1>3 DEF IInv, MarkInv, TypeOK
<1>10. OnePending'
  BY <1>0 DEF IInv, OnePending, Stored, Pending
<1> QED BY <1>4, <1>5, <1>6, <1>7, <1>8, <1>9, <1>10 DEF IInv

\* Only the request h moves, and writes nothing.
LEMMA CallIInv ==
    ASSUME IInv, NEW h \in Handlers, NEW new \in Calls, calls' = [calls EXCEPT ![h] = new],
           UNCHANGED <<clock, plans, ops, marking, drawn, txs, quoted, forgotten>>,
           Sending(new) => Sending(calls[h]) /\ new.plan = calls[h].plan,
           CallInv(h)'
    PROVE  IInv'
<1>0. TypeOK
  BY DEF IInv
<1>1. calls' \in [Handlers -> Calls] /\ calls'[h] = new /\ \A g \in Handlers : g # h => calls'[g] = calls[g]
  BY <1>0 DEF TypeOK
<1>2. \A p \in Plans : DepositsOf(p)' = DepositsOf(p)
  BY DEF DepositsOf
<1>3. \A t : Unresolved(t)' = Unresolved(t)
  BY DEF Unresolved
<1>4. TypeOK'
  BY <1>0, <1>1 DEF TypeOK
<1>5. \A p \in Plans : PlanInv(p)' /\ FreshInv(p)' /\ DepositInv(p)'
  BY <1>2, <1>3 DEF IInv, PlanInv, FreshInv, DepositInv, Pending
<1>6. ASSUME NEW g \in Handlers, g # h PROVE CallInv(g)'
  BY <1>1, <1>2, <1>6 DEF IInv, CallInv, Sending, Pending
<1>7. \A g, i \in Handlers : Apart(g, i)'
  BY <1>1 DEF IInv, Apart, Sending
<1>8. \A q \in Pollers : MarkInv(q)'
  BY <1>0, <1>2, <1>3 DEF IInv, MarkInv, TypeOK
<1>9. OnePending'
  BY DEF IInv, OnePending, Stored, Pending
<1> QED BY <1>4, <1>5, <1>6, <1>7, <1>8, <1>9 DEF IInv

\* Time passes, or the process starts again.
LEMMA RestartIInv ==
    ASSUME IInv, Tick \/ Crash \/ UNCHANGED vars
    PROVE  IInv'
<1>0. /\ TypeOK /\ UNCHANGED <<plans, ops, drawn, txs, quoted, forgotten>>
      /\ clock' \in Nat
  BY DEF IInv, TypeOK, Tick, Crash, vars
<1>1. /\ \A h \in Handlers : calls'[h] \in {calls[h], NoCall}
      /\ \A q \in Pollers : marking'[q] \in {marking[q], None}
      /\ NoCall \in Calls /\ NoCall.phase = "idle"
  BY <1>0 DEF Tick, Crash, vars, NoCall, Calls, Phases, Statuses
<1>2. calls' \in [Handlers -> Calls] /\ marking' \in [Pollers -> Plans \cup {None}]
  BY <1>0, <1>1 DEF Tick, Crash, vars, TypeOK
<1>3. \A p \in Plans : DepositsOf(p)' = DepositsOf(p)
  BY <1>0 DEF DepositsOf
<1>4. \A t : Unresolved(t)' = Unresolved(t)
  BY <1>0 DEF Unresolved
<1>5. TypeOK'
  BY <1>0, <1>2 DEF TypeOK
<1>6. \A p \in Plans : PlanInv(p)' /\ FreshInv(p)' /\ DepositInv(p)'
  BY <1>0, <1>3, <1>4 DEF IInv, PlanInv, FreshInv, DepositInv, Pending
<1>7. ASSUME NEW h \in Handlers PROVE CallInv(h)'
  <2>1. CASE calls'[h] = calls[h]
    BY <1>0, <1>3, <2>1 DEF IInv, CallInv, Sending, Pending
  <2>2. CASE calls'[h] = NoCall
    BY <1>1, <2>2 DEF CallInv, Sending, NoCall
  <2> QED BY <1>1, <2>1, <2>2
<1>8. \A g, h \in Handlers : Apart(g, h)'
  BY <1>0, <1>1 DEF IInv, Apart, Sending
<1>9. \A q \in Pollers : MarkInv(q)'
  BY <1>0, <1>1, <1>3, <1>4 DEF IInv, MarkInv, TypeOK
<1>10. OnePending'
  BY <1>0 DEF IInv, OnePending, Stored, Pending
<1> QED BY <1>5, <1>6, <1>7, <1>8, <1>9, <1>10 DEF IInv

\* Asking for a quote, checking one, and giving up before the signature.
LEMMA QuoteIInv ==
    ASSUME IInv, NEW h \in Handlers,
           QuoteRefuel(h) \/ QuoteEnds(h) \/ CheckQuote(h) \/ BuildFails(h)
    PROVE  IInv'
<1>0. /\ TypeOK /\ calls[h] \in Calls /\ CallInv(h)
      /\ UNCHANGED <<clock, plans, ops, marking, drawn, txs, quoted, forgotten>>
  BY DEF IInv, TypeOK, QuoteRefuel, QuoteEnds, CheckQuote, BuildFails
<1>1. CASE QuoteRefuel(h)
  <2>1. PICK w \in Wallets :
           calls' = [calls EXCEPT ![h] = [NoCall EXCEPT !.phase = "quoting", !.wallet = w]]
    BY <1>1 DEF QuoteRefuel
  <2> DEFINE new == [NoCall EXCEPT !.phase = "quoting", !.wallet = w]
  <2>2. new \in Calls /\ new.phase = "quoting" /\ new.wallet = w
    BY DEF NoCall, Calls, Phases, Statuses
  <2> HIDE DEF new
  <2>3. CallInv(h)'
    BY <1>0, <2>1, <2>2 DEF CallInv, Sending, TypeOK, new
  <2> QED BY <1>0, <2>1, <2>2, <2>3, CallIInv DEF Sending, new
<1>2. CASE QuoteEnds(h)
  <2>1. calls' = [calls EXCEPT ![h] = NoCall] /\ NoCall \in Calls /\ NoCall.phase = "idle"
    BY <1>2 DEF QuoteEnds, Return, NoCall, Calls, Phases, Statuses
  <2>2. CallInv(h)'
    BY <1>0, <2>1 DEF CallInv, Sending, TypeOK
  <2> QED BY <1>0, <2>1, <2>2, CallIInv DEF Sending
<1>3. ASSUME calls[h].phase \in {"begun", "claimed"},
             NEW new \in Calls, calls' = [calls EXCEPT ![h] = new],
             new.plan = calls[h].plan, new.tx = calls[h].tx,
             \/ calls[h].phase = "begun" /\ new.phase = "checked"
             \/ new.phase = "fail"
             \/ new.phase = "finish"
      PROVE  IInv'
  <2>1. calls'[h] = new
    BY <1>0, <1>3 DEF TypeOK
  <2>2. Sending(calls[h]) /\ Sending(new)
    BY <1>3 DEF Sending
  <2>3. DepositsOf(new.plan)' = DepositsOf(new.plan)
    BY <1>0 DEF DepositsOf
  <2>4. CallInv(h)'
    BY <1>0, <1>3, <2>1, <2>2, <2>3 DEF CallInv, Sending
  <2> QED BY <1>0, <1>3, <2>2, <2>4, CallIInv
<1>4. CASE CheckQuote(h) \/ BuildFails(h)
  <2>1. /\ calls[h].phase \in {"begun", "claimed"}
        /\ \/ \E phase \in {"checked", "fail"} :
                /\ calls' = [calls EXCEPT ![h] = [calls[h] EXCEPT !.phase = phase]]
                /\ phase = "checked" => calls[h].phase = "begun"
           \/ calls' = [calls EXCEPT ![h] = [calls[h] EXCEPT !.phase = "finish", !.status = "failed"]]
    BY <1>0, <1>4 DEF CheckQuote, BuildFails, Step, Calls, TypeOK
  <2>2. \A phase \in {"checked", "fail"} : LET new == [calls[h] EXCEPT !.phase = phase] IN
           new \in Calls /\ new.phase = phase /\ new.plan = calls[h].plan /\ new.tx = calls[h].tx
    BY <1>0 DEF Calls, Phases
  <2>3. LET new == [calls[h] EXCEPT !.phase = "finish", !.status = "failed"] IN
           new \in Calls /\ new.phase = "finish" /\ new.plan = calls[h].plan /\ new.tx = calls[h].tx
    BY <1>0 DEF Calls, Phases, Statuses
  <2> QED BY <1>3, <2>1, <2>2, <2>3
<1> QED BY <1>1, <1>2, <1>4

-----------------------------------------------------------------------------
(* Writes of refuel.json.                                                  *)

\* A request that returns holds nothing.
LEMMA Returns ==
    ASSUME TypeOK, NEW h \in Handlers, Return(h)
    PROVE  /\ calls' \in [Handlers -> Calls] /\ CallInv(h)' /\ ~Sending(calls'[h])
           /\ \A g \in Handlers : g # h => calls'[g] = calls[g]
<1>1. calls' \in [Handlers -> Calls] /\ calls'[h] = NoCall /\ NoCall.phase = "idle"
  BY DEF TypeOK, Return, NoCall, Calls, Phases, Statuses
<1> QED BY <1>1 DEF CallInv, Sending, TypeOK, Return

\* A plan is marked as finished of which nothing more can come.
LEMMA MarkIInv ==
    ASSUME IInv, NEW p \in Plans, NEW outcome \in Outcomes, plans' = WrittenPlans(Marked(p), outcome),
           UNCHANGED <<clock, ops, drawn, txs, quoted, forgotten>>,
           p \notin forgotten => ops[p] # None /\ \A t \in DepositsOf(p) : ~Unresolved(t),
           calls' \in [Handlers -> Calls], marking' \in [Pollers -> Plans \cup {None}],
           \A g \in Handlers :
             \/ /\ calls'[g] = calls[g]
                /\ Sending(calls[g]) /\ calls[g].plan = p /\ p \notin forgotten =>
                     calls[g].phase \notin {"begun", "checked", "claimed"}
             \/ CallInv(g)',
           \A g \in Handlers : Sending(calls'[g]) =>
             Sending(calls[g]) /\ calls'[g].plan = calls[g].plan,
           \A q \in Pollers : marking'[q] \in {marking[q], None}
    PROVE  IInv'
<1>0. TypeOK
  BY DEF IInv
<1>1. /\ plans' \in [Plans -> PlanRecords \cup {None}]
      /\ \A r \in Plans : /\ r # p => plans'[r] = plans[r]
                          /\ plans'[r] = None <=> plans[r] = None
                          /\ plans[r] # None => /\ plans'[r].wallet = plans[r].wallet
                                                /\ plans'[r].direct = plans[r].direct
                                                /\ Pending(r)' => Pending(r)
  <2>1. plans' = plans \/ (plans[p] # None /\ plans' = [plans EXCEPT ![p].started = TRUE, ![p].finished = TRUE])
    BY DEF WrittenPlans, Marked
  <2>2. CASE plans' = plans
    BY <1>0, <2>2 DEF TypeOK, Pending
  <2>3. CASE plans[p] # None /\ plans' = [plans EXCEPT ![p].started = TRUE, ![p].finished = TRUE]
    <3>1. plans[p] \in PlanRecords
      BY <1>0, <2>3 DEF TypeOK
    <3> DEFINE new == [plans[p] EXCEPT !.started = TRUE, !.finished = TRUE]
    <3>1a. /\ new \in PlanRecords /\ new.wallet = plans[p].wallet
          /\ new.direct = plans[p].direct /\ new.finished = TRUE
      BY <3>1 DEF PlanRecords
    <3>1b. plans' = [plans EXCEPT ![p] = new]
      BY <1>0, <2>3 DEF TypeOK
    <3> HIDE DEF new
    <3>2. plans'[p] \in PlanRecords /\ plans'[p].wallet = plans[p].wallet
          /\ plans'[p].direct = plans[p].direct /\ plans'[p].finished
      BY <1>0, <3>1a, <3>1b DEF TypeOK
    <3>3. \A r \in Plans : r # p => plans'[r] = plans[r]
      BY <1>0, <2>3 DEF TypeOK
    <3>4. plans' \in [Plans -> PlanRecords \cup {None}]
      BY <1>0, <3>1a, <3>1b DEF TypeOK
    <3>5. plans'[p] # None
      BY <3>2, RefuelAssumption
    <3> QED BY <2>3, <3>2, <3>3, <3>4, <3>5 DEF Pending
  <2> QED BY <2>1, <2>2, <2>3
<1>2. \A r \in Plans : DepositsOf(r)' = DepositsOf(r)
  BY DEF DepositsOf
<1>3. \A t : Unresolved(t)' = Unresolved(t)
  BY DEF Unresolved
<1>4. TypeOK'
  BY <1>0, <1>1 DEF TypeOK
<1>5. \A r \in Plans : PlanInv(r)'
  BY <1>1 DEF IInv, PlanInv
<1>6. \A r \in Plans : FreshInv(r)'
  BY <1>1 DEF IInv, FreshInv
<1>7. ASSUME NEW r \in Plans PROVE DepositInv(r)'
  <2>1. DepositInv(r)
    BY DEF IInv
  <2>2. CASE r = p
    BY <1>2, <1>3, <2>1, <2>2 DEF DepositInv
  <2>3. CASE r # p
    BY <1>1, <1>2, <1>3, <2>1, <2>3 DEF DepositInv, Pending
  <2> QED BY <2>2, <2>3
<1>8. ASSUME NEW g \in Handlers PROVE CallInv(g)'
  <2>1. CallInv(g)
    BY DEF IInv
  <2>2. CASE calls'[g] = calls[g] /\ ~(Sending(calls[g]) /\ calls[g].plan = p)
    BY <1>1, <1>2, <2>1, <2>2 DEF CallInv, Sending, Pending
  <2>3. CASE calls'[g] = calls[g] /\ Sending(calls[g]) /\ calls[g].plan = p /\ ~CallInv(g)'
    <3>1. p \notin forgotten => calls[g].phase \notin {"begun", "checked", "claimed"}
      BY <2>3
    <3> QED BY <1>2, <2>1, <2>3, <3>1 DEF CallInv, Sending
  <2> QED BY <2>2, <2>3
<1>9. \A g, h \in Handlers : Apart(g, h)'
  <2>1. \A g \in Handlers : Sending(calls[g])' = Sending(calls'[g])
    BY DEF Sending
  <2> QED BY <2>1 DEF IInv, Apart
<1>10. \A q \in Pollers : MarkInv(q)'
  BY <1>0, <1>2, <1>3 DEF IInv, MarkInv, TypeOK
<1>11. OnePending'
  BY <1>1 DEF IInv, OnePending, Stored
<1> QED BY <1>4, <1>5, <1>6, <1>7, <1>8, <1>9, <1>10, <1>11 DEF IInv

\* The request that signed nothing, or what the node refused, marks its plan.
LEMMA MarkFailedIInv ==
    ASSUME IInv, NEW h \in Handlers, MarkFailed(h) \/ FailMark(h)
    PROVE  IInv'
<1> DEFINE p == calls[h].plan
<1>0. /\ TypeOK /\ UNCHANGED <<clock, ops, drawn, txs, quoted, forgotten, marking>>
      /\ calls[h] \in Calls /\ CallInv(h) /\ calls[h].phase \in {"mark", "fail"}
  BY DEF IInv, TypeOK, MarkFailed, FailMark
<1>1. /\ p \in Plans /\ Sending(calls[h])
      /\ p \notin forgotten => ops[p] # None /\ \A t \in DepositsOf(p) : ~Unresolved(t)
  BY <1>0 DEF CallInv, Sending, Unresolved
<1>2. PICK outcome \in Outcomes : plans' = WrittenPlans(Marked(p), outcome)
  BY DEF MarkFailed, FailMark
<1>3. /\ calls' \in [Handlers -> Calls] /\ CallInv(h)'
      /\ Sending(calls'[h]) => calls'[h].plan = p
      /\ \A g \in Handlers : g # h => calls'[g] = calls[g]
  <2>1. CASE MarkFailed(h)
    BY <1>0, <2>1, Returns DEF MarkFailed
  <2>2. CASE FailMark(h)
    <3>1. calls' = [calls EXCEPT ![h].phase = "failUpdate"] /\ calls[h].phase = "fail"
      BY <2>2 DEF FailMark, Step
    <3>2. /\ calls' \in [Handlers -> Calls] /\ \A g \in Handlers : g # h => calls'[g] = calls[g]
          /\ calls'[h].phase = "failUpdate" /\ calls'[h].plan = p /\ calls'[h].tx = calls[h].tx
      BY <1>0, <3>1 DEF TypeOK, Calls, Phases
    <3>3. \A r \in Plans : DepositsOf(r)' = DepositsOf(r)
      BY <1>0 DEF DepositsOf
    <3>4. CallInv(h)'
      BY <1>0, <1>1, <3>1, <3>2, <3>3 DEF CallInv, Sending
    <3> QED BY <3>2, <3>4
  <2> QED BY <2>1, <2>2
<1>4. ASSUME NEW g \in Handlers, g # h, Sending(calls[g]), calls[g].plan = p, p \notin forgotten
      PROVE  FALSE
  BY <1>1, <1>4 DEF IInv, Apart
<1>5. marking' \in [Pollers -> Plans \cup {None}] /\ \A q \in Pollers : marking'[q] = marking[q]
  BY <1>0 DEF TypeOK
<1>6. \A g \in Handlers : \/ /\ calls'[g] = calls[g]
                             /\ ~(Sending(calls[g]) /\ calls[g].plan = p /\ p \notin forgotten)
                          \/ CallInv(g)'
  BY <1>3, <1>4
<1>7. \A g \in Handlers : Sending(calls'[g]) => Sending(calls[g]) /\ calls'[g].plan = calls[g].plan
  BY <1>1, <1>3
<1> HIDE DEF p
<1> QED BY <1>0, <1>1, <1>2, <1>3, <1>5, <1>6, <1>7, MarkIInv

\* A status request marks the plan whose deposit is over.
LEMMA MarkOverIInv ==
    ASSUME IInv, NEW q \in Pollers, MarkOver(q)
    PROVE  IInv'
<1> DEFINE p == marking[q]
<1>0. /\ TypeOK /\ UNCHANGED <<clock, ops, drawn, txs, quoted, forgotten, calls>>
      /\ p \in Plans /\ MarkInv(q)
  BY DEF IInv, TypeOK, MarkOver
<1>1. PICK outcome \in Outcomes : plans' = WrittenPlans(Marked(p), outcome)
  BY DEF MarkOver
<1>2. p \notin forgotten => /\ ops[p] # None /\ ops[p].txHash # None
                            /\ \A t \in DepositsOf(p) : ~Unresolved(t)
  BY <1>0, RefuelAssumption DEF MarkInv
<1>3. /\ marking' \in [Pollers -> Plans \cup {None}]
      /\ \A r \in Pollers : marking'[r] \in {marking[r], None}
  BY <1>0 DEF MarkOver, TypeOK
<1>4. \A g \in Handlers : Sending(calls[g]) /\ calls[g].plan = p /\ p \notin forgotten =>
         calls[g].phase \notin {"begun", "checked", "claimed"}
  BY <1>2 DEF IInv, CallInv
<1>5. calls' \in [Handlers -> Calls] /\ \A g \in Handlers : calls'[g] = calls[g]
  BY <1>0 DEF TypeOK
<1> HIDE DEF p
<1> QED BY <1>0, <1>1, <1>2, <1>3, <1>4, <1>5, MarkIInv

\* A status request finds out that a deposit is over.
LEMMA StatusIInv ==
    ASSUME IInv, NEW q \in Pollers, RefuelStatus(q)
    PROVE  IInv'
<1>0. TypeOK /\ UNCHANGED <<clock, plans, ops, calls, drawn, txs, quoted, forgotten>>
  BY DEF IInv, RefuelStatus
<1>1. PICK p \in Stored : /\ ops[p] # None /\ ops[p].txHash # None
                          /\ Over(ops[p].txHash, plans[p].direct)
                          /\ marking' = [marking EXCEPT ![q] = p]
  BY DEF RefuelStatus
<1>2. p \in Plans /\ plans[p] # None
  BY DEF Stored
<1>3. /\ marking' \in [Pollers -> Plans \cup {None}] /\ marking'[q] = p
      /\ \A r \in Pollers : r # q => marking'[r] = marking[r]
  BY <1>0, <1>1, <1>2 DEF TypeOK
<1>4. p \notin forgotten => \A t \in DepositsOf(p) : ~Unresolved(t)
  <2>1. DepositInv(p) /\ PlanInv(p)
    BY <1>2 DEF IInv
  <2>2. p \notin forgotten => \A t \in DepositsOf(p) :
           t = ops[p].txHash /\ txs[t].plan = p /\ quoted[p].direct = plans[p].direct
    BY <1>2, <2>1 DEF DepositInv, PlanInv, DepositsOf
  <2> QED BY <1>1, <2>2 DEF Over, Unresolved
<1>5. \A r \in Plans : DepositsOf(r)' = DepositsOf(r)
  BY <1>0 DEF DepositsOf
<1>6. \A t : Unresolved(t)' = Unresolved(t)
  BY <1>0 DEF Unresolved
<1>7. TypeOK'
  BY <1>0, <1>3 DEF TypeOK
<1>8. \A r \in Plans : PlanInv(r)' /\ FreshInv(r)' /\ DepositInv(r)'
  BY <1>0, <1>5, <1>6 DEF IInv, PlanInv, FreshInv, DepositInv, Pending
<1>9. \A h \in Handlers : CallInv(h)'
  BY <1>0, <1>5 DEF IInv, CallInv, Sending, Pending
<1>10. \A g, h \in Handlers : Apart(g, h)'
  BY <1>0 DEF IInv, Apart, Sending
<1>11. ASSUME NEW r \in Pollers PROVE MarkInv(r)'
  <2>1. CASE r = q
    BY <1>0, <1>1, <1>2, <1>3, <1>4, <1>5, <1>6, <2>1 DEF MarkInv
  <2>2. CASE r # q
    BY <1>0, <1>3, <1>5, <1>6, <2>2 DEF IInv, MarkInv, TypeOK
  <2> QED BY <2>1, <2>2
<1>12. OnePending'
  BY <1>0 DEF IInv, OnePending, Stored, Pending
<1> QED BY <1>7, <1>8, <1>9, <1>10, <1>11, <1>12 DEF IInv

\* A plan is added under a new id; what is dropped was not pending.
LEMMA PutIInv ==
    ASSUME IInv, NEW h \in Handlers, Put(h)
    PROVE  IInv'
<1> DEFINE kept == Stored \ {p \in Stored : Stale(p)}
           w == calls[h].wallet
<1>0. /\ TypeOK /\ UNCHANGED <<clock, ops, marking, txs, forgotten>>
      /\ w \in Wallets
  BY DEF IInv, Put, CallInv
<1>1. PICK p \in Plans \ drawn, direct \in BOOLEAN, outcome \in Outcomes :
         /\ drawn' = drawn \cup {p}
         /\ quoted' = [quoted EXCEPT ![p] = [wallet |-> w, direct |-> direct]]
         /\ plans' = WrittenPlans(
              [q \in Plans |->
                 IF q = p THEN [wallet |-> w, direct |-> direct,
                                expires |-> clock + QuoteTTL, created |-> clock,
                                started |-> FALSE, finished |-> FALSE]
                 ELSE IF q \in kept THEN plans[q] ELSE None], outcome)
         /\ UNCHANGED calls \/ Return(h)
  BY DEF Put
<1> DEFINE new == [wallet |-> w, direct |-> direct, expires |-> clock + QuoteTTL, created |-> clock,
                   started |-> FALSE, finished |-> FALSE]
           quote == [wallet |-> w, direct |-> direct]
<1>2. /\ new \in PlanRecords /\ new # None /\ new.wallet = w /\ new.direct = direct
      /\ ~new.started /\ ~new.finished
      /\ quote \in Quotes /\ quote.wallet = w /\ quote.direct = direct
  <2>1. new \in PlanRecords
    BY <1>0, RefuelAssumption DEF TypeOK, PlanRecords
  <2> QED BY <1>0, <2>1, RefuelAssumption DEF Quotes
<1>3. \A q \in Plans : plans[q] # None /\ q \notin kept => ~Pending(q)
  BY DEF Stored, Stale, Pending
<1>4. plans' = plans \/ plans' = [q \in Plans |-> IF q = p THEN new ELSE IF q \in kept THEN plans[q] ELSE None]
  BY <1>1 DEF WrittenPlans
<1>5. quoted' = [quoted EXCEPT ![p] = quote]
  BY <1>1
<1> HIDE DEF new, quote, kept
<1>6. plans' \in [Plans -> PlanRecords \cup {None}]
  BY <1>0, <1>2, <1>4 DEF TypeOK
<1>7. \A q \in Plans \ {p} :
         /\ plans'[q] \in {plans[q], None}
         /\ plans[q] # None /\ Pending(q) => plans'[q] = plans[q]
  BY <1>0, <1>3, <1>4 DEF TypeOK
<1>8. plans[p] = None /\ plans'[p] \in {None, new}
  BY <1>0, <1>1, <1>4 DEF IInv, PlanInv, TypeOK
<1>9. /\ quoted' \in [Plans -> Quotes \cup {None}]
      /\ quoted'[p] = quote /\ \A q \in Plans \ {p} : quoted'[q] = quoted[q]
  BY <1>0, <1>2, <1>5 DEF TypeOK
<1>10. quote # None
  BY <1>2, RefuelAssumption
<1>11. ops[p] = None /\ p \notin forgotten /\ \A t \in Txs : txs[t].plan # p
  BY <1>1 DEF IInv, PlanInv, FreshInv
<1>12. \A q \in Plans : DepositsOf(q)' = DepositsOf(q) /\ DepositsOf(q) \subseteq Txs /\ DepositsOf(p) = {}
  BY <1>0, <1>11 DEF DepositsOf
<1>13. \A q \in Plans : \A t \in DepositsOf(q) : Unresolved(t)' = Unresolved(t)
  <2>1. \A q \in Plans : \A t \in DepositsOf(q) : txs[t].plan = q /\ q # p
    BY <1>11, <1>12 DEF DepositsOf
  <2> QED BY <1>0, <1>9, <2>1 DEF Unresolved
<1>14. /\ calls' \in [Handlers -> Calls]
       /\ \A g \in Handlers : calls'[g] = calls[g] \/ (~Sending(calls'[g]) /\ CallInv(g)')
  BY <1>0, <1>1, Returns DEF TypeOK
<1>15. TypeOK'
  BY <1>0, <1>1, <1>6, <1>9, <1>14 DEF TypeOK
<1>16. ASSUME NEW q \in Plans PROVE PlanInv(q)' /\ FreshInv(q)' /\ DepositInv(q)'
  <2>0. PlanInv(q) /\ FreshInv(q) /\ DepositInv(q)
    BY DEF IInv
  <2>1. CASE q = p
    BY <1>0, <1>1, <1>2, <1>8, <1>9, <1>10, <1>11, <1>12, <2>1 DEF PlanInv, FreshInv, DepositInv
  <2>2. CASE q # p
    <3>1. plans'[q] \in {plans[q], None} /\ quoted'[q] = quoted[q] /\ ops'[q] = ops[q]
      BY <1>0, <1>7, <1>9, <2>2
    <3>2. PlanInv(q)' /\ FreshInv(q)'
      BY <1>0, <1>1, <2>0, <2>2, <3>1 DEF PlanInv, FreshInv
    <3>3. DepositInv(q)'
      BY <1>0, <1>7, <1>12, <1>13, <2>0, <2>2 DEF DepositInv, Pending
    <3> QED BY <3>2, <3>3
  <2> QED BY <2>1, <2>2
<1>17. ASSUME NEW g \in Handlers PROVE CallInv(g)'
  <2>1. CASE calls'[g] = calls[g]
    <3>1. CallInv(g)
      BY DEF IInv
    <3>2. Sending(calls[g]) => calls[g].plan # p
      BY <1>11, <3>1 DEF CallInv
    <3> QED BY <1>0, <1>7, <1>12, <2>1, <3>1, <3>2 DEF CallInv, Sending, Pending
  <2> QED BY <1>14, <2>1
<1>18. \A g, i \in Handlers : Apart(g, i)'
  <2>1. \A g \in Handlers : Sending(calls[g])' = Sending(calls'[g])
    BY DEF Sending
  <2> QED BY <1>0, <1>14, <2>1 DEF IInv, Apart
<1>19. \A q \in Pollers : MarkInv(q)'
  BY <1>0, <1>12, <1>13 DEF IInv, MarkInv, TypeOK
<1>20. OnePending'
  BY <1>2, <1>7, <1>8 DEF IInv, OnePending, Stored, Pending
<1> QED BY <1>15, <1>16, <1>17, <1>18, <1>19, <1>20 DEF IInv

\* A plan is claimed while no other one is pending for its wallet.
LEMMA ClaimIInv ==
    ASSUME IInv, NEW h \in Handlers, Claim(h)
    PROVE  IInv'
<1>0. PICK p \in Plans : p = calls[h].plan
  BY DEF IInv, CallInv, Claim, Sending
<1>1. /\ TypeOK /\ UNCHANGED <<clock, ops, marking, drawn, txs, quoted, forgotten>>
      /\ calls[h] \in Calls /\ CallInv(h) /\ calls[h].phase = "checked"
  BY DEF IInv, TypeOK, Claim
<1>2. PICK phase \in {"claimed", "fail"} :
         /\ calls' = [calls EXCEPT ![h].phase = phase]
         /\ \/ plans' = plans /\ phase = "fail"
            \/ plans[p] # None /\ ~OtherPending(p) /\ plans' = [plans EXCEPT ![p].started = TRUE]
  BY <1>0 DEF Claim, Step, WrittenPlans, Outcomes
<1>3. /\ calls' \in [Handlers -> Calls] /\ \A g \in Handlers : g # h => calls'[g] = calls[g]
      /\ calls'[h].phase = phase /\ calls'[h].plan = p /\ calls'[h].tx = calls[h].tx
  BY <1>0, <1>1, <1>2 DEF TypeOK, Calls, Phases
<1>4. /\ plans' \in [Plans -> PlanRecords \cup {None}]
      /\ \A q \in Plans : /\ q # p => plans'[q] = plans[q]
                          /\ plans'[q] = None <=> plans[q] = None
                          /\ plans[q] # None => /\ plans'[q].wallet = plans[q].wallet
                                                /\ plans'[q].direct = plans[q].direct
                                                /\ plans'[q].finished = plans[q].finished
                                                /\ Pending(q) => Pending(q)'
      /\ phase = "claimed" => plans'[p] # None /\ plans'[p].started
      /\ plans' = plans \/ ~OtherPending(p)
  <2>1. CASE plans' = plans /\ phase = "fail"
    BY <1>1, <2>1 DEF TypeOK, Pending
  <2>2. CASE plans[p] # None /\ ~OtherPending(p) /\ plans' = [plans EXCEPT ![p].started = TRUE]
    <3> DEFINE new == [plans[p] EXCEPT !.started = TRUE]
    <3>1. plans[p] \in PlanRecords
      BY <1>1, <2>2 DEF TypeOK
    <3>2. /\ new \in PlanRecords /\ new.wallet = plans[p].wallet /\ new.direct = plans[p].direct
          /\ new.finished = plans[p].finished /\ new.started = TRUE
      BY <3>1 DEF PlanRecords
    <3>3. plans' = [plans EXCEPT ![p] = new]
      BY <1>1, <2>2 DEF TypeOK
    <3>4. new # None
      BY <3>2, RefuelAssumption
    <3> HIDE DEF new
    <3>5. plans' \in [Plans -> PlanRecords \cup {None}] /\ plans'[p] = new
          /\ \A q \in Plans : q # p => plans'[q] = plans[q]
      BY <1>1, <3>2, <3>3 DEF TypeOK
    <3> QED BY <2>2, <3>2, <3>4, <3>5 DEF Pending
  <2> QED BY <1>2, <2>1, <2>2
<1>5. \A q \in Plans : DepositsOf(q)' = DepositsOf(q)
  BY <1>1 DEF DepositsOf
<1>6. \A t : Unresolved(t)' = Unresolved(t)
  BY <1>1 DEF Unresolved
<1>7. TypeOK'
  BY <1>1, <1>3, <1>4 DEF TypeOK
<1>8. \A q \in Plans : PlanInv(q)' /\ FreshInv(q)'
  BY <1>1, <1>4 DEF IInv, PlanInv, FreshInv
<1>9. \A q \in Plans : DepositInv(q)'
  BY <1>1, <1>4, <1>5, <1>6 DEF IInv, DepositInv
<1>10. ASSUME NEW g \in Handlers PROVE CallInv(g)'
  <2>1. CASE g = h
    BY <1>0, <1>1, <1>2, <1>3, <1>4, <1>5, <2>1 DEF CallInv, Sending, Pending
  <2>2. CASE g # h
    <3>1. calls'[g] = calls[g] /\ CallInv(g)
      BY <1>3, <2>2 DEF IInv
    <3> QED BY <1>1, <1>4, <1>5, <3>1 DEF CallInv, Sending
  <2> QED BY <2>1, <2>2
<1>11. \A g, i \in Handlers : Apart(g, i)'
  BY <1>0, <1>1, <1>3 DEF IInv, Apart, Sending
<1>12. \A q \in Pollers : MarkInv(q)'
  BY <1>1, <1>5, <1>6 DEF IInv, MarkInv, TypeOK
<1>13. OnePending'
  <2>1. CASE plans' = plans
    BY <2>1 DEF IInv, OnePending, Stored, Pending
  <2>2. CASE ~OtherPending(p)
    BY <1>4, <2>2 DEF IInv, OnePending, Stored, Pending, OtherPending
  <2> QED BY <1>4, <2>1, <2>2
<1> QED BY <1>7, <1>8, <1>9, <1>10, <1>11, <1>12, <1>13 DEF IInv

-----------------------------------------------------------------------------
(* Writes of operations.json.                                              *)

\* Update keeps a record a record.
LEMMA UpdatedType ==
    ASSUME NEW record \in Operations, NEW t \in Txs \cup {None}, NEW status \in Statuses, NEW now \in Nat
    PROVE  /\ Updated(record, t, status, 0, now) \in Operations
           /\ Updated(record, t, status, 0, now).txHash = KeptHash(record.txHash, t)
           /\ Updated(record, t, status, 0, now).status = status
BY DEF Updated, Operations, KeptHash

\* The record of one plan gets another status.
LEMMA RecordIInv ==
    ASSUME IInv, NEW p \in Plans, ops[p] # None, NEW new \in Operations,
           ops' = ops \/ ops' = [ops EXCEPT ![p] = new],
           p \notin forgotten =>
             /\ new.txHash = ops[p].txHash
             /\ new.status = "failed" => \A t \in DepositsOf(p) : txs[t].state \in {"refused", "reverted"},
           UNCHANGED <<clock, plans, marking, drawn, txs, quoted, forgotten>>,
           calls' \in [Handlers -> Calls],
           \A g \in Handlers : calls'[g] = calls[g] \/ CallInv(g)',
           \A g \in Handlers : Sending(calls'[g]) =>
             Sending(calls[g]) /\ calls'[g].plan = calls[g].plan
    PROVE  IInv'
<1>0. TypeOK /\ new # None
  BY RefuelAssumption DEF IInv
<1>1. /\ ops' \in [Plans -> Operations \cup {None}]
      /\ ops'[p] \in {ops[p], new} /\ \A q \in Plans : q # p => ops'[q] = ops[q]
  BY <1>0 DEF TypeOK
<1>2. \A q \in Plans : DepositsOf(q)' = DepositsOf(q)
  BY DEF DepositsOf
<1>3. \A t : Unresolved(t)' = Unresolved(t)
  BY DEF Unresolved
<1>4. /\ \A q \in Plans : ops'[q] = None <=> ops[q] = None
      /\ \A q \in Plans : ops[q] # None /\ q \notin forgotten => ops'[q].txHash = ops[q].txHash
  BY <1>0, <1>1
<1>5. TypeOK'
  BY <1>0, <1>1 DEF TypeOK
<1>6. \A q \in Plans : PlanInv(q)' /\ FreshInv(q)'
  BY <1>4 DEF IInv, PlanInv, FreshInv
<1>7. ASSUME NEW q \in Plans PROVE DepositInv(q)'
  <2>1. DepositInv(q)
    BY DEF IInv
  <2>2. CASE q = p
    BY <1>1, <1>2, <1>3, <1>4, <2>1, <2>2 DEF DepositInv, Pending
  <2>3. CASE q # p
    BY <1>1, <1>2, <1>3, <2>1, <2>3 DEF DepositInv, Pending
  <2> QED BY <2>2, <2>3
<1>8. ASSUME NEW g \in Handlers PROVE CallInv(g)'
  <2>1. CASE calls'[g] = calls[g]
    <3>1. CallInv(g)
      BY DEF IInv
    <3> QED BY <1>2, <1>4, <2>1, <3>1 DEF CallInv, Sending, Pending
  <2> QED BY <2>1
<1>9. \A g, h \in Handlers : Apart(g, h)'
  <2>1. \A g \in Handlers : Sending(calls[g])' = Sending(calls'[g])
    BY DEF Sending
  <2> QED BY <2>1 DEF IInv, Apart
<1>10. \A q \in Pollers : MarkInv(q)'
  BY <1>0, <1>2, <1>3, <1>4 DEF IInv, MarkInv, TypeOK
<1>11. OnePending'
  BY DEF IInv, OnePending, Stored, Pending
<1> QED BY <1>5, <1>6, <1>7, <1>8, <1>9, <1>10, <1>11 DEF IInv

\* The request writes what became of its deposit.
LEMMA FinishIInv ==
    ASSUME IInv, NEW h \in Handlers, Finish(h)
    PROVE  IInv'
<1>0. PICK p \in Plans : p = calls[h].plan
  BY DEF IInv, CallInv, Finish, Sending
<1>1. /\ TypeOK /\ UNCHANGED <<clock, plans, marking, drawn, txs, quoted, forgotten>>
      /\ calls[h] \in Calls /\ CallInv(h) /\ calls[h].phase = "finish" /\ Sending(calls[h])
  BY DEF IInv, TypeOK, Finish, Sending
<1> DEFINE new == Updated(ops[p], calls[h].tx, calls[h].status, 0, clock)
<1>2. PICK outcome \in Outcomes :
         /\ ops' = ops \/ (ops[p] # None /\ ops' = [ops EXCEPT ![p] = new])
         /\ \/ /\ ops[p] # None /\ calls[h].status = "failed"
               /\ calls' = [calls EXCEPT ![h].phase = "mark"]
            \/ Return(h)
  BY <1>0 DEF Finish, WrittenOps, Step
<1>3. ops[p] # None => /\ new \in Operations /\ new.status = calls[h].status
                       /\ new.txHash = KeptHash(ops[p].txHash, calls[h].tx)
  <2>1. ops[p] # None => ops[p] \in Operations
    BY <1>1 DEF TypeOK
  <2>2. calls[h].tx \in Txs \cup {None} /\ calls[h].status \in Statuses /\ clock \in Nat
    BY <1>1 DEF Calls, TypeOK
  <2> QED BY <2>1, <2>2, UpdatedType
<1> HIDE DEF new
<1>4. p \notin forgotten =>
         /\ ops[p] # None /\ new.txHash = ops[p].txHash
         /\ new.status = "failed" => \A t \in DepositsOf(p) : txs[t].state = "refused"
  BY <1>0, <1>1, <1>3 DEF CallInv, KeptHash
<1>5. ops[p] # None => ops'[p] # None /\ (p \notin forgotten => ops'[p].txHash = ops[p].txHash)
  <2>1. ops[p] # None => new # None
    BY <1>3, RefuelAssumption
  <2> QED BY <1>1, <1>2, <1>4, <2>1 DEF TypeOK
<1>6. /\ calls' \in [Handlers -> Calls] /\ CallInv(h)' /\ (Sending(calls'[h]) => calls'[h].plan = p)
      /\ \A g \in Handlers : g # h => calls'[g] = calls[g]
  <2>1. CASE calls[h].status = "failed" /\ calls' = [calls EXCEPT ![h].phase = "mark"]
    <3>1. /\ calls' \in [Handlers -> Calls] /\ \A g \in Handlers : g # h => calls'[g] = calls[g]
          /\ calls'[h].phase = "mark" /\ calls'[h].plan = p /\ calls'[h].tx = calls[h].tx
      BY <1>0, <1>1, <2>1 DEF TypeOK, Calls, Phases
    <3>2. DepositsOf(p)' = DepositsOf(p)
      BY <1>1 DEF DepositsOf
    <3>3. CallInv(h)'
      BY <1>0, <1>1, <1>4, <1>5, <2>1, <3>1, <3>2 DEF CallInv, Sending
    <3> QED BY <3>1, <3>3
  <2>2. CASE Return(h)
    BY <1>1, <2>2, Returns
  <2> QED BY <1>2, <2>1, <2>2
<1>7. CASE ops[p] # None
  <2>1. \A g \in Handlers : Sending(calls'[g]) => Sending(calls[g]) /\ calls'[g].plan = calls[g].plan
    BY <1>0, <1>1, <1>6
  <2>2. \A g \in Handlers : calls'[g] = calls[g] \/ CallInv(g)'
    BY <1>6
  <2>3. ops' = ops \/ ops' = [ops EXCEPT ![p] = new]
    BY <1>2
  <2>4. new \in Operations
    BY <1>3, <1>7
  <2> QED BY <1>1, <1>4, <1>6, <1>7, <2>1, <2>2, <2>3, <2>4, RecordIInv
<1>8. CASE ops[p] = None
  <2>1. ops' = ops /\ Return(h)
    BY <1>2, <1>8
  <2>2. calls' = [calls EXCEPT ![h] = NoCall] /\ NoCall \in Calls /\ ~Sending(NoCall)
    BY <2>1 DEF Return, NoCall, Calls, Phases, Statuses, Sending
  <2> QED BY <1>1, <1>6, <2>1, <2>2, CallIInv
<1> QED BY <1>7, <1>8

\* A request that gave up says so.
LEMMA FailUpdateIInv ==
    ASSUME IInv, NEW h \in Handlers, FailUpdate(h)
    PROVE  IInv'
<1>0. PICK p \in Plans : p = calls[h].plan
  BY DEF IInv, CallInv, FailUpdate, Sending
<1>1. /\ TypeOK /\ UNCHANGED <<clock, plans, marking, drawn, txs, quoted, forgotten>>
      /\ CallInv(h) /\ calls[h].phase = "failUpdate" /\ Sending(calls[h]) /\ Return(h)
  BY DEF IInv, FailUpdate, Sending
<1> DEFINE new == Updated(ops[p], None, "failed", 0, clock)
<1>2. ops' = ops \/ (ops[p] # None /\ ops' = [ops EXCEPT ![p] = new])
  BY <1>0 DEF FailUpdate, WrittenOps
<1>3. /\ calls' \in [Handlers -> Calls] /\ CallInv(h)' /\ ~Sending(calls'[h])
      /\ \A g \in Handlers : g # h => calls'[g] = calls[g]
  BY <1>1, Returns
<1>4. CASE ops[p] # None
  <2>1. ops[p] \in Operations /\ clock \in Nat /\ "failed" \in Statuses
    BY <1>1, <1>4 DEF TypeOK, Statuses
  <2>2. new \in Operations /\ new.txHash = ops[p].txHash
    <3>1. None \in Txs \cup {None}
      OBVIOUS
    <3>2. new \in Operations /\ new.txHash = KeptHash(ops[p].txHash, None)
      BY <2>1, <3>1, UpdatedType
    <3>3. KeptHash(ops[p].txHash, None) = ops[p].txHash
      BY DEF KeptHash
    <3> HIDE DEF new
    <3> QED BY <3>2, <3>3
  <2>3. p \notin forgotten => DepositsOf(p) = {}
    BY <1>0, <1>1 DEF CallInv
  <2> HIDE DEF new
  <2>4. \A g \in Handlers : Sending(calls'[g]) => Sending(calls[g]) /\ calls'[g].plan = calls[g].plan
    BY <1>3
  <2>5. \A g \in Handlers : calls'[g] = calls[g] \/ CallInv(g)'
    BY <1>3
  <2> QED BY <1>1, <1>2, <1>3, <1>4, <2>2, <2>3, <2>4, <2>5, RecordIInv
<1>5. CASE ops[p] = None
  <2>1. ops' = ops
    BY <1>2, <1>5
  <2>2. calls' = [calls EXCEPT ![h] = NoCall] /\ NoCall \in Calls /\ ~Sending(NoCall)
    BY <1>1 DEF Return, NoCall, Calls, Phases, Statuses, Sending
  <2> QED BY <1>1, <1>3, <2>1, <2>2, CallIInv
<1> QED BY <1>4, <1>5

\* A status request of the transaction writes what the source chain says.
LEMMA TransactionStatusIInv ==
    ASSUME IInv, NEW t \in Txs, TransactionStatus(t)
    PROVE  IInv'
<1>0. TypeOK /\ UNCHANGED <<clock, plans, calls, marking, drawn, txs, quoted, forgotten>>
  BY DEF IInv, TransactionStatus
<1>1. PICK p \in ByTxHash(ops, t), outcome \in Outcomes, status \in {"pending", "confirmed", "failed"} :
         /\ status = "failed" => txs[t].state = "reverted"
         /\ ops' = WrittenOps([ops EXCEPT ![p].status = status, ![p].updatedAt = clock], outcome)
  BY DEF TransactionStatus
<1>2. p \in Plans /\ ops[p] # None /\ ops[p].txHash = t /\ ops[p] \in Operations
  BY <1>0 DEF ByTxHash, Recorded, TypeOK
<1> DEFINE new == [ops[p] EXCEPT !.status = status, !.updatedAt = clock]
<1>3. new \in Operations /\ new.txHash = t /\ new.status = status
  BY <1>0, <1>2 DEF Operations, Statuses, TypeOK
<1>4. ops' = ops \/ ops' = [ops EXCEPT ![p] = new]
  BY <1>0, <1>1, <1>2 DEF WrittenOps, TypeOK
<1>5. p \notin forgotten => \A u \in DepositsOf(p) : u = t
  BY <1>2 DEF IInv, DepositInv
<1> HIDE DEF new
<1>6. p \notin forgotten => /\ new.txHash = ops[p].txHash
                            /\ new.status = "failed" =>
                                 \A u \in DepositsOf(p) : txs[u].state \in {"refused", "reverted"}
  BY <1>1, <1>2, <1>3, <1>5
<1>7. calls' \in [Handlers -> Calls] /\ \A g \in Handlers : calls'[g] = calls[g]
  BY <1>0 DEF TypeOK
<1> QED BY <1>0, <1>2, <1>3, <1>4, <1>6, <1>7, RecordIInv

\* A record is reserved for a plan that has none; what is pruned is forgotten.
LEMMA BeginIInv ==
    ASSUME IInv, NEW h \in Handlers, Begin(h)
    PROVE  IInv'
<1>0. TypeOK /\ UNCHANGED <<clock, plans, marking, drawn, txs, quoted>> /\ calls[h] = NoCall
  BY DEF IInv, Begin
<1>1. PICK p \in Stored, outcome \in Outcomes, D \in PruneChoices(ops, clock) :
         /\ ops[p] = None
         /\ ops' = WrittenOps([q \in Plans |-> IF q = p THEN Reserved(p, clock)
                                               ELSE IF q \in D THEN None ELSE ops[q]], outcome)
         /\ forgotten' = IF outcome = "failed" THEN forgotten ELSE forgotten \cup D
         /\ calls' = IF outcome = "ok"
                     THEN [calls EXCEPT ![h] = [NoCall EXCEPT !.phase = "begun", !.plan = p,
                                                              !.expires = plans[p].expires]]
                     ELSE calls
  BY DEF Begin
<1> DEFINE new == Reserved(p, clock)
           call == [NoCall EXCEPT !.phase = "begun", !.plan = p, !.expires = plans[p].expires]
<1>2. p \in Plans /\ plans[p] # None /\ plans[p] \in PlanRecords
  BY <1>0 DEF Stored, TypeOK
<1>3. new \in Operations /\ new # None /\ new.txHash = None
  <2>1. new \in Operations /\ new.txHash = None
    BY <1>0, <1>2 DEF Reserved, Operations, Statuses, TypeOK
  <2> QED BY <2>1, RefuelAssumption
<1>4. call \in Calls /\ call.phase = "begun" /\ call.plan = p /\ call.tx = None
  BY <1>2 DEF NoCall, Calls, Phases, Statuses, PlanRecords
<1>5. \A q \in D : q \in Plans /\ ops[q] # None
  BY <1>1 DEF PruneChoices, droppable, Recorded
<1>6. CASE outcome = "failed"
  <2>1. UNCHANGED <<ops, forgotten, calls>>
    BY <1>1, <1>6 DEF WrittenOps
  <2> QED BY <1>0, <2>1, RestartIInv DEF vars
<1>7. CASE outcome # "failed"
  <2>1. /\ ops' = [q \in Plans |-> IF q = p THEN new ELSE IF q \in D THEN None ELSE ops[q]]
        /\ forgotten' = forgotten \cup D
        /\ calls' = [calls EXCEPT ![h] = call] \/ calls' = calls
    BY <1>1, <1>7 DEF WrittenOps
  <2> HIDE DEF new, call
  <2>2. /\ ops' \in [Plans -> Operations \cup {None}] /\ ops'[p] = new
        /\ \A q \in Plans : q # p => ops'[q] = IF q \in D THEN None ELSE ops[q]
    BY <1>0, <1>2, <1>3, <2>1 DEF TypeOK
  <2>3. /\ calls' \in [Handlers -> Calls] /\ calls'[h] \in {call, NoCall}
        /\ \A g \in Handlers : g # h => calls'[g] = calls[g]
    BY <1>0, <1>4, <2>1 DEF TypeOK
  <2>4. \A q \in Plans : q \notin forgotten' => q \notin forgotten /\ (q # p => ops'[q] = ops[q])
    BY <2>1, <2>2
  <2>5. \A q \in Plans : DepositsOf(q)' = DepositsOf(q)
    BY <1>0 DEF DepositsOf
  <2>6. \A t : Unresolved(t)' = Unresolved(t)
    BY <1>0 DEF Unresolved
  <2>7. /\ p \notin forgotten => DepositsOf(p) = {} /\ ~plans[p].finished
        /\ p \in drawn /\ p \notin D
    <3>1. FreshInv(p) /\ PlanInv(p)
      BY <1>2 DEF IInv
    <3> QED BY <1>1, <1>2, <1>5, <3>1 DEF FreshInv, PlanInv, DepositsOf
  <2>8. TypeOK'
    BY <1>0, <1>5, <2>1, <2>2, <2>3 DEF TypeOK
  <2>9. ASSUME NEW q \in Plans PROVE PlanInv(q)' /\ FreshInv(q)' /\ DepositInv(q)'
    <3>0. PlanInv(q) /\ FreshInv(q) /\ DepositInv(q)
      BY DEF IInv
    <3>1. CASE q = p
      BY <1>0, <1>3, <2>2, <2>4, <2>5, <2>7, <3>0, <3>1 DEF PlanInv, FreshInv, DepositInv
    <3>2. CASE q # p
      <4>1. PlanInv(q)'
        BY <1>0, <1>5, <2>1, <2>2, <3>0, <3>2 DEF PlanInv
      <4>2. FreshInv(q)'
        BY <1>0, <2>4, <3>0, <3>2 DEF FreshInv
      <4>3. DepositInv(q)'
        BY <1>0, <2>4, <2>5, <2>6, <3>0, <3>2 DEF DepositInv, Pending
      <4> QED BY <4>1, <4>2, <4>3
    <3> QED BY <3>1, <3>2
  <2>10. \A g \in Handlers : Sending(calls[g]) /\ calls[g].plan \notin forgotten => calls[g].plan # p
    BY <1>1 DEF IInv, CallInv
  <2>11. ASSUME NEW g \in Handlers PROVE CallInv(g)'
    <3>1. CASE g # h
      <4>1. calls'[g] = calls[g] /\ CallInv(g)
        BY <2>3, <3>1 DEF IInv
      <4> QED BY <1>0, <2>4, <2>5, <2>10, <4>1 DEF CallInv, Sending, Pending
    <3>2. CASE g = h /\ calls'[h] = call
      BY <1>0, <1>2, <1>3, <1>4, <2>2, <2>4, <2>5, <2>7, <3>2 DEF CallInv, Sending
    <3>3. CASE g = h /\ calls'[h] = NoCall
      BY <3>3 DEF CallInv, Sending, NoCall
    <3> QED BY <2>3, <3>1, <3>2, <3>3
  <2>12. ASSUME NEW g \in Handlers, NEW i \in Handlers PROVE Apart(g, i)'
    <3>1. \A k \in Handlers : Sending(calls[k])' = Sending(calls'[k])
      BY DEF Sending
    <3>2. \A k \in Handlers : k # h /\ Sending(calls[k]) /\ calls[k].plan = p => p \in forgotten
      BY <2>10
    <3>3. Sending(calls'[h]) => calls'[h].plan = p
      BY <1>4, <2>3 DEF Sending, NoCall
    <3>4. forgotten \subseteq forgotten'
      BY <2>1
    <3> QED BY <2>3, <3>1, <3>2, <3>3, <3>4 DEF IInv, Apart
  <2>13. \A q \in Pollers : MarkInv(q)'
    BY <1>0, <1>1, <2>4, <2>5, <2>6 DEF IInv, MarkInv, TypeOK
  <2>14. OnePending'
    BY <1>0 DEF IInv, OnePending, Stored, Pending
  <2> QED BY <2>8, <2>9, <2>11, <2>12, <2>13, <2>14 DEF IInv
<1> QED BY <1>6, <1>7

-----------------------------------------------------------------------------
(* The deposit.                                                            *)

\* The deposit of a pending plan is signed; it leaves only under its record.
LEMMA SignIInv ==
    ASSUME IInv, NEW h \in Handlers, SignDeposit(h)
    PROVE  IInv'
<1>0. PICK p \in Plans : p = calls[h].plan
  BY DEF IInv, CallInv, SignDeposit, Sending
<1>1. /\ TypeOK /\ UNCHANGED <<clock, plans, marking, drawn, quoted, forgotten>>
      /\ calls[h] \in Calls /\ CallInv(h) /\ calls[h].phase = "claimed" /\ Sending(calls[h])
  BY DEF IInv, TypeOK, SignDeposit, Sending
<1>2. PICK t \in Txs, outcome \in Outcomes :
         /\ txs[t] = NoDeposit
         /\ txs' = [txs EXCEPT ![t].plan = p,
                               ![t].state = IF MayBroadcast(h, outcome) THEN "signed" ELSE "withheld"]
         /\ ops' = IF clock < calls[h].expires /\ ops[p] # None
                   THEN WrittenOps([ops EXCEPT ![p] = Updated(@, t, "broadcasting", 0, clock)], outcome)
                   ELSE ops
         /\ calls' = IF MayBroadcast(h, outcome)
                     THEN [calls EXCEPT ![h].phase = "signed", ![h].tx = t]
                     ELSE [calls EXCEPT ![h].phase = "finish", ![h].status = "failed"]
  BY <1>0 DEF SignDeposit
<1> DEFINE new == Updated(ops[p], t, "broadcasting", 0, clock)
           goes == MayBroadcast(h, outcome)
<1>3. p \notin forgotten => /\ ops[p] # None /\ ops[p].txHash = None /\ calls[h].tx = None
                            /\ DepositsOf(p) = {} /\ plans[p] # None /\ Pending(p)
  BY <1>0, <1>1 DEF CallInv
<1>4. ops[p] # None => new \in Operations /\ new.txHash = t /\ new.status = "broadcasting" /\ new # None
  <2>1. ops[p] # None => ops[p] \in Operations
    BY <1>1 DEF TypeOK
  <2>2. clock \in Nat /\ "broadcasting" \in Statuses /\ KeptHash(ops[p].txHash, t) = t
    BY <1>1, RefuelAssumption DEF TypeOK, Statuses, KeptHash
  <2>3. ops[p] # None => /\ new \in Operations /\ new.status = "broadcasting"
                         /\ new.txHash = KeptHash(ops[p].txHash, t)
    BY <2>1, <2>2, UpdatedType
  <2> HIDE DEF new
  <2> QED BY <2>2, <2>3, RefuelAssumption
<1>5. /\ ops' = ops \/ (ops[p] # None /\ ops' = [ops EXCEPT ![p] = new])
      /\ goes => ops[p] # None /\ ops' = [ops EXCEPT ![p] = new]
  BY <1>0, <1>1, <1>2 DEF WrittenOps, MayBroadcast, TypeOK
<1> HIDE DEF new
<1>6. /\ ops' \in [Plans -> Operations \cup {None}] /\ ops'[p] \in {ops[p], new}
      /\ \A q \in Plans : q # p => ops'[q] = ops[q]
      /\ \A q \in Plans : ops'[q] = None <=> ops[q] = None
      /\ goes => ops'[p] = new
  BY <1>1, <1>4, <1>5 DEF TypeOK
<1>7. /\ txs' \in [Txs -> Deposits] /\ \A u \in Txs : u # t => txs'[u] = txs[u]
      /\ txs'[t].plan = p /\ txs'[t].state = (IF goes THEN "signed" ELSE "withheld")
      /\ txs[t].plan = None /\ txs[t].state = "new"
  BY <1>1, <1>2 DEF TypeOK, Deposits, NoDeposit
<1>8. /\ calls' \in [Handlers -> Calls] /\ \A g \in Handlers : g # h => calls'[g] = calls[g]
      /\ calls'[h].plan = p
      /\ goes => calls'[h].phase = "signed" /\ calls'[h].tx = t
      /\ ~goes => calls'[h].phase = "finish" /\ calls'[h].tx = calls[h].tx
  BY <1>0, <1>1, <1>2 DEF TypeOK, Calls, Phases, Statuses
<1> HIDE DEF goes
<1>9. /\ \A q \in Plans : q # p => DepositsOf(q)' = DepositsOf(q)
      /\ p \notin forgotten => DepositsOf(p)' = IF goes THEN {t} ELSE {}
  <2>1. \A q \in Plans : q # p => DepositsOf(q)' = DepositsOf(q)
    BY <1>7, RefuelAssumption DEF DepositsOf
  <2>2. p \notin forgotten => \A u \in Txs : u # t /\ txs[u].plan = p => txs[u].state = "withheld"
    BY <1>3 DEF DepositsOf
  <2>3. p \notin forgotten => DepositsOf(p)' = IF goes THEN {t} ELSE {}
    BY <1>7, <2>2 DEF DepositsOf
  <2> QED BY <2>1, <2>3
<1>10. \A q \in Plans : \A u \in DepositsOf(q) : u # t /\ Unresolved(u)' = Unresolved(u)
  <2>1. \A q \in Plans : \A u \in DepositsOf(q) : u \in Txs /\ u # t
    BY <1>7, RefuelAssumption DEF DepositsOf
  <2> QED BY <1>1, <1>7, <2>1 DEF Unresolved
<1>11. TypeOK'
  BY <1>1, <1>6, <1>7, <1>8 DEF TypeOK
<1>12. \A q \in Plans : PlanInv(q)'
  BY <1>1, <1>6 DEF IInv, PlanInv
<1>13. \A q \in Plans : FreshInv(q)'
  <2>1. \A q \in Plans : q \notin forgotten /\ ops[q] = None => q # p
    BY <1>3
  <2> QED BY <1>1, <1>6, <1>7, <2>1 DEF IInv, FreshInv
<1>14. ASSUME NEW q \in Plans PROVE DepositInv(q)'
  <2>1. CASE q = p
    BY <1>1, <1>3, <1>4, <1>6, <1>9, <2>1 DEF DepositInv, Pending
  <2>2. CASE q # p
    <3>1. /\ DepositInv(q) /\ DepositsOf(q)' = DepositsOf(q) /\ ops'[q] = ops[q]
          /\ \A u \in DepositsOf(q) : txs'[u] = txs[u] /\ Unresolved(u)' = Unresolved(u)
      BY <1>6, <1>7, <1>9, <1>10, <2>2 DEF IInv, DepositsOf
    <3> QED BY <1>1, <3>1 DEF DepositInv, Pending
  <2> QED BY <2>1, <2>2
<1>15. \A g \in Handlers : g # h /\ Sending(calls[g]) /\ calls[g].plan \notin forgotten => calls[g].plan # p
  BY <1>0, <1>1 DEF IInv, Apart
<1>16. ASSUME NEW g \in Handlers PROVE CallInv(g)'
  <2>1. CASE g = h /\ goes
    BY <1>1, <1>3, <1>4, <1>6, <1>7, <1>8, <1>9, <2>1 DEF CallInv, Sending
  <2>2. CASE g = h /\ ~goes
    BY <1>1, <1>3, <1>6, <1>8, <1>9, <2>2 DEF CallInv, Sending
  <2>3. CASE g # h
    <3>0. calls'[g] = calls[g] /\ CallInv(g) /\ Sending(calls[g])' = Sending(calls[g])
      BY <1>8, <2>3 DEF IInv, Sending
    <3>1. CASE Sending(calls[g]) /\ calls[g].plan \notin forgotten
      <4> DEFINE q == calls[g].plan
      <4>1. q \in Plans /\ q # p
        BY <1>15, <2>3, <3>0, <3>1 DEF CallInv
      <4>2. calls[g].phase = "signed" => calls[g].tx \in Txs /\ calls[g].tx # t
        BY <1>7, <3>0, <3>1, <4>1, RefuelAssumption DEF CallInv
      <4>3. \A u \in DepositsOf(q) : txs'[u] = txs[u]
        BY <1>7, <1>10, <4>1 DEF DepositsOf
      <4>4. DepositsOf(q)' = DepositsOf(q) /\ ops'[q] = ops[q] /\ Pending(q)' = Pending(q)
        BY <1>1, <1>6, <1>9, <3>0, <4>1 DEF Pending
      <4> QED BY <1>1, <1>7, <3>0, <3>1, <4>1, <4>2, <4>3, <4>4 DEF CallInv
    <3>2. CASE ~(Sending(calls[g]) /\ calls[g].plan \notin forgotten)
      <4>1. calls[g].phase = "signed" => calls[g].tx \in Txs /\ calls[g].tx # t
        BY <1>7, <3>0, RefuelAssumption DEF CallInv, Sending
      <4> QED BY <1>1, <1>7, <3>0, <3>2, <4>1 DEF CallInv
    <3> QED BY <3>1, <3>2
  <2> QED BY <2>1, <2>2, <2>3
<1>17. \A g, i \in Handlers : Apart(g, i)'
  <2>1. \A g \in Handlers : /\ Sending(calls[g])' = Sending(calls[g]) /\ calls'[g].plan = calls[g].plan
    BY <1>0, <1>1, <1>8 DEF Sending
  <2> QED BY <1>1, <2>1 DEF IInv, Apart
<1>18. ASSUME NEW q \in Pollers PROVE MarkInv(q)'
  <2>1. MarkInv(q) /\ marking'[q] = marking[q] /\ marking[q] \in Plans \cup {None}
    BY <1>1 DEF IInv, TypeOK
  <2>2. marking[q] \notin forgotten => marking[q] # p
    BY <1>3, <2>1, RefuelAssumption DEF MarkInv
  <2> QED BY <1>1, <1>6, <1>9, <1>10, <2>1, <2>2 DEF MarkInv
<1>19. OnePending'
  BY <1>1 DEF IInv, OnePending, Stored, Pending
<1> QED BY <1>11, <1>12, <1>13, <1>14, <1>16, <1>17, <1>18, <1>19 DEF IInv

\* The node's answer, or none.
LEMMA BroadcastIInv ==
    ASSUME IInv, NEW h \in Handlers, Broadcast(h)
    PROVE  IInv'
<1>0. PICK p \in Plans, t \in Txs : p = calls[h].plan /\ t = calls[h].tx
  BY DEF IInv, CallInv, Broadcast, Sending
<1>1. /\ TypeOK /\ UNCHANGED <<clock, plans, ops, marking, drawn, quoted, forgotten>>
      /\ calls[h] \in Calls /\ CallInv(h) /\ calls[h].phase = "signed" /\ Sending(calls[h])
  BY DEF IInv, TypeOK, Broadcast, Sending
<1>2. PICK answered \in {"mempool", "refused", "air"} :
         /\ txs' = [txs EXCEPT ![t].state = answered]
         /\ calls' = [calls EXCEPT ![h].phase = "finish", ![h].status = BroadcastStatus(answered)]
  BY <1>0 DEF Broadcast
<1>3. BroadcastStatus(answered) \in Statuses /\ (BroadcastStatus(answered) = "failed" => answered = "refused")
  BY DEF BroadcastStatus, Statuses
<1>4. /\ txs[t].plan = p
      /\ p \notin forgotten => txs[t].state = "signed" /\ ops[p] # None /\ ops[p].txHash = t
  BY <1>0, <1>1, RefuelAssumption DEF CallInv
<1>5. /\ txs' \in [Txs -> Deposits] /\ \A u \in Txs : u # t => txs'[u] = txs[u]
      /\ txs'[t].plan = txs[t].plan /\ txs'[t].state = answered
  BY <1>1 , <1>2 DEF TypeOK, Deposits
<1>6. /\ calls' \in [Handlers -> Calls] /\ \A g \in Handlers : g # h => calls'[g] = calls[g]
      /\ calls'[h].plan = p /\ calls'[h].phase = "finish" /\ calls'[h].tx = t
      /\ calls'[h].status = BroadcastStatus(answered)
  BY <1>0, <1>1, <1>2, <1>3 DEF TypeOK, Calls, Phases
<1>7. \A q \in Plans \ forgotten :
         /\ DepositsOf(q)' = DepositsOf(q) /\ DepositsOf(q) \subseteq Txs
         /\ t \in DepositsOf(q) => q = p
  BY <1>4, <1>5 DEF DepositsOf
<1>8. p \notin forgotten => DepositsOf(p) = {t} /\ Unresolved(t)
  BY <1>0, <1>4 DEF IInv, DepositInv, DepositsOf, Unresolved
<1>9. \A u \in Txs : u # t => Unresolved(u)' = Unresolved(u)
  BY <1>1, <1>5 DEF Unresolved
<1>10. TypeOK'
  BY <1>1, <1>5, <1>6 DEF TypeOK
<1>11. \A q \in Plans : PlanInv(q)' /\ FreshInv(q)'
  BY <1>1, <1>5 DEF IInv, PlanInv, FreshInv
<1>12. ASSUME NEW q \in Plans, q \notin forgotten PROVE DepositInv(q)'
  <2>0. DepositInv(q)
    BY DEF IInv
  <2>1. CASE q = p
    BY <1>1, <1>4, <1>7, <1>8, <1>12, <2>0, <2>1 DEF DepositInv, Pending
  <2>2. CASE q # p
    BY <1>1, <1>5, <1>7, <1>9, <1>12, <2>0, <2>2 DEF DepositInv, Pending
  <2> QED BY <2>1, <2>2
<1>13. \A q \in Plans : DepositInv(q)'
  BY <1>1, <1>12 DEF DepositInv
<1>14. ASSUME NEW g \in Handlers PROVE CallInv(g)'
  <2>1. CASE g = h
    BY <1>1, <1>3, <1>4, <1>5, <1>6, <1>7, <1>8, <2>1 DEF CallInv, Sending
  <2>2. CASE g # h
    <3>0. calls'[g] = calls[g] /\ CallInv(g) /\ Sending(calls[g])' = Sending(calls[g])
      BY <1>6, <2>2 DEF IInv, Sending
    <3>1. CASE Sending(calls[g]) /\ calls[g].plan \notin forgotten
      <4> DEFINE q == calls[g].plan
      <4>1. q \in Plans /\ q # p
        BY <1>0, <1>1, <2>2, <3>0, <3>1 DEF CallInv, IInv, Apart
      <4>2. calls[g].phase = "signed" => calls[g].tx # t
        BY <1>4, <3>0, <4>1 DEF CallInv
      <4>3. \A u \in DepositsOf(q) : u \in Txs /\ u # t
        BY <1>7, <3>1, <4>1
      <4> QED BY <1>1, <1>5, <1>7, <3>0, <3>1, <4>1, <4>2, <4>3 DEF CallInv, Pending
    <3>2. CASE ~(Sending(calls[g]) /\ calls[g].plan \notin forgotten)
      <4>1. \A u \in Txs : txs'[u].plan = txs[u].plan
        BY <1>5
      <4> QED BY <1>1, <3>0, <3>2, <4>1 DEF CallInv
    <3> QED BY <3>1, <3>2
  <2> QED BY <2>1, <2>2
<1>15. \A g, i \in Handlers : Apart(g, i)'
  <2>1. \A g \in Handlers : /\ Sending(calls[g])' = Sending(calls[g]) /\ calls'[g].plan = calls[g].plan
    BY <1>0, <1>1, <1>6 DEF Sending
  <2> QED BY <1>1, <2>1 DEF IInv, Apart
<1>16. ASSUME NEW q \in Pollers PROVE MarkInv(q)'
  <2>1. MarkInv(q) /\ marking'[q] = marking[q] /\ marking[q] \in Plans \cup {None}
    BY <1>1 DEF IInv, TypeOK
  <2>2. marking[q] \notin forgotten => marking[q] # p
    BY <1>8, <2>1, RefuelAssumption DEF MarkInv
  <2> QED BY <1>1, <1>7, <1>9, <2>1, <2>2 DEF MarkInv
<1>17. OnePending'
  BY <1>1 DEF IInv, OnePending, Stored, Pending
<1> QED BY <1>10, <1>11, <1>13, <1>14, <1>15, <1>16, <1>17 DEF IInv

-----------------------------------------------------------------------------
(* The theorems.                                                           *)

\* The invariant holds throughout.
LEMMA Inductive == Spec => []IInv
<1>1. IInv /\ [Next]_vars => IInv'
  <2> SUFFICES ASSUME IInv, [Next]_vars PROVE IInv'
    OBVIOUS
  <2>1. ASSUME NEW h \in Handlers, CallStep(h) PROVE IInv'
    BY <2>1, QuoteIInv, PutIInv, BeginIInv, ClaimIInv, SignIInv, BroadcastIInv, FinishIInv,
       MarkFailedIInv, FailUpdateIInv DEF CallStep
  <2>2. ASSUME NEW q \in Pollers, RefuelStatus(q) \/ MarkOver(q) PROVE IInv'
    BY <2>2, StatusIInv, MarkOverIInv
  <2>3. ASSUME NEW t \in Txs, TransactionStatus(t) \/ Deliver(t) \/ Land(t) \/ Bridge(t) PROVE IInv'
    BY <2>3, TransactionStatusIInv, NetworkIInv
  <2>4. CASE Tick \/ Crash \/ UNCHANGED vars
    BY <2>4, RestartIInv
  <2> QED BY <2>1, <2>2, <2>3, <2>4 DEF Next
<1> QED BY <1>1, InitIInv, PTL DEF Spec

\* The plans, records and requests keep their types.
THEOREM TypeCorrect == Spec => []TypeOK
<1>1. IInv => TypeOK
  BY DEF IInv
<1> QED BY <1>1, Inductive, PTL

\* Both files agree with what became of a deposit, across failed and unsynced
\* writes of either file, restarts and status requests.
THEOREM FilesAgree == Spec => []DepositAccountedFor
<1>1. IInv => DepositAccountedFor
  BY DEF IInv, DepositInv, DepositAccountedFor, Stored, Pending
<1> QED BY <1>1, Inductive, PTL

\* A wallet never has two top-ups under way, from however many tabs, quotes
\* and restarts: an unresolved deposit keeps its plan pending, and one plan of
\* a wallet is pending at a time.
THEOREM OneTopUp == Spec => []OneTopUpPerWallet
<1>1. IInv => OneTopUpPerWallet
  <2> SUFFICES ASSUME IInv, NEW p \in Plans \ forgotten, NEW q \in Plans \ forgotten,
                      quoted[p].wallet = quoted[q].wallet,
                      NEW t \in DepositsOf(p), NEW u \in DepositsOf(q), Unresolved(t), Unresolved(u)
               PROVE  t = u
    BY DEF OneTopUpPerWallet
  <2>1. /\ plans[p] # None /\ Pending(p) /\ ops[p].txHash = t
        /\ plans[q] # None /\ Pending(q) /\ ops[q].txHash = u
    BY DEF IInv, DepositInv
  <2>2. plans[p].wallet = plans[q].wallet
    BY <2>1 DEF IInv, PlanInv
  <2>3. p = q
    BY <2>1, <2>2 DEF IInv, OnePending, Stored
  <2> QED BY <2>1, <2>3
<1> QED BY <1>1, Inductive, PTL
=============================================================================
