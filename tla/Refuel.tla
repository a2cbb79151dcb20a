------------------------------- MODULE Refuel -------------------------------
(***************************************************************************)
(* Gas top-ups: the plans of internal/refuel/store.go (refuel.json) and    *)
(* the handlers quoteRefuel, sendRefuel and refuelStatus, composed with    *)
(* the operation records of OperationStore.  The two files have a mutex    *)
(* each and are written one after the other, so every write is a step.     *)
(*                                                                         *)
(* A plan pays a deposit from another wallet; for a bridged plan the       *)
(* provider then delivers gas to the wallet, or cancels.  The operation of *)
(* plan p has the key "refuel-" p and the request hash of p, so p stands   *)
(* for both.  Amounts and fees only decide whether a step goes on or       *)
(* fails, which is a free choice here.                                     *)
(***************************************************************************)
EXTENDS Integers, FiniteSets

CONSTANTS
    Plans,           \* plan ids
    Wallets,         \* wallets that need gas: a network and an account of it
    Txs,             \* transaction ids
    Handlers,        \* quote and send requests at the same time
    Pollers,         \* refuelStatus requests at the same time
    Faults,          \* ways a write may fail
    QuoteTTL,        \* for how long a quote is good (90 s for a direct one)
    PlanRetention,   \* age from which a finished plan is dropped (7 days)
    MaxPlans,        \* plans a file may hold (512)
    MaxOperations,   \* see OperationStore
    Retention,       \* see OperationStore
    MaxTime,         \* bound of the clock
    None

INSTANCE OperationStore WITH Keys <- Plans, Requests <- Plans

Quotes == [wallet : Wallets, direct : BOOLEAN]
PlanRecords == [wallet : Wallets, direct : BOOLEAN, expires : Nat, created : Nat,
                started : BOOLEAN, finished : BOOLEAN]

\* "withheld": signed, but BeforeBroadcast did not let it out.
Deposits == [state : {"new", "withheld", "signed", "air", "mempool", "refused", "landed", "reverted"},
             plan : Plans \cup {None}, delivery : {"none", "delivered", "cancelled"}]
NoDeposit == [state |-> "new", plan |-> None, delivery |-> "none"]

Phases == {"idle", "quoting", "begun", "checked", "claimed", "signed", "finish", "mark",
           "fail", "failUpdate"}
Calls == [phase : Phases, wallet : Wallets \cup {None}, plan : Plans \cup {None},
          expires : Nat, tx : Txs \cup {None}, status : Statuses]
NoCall == [phase |-> "idle", wallet |-> None, plan |-> None, expires |-> 0, tx |-> None,
           status |-> "failed"]

ASSUME RefuelAssumption ==
    /\ Faults \subseteq {"failed", "unsynced"}
    /\ QuoteTTL \in Nat /\ PlanRetention \in Nat
    /\ MaxPlans \in Nat \ {0} /\ MaxOperations \in Nat \ {0} /\ Retention \in Nat
    /\ MaxTime \in Nat
    /\ None \notin Plans \cup Txs \cup Wallets \cup Operations \cup PlanRecords \cup Quotes

VARIABLES
    clock,
    plans,      \* refuel.json
    ops,        \* the records of the plans in operations.json
    calls,      \* quoteRefuel and sendRefuel requests
    marking,    \* refuelStatus requests that are about to Mark this plan
    drawn,      \* plan ids handed out by Put
    txs,        \* external: the deposits, on the source chain and at the provider
    quoted,     \* history: what each plan ever made was for
    forgotten   \* history: plans whose operation record was pruned

vars == <<clock, plans, ops, calls, marking, drawn, txs, quoted, forgotten>>

TypeOK ==
    /\ clock \in Nat
    /\ plans \in [Plans -> PlanRecords \cup {None}]
    /\ ops \in [Plans -> Operations \cup {None}]
    /\ calls \in [Handlers -> Calls]
    /\ marking \in [Pollers -> Plans \cup {None}]
    /\ drawn \subseteq Plans
    /\ txs \in [Txs -> Deposits]
    /\ quoted \in [Plans -> Quotes \cup {None}]
    /\ forgotten \subseteq Plans

Init ==
    /\ clock = 0
    /\ plans = [p \in Plans |-> None]
    /\ ops = [p \in Plans |-> None]
    /\ calls = [h \in Handlers |-> NoCall]
    /\ marking = [q \in Pollers |-> None]
    /\ drawn = {}
    /\ txs = [t \in Txs |-> NoDeposit]
    /\ quoted = [p \in Plans |-> None]
    /\ forgotten = {}

-----------------------------------------------------------------------------
(* Writes and the methods of the plan store.                               *)

Outcomes == {"ok"} \cup Faults

WrittenPlans(next, outcome) == IF outcome = "failed" THEN plans ELSE next
WrittenOps(next, outcome) == IF outcome = "failed" THEN ops ELSE next

Stored == {p \in Plans : plans[p] # None}

\* Started and not finished.
Pending(p) == plans[p].started /\ ~plans[p].finished

\* Active finds a plan that is pending for the wallet.
Active(w) == \E p \in Stored : Pending(p) /\ plans[p].wallet = w

\* Put drops quotes nobody used in time and plans that finished long ago.
Stale(p) ==
    \/ ~plans[p].started /\ clock > plans[p].expires
    \/ plans[p].finished /\ clock - plans[p].created > PlanRetention

\* Mutant: the plan's own claim is the only one looked at.
OwnClaimOnly(p) == FALSE

\* Another plan is pending for the wallet of p.
OtherPending(p) == \E q \in Stored \ {p} : Pending(q) /\ plans[q].wallet = plans[p].wallet

\* Mark(p, true), if the plan is still there.
Marked(p) ==
    IF plans[p] = None THEN plans
    ELSE [plans EXCEPT ![p].started = TRUE, ![p].finished = TRUE]

Step(h, phase) == calls' = [calls EXCEPT ![h].phase = phase]
Return(h) == calls' = [calls EXCEPT ![h] = NoCall]

-----------------------------------------------------------------------------
(* quoteRefuel: Active is asked first, the plans are put after the prices  *)
(* came in.                                                                *)

QuoteRefuel(h) ==
    /\ calls[h] = NoCall
    /\ \E w \in Wallets :
         /\ ~Active(w)
         /\ calls' = [calls EXCEPT ![h] = [NoCall EXCEPT !.phase = "quoting", !.wallet = w]]
    /\ UNCHANGED <<clock, plans, ops, marking, drawn, txs, quoted, forgotten>>

\* Put of one plan; the request goes on to the next or is done.
Put(h) ==
    LET kept == Stored \ {p \in Stored : Stale(p)} IN
    /\ calls[h].phase = "quoting"
    /\ Cardinality(kept) < MaxPlans
    /\ \E p \in Plans \ drawn, direct \in BOOLEAN, outcome \in Outcomes :
         /\ drawn' = drawn \cup {p}
         /\ quoted' = [quoted EXCEPT ![p] = [wallet |-> calls[h].wallet, direct |-> direct]]
         /\ plans' = WrittenPlans(
              [q \in Plans |->
                 IF q = p THEN [wallet |-> calls[h].wallet, direct |-> direct,
                                expires |-> clock + QuoteTTL, created |-> clock,
                                started |-> FALSE, finished |-> FALSE]
                 ELSE IF q \in kept THEN plans[q] ELSE None], outcome)
         /\ \/ outcome = "ok" /\ UNCHANGED calls
            \/ Return(h)
    /\ UNCHANGED <<clock, ops, marking, txs, forgotten>>

\* No price, no source, or no room.
QuoteEnds(h) ==
    /\ calls[h].phase = "quoting"
    /\ Return(h)
    /\ UNCHANGED <<clock, plans, ops, marking, drawn, txs, quoted, forgotten>>

-----------------------------------------------------------------------------
(* sendRefuel.                                                             *)

\* The plan is read and its one operation key reserved; a key that has a
\* record is answered from it.
Begin(h) ==
    /\ calls[h] = NoCall
    /\ \E p \in Stored, outcome \in Outcomes :
         /\ ops[p] = None
         /\ \E D \in PruneChoices(ops, clock) :
              /\ ops' = WrittenOps([q \in Plans |-> IF q = p THEN Reserved(p, clock)
                                                    ELSE IF q \in D THEN None ELSE ops[q]], outcome)
              /\ forgotten' = IF outcome = "failed" THEN forgotten ELSE forgotten \cup D
         /\ calls' = IF outcome = "ok"
                     THEN [calls EXCEPT ![h] = [NoCall EXCEPT !.phase = "begun", !.plan = p,
                                                              !.expires = plans[p].expires]]
                     ELSE calls
    /\ UNCHANGED <<clock, plans, marking, drawn, txs, quoted>>

\* The quote is still good and both networks are enabled, or not.
CheckQuote(h) ==
    /\ calls[h].phase = "begun"
    /\ \/ clock < calls[h].expires /\ Step(h, "checked")
       \/ Step(h, "fail")
    /\ UNCHANGED <<clock, plans, ops, marking, drawn, txs, quoted, forgotten>>

Claim(h) ==
    LET p == calls[h].plan IN
    /\ calls[h].phase = "checked"
    /\ \/ /\ plans[p] # None /\ ~OtherPending(p)
          /\ \E outcome \in Outcomes :
               /\ plans' = WrittenPlans([plans EXCEPT ![p].started = TRUE], outcome)
               /\ Step(h, IF outcome = "ok" THEN "claimed" ELSE "fail")
       \/ /\ ~(plans[p] # None /\ ~OtherPending(p))
          /\ Step(h, "fail") /\ UNCHANGED plans
    /\ UNCHANGED <<clock, ops, marking, drawn, txs, quoted, forgotten>>

\* What was quoted no longer holds (fail), or the key is not lent or Send gives
\* up before it signs (an ordinary failed send).
BuildFails(h) ==
    /\ calls[h].phase = "claimed"
    /\ \/ Step(h, "fail")
       \/ calls' = [calls EXCEPT ![h].phase = "finish", ![h].status = "failed"]
    /\ UNCHANGED <<clock, plans, ops, marking, drawn, txs, quoted, forgotten>>

\* BeforeBroadcast lets the deposit out: the quote is good and the hash is in
\* the record.
MayBroadcast(h, outcome) ==
    clock < calls[h].expires /\ ops[calls[h].plan] # None /\ outcome = "ok"

SignDeposit(h) ==
    LET p == calls[h].plan IN
    /\ calls[h].phase = "claimed"
    /\ \E t \in Txs, outcome \in Outcomes :
         /\ txs[t] = NoDeposit
         /\ txs' = [txs EXCEPT ![t].plan = p,
                               ![t].state = IF MayBroadcast(h, outcome) THEN "signed" ELSE "withheld"]
         /\ ops' = IF clock < calls[h].expires /\ ops[p] # None
                   THEN WrittenOps([ops EXCEPT ![p] = Updated(@, t, "broadcasting", 0, clock)], outcome)
                   ELSE ops
         /\ calls' = IF MayBroadcast(h, outcome)
                     THEN [calls EXCEPT ![h].phase = "signed", ![h].tx = t]
                     ELSE [calls EXCEPT ![h].phase = "finish", ![h].status = "failed"]
    /\ UNCHANGED <<clock, plans, marking, drawn, quoted, forgotten>>

\* Accepted, refused by the node (rejected), or unanswered.
BroadcastStatus(state) ==
    CASE state = "mempool" -> "pending"
      [] state = "refused" -> "failed"
      [] OTHER -> "broadcast_unknown"

Broadcast(h) ==
    /\ calls[h].phase = "signed"
    /\ \E answered \in {"mempool", "refused", "air"} :
         /\ txs' = [txs EXCEPT ![calls[h].tx].state = answered]
         /\ calls' = [calls EXCEPT ![h].phase = "finish", ![h].status = BroadcastStatus(answered)]
    /\ UNCHANGED <<clock, plans, ops, marking, drawn, quoted, forgotten>>

\* The status is written first; if that works and it is a failure, the plan is
\* marked.
Finish(h) ==
    LET call == calls[h] IN
    /\ call.phase = "finish"
    /\ \E outcome \in Outcomes :
         LET updates == ops[call.plan] # None IN
         /\ ops' = IF updates
                   THEN WrittenOps([ops EXCEPT ![call.plan] =
                                      Updated(@, call.tx, call.status, 0, clock)], outcome)
                   ELSE ops
         /\ IF updates /\ outcome = "ok" /\ call.status = "failed" THEN Step(h, "mark") ELSE Return(h)
    /\ UNCHANGED <<clock, plans, marking, drawn, txs, quoted, forgotten>>

\* Mark(plan, true) after the status was written; an error is ignored.
MarkFailed(h) ==
    /\ calls[h].phase = "mark"
    /\ \E outcome \in Outcomes : plans' = WrittenPlans(Marked(calls[h].plan), outcome)
    /\ Return(h)
    /\ UNCHANGED <<clock, ops, marking, drawn, txs, quoted, forgotten>>

\* fail marks the plan, ignoring an error, and then writes the status.
FailMark(h) ==
    /\ calls[h].phase = "fail"
    /\ \E outcome \in Outcomes : plans' = WrittenPlans(Marked(calls[h].plan), outcome)
    /\ Step(h, "failUpdate")
    /\ UNCHANGED <<clock, ops, marking, drawn, txs, quoted, forgotten>>

FailUpdate(h) ==
    LET p == calls[h].plan IN
    /\ calls[h].phase = "failUpdate"
    /\ \E outcome \in Outcomes :
         ops' = IF ops[p] # None
                THEN WrittenOps([ops EXCEPT ![p] = Updated(@, None, "failed", 0, clock)], outcome)
                ELSE ops
    /\ Return(h)
    /\ UNCHANGED <<clock, plans, marking, drawn, txs, quoted, forgotten>>

-----------------------------------------------------------------------------
(* Status requests.                                                        *)

\* Mutant: a deposit that is on the source chain has done its work.
OverOnSource(t, direct) == txs[t].state \in {"landed", "reverted"}

\* What refuelStatus finds out about a deposit says that it is over.
Over(t, direct) ==
    \/ txs[t].state = "reverted"
    \/ txs[t].state = "landed" /\ (direct \/ txs[t].delivery # "none")

\* refuelStatus of a plan whose operation has a hash and is not failed.
RefuelStatus(q) ==
    /\ marking[q] = None
    /\ \E p \in Stored :
         /\ ops[p] # None /\ ops[p].status # "failed" /\ ops[p].txHash # None
         /\ Over(ops[p].txHash, plans[p].direct)
         /\ marking' = [marking EXCEPT ![q] = p]
    /\ UNCHANGED <<clock, plans, ops, calls, drawn, txs, quoted, forgotten>>

MarkOver(q) ==
    /\ marking[q] # None
    /\ \E outcome \in Outcomes : plans' = WrittenPlans(Marked(marking[q]), outcome)
    /\ marking' = [marking EXCEPT ![q] = None]
    /\ UNCHANGED <<clock, ops, calls, drawn, txs, quoted, forgotten>>

\* The status request of a transaction (SendFlow has its steps): it writes
\* what the source chain says into the record, or, by the time it gets there,
\* what it said before the deposit landed.
TransactionStatus(t) ==
    /\ \E p \in ByTxHash(ops, t), outcome \in Outcomes,
          status \in {"pending"} \cup (CASE txs[t].state = "landed" -> {"confirmed"}
                                         [] txs[t].state = "reverted" -> {"failed"}
                                         [] OTHER -> {}) :
         /\ ops[p].status # status
         /\ ops' = WrittenOps([ops EXCEPT ![p].status = status, ![p].updatedAt = clock], outcome)
    /\ UNCHANGED <<clock, plans, calls, marking, drawn, txs, quoted, forgotten>>

-----------------------------------------------------------------------------
(* External: the source chain and the provider.                            *)

Deliver(t) ==
    /\ txs[t].state = "air"
    /\ txs' = [txs EXCEPT ![t].state = "mempool"]
    /\ UNCHANGED <<clock, plans, ops, calls, marking, drawn, quoted, forgotten>>

Land(t) ==
    /\ txs[t].state = "mempool"
    /\ \E state \in {"landed", "reverted"} : txs' = [txs EXCEPT ![t].state = state]
    /\ UNCHANGED <<clock, plans, ops, calls, marking, drawn, quoted, forgotten>>

Bridge(t) ==
    /\ txs[t].state = "landed" /\ txs[t].delivery = "none"
    /\ ~quoted[txs[t].plan].direct
    /\ \E delivery \in {"delivered", "cancelled"} : txs' = [txs EXCEPT ![t].delivery = delivery]
    /\ UNCHANGED <<clock, plans, ops, calls, marking, drawn, quoted, forgotten>>

Tick ==
    /\ clock < MaxTime
    /\ clock' = clock + 1
    /\ UNCHANGED <<plans, ops, calls, marking, drawn, txs, quoted, forgotten>>

\* The process dies and starts again; both files are on disk.
Crash ==
    /\ calls' = [h \in Handlers |-> NoCall]
    /\ marking' = [q \in Pollers |-> None]
    /\ UNCHANGED <<clock, plans, ops, drawn, txs, quoted, forgotten>>

-----------------------------------------------------------------------------
CallStep(h) ==
    QuoteRefuel(h) \/ Put(h) \/ QuoteEnds(h)
    \/ Begin(h) \/ CheckQuote(h) \/ Claim(h) \/ BuildFails(h) \/ SignDeposit(h) \/ Broadcast(h)
    \/ Finish(h) \/ MarkFailed(h) \/ FailMark(h) \/ FailUpdate(h)

Next ==
    \/ \E h \in Handlers : CallStep(h)
    \/ \E q \in Pollers : RefuelStatus(q) \/ MarkOver(q)
    \/ \E t \in Txs : TransactionStatus(t) \/ Deliver(t) \/ Land(t) \/ Bridge(t)
    \/ Tick \/ Crash

Spec == Init /\ [][Next]_vars

-----------------------------------------------------------------------------
DepositsOf(p) == {t \in Txs : txs[t].plan = p /\ txs[t].state # "withheld"}

\* The deposit may still take effect, or the gas it paid for is still to come.
Unresolved(t) ==
    \/ txs[t].state \in {"signed", "air", "mempool"}
    \/ txs[t].state = "landed" /\ ~quoted[txs[t].plan].direct /\ txs[t].delivery = "none"

\* A wallet never has two top-ups under way at once, from however many tabs,
\* quotes, retries and restarts: of the deposits ever signed for it at most one
\* is unresolved (Claim, and "Active prevents a second top-up for a wallet").
\* Said, like the next ones, of plans whose operation record was not pruned.
OneTopUpPerWallet ==
    \A p, q \in Plans \ forgotten :
        quoted[p] # None /\ quoted[q] # None /\ quoted[p].wallet = quoted[q].wallet =>
        \A t \in DepositsOf(p), u \in DepositsOf(q) :
            Unresolved(t) /\ Unresolved(u) => t = u

\* Both files agree with what became of a deposit.  One that may have left the
\* process is named by the plan's operation under a status that does not deny
\* it (BeforeBroadcast), and is the only one of its plan: "Retries, including a
\* lost response across restarts, can only return that operation and can never
\* sign twice."  The plan is finished only when nothing more can come of it.
DepositAccountedFor ==
    \A p \in Plans \ forgotten : \A t \in DepositsOf(p) :
        /\ ops[p] # None /\ ops[p].txHash = t
        /\ ops[p].status = "failed" => txs[t].state \in {"refused", "reverted"}
        /\ p \in Stored /\ plans[p].finished => ~Unresolved(t)
=============================================================================
