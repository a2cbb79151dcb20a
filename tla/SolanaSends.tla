---------------------------- MODULE SolanaSends ----------------------------
(***************************************************************************)
(* Solana transfers, account closing and swaps (chain/solana/transfer.go,   *)
(* close.go, swap.go).  All three run the same way twice: read the chain,   *)
(* simulate to learn compute and output, check the funds, simulate the      *)
(* exact message.  The first time gives the quote that is shown; the second *)
(* is held against it, and signs the limits of the quote.  The chain moves  *)
(* between any two of these steps and before the transaction lands.         *)
(***************************************************************************)
EXTENDS Absent, Integers, Sequences, FiniteSets, FiniteSetsExt, SequencesExt

CONSTANTS
    SolRequests,    \* [kind, path, amount], see below
    SolChains,      \* the states the chain may start from
    SolUses, SolPrices, SolRates, SolLamports, SolTokens,   \* values it moves through
    MaxMoves,       \* how often it moves
    LamportsPerSignature, Micro, MinPrice, MaxPrice, MaxLimit, CloseAllowance, Headroom,
    Rent, RentMin,  \* of a token account; of an account without data
    Slippage, MaxSlippage, Whole   \* in parts of Whole

VARIABLES
    solChain,   \* [lamports, token, rate, price, used, surplus]
    solMoves,
    solPhase, solSending,
    solReq, solPlan,
    solQuote,   \* what was shown, and comes back as the approval
    solSeen,    \* solMoves when the quote began to read
    solTx,
    solLanded

solVars == <<solChain, solMoves, solPhase, solSending, solReq, solPlan, solQuote, solSeen, solTx, solLanded>>

\* The wallet's token accounts, wrapped SOL under "SOL", and the recipient's.
\* A request: a send along <<"SOL">> or <<"a", "to">>, also of all there is
\* ("max"); the closing of the accounts in its path; a swap along its path.
TokenAccounts == {"SOL", "a", "b", "to"}
Pools == {"direct", "first", "second"}

NoPlan == [balance |-> 0, amount |-> 0, creates |-> {}, before |-> <<>>, base |-> 0, price |-> 0,
           needed |-> 0, limit |-> 0, mid |-> 0, out |-> 0, minOut |-> 0]

\* What a chain, and what a request, can be.  A path names no account twice.
SolStates ==
    [lamports : Nat, token : [TokenAccounts -> Nat \cup {None}], rate : [Pools -> Nat], price : Nat, used : Nat, surplus : Nat]

Shape(r) ==
    /\ r = [kind |-> r.kind, path |-> r.path, amount |-> r.amount] /\ r.amount \in Nat
    /\ \/ r.kind \in {"send", "max"} /\ r.path \in {<<"SOL">>, <<"a", "to">>, <<"b", "to">>}
       \/ /\ r.kind = "close" /\ r.path \in Seq({"SOL", "a", "b"})
          /\ \A i, j \in DOMAIN r.path : r.path[i] = r.path[j] => i = j
       \/ /\ r.kind = "swap"
          /\ \E x, y, z \in {"SOL", "a", "b"} :
               x # y /\ (r.path = <<x, y>> \/ (z \notin {x, y} /\ r.path = <<x, z, y>>))

ASSUME SolAssumption ==
    /\ None \notin Nat \cup TokenAccounts /\ \A r \in SolRequests : Shape(r)
    /\ SolChains \subseteq SolStates /\ SolTokens \subseteq Nat \cup {None}
    /\ SolUses \cup SolPrices \cup SolRates \cup SolLamports \subseteq Nat
    /\ {LamportsPerSignature, Micro, MinPrice, MaxPrice, MaxLimit, CloseAllowance, Headroom, Rent, RentMin, Whole, MaxMoves} \subseteq Nat
    /\ Micro > 0 /\ Whole > 0 /\ {Slippage, MaxSlippage} \subseteq 0..Whole /\ Slippage <= MaxSlippage

SolTypeOK ==
    /\ solMoves \in 0..MaxMoves /\ solSending \in BOOLEAN
    /\ solPhase \in {"idle", "asked", "loaded", "measured", "checked", "shown", "signed", "refused", "done"}
    /\ solChain.lamports \in Nat
    /\ \A x \in TokenAccounts : solChain.token[x] \in Nat \cup {None}
    /\ solPlan.limit <= MaxLimit /\ solPlan.price <= MaxPrice
    /\ solPhase \in {"shown", "signed"} => solQuote # None

SolInit ==
    /\ solChain \in SolChains /\ solMoves = 0
    /\ solPhase = "idle" /\ solSending = FALSE
    /\ solReq = None /\ solPlan = NoPlan /\ solQuote = None /\ solSeen = 0
    /\ solTx = None /\ solLanded = None

-----------------------------------------------------------------------------
(* Fees and limits.                                                        *)

priorityFee(limit, price) == (limit * price + Micro - 1) \div Micro

limitFor(used) == Min({used + used \div 5 + Headroom, MaxLimit})

\* The recent price paid, as far as the wallet would follow it.
priorityPrice(recent) == Min({recent, MaxPrice})

offeredPrice(recent) == Min({Max({recent + recent \div 4, MinPrice}), MaxPrice})

withSlippage(amount, slippage) == (amount * (Whole - slippage)) \div Whole

networkFee(limit, price) == LamportsPerSignature + priorityFee(limit, price)

-----------------------------------------------------------------------------
(* Requests.                                                               *)

IsSwap(r) == r.kind = "swap"
In(r) == Head(r.path)
Out(r) == Last(r.path)
Mid(r) == IF IsSwap(r) /\ Len(r.path) = 3 THEN r.path[2] ELSE None
PoolOf(r, hop) == IF Mid(r) = None THEN "direct" ELSE IF hop = 1 THEN "first" ELSE "second"

\* The wrapped-SOL account a swap trades SOL through is closed at its end.
UsesSOL(r) == IsSwap(r) /\ "SOL" \in Range(r.path)
closes(r) == IF r.kind = "close" THEN Range(r.path) ELSE IF UsesSOL(r) THEN {"SOL"} ELSE {}

\* Accounts the request needs open, other than the one it sells from.
Needed(r) ==
    CASE IsSwap(r) -> Range(Tail(r.path)) \cup (IF UsesSOL(r) THEN {"SOL"} ELSE {})
      [] r.kind \in {"send", "max"} /\ Len(r.path) = 2 -> {"to"}
      [] OTHER -> {}

Temporary(r) == IF UsesSOL(r) THEN {"SOL"} ELSE {}

\* Accounts opened and left open; their rent is part of the cost.
persistentCreates(r, plan) == Cardinality(plan.creates \ (IF IsSwap(r) THEN Temporary(r) ELSE {}))

rent(r, plan) == Rent * persistentCreates(r, plan)

cost(r, plan) == networkFee(plan.limit, plan.price) + rent(r, plan)

-----------------------------------------------------------------------------
(* The runtime: what a message does to the accounts, or None if it fails.  *)

Held(s, x) == IF s.token[x] = None THEN 0 ELSE s.token[x]

Opened(s, creates) ==
    LET new == {x \in creates : s.token[x] = None} IN
    IF s.lamports < Rent * Cardinality(new) THEN None
    ELSE [s EXCEPT !.lamports = @ - Rent * Cardinality(new),
                   !.token = [x \in TokenAccounts |-> IF x \in new THEN 0 ELSE @[x]]]

Wrapped(s, amount) ==
    IF amount = 0 THEN s
    ELSE IF s.lamports < amount \/ s.token["SOL"] = None THEN None
    ELSE [s EXCEPT !.lamports = @ - amount, !.token["SOL"] = @ + amount]

Hop(s, hop) ==
    LET pays == hop.amount * s.rate[hop.pool] IN
    IF s = None \/ s.token[hop.in] = None \/ hop.amount > Held(s, hop.in) \/ s.token[hop.out] = None \/ pays < hop.min
    THEN None
    ELSE [s EXCEPT !.token[hop.in] = @ - hop.amount, !.token[hop.out] = @ + pays]

\* A route has two hops at most.
AlongRoute(s, route) ==
    IF Len(route) = 0 THEN s
    ELSE IF Len(route) = 1 THEN Hop(s, route[1]) ELSE Hop(Hop(s, route[1]), route[2])

Sent(s, send) ==
    IF send.amount = 0 THEN s
    ELSE IF send.asset = "SOL"
      THEN IF s.lamports < send.amount THEN None ELSE [s EXCEPT !.lamports = @ - send.amount]
    ELSE IF Held(s, send.asset) < send.amount \/ s.token["to"] = None THEN None
    ELSE [s EXCEPT !.token[send.asset] = @ - send.amount, !.token["to"] = @ + send.amount]

Closed(s, accounts) ==
    IF \E x \in accounts : s.token[x] = None \/ (x # "SOL" /\ s.token[x] > 0) THEN None
    ELSE [s EXCEPT !.lamports = @ + Rent * Cardinality(accounts) + (IF "SOL" \in accounts THEN s.token["SOL"] ELSE 0),
                   !.token = [x \in TokenAccounts |-> IF x \in accounts THEN None ELSE @[x]]]

\* The fee is charged first, and whether or not the rest succeeds.
Charged(s, m) == [s EXCEPT !.lamports = @ - networkFee(m.limit, m.price)]

Traded(s, m) ==
    LET opened == Opened(Charged(s, m), m.creates)
        wrapped == IF opened = None THEN None ELSE Wrapped(opened, m.wrap)
    IN  AlongRoute(wrapped, m.hops)

Executed(s, m) ==
    LET traded == Traded(s, m)
        sent == IF traded = None THEN None ELSE Sent(traded, m.send)
    IN  IF sent = None THEN None ELSE Closed(sent, m.closes)

\* Closing at the end of a swap takes compute the measurement did not see.
ComputeUsed(s, m) == s.used + (IF m.closes # {} /\ m.hops # <<>> THEN s.surplus ELSE 0)

RentKept(lamports) == lamports = 0 \/ lamports >= RentMin

Payable(s, m) ==
    LET left == s.lamports - networkFee(m.limit, m.price) IN left >= 0 /\ RentKept(left)

Succeeds(s, m) ==
    /\ Payable(s, m) /\ ComputeUsed(s, m) <= m.limit
    /\ Executed(s, m) # None /\ RentKept(Executed(s, m).lamports)

-----------------------------------------------------------------------------
(* Messages.                                                               *)

\* hopIn[1] = hopMin[0]: the second hop sells what the first guarantees.
SecondSells(plan) == withSlippage(plan.mid, Slippage)

hops(r, plan, stage) ==
    LET final == IF stage = "final" THEN plan.minOut ELSE 1
        one(sells, min, i) == [pool |-> PoolOf(r, i), in |-> r.path[i], out |-> r.path[i + 1], amount |-> sells, min |-> min]
    IN  CASE ~IsSwap(r) -> <<>>
          [] IsSwap(r) /\ Mid(r) = None -> <<one(plan.amount, final, 1)>>
          [] Mid(r) # None /\ stage = "mid" -> <<one(plan.amount, 1, 1)>>
          [] OTHER -> <<one(plan.amount, withSlippage(plan.mid, Slippage), 1), one(SecondSells(plan), final, 2)>>

\* instructions and build: a stage that measures asks for all the compute, at
\* no priority price, and leaves the wrapped-SOL account open to be read.
instructions(r, plan, stage) ==
    [limit |-> IF stage = "final" THEN plan.limit ELSE MaxLimit,
     price |-> IF stage = "final" THEN plan.price ELSE 0,
     creates |-> plan.creates,
     wrap |-> IF IsSwap(r) /\ In(r) = "SOL" THEN plan.amount ELSE 0,
     hops |-> hops(r, plan, stage),
     send |-> IF r.kind \in {"send", "max"} THEN [asset |-> In(r), amount |-> plan.amount] ELSE [asset |-> "none", amount |-> 0],
     closes |-> IF stage = "final" \/ r.kind = "close" THEN closes(r) ELSE {}]

-----------------------------------------------------------------------------
(* The steps of a quote and of a send.                                     *)

\* A refusal of the route alone sends a quote on to the direct pool; any
\* other ends the request.
Refused(routeFault) ==
    /\ IF routeFault /\ ~solSending /\ Mid(solReq) # None
       THEN solPhase' = "asked" /\ solReq' = [solReq EXCEPT !.path = <<In(solReq), Out(solReq)>>]
       ELSE solPhase' = "refused" /\ UNCHANGED solReq
    /\ solPlan' = NoPlan

Goes(phase, plan) == solPhase' = phase /\ solPlan' = plan /\ UNCHANGED solReq

Ask(r) ==
    /\ solPhase = "idle"
    /\ solPhase' = "asked" /\ solReq' = r /\ solSeen' = solMoves
    /\ UNCHANGED <<solChain, solMoves, solSending, solPlan, solQuote, solTx, solLanded>>

\* What a load reads: the balance, the accounts to open, the priority price.
Loaded(r, amount) ==
    [NoPlan EXCEPT !.balance = solChain.lamports, !.amount = amount,
       !.creates = {x \in Needed(r) : solChain.token[x] = None},
       !.before = [x \in TokenAccounts |-> Held(solChain, x)],
       !.base = priorityPrice(solChain.price), !.price = offeredPrice(priorityPrice(solChain.price))]

Load(ok, amount) ==
    /\ IF ok THEN Goes("loaded", Loaded(solReq, amount)) ELSE Refused(FALSE)
    /\ UNCHANGED <<solChain, solMoves, solSending, solQuote, solSeen, solTx, solLanded>>

\* tokenAccountBalance, where the account exists.
tokenAccountBalance(x) == Held(solChain, x)

prepareSOL ==
    /\ solPhase = "asked" /\ solReq.kind \in {"send", "max"} /\ In(solReq) = "SOL"
    /\ Load(solChain.lamports > 0, solReq.amount)

prepareToken ==
    LET balance == tokenAccountBalance(In(solReq))
        amount == IF solReq.kind = "max" THEN balance ELSE solReq.amount
    IN  /\ solPhase = "asked" /\ solReq.kind \in {"send", "max"} /\ In(solReq) # "SOL"
        /\ Load(amount <= balance /\ amount > 0 /\ solChain.lamports > 0, amount)

\* Of the reasons not to close an account, the tokens in it.
closable(x) == solChain.token[x] = 0

prepareClose ==
    /\ solPhase = "asked" /\ solReq.kind = "close"
    /\ Load(\A x \in Range(solReq.path) : closable(x), 0)

loadSwap ==
    /\ solPhase = "asked" /\ IsSwap(solReq)
    /\ Load(/\ solChain.lamports > 0
            /\ In(solReq) = "SOL" \/ tokenAccountBalance(In(solReq)) >= solReq.amount, solReq.amount)

\* The Trade API's route may be one its own figures contradict.
RouteRejected ==
    /\ solPhase = "loaded" /\ ~solSending /\ Mid(solReq) # None
    /\ Refused(TRUE)
    /\ UNCHANGED <<solChain, solMoves, solSending, solQuote, solSeen, solTx, solLanded>>

\* explainSwap: the runtime's refusal is the route's if a pool made it or if
\* the intermediate account is the one that could not be opened.
explainSwap(r, m) ==
    LET left == solChain.lamports - networkFee(m.limit, m.price)
        earlier == IF Mid(r) # "SOL" /\ "SOL" \in m.creates THEN 1 ELSE 0
        opened == Opened(Charged(solChain, m), m.creates)
    IN  \/ Mid(r) \in m.creates /\ left >= Rent * earlier /\ left < Rent * (earlier + 1)
        \/ opened # None /\ Wrapped(opened, m.wrap) # None /\ Traded(solChain, m) = None

\* A two-hop swap first learns what its first pool pays.
MeasureMid ==
    LET m == instructions(solReq, solPlan, "mid")
        after == Traded(solChain, m)
        paid == Held(after, Mid(solReq)) - solPlan.before[Mid(solReq)]
    IN  /\ solPhase = "loaded" /\ Mid(solReq) # None /\ solPlan.mid = 0
        /\ IF ~Payable(solChain, m) THEN Refused(FALSE)
           ELSE IF after = None THEN Refused(explainSwap(solReq, m))
           ELSE IF paid <= 0 \/ withSlippage(paid, Slippage) = 0 THEN Refused(TRUE)
           ELSE Goes("loaded", [solPlan EXCEPT !.mid = paid])
        /\ UNCHANGED <<solChain, solMoves, solSending, solQuote, solSeen, solTx, solLanded>>

\* A swap must run; what it pays is the difference to the balance read before.
measureSwap ==
    LET m == instructions(solReq, solPlan, "measure")
        after == Traded(solChain, m)
        paid == Held(after, Out(solReq)) - solPlan.before[Out(solReq)]
        limit == limitFor(solChain.used + (IF closes(solReq) # {} THEN CloseAllowance ELSE 0))
    IN  IF ~Payable(solChain, m) THEN Refused(FALSE)
        ELSE IF after = None THEN Refused(explainSwap(solReq, m))
        ELSE IF paid <= 0 THEN Refused(TRUE)
        ELSE Goes("measured", [solPlan EXCEPT !.out = paid, !.needed = limit, !.limit = limit])

\* Of a transfer only the compute matters here, which fails to come only if
\* not even the signature can be paid.
measureSend ==
    LET limit == limitFor(solChain.used) IN
    IF solChain.lamports < LamportsPerSignature THEN Refused(FALSE)
    ELSE Goes("measured", [solPlan EXCEPT !.needed = limit, !.limit = limit])

measure ==
    /\ solPhase = "loaded" /\ (Mid(solReq) # None => solPlan.mid > 0)
    /\ IF IsSwap(solReq) THEN measureSwap ELSE measureSend
    /\ UNCHANGED <<solChain, solMoves, solSending, solQuote, solSeen, solTx, solLanded>>

-----------------------------------------------------------------------------
(* The approval and the checks before the last simulation.                 *)

\* Send, Close, Swap: the approval still covers what the request needs.
Approved(q) ==
    /\ solPlan.needed <= q.limit /\ solPlan.base <= q.price
    /\ persistentCreates(solReq, solPlan) <= q.creates /\ rent(solReq, solPlan) <= q.rent
    /\ IsSwap(solReq) => solPlan.out >= q.minOut /\ q.minOut >= withSlippage(solPlan.out, MaxSlippage)

\* Mutant: the minimum follows the market.
MinFromMarket(q) == withSlippage(solPlan.out, Slippage)

SignedMin(q) == q.minOut

\* A maximum of SOL is what the cost leaves.
WithAmount(plan) ==
    IF solReq.kind = "max" /\ In(solReq) = "SOL"
    THEN [plan EXCEPT !.amount = plan.balance - cost(solReq, plan)] ELSE plan

\* What the balance has to cover, the temporary rent of wrapped SOL included.
Need(r, plan) ==
    cost(r, plan)
      + (IF IsSwap(r) /\ plan.creates \cap Temporary(r) # {} THEN Rent ELSE 0)
      + (IF In(r) = "SOL" /\ r.kind # "close" THEN plan.amount ELSE 0)

routeOnlyRent(r, plan) == IF Mid(r) \in plan.creates THEN Rent ELSE 0

\* Closing prechecks nothing: its rent comes back, and the runtime decides.
precheck(plan) ==
    LET need == Need(solReq, plan) IN
    IF solReq.kind = "close" \/ (plan.balance >= need /\ (solReq.kind = "max" => plan.amount > 0))
    THEN Goes("checked", plan)
    ELSE Refused(plan.balance >= need - routeOnlyRent(solReq, plan))

Check ==
    /\ solPhase = "measured"
    /\ IF ~solSending
       THEN LET plan == [solPlan EXCEPT !.minOut = withSlippage(solPlan.out, Slippage)] IN
            IF IsSwap(solReq) /\ plan.minOut = 0 THEN Refused(TRUE) ELSE precheck(WithAmount(plan))
       ELSE IF Approved(solQuote)
         THEN precheck([solPlan EXCEPT !.limit = solQuote.limit, !.price = solQuote.price,
                                       !.minOut = SignedMin(solQuote)])
         ELSE Refused(FALSE)
    /\ UNCHANGED <<solChain, solMoves, solSending, solQuote, solSeen, solTx, solLanded>>

\* A token bought is counted once more.
PaysMinimum(plan) ==
    LET m == instructions(solReq, plan, "final") IN
    IsSwap(solReq) /\ Out(solReq) # "SOL"
      => Held(Executed(solChain, m), Out(solReq)) - plan.before[Out(solReq)] >= plan.minOut

\* verdict: the runtime's answer on exactly what would be signed, and whether
\* a refusal is the route's.
verdict(plan) ==
    LET m == instructions(solReq, plan, "final") IN
    CASE ~Payable(solChain, m) -> "wallet"
      [] Payable(solChain, m) /\ ComputeUsed(solChain, m) > m.limit -> "route"
      [] Payable(solChain, m) /\ ComputeUsed(solChain, m) <= m.limit /\ ~Succeeds(solChain, m) ->
           IF IsSwap(solReq) /\ explainSwap(solReq, m) THEN "route" ELSE "wallet"
      [] OTHER -> IF PaysMinimum(plan) THEN "fine" ELSE "route"

\* finishQuote raises a swap's limit once when the exact message runs out.
raised(plan) ==
    IF IsSwap(solReq) /\ ComputeUsed(solChain, instructions(solReq, plan, "final")) > plan.limit
    THEN [plan EXCEPT !.limit = limitFor(plan.limit)] ELSE plan

\* Mutant: the limit that was too low is shown.
QuoteFirst(plan) ==
    [amount |-> plan.amount, limit |-> solPlan.limit, price |-> plan.price, minOut |-> plan.minOut,
     creates |-> persistentCreates(solReq, plan), rent |-> rent(solReq, plan), fee |-> cost(solReq, solPlan)]

Quote(plan) ==
    [amount |-> plan.amount, limit |-> plan.limit, price |-> plan.price, minOut |-> plan.minOut,
     creates |-> persistentCreates(solReq, plan), rent |-> rent(solReq, plan), fee |-> cost(solReq, plan)]

Verdict ==
    LET plan == IF solSending THEN solPlan ELSE raised(solPlan)
        short == IF solReq.kind = "close" THEN 0 ELSE Need(solReq, plan) - plan.balance
        answer == IF short > 0 THEN (IF short <= routeOnlyRent(solReq, plan) THEN "route" ELSE "wallet") ELSE verdict(plan)
    IN  /\ solPhase = "checked"
        /\ \/ answer # "fine" /\ Refused(answer = "route") /\ UNCHANGED <<solQuote, solTx>>
           \/ /\ answer = "fine" /\ solSending
              /\ Goes("signed", NoPlan) /\ solTx' = instructions(solReq, plan, "final") /\ UNCHANGED solQuote
           \/ answer = "fine" /\ ~solSending /\ Goes("shown", NoPlan) /\ solQuote' = Quote(plan) /\ UNCHANGED solTx
        /\ UNCHANGED <<solChain, solMoves, solSending, solSeen, solLanded>>

\* The user approves: the request comes back with the amount that was shown.
Approve ==
    /\ solPhase = "shown"
    /\ solPhase' = "asked" /\ solSending' = TRUE
    /\ solReq' = IF solReq.kind = "max" THEN [solReq EXCEPT !.kind = "send", !.amount = solQuote.amount] ELSE solReq
    /\ UNCHANGED <<solChain, solMoves, solPlan, solQuote, solSeen, solTx, solLanded>>

-----------------------------------------------------------------------------
(* The network.                                                            *)

SolLand ==
    LET after == IF Succeeds(solChain, solTx) THEN Executed(solChain, solTx) ELSE Charged(solChain, solTx)
        wealth(s, x) == Held(s, x) + (IF x = "SOL" THEN s.lamports ELSE 0)
    IN  /\ solPhase = "signed" /\ Payable(solChain, solTx)
        /\ solPhase' = "done" /\ solChain' = after
        /\ solLanded' = [ok |-> Succeeds(solChain, solTx),
                         change |-> [x \in TokenAccounts |-> wealth(after, x) - wealth(solChain, x)]]
        /\ UNCHANGED <<solMoves, solSending, solReq, solPlan, solQuote, solSeen, solTx>>

\* Others trade, the fee market moves, tokens come and go.
Move ==
    /\ solMoves < MaxMoves /\ solPhase \notin {"idle", "refused", "done"}
    /\ solMoves' = solMoves + 1
    /\ \/ \E v \in SolPrices : solChain' = [solChain EXCEPT !.price = v]
       \/ \E v \in SolUses : solChain' = [solChain EXCEPT !.used = v]
       \/ \E v \in SolLamports : solChain' = [solChain EXCEPT !.lamports = v]
       \/ \E p \in Pools, v \in SolRates : solChain' = [solChain EXCEPT !.rate[p] = v]
       \/ \E x \in TokenAccounts, v \in SolTokens : solChain' = [solChain EXCEPT !.token[x] = v]
    /\ UNCHANGED <<solPhase, solSending, solReq, solPlan, solQuote, solSeen, solTx, solLanded>>

SolNext ==
    \/ \E r \in SolRequests : Ask(r)
    \/ prepareSOL \/ prepareToken \/ prepareClose \/ loadSwap
    \/ RouteRejected \/ MeasureMid \/ measure \/ Check \/ Verdict \/ Approve
    \/ SolLand \/ Move

-----------------------------------------------------------------------------
(* Properties.                                                             *)

\* Whatever moves between the quote, the signature and the block, the wallet
\* parts with no more than it approved: the amount sold or sent, the fee shown
\* (rent of new accounts included), and nothing of an intermediate token; and
\* a swap that succeeds pays the approved minimum (Send, Close, Swap).
SolanaKeepsToApproval ==
    solLanded # None =>
      LET r == solReq
          sold(x) == IF solLanded.ok /\ r.kind # "close" /\ x = In(r) THEN solQuote.amount ELSE 0
          bought(x) == IF solLanded.ok /\ IsSwap(r) /\ x = Out(r) THEN solQuote.minOut ELSE 0
          returned(x) == IF solLanded.ok /\ r.kind = "close" /\ x = "SOL" THEN Rent * Len(r.path) ELSE 0
          fee(x) == IF x = "SOL" THEN solQuote.fee ELSE 0
      IN  \A x \in TokenAccounts : solLanded.change[x] >= bought(x) + returned(x) - sold(x) - fee(x)

\* A request approved while nothing moved is not refused: the send recomputes
\* exactly what the quote promised, to the lamport (estimateTransfer against
\* Send, finishQuote against Swap).
FreshQuoteIsHonoured ==
    solPhase = "refused" /\ solSending => solMoves # solSeen
=============================================================================
