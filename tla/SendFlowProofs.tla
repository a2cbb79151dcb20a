--------------------------- MODULE SendFlowProofs ---------------------------
(***************************************************************************)
(* Theorems about SendFlow, for every value of its constants: any number   *)
(* of keys, handlers and status requests, any lifetime, any margin that is *)
(* not smaller than the lag of the nodes, any way of failing to write.     *)
(***************************************************************************)
EXTENDS SendFlow, TLAPS

\* A transaction that was never signed has no key and no expiry in the book; a
\* landed one made it before its height; the book holds its true height.
TxInv(t) ==
    /\ txs[t].state = "new" <=> txs[t].key = None
    /\ txs[t].state \in {"landed", "reverted"} /\ Expires(t) => txs[t].landedAt <= txs[t].lastValid
    /\ book[t] # 0 /\ txs[t].key \notin forgotten => book[t] = txs[t].lastValid

\* What a record that names a transaction says about it.  The last three are
\* lost with the record of a pruned key, which may be reserved again.
RecordInv(k) ==
    /\ ops[k] # None /\ ops[k].txHash # None =>
         txs[ops[k].txHash].key = k /\ txs[ops[k].txHash].state # "new"
    /\ ops[k] # None /\ ops[k].status = "confirmed" =>
         ops[k].txHash # None /\ txs[ops[k].txHash].state = "landed"
    /\ k \notin forgotten =>
         /\ ops[k] = None => TxsOf(k) = {}
         /\ ops[k] # None /\ ops[k].txHash # None =>
              TxsOf(k) \subseteq {ops[k].txHash} /\ ops[k].lastValid = txs[ops[k].txHash].lastValid
         /\ ops[k] # None /\ ops[k].status = "failed" => \A t \in TxsOf(k) : ~Effective(t)

\* A handler and its transaction.
SendInv(h) ==
    LET call == sends[h] IN
    /\ call.phase # "idle" => call.key \in Keys /\ call.request \in Requests
    /\ call.phase \in {"idle", "building"} => call.tx = None
    /\ call.phase \in {"signed", "await"} => call.tx # None
    /\ call.tx # None =>
         /\ txs[call.tx].key = call.key
         /\ txs[call.tx].state \notin {"new", "withheld"}
         /\ call.phase = "signed" => txs[call.tx].state = "signed"
         /\ call.phase = "await" => txs[call.tx].state \in {"mempool", "landed", "reverted"}
    /\ call.phase = "finish" => call.status # "building"
    /\ call.phase = "finish" /\ call.status = "confirmed" =>
         call.tx # None /\ txs[call.tx].state = "landed"

\* A handler and the record of its key, as long as that is not pruned: nothing
\* was signed before it signs, and it gives up only what cannot take effect.
ReservedInv(h) ==
    LET call == sends[h] IN
    call.phase # "idle" /\ call.key \notin forgotten =>
      /\ ops[call.key] # None
      /\ call.phase = "building" =>
           /\ TxsOf(call.key) = {}
           /\ ops[call.key].txHash = None /\ ops[call.key].lastValid = 0
           /\ ops[call.key].status = "building"
      /\ call.tx # None => ops[call.key].lastValid = txs[call.tx].lastValid
      /\ call.phase = "finish" /\ call.status = "failed" =>
           \A t \in TxsOf(call.key) : txs[t].state \in {"refused", "reverted"}

\* Two handlers never work on one transaction, nor on one reserved key.
Apart(g, h) ==
    g # h =>
      /\ sends[g].tx # None => sends[g].tx # sends[h].tx
      /\ sends[g].phase # "idle" /\ sends[h].phase # "idle" /\ sends[g].key \notin forgotten
           => sends[g].key # sends[h].key

\* A status request asks about a transaction some record named; it gives up on
\* one only past its height and the margin, and never on one that may land.
PollInv(p) ==
    LET poll == polls[p] IN
    poll.phase # "idle" =>
      /\ poll.tx # None /\ txs[poll.tx].state # "new"
      /\ poll.phase = "write" => poll.status # "building"
      /\ poll.phase = "write" /\ poll.status = "confirmed" => txs[poll.tx].state = "landed"
      /\ txs[poll.tx].key \notin forgotten =>
           /\ poll.phase = "again" =>
                Expires(poll.tx) /\ clock > txs[poll.tx].lastValid + ExpiryMargin
           /\ poll.phase = "write" /\ poll.status = "failed" => ~Effective(poll.tx)

IInv ==
    /\ TypeOK
    /\ \A t \in Txs : TxInv(t)
    /\ \A k \in Keys : RecordInv(k)
    /\ \A h \in Handlers : SendInv(h) /\ ReservedInv(h)
    /\ \A g, h \in Handlers : Apart(g, h)
    /\ \A p \in Pollers : PollInv(p)
    /\ OneTransactionPerKey
    /\ SentIsRecorded

\* The initial states satisfy the inductive invariant.
LEMMA InitIInv == Init => IInv
<1> SUFFICES ASSUME Init PROVE IInv
  OBVIOUS
<1> USE SendAssumption DEF Init, NoSend, NoPoll, NoTx
<1>1. TypeOK
  BY DEF TypeOK, Sends, Polls, Transactions, TxStates, Statuses
<1>2. \A k \in Keys : TxsOf(k) = {}
  BY DEF TxsOf
<1>3. \A t \in Txs : TxInv(t)
  BY DEF TxInv, Expires
<1>4. \A k \in Keys : RecordInv(k)
  BY <1>2 DEF RecordInv
<1>5. \A h \in Handlers : SendInv(h) /\ ReservedInv(h)
  BY DEF SendInv, ReservedInv
<1>6. \A g, h \in Handlers : Apart(g, h)
  BY DEF Apart
<1>7. \A p \in Pollers : PollInv(p)
  BY DEF PollInv
<1>8. OneTransactionPerKey /\ SentIsRecorded
  BY <1>2 DEF OneTransactionPerKey, SentIsRecorded
<1> QED BY <1>1, <1>3, <1>4, <1>5, <1>6, <1>7, <1>8 DEF IInv

\* Time passes: what can no longer take effect stays so.
LEMMA TickIInv ==
    ASSUME IInv, Tick
    PROVE  IInv'
<1> USE DEF Tick
<1>1. TypeOK'
  BY DEF IInv, TypeOK
<1>2. ASSUME NEW t \in Txs PROVE Effective(t)' => Effective(t)
  BY DEF Effective, Expired, Expires, IInv, TypeOK, Transactions
<1>3. \A k \in Keys : TxsOf(k)' = TxsOf(k) /\ TxsOf(k) \subseteq Txs
  BY DEF TxsOf
<1>4. \A t \in Txs : TxInv(t)'
  BY DEF IInv, TxInv, Expires
<1>5. \A k \in Keys : RecordInv(k)'
  BY <1>2, <1>3 DEF IInv, RecordInv
<1>6. \A h \in Handlers : SendInv(h)' /\ ReservedInv(h)'
  BY <1>3 DEF IInv, SendInv, ReservedInv
<1>7. \A g, h \in Handlers : Apart(g, h)'
  BY DEF IInv, Apart
<1>8. \A p \in Pollers : PollInv(p)'
  BY <1>2, SendAssumption DEF IInv, PollInv, TypeOK, Polls, Transactions, Expires
<1>9. OneTransactionPerKey' /\ SentIsRecorded'
  BY <1>3 DEF IInv, OneTransactionPerKey, SentIsRecorded
<1> QED BY <1>1, <1>4, <1>5, <1>6, <1>7, <1>8, <1>9 DEF IInv

\* Nothing that could not take effect comes back when a transaction moves in
\* the network, and what landed did so before its height.
LEMMA NetworkIInv ==
    ASSUME IInv, NEW t \in Txs, Deliver(t) \/ Land(t)
    PROVE  IInv'
<1>0. TypeOK
  BY DEF IInv
<1>1. UNCHANGED <<clock, ops, sends, polls, book, forgotten>>
  BY DEF Deliver, Land
<1>3. txs' \in [Txs -> Transactions]
  BY <1>0 DEF Deliver, Land, TypeOK, Transactions, TxStates
<1>4. \A u \in Txs : /\ txs'[u].key = txs[u].key /\ txs'[u].request = txs[u].request
                     /\ txs'[u].lastValid = txs[u].lastValid
                     /\ u # t => txs'[u] = txs[u]
  BY <1>0 DEF Deliver, Land, TypeOK, Transactions
<1>5. txs[t].state \in {"air", "mempool"} /\ txs'[t].state \in {"mempool", "landed", "reverted"}
  BY <1>0 DEF Deliver, Land, TypeOK, Transactions
<1>6. \A u \in Txs : Effective(u)' => Effective(u)
  BY <1>0, <1>1, <1>4, <1>5 DEF Effective, Expired, Expires, Deliver, Land, TypeOK, Transactions
<1>7. \A k \in Keys : TxsOf(k)' = TxsOf(k) /\ TxsOf(k) \subseteq Txs
  BY <1>4, <1>5 DEF TxsOf
<1>8. TypeOK'
  BY <1>0, <1>1, <1>3 DEF TypeOK
<1>9. \A u \in Txs : TxInv(u)'
  <2>1. txs'[t].state \in {"landed", "reverted"} /\ Expires(t) => txs'[t].landedAt <= txs[t].lastValid
    BY <1>0, <1>5 DEF Deliver, Land, Expired, Expires, TypeOK, Transactions
  <2> QED BY <1>1, <1>4, <1>5, <2>1 DEF IInv, TxInv, Expires
<1>10. \A k \in Keys : RecordInv(k)'
  BY <1>0, <1>1, <1>4, <1>5, <1>6, <1>7 DEF IInv, RecordInv, TypeOK, Operations
<1>11. \A h \in Handlers : SendInv(h)'
  BY <1>0, <1>1, <1>4, <1>5 DEF IInv, SendInv, TypeOK, Sends
<1>12. ASSUME NEW h \in Handlers PROVE ReservedInv(h)'
  <2>1. SendInv(h) /\ ReservedInv(h) /\ sends[h].tx \in Txs \cup {None}
    BY <1>0 DEF IInv, TypeOK, Sends
  <2>2. sends[h].phase # "idle" => sends[h].key \in Keys
    BY <2>1 DEF SendInv
  <2>3. \A u \in Txs : txs[u].state \in {"refused", "reverted"} => txs'[u].state = txs[u].state
    BY <1>4, <1>5
  <2> QED BY <1>1, <1>4, <1>7, <2>1, <2>2, <2>3 DEF ReservedInv
<1>13. \A g, h \in Handlers : Apart(g, h)'
  BY <1>1 DEF IInv, Apart
<1>14. \A p \in Pollers : PollInv(p)'
  BY <1>0, <1>1, <1>4, <1>5, <1>6 DEF IInv, PollInv, TypeOK, Polls, Expires
<1>15. OneTransactionPerKey' /\ SentIsRecorded'
  BY <1>1, <1>4, <1>5, <1>7 DEF IInv, OneTransactionPerKey, SentIsRecorded
<1> QED BY <1>8, <1>9, <1>10, <1>11, <1>12, <1>13, <1>14, <1>15 DEF IInv

\* A crash forgets the handlers, the status requests and the book.
LEMMA CrashIInv ==
    ASSUME IInv, Crash
    PROVE  IInv'
<1> USE SendAssumption DEF Crash, NoSend, NoPoll
<1>1. TypeOK'
  BY DEF IInv, TypeOK, Sends, Polls, Statuses
<1>2. \A t \in Txs : TxInv(t)' /\ (Effective(t)' <=> Effective(t))
  BY DEF IInv, TxInv, Expires, Expired, Effective
<1>3. \A k \in Keys : TxsOf(k)' = TxsOf(k) /\ TxsOf(k) \subseteq Txs
  BY DEF TxsOf
<1>4. \A k \in Keys : RecordInv(k)'
  BY <1>2, <1>3 DEF IInv, RecordInv
<1>5. \A h \in Handlers : SendInv(h)' /\ ReservedInv(h)'
  BY DEF SendInv, ReservedInv
<1>6. \A g, h \in Handlers : Apart(g, h)'
  BY DEF Apart
<1>7. \A p \in Pollers : PollInv(p)'
  BY DEF PollInv
<1>8. OneTransactionPerKey' /\ SentIsRecorded'
  BY <1>3 DEF IInv, OneTransactionPerKey, SentIsRecorded
<1> QED BY <1>1, <1>2, <1>4, <1>5, <1>6, <1>7, <1>8 DEF IInv

-----------------------------------------------------------------------------
(* Status requests.                                                        *)

\* Recording a height changes the book at the transaction, and otherwise only
\* takes heights out.
LEMMA BookEffect ==
    ASSUME book \in [Txs -> Nat], NEW t \in Txs, NEW n \in Nat, NEW b \in BooksWith(t, n)
    PROVE  /\ b \in [Txs -> Nat]
           /\ b[t] \in {n, 0}
           /\ \A u \in Txs : u # t => b[u] \in {book[u], 0}
BY DEF BooksWith

\* A step of a status request that writes nothing: it is enough to look at
\* the book and at that request.
LEMMA AskIInv ==
    ASSUME IInv, NEW p \in Pollers, UNCHANGED <<clock, ops, sends, txs, forgotten>>,
           book' \in [Txs -> Nat],
           \A t \in Txs : book'[t] # 0 /\ txs[t].key \notin forgotten => book'[t] = txs[t].lastValid,
           polls' \in [Pollers -> Polls],
           \A q \in Pollers : q # p => polls'[q] = polls[q],
           PollInv(p)'
    PROVE  IInv'
<1>1. TypeOK'
  BY DEF IInv, TypeOK
<1>2. \A t \in Txs : TxInv(t)' /\ (Effective(t)' <=> Effective(t)) /\ (Expires(t)' <=> Expires(t))
  BY DEF IInv, TxInv, Expires, Expired, Effective
<1>3. \A k \in Keys : TxsOf(k)' = TxsOf(k) /\ TxsOf(k) \subseteq Txs
  BY DEF TxsOf
<1>4. \A k \in Keys : RecordInv(k)'
  BY <1>2, <1>3 DEF IInv, RecordInv
<1>5. \A h \in Handlers : SendInv(h)' /\ ReservedInv(h)'
  BY <1>3 DEF IInv, SendInv, ReservedInv
<1>6. \A g, h \in Handlers : Apart(g, h)'
  BY DEF IInv, Apart
<1>7. \A q \in Pollers : PollInv(q)'
  BY <1>2 DEF IInv, PollInv, TypeOK, Polls
<1>8. OneTransactionPerKey' /\ SentIsRecorded'
  BY <1>3 DEF IInv, OneTransactionPerKey, SentIsRecorded
<1> QED BY <1>1, <1>2, <1>4, <1>5, <1>6, <1>7, <1>8 DEF IInv

\* A status request that starts: the height of the record is the one of the
\* transaction the record names.
LEMMA PollStartIInv ==
    ASSUME IInv, NEW p \in Pollers, PollStart(p)
    PROVE  IInv'
<1>0. TypeOK
  BY DEF IInv
<1>1. PICK k \in Recorded(ops) :
         /\ ops[k].txHash # None
         /\ polls' = [polls EXCEPT ![p] = [NoPoll EXCEPT !.phase = "ask", !.tx = ops[k].txHash]]
         /\ book' \in IF ops[k].lastValid = 0 THEN {book}
                      ELSE BooksWith(ops[k].txHash, ops[k].lastValid)
  BY DEF PollStart
<1>2. k \in Keys /\ ops[k] \in Operations /\ ops[k] # None /\ ops[k].txHash \in Txs
  BY <1>0, <1>1 DEF Recorded, TypeOK, Operations
<1>3. /\ txs[ops[k].txHash].key = k /\ txs[ops[k].txHash].state # "new"
      /\ k \notin forgotten => ops[k].lastValid = txs[ops[k].txHash].lastValid
  BY <1>1, <1>2 DEF IInv, RecordInv
<1>4. /\ book' \in [Txs -> Nat]
      /\ book'[ops[k].txHash] \in {book[ops[k].txHash], ops[k].lastValid, 0}
      /\ \A u \in Txs : u # ops[k].txHash => book'[u] \in {book[u], 0}
  <2>1. CASE ops[k].lastValid = 0
    BY <1>0, <1>1, <2>1 DEF TypeOK
  <2>2. CASE ops[k].lastValid # 0
    <3>1. book' \in BooksWith(ops[k].txHash, ops[k].lastValid) /\ ops[k].lastValid \in Nat
      BY <1>1, <1>2, <2>2 DEF Operations
    <3> QED BY <1>0, <1>2, <3>1, BookEffect DEF TypeOK
  <2> QED BY <2>1, <2>2
<1>5. \A t \in Txs : book'[t] # 0 /\ txs[t].key \notin forgotten => book'[t] = txs[t].lastValid
  BY <1>2, <1>3, <1>4 DEF IInv, TxInv
<1>6. polls' \in [Pollers -> Polls] /\ polls'[p].phase = "ask" /\ polls'[p].tx = ops[k].txHash
  BY <1>0, <1>1, <1>2 DEF TypeOK, Polls, NoPoll, Statuses
<1>7. PollInv(p)'
  BY <1>1, <1>3, <1>6 DEF PollInv, PollStart
<1> QED BY <1>0, <1>1, <1>4, <1>5, <1>6, <1>7, AskIInv DEF PollStart, TypeOK

\* The answer that is fixed takes at most its own height out of the book.
LEMMA DecideEffect ==
    ASSUME IInv, NEW p \in Pollers, polls[p].phase # "idle",
           NEW status \in Statuses, Decide(p, status)
    PROVE  /\ polls' \in [Pollers -> Polls]
           /\ polls'[p].phase = "write" /\ polls'[p].status = status /\ polls'[p].tx = polls[p].tx
           /\ \A q \in Pollers : q # p => polls'[q] = polls[q]
           /\ book' \in [Txs -> Nat]
           /\ \A t \in Txs : book'[t] \in {book[t], 0}
BY DEF Decide, IInv, TypeOK, Polls, PollInv

\* What a node says of a transaction it knows is true.
LEMMA AnswersTrue ==
    ASSUME NEW t \in Txs, NEW status \in Answers(t)
    PROVE  /\ status \in {"pending", "confirmed", "failed"}
           /\ status = "confirmed" => txs[t].state = "landed"
           /\ status = "failed" => ~Effective(t)
BY DEF Answers, Seen, Effective

\* A transaction that a node at most Lag blocks behind does not know, although
\* the margin past its height has gone by, never lands.
LEMMA MissingIsDead ==
    ASSUME TypeOK, NEW t \in Txs, TxInv(t), Expires(t), clock > txs[t].lastValid + ExpiryMargin,
           MayMiss(t)
    PROVE  ~Effective(t)
<1>1. txs[t].lastValid \in Nat /\ txs[t].landedAt \in Nat /\ clock \in Nat
  BY DEF TypeOK, Transactions
<1>2. PICK n \in 0 .. clock : n + Lag >= clock /\ ~Seen(t, n)
  BY DEF MayMiss, Heights
<1>3. n > txs[t].lastValid
  BY <1>1, <1>2, SendAssumption
<1>4. txs[t].state # "landed"
  BY <1>1, <1>2, <1>3 DEF Seen, TxInv
<1>5. Expired(t)
  BY <1>1, SendAssumption DEF Expired
<1> QED BY <1>4, <1>5 DEF Effective

\* A status request that asks: what it decides is true of the chain.
LEMMA PollAskIInv ==
    ASSUME IInv, NEW p \in Pollers,
           PollFound(p) \/ PollMissing(p) \/ PollHeight(p) \/ PollExpired(p) \/ PollFails(p)
    PROVE  IInv'
<1>0. TypeOK /\ PollInv(p) /\ \A t \in Txs : TxInv(t)
  BY DEF IInv
<1>1. UNCHANGED <<clock, ops, sends, txs, forgotten>>
  BY DEF PollFound, PollMissing, PollHeight, PollExpired, PollFails
<1>2. polls[p].phase \in {"ask", "missing", "again"}
  BY DEF PollFound, PollMissing, PollHeight, PollExpired, PollFails
<1>3. polls[p].tx \in Txs /\ polls[p] \in Polls /\ txs[polls[p].tx].state # "new"
  BY <1>0, <1>2 DEF PollInv, TypeOK, Polls
<1>4. ASSUME NEW status \in {"pending", "confirmed", "failed"}, Decide(p, status),
             status = "confirmed" => txs[polls[p].tx].state = "landed",
             status = "failed" /\ txs[polls[p].tx].key \notin forgotten => ~Effective(polls[p].tx)
      PROVE  IInv'
  <2>1. status \in Statuses
    BY DEF Statuses
  <2>2. /\ polls' \in [Pollers -> Polls]
        /\ polls'[p].phase = "write" /\ polls'[p].status = status /\ polls'[p].tx = polls[p].tx
        /\ \A q \in Pollers : q # p => polls'[q] = polls[q]
        /\ book' \in [Txs -> Nat]
        /\ \A t \in Txs : book'[t] \in {book[t], 0}
    BY <1>2, <1>4, <2>1, DecideEffect
  <2>3. \A t \in Txs : book'[t] # 0 /\ txs[t].key \notin forgotten => book'[t] = txs[t].lastValid
    BY <1>0, <2>2 DEF TxInv
  <2>4. Effective(polls[p].tx)' <=> Effective(polls[p].tx)
    BY <1>1, <1>3, <2>2 DEF Effective, Expired, Expires
  <2>5. PollInv(p)'
    BY <1>1, <1>3, <1>4, <2>2, <2>4, StoreAssumption DEF PollInv
  <2> QED BY <1>1, <2>2, <2>3, <2>5, AskIInv
<1>5. ASSUME NEW phase \in {"missing", "again"}, polls' = [polls EXCEPT ![p].phase = phase],
             UNCHANGED book,
             phase = "again" /\ txs[polls[p].tx].key \notin forgotten =>
               Expires(polls[p].tx) /\ clock > txs[polls[p].tx].lastValid + ExpiryMargin
      PROVE  IInv'
  <2>1. /\ polls' \in [Pollers -> Polls]
        /\ polls'[p].phase = phase /\ polls'[p].tx = polls[p].tx
        /\ \A q \in Pollers : q # p => polls'[q] = polls[q]
    BY <1>0, <1>3, <1>5 DEF TypeOK, Polls
  <2>2. PollInv(p)'
    BY <1>1, <1>3, <1>5, <2>1, StoreAssumption DEF PollInv, Expires
  <2>3. book' \in [Txs -> Nat]
        /\ \A t \in Txs : book'[t] # 0 /\ txs[t].key \notin forgotten => book'[t] = txs[t].lastValid
    BY <1>0, <1>5 DEF TxInv, TypeOK
  <2> QED BY <1>1, <2>1, <2>2, <2>3, AskIInv
<1>6. CASE PollFound(p)
  BY <1>3, <1>4, <1>6, AnswersTrue DEF PollFound
<1>7. CASE PollMissing(p)
  BY <1>5, <1>7 DEF PollMissing
<1>8. CASE PollHeight(p)
  <2>1. CASE Decide(p, "pending")
    BY <1>4, <2>1
  <2>2. ASSUME book[polls[p].tx] # 0, NEW height \in Heights,
               PastExpiry(height, book[polls[p].tx]),
               polls' = [polls EXCEPT ![p].phase = "again"], UNCHANGED book
        PROVE  IInv'
    <3>1. height \in Nat /\ height <= clock /\ clock \in Nat /\ txs[polls[p].tx].lastValid \in Nat
      BY <1>0, <1>3 DEF Heights, TypeOK, Transactions
    <3>2. txs[polls[p].tx].key \notin forgotten =>
             Expires(polls[p].tx) /\ clock > txs[polls[p].tx].lastValid + ExpiryMargin
      BY <1>0, <1>3, <2>2, <3>1, SendAssumption DEF TxInv, PastExpiry, Expires
    <3> QED BY <1>5, <2>2, <3>2
  <2> QED BY <1>8, <2>1, <2>2 DEF PollHeight
<1>9. CASE PollExpired(p)
  BY <1>0, <1>3, <1>4, <1>9, MissingIsDead DEF PollExpired, PollInv
<1>10. CASE PollFails(p)
  <2>1. /\ polls' \in [Pollers -> Polls] /\ polls'[p].phase = "idle"
        /\ \A q \in Pollers : q # p => polls'[q] = polls[q]
        /\ UNCHANGED book
    BY <1>0, <1>10 DEF PollFails, NoPoll, TypeOK, Polls, Statuses
  <2>2. PollInv(p)'
    BY <2>1 DEF PollInv
  <2>3. book' \in [Txs -> Nat]
        /\ \A t \in Txs : book'[t] # 0 /\ txs[t].key \notin forgotten => book'[t] = txs[t].lastValid
    BY <1>0, <2>1 DEF TxInv, TypeOK
  <2> QED BY <1>1, <2>1, <2>2, <2>3, AskIInv
<1> QED BY <1>6, <1>7, <1>8, <1>9, <1>10

\* UpdateByTxHash: the record it finds belongs to the transaction, so the
\* verdict is about the only transaction of its key.
LEMMA PollWriteIInv ==
    ASSUME IInv, NEW p \in Pollers, PollWrite(p)
    PROVE  IInv'
<1>0. TypeOK /\ PollInv(p)
  BY DEF IInv
<1>1. UNCHANGED <<clock, sends, book, txs, forgotten>> /\ polls' = [polls EXCEPT ![p] = NoPoll]
  BY DEF PollWrite
<1>2. /\ polls[p] \in Polls /\ polls[p].tx \in Txs
      /\ polls[p].status # "building"
      /\ polls[p].status = "confirmed" => txs[polls[p].tx].state = "landed"
      /\ polls[p].status = "failed" /\ txs[polls[p].tx].key \notin forgotten => ~Effective(polls[p].tx)
  BY <1>0 DEF PollWrite, PollInv, TypeOK, Polls
<1>3. \/ UNCHANGED ops
      \/ \E k \in Keys :
           /\ ops[k] # None /\ ops[k].txHash = polls[p].tx
           /\ ops' = [ops EXCEPT ![k].status = polls[p].status, ![k].updatedAt = clock]
  BY DEF PollWrite, Written, ByTxHash, Recorded
<1> DEFINE New(k) == [ops[k] EXCEPT !.status = polls[p].status, !.updatedAt = clock]
<1>4. ASSUME NEW k \in Keys, ops[k] # None
      PROVE  /\ ops[k] \in Operations /\ New(k) \in Operations /\ New(k) # None
             /\ New(k).txHash = ops[k].txHash /\ New(k).lastValid = ops[k].lastValid
             /\ New(k).status = polls[p].status
  <2>1. ops[k] \in Operations /\ New(k) \in Operations
    BY <1>0, <1>2, <1>4 DEF TypeOK, Operations, Polls
  <2>2. /\ New(k).txHash = ops[k].txHash /\ New(k).lastValid = ops[k].lastValid
        /\ New(k).status = polls[p].status
    BY <2>1 DEF Operations
  <2> QED BY <2>1, <2>2, SendAssumption
<1>4a. \/ UNCHANGED ops
      \/ \E k \in Keys : ops[k] # None /\ ops[k].txHash = polls[p].tx /\ ops' = [ops EXCEPT ![k] = New(k)]
  <2>1. ASSUME NEW k \in Keys, ops[k] # None,
               ops' = [ops EXCEPT ![k].status = polls[p].status, ![k].updatedAt = clock]
        PROVE  ops' = [ops EXCEPT ![k] = New(k)]
    BY <1>0, <1>4, <2>1 DEF TypeOK, Operations
  <2> QED BY <1>3, <2>1
<1> HIDE DEF New
<1>5. /\ ops' \in [Keys -> Operations \cup {None}]
      /\ \A k \in Keys :
           /\ ops'[k] = None <=> ops[k] = None
           /\ ops[k] # None => /\ ops'[k].txHash = ops[k].txHash
                               /\ ops'[k].lastValid = ops[k].lastValid
                               /\ \/ ops'[k].status = ops[k].status
                                  \/ ops[k].txHash = polls[p].tx /\ ops'[k].status = polls[p].status
  <2>1. CASE UNCHANGED ops
    BY <1>0, <2>1 DEF TypeOK
  <2>2. CASE \E k \in Keys : ops[k] # None /\ ops[k].txHash = polls[p].tx
                             /\ ops' = [ops EXCEPT ![k] = New(k)]
    BY <1>0, <1>4, <2>2 DEF TypeOK
  <2> QED BY <1>4a, <2>1, <2>2
<1>6. TypeOK'
  BY <1>0, <1>1, <1>5 DEF TypeOK, NoPoll, Polls, Statuses
<1>7. \A t \in Txs : TxInv(t)' /\ (Effective(t)' <=> Effective(t)) /\ (Expires(t)' <=> Expires(t))
  BY <1>1 DEF IInv, TxInv, Expires, Expired, Effective
<1>8. \A k \in Keys : TxsOf(k)' = TxsOf(k) /\ TxsOf(k) \subseteq Txs
  BY <1>1 DEF TxsOf
<1>9. ASSUME NEW k \in Keys PROVE RecordInv(k)'
  <2>1. RecordInv(k)
    BY DEF IInv
  <2> QED BY <1>1, <1>2, <1>5, <1>7, <1>8, <2>1, StoreAssumption DEF RecordInv
<1>10. ASSUME NEW h \in Handlers PROVE SendInv(h)' /\ ReservedInv(h)'
  <2>1. SendInv(h) /\ ReservedInv(h)
    BY DEF IInv
  <2>2. sends[h].phase # "idle" => sends[h].key \in Keys
    BY <2>1 DEF SendInv
  <2> QED BY <1>1, <1>2, <1>5, <1>8, <2>1, <2>2, StoreAssumption DEF SendInv, ReservedInv
<1>11. \A g, h \in Handlers : Apart(g, h)'
  BY <1>1 DEF IInv, Apart
<1>12. \A q \in Pollers : PollInv(q)'
  BY <1>0, <1>1, <1>7 DEF IInv, PollInv, TypeOK, Polls, NoPoll
<1>13. OneTransactionPerKey'
  BY <1>1, <1>8 DEF IInv, OneTransactionPerKey
<1>14. SentIsRecorded'
  <2> SUFFICES ASSUME NEW t \in Txs, txs[t].state \notin {"new", "withheld"},
                      txs[t].request \notin Evm, txs[t].key \notin forgotten
               PROVE  /\ ops'[txs[t].key] # None
                      /\ ops'[txs[t].key].txHash = t
                      /\ ops'[txs[t].key].status # "building"
                      /\ ops'[txs[t].key].lastValid = txs[t].lastValid
    BY <1>1 DEF SentIsRecorded
  <2>1. /\ ops[txs[t].key] # None
        /\ ops[txs[t].key].txHash = t
        /\ ops[txs[t].key].status # "building"
        /\ ops[txs[t].key].lastValid = txs[t].lastValid
    BY DEF IInv, SentIsRecorded
  <2>2. txs[t].key \in Keys
    BY <1>0 DEF IInv, TxInv, TypeOK, Transactions
  <2> QED BY <1>2, <1>5, <2>1, <2>2
<1> QED BY <1>6, <1>7, <1>9, <1>10, <1>11, <1>12, <1>13, <1>14 DEF IInv

-----------------------------------------------------------------------------
(* The sending handlers.                                                   *)

\* Nothing changes.
LEMMA StutterIInv ==
    ASSUME IInv, UNCHANGED vars
    PROVE  IInv'
<1> USE DEF vars
<1>1. TypeOK' /\ OneTransactionPerKey' /\ SentIsRecorded'
  BY DEF IInv, TypeOK, OneTransactionPerKey, SentIsRecorded, TxsOf
<1>2. \A t \in Txs : TxInv(t)'
  BY DEF IInv, TxInv, Expires
<1>3. \A k \in Keys : RecordInv(k)'
  BY DEF IInv, RecordInv, TxsOf, Effective, Expired, Expires
<1>4. \A h \in Handlers : SendInv(h)' /\ ReservedInv(h)'
  BY DEF IInv, SendInv, ReservedInv, TxsOf
<1>5. \A g, h \in Handlers : Apart(g, h)'
  BY DEF IInv, Apart
<1>6. \A p \in Pollers : PollInv(p)'
  BY DEF IInv, PollInv, Effective, Expired, Expires
<1> QED BY <1>1, <1>2, <1>3, <1>4, <1>5, <1>6 DEF IInv

\* prune drops records that are there, and only settled or old ones.
LEMMA PruneDrops ==
    ASSUME NEW D \in PruneChoices(ops, clock)
    PROVE  D \subseteq droppable(ops, clock) /\ D \subseteq Recorded(ops)
BY DEF PruneChoices, droppable

\* Begin reserves a key that has no record.  Unless the key was pruned before,
\* nothing was ever signed for it and no handler works on it.
LEMMA BeginIInv ==
    ASSUME IInv, NEW h \in Handlers, Begin(h)
    PROVE  IInv'
<1>0. TypeOK
  BY DEF IInv
<1>1. PICK k \in Keys, r \in Requests, outcome \in Outcomes, D \in PruneChoices(ops, clock) :
         /\ Reservable(k)
         /\ ops' = Written([l \in Keys |-> IF l = k THEN Reserved(r, clock)
                                           ELSE IF l \in D THEN None ELSE ops[l]], outcome)
         /\ forgotten' = IF outcome = "failed" THEN forgotten ELSE forgotten \cup D
         /\ sends' = IF outcome = "ok"
                     THEN [sends EXCEPT ![h] = [NoSend EXCEPT !.phase = "building", !.key = k,
                                                              !.request = r]]
                     ELSE sends
  BY DEF Begin
<1>2. UNCHANGED <<clock, polls, book, txs>> /\ sends[h] = NoSend
  BY DEF Begin
<1>3. CASE outcome = "failed"
  BY <1>1, <1>2, <1>3, StutterIInv DEF Written, vars
<1>4. CASE outcome # "failed"
  <2>1. D \subseteq Keys /\ k \notin D /\ ops[k] = None
    BY <1>1, PruneDrops DEF Recorded, Reservable
  <2>2. forgotten' = forgotten \cup D
    BY <1>1, <1>4
  <2>3. \A l \in Keys : ops'[l] = IF l = k THEN Reserved(r, clock) ELSE IF l \in D THEN None ELSE ops[l]
    BY <1>1, <1>4 DEF Written
  <2>4. /\ Reserved(r, clock) \in Operations /\ Reserved(r, clock) # None
        /\ Reserved(r, clock).txHash = None /\ Reserved(r, clock).lastValid = 0
        /\ Reserved(r, clock).status = "building"
    <3>1. Reserved(r, clock) \in Operations
      BY <1>0 DEF Reserved, Operations, Statuses, TypeOK
    <3> QED BY <3>1, SendAssumption DEF Reserved
  <2>5. ops' \in [Keys -> Operations \cup {None}]
    BY <1>0, <1>1, <1>4, <2>4 DEF Written, TypeOK
  <2>6. /\ sends' \in [Handlers -> Sends]
        /\ \A g \in Handlers : g # h => sends'[g] = sends[g]
        /\ \/ sends'[h] = sends[h]
           \/ /\ sends'[h].phase = "building" /\ sends'[h].key = k
              /\ sends'[h].request = r /\ sends'[h].tx = None
    BY <1>0, <1>1 DEF TypeOK, NoSend, Sends, Statuses
  <2>7. TypeOK'
    BY <1>0, <1>2, <2>1, <2>2, <2>5, <2>6 DEF TypeOK
  <2>8. \A t \in Txs : TxInv(t)' /\ (Effective(t)' <=> Effective(t)) /\ (Expires(t)' <=> Expires(t))
    BY <1>2, <2>2 DEF IInv, TxInv, Effective, Expired, Expires
  <2>9. \A l \in Keys : TxsOf(l)' = TxsOf(l) /\ TxsOf(l) \subseteq Txs
    BY <1>2 DEF TxsOf
  <2>10. \A l \in Keys : RecordInv(l)'
    BY <1>2, <2>1, <2>2, <2>3, <2>4, <2>8, <2>9 DEF IInv, RecordInv
  <2>11. \A g \in Handlers : sends[g].phase # "idle" /\ sends[g].key \notin forgotten =>
                               sends[g].key \in Keys /\ sends[g].key # k
    BY <2>1 DEF IInv, SendInv, ReservedInv
  <2>12. \A g \in Handlers : SendInv(g)'
    BY <1>2, <2>6 DEF IInv, SendInv
  <2>13. ASSUME NEW g \in Handlers PROVE ReservedInv(g)'
    <3>1. ReservedInv(g) /\ SendInv(g)
      BY DEF IInv
    <3>2. CASE sends'[g] = sends[g]
      BY <1>2, <2>2, <2>3, <2>9, <2>11, <3>1, <3>2 DEF ReservedInv
    <3>3. CASE sends'[g] # sends[g]
      <4>1. k \notin forgotten => TxsOf(k)' = {}
        BY <2>1, <2>9 DEF IInv, RecordInv
      <4> QED BY <2>2, <2>3, <2>4, <2>6, <3>3, <4>1 DEF ReservedInv
    <3> QED BY <3>2, <3>3
  <2>14. ASSUME NEW f \in Handlers, NEW g \in Handlers PROVE Apart(f, g)'
    BY <1>2, <2>2, <2>6, <2>11 DEF IInv, Apart, SendInv
  <2>15. \A p \in Pollers : PollInv(p)'
    BY <1>0, <1>2, <2>2, <2>8, StoreAssumption DEF IInv, PollInv, TypeOK, Polls
  <2>16. OneTransactionPerKey' /\ SentIsRecorded'
    <3>1. OneTransactionPerKey'
      BY <2>2, <2>9 DEF IInv, OneTransactionPerKey
    <3>2. \A t \in Txs : txs[t].state \notin {"new", "withheld"} => txs[t].key \in Keys
      BY <1>0 DEF IInv, TxInv, TypeOK, Transactions
    <3>3. SentIsRecorded'
      BY <1>2, <2>1, <2>2, <2>3, <3>2 DEF IInv, SentIsRecorded
    <3> QED BY <3>1, <3>3
  <2> QED BY <2>7, <2>8, <2>10, <2>12, <2>13, <2>14, <2>15, <2>16 DEF IInv
<1> QED BY <1>3, <1>4

\* A step in which a handler changes nothing but its own state.
LEMMA OwnStepIInv ==
    ASSUME IInv, NEW h \in Handlers, UNCHANGED <<clock, ops, polls, book, txs, forgotten>>,
           sends' \in [Handlers -> Sends],
           \A g \in Handlers : g # h => sends'[g] = sends[g],
           sends[h].phase # "idle", sends'[h].phase # "idle",
           sends'[h].tx = sends[h].tx, sends'[h].key = sends[h].key,
           SendInv(h)', ReservedInv(h)'
    PROVE  IInv'
<1>1. TypeOK' /\ OneTransactionPerKey' /\ SentIsRecorded'
  BY DEF IInv, TypeOK, OneTransactionPerKey, SentIsRecorded, TxsOf
<1>2. \A t \in Txs : TxInv(t)'
  BY DEF IInv, TxInv, Expires
<1>3. \A k \in Keys : RecordInv(k)'
  BY DEF IInv, RecordInv, TxsOf, Effective, Expired, Expires
<1>4. \A g \in Handlers : SendInv(g)' /\ ReservedInv(g)'
  BY DEF IInv, SendInv, ReservedInv, TxsOf
<1>5. \A f, g \in Handlers : Apart(f, g)'
  BY DEF IInv, Apart
<1>6. \A p \in Pollers : PollInv(p)'
  BY DEF IInv, PollInv, Effective, Expired, Expires
<1> QED BY <1>1, <1>2, <1>3, <1>4, <1>5, <1>6 DEF IInv

\* A handler gives up before it signed anything, or learns what became of its
\* deployment.
LEMMA LocalIInv ==
    ASSUME IInv, NEW h \in Handlers, BuildFails(h) \/ AwaitDeployment(h)
    PROVE  IInv'
<1>0. TypeOK /\ SendInv(h) /\ ReservedInv(h) /\ sends[h] \in Sends
  BY DEF IInv, TypeOK
<1>1. UNCHANGED <<clock, ops, polls, book, txs, forgotten>>
  BY DEF BuildFails, AwaitDeployment
<1>2. PICK status \in Statuses :
        /\ sends' = [sends EXCEPT ![h].phase = "finish", ![h].status = status]
        /\ status # "building"
        /\ \/ sends[h].phase = "building" /\ status = "failed"
           \/ /\ sends[h].phase = "await"
              /\ status = "confirmed" => txs[sends[h].tx].state = "landed"
              /\ status = "failed" => txs[sends[h].tx].state = "reverted"
  BY DEF BuildFails, AwaitDeployment, Statuses
<1>3. /\ sends' \in [Handlers -> Sends]
      /\ \A g \in Handlers : g # h => sends'[g] = sends[g]
      /\ sends'[h].phase = "finish" /\ sends'[h].status = status /\ sends'[h].key = sends[h].key
      /\ sends'[h].request = sends[h].request /\ sends'[h].tx = sends[h].tx
  BY <1>0, <1>2 DEF TypeOK, Sends
<1>4. SendInv(h)'
  BY <1>0, <1>1, <1>2, <1>3 DEF SendInv
<1>5. sends[h].phase = "await" /\ sends[h].key \notin forgotten => TxsOf(sends[h].key) \subseteq {sends[h].tx}
  <2>1. sends[h].phase = "await" => sends[h].tx \in TxsOf(sends[h].key) /\ sends[h].key \in Keys
    BY <1>0 DEF SendInv, TxsOf, Sends
  <2> QED BY <2>1 DEF IInv, OneTransactionPerKey
<1>6. ReservedInv(h)'
  BY <1>0, <1>1, <1>2, <1>3, <1>5 DEF ReservedInv, TxsOf
<1> QED BY <1>1, <1>2, <1>3, <1>4, <1>6, OwnStepIInv

\* A new transaction is nobody's yet: no record, handler or status request has it.
LEMMA FreshTx ==
    ASSUME IInv, NEW t \in Txs, txs[t] = NoTx
    PROVE  /\ \A k \in Keys : t \notin TxsOf(k)
           /\ \A k \in Keys : ops[k] # None => ops[k].txHash # t
           /\ \A h \in Handlers : sends[h].tx # t
           /\ \A p \in Pollers : polls[p].phase # "idle" => polls[p].tx # t
           /\ book[t] = 0
<1>1. txs[t].state = "new" /\ txs[t].key = None /\ txs[t].lastValid = 0
  BY DEF NoTx
<1>2. \A k \in Keys : t \notin TxsOf(k)
  BY <1>1, SendAssumption DEF TxsOf
<1>3. \A k \in Keys : ops[k] # None => ops[k].txHash # t
  BY <1>1, StoreAssumption DEF IInv, RecordInv
<1>4. \A h \in Handlers : sends[h].tx # t
  BY <1>1, StoreAssumption DEF IInv, SendInv
<1>5. \A p \in Pollers : polls[p].phase # "idle" => polls[p].tx # t
  BY <1>1 DEF IInv, PollInv
<1>6. book[t] = 0
  BY <1>1, SendAssumption DEF IInv, TxInv, TypeOK
<1> QED BY <1>2, <1>3, <1>4, <1>5, <1>6

\* An EVM transfer signs: its key had no transaction.
LEMMA SignEvmIInv ==
    ASSUME IInv, NEW h \in Handlers, SignEvm(h)
    PROVE  IInv'
<1>0. TypeOK /\ SendInv(h) /\ ReservedInv(h) /\ sends[h] \in Sends
  BY DEF IInv, TypeOK
<1>1. /\ UNCHANGED <<clock, ops, polls, book, forgotten>>
      /\ sends[h].phase = "building" /\ sends[h].request \in Evm
  BY DEF SignEvm
<1>2. PICK t \in Txs :
         /\ txs[t] = NoTx
         /\ txs' = [txs EXCEPT ![t] = [NoTx EXCEPT !.state = "signed", !.key = sends[h].key,
                                                   !.request = sends[h].request]]
         /\ sends' = [sends EXCEPT ![h].phase = "signed", ![h].tx = t]
  BY DEF SignEvm
<1>3. sends[h].key \in Keys /\ sends[h].request \in Requests /\ sends[h].tx = None
  BY <1>0, <1>1 DEF SendInv
<1>4. /\ txs' \in [Txs -> Transactions]
      /\ \A u \in Txs : u # t => txs'[u] = txs[u]
      /\ txs'[t].state = "signed" /\ txs'[t].key = sends[h].key
      /\ txs'[t].request \in Evm /\ txs'[t].lastValid = 0
  BY <1>0, <1>1, <1>2, <1>3 DEF TypeOK, NoTx, Transactions, TxStates
<1>5. /\ sends' \in [Handlers -> Sends]
      /\ \A g \in Handlers : g # h => sends'[g] = sends[g]
      /\ sends'[h].phase = "signed" /\ sends'[h].tx = t /\ sends'[h].key = sends[h].key
      /\ sends'[h].request = sends[h].request
  BY <1>0, <1>2 DEF TypeOK, Sends
<1>6. /\ \A k \in Keys : t \notin TxsOf(k)
      /\ \A k \in Keys : ops[k] # None => ops[k].txHash # t
      /\ \A g \in Handlers : sends[g].tx # t
      /\ \A p \in Pollers : polls[p].phase # "idle" => polls[p].tx # t
      /\ book[t] = 0
  BY <1>2, FreshTx
<1>7. /\ \A k \in Keys : k # sends[h].key => TxsOf(k)' = TxsOf(k)
      /\ \A k \in Keys : k = sends[h].key => TxsOf(k)' = TxsOf(k) \cup {t}
  BY <1>3, <1>4, <1>6 DEF TxsOf
<1>8. \A u \in Txs : u # t => (Effective(u)' <=> Effective(u)) /\ (Expires(u)' <=> Expires(u))
  BY <1>1, <1>4 DEF Effective, Expired, Expires
<1>9. sends[h].key \notin forgotten =>
         /\ ops[sends[h].key] # None /\ TxsOf(sends[h].key) = {} /\ ops[sends[h].key].txHash = None
         /\ ops[sends[h].key].lastValid = 0 /\ ops[sends[h].key].status = "building"
  BY <1>0, <1>1 DEF ReservedInv
<1>10. TypeOK'
  BY <1>0, <1>1, <1>4, <1>5 DEF TypeOK
<1>11. \A u \in Txs : TxInv(u)'
  BY <1>1, <1>3, <1>4, <1>6, <1>8, SendAssumption DEF IInv, TxInv, Expires
<1>12. ASSUME NEW k \in Keys PROVE RecordInv(k)'
  <2>1. RecordInv(k) /\ TxsOf(k) \subseteq Txs
    BY DEF IInv, TxsOf
  <2>2. ops[k] # None => ops[k].txHash \in Txs \cup {None}
    BY <1>0 DEF TypeOK, Operations
  <2> QED BY <1>1, <1>4, <1>6, <1>7, <1>8, <1>9, <2>1, <2>2 DEF RecordInv
<1>13. \A g \in Handlers : SendInv(g)'
  BY <1>0, <1>1, <1>3, <1>4, <1>5, <1>6, StoreAssumption DEF IInv, SendInv, TypeOK, Sends
<1>14. ASSUME NEW g \in Handlers PROVE ReservedInv(g)'
  <2>1. ReservedInv(g) /\ SendInv(g) /\ Apart(g, h) /\ sends[g].tx \in Txs \cup {None}
    BY <1>0 DEF IInv, TypeOK, Sends
  <2>2. CASE g = h
    BY <1>1, <1>4, <1>5, <1>9, <2>2 DEF ReservedInv
  <2>3. CASE g # h
    <3>1. sends[g].phase # "idle" /\ sends[g].key \notin forgotten =>
             sends[g].key \in Keys /\ TxsOf(sends[g].key)' = TxsOf(sends[g].key)
      BY <1>1, <1>5, <1>7, <2>1, <2>3 DEF Apart, SendInv
    <3>2. \A u \in TxsOf(sends[g].key) : sends[g].key \in Keys => txs'[u] = txs[u]
      BY <1>4, <1>6 DEF TxsOf
    <3> QED BY <1>1, <1>4, <1>5, <1>6, <2>1, <2>3, <3>1, <3>2 DEF ReservedInv
  <2> QED BY <2>2, <2>3
<1>15. ASSUME NEW f \in Handlers, NEW g \in Handlers PROVE Apart(f, g)'
  BY <1>1, <1>5, <1>6 DEF IInv, Apart
<1>16. \A p \in Pollers : PollInv(p)'
  BY <1>0, <1>1, <1>4, <1>6, <1>8 DEF IInv, PollInv, TypeOK, Polls
<1>17. OneTransactionPerKey'
  BY <1>1, <1>7, <1>9 DEF IInv, OneTransactionPerKey
<1>18. SentIsRecorded'
  BY <1>1, <1>4 DEF IInv, SentIsRecorded
<1> QED BY <1>10, <1>11, <1>12, <1>13, <1>14, <1>15, <1>16, <1>17, <1>18 DEF IInv

\* The recording signer: the id and the height are in the record before there
\* is a signature, and without them there is none.
LEMMA RecordAndSignIInv ==
    ASSUME IInv, NEW h \in Handlers, RecordAndSign(h)
    PROVE  IInv'
<1>0. TypeOK /\ SendInv(h) /\ ReservedInv(h) /\ sends[h] \in Sends
  BY DEF IInv, TypeOK
<1>1. /\ UNCHANGED <<clock, polls, forgotten>>
      /\ sends[h].phase = "building" /\ sends[h].request \notin Evm
  BY DEF RecordAndSign
<1>2. PICK t \in Txs, outcome \in Outcomes :
         /\ txs[t] = NoTx
         /\ ops' = IF CanUpdate(sends[h].key)
                   THEN Written(OpsWith(sends[h].key, t, "broadcasting",
                                        RecordedExpiry(sends[h].request)), outcome)
                   ELSE ops
         /\ txs' = [txs EXCEPT ![t] = [NoTx EXCEPT
                       !.state = IF MaySign(sends[h].key, outcome) THEN "signed" ELSE "withheld",
                       !.key = sends[h].key, !.request = sends[h].request,
                       !.lastValid = Expiry(sends[h].request)]]
         /\ sends' = IF MaySign(sends[h].key, outcome)
                     THEN [sends EXCEPT ![h].phase = "signed", ![h].tx = t]
                     ELSE [sends EXCEPT ![h].phase = "finish", ![h].status = "failed"]
         /\ book' \in IF MaySign(sends[h].key, outcome) /\ sends[h].request \in Solana
                      THEN BooksWith(t, Expiry(sends[h].request)) ELSE {book}
  BY DEF RecordAndSign
<1>3. PICK k \in Keys, n \in Nat : k = sends[h].key /\ n = Expiry(sends[h].request)
  BY <1>0, <1>1, SendAssumption DEF SendInv, Expiry, TypeOK
<1>4. PICK signed \in BOOLEAN : signed = MaySign(sends[h].key, outcome)
  BY DEF MaySign, CanUpdate
<1>5. /\ txs' \in [Txs -> Transactions]
      /\ \A u \in Txs : u # t => txs'[u] = txs[u]
      /\ txs'[t].state = (IF signed THEN "signed" ELSE "withheld") /\ txs'[t].key = k
      /\ txs'[t].lastValid = n
  BY <1>0, <1>1, <1>2, <1>3, <1>4 DEF TypeOK, NoTx, Transactions, TxStates, SendInv
<1>6. /\ sends' \in [Handlers -> Sends]
      /\ \A g \in Handlers : g # h => sends'[g] = sends[g]
      /\ sends'[h].key = k /\ sends'[h].request = sends[h].request
      /\ signed => sends'[h].phase = "signed" /\ sends'[h].tx = t
      /\ ~signed => sends'[h].phase = "finish" /\ sends'[h].status = "failed" /\ sends'[h].tx = None
  BY <1>0, <1>1, <1>2, <1>3, <1>4 DEF TypeOK, Sends, SendInv, Statuses
<1>7. /\ \A l \in Keys : t \notin TxsOf(l)
      /\ \A l \in Keys : ops[l] # None => ops[l].txHash # t
      /\ \A g \in Handlers : sends[g].tx # t
      /\ \A p \in Pollers : polls[p].phase # "idle" => polls[p].tx # t
      /\ book[t] = 0
  BY <1>2, FreshTx
<1> DEFINE New == Updated(ops[k], t, "broadcasting", n, clock)
<1>8. ASSUME ops[k] # None
      PROVE  /\ ops[k] \in Operations /\ New \in Operations /\ New # None
             /\ New.txHash = t /\ New.status = "broadcasting"
             /\ New.lastValid = IF n = 0 THEN ops[k].lastValid ELSE n
  <2>1. ops[k] \in Operations
    BY <1>0, <1>8 DEF TypeOK
  <2>2. New \in Operations
    BY <1>0, <2>1 DEF Updated, KeptHash, Operations, Statuses, TypeOK
  <2>3. /\ New.txHash = t /\ New.status = "broadcasting"
        /\ New.lastValid = IF n = 0 THEN ops[k].lastValid ELSE n
    BY <2>1, StoreAssumption DEF Updated, KeptHash, Operations
  <2> QED BY <2>1, <2>2, <2>3, SendAssumption
<1>9. /\ \/ UNCHANGED ops
         \/ ops[k] # None /\ ops' = [ops EXCEPT ![k] = New]
      /\ signed => ops[k] # None /\ ops' = [ops EXCEPT ![k] = New]
  BY <1>2, <1>3, <1>4 DEF MaySign, CanUpdate, Written, OpsWith, RecordedExpiry
<1> HIDE DEF New
<1>10. /\ ops' \in [Keys -> Operations \cup {None}]
       /\ \A l \in Keys : l # k => ops'[l] = ops[l]
       /\ ops'[k] = ops[k] \/ (ops[k] # None /\ ops'[k] = New)
       /\ signed => ops[k] # None /\ ops'[k] = New
  BY <1>0, <1>8, <1>9 DEF TypeOK
<1>11. /\ book' \in [Txs -> Nat]
       /\ book'[t] \in {n, 0}
       /\ \A u \in Txs : u # t => book'[u] \in {book[u], 0}
  <2>1. CASE signed /\ sends[h].request \in Solana
    BY <1>0, <1>2, <1>3, <1>4, <2>1, BookEffect DEF TypeOK
  <2>2. CASE ~(signed /\ sends[h].request \in Solana)
    BY <1>0, <1>2, <1>4, <1>7, <2>2 DEF TypeOK
  <2> QED BY <2>1, <2>2
<1>12. k \notin forgotten =>
         /\ ops[k] # None /\ TxsOf(k) = {} /\ ops[k].txHash = None
         /\ ops[k].lastValid = 0 /\ ops[k].status = "building"
  BY <1>0, <1>1, <1>3 DEF ReservedInv
<1>13. /\ \A l \in Keys : l # k => TxsOf(l)' = TxsOf(l)
       /\ TxsOf(k)' = IF signed THEN TxsOf(k) \cup {t} ELSE TxsOf(k)
  <2>1. \A l \in Keys : l # k => TxsOf(l)' = TxsOf(l)
    BY <1>5, <1>7 DEF TxsOf
  <2>2. CASE signed
    BY <1>5, <1>7, <2>2 DEF TxsOf
  <2>3. CASE ~signed
    BY <1>5, <1>7, <2>3 DEF TxsOf
  <2> QED BY <2>1, <2>2, <2>3
<1>14. \A u \in Txs : u # t => (Effective(u)' <=> Effective(u)) /\ (Expires(u)' <=> Expires(u))
  BY <1>1, <1>5 DEF Effective, Expired, Expires
<1>15. TypeOK'
  BY <1>0, <1>1, <1>5, <1>6, <1>10, <1>11 DEF TypeOK
<1>16. ASSUME NEW u \in Txs PROVE TxInv(u)'
  <2>1. CASE u = t
    BY <1>5, <1>11, <2>1, SendAssumption DEF TxInv
  <2>2. CASE u # t
    BY <1>1, <1>5, <1>11, <1>14, <2>2 DEF IInv, TxInv
  <2> QED BY <2>1, <2>2
<1>17. ASSUME NEW l \in Keys PROVE RecordInv(l)'
  <2>1. RecordInv(l) /\ TxsOf(l) \subseteq Txs
    BY DEF IInv, TxsOf
  <2>2. ops[l] # None => ops[l].txHash \in Txs \cup {None}
    BY <1>0 DEF TypeOK, Operations
  <2>3. CASE ops'[l] = ops[l] /\ l # k
    BY <1>1, <1>5, <1>7, <1>13, <1>14, <2>1, <2>2, <2>3 DEF RecordInv
  <2>4. CASE ops'[l] = ops[l] /\ l = k
    BY <1>1, <1>5, <1>7, <1>8, <1>10, <1>12, <1>13, <1>14, <2>1, <2>2, <2>4 DEF RecordInv
  <2>5. CASE l = k /\ ops[k] # None /\ ops'[k] = New
    BY <1>1, <1>5, <1>8, <1>12, <1>13, <2>5, StoreAssumption DEF RecordInv
  <2> QED BY <1>10, <2>3, <2>4, <2>5
<1>18. \A g \in Handlers : SendInv(g)'
  BY <1>0, <1>1, <1>3, <1>5, <1>6, <1>7, StoreAssumption DEF IInv, SendInv, TypeOK, Sends
<1>19. ASSUME NEW g \in Handlers PROVE ReservedInv(g)'
  <2>1. ReservedInv(g) /\ SendInv(g) /\ Apart(g, h) /\ sends[g].tx \in Txs \cup {None}
    BY <1>0 DEF IInv, TypeOK, Sends
  <2>2. CASE g = h
    BY <1>1, <1>5, <1>6, <1>8, <1>10, <1>12, <1>13, <2>2 DEF ReservedInv
  <2>3. CASE g # h
    <3>1. sends[g].phase # "idle" /\ sends[g].key \notin forgotten =>
             /\ sends[g].key \in Keys /\ ops'[sends[g].key] = ops[sends[g].key]
             /\ TxsOf(sends[g].key)' = TxsOf(sends[g].key)
      BY <1>1, <1>3, <1>6, <1>10, <1>13, <2>1, <2>3 DEF Apart, SendInv
    <3>2. \A u \in TxsOf(sends[g].key) : sends[g].key \in Keys => txs'[u] = txs[u]
      BY <1>5, <1>7 DEF TxsOf
    <3> QED BY <1>1, <1>5, <1>6, <1>7, <2>1, <2>3, <3>1, <3>2 DEF ReservedInv
  <2> QED BY <2>2, <2>3
<1>20. ASSUME NEW f \in Handlers, NEW g \in Handlers PROVE Apart(f, g)'
  BY <1>1, <1>3, <1>6, <1>7 DEF IInv, Apart
<1>21. \A p \in Pollers : PollInv(p)'
  BY <1>0, <1>1, <1>5, <1>7, <1>14 DEF IInv, PollInv, TypeOK, Polls
<1>22. OneTransactionPerKey'
  BY <1>1, <1>12, <1>13 DEF IInv, OneTransactionPerKey
<1>23. ASSUME NEW u \in Txs, txs'[u].state \notin {"new", "withheld"}, txs'[u].request \notin Evm,
              txs'[u].key \notin forgotten'
       PROVE  /\ ops'[txs'[u].key] # None /\ ops'[txs'[u].key].txHash = u
              /\ ops'[txs'[u].key].status # "building"
              /\ ops'[txs'[u].key].lastValid = txs'[u].lastValid
  <2>1. CASE u = t
    BY <1>1, <1>5, <1>8, <1>10, <1>12, <1>23, <2>1
  <2>2. CASE u # t
    <3>1. u \in TxsOf(txs[u].key) /\ txs[u].key \in Keys
      BY <1>0, <1>5, <1>23, <2>2 DEF TxsOf, IInv, TxInv, TypeOK, Transactions
    <3>2. txs[u].key # k
      BY <1>1, <1>5, <1>12, <1>23, <2>2, <3>1
    <3> QED BY <1>1, <1>5, <1>10, <1>23, <2>2, <3>1, <3>2 DEF IInv, SentIsRecorded
  <2> QED BY <2>1, <2>2
<1>24. SentIsRecorded'
  BY <1>23 DEF SentIsRecorded
<1> QED BY <1>15, <1>16, <1>17, <1>18, <1>19, <1>20, <1>21, <1>22, <1>24 DEF IInv

\* The transaction is sent, once: refused for good, or out of the handler's hands.
LEMMA BroadcastIInv ==
    ASSUME IInv, NEW h \in Handlers, Broadcast(h)
    PROVE  IInv'
<1>0. TypeOK /\ SendInv(h) /\ ReservedInv(h) /\ sends[h] \in Sends
  BY DEF IInv, TypeOK
<1>1. UNCHANGED <<clock, ops, polls, book, forgotten>> /\ sends[h].phase = "signed"
  BY DEF Broadcast
<1>2. PICK answered \in {"mempool", "refused", "air"} :
         /\ txs' = [txs EXCEPT ![sends[h].tx].state = answered]
         /\ sends' = [sends EXCEPT
                ![h].phase = AfterBroadcast(answered, sends[h].request),
                ![h].tx = IF answered = "refused" /\ sends[h].request \notin Evm \cup Solana
                          THEN None ELSE @,
                ![h].status = BroadcastStatus(answered)]
  BY DEF Broadcast
<1>3. PICK t \in Txs, k \in Keys : t = sends[h].tx /\ k = sends[h].key
  BY <1>0, <1>1 DEF SendInv, Sends
<1>4. txs[t].key = k /\ txs[t].state = "signed"
  BY <1>0, <1>1, <1>3, StoreAssumption DEF SendInv
<1>5. /\ txs' \in [Txs -> Transactions]
      /\ \A u \in Txs : u # t => txs'[u] = txs[u]
      /\ txs'[t].state = answered /\ txs'[t].key = k
      /\ txs'[t].lastValid = txs[t].lastValid /\ txs'[t].request = txs[t].request
  BY <1>0, <1>2, <1>3, <1>4 DEF TypeOK, Transactions, TxStates
<1>6. /\ sends' \in [Handlers -> Sends]
      /\ \A g \in Handlers : g # h => sends'[g] = sends[g]
      /\ sends'[h].key = k /\ sends'[h].request = sends[h].request
      /\ sends'[h].phase \in {"await", "finish"}
      /\ sends'[h].phase = "await" => answered = "mempool"
      /\ sends'[h].tx = t \/ (sends'[h].tx = None /\ answered = "refused")
      /\ sends'[h].status = BroadcastStatus(answered)
  BY <1>0, <1>1, <1>2, <1>3 DEF TypeOK, Sends, AfterBroadcast, BroadcastStatus, Statuses
<1>7. \A l \in Keys : TxsOf(l)' = TxsOf(l) /\ TxsOf(l) \subseteq Txs
  BY <1>4, <1>5 DEF TxsOf
<1>8. \A u \in Txs : /\ Effective(u)' => Effective(u)
                     /\ Expires(u)' <=> Expires(u)
                     /\ txs'[u].key = txs[u].key /\ txs'[u].lastValid = txs[u].lastValid
  BY <1>1, <1>4, <1>5 DEF Effective, Expired, Expires
<1>9. k \notin forgotten => TxsOf(k) \subseteq {t}
  <2>1. t \in TxsOf(k)
    BY <1>4 DEF TxsOf
  <2> QED BY <2>1 DEF IInv, OneTransactionPerKey
<1>10. TypeOK'
  BY <1>0, <1>1, <1>5, <1>6 DEF TypeOK
<1>11. \A u \in Txs : TxInv(u)'
  BY <1>1, <1>4, <1>5, <1>8 DEF IInv, TxInv
<1>12. \A l \in Keys : RecordInv(l)'
  BY <1>0, <1>1, <1>4, <1>5, <1>7, <1>8 DEF IInv, RecordInv, TypeOK, Operations
<1>13. ASSUME NEW g \in Handlers PROVE SendInv(g)'
  <2>1. SendInv(g) /\ Apart(h, g) /\ sends[g].tx \in Txs \cup {None}
    BY <1>0 DEF IInv, TypeOK, Sends
  <2>2. CASE g = h
    BY <1>0, <1>1, <1>3, <1>5, <1>6, <2>2 DEF SendInv, BroadcastStatus
  <2>3. CASE g # h
    BY <1>3, <1>5, <1>6, <2>1, <2>3, StoreAssumption DEF SendInv, Apart
  <2> QED BY <2>2, <2>3
<1>14. ASSUME NEW g \in Handlers PROVE ReservedInv(g)'
  <2>1. ReservedInv(g) /\ SendInv(g) /\ sends[g].tx \in Txs \cup {None}
    BY <1>0 DEF IInv, TypeOK, Sends
  <2>2. CASE g = h
    BY <1>0, <1>1, <1>3, <1>5, <1>6, <1>7, <1>9, <2>2 DEF ReservedInv, BroadcastStatus
  <2>3. CASE g # h
    <3>1. sends[g].phase # "idle" => sends[g].key \in Keys
      BY <2>1 DEF SendInv
    <3>2. \A u \in Txs : txs[u].state \in {"refused", "reverted"} => txs'[u].state = txs[u].state
      BY <1>4, <1>5
    <3> QED BY <1>1, <1>6, <1>7, <1>8, <2>1, <2>3, <3>1, <3>2 DEF ReservedInv
  <2> QED BY <2>2, <2>3
<1>15. ASSUME NEW f \in Handlers, NEW g \in Handlers PROVE Apart(f, g)'
  BY <1>1, <1>3, <1>6 DEF IInv, Apart
<1>16. \A p \in Pollers : PollInv(p)'
  BY <1>0, <1>1, <1>4, <1>5, <1>8 DEF IInv, PollInv, TypeOK, Polls
<1>17. OneTransactionPerKey' /\ SentIsRecorded'
  BY <1>1, <1>4, <1>5, <1>7, <1>8 DEF IInv, OneTransactionPerKey, SentIsRecorded
<1> QED BY <1>10, <1>11, <1>12, <1>13, <1>14, <1>15, <1>16, <1>17 DEF IInv

\* The handler writes the outcome: true of the one transaction of its key, even
\* when a status request wrote before it.
LEMMA FinishIInv ==
    ASSUME IInv, NEW h \in Handlers, Finish(h)
    PROVE  IInv'
<1>0. TypeOK /\ SendInv(h) /\ ReservedInv(h) /\ sends[h] \in Sends
  BY DEF IInv, TypeOK
<1>1. /\ UNCHANGED <<clock, polls, book, txs, forgotten>>
      /\ sends' = [sends EXCEPT ![h] = NoSend] /\ sends[h].phase = "finish"
  BY DEF Finish
<1>2. PICK k \in Keys, t \in Txs \cup {None}, status \in Statuses :
         k = sends[h].key /\ t = sends[h].tx /\ status = sends[h].status
  BY <1>0, <1>1 DEF SendInv, Sends
<1>3. /\ t # None => txs[t].key = k /\ txs[t].state \notin {"new", "withheld"}
      /\ status # "building"
      /\ status = "confirmed" => t # None /\ txs[t].state = "landed"
  BY <1>0, <1>1, <1>2 DEF SendInv
<1>4. k \notin forgotten =>
        /\ ops[k] # None
        /\ t # None => ops[k].lastValid = txs[t].lastValid
        /\ status = "failed" => \A u \in TxsOf(k) : txs[u].state \in {"refused", "reverted"}
  BY <1>0, <1>1, <1>2 DEF ReservedInv
<1>5. /\ \A l \in Keys : TxsOf(l)' = TxsOf(l) /\ TxsOf(l) \subseteq Txs
      /\ t # None => t \in TxsOf(k)
  BY <1>1, <1>3 DEF TxsOf
<1>6. t # None /\ k \notin forgotten => TxsOf(k) \subseteq {t}
  BY <1>5 DEF IInv, OneTransactionPerKey
<1> DEFINE New == Updated(ops[k], t, status, 0, clock)
<1>7. ASSUME ops[k] # None
      PROVE  /\ ops[k] \in Operations /\ New \in Operations /\ New # None
             /\ New.txHash = (IF t = None THEN ops[k].txHash ELSE t)
             /\ New.lastValid = ops[k].lastValid /\ New.status = status
  <2>1. ops[k] \in Operations
    BY <1>0, <1>7 DEF TypeOK
  <2>2. New \in Operations
    BY <1>0, <2>1 DEF Updated, KeptHash, Operations, TypeOK
  <2>3. /\ New.txHash = (IF t = None THEN ops[k].txHash ELSE t)
        /\ New.lastValid = ops[k].lastValid /\ New.status = status
    BY <2>1 DEF Updated, KeptHash, Operations
  <2> QED BY <2>1, <2>2, <2>3, SendAssumption
<1>8. UNCHANGED ops \/ (ops[k] # None /\ ops' = [ops EXCEPT ![k] = New])
  BY <1>2 DEF Finish, CanUpdate, Written, OpsWith
<1> HIDE DEF New
<1>9. /\ ops' \in [Keys -> Operations \cup {None}]
      /\ \A l \in Keys : l # k => ops'[l] = ops[l]
      /\ ops'[k] = ops[k] \/ (ops[k] # None /\ ops'[k] = New)
  BY <1>0, <1>7, <1>8 DEF TypeOK
<1>10. /\ sends' \in [Handlers -> Sends]
       /\ \A g \in Handlers : g # h => sends'[g] = sends[g]
       /\ sends'[h].phase = "idle" /\ sends'[h].tx = None
  BY <1>0, <1>1 DEF TypeOK, NoSend, Sends, Statuses
<1>11. \A u \in Txs : TxInv(u)' /\ (Effective(u)' <=> Effective(u)) /\ (Expires(u)' <=> Expires(u))
  BY <1>1 DEF IInv, TxInv, Effective, Expired, Expires
<1>12. TypeOK'
  BY <1>0, <1>1, <1>9, <1>10 DEF TypeOK
<1>13. ASSUME NEW l \in Keys PROVE RecordInv(l)'
  <2>1. RecordInv(l)
    BY DEF IInv
  <2>2. CASE ops'[l] = ops[l]
    BY <1>1, <1>5, <1>11, <2>1, <2>2 DEF RecordInv
  <2>3. CASE l = k /\ ops[k] # None /\ ops'[k] = New
    <3>1. status = "failed" /\ k \notin forgotten => \A u \in TxsOf(k) : ~Effective(u)
      BY <1>4 DEF Effective
    <3> QED BY <1>1, <1>3, <1>4, <1>5, <1>6, <1>7, <1>11, <2>1, <2>3, <3>1 DEF RecordInv
  <2> QED BY <1>9, <2>2, <2>3
<1>14. \A g \in Handlers : SendInv(g)'
  BY <1>1, <1>10 DEF IInv, SendInv
<1>15. ASSUME NEW g \in Handlers PROVE ReservedInv(g)'
  <2>1. ReservedInv(g) /\ SendInv(g) /\ Apart(g, h)
    BY DEF IInv
  <2>2. CASE g = h
    BY <1>10, <2>2 DEF ReservedInv
  <2>3. CASE g # h
    <3>1. sends[g].phase # "idle" /\ sends[g].key \notin forgotten =>
            sends[g].key \in Keys /\ ops'[sends[g].key] = ops[sends[g].key]
      BY <1>1, <1>2, <1>9, <2>1, <2>3 DEF Apart, SendInv
    <3> QED BY <1>1, <1>5, <1>10, <2>1, <2>3, <3>1 DEF ReservedInv
  <2> QED BY <2>2, <2>3
<1>16. ASSUME NEW f \in Handlers, NEW g \in Handlers PROVE Apart(f, g)'
  BY <1>1, <1>10 DEF IInv, Apart
<1>17. \A p \in Pollers : PollInv(p)'
  BY <1>0, <1>1, <1>11 DEF IInv, PollInv, TypeOK, Polls
<1>18. OneTransactionPerKey'
  BY <1>1, <1>5 DEF IInv, OneTransactionPerKey
<1>19. SentIsRecorded'
  <2>1. ASSUME NEW u \in Txs, txs[u].state \notin {"new", "withheld"}, txs[u].request \notin Evm,
               txs[u].key \notin forgotten
        PROVE  /\ ops'[txs[u].key] # None /\ ops'[txs[u].key].txHash = u
               /\ ops'[txs[u].key].status # "building"
               /\ ops'[txs[u].key].lastValid = txs[u].lastValid
    <3>1. txs[u].key \in Keys /\ u \in TxsOf(txs[u].key)
      BY <1>0, <2>1 DEF TxsOf, IInv, TxInv, TypeOK, Transactions
    <3>2. /\ ops[txs[u].key] # None /\ ops[txs[u].key].txHash = u
          /\ ops[txs[u].key].status # "building" /\ ops[txs[u].key].lastValid = txs[u].lastValid
      BY <2>1 DEF IInv, SentIsRecorded
    <3> QED BY <1>3, <1>6, <1>7, <1>9, <2>1, <3>1, <3>2
  <2> QED BY <1>1, <2>1 DEF SentIsRecorded
<1> QED BY <1>11, <1>12, <1>13, <1>14, <1>15, <1>16, <1>17, <1>18, <1>19 DEF IInv

-----------------------------------------------------------------------------
(* The theorems.                                                           *)

\* Every step preserves the inductive invariant.
LEMMA NextIInv == IInv /\ [Next]_vars => IInv'
<1> SUFFICES ASSUME IInv, [Next]_vars PROVE IInv'
  OBVIOUS
<1>1. ASSUME NEW h \in Handlers, SendStep(h) PROVE IInv'
  BY <1>1, BeginIInv, LocalIInv, RecordAndSignIInv, SignEvmIInv, BroadcastIInv, FinishIInv
     DEF SendStep
<1>2. ASSUME NEW p \in Pollers, PollStart(p) \/ PollProgress(p) PROVE IInv'
  BY <1>2, PollStartIInv, PollAskIInv, PollWriteIInv DEF PollProgress
<1>3. CASE UNCHANGED vars
  BY <1>3, StutterIInv
<1> QED BY <1>1, <1>2, <1>3, NetworkIInv, TickIInv, CrashIInv DEF Next

\* The inductive invariant holds in every reachable state.
LEMMA Inductive == Spec => []IInv
BY InitIInv, NextIInv, PTL DEF Spec

\* The state of SendFlow is well typed.
THEOREM TypeCorrect == Spec => []TypeOK
<1>1. IInv => TypeOK
  BY DEF IInv
<1> QED BY <1>1, Inductive, PTL

\* One key, one transaction: whatever handlers, crashes, lost answers and failed
\* writes do, at most one transaction was ever signed for an idempotency key
\* whose record was not pruned (Store.Begin and the sending handlers).
THEOREM OneIntentOneTransaction == Spec => []OneTransactionPerKey
<1>1. IInv => OneTransactionPerKey
  BY DEF IInv
<1> QED BY <1>1, Inductive, PTL

\* A Tron or Solana transaction that may have left the process is named by its
\* record (recordingTronSigner, recordingMessageSigner).
THEOREM RecordedBeforeSent == Spec => []SentIsRecorded
<1>1. IInv => SentIsRecorded
  BY DEF IInv
<1> QED BY <1>1, Inductive, PTL

\* "failed" on record means that signing again cannot pay twice, "confirmed"
\* that the transaction landed, in every order in which handlers and status
\* requests write (Store.Update, UpdateByTxHash, the expiry of the Solana adapter).
THEOREM TruthOnRecord == Spec => []StatusIsTrue
<1>1. IInv => StatusIsTrue
  BY DEF IInv, RecordInv, StatusIsTrue
<1> QED BY <1>1, Inductive, PTL

\* Only Begin removes records, and only those prune may drop.
LEMMA OnlyPruneDrops ==
    ASSUME IInv, [Next]_vars, NEW k \in Keys, ops[k] # None, ops'[k] = None
    PROVE  k \in droppable(ops, clock)
<1>0. TypeOK
  BY DEF IInv
<1>1. ASSUME NEW h \in Handlers, Begin(h) PROVE k \in droppable(ops, clock)
  <2>1. PICK l \in Keys, r \in Requests, outcome \in Outcomes, D \in PruneChoices(ops, clock) :
           ops' = Written([m \in Keys |-> IF m = l THEN Reserved(r, clock)
                                          ELSE IF m \in D THEN None ELSE ops[m]], outcome)
    BY <1>1 DEF Begin
  <2>2. Reserved(r, clock) # None
    <3>1. Reserved(r, clock) \in Operations
      BY <1>0 DEF Reserved, Operations, Statuses, TypeOK
    <3> QED BY <3>1, SendAssumption
  <2>3. k \in D
    BY <2>1, <2>2 DEF Written
  <2> QED BY <2>3, PruneDrops
<1>2. ASSUME NEW l \in Keys, ops[l] # None, NEW t \in Txs \cup {None}, NEW status \in Statuses,
             NEW n \in Nat, NEW outcome,
             ops' = Written(OpsWith(l, t, status, n), outcome)
      PROVE  FALSE
  <2>1. Updated(ops[l], t, status, n, clock) \in Operations
    BY <1>0, <1>2 DEF Updated, KeptHash, Operations, TypeOK
  <2> QED BY <1>0, <1>2, <2>1, SendAssumption DEF Written, OpsWith, TypeOK
<1>3. ASSUME NEW h \in Handlers, RecordAndSign(h) \/ Finish(h) PROVE FALSE
  <2>1. sends[h] \in Sends /\ sends[h].key \in Keys
    BY <1>0, <1>3 DEF IInv, SendInv, TypeOK, RecordAndSign, Finish
  <2>2. Expiry(sends[h].request) \in Nat
    BY <1>0, SendAssumption DEF Expiry, TypeOK
  <2>3. CASE RecordAndSign(h)
    BY <1>2, <2>1, <2>2, <2>3 DEF RecordAndSign, CanUpdate, RecordedExpiry, Statuses
  <2>4. CASE Finish(h)
    BY <1>2, <2>1, <2>4 DEF Finish, CanUpdate, Sends
  <2> QED BY <1>3, <2>3, <2>4
<1>4. ASSUME NEW p \in Pollers, PollWrite(p) PROVE FALSE
  <2>1. polls[p].status \in Statuses
    BY <1>0 DEF TypeOK, Polls
  <2>2. [ops[k] EXCEPT !.status = polls[p].status, !.updatedAt = clock] \in Operations
    <3>1. ops[k] \in Operations /\ clock \in Nat
      BY <1>0 DEF TypeOK
    <3> QED BY <2>1, <3>1 DEF Operations
  <2>3. PICK l \in Keys : ops' = [ops EXCEPT ![l].status = polls[p].status, ![l].updatedAt = clock]
    BY <1>4 DEF PollWrite, Written, ByTxHash, Recorded
  <2>4. l = k
    BY <1>0, <2>3 DEF TypeOK
  <2> QED BY <1>0, <2>2, <2>3, <2>4, SendAssumption DEF TypeOK
<1> QED
  BY <1>1, <1>3, <1>4 DEF Next, vars, SendStep, BuildFails, SignEvm, Broadcast, AwaitDeployment,
     PollStart, PollProgress, PollFound, PollMissing, PollHeight, PollExpired, PollFails,
     Deliver, Land, Tick, Crash

\* prune forgets a transaction younger than the retention only when its fate is
\* decided (prune, resolved): a status on record that may be dropped is true.
THEOREM OnlyDecidedDropped == Spec => DroppedIsDecided
<1> DEFINE Decided ==
      \A k \in Keys \ forgotten :
        ops[k] # None /\ ops'[k] = None /\ clock - ops[k].updatedAt < Retention =>
          \A t \in TxsOf(k) : txs[t].state = "landed" \/ ~Effective(t)
<1>1. IInv /\ [Next]_vars => [Decided]_vars
  <2> SUFFICES ASSUME IInv, [Next]_vars, NEW k \in Keys \ forgotten, ops[k] # None, ops'[k] = None,
                      clock - ops[k].updatedAt < Retention, NEW t \in TxsOf(k)
               PROVE  txs[t].state = "landed" \/ ~Effective(t)
    OBVIOUS
  <2>1. k \in droppable(ops, clock)
    BY OnlyPruneDrops
  <2>2. clock \in Nat /\ ops[k].updatedAt \in Nat
    BY DEF IInv, TypeOK, Operations
  <2>3. ops[k].status \in {"confirmed", "failed"}
    BY <2>1, <2>2, StoreAssumption DEF droppable, resolved
  <2> QED BY <2>3 DEF IInv, RecordInv
<1> QED BY <1>1, Inductive, PTL DEF Spec, DroppedIsDecided

-----------------------------------------------------------------------------
(* The promise of Intents.                                                 *)

\* The fate of a key that was not pruned is that of its only transaction.
FateOfOne ==
    \A k \in Keys \ forgotten :
        \/ TxsOf(k) = {} /\ Fate(k) = "none"
        \/ \E t \in Txs :
             /\ TxsOf(k) = {t}
             /\ Fate(k) = IF txs[t].state = "landed" THEN "done"
                          ELSE IF Effective(t) THEN "open" ELSE "void"

\* What a client is told is true.
ToldTruly ==
    \A k \in Keys \ forgotten :
        \/ Told(k) = "open"
        \/ Told(k) = "confirmed" /\ Fate(k) = "done"
        \/ Told(k) = "failed" /\ Fate(k) \in {"none", "void"}

LEMMA FateCases == IInv => FateOfOne
<1> SUFFICES ASSUME IInv, NEW k \in Keys \ forgotten, TxsOf(k) # {}
             PROVE  \E t \in Txs : /\ TxsOf(k) = {t}
                                   /\ Fate(k) = IF txs[t].state = "landed" THEN "done"
                                                ELSE IF Effective(t) THEN "open" ELSE "void"
  BY DEF Fate, FateOfOne
<1>1. PICK t \in TxsOf(k) : TRUE
  OBVIOUS
<1>2. t \in Txs /\ \A u, v \in TxsOf(k) : u = v
  BY <1>1 DEF TxsOf, IInv, OneTransactionPerKey
<1>3. TxsOf(k) = {t}
  BY <1>1, <1>2
<1>4. Fate(k) = IF txs[t].state = "landed" THEN "done" ELSE IF Effective(t) THEN "open" ELSE "void"
  BY <1>3 DEF Fate
<1> QED BY <1>2, <1>3, <1>4

LEMMA ToldCases == IInv => ToldTruly
<1> SUFFICES ASSUME IInv, NEW k \in Keys \ forgotten, Told(k) # "open"
             PROVE  \/ Told(k) = "confirmed" /\ Fate(k) = "done"
                    \/ Told(k) = "failed" /\ Fate(k) \in {"none", "void"}
  BY DEF ToldTruly
<1>1. ops[k] # None /\ ops[k].status \in {"confirmed", "failed"} /\ Told(k) = ops[k].status /\ RecordInv(k)
  BY DEF Told, resolved, IInv
<1>2. CASE ops[k].status = "confirmed"
  <2>1. PICK t : t = ops[k].txHash
    OBVIOUS
  <2>2. t \in Txs /\ txs[t].state = "landed" /\ txs[t].key = k
    BY <1>1, <1>2, <2>1 DEF RecordInv, IInv, TypeOK, Operations
  <2>3. t \in TxsOf(k)
    BY <2>2 DEF TxsOf
  <2>4. Fate(k) = "done"
    BY <2>2, <2>3, FateCases DEF FateOfOne
  <2> QED BY <1>1, <1>2, <2>4
<1>3. CASE ops[k].status = "failed"
  <2>1. \A t \in TxsOf(k) : ~Effective(t)
    BY <1>1, <1>3 DEF RecordInv
  <2>2. \A t \in TxsOf(k) : txs[t].state # "landed"
    BY <2>1 DEF Effective
  <2>3. Fate(k) \in {"none", "void"}
    BY <2>1, <2>2, FateCases DEF FateOfOne
  <2> QED BY <1>1, <1>3, <2>3
<1> QED BY <1>1, <1>2, <1>3

\* And both hold after the step as well.
LEMMA CasesNext == IInv' => FateOfOne' /\ ToldTruly'
BY FateCases, ToldCases, PTL

\* What a step may make of a key that is not pruned: it is signed for, or it is
\* decided, and neither changes what the client is told.
FateStep(k) ==
    \/ Fate(k)' = Fate(k)
    \/ /\ Fate(k) = "none" /\ Fate(k)' = "open"
       /\ Told(k) = "open" /\ Told(k)' = "open"
    \/ Fate(k) = "open" /\ Fate(k)' \in {"done", "void"} /\ Told(k)' = Told(k)

\* Without news from the chain, nothing changes.
LEMMA FateKept ==
    ASSUME UNCHANGED <<clock, txs>>, NEW k \in Keys \ forgotten', k \notin forgotten
    PROVE  FateStep(k)
<1>1. TxsOf(k)' = TxsOf(k) /\ \A t \in Txs : Effective(t)' <=> Effective(t)
  BY DEF TxsOf, Effective, Expired, Expires
<1>2. TxsOf(k) \subseteq Txs
  BY DEF TxsOf
<1>3. Fate(k)' = Fate(k)
  BY <1>1, <1>2 DEF Fate
<1> QED BY <1>3 DEF FateStep

\* When the transactions stay the same, the chain and the clock only decide
\* what was open.
LEMMA FateDecided ==
    ASSUME IInv, IInv', UNCHANGED <<ops, forgotten>>, NEW k \in Keys \ forgotten, TxsOf(k)' = TxsOf(k),
           \A t \in Txs : /\ txs[t].state = "landed" => txs'[t].state = "landed"
                          /\ Effective(t)' => Effective(t)
    PROVE  FateStep(k)
<1>1. Told(k)' = Told(k)
  BY DEF Told
<1>2. CASE TxsOf(k) = {}
  BY <1>2, FateCases, CasesNext DEF FateOfOne, FateStep
<1>3. CASE TxsOf(k) # {}
  <2>1. PICK t \in Txs : /\ TxsOf(k) = {t}
                         /\ Fate(k) = IF txs[t].state = "landed" THEN "done"
                                      ELSE IF Effective(t) THEN "open" ELSE "void"
    BY <1>3, FateCases DEF FateOfOne
  <2>2. Fate(k)' = (IF txs[t].state = "landed" THEN "done" ELSE IF Effective(t) THEN "open" ELSE "void")'
    BY <2>1, CasesNext DEF FateOfOne
  <2>3. txs'[t].state = "landed" => Effective(t)'
    BY DEF Effective
  <2> QED BY <1>1, <2>1, <2>2, <2>3 DEF FateStep
<1> QED BY <1>2, <1>3

LEMMA TickFate ==
    ASSUME IInv, IInv', Tick, NEW k \in Keys \ forgotten
    PROVE  FateStep(k)
<1>1. UNCHANGED <<ops, txs, forgotten>>
  BY DEF Tick
<1>2. \A t \in Txs : Effective(t)' => Effective(t)
  BY DEF Tick, Effective, Expired, Expires, IInv, TypeOK, Transactions
<1>3. TxsOf(k)' = TxsOf(k)
  BY <1>1 DEF TxsOf
<1> QED BY <1>1, <1>2, <1>3, FateDecided

LEMMA NetworkFate ==
    ASSUME IInv, IInv', NEW t \in Txs, Deliver(t) \/ Land(t), NEW k \in Keys \ forgotten
    PROVE  FateStep(k)
<1>0. TypeOK
  BY DEF IInv
<1>1. UNCHANGED <<clock, ops, forgotten>>
  BY DEF Deliver, Land
<1>2. \A u \in Txs : /\ txs'[u].key = txs[u].key /\ txs'[u].lastValid = txs[u].lastValid
                     /\ u # t => txs'[u] = txs[u]
  BY <1>0 DEF Deliver, Land, TypeOK, Transactions
<1>3. txs[t].state \in {"air", "mempool"} /\ txs'[t].state \in {"mempool", "landed", "reverted"}
  BY <1>0 DEF Deliver, Land, TypeOK, Transactions
<1>4. \A u \in Txs : Effective(u)' => Effective(u)
  BY <1>0, <1>1, <1>2, <1>3 DEF Effective, Expired, Expires, Deliver, Land, TypeOK, Transactions
<1>5. TxsOf(k)' = TxsOf(k)
  BY <1>2, <1>3 DEF TxsOf
<1>6. \A u \in Txs : txs[u].state = "landed" => txs'[u].state = "landed"
  BY <1>2, <1>3
<1> QED BY <1>1, <1>4, <1>5, <1>6, FateDecided

LEMMA BroadcastFate ==
    ASSUME IInv, IInv', NEW h \in Handlers, Broadcast(h), NEW k \in Keys \ forgotten
    PROVE  FateStep(k)
<1>0. TypeOK /\ SendInv(h) /\ sends[h] \in Sends
  BY DEF IInv, TypeOK
<1>1. UNCHANGED <<clock, ops, forgotten>> /\ sends[h].phase = "signed"
  BY DEF Broadcast
<1>2. PICK t \in Txs : t = sends[h].tx
  BY <1>0, <1>1 DEF SendInv, Sends
<1>3. txs[t].state = "signed"
  BY <1>0, <1>1, <1>2, StoreAssumption DEF SendInv
<1>4. PICK answered \in {"mempool", "refused", "air"} : txs' = [txs EXCEPT ![t].state = answered]
  BY <1>2 DEF Broadcast
<1>5. /\ \A u \in Txs : /\ txs'[u].key = txs[u].key /\ txs'[u].lastValid = txs[u].lastValid
                        /\ u # t => txs'[u] = txs[u]
      /\ txs'[t].state \in {"mempool", "refused", "air"}
  BY <1>0, <1>4 DEF TypeOK, Transactions
<1>6. \A u \in Txs : Effective(u)' => Effective(u)
  BY <1>1, <1>3, <1>5 DEF Effective, Expired, Expires
<1>7. TxsOf(k)' = TxsOf(k)
  BY <1>3, <1>5 DEF TxsOf
<1>8. \A u \in Txs : txs[u].state = "landed" => txs'[u].state = "landed"
  BY <1>3, <1>5
<1> QED BY <1>1, <1>6, <1>7, <1>8, FateDecided

\* A key is signed for while it is being built, when nothing was signed for it.
LEMMA SignedFate ==
    ASSUME IInv, IInv', NEW h \in Handlers, sends[h].phase = "building", NEW t \in Txs, txs[t] = NoTx,
           UNCHANGED <<clock, forgotten>>,
           \A u \in Txs : u # t => txs'[u] = txs[u],
           txs'[t].key = sends[h].key, txs'[t].state \in {"signed", "withheld"},
           txs'[t].lastValid \in Nat, txs'[t].lastValid = 0 \/ txs'[t].lastValid >= clock,
           \A l \in Keys : l # sends[h].key => ops'[l] = ops[l],
           ops[sends[h].key] # None => /\ ops'[sends[h].key] # None
                                       /\ \/ ops'[sends[h].key] = ops[sends[h].key]
                                          \/ ops'[sends[h].key].status = "broadcasting",
           NEW k \in Keys \ forgotten
    PROVE  FateStep(k)
<1>0. clock \in Nat
  BY DEF IInv, TypeOK
<1>1. \A l \in Keys : t \notin TxsOf(l)
  BY FreshTx
<1>2. \A u \in Txs : u # t => (Effective(u)' <=> Effective(u))
  BY DEF Effective, Expired, Expires
<1>3. TxsOf(k) \subseteq Txs \ {t}
  BY <1>1 DEF TxsOf
<1>4. CASE k # sends[h].key \/ txs'[t].state = "withheld"
  <2>1. TxsOf(k)' = TxsOf(k)
    BY <1>1, <1>4 DEF TxsOf
  <2>2. Fate(k)' = Fate(k)
    BY <1>2, <1>3, <2>1 DEF Fate
  <2> QED BY <2>2 DEF FateStep
<1>5. CASE k = sends[h].key /\ txs'[t].state = "signed"
  <2>1. /\ ops[k] # None /\ TxsOf(k) = {} /\ ops[k].status = "building"
    BY <1>5 DEF IInv, ReservedInv
  <2>2. TxsOf(k)' = {t}
    BY <1>5, <2>1 DEF TxsOf
  <2>3. Effective(t)'
    BY <1>0, <1>5 DEF Effective, Expired, Expires
  <2>4. Fate(k) = "none" /\ Fate(k)' = "open"
    BY <1>5, <2>1, <2>2, <2>3 DEF Fate
  <2>5. Told(k) = "open"
    BY <2>1 DEF Told, resolved
  <2>6. Told(k)' = "open"
    BY <1>5, <2>1 DEF Told, resolved
  <2> QED BY <2>4, <2>5, <2>6 DEF FateStep
<1> QED BY <1>4, <1>5

LEMMA SignEvmFate ==
    ASSUME IInv, IInv', NEW h \in Handlers, SignEvm(h), NEW k \in Keys \ forgotten
    PROVE  FateStep(k)
<1>0. TypeOK
  BY DEF IInv
<1>1. UNCHANGED <<clock, ops, forgotten>> /\ sends[h].phase = "building"
  BY DEF SignEvm
<1>2. PICK t \in Txs :
         /\ txs[t] = NoTx
         /\ txs' = [txs EXCEPT ![t] = [NoTx EXCEPT !.state = "signed", !.key = sends[h].key,
                                                   !.request = sends[h].request]]
  BY DEF SignEvm
<1>3. /\ \A u \in Txs : u # t => txs'[u] = txs[u]
      /\ txs'[t].key = sends[h].key /\ txs'[t].state = "signed" /\ txs'[t].lastValid = 0
  BY <1>0, <1>2 DEF TypeOK, NoTx
<1> QED BY <1>1, <1>2, <1>3, SignedFate

LEMMA RecordAndSignFate ==
    ASSUME IInv, IInv', NEW h \in Handlers, RecordAndSign(h), NEW k \in Keys \ forgotten
    PROVE  FateStep(k)
<1>0. TypeOK /\ SendInv(h)
  BY DEF IInv
<1>1. UNCHANGED <<clock, forgotten>> /\ sends[h].phase = "building"
  BY DEF RecordAndSign
<1>2. PICK t \in Txs, outcome \in Outcomes :
         /\ txs[t] = NoTx
         /\ ops' = IF CanUpdate(sends[h].key)
                   THEN Written(OpsWith(sends[h].key, t, "broadcasting",
                                        RecordedExpiry(sends[h].request)), outcome)
                   ELSE ops
         /\ txs' = [txs EXCEPT ![t] = [NoTx EXCEPT
                       !.state = IF MaySign(sends[h].key, outcome) THEN "signed" ELSE "withheld",
                       !.key = sends[h].key, !.request = sends[h].request,
                       !.lastValid = Expiry(sends[h].request)]]
  BY DEF RecordAndSign
<1>3. PICK l \in Keys, n \in Nat : /\ l = sends[h].key /\ n = Expiry(sends[h].request)
                                   /\ n = 0 \/ n >= clock
  BY <1>0, <1>1, SendAssumption DEF SendInv, Expiry, TypeOK
<1>4. /\ \A u \in Txs : u # t => txs'[u] = txs[u]
      /\ txs'[t].key = sends[h].key /\ txs'[t].state \in {"signed", "withheld"} /\ txs'[t].lastValid = n
  BY <1>0, <1>2, <1>3 DEF TypeOK, NoTx
<1> DEFINE New == Updated(ops[l], t, "broadcasting", n, clock)
<1>5. ASSUME ops[l] # None
      PROVE  New # None /\ New.status = "broadcasting"
  <2>1. ops[l] \in Operations
    BY <1>0, <1>5 DEF TypeOK
  <2>2. New \in Operations
    BY <1>0, <2>1 DEF Updated, KeptHash, Operations, Statuses, TypeOK
  <2>3. New.status = "broadcasting"
    BY <2>1, StoreAssumption DEF Updated, KeptHash, Operations
  <2> QED BY <2>2, <2>3, SendAssumption
<1>6. UNCHANGED ops \/ (ops[l] # None /\ ops' = [ops EXCEPT ![l] = New])
  BY <1>2, <1>3 DEF CanUpdate, Written, OpsWith, RecordedExpiry
<1> HIDE DEF New
<1>7. /\ \A m \in Keys : m # l => ops'[m] = ops[m]
      /\ ops[l] # None => ops'[l] # None /\ (ops'[l] = ops[l] \/ ops'[l].status = "broadcasting")
  BY <1>0, <1>5, <1>6 DEF TypeOK
<1> QED BY <1>1, <1>2, <1>3, <1>4, <1>7, SignedFate

\* Only Begin prunes, and it does not bring a key back.
LEMMA ForgottenGrows ==
    ASSUME [Next]_vars
    PROVE  forgotten \subseteq forgotten'
<1>1. ASSUME NEW h \in Handlers, Begin(h) PROVE forgotten \subseteq forgotten'
  BY <1>1 DEF Begin
<1> QED
  BY <1>1 DEF Next, vars, SendStep, BuildFails, RecordAndSign, SignEvm, Broadcast, AwaitDeployment,
     Finish, PollStart, PollProgress, PollFound, PollMissing, PollHeight, PollExpired, PollFails,
     PollWrite, Deliver, Land, Tick, Crash

LEMMA StepFate ==
    ASSUME IInv, IInv', [Next]_vars, NEW k \in Keys \ forgotten'
    PROVE  FateStep(k)
<1>1. k \notin forgotten
  BY ForgottenGrows
<1>2. CASE UNCHANGED <<clock, txs>>
  BY <1>1, <1>2, FateKept
<1>3. CASE ~UNCHANGED <<clock, txs>>
  <2>1. \/ Tick
        \/ \E t \in Txs : Deliver(t) \/ Land(t)
        \/ \E h \in Handlers : RecordAndSign(h) \/ SignEvm(h) \/ Broadcast(h)
    BY <1>3 DEF Next, vars, SendStep, Begin, BuildFails, AwaitDeployment, Finish, PollStart,
       PollProgress, PollFound, PollMissing, PollHeight, PollExpired, PollFails, PollWrite, Crash
  <2> QED BY <1>1, <2>1, TickFate, NetworkFate, RecordAndSignFate, SignEvmFate, BroadcastFate
<1> QED BY <1>2, <1>3

\* Every step keeps the promise, key by key.
LEMMA StepKeepsPromise == IInv /\ IInv' /\ [Next]_vars => [Promise!Next]_(Promise!vars)
<1> SUFFICES ASSUME IInv, IInv', [Next]_vars PROVE Promise!Next
  OBVIOUS
<1> DEFINE F == [k \in Keys |-> Fate(k)]
           T == [k \in Keys |-> Told(k)]
<1>1. ASSUME NEW k \in Keys
      PROVE  /\ Fate(k)' \in Promise!Fates /\ Told(k)' \in Promise!Tellings
             /\ Promise!Sign(k) \/ Promise!TakeEffect(k) \/ Promise!Void(k) \/ Promise!Tell(k)
                \/ Promise!Drop(k) \/ Promise!Becomes(k, F[k])
  <2>0. F[k] = Fate(k) /\ T[k] = Told(k) /\ F'[k] = Fate(k)' /\ T'[k] = Told(k)'
    OBVIOUS
  <2>1. CASE k \in forgotten'
    <3>1. Fate(k)' = "dropped" /\ Told(k)' = "open"
      BY <2>1 DEF Fate, Told
    <3>2. k \in forgotten => Fate(k) = "dropped" /\ Told(k) = "open"
      BY DEF Fate, Told
    <3>3. k \notin forgotten => Fate(k) # "dropped"
      BY FateCases DEF FateOfOne
    <3> QED BY <2>0, <3>1, <3>2, <3>3 DEF Promise!Fates, Promise!Tellings, Promise!Drop, Promise!Becomes
  <2>2. CASE k \notin forgotten'
    <3>1. k \notin forgotten /\ FateStep(k)
      BY <2>2, ForgottenGrows, StepFate
    <3>2. Fate(k)' \in Promise!Fates
      BY <2>2, CasesNext DEF FateOfOne, Promise!Fates
    <3>3. Told(k)' \in Promise!Tellings
      BY <2>2, CasesNext DEF ToldTruly, Promise!Tellings
    <3>4. Fate(k) # "dropped"
      BY <3>1, FateCases DEF FateOfOne
    <3>5. CASE Fate(k)' = Fate(k)
      <4>1. Promise!Tell(k)
        BY <2>0, <2>2, <3>4, <3>5, CasesNext DEF ToldTruly, Promise!Tell
      <4> QED BY <3>2, <3>3, <4>1
    <3>6. CASE Fate(k)' # Fate(k)
      BY <2>0, <3>1, <3>2, <3>3, <3>6
         DEF FateStep, Promise!Sign, Promise!TakeEffect, Promise!Void, Promise!Becomes
    <3> QED BY <3>5, <3>6
  <2> QED BY <2>1, <2>2
<1>2. F' \in [Keys -> Promise!Fates] /\ T' \in [Keys -> Promise!Tellings]
  BY <1>1
<1> QED BY <1>1, <1>2 DEF Promise!Next

\* The handlers, the chain adapters and the status requests implement the
\* promise of Intents: a key is signed for once, what is over stays over, and
\* "failed" is only said of what can no longer take effect (Store.Begin, the
\* recording signers, rejectIncompleteReplay, the expiry of the Solana adapter).
THEOREM PromiseKept == Spec => SendKeepsPromise
<1>1. Init => Promise!Init
  <2> SUFFICES ASSUME Init PROVE Promise!Init
    OBVIOUS
  <2>1. \A k \in Keys : TxsOf(k) = {} /\ ops[k] = None /\ k \notin forgotten
    BY SendAssumption DEF Init, TxsOf, NoTx
  <2>2. \A k \in Keys : Fate(k) = "none" /\ Told(k) = "open"
    BY <2>1 DEF Fate, Told
  <2> QED BY <2>2 DEF Promise!Init
<1> QED BY <1>1, StepKeepsPromise, Inductive, PTL DEF Spec, SendKeepsPromise, Promise!Spec
=============================================================================
