------------------------------ MODULE SendFlow ------------------------------
(***************************************************************************)
(* How a signed operation goes out and how its record follows it: the      *)
(* handlers of internal/httpapi that reserve an idempotency key, build,    *)
(* sign and broadcast, the Send of the chain adapters, and the status      *)
(* requests that settle a record later.  The chains are external: a        *)
(* broadcast is accepted, refused, or its answer is lost, in which case    *)
(* the transaction may arrive at any later time or never.                  *)
(*                                                                         *)
(* A request belongs to one family.  Tron and Solana handlers write the    *)
(* transaction id into the record before anything leaves the process, an   *)
(* EVM transfer does not.  The clock counts blocks and ages records.       *)
(***************************************************************************)
EXTENDS OperationStore

CONSTANTS
    Evm,          \* requests that are EVM transfers
    Solana,       \* requests whose transaction expires at a block height
    Deploys,      \* Tron deployments, which wait for their receipt
    Handlers,     \* handlers that send, running at the same time
    Pollers,      \* status requests, running at the same time
    Faults,       \* ways a write of operations.json may fail
    Lifetime,     \* blocks for which a Solana transaction can land
    ExpiryMargin, \* expiryMargin (150)
    Lag,          \* blocks by which a node may be behind (128)
    MaxBook,      \* maxExpiryRecords (4096)
    MaxTime       \* bound of the clock

ASSUME SendAssumption ==
    /\ Evm \cup Solana \cup Deploys \subseteq Requests
    /\ Evm \cap Solana = {} /\ Evm \cap Deploys = {} /\ Solana \cap Deploys = {}
    /\ Faults \subseteq {"failed", "unsynced"}
    /\ Lifetime \in Nat \ {0}
    /\ ExpiryMargin \in Nat /\ Lag \in Nat /\ Lag <= ExpiryMargin
    /\ MaxBook \in Nat \ {0}
    /\ MaxTime \in Nat
    /\ None \notin Keys \cup Operations

\* "withheld": its id was recorded or should have been, but nothing was signed.
\* "air": sent, and no node is known to have it.
TxStates == {"new", "withheld", "signed", "air", "mempool", "refused", "landed", "reverted"}
Transactions == [state : TxStates, key : Keys \cup {None}, request : Requests \cup {None},
                 lastValid : Nat, landedAt : Nat]
NoTx == [state |-> "new", key |-> None, request |-> None, lastValid |-> 0, landedAt |-> 0]

\* A handler; status is what it will write at the end.
Sends == [phase : {"idle", "building", "signed", "await", "finish"}, key : Keys \cup {None},
          request : Requests \cup {None}, tx : Txs \cup {None}, status : Statuses]
NoSend == [phase |-> "idle", key |-> None, request |-> None, tx |-> None, status |-> "failed"]

\* A status request: about to ask, told that nobody knows the id, about to ask
\* once more, or with an answer to write down.
Polls == [phase : {"idle", "ask", "missing", "again", "write"}, tx : Txs \cup {None}, status : Statuses]
NoPoll == [phase |-> "idle", tx |-> None, status |-> "pending"]

VARIABLES
    clock,
    ops,        \* operations.json
    sends,      \* the sending handlers
    polls,      \* the status requests
    book,       \* expiryBook: last valid height per transaction, 0 for none
    txs,        \* external: every transaction and where it is
    forgotten   \* history: keys whose record was pruned

vars == <<clock, ops, sends, polls, book, txs, forgotten>>

TypeOK ==
    /\ clock \in Nat
    /\ ops \in [Keys -> Operations \cup {None}]
    /\ sends \in [Handlers -> Sends]
    /\ polls \in [Pollers -> Polls]
    /\ book \in [Txs -> Nat]
    /\ txs \in [Txs -> Transactions]
    /\ forgotten \subseteq Keys

Init ==
    /\ clock = 0
    /\ ops = [k \in Keys |-> None]
    /\ sends = [h \in Handlers |-> NoSend]
    /\ polls = [p \in Pollers |-> NoPoll]
    /\ book = [t \in Txs |-> 0]
    /\ txs = [t \in Txs |-> NoTx]
    /\ forgotten = {}

-----------------------------------------------------------------------------
(* Writing operations.json.                                                *)

Outcomes == {"ok"} \cup Faults

\* The file after a write of `next`: a write that fails at the directory sync
\* is there all the same.
Written(next, outcome) == IF outcome = "failed" THEN ops ELSE next

\* Update reports an error for a key that has no record (it was pruned).
CanUpdate(k) == ops[k] # None

OpsWith(k, txHash, status, lastValid) ==
    [ops EXCEPT ![k] = Updated(@, txHash, status, lastValid, clock)]

\* expiryBook.record, which evicts some entry when the book is full.
BooksWith(t, lastValid) ==
    LET known == {u \in Txs : book[u] # 0}
        with == [book EXCEPT ![t] = lastValid]
    IN  IF t \notin known /\ Cardinality(known) >= MaxBook
        THEN {[with EXCEPT ![u] = 0] : u \in known}
        ELSE {with}

-----------------------------------------------------------------------------
(* The sending handlers.                                                   *)

\* Begin reserves a key only if it has no record.  A key that has one is
\* answered from it (rejectIncompleteReplay) or refused as a conflict, and
\* nothing is built.
Reservable(k) == ops[k] = None

Begin(h) ==
    /\ sends[h] = NoSend
    /\ \E k \in Keys, r \in Requests, outcome \in Outcomes :
         /\ Reservable(k)
         /\ \E D \in PruneChoices(ops, clock) :
              /\ ops' = Written([l \in Keys |-> IF l = k THEN Reserved(r, clock)
                                                ELSE IF l \in D THEN None ELSE ops[l]], outcome)
              /\ forgotten' = IF outcome = "failed" THEN forgotten ELSE forgotten \cup D
         /\ sends' = IF outcome = "ok"
                     THEN [sends EXCEPT ![h] = [NoSend EXCEPT !.phase = "building", !.key = k,
                                                              !.request = r]]
                     ELSE sends
    /\ UNCHANGED <<clock, polls, book, txs>>

\* Anything that goes wrong before the signature: the key is not lent, the
\* node refuses to build, the fee is no longer the approved one.
BuildFails(h) ==
    /\ sends[h].phase = "building"
    /\ sends' = [sends EXCEPT ![h].phase = "finish", ![h].status = "failed"]
    /\ UNCHANGED <<clock, ops, polls, book, txs, forgotten>>

\* The height a transaction signed now expires at; 0 if it does not.
Expiry(r) == IF r \in Solana THEN clock + Lifetime ELSE 0

\* Mutant: the height is left for a later write.
NoExpiry(r) == 0

\* The height the recording signer writes with the id.
RecordedExpiry(r) == Expiry(r)

\* Mutant: the signature does not wait for the record.
SignRegardless(k, outcome) == TRUE

\* The recording signer lets the signature out.
MaySign(k, outcome) == CanUpdate(k) /\ outcome = "ok"

\* Sign, with the recording signer around the key for Tron and Solana: if the
\* id cannot be written down nothing is signed.
RecordAndSign(h) ==
    LET call == sends[h] IN
    /\ call.phase = "building" /\ call.request \notin Evm
    /\ call.request \in Solana => Expiry(call.request) + ExpiryMargin + Lag < MaxTime
    /\ \E t \in Txs, outcome \in Outcomes :
         LET recorded == MaySign(call.key, outcome) IN
         /\ txs[t] = NoTx
         /\ ops' = IF CanUpdate(call.key)
                   THEN Written(OpsWith(call.key, t, "broadcasting", RecordedExpiry(call.request)),
                                outcome)
                   ELSE ops
         /\ txs' = [txs EXCEPT ![t] = [NoTx EXCEPT
                       !.state = IF recorded THEN "signed" ELSE "withheld",
                       !.key = call.key, !.request = call.request,
                       !.lastValid = Expiry(call.request)]]
         /\ sends' = IF recorded
                     THEN [sends EXCEPT ![h].phase = "signed", ![h].tx = t]
                     ELSE [sends EXCEPT ![h].phase = "finish", ![h].status = "failed"]
         /\ book' \in IF recorded /\ call.request \in Solana
                      THEN BooksWith(t, Expiry(call.request)) ELSE {book}
    /\ UNCHANGED <<clock, polls, forgotten>>

\* An EVM transfer is signed without a word to the store.
SignEvm(h) ==
    LET call == sends[h] IN
    /\ call.phase = "building" /\ call.request \in Evm
    /\ \E t \in Txs :
         /\ txs[t] = NoTx
         /\ txs' = [txs EXCEPT ![t] = [NoTx EXCEPT !.state = "signed", !.key = call.key,
                                                   !.request = call.request]]
         /\ sends' = [sends EXCEPT ![h].phase = "signed", ![h].tx = t]
    /\ UNCHANGED <<clock, ops, polls, book, forgotten>>

\* Mutant: every error of a broadcast is a failed one.
ErrorIsFailure(state) == IF state = "mempool" THEN "pending" ELSE "failed"

\* The status a broadcast is classified as: the node took it, turned it down,
\* or did not answer (ErrBroadcastUnknown).
BroadcastStatus(state) ==
    CASE state = "mempool" -> "pending"
      [] state = "refused" -> "failed"
      [] OTHER -> "broadcast_unknown"

\* Mutant: an unanswered broadcast is tried again with a new transaction.
RetriedUnanswered(answered, r) == IF answered = "air" THEN "building" ELSE "finish"

\* Where a handler goes on with the answer; it never builds a second time.
AfterBroadcast(answered, r) ==
    IF answered = "mempool" /\ r \in Deploys THEN "await" ELSE "finish"

\* The transaction is sent once.  A lost answer leaves it in the "air".  The
\* Tron adapter's Send returns no id with a refusal.
Broadcast(h) ==
    LET t == sends[h].tx IN
    /\ sends[h].phase = "signed"
    /\ \E answered \in {"mempool", "refused", "air"} :
         /\ txs' = [txs EXCEPT ![t].state = answered]
         /\ sends' = [sends EXCEPT
                ![h].phase = AfterBroadcast(answered, sends[h].request),
                ![h].tx = IF answered = "refused" /\ sends[h].request \notin Evm \cup Solana
                          THEN None ELSE @,
                ![h].status = BroadcastStatus(answered)]
    /\ UNCHANGED <<clock, ops, polls, book, forgotten>>

\* awaitDeployment: the receipt arrives, or the wait is over without one.
AwaitDeployment(h) ==
    LET t == sends[h].tx IN
    /\ sends[h].phase = "await"
    /\ \E status \in {"pending"} \cup
                     (CASE txs[t].state = "landed" -> {"confirmed"}
                        [] txs[t].state = "reverted" -> {"failed"}
                        [] OTHER -> {}) :
         sends' = [sends EXCEPT ![h].phase = "finish", ![h].status = status]
    /\ UNCHANGED <<clock, ops, polls, book, txs, forgotten>>

\* The handler writes the outcome and returns, whether or not the write works.
Finish(h) ==
    LET call == sends[h] IN
    /\ call.phase = "finish"
    /\ \E outcome \in Outcomes :
         ops' = IF CanUpdate(call.key)
                THEN Written(OpsWith(call.key, call.tx, call.status, 0), outcome) ELSE ops
    /\ sends' = [sends EXCEPT ![h] = NoSend]
    /\ UNCHANGED <<clock, polls, book, txs, forgotten>>

-----------------------------------------------------------------------------
(* External: the network and the chain.                                    *)

Expires(t) == txs[t].lastValid # 0
Expired(t) == Expires(t) /\ clock > txs[t].lastValid

\* A transaction whose broadcast was not answered reaches a node after all.
Deliver(t) ==
    /\ txs[t].state = "air"
    /\ txs' = [txs EXCEPT ![t].state = "mempool"]
    /\ UNCHANGED <<clock, ops, sends, polls, book, forgotten>>

Land(t) ==
    /\ txs[t].state = "mempool" /\ ~Expired(t)
    /\ \E state \in {"landed", "reverted"} :
         txs' = [txs EXCEPT ![t].state = state, ![t].landedAt = clock]
    /\ UNCHANGED <<clock, ops, sends, polls, book, forgotten>>

\* What a node that is up to Lag blocks behind says of t.  A transaction it
\* has seen but that is not voted on yet is reported as pending.
Seen(t, height) == txs[t].state \in {"landed", "reverted"} /\ txs[t].landedAt <= height
Heights == {n \in 0 .. clock : n + Lag >= clock}
Answers(t) ==
    {IF txs[t].state = "landed" THEN "confirmed" ELSE "failed" :
        n \in {m \in Heights : Seen(t, m)}}
    \cup (IF txs[t].state \in {"mempool", "landed", "reverted"} /\ ~Expired(t)
          THEN {"pending"} ELSE {})
MayMiss(t) == \E n \in Heights : ~Seen(t, n)

-----------------------------------------------------------------------------
(* The status request of a transaction.                                    *)

\* The answer is fixed, and a final one is no longer needed in the book.
Decide(p, status) ==
    /\ polls' = [polls EXCEPT ![p].phase = "write", ![p].status = status]
    /\ book' = IF status = "pending" THEN book ELSE [book EXCEPT ![polls[p].tx] = 0]

\* The request comes in for an id that a record names.  restoreExpiry puts the
\* height of the record back into the book.
PollStart(p) ==
    /\ polls[p] = NoPoll
    /\ \E k \in Recorded(ops) :
         /\ ops[k].txHash # None
         /\ polls' = [polls EXCEPT ![p] = [NoPoll EXCEPT !.phase = "ask", !.tx = ops[k].txHash]]
         /\ book' \in IF ops[k].lastValid = 0 THEN {book}
                      ELSE BooksWith(ops[k].txHash, ops[k].lastValid)
    /\ UNCHANGED <<clock, ops, sends, txs, forgotten>>

\* The chain knows the transaction.
PollFound(p) ==
    /\ polls[p].phase \in {"ask", "again"}
    /\ \E status \in Answers(polls[p].tx) : Decide(p, status)
    /\ UNCHANGED <<clock, ops, sends, txs, forgotten>>

\* Mutant: a transaction is given up as soon as its last block is final.
PastExpiryAtOnce(height, lastValid) == height > lastValid

\* The finalized height is far enough past the expiry that a lagging node
\* cannot be the reason the transaction is missing.
PastExpiry(height, lastValid) == height > lastValid + ExpiryMargin

\* It does not.
PollMissing(p) ==
    /\ polls[p].phase = "ask" /\ MayMiss(polls[p].tx)
    /\ polls' = [polls EXCEPT ![p].phase = "missing"]
    /\ UNCHANGED <<clock, ops, sends, book, txs, forgotten>>

\* Without an expiry in the book, or before it, a missing transaction is
\* pending.
PollHeight(p) ==
    LET t == polls[p].tx IN
    /\ polls[p].phase = "missing"
    /\ \/ /\ book[t] = 0
          /\ Decide(p, "pending")
       \/ /\ book[t] # 0
          /\ \E height \in Heights :
               IF PastExpiry(height, book[t])
               THEN polls' = [polls EXCEPT ![p].phase = "again"] /\ UNCHANGED book
               ELSE Decide(p, "pending")
    /\ UNCHANGED <<clock, ops, sends, txs, forgotten>>

\* Asked again after the height: it will never land.
PollExpired(p) ==
    /\ polls[p].phase = "again" /\ MayMiss(polls[p].tx)
    /\ Decide(p, "failed")
    /\ UNCHANGED <<clock, ops, sends, txs, forgotten>>

\* No node answers: the request reports an error and nothing is written.
PollFails(p) ==
    /\ polls[p].phase \in {"ask", "missing", "again"}
    /\ polls' = [polls EXCEPT ![p] = NoPoll]
    /\ UNCHANGED <<clock, ops, sends, book, txs, forgotten>>

\* UpdateByTxHash writes the answer into the record that names the id, if
\* there still is one and it says something else.
PollWrite(p) ==
    LET poll == polls[p] IN
    /\ poll.phase = "write"
    /\ \/ \E k \in ByTxHash(ops, poll.tx), outcome \in Outcomes :
            ops' = IF ops[k].status = poll.status THEN ops
                   ELSE Written([ops EXCEPT ![k].status = poll.status,
                                            ![k].updatedAt = clock], outcome)
       \/ ByTxHash(ops, poll.tx) = {} /\ UNCHANGED ops
    /\ polls' = [polls EXCEPT ![p] = NoPoll]
    /\ UNCHANGED <<clock, sends, book, txs, forgotten>>

-----------------------------------------------------------------------------
Tick ==
    /\ clock < MaxTime
    /\ clock' = clock + 1
    /\ UNCHANGED <<ops, sends, polls, book, txs, forgotten>>

\* The process dies, whatever it was doing, and starts again.
Crash ==
    /\ sends' = [h \in Handlers |-> NoSend]
    /\ polls' = [p \in Pollers |-> NoPoll]
    /\ book' = [t \in Txs |-> 0]
    /\ UNCHANGED <<clock, ops, txs, forgotten>>

SendStep(h) ==
    Begin(h) \/ BuildFails(h) \/ RecordAndSign(h) \/ SignEvm(h) \/ Broadcast(h)
    \/ AwaitDeployment(h) \/ Finish(h)

PollProgress(p) ==
    PollFound(p) \/ PollMissing(p) \/ PollHeight(p) \/ PollExpired(p) \/ PollFails(p)
    \/ PollWrite(p)

Next ==
    \/ \E h \in Handlers : SendStep(h)
    \/ \E p \in Pollers : PollStart(p) \/ PollProgress(p)
    \/ \E t \in Txs : Deliver(t) \/ Land(t)
    \/ Tick \/ Crash

Spec == Init /\ [][Next]_vars

\* The update of a status request reaches the disk.
PollSaved(p) ==
    /\ PollWrite(p)
    /\ \A k \in ByTxHash(ops, polls[p].tx) : ops'[k].status = polls[p].status

\* Time goes on, the client keeps asking for the status (the tracker of the UI
\* does), and now and then the process lives long enough for each of the steps
\* of an answer and the disk takes a write.
Fairness ==
    /\ WF_vars(Tick)
    /\ \A p \in Pollers :
         /\ SF_vars(PollStart(p)) /\ SF_vars(PollFound(p) \/ PollMissing(p))
         /\ SF_vars(PollHeight(p)) /\ SF_vars(PollExpired(p)) /\ SF_vars(PollSaved(p))

FairSpec == Spec /\ Fairness

-----------------------------------------------------------------------------
(* Safety.                                                                 *)

TxsOf(k) == {t \in Txs : txs[t].key = k /\ txs[t].state # "withheld"}

\* t has taken effect or still may.
Effective(t) ==
    \/ txs[t].state = "landed"
    \/ txs[t].state \in {"signed", "air", "mempool"} /\ ~Expired(t)

\* Retries, replays, lost answers and crashes do not make one intent into two
\* transactions: as long as the record of a key was not pruned, at most one
\* transaction was ever signed for it.
OneTransactionPerKey ==
    \A k \in Keys \ forgotten : \A t, u \in TxsOf(k) : t = u

\* A Tron or Solana transaction that may have left the process is named by its
\* record, under a status that does not deny it, whatever crashed or failed to
\* be written (recordingTronSigner, recordingMessageSigner).
SentIsRecorded ==
    \A t \in Txs :
        /\ txs[t].state \notin {"new", "withheld"}
        /\ txs[t].request \notin Evm
        /\ txs[t].key \notin forgotten
        => /\ ops[txs[t].key] # None
           /\ ops[txs[t].key].txHash = t
           /\ ops[txs[t].key].status # "building"
           /\ ops[txs[t].key].lastValid = txs[t].lastValid

\* The outcome on record is the outcome on chain.  "failed" is what tells the
\* user to sign again (rejectIncompleteReplay), so a key in that status has no
\* transaction that took effect or still can: not after a lost answer, not
\* because a lagging node has not seen it, not for any order in which handlers
\* and status requests write.  "confirmed" is said of what landed.
StatusIsTrue ==
    \A k \in Keys : ops[k] # None =>
        /\ ops[k].status = "failed" /\ k \notin forgotten =>
              \A t \in TxsOf(k) : ~Effective(t)
        /\ ops[k].status = "confirmed" =>
              ops[k].txHash # None /\ txs[ops[k].txHash].state = "landed"

\* prune forgets a transaction younger than the retention only when its fate
\* is decided: it landed or can no longer land.
DroppedIsDecided ==
    [][\A k \in Keys \ forgotten :
         ops[k] # None /\ ops'[k] = None /\ clock - ops[k].updatedAt < Retention =>
            \A t \in TxsOf(k) : txs[t].state = "landed" \/ ~Effective(t)]_vars

-----------------------------------------------------------------------------
(* The promise behind all this.                                            *)

\* What became of a key; a second transaction would be a fate of its own.
Fate(k) ==
    IF k \in forgotten THEN "dropped"
    ELSE IF TxsOf(k) = {} THEN "none"
    ELSE IF \E t, u \in TxsOf(k) : t # u THEN "twice"
    ELSE IF \E t \in TxsOf(k) : txs[t].state = "landed" THEN "done"
    ELSE IF \E t \in TxsOf(k) : Effective(t) THEN "open" ELSE "void"

\* What its record says.
Told(k) ==
    IF k \notin forgotten /\ ops[k] # None /\ resolved(ops[k].status) THEN ops[k].status ELSE "open"

Promise == INSTANCE Intents WITH fate <- [k \in Keys |-> Fate(k)], told <- [k \in Keys |-> Told(k)]

\* Handlers, status requests, lost answers, failing writes and crashes keep the
\* promise of Intents: a key is signed for once, what is over stays over, and
\* after "failed" (rejectIncompleteReplay: sign again under a new key) nothing
\* of this key is signed or takes effect any more.
SendKeepsPromise == Promise!Spec

-----------------------------------------------------------------------------
(* Liveness, under FairSpec.                                               *)

\* A recorded Solana transaction does not stay in flight for ever, restarts
\* included: it is confirmed or, once its height is past, failed.
SolanaSettles ==
    \A k \in Keys, t \in Txs :
        ops[k] # None /\ ops[k].txHash = t /\ txs[t].request \in Solana
          ~> ops[k] = None \/ resolved(ops[k].status)
=============================================================================
