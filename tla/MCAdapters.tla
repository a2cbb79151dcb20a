----------------------------- MODULE MCAdapters -----------------------------
(* Adapters on a small instance: two tabs, a few requests, markets that move. *)
EXTENDS Adapters

MCMarkets ==
    {[model |-> "eip1559", base |-> 1, tip |-> 1], [model |-> "eip1559", base |-> 2, tip |-> 0],
     [model |-> "legacy", base |-> 2, tip |-> 0]}
MCFunds == {[native |-> 6, token |-> 2, wrapped |-> 0]}

MCSolRequest(kind, path, amount) == [kind |-> kind, path |-> path, amount |-> amount]
MCSolRequests ==
    {MCSolRequest("send", <<"SOL">>, 2), MCSolRequest("max", <<"SOL">>, 0),
     MCSolRequest("send", <<"a", "to">>, 2), MCSolRequest("max", <<"a", "to">>, 0),
     MCSolRequest("close", <<"SOL", "b">>, 0),
     MCSolRequest("swap", <<"SOL", "a">>, 2), MCSolRequest("swap", <<"a", "SOL">>, 2), MCSolRequest("swap", <<"a", "b">>, 2),
     MCSolRequest("swap", <<"SOL", "b", "a">>, 2), MCSolRequest("swap", <<"a", "SOL", "b">>, 2)}
MCTokens(SOL, a, b, to) ==
    [x \in TokenAccounts |-> CASE x = "SOL" -> SOL [] x = "a" -> a [] x = "b" -> b [] OTHER -> to]
MCSolChains ==
    {[lamports |-> l, token |-> t, rate |-> [pool \in Pools |-> 3], price |-> p, used |-> 2, surplus |-> s] :
       l \in {4, 9, 14}, t \in {MCTokens(None, 4, None, None), MCTokens(0, 4, 0, 0), MCTokens(1, None, None, 0)},
       p \in {0, 6}, s \in {0, 3}}

MCTronRequest(kind, to, amount, resource) == [kind |-> kind, to |-> to, amount |-> amount, resource |-> resource]
MCTronRequests ==
    {MCTronRequest("trx", "friend", 2, "none"), MCTronRequest("trc20", "friend", 2, "none"), MCTronRequest("swap", "me", 2, "none"),
     MCTronRequest("stake", "none", 2, "energy"), MCTronRequest("unstake", "none", 2, "energy"),
     MCTronRequest("delegate", "friend", 3, "energy"), MCTronRequest("delegate", "me", 3, "energy"),
     MCTronRequest("reclaim", "friend", 3, "energy"),
     MCTronRequest("reclaimAll", "friend", 0, "energy"),
     MCTronRequest("withdraw", "none", 0, "none"), MCTronRequest("cancel", "none", 0, "none"), MCTronRequest("deploy", "none", 2, "none")}
MCStakeRates == {[weight |-> 1, limit |-> 2], [weight |-> 2, limit |-> 1], [weight |-> 0, limit |-> 1]}
MCLoan(resource, amount, lock) == [to |-> "friend", resource |-> resource, amount |-> amount, lock |-> lock]
MCTronLoans ==
    {<<MCLoan("energy", 1, 0), MCLoan("bandwidth", 3, 0), MCLoan("energy", 2, 0)>>,
     <<MCLoan("energy", 1, 0), MCLoan("energy", 2, 4), MCLoan("energy", 0, 9)>>}
MCSkews == {-2, 0, 2}

MCSwapRequest(in, protocol, amount, unlimited) ==
    [in |-> in, protocol |-> protocol, amount |-> amount, unlimited |-> unlimited]
MCSwapRequests ==
    {MCSwapRequest("usdt", "v4", 1, FALSE), MCSwapRequest("usdt", "v4", 2, TRUE), MCSwapRequest("trx", "v3", 1, FALSE)}
MCSwapGrants == {[amount |-> 1, expires |-> 2]}
MCSwapSkews == {1}
MCHoldings == [trx |-> 1, usdt |-> 3]

\* Tabs are interchangeable.
MCTabs == Permutations(EvmTabs) \cup Permutations(SwapTabs)
=============================================================================
