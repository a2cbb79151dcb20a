------------------------------ MODULE Adapters ------------------------------
(***************************************************************************)
(* The chain adapters beside one another: one of them is at work, the       *)
(* others rest.  They share no state (chain.Registry picks the adapter of a *)
(* network's family), so their interleavings add nothing.                   *)
(***************************************************************************)
EXTENDS EvmSends, SolanaSends, TronSends, TronSwaps

CONSTANT Families   \* of {"evm", "solana", "tron", "sunswap"}

VARIABLE active

adapterVars == <<active, evmVars, solVars, trVars, swVars>>

\* Of a network nobody uses one state is as good as another.
AnyOf(S) == CHOOSE x \in S : TRUE

AdaptersInit ==
    /\ active \in Families
    /\ EvmInit /\ (active # "evm" => evmMarket = AnyOf(Markets) /\ evmGas = AnyOf(GasLevels) /\ evmHeld = AnyOf(Funds))
    /\ SolInit /\ (active # "solana" => solChain = AnyOf(SolChains))
    /\ TronInit /\ (active # "tron" => trTime = 1 /\ trSkew = AnyOf(Skews) /\ trLoans = AnyOf(TronLoans))
    /\ SwapInit
    /\ (active # "sunswap" => swSkew = AnyOf(SwapSkews) /\ swGrant = AnyOf(SwapGrants) /\ swPays["v2"] = AnyOf(Payouts))

EvmStep == active = "evm" /\ EvmNext /\ UNCHANGED <<active, solVars, trVars, swVars>>
SolanaStep == active = "solana" /\ SolNext /\ UNCHANGED <<active, evmVars, trVars, swVars>>
TronStep == active = "tron" /\ TronNext /\ UNCHANGED <<active, evmVars, solVars, swVars>>
SunSwapStep == active = "sunswap" /\ SwapNext /\ UNCHANGED <<active, evmVars, solVars, trVars>>

AdaptersNext == EvmStep \/ SolanaStep \/ TronStep \/ SunSwapStep

\* Every adapter's state keeps its type.
AdaptersTypeOK == EvmTypeOK /\ SolTypeOK /\ TronTypeOK /\ SwapTypeOK

AdaptersSpec == AdaptersInit /\ [][AdaptersNext]_adapterVars
=============================================================================
