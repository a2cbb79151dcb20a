----------------------------- MODULE HomeFiles -----------------------------
(***************************************************************************)
(* The files of the wallet's home directory beside one another: unlock.json *)
(* and space.json of a space, config.yaml and networks.yaml of the wallet.  *)
(* Each is kept by a component of its own, which reads none of the others'  *)
(* state here (SpaceManager has the calls that touch two of them): one is   *)
(* at work, the others rest, and their interleavings add nothing.           *)
(***************************************************************************)
EXTENDS ThrottleClock, Accounts, HomeSettings

CONSTANT Files   \* of {"attempts", "space", "settings"}

VARIABLE active

homeVars == <<active, throttleVars, accountsVars, settingsVars>>

\* While it rests, one initial state is as good as another.
HomeInit ==
    /\ active \in Files
    /\ ThrottleInit /\ (active # "attempts" => clock = 0)
    /\ AccountsInit /\ (active # "space" => Wallets(disk) = {} /\ seed = TRUE)
    /\ SettingsInit /\ (active # "settings" => networksFile.schema = 2)

AttemptsStep == active = "attempts" /\ ThrottleNext /\ UNCHANGED <<active, accountsVars, settingsVars>>
SpaceStep == active = "space" /\ AccountsNext /\ UNCHANGED <<active, throttleVars, settingsVars>>
SettingsStep == active = "settings" /\ SettingsNext /\ UNCHANGED <<active, throttleVars, accountsVars>>

HomeNext == AttemptsStep \/ SpaceStep \/ SettingsStep

HomeSpec == HomeInit /\ [][HomeNext]_homeVars
=============================================================================
