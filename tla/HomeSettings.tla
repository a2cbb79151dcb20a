---------------------------- MODULE HomeSettings ----------------------------
(***************************************************************************)
(* config/home.go and the settings handlers: config.yaml and networks.yaml *)
(* under one mutex and one revision, settings pages that send back the     *)
(* revision they were shown, hand edits of config.yaml, and restarts.      *)
(* Addresses, labels and explorer links are one field, "general"; an RPC   *)
(* URL is "https" or "http", a discovery URL "public" or "private".        *)
(***************************************************************************)
EXTENDS Absent, Naturals

CONSTANTS
    Pages,      \* browser tabs
    General,    \* values of the fields that nothing checks
    MinAutoLock, MaxAutoLock, Durations,
    WriteOutcomes,   \* what AtomicWrite may do: "done", "failed", "unsynced"
    MaxSaves, MaxEdits   \* bounds: requests, hand edits

Configs == [general : General, autoLock : Durations, confirm : BOOLEAN,
            enabled : BOOLEAN, url : {None, "public", "private"}, insecure : BOOLEAN]
Overrides == {None, "https", "http"}
NetworkFiles == [schema : {1, 2}, override : Overrides]
Kinds == {"general", "security", "discovery", "put", "delete"}

ASSUME SettingsAssumption ==
    /\ Durations \subseteq Nat /\ {MinAutoLock, MaxAutoLock} \subseteq Durations
    /\ MinAutoLock <= MaxAutoLock
    /\ WriteOutcomes \subseteq {"done", "failed", "unsynced"}
    /\ MaxSaves \in Nat /\ MaxEdits \in Nat /\ General # {}
    /\ None \notin Configs \X NetworkFiles /\ None \notin {"https", "http", "public", "private"}

VARIABLES
    config, networks,   \* HomeManager, in memory
    revision,
    configFile, networksFile,   \* config.yaml; networks.yaml with its schema
    live,       \* the auto-lock the space manager works with
    page,       \* what each tab shows, and its request under way
    saves, edits,
    unsynced,   \* history: some write has failed after the rename
    tightened   \* history: a hand edit has forbidden plain HTTP in config.yaml,
                \* which was neither loaded nor written by the wallet since

settingsFiles == <<configFile, networksFile>>
memory == <<config, networks, revision>>
settingsVars == <<memory, settingsFiles, live, page, saves, edits, unsynced, tightened>>

-----------------------------------------------------------------------------
(* Rules on the values.                                                    *)

ClampAutoLock(d) ==
    IF d < MinAutoLock THEN MinAutoLock ELSE IF d > MaxAutoLock THEN MaxAutoLock ELSE d

\* Checked whether or not discovery is on.
validateDiscoveryURL(c) ==
    /\ c.url = None => ~c.enabled
    /\ c.url = "private" => c.insecure

\* A stored URL that could not be saved is dropped, and discovery with it.
clampDiscovery(c) ==
    IF validateDiscoveryURL(c) THEN c ELSE [c EXCEPT !.enabled = FALSE, !.url = None]

ValidateHomeConfig(c) ==
    c.autoLock >= MinAutoLock /\ c.autoLock <= MaxAutoLock /\ validateDiscoveryURL(c)

validateNetworkOverride(n, insecure) == n = "http" => insecure

unmarshalConfig(c) == clampDiscovery([c EXCEPT !.autoLock = ClampAutoLock(@)])

\* reload accepts the two files.
Loads(cf, nf) ==
    LET c == unmarshalConfig(cf) IN
    ValidateHomeConfig(c) /\ validateNetworkOverride(nf.override, c.insecure)

Marshalled(n) == [schema |-> 2, override |-> n]

\* Mutant: the hash leaves networks.yaml out.
ConfigRevision(c, nf) == <<c, None>>

\* updateRevisionLocked hashes both files as they are or would be written.
Revision(c, nf) == <<c, nf>>

-----------------------------------------------------------------------------
NoPage == [seen |-> None, saw |-> None, phase |-> "shown", kind |-> None, next |-> None]

DefaultHomeConfig ==
    [general |-> CHOOSE g \in General : TRUE, autoLock |-> MinAutoLock, confirm |-> TRUE,
     enabled |-> FALSE, url |-> None, insecure |-> FALSE]

SettingsTypeOK ==
    /\ config \in Configs /\ config.autoLock \in MinAutoLock..MaxAutoLock /\ networks \in Overrides
    /\ configFile \in Configs /\ networksFile \in NetworkFiles
    /\ live \in Durations /\ unsynced \in BOOLEAN /\ tightened \in BOOLEAN
    /\ \A p \in Pages : page[p].phase \in {"shown", "saving", "applying"}
    /\ saves \in 0..MaxSaves /\ edits \in 0..MaxEdits

SettingsInit ==
    /\ config = DefaultHomeConfig /\ configFile = DefaultHomeConfig
    /\ networks = None /\ networksFile \in {[schema |-> s, override |-> None] : s \in {1, 2}}
    /\ revision = Revision(configFile, networksFile)
    /\ live = config.autoLock
    /\ page = [p \in Pages |-> NoPage]
    /\ saves = 0 /\ edits = 0 /\ unsynced = FALSE /\ tightened = FALSE

\* getSettings: the tab shows the settings and keeps the ETag.
getSettings(p) ==
    /\ page[p].phase = "shown"
    /\ page' = [page EXCEPT ![p] = [NoPage EXCEPT !.seen = revision,
                                                  !.saw = <<config, networks>>]]
    /\ UNCHANGED <<memory, settingsFiles, live, saves, edits, unsynced, tightened>>

\* A handler begins: it decodes the request and builds the next value from a
\* snapshot.  A tab that was never shown the settings sends no If-Match.
Begin(p, kind, next) ==
    /\ page[p].phase = "shown" /\ saves < MaxSaves
    /\ saves' = saves + 1
    /\ page' = [page EXCEPT ![p].phase = "saving", ![p].kind = kind, ![p].next = next]
    /\ UNCHANGED <<memory, settingsFiles, live, edits, unsynced, tightened>>

patchGeneral(p) == \E g \in General : Begin(p, "general", [config EXCEPT !.general = g])

\* confirm_sends may be sent back as it is stored, and not otherwise.
MayChangeConfirm(wanted) == wanted = config.confirm

patchSecurity(p) ==
    \E d \in Durations, wanted \in BOOLEAN :
      /\ MayChangeConfirm(wanted)
      /\ Begin(p, "security", [config EXCEPT !.autoLock = d, !.confirm = wanted])

patchDiscovery(p) ==
    \E on \in BOOLEAN, url \in {None, "public", "private"}, insecure \in BOOLEAN :
      Begin(p, "discovery", [config EXCEPT !.enabled = on, !.url = url, !.insecure = insecure])

putNetworkSettings(p) == \E n \in Overrides : Begin(p, "put", n)
deleteNetworkSettings(p) == Begin(p, "delete", None)

\* The checks under m.mu: the revision, if one was sent, and each file against
\* the other.
Matches(p) == page[p].seen \in {None, revision}

\* Mutant: the overrides in force are not looked at.
ConfigAlone(next) == ValidateHomeConfig(next)

MaySaveConfig(next) ==
    ValidateHomeConfig(next) /\ validateNetworkOverride(networks, next.insecure)
MaySaveNetwork(n) == validateNetworkOverride(n, config.insecure)

Refused(p, ok) ==
    /\ ~(Matches(p) /\ ok)
    /\ page' = [page EXCEPT ![p] = NoPage]
    /\ UNCHANGED <<memory, settingsFiles, live, saves, edits, unsynced, tightened>>

\* A write that fails leaves memory alone, and the file too unless it had
\* been renamed already.
Written(outcome) == unsynced' = (unsynced \/ outcome = "unsynced")

SaveConfig(p) ==
    LET next == page[p].next IN
    /\ page[p].phase = "saving" /\ page[p].kind \in {"general", "security", "discovery"}
    /\ \/ Refused(p, MaySaveConfig(next))
       \/ /\ Matches(p) /\ MaySaveConfig(next)
          /\ \E outcome \in WriteOutcomes :
               /\ Written(outcome)
               /\ configFile' = IF outcome = "failed" THEN configFile ELSE next
               /\ tightened' = (tightened /\ outcome = "failed")
               /\ IF outcome = "done"
                  THEN /\ config' = next /\ revision' = Revision(next, Marshalled(networks))
                       /\ page' = [page EXCEPT ![p] =
                            IF page[p].kind # "security" THEN NoPage
                            ELSE [NoPage EXCEPT !.phase = "applying", !.next = next.autoLock]]
                  ELSE UNCHANGED <<config, revision>> /\ page' = [page EXCEPT ![p] = NoPage]
          /\ UNCHANGED <<networks, networksFile, live, saves, edits>>

SaveNetwork(p) ==
    LET next == page[p].next IN
    /\ page[p].phase = "saving" /\ page[p].kind \in {"put", "delete"}
    /\ \/ Refused(p, MaySaveNetwork(next))
       \/ /\ Matches(p) /\ MaySaveNetwork(next)
          /\ \E outcome \in WriteOutcomes :
               /\ Written(outcome)
               /\ networksFile' = IF outcome = "failed" THEN networksFile ELSE Marshalled(next)
               /\ IF outcome = "done"
                  THEN networks' = next /\ revision' = Revision(config, Marshalled(next))
                  ELSE UNCHANGED <<networks, revision>>
          /\ page' = [page EXCEPT ![p] = NoPage]
          /\ UNCHANGED <<config, configFile, live, saves, edits, tightened>>

\* patchSecurity goes on to SetAutoLock with its own value.
SetAutoLock(p) ==
    /\ page[p].phase = "applying"
    /\ live' = page[p].next
    /\ page' = [page EXCEPT ![p] = NoPage]
    /\ UNCHANGED <<memory, settingsFiles, saves, edits, unsynced, tightened>>

-----------------------------------------------------------------------------
\* Somebody edits config.yaml: any value the file can hold.
EditFile ==
    /\ edits < MaxEdits /\ edits' = edits + 1
    /\ configFile' \in Configs
    /\ tightened' = (~configFile'.insecure /\ (tightened \/ configFile.insecure))
    /\ UNCHANGED <<memory, networksFile, live, page, saves, unsynced>>

\* reload.  A file of schema 1 is rewritten on a best-effort basis; the
\* revision is that of the files as read.
Reload ==
    /\ Loads(configFile, networksFile)
    /\ config' = unmarshalConfig(configFile) /\ networks' = networksFile.override
    /\ networksFile' \in {networksFile, Marshalled(networksFile.override)}
    /\ revision' = Revision(configFile, networksFile')
    /\ live' = config'.autoLock
    /\ page' = [p \in Pages |-> [NoPage EXCEPT !.seen = page[p].seen, !.saw = page[p].saw]]
    /\ tightened' = FALSE
    /\ UNCHANGED <<configFile, saves, edits, unsynced>>

SettingsNext ==
    \/ \E p \in Pages :
         \/ getSettings(p) \/ patchGeneral(p) \/ patchSecurity(p) \/ patchDiscovery(p)
         \/ putNetworkSettings(p) \/ deleteNetworkSettings(p)
         \/ SaveConfig(p) \/ SaveNetwork(p) \/ SetAutoLock(p)
    \/ EditFile \/ Reload

SettingsSpec == SettingsInit /\ [][SettingsNext]_settingsVars

-----------------------------------------------------------------------------
(* Properties.                                                             *)

\* A page whose revision still matches shows the settings in force, through
\* saves of either file, clamped hand edits and restarts (SaveConfig,
\* SaveNetwork and reload all recompute the revision).
MatchMeansSame ==
    \A p \in Pages : page[p].seen = revision => page[p].saw = <<config, networks>>

\* The wallet starts from what it or a hand edit left on disk: a value out of
\* range is clamped (unmarshalConfig), and an override saved while plain HTTP
\* was allowed never meets a config.yaml that forbids it, unless the file was
\* made to by hand, or a write reported an error after its rename (SaveConfig
\* and SaveNetwork each check against the other file).
StoredSettingsLoad ==
    ~Loads(configFile, networksFile) =>
        /\ networksFile.override = "http" /\ ~configFile.insecure
        /\ unsynced \/ tightened

=============================================================================
