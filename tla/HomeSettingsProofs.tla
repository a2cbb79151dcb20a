------------------------- MODULE HomeSettingsProofs -------------------------
(***************************************************************************)
(* Theorems about HomeSettings, for any pages, values, limits of the       *)
(* auto-lock and ways a write may end.                                     *)
(***************************************************************************)
EXTENDS HomeSettings, TLAPS

Revisions == Configs \X NetworkFiles

\* The settings a revision stands for: what reload makes of the two files.
Meaning(rev) == <<unmarshalConfig(rev[1]), rev[2].override>>

PageTypes ==
    [seen : Revisions \cup {None}, saw : (Configs \X Overrides) \cup {None},
     phase : {"shown", "saving", "applying"}, kind : Kinds \cup {None},
     next : Configs \cup Overrides \cup Durations]

Types ==
    /\ config \in Configs /\ networks \in Overrides /\ revision \in Revisions
    /\ configFile \in Configs /\ networksFile \in NetworkFiles
    /\ live \in Durations /\ unsynced \in BOOLEAN /\ tightened \in BOOLEAN
    /\ page \in [Pages -> PageTypes]
    /\ saves \in 0..MaxSaves /\ edits \in 0..MaxEdits

\* A page shows what its revision stands for, and its request carries a value
\* for the file it is about.
PageInv(p) ==
    /\ page[p].seen # None => page[p].saw = Meaning(page[p].seen)
    /\ page[p].phase = "saving" =>
         \/ page[p].kind \in {"general", "security", "discovery"} /\ page[p].next \in Configs
         \/ page[p].kind \in {"put", "delete"} /\ page[p].next \in Overrides
    /\ page[p].phase = "applying" => page[p].next \in Durations

\* What is in memory passes its own checks and is what the revision stands for.
MemoryInv ==
    /\ ValidateHomeConfig(config) /\ validateNetworkOverride(networks, config.insecure)
    /\ Meaning(revision) = <<config, networks>>

\* Unless a write failed after its rename, networks.yaml holds what is in
\* memory, and only a hand edit makes config.yaml forbid the plain HTTP that
\* memory allows.
FilesInv ==
    ~unsynced =>
        /\ networksFile.override = networks
        /\ (config.insecure /\ ~configFile.insecure) => tightened

IInv == Types /\ MemoryInv /\ FilesInv /\ \A p \in Pages : PageInv(p)

-----------------------------------------------------------------------------
(* The rules on the values.                                                *)

\* What reload makes of any config.yaml is valid, and keeps the permission.
LEMMA ClampedIsValid ==
    ASSUME NEW c \in Configs
    PROVE  /\ unmarshalConfig(c) \in Configs /\ ValidateHomeConfig(unmarshalConfig(c))
           /\ unmarshalConfig(c).insecure = c.insecure
<1> DEFINE d == [c EXCEPT !.autoLock = ClampAutoLock(@)]
<1>1. c.autoLock \in Durations /\ c.autoLock \in Nat /\ {MinAutoLock, MaxAutoLock} \subseteq Nat
  BY SettingsAssumption DEF Configs
<1>2. /\ ClampAutoLock(c.autoLock) \in Durations
      /\ ClampAutoLock(c.autoLock) >= MinAutoLock /\ ClampAutoLock(c.autoLock) <= MaxAutoLock
  BY <1>1, SettingsAssumption DEF ClampAutoLock
<1>3. /\ d \in Configs /\ d.autoLock = ClampAutoLock(c.autoLock)
      /\ d.insecure = c.insecure
  BY <1>2 DEF Configs
<1>4. unmarshalConfig(c) = clampDiscovery(d)
  BY DEF unmarshalConfig
<1> HIDE DEF d
<1> DEFINE e == [d EXCEPT !.enabled = FALSE, !.url = None]
<1>5. /\ e \in Configs /\ e.autoLock = d.autoLock /\ e.insecure = d.insecure
      /\ e.enabled = FALSE /\ e.url = None
  BY <1>3 DEF Configs
<1>6. validateDiscoveryURL(e)
  BY <1>5, SettingsAssumption DEF validateDiscoveryURL
<1>7. clampDiscovery(d) = IF validateDiscoveryURL(d) THEN d ELSE e
  BY DEF clampDiscovery
<1> HIDE DEF e
<1> QED BY <1>2, <1>3, <1>4, <1>5, <1>6, <1>7 DEF ValidateHomeConfig

\* A valid configuration is read back as it was written.
LEMMA ValidIsKept ==
    ASSUME NEW c \in Configs, ValidateHomeConfig(c)
    PROVE  unmarshalConfig(c) = c
<1>1. c.autoLock \in Nat /\ {MinAutoLock, MaxAutoLock} \subseteq Nat
  BY SettingsAssumption DEF Configs
<1>2. ClampAutoLock(c.autoLock) = c.autoLock
  BY <1>1 DEF ClampAutoLock, ValidateHomeConfig
<1>3. [c EXCEPT !.autoLock = ClampAutoLock(@)] = c
  BY <1>2 DEF Configs
<1> QED BY <1>3 DEF unmarshalConfig, clampDiscovery, ValidateHomeConfig

\* So the revision that a save computes stands for what was saved.
LEMMA SavedMeaning ==
    ASSUME NEW c \in Configs, ValidateHomeConfig(c), NEW n \in Overrides
    PROVE  /\ Revision(c, Marshalled(n)) \in Revisions
           /\ Meaning(Revision(c, Marshalled(n))) = <<c, n>>
BY ValidIsKept DEF Revision, Revisions, Marshalled, Meaning, NetworkFiles

\* An idle page.
LEMMA NoPageFacts ==
    /\ NoPage \in PageTypes
    /\ NoPage.seen = None /\ NoPage.phase = "shown"
BY DEF NoPage, PageTypes, Overrides

-----------------------------------------------------------------------------
\* The initial states satisfy the inductive invariant.
LEMMA InitIInv == SettingsInit => IInv
<1> SUFFICES ASSUME SettingsInit PROVE IInv
  OBVIOUS
<1> USE SettingsAssumption DEF SettingsInit
<1>1. DefaultHomeConfig \in Configs /\ ValidateHomeConfig(DefaultHomeConfig)
  <2>1. (CHOOSE g \in General : TRUE) \in General
    OBVIOUS
  <2>2. DefaultHomeConfig \in Configs
    BY <2>1 DEF DefaultHomeConfig, Configs
  <2>3. ValidateHomeConfig(DefaultHomeConfig)
    <3>1. MinAutoLock \in Nat /\ MinAutoLock <= MaxAutoLock /\ None # "private"
      OBVIOUS
    <3> QED BY <3>1 DEF DefaultHomeConfig, ValidateHomeConfig, validateDiscoveryURL
  <2> QED BY <2>2, <2>3
<1>2. networksFile \in NetworkFiles /\ networksFile.override = None /\ None \in Overrides
  BY DEF NetworkFiles, Overrides
<1>3. revision \in Revisions /\ Meaning(revision) = <<config, networks>>
  BY <1>1, <1>2, ValidIsKept DEF Revision, Revisions, Meaning
<1>4. Types
  <2>1. live \in Durations
    BY DEF DefaultHomeConfig
  <2>2. page \in [Pages -> PageTypes]
    BY NoPageFacts
  <2>3. saves \in 0..MaxSaves /\ edits \in 0..MaxEdits
    OBVIOUS
  <2>4. unsynced \in BOOLEAN /\ tightened \in BOOLEAN
    BY Zenon
  <2> QED BY <1>1, <1>2, <1>3, <2>1, <2>2, <2>3, <2>4 DEF Types
<1>5. MemoryInv
  BY <1>1, <1>3 DEF MemoryInv, validateNetworkOverride
<1>6. FilesInv
  BY <1>2 DEF FilesInv
<1>7. \A p \in Pages : PageInv(p)
  BY NoPageFacts DEF PageInv
<1> QED BY <1>4, <1>5, <1>6, <1>7 DEF IInv

\* A step of one page that leaves the settings alone.
LEMMA PageIInv ==
    ASSUME IInv, UNCHANGED <<memory, settingsFiles, unsynced, tightened>>, live' \in Durations,
           saves' \in 0..MaxSaves, edits' \in 0..MaxEdits, NEW p \in Pages, NEW new \in PageTypes,
           page' = [page EXCEPT ![p] = new], PageInv(p)'
    PROVE  IInv'
<1>1. page' \in [Pages -> PageTypes] /\ \A q \in Pages : q # p => page'[q] = page[q]
  BY DEF IInv, Types
<1>2. Types' /\ MemoryInv' /\ FilesInv'
  BY <1>1 DEF IInv, Types, MemoryInv, FilesInv, memory, settingsFiles
<1>3. \A q \in Pages : PageInv(q)'
  BY <1>1 DEF IInv, PageInv
<1> QED BY <1>2, <1>3 DEF IInv

\* A page is shown what is in force.
LEMMA GetIInv ==
    ASSUME IInv, NEW p \in Pages, getSettings(p)
    PROVE  IInv'
<1> DEFINE new == [NoPage EXCEPT !.seen = revision, !.saw = <<config, networks>>]
<1>1. /\ new \in PageTypes /\ new.seen = revision /\ new.saw = <<config, networks>>
      /\ new.phase = "shown"
  BY DEF NoPage, PageTypes, Overrides, IInv, Types
<1>2. page' = [page EXCEPT ![p] = new] /\ UNCHANGED <<memory, settingsFiles, live, saves, edits, unsynced, tightened>>
  BY DEF getSettings
<1> HIDE DEF new
<1>3. page'[p] = new
  BY <1>2 DEF IInv, Types
<1>4. PageInv(p)'
  BY <1>1, <1>3 DEF PageInv, IInv, MemoryInv
<1> QED BY <1>1, <1>2, <1>4, PageIInv DEF IInv, Types

\* A request is built from what is in memory.
LEMMA BeginIInv ==
    ASSUME IInv, NEW p \in Pages, NEW kind \in Kinds, NEW next,
           \/ kind \in {"general", "security", "discovery"} /\ next \in Configs
           \/ kind \in {"put", "delete"} /\ next \in Overrides,
           Begin(p, kind, next)
    PROVE  IInv'
<1> DEFINE new == [page[p] EXCEPT !.phase = "saving", !.kind = kind, !.next = next]
<1>0. page[p] \in PageTypes /\ page \in [Pages -> PageTypes]
  BY DEF IInv, Types
<1>1. /\ new \in PageTypes /\ new.seen = page[p].seen /\ new.saw = page[p].saw
      /\ new.phase = "saving" /\ new.kind = kind /\ new.next = next
  BY <1>0 DEF PageTypes
<1>2. /\ page' = [page EXCEPT ![p] = new]
      /\ UNCHANGED <<memory, settingsFiles, live, edits, unsynced, tightened>>
  BY <1>0 DEF Begin
<1> HIDE DEF new
<1>3. page'[p] = new
  BY <1>0, <1>2
<1>4. PageInv(p)'
  BY <1>1, <1>3 DEF PageInv, IInv
<1>5. saves' \in 0..MaxSaves
  BY SettingsAssumption DEF Begin, IInv, Types
<1> QED BY <1>1, <1>2, <1>4, <1>5, PageIInv DEF IInv, Types

\* The five handlers.
LEMMA HandlersIInv ==
    ASSUME IInv, NEW p \in Pages,
           \/ patchGeneral(p) \/ patchSecurity(p) \/ patchDiscovery(p)
           \/ putNetworkSettings(p) \/ deleteNetworkSettings(p)
    PROVE  IInv'
<1>0. config \in Configs
  BY DEF IInv, Types
<1>1. CASE patchGeneral(p)
  <2>1. \A g \in General : [config EXCEPT !.general = g] \in Configs
    BY <1>0 DEF Configs
  <2> QED BY <1>1, <2>1, BeginIInv DEF patchGeneral, Kinds
<1>2. CASE patchSecurity(p)
  <2>1. \A d \in Durations, wanted \in BOOLEAN :
           [config EXCEPT !.autoLock = d, !.confirm = wanted] \in Configs
    BY <1>0 DEF Configs
  <2> QED BY <1>2, <2>1, BeginIInv DEF patchSecurity, Kinds
<1>3. CASE patchDiscovery(p)
  <2>1. \A on \in BOOLEAN, url \in {None, "public", "private"}, insecure \in BOOLEAN :
           [config EXCEPT !.enabled = on, !.url = url, !.insecure = insecure] \in Configs
    BY <1>0 DEF Configs
  <2> QED BY <1>3, <2>1, BeginIInv DEF patchDiscovery, Kinds
<1>4. CASE putNetworkSettings(p)
  BY <1>4, BeginIInv DEF putNetworkSettings, Kinds
<1>5. CASE deleteNetworkSettings(p)
  BY <1>5, BeginIInv DEF deleteNetworkSettings, Kinds, Overrides
<1> QED BY <1>1, <1>2, <1>3, <1>4, <1>5

\* A request ends without a change, or its auto-lock is applied.
LEMMA EndIInv ==
    ASSUME IInv, NEW p \in Pages, UNCHANGED <<memory, settingsFiles, saves, edits, unsynced, tightened>>,
           live' \in Durations, page' = [page EXCEPT ![p] = NoPage]
    PROVE  IInv'
<1>1. page'[p] = NoPage
  BY DEF IInv, Types
<1>2. PageInv(p)'
  BY <1>1, NoPageFacts DEF PageInv
<1> QED BY <1>2, NoPageFacts, PageIInv DEF IInv, Types

\* SaveConfig: what is written passed the checks against the other file.
LEMMA SaveConfigIInv ==
    ASSUME IInv, NEW p \in Pages, SaveConfig(p)
    PROVE  IInv'
<1>0. Types /\ MemoryInv /\ FilesInv /\ PageInv(p) /\ page \in [Pages -> PageTypes]
  BY DEF IInv, Types
<1> DEFINE next == page[p].next
<1>1. next \in Configs /\ page[p].phase = "saving"
  BY <1>0 DEF SaveConfig, PageInv
<1> HIDE DEF next
<1>2. CASE Refused(p, MaySaveConfig(page[p].next))
  BY <1>0, <1>2, EndIInv DEF Refused, Types
<1>3. CASE ~Refused(p, MaySaveConfig(page[p].next))
  <2> DEFINE new == IF page[p].kind # "security" THEN NoPage
                    ELSE [NoPage EXCEPT !.phase = "applying", !.next = next.autoLock]
  <2>1. PICK outcome \in WriteOutcomes :
           /\ unsynced' = (unsynced \/ outcome = "unsynced")
           /\ configFile' = IF outcome = "failed" THEN configFile ELSE next
           /\ tightened' = (tightened /\ outcome = "failed")
           /\ IF outcome = "done"
              THEN /\ config' = next /\ revision' = Revision(next, Marshalled(networks))
                   /\ page' = [page EXCEPT ![p] = new]
              ELSE UNCHANGED <<config, revision>> /\ page' = [page EXCEPT ![p] = NoPage]
    BY <1>3 DEF SaveConfig, Written, next
  <2>2. MaySaveConfig(next) /\ UNCHANGED <<networks, networksFile, live, saves, edits>>
    BY <1>3 DEF SaveConfig, next
  <2>3. /\ new \in PageTypes /\ new.seen = None /\ new.phase \in {"shown", "applying"}
        /\ new.phase = "applying" => new.next \in Durations
    <3>1. next.autoLock \in Durations
      BY <1>1 DEF Configs
    <3> QED BY <3>1, NoPageFacts DEF NoPage, PageTypes
  <2> HIDE DEF new
  <2>4. /\ page' \in [Pages -> PageTypes] /\ \A q \in Pages : q # p => page'[q] = page[q]
        /\ page'[p] = new \/ page'[p] = NoPage
    BY <1>0, <2>1, <2>3, NoPageFacts
  <2>5. PageInv(p)'
    BY <2>3, <2>4, NoPageFacts DEF PageInv
  <2>6. \A q \in Pages : PageInv(q)'
    BY <2>4, <2>5 DEF PageInv, IInv
  <2>7. /\ Revision(next, Marshalled(networks)) \in Revisions
        /\ Meaning(Revision(next, Marshalled(networks))) = <<next, networks>>
    BY <1>0, <1>1, <2>2, SavedMeaning DEF MaySaveConfig, Types
  <2>8. Types'
    BY <1>0, <1>1, <2>1, <2>2, <2>4, <2>7 DEF Types
  <2>9. MemoryInv'
    BY <1>0, <2>1, <2>2, <2>7 DEF MemoryInv, MaySaveConfig
  <2>10. FilesInv'
    <3>1. CASE outcome = "unsynced"
      BY <2>1, <3>1 DEF FilesInv
    <3>2. CASE outcome = "done"
      BY <1>0, <2>1, <2>2, <3>2 DEF FilesInv
    <3>3. CASE outcome = "failed"
      BY <1>0, <2>1, <2>2, <3>3 DEF FilesInv
    <3> QED BY <3>1, <3>2, <3>3, SettingsAssumption
  <2> QED BY <2>6, <2>8, <2>9, <2>10 DEF IInv
<1> QED BY <1>2, <1>3

\* SaveNetwork, likewise.
LEMMA SaveNetworkIInv ==
    ASSUME IInv, NEW p \in Pages, SaveNetwork(p)
    PROVE  IInv'
<1>0. Types /\ MemoryInv /\ FilesInv /\ PageInv(p) /\ page \in [Pages -> PageTypes]
  BY DEF IInv, Types
<1> DEFINE next == page[p].next
<1>1. next \in Overrides /\ page[p].phase = "saving"
  BY <1>0 DEF SaveNetwork, PageInv
<1> HIDE DEF next
<1>2. CASE Refused(p, MaySaveNetwork(page[p].next))
  BY <1>0, <1>2, EndIInv DEF Refused, Types
<1>3. CASE ~Refused(p, MaySaveNetwork(page[p].next))
  <2>1. PICK outcome \in WriteOutcomes :
           /\ unsynced' = (unsynced \/ outcome = "unsynced")
           /\ networksFile' = IF outcome = "failed" THEN networksFile ELSE Marshalled(next)
           /\ IF outcome = "done"
              THEN networks' = next /\ revision' = Revision(config, Marshalled(next))
              ELSE UNCHANGED <<networks, revision>>
    BY <1>3 DEF SaveNetwork, Written, next
  <2>2. /\ MaySaveNetwork(next) /\ UNCHANGED <<config, configFile, live, saves, edits, tightened>>
        /\ page' = [page EXCEPT ![p] = NoPage]
    BY <1>3 DEF SaveNetwork, next
  <2>4. /\ page' \in [Pages -> PageTypes] /\ \A q \in Pages : q # p => page'[q] = page[q]
        /\ page'[p] = NoPage
    BY <1>0, <2>2, NoPageFacts
  <2>5. \A q \in Pages : PageInv(q)'
    BY <2>4, NoPageFacts DEF PageInv, IInv
  <2>6. /\ Revision(config, Marshalled(next)) \in Revisions
        /\ Meaning(Revision(config, Marshalled(next))) = <<config, next>>
    BY <1>0, <1>1, SavedMeaning DEF MemoryInv, Types
  <2>7. Marshalled(next) \in NetworkFiles /\ Marshalled(next).override = next
    BY <1>1 DEF Marshalled, NetworkFiles
  <2>8. Types'
    BY <1>0, <1>1, <2>1, <2>2, <2>4, <2>6, <2>7 DEF Types
  <2>9. MemoryInv'
    BY <1>0, <2>1, <2>2, <2>6 DEF MemoryInv, MaySaveNetwork
  <2>10. FilesInv'
    BY <1>0, <2>1, <2>2, <2>7, SettingsAssumption DEF FilesInv
  <2> QED BY <2>5, <2>8, <2>9, <2>10 DEF IInv
<1> QED BY <1>2, <1>3

\* A hand edit of config.yaml is seen by nobody before a restart.
LEMMA EditIInv ==
    ASSUME IInv, EditFile
    PROVE  IInv'
<1>0. Types /\ MemoryInv /\ FilesInv
  BY DEF IInv
<1>1. /\ configFile' \in Configs
      /\ tightened' = (~configFile'.insecure /\ (tightened \/ configFile.insecure))
      /\ UNCHANGED <<memory, networksFile, live, page, saves, unsynced>>
      /\ edits' \in 0..MaxEdits
  BY <1>0, SettingsAssumption DEF EditFile, Types
<1>2. tightened' \in BOOLEAN
  BY <1>1, Zenon
<1>3. Types' /\ MemoryInv'
  BY <1>0, <1>1, <1>2 DEF Types, MemoryInv, memory
<1>4. FilesInv'
  BY <1>0, <1>1 DEF FilesInv, memory
<1>5. \A p \in Pages : PageInv(p)'
  BY <1>1 DEF IInv, PageInv
<1> QED BY <1>3, <1>4, <1>5 DEF IInv

\* reload: the revision stands for what it made of the files.
LEMMA RestartIInv ==
    ASSUME IInv, Reload
    PROVE  IInv'
<1>0. Types /\ FilesInv /\ \A p \in Pages : PageInv(p)
  BY DEF IInv
<1>1. /\ unmarshalConfig(configFile) \in Configs
      /\ ValidateHomeConfig(unmarshalConfig(configFile))
      /\ unmarshalConfig(configFile).insecure = configFile.insecure
  BY <1>0, ClampedIsValid DEF Types
<1>2. networksFile' \in NetworkFiles /\ networksFile'.override = networksFile.override
      /\ networksFile.override \in Overrides
  <2>1. networksFile \in NetworkFiles /\ networksFile.override \in Overrides
    BY <1>0 DEF Types, NetworkFiles
  <2>2. \A n \in Overrides : Marshalled(n) \in NetworkFiles /\ Marshalled(n).override = n
    BY DEF Marshalled, NetworkFiles
  <2> QED BY <2>1, <2>2 DEF Reload
<1>3. /\ config' = unmarshalConfig(configFile) /\ networks' = networksFile.override
      /\ revision' = <<configFile, networksFile'>> /\ live' = config'.autoLock
      /\ UNCHANGED <<configFile, saves, edits, unsynced>> /\ tightened' = FALSE
      /\ validateNetworkOverride(networks', config'.insecure)
  BY DEF Reload, Revision, Loads
<1>4. revision' \in Revisions /\ Meaning(revision') = <<config', networks'>>
  BY <1>0, <1>2, <1>3 DEF Types, Revisions, Meaning
<1>5. ASSUME NEW p \in Pages
      PROVE  page'[p] \in PageTypes /\ PageInv(p)'
  <2>1. page'[p] = [NoPage EXCEPT !.seen = page[p].seen, !.saw = page[p].saw]
    BY DEF Reload
  <2>2. page[p] \in PageTypes
    BY <1>0 DEF Types
  <2>3. /\ page'[p] \in PageTypes /\ page'[p].seen = page[p].seen /\ page'[p].saw = page[p].saw
        /\ page'[p].phase = "shown"
    BY <2>1, <2>2 DEF NoPage, PageTypes, Overrides
  <2> QED BY <1>0, <2>3 DEF PageInv
<1>6. page' \in [Pages -> PageTypes]
  BY <1>5 DEF Reload
<1>7. config'.autoLock \in Durations
  BY <1>1, <1>3 DEF Configs
<1>8. Types'
  BY <1>0, <1>1, <1>2, <1>3, <1>4, <1>6, <1>7 DEF Types
<1>9. MemoryInv' /\ FilesInv'
  BY <1>1, <1>2, <1>3, <1>4 DEF MemoryInv, FilesInv
<1> QED BY <1>5, <1>8, <1>9 DEF IInv

-----------------------------------------------------------------------------
(* The theorems.                                                           *)

\* The inductive invariant holds in every reachable state.
LEMMA Inductive == SettingsSpec => []IInv
<1>1. ASSUME IInv, [SettingsNext]_settingsVars PROVE IInv'
  <2>1. ASSUME NEW p \in Pages, SetAutoLock(p) PROVE IInv'
    <3>1. PageInv(p) /\ page[p].phase = "applying"
      BY <1>1, <2>1 DEF IInv, SetAutoLock
    <3>2. live' \in Durations
      BY <2>1, <3>1 DEF SetAutoLock, PageInv
    <3> QED BY <1>1, <2>1, <3>2, EndIInv DEF SetAutoLock
  <2>2. CASE UNCHANGED settingsVars
    <3>1. Types' /\ MemoryInv' /\ FilesInv'
      BY <1>1, <2>2 DEF IInv, Types, MemoryInv, FilesInv, settingsVars, memory, settingsFiles
    <3>2. \A p \in Pages : PageInv(p)'
      BY <1>1, <2>2 DEF IInv, PageInv, settingsVars
    <3> QED BY <3>1, <3>2 DEF IInv
  <2> QED BY <1>1, <2>1, <2>2, GetIInv, HandlersIInv, SaveConfigIInv, SaveNetworkIInv, EditIInv,
             RestartIInv DEF SettingsNext
<1> QED BY <1>1, InitIInv, PTL DEF SettingsSpec

\* The state is well typed, and the auto-lock in memory is within its limits
\* whatever config.yaml says (ClampAutoLock, ValidateHomeConfig).
THEOREM TypeCorrect == SettingsSpec => []SettingsTypeOK
<1>1. IInv => SettingsTypeOK
  <2> SUFFICES ASSUME IInv PROVE SettingsTypeOK
    OBVIOUS
  <2>1. Types /\ ValidateHomeConfig(config)
    BY DEF IInv, MemoryInv
  <2>2. config.autoLock \in MinAutoLock..MaxAutoLock
    BY <2>1, SettingsAssumption DEF Types, Configs, ValidateHomeConfig
  <2>3. \A p \in Pages : page[p].phase \in {"shown", "saving", "applying"}
    BY <2>1 DEF Types, PageTypes
  <2> QED BY <2>1, <2>2, <2>3 DEF SettingsTypeOK, Types
<1> QED BY <1>1, Inductive, PTL

\* A page whose revision still matches shows the settings in force, so a save
\* it is allowed to make overwrites nothing its user has not seen (the
\* If-Match check of SaveConfig and SaveNetwork).
THEOREM NoLostUpdate == SettingsSpec => []MatchMeansSame
<1>1. IInv => MatchMeansSame
  <2> SUFFICES ASSUME IInv, NEW p \in Pages, page[p].seen = revision
               PROVE  page[p].saw = <<config, networks>>
    BY DEF MatchMeansSame
  <2>1. page[p].seen # None
    BY SettingsAssumption DEF IInv, Types, Revisions
  <2> QED BY <2>1 DEF IInv, PageInv, MemoryInv
<1> QED BY <1>1, Inductive, PTL

\* The next start reads what saves and hand edits leave on disk, except an
\* override for plain HTTP beside a config.yaml that was made to forbid it by
\* hand or by a write that failed after its rename (HomeManager.reload).
THEOREM StartsAgain == SettingsSpec => []StoredSettingsLoad
<1>1. IInv => StoredSettingsLoad
  <2> SUFFICES ASSUME IInv, ~Loads(configFile, networksFile)
               PROVE  /\ networksFile.override = "http" /\ ~configFile.insecure
                      /\ unsynced \/ tightened
    BY DEF StoredSettingsLoad
  <2>1. /\ ValidateHomeConfig(unmarshalConfig(configFile))
        /\ unmarshalConfig(configFile).insecure = configFile.insecure
    BY ClampedIsValid DEF IInv, Types
  <2>2. networksFile.override = "http" /\ ~configFile.insecure
    BY <2>1 DEF Loads, validateNetworkOverride
  <2>3. unsynced \/ tightened
    BY <2>2 DEF IInv, MemoryInv, FilesInv, validateNetworkOverride
  <2> QED BY <2>2, <2>3
<1> QED BY <1>1, Inductive, PTL

=============================================================================
