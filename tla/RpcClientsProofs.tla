-------------------------- MODULE RpcClientsProofs --------------------------
(***************************************************************************)
(* Theorems about RpcClients, for any endpoints, secrets, requests and any *)
(* number of saves and faults.                                             *)
(***************************************************************************)
EXTENDS RpcClients, TLAPS

Phases == {"idle", "verify", "save", "invalidate", "clear", "refresh"}
Wants == [Custom -> {Absent, Keep, None} \cup Secrets]

\* What a settings request has left to invalidate: every adapter from some
\* point on, or the one of the network.
Todos == {<<"evm", "solana", "tron">>, <<"solana", "tron">>, <<"tron">>, <<family>>}

In(todo) == {todo[i] : i \in 1..Len(todo)}

\* The settings were saved and the client of the network is still to be dropped.
DropDue ==
    \/ page.phase = "invalidate" /\ family \in In(page.todo)
    \/ page.phase = "clear" /\ family \in In(Tail(page.todo))

Gone == Custom \ Listed(override)

Types ==
    /\ family \in {"evm", "solana", "tron"}
    /\ override \in Overrides /\ discovery \in BOOLEAN
    /\ changes \in 0..MaxChanges /\ faults \in 0..MaxFaults /\ version \in Nat
    /\ page \in [phase : Phases, want : Wants, todo : Todos \cup {<<>>}]
    /\ page.phase \in {"invalidate", "clear"} => page.todo # <<>>
    /\ cache \subseteq Endpoints /\ cacheFile \subseteq Endpoints /\ client \subseteq Endpoints
    /\ req \in [Requests -> [phase : {"idle", "endpoints", "probe", "install", "mark", "clear"},
                             version : Nat, list : SUBSET Endpoints, ok : SUBSET Endpoints]]
    /\ trigger \in BOOLEAN /\ check \in {"idle", "fresh", "stale"} /\ shown \in {"fresh", "stale"}
    /\ typed \cup sent \subseteq Secrets \X Endpoints

\* Every drop of the client belongs to a save or to a fault.
Counted ==
    /\ page.phase \in {"verify", "save"} => changes < MaxChanges
    /\ version + (IF DropDue THEN 1 ELSE 0) <= changes + faults

\* Once the client of the last save was dropped, neither the client nor what a
\* build that is still current has found names an endpoint that was removed.
ClientInv ==
    ~DropDue /\ ~discovery =>
      /\ client \cap Gone = {}
      /\ \A r \in Requests :
           req[r].phase \in {"endpoints", "probe", "install"} /\ req[r].version = version =>
             (req[r].list \cup req[r].ok) \cap Gone = {}
BuildInv == \A r \in Requests : req[r].version <= version /\
                                (req[r].phase = "endpoints" => req[r].list = {} /\ req[r].ok = {})

\* Every secret at hand was typed next to its endpoint.
KeysInv ==
    /\ sent \subseteq typed
    /\ Keys(override) \subseteq typed
    /\ page.phase \in {"verify", "save"} => Keys(page.want) \subseteq typed

\* Without a trigger pending, the pass under way or the last one read the
\* settings in force.
DoctorInv ==
    Settled /\ ~trigger => IF check = "idle" THEN shown = "fresh" ELSE check = "fresh"

IInv == Types /\ Counted /\ BuildInv /\ ClientInv /\ KeysInv /\ DoctorInv

-----------------------------------------------------------------------------
(* The list of adapters.                                                   *)

\* What the lists hold, and what is left after the first.
LEMMA TodoFacts ==
    ASSUME family \in {"evm", "solana", "tron"}, NEW todo \in Todos
    PROVE  /\ Tail(todo) \in Todos \cup {<<>>}
           /\ Head(todo) \notin In(Tail(todo))
           /\ In(todo) = {Head(todo)} \cup In(Tail(todo))
           /\ Len(todo) = 1 <=> Tail(todo) = <<>>
           /\ todo # <<>>
<1>1. CASE todo = <<"evm", "solana", "tron">>
  <2>1. Tail(todo) = <<"solana", "tron">> /\ Head(todo) = "evm" /\ Len(todo) = 3
    BY <1>1
  <2>2. In(todo) = {"evm", "solana", "tron"} /\ In(<<"solana", "tron">>) = {"solana", "tron"}
    BY <1>1 DEF In
  <2> QED BY <1>1, <2>1, <2>2 DEF Todos
<1>2. CASE todo = <<"solana", "tron">>
  <2>1. Tail(todo) = <<"tron">> /\ Head(todo) = "solana" /\ Len(todo) = 2
    BY <1>2
  <2>2. In(todo) = {"solana", "tron"} /\ In(<<"tron">>) = {"tron"}
    BY <1>2 DEF In
  <2> QED BY <1>2, <2>1, <2>2 DEF Todos
<1>3. ASSUME NEW f, todo = <<f>>
      PROVE  /\ Tail(todo) = <<>> /\ Head(todo) = f /\ Len(todo) = 1
             /\ In(todo) = {f} /\ In(<<>>) = {}
  BY <1>3 DEF In
<1> QED BY <1>1, <1>2, <1>3 DEF Todos

\* All of them are to be invalidated after a save.
LEMMA AdaptersFacts ==
    ASSUME family \in {"evm", "solana", "tron"}
    PROVE  /\ Adapters \in Todos /\ family \in In(Adapters)
           /\ <<family>> \in Todos /\ family \in In(<<family>>)
BY DEF Adapters, Todos, In

\* The page after a save.
LEMMA SavedPage ==
    ASSUME Types, UNCHANGED family, NEW todo \in {Adapters, <<family>>},
           page' = [NoPage EXCEPT !.phase = "invalidate", !.todo = todo]
    PROVE  /\ page' \in [phase : Phases, want : Wants, todo : Todos' \cup {<<>>}]
           /\ page'.phase = "invalidate" /\ page'.todo # <<>> /\ DropDue'
<1>1. todo \in Todos /\ family \in In(todo) /\ todo # <<>> /\ Todos' = Todos
  BY AdaptersFacts, TodoFacts DEF Types, Todos
<1>2. page'.phase = "invalidate" /\ page'.todo = todo
  BY DEF NoPage
<1>3. page' \in [phase : Phases, want : Wants, todo : Todos \cup {<<>>}]
  BY <1>1 DEF NoPage, Phases, Wants
<1>4. In(page.todo)' = In(todo)
  BY <1>2 DEF In
<1> QED BY <1>1, <1>2, <1>3, <1>4 DEF DropDue

\* The page after the request ended.
LEMMA EndedPage ==
    ASSUME page' = NoPage
    PROVE  /\ page' \in [phase : Phases, want : Wants, todo : Todos' \cup {<<>>}]
           /\ page'.phase = "idle" /\ ~DropDue'
BY DEF NoPage, Phases, Wants, DropDue

\* The client of the network is dropped exactly once per save.
LEMMA DropStep ==
    ASSUME Types, DropClient
    PROVE  /\ page' \in [phase : Phases, want : Wants, todo : Todos' \cup {<<>>}]
           /\ page'.phase = "clear" /\ page'.todo # <<>>
           /\ DropDue' <=> DropDue /\ Head(page.todo) # family
           /\ Head(page.todo) = family => DropDue
<1>1. page.phase = "invalidate" /\ page.todo \in Todos /\ page.todo # <<>> /\ family' = family
  BY DEF DropClient, Types
<1>2. page'.phase = "clear" /\ page'.todo = page.todo /\ Todos' = Todos
  BY DEF DropClient, Types, Todos
<1>3. page' \in [phase : Phases, want : Wants, todo : Todos \cup {<<>>}]
  BY DEF DropClient, Types, Phases
<1>4. In(Tail(page.todo))' = In(Tail(page.todo))
  BY <1>2 DEF In
<1>5. /\ In(page.todo) = {Head(page.todo)} \cup In(Tail(page.todo))
      /\ Head(page.todo) \notin In(Tail(page.todo))
  BY <1>1, TodoFacts DEF Types
<1> QED BY <1>1, <1>2, <1>3, <1>4, <1>5 DEF DropDue

\* Going on to the next adapter leaves it due or not due.
LEMMA ClearStep ==
    ASSUME Types, ClearCache
    PROVE  /\ page' \in [phase : Phases, want : Wants, todo : Todos' \cup {<<>>}]
           /\ page'.phase \in {"invalidate", "refresh"}
           /\ page'.phase = "invalidate" => page'.todo # <<>>
           /\ DropDue' <=> DropDue
<1>1. page.phase = "clear" /\ page.todo \in Todos /\ page.todo # <<>> /\ family' = family
  BY DEF ClearCache, Types
<1>2. /\ Tail(page.todo) \in Todos \cup {<<>>}
      /\ Len(page.todo) = 1 <=> Tail(page.todo) = <<>>
  BY <1>1, TodoFacts DEF Types
<1>3. /\ page'.phase = (IF Len(page.todo) = 1 THEN "refresh" ELSE "invalidate")
      /\ page'.todo = Tail(page.todo) /\ Todos' = Todos
  BY DEF ClearCache, Types, Todos
<1>4. page' \in [phase : Phases, want : Wants, todo : Todos \cup {<<>>}]
  BY <1>2 DEF ClearCache, Types, Phases
<1>5. In(page.todo)' = In(Tail(page.todo)) /\ In(<<>>) = {}
  BY <1>3 DEF In
<1> QED BY <1>1, <1>2, <1>3, <1>4, <1>5 DEF DropDue

\* A step that leaves the page alone leaves the drop due or not due.
LEMMA SamePage ==
    ASSUME UNCHANGED <<family, page>>
    PROVE  (DropDue' <=> DropDue) /\ Todos' = Todos
BY DEF DropDue, In, Todos

-----------------------------------------------------------------------------
(* What the resolver answers.                                              *)

\* Its lists name endpoints, and without node discovery none that was removed.
LEMMA ListFacts ==
    ASSUME Types
    PROVE  /\ \A list \in ResolverLists \cup EndpointLists : list \subseteq Endpoints
           /\ ~discovery => \A list \in EndpointLists : list \cap Gone = {}
<1>1. Listed(override) \subseteq Endpoints /\ Official \subseteq Endpoints /\ Public \subseteq Endpoints
  BY DEF Listed, Endpoints
<1>2. \A list \in ResolverLists : list \subseteq Endpoints
  BY <1>1 DEF ResolverLists, Discovered, Types
<1>3. \A list \in EndpointLists : list \subseteq Endpoints
  BY <1>1, <1>2 DEF EndpointLists
<1>4. ~discovery => \A list \in EndpointLists : list \cap Gone = {}
  BY RpcAssumption DEF EndpointLists, ResolverLists, Gone
<1> QED BY <1>2, <1>3, <1>4

\* Only secrets of the override are sent, each to its endpoint.
LEMMA SentFacts ==
    ASSUME Types, NEW E \in SUBSET Endpoints
    PROVE  SentTo(E) \subseteq Keys(override) /\ Keys(override) \subseteq Secrets \X Endpoints
BY RpcAssumption DEF SentTo, Headers, Keys, Types, Overrides, Endpoints

\* A secret that is carried forward stays with its endpoint.
LEMMA CarriedFacts ==
    ASSUME Types, NEW want \in Wants
    PROVE  /\ CarryHeadersForward(override, want) \in Overrides
           /\ Keys(CarryHeadersForward(override, want)) \subseteq Keys(override) \cup Keys(want)
           /\ Keys(want) \subseteq Secrets \X Endpoints
<1>1. CarryHeadersForward(override, want) \in Overrides
  BY DEF CarryHeadersForward, Types, Overrides, Wants
<1>2. Keys(want) \subseteq Secrets \X Endpoints
  BY DEF Keys, Wants, Endpoints
<1>3. Keys(CarryHeadersForward(override, want)) \subseteq Keys(override) \cup Keys(want)
  BY RpcAssumption DEF CarryHeadersForward, Keys, Wants, Types, Overrides
<1> QED BY <1>1, <1>2, <1>3

-----------------------------------------------------------------------------
(* The initial states.                                                     *)

\* They satisfy the inductive invariant.
LEMMA InitIInv == Init => IInv
<1> SUFFICES ASSUME Init PROVE IInv
  OBVIOUS
<1>1. Types
  BY RpcAssumption DEF Init, Types, NoOverride, Overrides, NoPage, Phases, Wants, NoRequest
<1>2. ~DropDue
  BY DEF Init, DropDue, NoPage
<1>3. Counted
  BY <1>2, RpcAssumption DEF Init, Counted, NoPage
<1>4. BuildInv /\ ClientInv
  BY DEF Init, BuildInv, ClientInv, NoRequest
<1>5. KeysInv
  BY RpcAssumption DEF Init, KeysInv, Keys, NoOverride, NoPage
<1>6. DoctorInv
  BY DEF Init, DoctorInv
<1> QED BY <1>1, <1>3, <1>4, <1>5, <1>6 DEF IInv

-----------------------------------------------------------------------------
(* The settings request.  Each step of it is shown to preserve IInv.       *)

\* A request is decoded: the secrets it brings were typed there.
LEMMA PutIInv ==
    ASSUME IInv, putNetworkSettings
    PROVE  IInv'
<1>0. Types /\ Counted /\ BuildInv /\ ClientInv /\ KeysInv /\ DoctorInv
  BY DEF IInv
<1>1. UNCHANGED <<family, settings, resolver, adapter, req, doctor, sent, faults>>
  BY DEF putNetworkSettings
<1>2. page.phase = "idle" /\ changes < MaxChanges
  BY DEF putNetworkSettings
<1>3. PICK want \in Wants :
         /\ page' = [NoPage EXCEPT !.phase = IF Listed(want) = {} THEN "save" ELSE "verify", !.want = want]
         /\ typed' = typed \cup Keys(want)
  BY DEF putNetworkSettings, Wants
<1>4. /\ page' \in [phase : Phases, want : Wants, todo : Todos' \cup {<<>>}]
      /\ page'.phase \in {"save", "verify"} /\ page'.want = want
  BY <1>3 DEF NoPage, Phases, Wants
<1>5. ~DropDue /\ ~DropDue' /\ Settled /\ Settled'
  BY <1>2, <1>4 DEF DropDue, Settled
<1>6. Types'
  BY <1>0, <1>1, <1>3, <1>4, CarriedFacts DEF Types, settings, resolver, adapter, doctor
<1>7. Counted'
  BY <1>0, <1>1, <1>2, <1>5 DEF Counted, settings, adapter
<1>8. BuildInv' /\ ClientInv'
  BY <1>0, <1>1, <1>5 DEF BuildInv, ClientInv, settings, adapter, Gone, Listed
<1>9. KeysInv'
  BY <1>0, <1>1, <1>3, <1>4 DEF KeysInv, settings, Keys
<1>10. DoctorInv'
  BY <1>0, <1>1, <1>5 DEF DoctorInv, doctor
<1> QED BY <1>6, <1>7, <1>8, <1>9, <1>10 DEF IInv

\* The endpoints are verified, each with its own secret.
LEMMA VerifyIInv ==
    ASSUME IInv, verifyRPCs
    PROVE  IInv'
<1>0. Types /\ Counted /\ BuildInv /\ ClientInv /\ KeysInv /\ DoctorInv
  BY DEF IInv
<1>1. UNCHANGED <<family, settings, resolver, adapter, req, doctor, typed, faults>> /\ page.phase = "verify"
  BY DEF verifyRPCs
<1>2. page' = [page EXCEPT !.phase = "save"] \/ page' = NoPage
  BY DEF verifyRPCs
<1>3. /\ page' \in [phase : Phases, want : Wants, todo : Todos' \cup {<<>>}]
      /\ page'.phase \in {"save", "idle"}
      /\ page'.phase = "save" => page'.want = page.want
      /\ page.want \in Wants
  <2>1. CASE page' = NoPage
    BY <1>0, <2>1, EndedPage DEF Types
  <2>2. CASE page' = [page EXCEPT !.phase = "save"]
    BY <1>0, <1>1, <2>2 DEF Types, Phases, Todos
  <2> QED BY <1>2, <2>1, <2>2
<1>4. ~DropDue /\ ~DropDue' /\ Settled /\ Settled'
  BY <1>1, <1>3 DEF DropDue, Settled
<1>5. sent' \subseteq typed
  <2>1. sent' \subseteq sent \cup Keys(CarryHeadersForward(override, page.want))
    BY DEF verifyRPCs
  <2> QED BY <1>0, <1>1, <1>3, <2>1, CarriedFacts DEF KeysInv
<1>6. Types'
  BY <1>0, <1>1, <1>3, <1>5 DEF Types, settings, resolver, adapter, doctor
<1>7. Counted'
  BY <1>0, <1>1, <1>3, <1>4 DEF Counted, settings, adapter
<1>8. BuildInv' /\ ClientInv'
  BY <1>0, <1>1, <1>4 DEF BuildInv, ClientInv, settings, adapter, Gone, Listed
<1>9. KeysInv'
  BY <1>0, <1>1, <1>3, <1>5 DEF KeysInv, settings, Keys
<1>10. DoctorInv'
  BY <1>0, <1>1, <1>4 DEF DoctorInv, doctor
<1> QED BY <1>6, <1>7, <1>8, <1>9, <1>10 DEF IInv

\* The settings are saved: the client of the network is due to be dropped, and
\* the doctor is behind until it is told.
LEMMA SavedIInv ==
    ASSUME IInv, SettingsSaved, changes < MaxChanges, override' \in Overrides,
           discovery' \in BOOLEAN, Keys(override)' \subseteq typed,
           Settled, NEW todo \in {Adapters, <<family>>},
           page' = [NoPage EXCEPT !.phase = "invalidate", !.todo = todo],
           UNCHANGED <<family, resolver, adapter, req, typed, sent, faults>>
    PROVE  IInv'
<1>0. Types /\ Counted /\ BuildInv /\ KeysInv
  BY DEF IInv
<1>1. /\ page' \in [phase : Phases, want : Wants, todo : Todos' \cup {<<>>}]
      /\ page'.phase = "invalidate" /\ page'.todo # <<>> /\ DropDue'
  BY <1>0, SavedPage
<1>2. ~DropDue /\ ~Settled'
  BY <1>1 DEF DropDue, Settled
<1>3. Types'
  BY <1>0, <1>1, RpcAssumption DEF Types, SettingsSaved, Outdated, resolver, adapter
<1>4. Counted'
  BY <1>0, <1>1, <1>2 DEF Counted, Types, SettingsSaved, adapter
<1>5. BuildInv' /\ ClientInv'
  BY <1>0, <1>1 DEF BuildInv, ClientInv, adapter
<1>6. KeysInv'
  BY <1>0, <1>1 DEF KeysInv
<1>7. DoctorInv'
  BY <1>2 DEF DoctorInv
<1> QED BY <1>3, <1>4, <1>5, <1>6, <1>7 DEF IInv

\* The three saves.
LEMMA SaveIInv ==
    ASSUME IInv, SaveNetwork \/ deleteNetworkSettings \/ patchDiscovery
    PROVE  IInv'
<1>0. Types /\ Counted /\ BuildInv /\ ClientInv /\ KeysInv /\ DoctorInv
  BY DEF IInv
<1>1. CASE deleteNetworkSettings
  <2>1. NoOverride \in Overrides /\ Keys(NoOverride) = {}
    BY RpcAssumption DEF NoOverride, Overrides, Keys
  <2>2. Keys(override)' = {}
    BY <1>1, <2>1 DEF deleteNetworkSettings, Keys
  <2> QED BY <1>0, <1>1, <2>1, <2>2, SavedIInv DEF deleteNetworkSettings, Types, Settled
<1>2. CASE patchDiscovery
  <2>1. Keys(override)' = Keys(override)
    BY <1>2 DEF patchDiscovery, Keys
  <2> QED BY <1>0, <1>2, <2>1, SavedIInv DEF patchDiscovery, Types, Settled, KeysInv
<1>3. CASE SaveNetwork /\ SettingsSaved /\ override' = CarryHeadersForward(override, page.want)
           /\ page' = [NoPage EXCEPT !.phase = "invalidate", !.todo = Adapters]
  <2>1. page.want \in Wants /\ page.phase = "save"
    BY <1>0, <1>3 DEF Types, SaveNetwork
  <2>2. Keys(override)' = Keys(CarryHeadersForward(override, page.want))
    BY <1>3 DEF Keys
  <2>3. Keys(override)' \subseteq typed /\ override' \in Overrides
    BY <1>0, <1>3, <2>1, <2>2, CarriedFacts DEF KeysInv
  <2> QED BY <1>0, <1>3, <2>1, <2>3, SavedIInv DEF SaveNetwork, Types, Settled, Counted
<1>4. CASE SaveNetwork /\ page' = NoPage /\ UNCHANGED <<override, changes, doctor>>
  <2>1. /\ UNCHANGED <<family, settings, resolver, adapter, req, doctor, typed, sent, faults>>
        /\ page.phase = "save"
    BY <1>4 DEF SaveNetwork, settings
  <2>2. /\ page' \in [phase : Phases, want : Wants, todo : Todos' \cup {<<>>}]
        /\ page'.phase = "idle" /\ ~DropDue'
    BY <1>4, EndedPage
  <2>3. ~DropDue /\ Settled /\ Settled'
    BY <2>1, <2>2 DEF DropDue, Settled
  <2>4. Types'
    BY <1>0, <2>1, <2>2 DEF Types, settings, resolver, adapter, doctor
  <2>5. Counted' /\ BuildInv' /\ KeysInv' /\ DoctorInv'
    BY <1>0, <2>1, <2>2, <2>3 DEF Counted, BuildInv, KeysInv, DoctorInv, settings, adapter, doctor, Keys
  <2>6. ClientInv'
    BY <1>0, <2>1, <2>2, <2>3 DEF ClientInv, settings, adapter, Gone, Listed
  <2> QED BY <2>4, <2>5, <2>6 DEF IInv
<1> QED BY <1>1, <1>2, <1>3, <1>4 DEF SaveNetwork

\* Invalidate, first half: builds that began before it are out of date.
LEMMA DropClientIInv ==
    ASSUME IInv, DropClient
    PROVE  IInv'
<1>0. Types /\ Counted /\ BuildInv /\ ClientInv /\ KeysInv /\ DoctorInv
  BY DEF IInv
<1>1. /\ UNCHANGED <<family, settings, resolver, req, doctor, typed, sent, faults>>
      /\ page.phase = "invalidate"
      /\ IF Head(page.todo) = family THEN client' = {} /\ version' = version + 1 ELSE UNCHANGED adapter
  BY DEF DropClient, Dropped
<1>2. /\ page' \in [phase : Phases, want : Wants, todo : Todos' \cup {<<>>}]
      /\ page'.phase = "clear" /\ page'.todo # <<>>
      /\ DropDue' <=> DropDue /\ Head(page.todo) # family
      /\ Head(page.todo) = family => DropDue
  BY <1>0, DropStep
<1>3. ~Settled'
  BY <1>2 DEF Settled
<1>4. Types'
  BY <1>0, <1>1, <1>2 DEF Types, settings, resolver, adapter, doctor
<1>5. Counted'
  BY <1>0, <1>1, <1>2 DEF Counted, settings, adapter, Types
<1>6. BuildInv'
  BY <1>0, <1>1 DEF BuildInv, adapter, Types
<1>7. ClientInv'
  <2>1. CASE Head(page.todo) = family
    BY <1>0, <1>1, <2>1 DEF ClientInv, BuildInv, Types
  <2>2. CASE Head(page.todo) # family
    BY <1>0, <1>1, <1>2, <2>2 DEF ClientInv, adapter, settings, Gone, Listed
  <2> QED BY <2>1, <2>2
<1>8. KeysInv'
  BY <1>0, <1>1, <1>2 DEF KeysInv, settings, Keys
<1>9. DoctorInv'
  BY <1>3 DEF DoctorInv
<1> QED BY <1>4, <1>5, <1>6, <1>7, <1>8, <1>9 DEF IInv

\* Invalidate, second half, and the next adapter.
LEMMA ClearCacheIInv ==
    ASSUME IInv, ClearCache
    PROVE  IInv'
<1>0. Types /\ Counted /\ BuildInv /\ ClientInv /\ KeysInv /\ DoctorInv
  BY DEF IInv
<1>1. /\ UNCHANGED <<family, settings, adapter, req, doctor, typed, sent, faults>>
      /\ cache' = {} /\ cacheFile' \in {cacheFile, {}}
  BY DEF ClearCache, FileAfter
<1>2. /\ page' \in [phase : Phases, want : Wants, todo : Todos' \cup {<<>>}]
      /\ page'.phase \in {"invalidate", "refresh"}
      /\ page'.phase = "invalidate" => page'.todo # <<>>
      /\ DropDue' <=> DropDue
  BY <1>0, ClearStep
<1>3. Types'
  BY <1>0, <1>1, <1>2 DEF Types, settings, adapter, doctor
<1>4. Counted' /\ BuildInv' /\ KeysInv'
  BY <1>0, <1>1, <1>2 DEF Counted, BuildInv, KeysInv, settings, adapter, Keys
<1>5. ClientInv'
  BY <1>0, <1>1, <1>2 DEF ClientInv, adapter, settings, Gone, Listed
<1>6. DoctorInv'
  BY <1>2 DEF DoctorInv, Settled
<1> QED BY <1>3, <1>4, <1>5, <1>6 DEF IInv

\* The doctor is told, and the settings request is over.
LEMMA RefreshIInv ==
    ASSUME IInv, Refresh
    PROVE  IInv'
<1>0. Types /\ Counted /\ BuildInv /\ ClientInv /\ KeysInv /\ DoctorInv
  BY DEF IInv
<1>1. /\ UNCHANGED <<family, settings, resolver, adapter, req, check, shown, typed, sent, faults>>
      /\ page.phase = "refresh" /\ page' = NoPage /\ trigger' = TRUE
  BY DEF Refresh, Refreshed
<1>2. /\ page' \in [phase : Phases, want : Wants, todo : Todos' \cup {<<>>}]
      /\ page'.phase = "idle" /\ ~DropDue' /\ ~DropDue
  BY <1>1, EndedPage DEF DropDue
<1>3. Types'
  BY <1>0, <1>1, <1>2 DEF Types, settings, resolver, adapter
<1>4. Counted' /\ BuildInv' /\ KeysInv'
  BY <1>0, <1>1, <1>2 DEF Counted, BuildInv, KeysInv, settings, adapter, Keys
<1>5. ClientInv'
  BY <1>0, <1>1, <1>2 DEF ClientInv, adapter, settings, Gone, Listed
<1>6. DoctorInv'
  BY <1>1 DEF DoctorInv
<1> QED BY <1>3, <1>4, <1>5, <1>6 DEF IInv

-----------------------------------------------------------------------------
(* Requests for a client, the doctor, a restart.                           *)

\* A step of a request that leaves the settings alone: it is enough to look
\* at the request and the client.
LEMMA RequestIInv ==
    ASSUME IInv, UNCHANGED <<family, settings, page, doctor, typed>>,
           cache' \subseteq Endpoints, cacheFile' \subseteq Endpoints, client' \subseteq Endpoints,
           faults' \in 0..MaxFaults, version' \in Nat, version <= version',
           version' - version <= faults' - faults,
           sent' \subseteq typed, NEW r \in Requests,
           req' \in [Requests -> [phase : {"idle", "endpoints", "probe", "install", "mark", "clear"},
                                  version : Nat, list : SUBSET Endpoints, ok : SUBSET Endpoints]],
           \A q \in Requests : q # r => req'[q] = req[q],
           req'[r].version <= version',
           req'[r].phase = "endpoints" => req'[r].list = {} /\ req'[r].ok = {},
           ~DropDue /\ ~discovery =>
             /\ client' \cap Gone = {}
             /\ req'[r].phase \in {"endpoints", "probe", "install"} /\ req'[r].version = version' =>
                  (req'[r].list \cup req'[r].ok) \cap Gone = {}
    PROVE  IInv'
<1>0. Types /\ Counted /\ BuildInv /\ ClientInv /\ KeysInv /\ DoctorInv
  BY DEF IInv
<1>1. (DropDue' <=> DropDue) /\ Todos' = Todos
  BY SamePage
<1>2. Types'
  BY <1>0, <1>1 DEF Types, settings, doctor
<1>3. Counted'
  <2>1. version \in Nat /\ changes \in Nat /\ faults \in Nat /\ faults' \in Nat
    BY <1>0, RpcAssumption DEF Types
  <2>2. ASSUME NEW d \in {0, 1}, version + d <= changes + faults
        PROVE  version' + d <= changes + faults'
    BY <2>1, <2>2
  <2> QED BY <1>0, <1>1, <2>2 DEF Counted, settings
<1>4. \A q \in Requests : q # r => req[q].version <= version' /\ req[q].version \in Nat
  BY <1>0 DEF BuildInv, Types
<1>5. BuildInv'
  BY <1>0, <1>4 DEF BuildInv
<1>6. ClientInv'
  <2>1. Gone' = Gone
    BY DEF Gone, Listed, settings
  <2>2. ASSUME NEW q \in Requests, q # r, req[q].version = version' PROVE version' = version
    BY <1>0, <2>2 DEF BuildInv, Types
  <2> QED BY <1>0, <1>1, <2>1, <2>2 DEF ClientInv, settings
<1>7. KeysInv' /\ DoctorInv'
  BY <1>0 DEF KeysInv, DoctorInv, settings, doctor, Keys, Settled
<1> QED BY <1>2, <1>3, <1>5, <1>6, <1>7 DEF IInv

\* The steps of a request.  What it reads is current as long as its version is.
LEMMA RequestStepIInv ==
    ASSUME IInv, NEW r \in Requests,
           \/ Lookup(r) \/ ReadEndpoints(r) \/ Probe(r) \/ Install(r) \/ InstallNodes(r)
           \/ MarkHealthy(r) \/ HealthFails(r) \/ HealthClears(r)
    PROVE  IInv'
<1>0. Types /\ Counted /\ BuildInv /\ ClientInv /\ KeysInv /\ DoctorInv
  BY DEF IInv
<1> DEFINE Reqs == [phase : {"idle", "endpoints", "probe", "install", "mark", "clear"},
                    version : Nat, list : SUBSET Endpoints, ok : SUBSET Endpoints]
<1>1. /\ req \in [Requests -> Reqs] /\ req[r] \in Reqs
      /\ client \subseteq Endpoints /\ cache \subseteq Endpoints /\ cacheFile \subseteq Endpoints
      /\ version \in Nat /\ faults \in 0..MaxFaults /\ sent \subseteq typed
      /\ req[r].version <= version
  BY <1>0 DEF Types, KeysInv, BuildInv
<1>2. ~DropDue /\ ~discovery =>
        /\ client \cap Gone = {}
        /\ req[r].phase \in {"endpoints", "probe", "install"} /\ req[r].version = version =>
             (req[r].list \cup req[r].ok) \cap Gone = {}
  BY <1>0 DEF ClientInv
<1>3. ASSUME NEW E \in SUBSET Endpoints PROVE Remembered(E) \subseteq Endpoints
  BY <1>1 DEF Remembered
<1>4. /\ [NoRequest EXCEPT !.phase = "endpoints", !.version = version] \in Reqs
      /\ NoRequest \in Reqs /\ NoRequest.phase = "idle" /\ NoRequest.version = 0
      /\ [NoRequest EXCEPT !.phase = "endpoints", !.version = version].version = version
      /\ [NoRequest EXCEPT !.phase = "endpoints", !.version = version].list = {}
      /\ [NoRequest EXCEPT !.phase = "endpoints", !.version = version].ok = {}
  BY <1>1 DEF NoRequest
<1>5. CASE Lookup(r)
  <2>1. /\ req' = [req EXCEPT ![r] = [NoRequest EXCEPT !.phase = "endpoints", !.version = version]]
        /\ UNCHANGED <<family, settings, page, resolver, adapter, doctor, typed, sent, faults>>
    BY <1>5 DEF Lookup
  <2>2. req' \in [Requests -> Reqs] /\ \A q \in Requests : q # r => req'[q] = req[q]
    BY <1>1, <1>4, <2>1
  <2>3. req'[r].version = version /\ req'[r].list = {} /\ req'[r].ok = {}
    BY <1>1, <1>4, <2>1
  <2> QED BY <1>1, <1>2, <2>1, <2>2, <2>3, RequestIInv DEF resolver, adapter
<1>6. CASE ReadEndpoints(r)
  <2>1. PICK list \in EndpointLists :
           req' = [req EXCEPT ![r].phase = "probe", ![r].list = list]
    BY <1>6 DEF ReadEndpoints
  <2>2. /\ UNCHANGED <<family, settings, page, resolver, adapter, doctor, typed, sent, faults>>
        /\ req[r].phase = "endpoints" /\ list \subseteq Endpoints
        /\ ~discovery => list \cap Gone = {}
    BY <1>0, <1>6, ListFacts DEF ReadEndpoints
  <2>3. req' \in [Requests -> Reqs] /\ \A q \in Requests : q # r => req'[q] = req[q]
    BY <1>1, <2>1, <2>2
  <2>4. /\ req'[r].version = req[r].version /\ req'[r].list = list /\ req'[r].ok = {}
        /\ req'[r].phase = "probe"
    BY <1>0, <1>1, <2>1, <2>2 DEF BuildInv
  <2> QED BY <1>1, <1>2, <2>2, <2>3, <2>4, RequestIInv DEF resolver, adapter
<1>7. CASE Probe(r)
  <2>1. PICK e \in req[r].list, left \in SUBSET req[r].list, ok \in SUBSET (req[r].list \cup req[r].ok),
             phase \in {"install", "probe"} :
           /\ sent' = sent \cup SentTo({e})
           /\ \/ req' = [req EXCEPT ![r] = NoRequest]
              \/ req' = [req EXCEPT ![r] = [req[r] EXCEPT !.list = left, !.ok = ok, !.phase = phase]]
    <3>1. PICK e \in req[r].list, good \in BOOLEAN :
             LET left == req[r].list \ {e}
                 ok == IF good THEN req[r].ok \cup {e} ELSE req[r].ok
             IN  /\ sent' = sent \cup SentTo({e})
                 /\ req' = [req EXCEPT ![r] =
                      IF left = {} /\ ok = {} THEN NoRequest
                      ELSE [@ EXCEPT !.list = left, !.ok = ok,
                              !.phase = IF left = {} \/ (family = "evm" /\ good)
                                        THEN "install" ELSE "probe"]]
      BY <1>7 DEF Probe
    <3> QED BY <3>1
  <2>2. /\ UNCHANGED <<family, settings, page, resolver, adapter, doctor, typed, faults>>
        /\ req[r].phase = "probe" /\ left \subseteq Endpoints /\ ok \subseteq Endpoints
    BY <1>1, <1>7 DEF Probe
  <2>3. sent' \subseteq typed
    <3>1. {e} \in SUBSET Endpoints
      BY <1>1
    <3> QED BY <1>0, <2>1, <3>1, SentFacts DEF KeysInv
  <2> DEFINE New == [req[r] EXCEPT !.list = left, !.ok = ok, !.phase = phase]
  <2>2a. /\ New \in Reqs /\ New.version = req[r].version /\ New.list = left /\ New.ok = ok
        /\ New.phase = phase
    BY <1>1, <2>2
  <2>2b. req' = [req EXCEPT ![r] = NoRequest] \/ req' = [req EXCEPT ![r] = New]
    BY <2>1
  <2> HIDE DEF New
  <2>4. req' \in [Requests -> Reqs] /\ \A q \in Requests : q # r => req'[q] = req[q]
    BY <1>1, <1>4, <2>2a, <2>2b
  <2>5. \/ req'[r] = NoRequest
        \/ /\ req'[r].version = req[r].version /\ req'[r].list = left /\ req'[r].ok = ok
           /\ req'[r].phase = phase
    BY <1>1, <2>2a, <2>2b
  <2> QED BY <1>1, <1>2, <1>4, <2>2, <2>3, <2>4, <2>5, RequestIInv DEF resolver, adapter
<1>8. CASE Install(r)
  <2>1. /\ UNCHANGED <<family, settings, page, version, doctor, typed, sent, faults>>
        /\ req[r].phase = "install"
    BY <1>8 DEF Install
  <2>2. CASE ~Current(r)
    <3>1. /\ req' = [req EXCEPT ![r] = [NoRequest EXCEPT !.phase = "endpoints", !.version = version]]
          /\ UNCHANGED <<client, cache, cacheFile>>
      BY <1>8, <2>2 DEF Install, Retry
    <3>2. req' \in [Requests -> Reqs] /\ \A q \in Requests : q # r => req'[q] = req[q]
      BY <1>1, <1>4, <3>1
    <3>3. req'[r].version = version /\ req'[r].list = {} /\ req'[r].ok = {}
      BY <1>1, <1>4, <3>1
    <3> QED BY <1>1, <1>2, <2>1, <3>1, <3>2, <3>3, RequestIInv
  <2>3. CASE Current(r)
    <3>1. /\ req' = [req EXCEPT ![r] = NoRequest]
          /\ \/ UNCHANGED <<client, cache, cacheFile>>
             \/ /\ client' = req[r].ok /\ cache' = Remembered(req[r].ok)
                /\ cacheFile' \in {cacheFile, cache'}
      BY <1>8, <2>3 DEF Install, FileAfter
    <3>2. req' \in [Requests -> Reqs] /\ \A q \in Requests : q # r => req'[q] = req[q]
      BY <1>1, <1>4, <3>1
    <3>3. req'[r] = NoRequest /\ req[r].version = version
      BY <1>1, <2>3, <3>1 DEF Current
    <3>4. cache' \subseteq Endpoints /\ cacheFile' \subseteq Endpoints /\ client' \subseteq Endpoints
      BY <1>1, <1>3, <3>1
    <3>5. ~DropDue /\ ~discovery => client' \cap Gone = {}
      BY <1>2, <2>1, <3>1, <3>3
    <3> QED BY <1>1, <1>4, <2>1, <3>2, <3>3, <3>4, <3>5, RequestIInv
  <2> QED BY <2>2, <2>3
<1>9. CASE InstallNodes(r)
  <2>1. /\ UNCHANGED <<family, settings, page, resolver, version, doctor, typed, sent, faults>>
        /\ req[r].phase = "install"
    BY <1>9 DEF InstallNodes
  <2>2. CASE ~Current(r)
    <3>1. /\ req' = [req EXCEPT ![r] = [NoRequest EXCEPT !.phase = "endpoints", !.version = version]]
          /\ UNCHANGED client
      BY <1>9, <2>2 DEF InstallNodes, Retry
    <3>2. req' \in [Requests -> Reqs] /\ \A q \in Requests : q # r => req'[q] = req[q]
      BY <1>1, <1>4, <3>1
    <3>3. req'[r].version = version /\ req'[r].list = {} /\ req'[r].ok = {}
      BY <1>1, <1>4, <3>1
    <3> QED BY <1>1, <1>2, <2>1, <3>1, <3>2, <3>3, RequestIInv DEF resolver
  <2>3. CASE Current(r)
    <3>1. client' = req[r].ok /\ req' = [req EXCEPT ![r].phase = "mark"]
      BY <1>9, <2>3 DEF InstallNodes
    <3>2. req' \in [Requests -> Reqs] /\ \A q \in Requests : q # r => req'[q] = req[q]
      BY <1>1, <3>1
    <3>3. req'[r].phase = "mark" /\ req'[r].version = version /\ req[r].version = version
      BY <1>1, <2>3, <3>1 DEF Current
    <3> QED BY <1>1, <1>2, <2>1, <3>1, <3>2, <3>3, RequestIInv DEF resolver
  <2> QED BY <2>2, <2>3
<1>10. CASE MarkHealthy(r) \/ HealthClears(r)
  <2>1. /\ UNCHANGED <<family, settings, page, adapter, doctor, typed, sent, faults>>
        /\ req' = [req EXCEPT ![r] = NoRequest]
        /\ cache' \in {Remembered(req[r].ok), {}} /\ cacheFile' \in {cacheFile, cache', {}}
    BY <1>10 DEF MarkHealthy, HealthClears, FileAfter
  <2>2. req' \in [Requests -> Reqs] /\ \A q \in Requests : q # r => req'[q] = req[q]
    BY <1>1, <1>4, <2>1
  <2>3. req'[r] = NoRequest /\ cache' \subseteq Endpoints /\ cacheFile' \subseteq Endpoints
    BY <1>1, <1>3, <2>1
  <2> QED BY <1>1, <1>2, <1>4, <2>1, <2>2, <2>3, RequestIInv DEF adapter
<1>11. CASE HealthFails(r)
  <2>1. /\ UNCHANGED <<family, settings, page, resolver, doctor, typed, sent>>
        /\ faults < MaxFaults /\ faults' = faults + 1
        /\ client' = {} /\ version' = version + 1
        /\ req' = [req EXCEPT ![r].phase = "clear"]
    BY <1>11 DEF HealthFails, Dropped
  <2>2. req' \in [Requests -> Reqs] /\ \A q \in Requests : q # r => req'[q] = req[q]
    BY <1>1, <2>1
  <2>3. req'[r].phase = "clear" /\ req'[r].version = req[r].version /\ req[r].version \in Nat
    BY <1>1, <2>1
  <2>4. /\ faults' \in 0..MaxFaults /\ version' \in Nat /\ version <= version'
        /\ version' - version <= faults' - faults /\ req'[r].version <= version'
    BY <1>1, <2>1, <2>3, RpcAssumption
  <2> QED BY <1>1, <2>1, <2>2, <2>3, <2>4, RequestIInv DEF resolver
<1> QED BY <1>5, <1>6, <1>7, <1>8, <1>9, <1>10, <1>11

\* The doctor reads the settings in force when a pass begins, and sends each
\* endpoint its own secret.
LEMMA DoctorIInv ==
    ASSUME IInv, checkNetwork \/ Publish
    PROVE  IInv'
<1>0. Types /\ Counted /\ BuildInv /\ ClientInv /\ KeysInv /\ DoctorInv
  BY DEF IInv
<1>1. UNCHANGED <<family, settings, page, resolver, adapter, req, typed, faults>>
  BY DEF checkNetwork, Publish
<1>2. (DropDue' <=> DropDue) /\ Todos' = Todos /\ (Settled' <=> Settled)
  BY <1>1, SamePage DEF Settled
<1>3. sent' \subseteq typed
  <2>1. CASE checkNetwork
    BY <1>0, <2>1, ListFacts, SentFacts DEF checkNetwork, KeysInv
  <2>2. CASE Publish
    BY <1>0, <2>2 DEF Publish, KeysInv
  <2> QED BY <2>1, <2>2
<1>4. /\ trigger' \in BOOLEAN /\ check' \in {"idle", "fresh", "stale"} /\ shown' \in {"fresh", "stale"}
  BY <1>0 DEF checkNetwork, Publish, Types
<1>5. Types'
  BY <1>0, <1>1, <1>2, <1>3, <1>4 DEF Types, settings, resolver, adapter
<1>6. Counted' /\ BuildInv' /\ KeysInv'
  BY <1>0, <1>1, <1>2, <1>3 DEF Counted, BuildInv, KeysInv, settings, adapter, Keys
<1>7. ClientInv'
  BY <1>0, <1>1, <1>2 DEF ClientInv, adapter, settings, Gone, Listed
<1>8. DoctorInv'
  BY <1>0, <1>2 DEF DoctorInv, checkNetwork, Publish
<1> QED BY <1>5, <1>6, <1>7, <1>8 DEF IInv

\* A restart begins without clients and with the doctor triggered.
LEMMA RestartIInv ==
    ASSUME IInv, Restart
    PROVE  IInv'
<1>0. Types /\ Counted /\ BuildInv /\ ClientInv /\ KeysInv /\ DoctorInv
  BY DEF IInv
<1> USE DEF Restart
<1>1. /\ page' \in [phase : Phases, want : Wants, todo : Todos' \cup {<<>>}]
      /\ page'.phase = "idle" /\ ~DropDue'
  BY EndedPage
<1>2. Types'
  BY <1>0, <1>1, RpcAssumption DEF Types, settings, NoRequest
<1>3. Counted'
  BY <1>0, <1>1, RpcAssumption DEF Types, Counted, settings
<1>4. BuildInv' /\ ClientInv'
  BY DEF BuildInv, ClientInv, NoRequest
<1>5. KeysInv'
  BY <1>0, <1>1 DEF KeysInv, settings, Keys
<1>6. DoctorInv'
  BY DEF DoctorInv
<1> QED BY <1>2, <1>3, <1>4, <1>5, <1>6 DEF IInv

\* Nothing changes.
LEMMA StutterIInv ==
    ASSUME IInv, UNCHANGED vars
    PROVE  IInv'
<1>0. Types /\ Counted /\ BuildInv /\ ClientInv /\ KeysInv /\ DoctorInv
  BY DEF IInv
<1>1. UNCHANGED <<family, settings, page, resolver, adapter, req, doctor, typed, sent, faults>>
  BY DEF vars
<1>2. (DropDue' <=> DropDue) /\ Todos' = Todos /\ (Settled' <=> Settled)
  BY <1>1, SamePage DEF Settled
<1>3. Types'
  BY <1>0, <1>1, <1>2 DEF Types, settings, resolver, adapter, doctor
<1>4. Counted' /\ BuildInv' /\ KeysInv' /\ DoctorInv'
  BY <1>0, <1>1, <1>2 DEF Counted, BuildInv, KeysInv, DoctorInv, settings, adapter, doctor, Keys
<1>5. ClientInv'
  BY <1>0, <1>1, <1>2 DEF ClientInv, adapter, settings, Gone, Listed
<1> QED BY <1>3, <1>4, <1>5 DEF IInv

-----------------------------------------------------------------------------
(* The theorems.                                                           *)

\* The inductive invariant holds in every reachable state.
LEMMA Inductive == Spec => []IInv
<1>1. IInv /\ [Next]_vars => IInv'
  BY PutIInv, VerifyIInv, SaveIInv, DropClientIInv, ClearCacheIInv, RefreshIInv, RequestStepIInv,
     DoctorIInv, RestartIInv, StutterIInv DEF Next
<1> QED BY <1>1, InitIInv, PTL DEF Spec

\* The state is well typed; in particular a client is dropped at most once per
\* save and per failed health check (Invalidate).
THEOREM TypeCorrect == Spec => []TypeOK
<1>1. IInv => TypeOK
  <2> SUFFICES ASSUME IInv PROVE TypeOK
    OBVIOUS
  <2>1. Types /\ Counted
    BY DEF IInv
  <2>2. version \in 0..(MaxChanges + MaxFaults)
    BY <2>1, RpcAssumption DEF Types, Counted
  <2> QED BY <2>1, <2>2 DEF TypeOK, Types, Phases
<1> QED BY <1>1, Inductive, PTL

\* With node discovery off, an endpoint that was taken out of the settings is in
\* no client once the settings request is answered, whatever builds were under
\* way when it was saved (Adapter.client, initService and install against
\* Invalidate).
THEOREM RemovedIsGone == Spec => []RemovedProviderGone
<1>1. IInv => RemovedProviderGone
  BY DEF IInv, ClientInv, RemovedProviderGone, Settled, DropDue, Gone
<1> QED BY <1>1, Inductive, PTL

\* A provider key is sent to no endpoint but the one it was typed next to
\* (Resolver.Headers, CarryHeadersForward).
THEOREM SecretsStayHome == Spec => []KeysStayHome
<1>1. IInv => KeysStayHome
  BY DEF IInv, KeysInv, KeysStayHome
<1> QED BY <1>1, Inductive, PTL

\* A doctor at rest shows what it found under the settings in force
\* (Doctor.Refresh, Doctor.loop).
THEOREM DoctorCatchesUp == Spec => []DoctorNotStale
<1>1. IInv => DoctorNotStale
  BY DEF IInv, DoctorInv, DoctorNotStale
<1> QED BY <1>1, Inductive, PTL

=============================================================================
