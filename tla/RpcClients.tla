----------------------------- MODULE RpcClients -----------------------------
(***************************************************************************)
(* The endpoints of one network: what the settings name, what the resolver *)
(* of rpcpool remembers, and the client that the adapter of the network's  *)
(* family keeps.  A settings request saves first and invalidates           *)
(* afterwards, one adapter after the other; requests that need a client    *)
(* look endpoints up, probe them and install the client, each in a         *)
(* critical section of its own.  The doctor probes on its own schedule.    *)
(***************************************************************************)
EXTENDS Naturals, Sequences, FiniteSets

CONSTANTS
    Custom,     \* endpoints a user may configure
    Official,   \* the fallbacks in the registry
    Public,     \* endpoints that node discovery may suggest
    Secrets,    \* provider credentials
    Cacheable,  \* endpoints whose URL carries no credential
    Requests,   \* concurrent requests that need a client
    None, Absent, Keep,
    MaxChanges, \* bound: saves of the settings
    MaxFaults   \* bound: failed health checks and restarts

Endpoints == Custom \cup Official \cup Public

\* chains.All() yields the adapters in this order.
Adapters == <<"evm", "solana", "tron">>

\* A network override: which custom endpoints are listed, and the secret
\* stored for each.
Overrides == [Custom -> {Absent, None} \cup Secrets]

ASSUME RpcAssumption ==
    /\ MaxChanges \in Nat /\ MaxFaults \in Nat
    /\ {None, Absent, Keep} \cap (Secrets \cup Endpoints) = {}
    /\ Custom \cap (Official \cup Public) = {} /\ Cacheable \subseteq Endpoints

VARIABLES
    family,     \* the adapter that serves the network
    override, discovery,    \* HomeManager
    changes,    \* how often the settings were saved
    page,       \* the settings request under way
    cache, cacheFile,       \* Resolver.cache and cache/rpc-nodes.json
    client, version,        \* Adapter.clients and Adapter.version
    req,        \* the requests that look for a client
    trigger, check, shown,  \* the doctor: channel, pass under way, snapshot
    typed, sent, \* which secret was typed for, and sent to, which endpoint
    faults      \* health checks that failed, restarts

settings == <<override, discovery, changes>>
resolver == <<cache, cacheFile>>
adapter == <<client, version>>
doctor == <<trigger, check, shown>>
vars == <<family, settings, page, resolver, adapter, req, doctor, typed, sent, faults>>

NoPage == [phase |-> "idle", want |-> [c \in Custom |-> Absent], todo |-> <<>>]
NoRequest == [phase |-> "idle", version |-> 0, list |-> {}, ok |-> {}]

\* What the doctor has read is out of date as soon as settings are saved.
Outdated(s) == IF s = "idle" THEN "idle" ELSE "stale"
SettingsSaved ==
    /\ changes' = changes + 1
    /\ check' = Outdated(check) /\ shown' = "stale" /\ UNCHANGED trigger

NoOverride == [c \in Custom |-> Absent]
Listed(o) == {c \in Custom : o[c] # Absent}

\* What each endpoint is sent along with a request, as pairs.
Keys(o) == {<<o[c], c>> : c \in {d \in Custom : o[d] \in Secrets}}

TypeOK ==
    /\ family \in {"evm", "solana", "tron"}
    /\ override \in Overrides /\ discovery \in BOOLEAN /\ changes \in 0..MaxChanges
    /\ page.phase \in {"idle", "verify", "save", "invalidate", "clear", "refresh"}
    /\ cache \subseteq Endpoints /\ cacheFile \subseteq Endpoints
    /\ client \subseteq Endpoints /\ version \in 0..(MaxChanges + MaxFaults)
    /\ \A r \in Requests : req[r].list \cup req[r].ok \subseteq Endpoints
    /\ trigger \in BOOLEAN /\ check \in {"idle", "fresh", "stale"} /\ shown \in {"fresh", "stale"}
    /\ typed \cup sent \subseteq Secrets \X Endpoints

Init ==
    /\ family \in {"evm", "solana", "tron"}
    /\ override = NoOverride /\ discovery \in BOOLEAN /\ changes = 0
    /\ page = NoPage
    /\ cache = {} /\ cacheFile = {} /\ client = {} /\ version = 0
    /\ req = [r \in Requests |-> NoRequest]
    /\ trigger = TRUE /\ check = "idle" /\ shown = "stale"
    /\ typed = {} /\ sent = {} /\ faults = 0

-----------------------------------------------------------------------------
(* The resolver.                                                           *)

\* Mutant: one header set for the network, whatever the endpoint.
AnyHeaders(o, e) == IF Keys(o) = {} THEN None ELSE (CHOOSE k \in Keys(o) : TRUE)[1]

\* Headers: the credentials stored for this endpoint and no other.
Headers(o, e) == IF e \in Custom /\ o[e] \in Secrets THEN o[e] ELSE None

SentTo(E) == {<<Headers(override, e), e>> : e \in {d \in E : Headers(override, d) # None}}

\* discover and safeDynamicEndpoint: any safe part of what the service lists.
Discovered == IF family = "solana" THEN {} ELSE Public

\* The results Endpoints may have.  A cached list counts while it has not
\* expired and some of it is still safe; otherwise discovery is asked, and
\* when that fails too the official endpoints are left.
ResolverLists ==
    IF Listed(override) # {} THEN {Listed(override) \cup Official}
    ELSE IF ~discovery THEN {Official}
    ELSE {S \cup Official : S \in (SUBSET cache) \cup (SUBSET Discovered)}

\* Tron asks the settings first and then does without the fallbacks.
EndpointLists ==
    IF family = "tron" /\ Listed(override) # {} THEN {Listed(override)} ELSE ResolverLists

\* The file is written on a best-effort basis.
FileAfter(c) == cacheFile' \in {cacheFile, c}

\* MarkHealthy: nothing is remembered while an override names endpoints.
Remembered(E) == IF Listed(override) # {} THEN cache ELSE cache \cup (E \cap Cacheable)

-----------------------------------------------------------------------------
(* A settings page.                                                        *)

\* CarryHeadersForward: a redacted endpoint keeps the secret stored for it.
CarryHeadersForward(previous, next) ==
    [c \in Custom |-> IF next[c] = Keep
                      THEN IF previous[c] \in Secrets THEN previous[c] ELSE None
                      ELSE next[c]]

putNetworkSettings ==
    /\ page.phase = "idle" /\ changes < MaxChanges
    /\ \E want \in [Custom -> {Absent, Keep, None} \cup Secrets] :
         /\ page' = [NoPage EXCEPT !.phase = IF Listed(want) = {} THEN "save" ELSE "verify",
                                   !.want = want]
         /\ typed' = typed \cup Keys(want)
    /\ UNCHANGED <<family, settings, resolver, adapter, req, doctor, sent, faults>>

\* verifyRPCs stops at the first endpoint that does not answer.
verifyRPCs ==
    LET keys == Keys(CarryHeadersForward(override, page.want)) IN
    /\ page.phase = "verify"
    /\ \/ sent' = sent \cup keys /\ page' = [page EXCEPT !.phase = "save"]
       \/ \E asked \in SUBSET keys : sent' = sent \cup asked /\ page' = NoPage
    /\ UNCHANGED <<family, settings, resolver, adapter, req, doctor, typed, faults>>

\* SaveNetwork carries the secrets forward itself and writes; then the
\* handler goes on to invalidate every adapter.  An error ends it.
SaveNetwork ==
    /\ page.phase = "save"
    /\ \/ /\ override' = CarryHeadersForward(override, page.want)
          /\ SettingsSaved
          /\ page' = [NoPage EXCEPT !.phase = "invalidate", !.todo = Adapters]
       \/ page' = NoPage /\ UNCHANGED <<override, changes, doctor>>
    /\ UNCHANGED <<family, discovery, resolver, adapter, req, typed, sent, faults>>

deleteNetworkSettings ==
    /\ page.phase = "idle" /\ changes < MaxChanges
    /\ override' = NoOverride /\ SettingsSaved
    /\ page' = [NoPage EXCEPT !.phase = "invalidate", !.todo = Adapters]
    /\ UNCHANGED <<family, discovery, resolver, adapter, req, typed, sent, faults>>

\* patchDiscovery invalidates each network with its own adapter only.
patchDiscovery ==
    /\ page.phase = "idle" /\ changes < MaxChanges
    /\ discovery' \in BOOLEAN /\ SettingsSaved
    /\ page' = [NoPage EXCEPT !.phase = "invalidate", !.todo = <<family>>]
    /\ UNCHANGED <<family, override, resolver, adapter, req, typed, sent, faults>>

\* The first half of Invalidate, under the adapter's mutex.
Dropped == client' = {} /\ version' = version + 1

DropClient ==
    /\ page.phase = "invalidate"
    /\ IF Head(page.todo) = family THEN Dropped ELSE UNCHANGED adapter
    /\ page' = [page EXCEPT !.phase = "clear"]
    /\ UNCHANGED <<family, settings, resolver, req, doctor, typed, sent, faults>>

\* The second half, under the resolver's.
ClearCache ==
    /\ page.phase = "clear"
    /\ cache' = {} /\ FileAfter({})
    /\ page' = [page EXCEPT !.todo = Tail(@),
                            !.phase = IF Len(page.todo) = 1 THEN "refresh" ELSE "invalidate"]
    /\ UNCHANGED <<family, settings, adapter, req, doctor, typed, sent, faults>>

\* Mutant: the channel has no buffer, and nobody receives during a pass.
RefreshLost == trigger' = (trigger \/ check = "idle")

\* Doctor.Refresh: a channel of one, and no send when it is full.
Refreshed == trigger' = TRUE

Refresh ==
    /\ page.phase = "refresh"
    /\ Refreshed
    /\ page' = NoPage
    /\ UNCHANGED <<family, settings, resolver, adapter, req, check, shown, typed, sent, faults>>

-----------------------------------------------------------------------------
(* Requests that need a client.                                            *)

\* singleflight: Tron shares one build per network, Solana one per version.
Flying(r) ==
    \E q \in Requests \ {r} :
      /\ req[q].phase \in {"endpoints", "probe", "install", "mark"}
      /\ family = "tron" \/ (family = "solana" /\ req[q].version = version)

\* A cached client is returned at once; this is the other case.
Lookup(r) ==
    /\ req[r].phase = "idle" /\ client = {} /\ ~Flying(r)
    /\ req' = [req EXCEPT ![r] = [NoRequest EXCEPT !.phase = "endpoints", !.version = version]]
    /\ UNCHANGED <<family, settings, page, resolver, adapter, doctor, typed, sent, faults>>

ReadEndpoints(r) ==
    /\ req[r].phase = "endpoints"
    /\ \E list \in EndpointLists :
         req' = [req EXCEPT ![r].phase = "probe", ![r].list = list]
    /\ UNCHANGED <<family, settings, page, resolver, adapter, doctor, typed, sent, faults>>

\* One endpoint is asked for its chain, with its own credentials.  EVM stops
\* at the first that serves the network, the others try them all.
Probe(r) ==
    /\ req[r].phase = "probe"
    /\ \E e \in req[r].list, good \in BOOLEAN :
         LET left == req[r].list \ {e}
             ok == IF good THEN req[r].ok \cup {e} ELSE req[r].ok
         IN  /\ sent' = sent \cup SentTo({e})
             /\ req' = [req EXCEPT ![r] =
                  IF left = {} /\ ok = {} THEN NoRequest
                  ELSE [@ EXCEPT !.list = left, !.ok = ok,
                          !.phase = IF left = {} \/ (family = "evm" /\ good)
                                    THEN "install" ELSE "probe"]]
    /\ UNCHANGED <<family, settings, page, resolver, adapter, doctor, typed, faults>>

\* Mutant: what was built is installed whatever happened meanwhile.
InstallAnyway(r) == TRUE

\* No Invalidate since the request read the version.
Current(r) == req[r].version = version

\* The loop starts over, and reads the version again.
Retry(r) == req' = [req EXCEPT ![r] = [NoRequest EXCEPT !.phase = "endpoints", !.version = version]]

\* EVM and Tron install and report under one mutex; an existing client wins.
Install(r) ==
    /\ req[r].phase = "install" /\ family # "solana"
    /\ IF ~Current(r) THEN Retry(r) /\ UNCHANGED <<client, cache, cacheFile>>
       ELSE /\ req' = [req EXCEPT ![r] = NoRequest]
            /\ IF client # {} THEN UNCHANGED <<client, cache, cacheFile>>
               ELSE /\ client' = req[r].ok
                    /\ cache' = Remembered(req[r].ok) /\ FileAfter(cache')
    /\ UNCHANGED <<family, settings, page, version, doctor, typed, sent, faults>>

\* Solana reports after it has let go of the mutex.
InstallNodes(r) ==
    /\ req[r].phase = "install" /\ family = "solana"
    /\ IF ~Current(r) THEN Retry(r) /\ UNCHANGED client
       ELSE client' = req[r].ok /\ req' = [req EXCEPT ![r].phase = "mark"]
    /\ UNCHANGED <<family, settings, page, resolver, version, doctor, typed, sent, faults>>

MarkHealthy(r) ==
    /\ req[r].phase = "mark"
    /\ cache' = Remembered(req[r].ok) /\ FileAfter(cache')
    /\ req' = [req EXCEPT ![r] = NoRequest]
    /\ UNCHANGED <<family, settings, page, adapter, doctor, typed, sent, faults>>

\* Health: a client that does not answer is invalidated.
HealthFails(r) ==
    /\ req[r].phase = "idle" /\ client # {} /\ family # "solana" /\ faults < MaxFaults
    /\ faults' = faults + 1
    /\ Dropped
    /\ req' = [req EXCEPT ![r].phase = "clear"]
    /\ UNCHANGED <<family, settings, page, resolver, doctor, typed, sent>>

HealthClears(r) ==
    /\ req[r].phase = "clear"
    /\ cache' = {} /\ FileAfter({})
    /\ req' = [req EXCEPT ![r] = NoRequest]
    /\ UNCHANGED <<family, settings, page, adapter, doctor, typed, sent, faults>>

-----------------------------------------------------------------------------
(* The doctor, and a restart.                                              *)

\* loop: the ticker or the trigger starts a pass, which reads the endpoints
\* of the network once and probes each of them.
checkNetwork ==
    /\ check = "idle" /\ check' = "fresh"
    /\ trigger' \in {FALSE, trigger}
    /\ \E list \in ResolverLists : sent' = sent \cup SentTo(list)
    /\ UNCHANGED <<family, settings, page, resolver, adapter, req, shown, typed, faults>>

Publish ==
    /\ check # "idle"
    /\ shown' = check /\ check' = "idle"
    /\ UNCHANGED <<family, settings, page, resolver, adapter, req, trigger, typed, sent, faults>>

\* The settings are on disk; what the process remembered is not, but for the
\* cache file.
Restart ==
    /\ faults < MaxFaults /\ faults' = faults + 1
    /\ cache' = cacheFile /\ client' = {} /\ version' = 0
    /\ page' = NoPage /\ req' = [r \in Requests |-> NoRequest]
    /\ trigger' = TRUE /\ check' = "idle" /\ shown' = "stale"
    /\ UNCHANGED <<family, settings, cacheFile, typed, sent>>

Next ==
    \/ putNetworkSettings \/ verifyRPCs \/ SaveNetwork
    \/ deleteNetworkSettings \/ patchDiscovery
    \/ DropClient \/ ClearCache \/ Refresh
    \/ \E r \in Requests :
         \/ Lookup(r) \/ ReadEndpoints(r) \/ Probe(r)
         \/ Install(r) \/ InstallNodes(r) \/ MarkHealthy(r)
         \/ HealthFails(r) \/ HealthClears(r)
    \/ checkNetwork \/ Publish
    \/ Restart

Spec == Init /\ [][Next]_vars

-----------------------------------------------------------------------------
(* Properties.                                                             *)

\* No settings request is between its save and its last invalidation.
Settled == page.phase \notin {"invalidate", "clear", "refresh"}

\* An endpoint the user took out of the settings serves no further request
\* once the settings request is answered, whatever was being dialled when it
\* was saved: the version each build carries (evm/adapter.go client, tron
\* initService, solana install).  With node discovery on, the health cache can
\* break this; see the README.
RemovedProviderGone ==
    Settled /\ ~discovery => client \cap (Custom \ Listed(override)) = {}

\* A provider key travels only to the endpoint it was typed next to: with
\* saves that redact it, probes, dials and the doctor all under way while the
\* override changes (Resolver.Headers, CarryHeadersForward).
KeysStayHome == sent \subseteq typed

\* When the doctor rests, its snapshot was made under the settings in force:
\* a refresh that arrives during a pass is not lost (Doctor.Refresh).
DoctorNotStale == Settled /\ check = "idle" /\ ~trigger => shown = "fresh"

=============================================================================
