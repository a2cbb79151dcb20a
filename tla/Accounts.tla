------------------------------ MODULE Accounts ------------------------------
(***************************************************************************)
(* The wallets of one space (space/manager.go, account/account.go): which  *)
(* key each one stands for, which networks it is enabled on, and the       *)
(* requests that look a wallet up first and borrow its key later.  Every   *)
(* operation runs under m.mu, but Unlock and ChangePassword derive a key   *)
(* outside it from a copy of the file; a write of space.json may fail      *)
(* before or after its rename.  Addresses are perfect: a family and the    *)
(* key behind it.  Labels are left out, so renaming a wallet is the write  *)
(* it makes.                                                               *)
(***************************************************************************)
EXTENDS Absent, Naturals, FiniteSets, FiniteSetsExt, Functions

CONSTANTS
    EvmNetworks, TronNetworks, SolanaNetworks,
    SecpKeys, EdKeys,   \* private keys a user may import, by curve; among them
                        \* keys of the space's own seed, exported before
    Legacy,     \* sets of indexes a migrated space may start with
    Ids,        \* account ids; the code draws them at random, never twice
    Requests,
    MaxIndex,   \* the largest derivation index
    MaxAccounts,
    MaxFaults   \* bound: failed writes

Families == {"evm", "tron", "solana"}
Networks == EvmNetworks \cup TronNetworks \cup SolanaNetworks
Keys == SecpKeys \cup EdKeys
Indexes == 0..MaxIndex

FamilyOf(n) == IF n \in EvmNetworks THEN "evm" ELSE IF n \in TronNetworks THEN "tron" ELSE "solana"

CurveOf(f) == IF f = "solana" THEN "ed25519" ELSE "secp256k1"
CurveOfKey(k) == IF k \in EdKeys THEN "ed25519" ELSE "secp256k1"
FamiliesOn(curve) == {f \in Families : CurveOf(f) = curve}

\* The seed has a key per family and index, and an address names the key behind it.
DerivedKey(f, i) == <<f, i>>
DerivedAddress(f, i) == <<f, DerivedKey(f, i)>>
DerivedAddresses(i) == [f \in {"evm", "tron"} |-> DerivedAddress(f, i)]
ImportedAddresses(k) == [f \in FamiliesOn(CurveOfKey(k)) |-> <<f, k>>]

ASSUME AccountsAssumption ==
    /\ Legacy \subseteq SUBSET Indexes /\ None \notin Keys /\ None \notin Indexes /\ None \notin Families
    /\ \A f \in Families, i \in Indexes : DerivedKey(f, i) \in Keys => CurveOfKey(DerivedKey(f, i)) = CurveOf(f)
    /\ MaxIndex \in Nat /\ MaxAccounts \in Nat /\ MaxFaults \in Nat

VARIABLES
    seed,       \* the space has a mnemonic
    files,      \* space.json as the manager holds it
    disk,       \* space.json
    payload,    \* the open session: its imported keys, or None when locked
    issued,     \* ids given out
    migrated,   \* ids of wallets made by ImportLegacy
    requests,   \* requests between looking a wallet up and borrowing its key
    derivation, \* the Unlock or ChangePassword under way, with the keys of the
                \* vault it read; the per-space lock admits one at a time
    overlapped, \* history: a key was imported while one was under way
    faults

unlocking == <<derivation, overlapped>>
accountsVars == <<seed, files, disk, payload, issued, migrated, requests, unlocking, faults>>

NoRequest == [id |-> None, network |-> None, from |-> None, lent |-> None]

\* A file: its wallets by id, and the imported keys its vault holds by wallet.
Wallets(file) == DOMAIN file.accounts
BoundTo(item, n) == n \in item.networks
HasAddress(item, f) == f \in DOMAIN item.addresses

AccountsTypeOK ==
    /\ seed \in BOOLEAN /\ overlapped \in BOOLEAN /\ faults \in 0..MaxFaults
    /\ derivation = None \/ derivation.op \in {"unlock", "change"}
    /\ issued \subseteq Ids /\ migrated \subseteq issued
    /\ \A file \in {files, disk} :
         /\ Wallets(file) \subseteq issued
         /\ Cardinality(Wallets(file)) <= MaxAccounts \/ Wallets(file) \subseteq migrated
         /\ \A a \in Wallets(file) :
              LET item == file.accounts[a] IN
              /\ item.kind \in {"derived", "imported"} /\ item.family \in Families \cup {None}
              /\ item.index \in Indexes \cup {None} /\ item.key \in Keys \cup {None}
              /\ DOMAIN item.addresses \subseteq Families /\ item.networks \subseteq Networks
    /\ \A r \in Requests : requests[r].id \in issued \cup {None}

LegacyItem(i) ==
    [kind |-> "derived", family |-> None, index |-> i, key |-> None,
     addresses |-> DerivedAddresses(i), networks |-> {}]

\* A space of Create, or one that ImportLegacy has published: one wallet per
\* index, with no family and no network.
AccountsInit ==
    /\ \E indexes \in Legacy \cup {{}} : \E ids \in SUBSET Ids :
         /\ Cardinality(ids) = Cardinality(indexes) /\ seed \in {TRUE, indexes # {}}
         /\ \E at \in Bijection(ids, indexes) :
              files = [accounts |-> [a \in ids |-> LegacyItem(at[a])], vault |-> <<>>]
         /\ issued = ids /\ migrated = ids
    /\ disk = files /\ payload = <<>>
    /\ requests = [r \in Requests |-> NoRequest]
    /\ derivation = None /\ overlapped = FALSE /\ faults = 0

-----------------------------------------------------------------------------
(* Writing space.json.                                                     *)

Outcomes == {"ok"} \cup (IF faults < MaxFaults THEN {"failed", "unsynced"} ELSE {})

\* Memory follows the disk only when the write reports success.
Save(file, outcome) ==
    /\ files' = IF outcome = "ok" THEN file ELSE files
    /\ disk' = IF outcome = "failed" THEN disk ELSE file
    /\ faults' = IF outcome = "ok" THEN faults ELSE faults + 1

\* Mutant: the vault is sealed from the payload as it was.
SealedTooEarly(accounts, keys, outcome) ==
    /\ Save([accounts |-> accounts, vault |-> payload], outcome)
    /\ payload' = IF outcome = "ok" THEN keys ELSE payload

\* resealAndSaveLocked: the payload is edited first and the edit undone when
\* the write fails.
Reseal(accounts, keys, outcome) ==
    /\ Save([accounts |-> accounts, vault |-> keys], outcome)
    /\ payload' = IF outcome = "ok" THEN keys ELSE payload

SaveAccounts(accounts, outcome) ==
    Save([files EXCEPT !.accounts = accounts], outcome) /\ UNCHANGED payload

With(id, item) == [a \in Wallets(files) \cup {id} |-> IF a = id THEN item ELSE files.accounts[a]]
Bound(id, ns) == [files.accounts EXCEPT ![id].networks = @ \cup ns]

QuotaExceeded(file) == Cardinality(Wallets(file)) >= MaxAccounts

-----------------------------------------------------------------------------
(* Wallets are made.                                                       *)

\* The indexes of derived wallets that are enabled on one of the networks.
UsedIndexes(ns) ==
    {files.accounts[a].index : a \in {b \in Wallets(files) :
        files.accounts[b].kind = "derived" /\ \E n \in ns : BoundTo(files.accounts[b], n)}}

\* Mutant: a key on another network gets a second wallet.
NoneAt(f, i) == {}

\* The wallets that already stand for the key of an index.
WalletsAt(f, i) ==
    {a \in Wallets(files) : /\ files.accounts[a].kind = "derived"
                            /\ files.accounts[a].family = f /\ files.accounts[a].index = i}

\* deriveAccount lets through networks of one family.
OneFamily(ns) == \A n, o \in ns : FamilyOf(n) = FamilyOf(o)

DeriveNetworks(ns) ==
    LET f == FamilyOf(CHOOSE n \in ns : TRUE)
        free == Indexes \ UsedIndexes(ns)
        next == Min(free)
    IN
    /\ OneFamily(ns)
    /\ payload # None /\ seed /\ free # {}
    /\ \E outcome \in Outcomes :
         \/ \E a \in WalletsAt(f, next) :
              /\ SaveAccounts(Bound(a, ns), outcome)
              /\ UNCHANGED issued
         \/ /\ WalletsAt(f, next) = {} /\ ~QuotaExceeded(files)
            /\ \E id \in Ids \ issued :
                 /\ issued' = issued \cup {id}
                 /\ SaveAccounts(With(id,
                      [kind |-> "derived", family |-> f, index |-> next, key |-> None,
                       addresses |-> [g \in {f} |-> DerivedAddress(f, next)],
                       networks |-> ns]), outcome)
    /\ UNCHANGED <<seed, migrated, requests, unlocking>>

\* importAccount lets through networks of one curve, and parseImportedKey
\* reads the key on that curve.
OneCurve(ns) == \A n, o \in ns : CurveOf(FamilyOf(n)) = CurveOf(FamilyOf(o))
parseImportedKey(curve, k) == CurveOfKey(k) = curve

ImportNetworks(ns, k) ==
    LET same == {a \in Wallets(files) : files.accounts[a].key = k} IN
    /\ OneCurve(ns) /\ parseImportedKey(CurveOf(FamilyOf(CHOOSE n \in ns : TRUE)), k)
    /\ payload # None
    /\ \E outcome \in Outcomes :
         \/ \E a \in same :
              /\ ~(ns \subseteq files.accounts[a].networks)
              /\ SaveAccounts(Bound(a, ns), outcome)
              /\ UNCHANGED <<issued, overlapped>>
         \/ /\ same = {} /\ ~QuotaExceeded(files)
            /\ overlapped' = (overlapped \/ derivation # None)
            /\ \E id \in Ids \ issued :
                 /\ issued' = issued \cup {id}
                 /\ Reseal(With(id,
                      [kind |-> "imported", family |-> None, index |-> None, key |-> k,
                       addresses |-> ImportedAddresses(k), networks |-> ns]),
                      [a \in DOMAIN payload \cup {id} |-> IF a = id THEN k ELSE payload[a]],
                      outcome)
    /\ UNCHANGED <<seed, migrated, requests, derivation>>

-----------------------------------------------------------------------------
(* Wallets are changed.  None of these asks for an open session but        *)
(* DeleteAccount, which has asked for the password before and holds the    *)
(* per-space lock.                                                         *)

\* Mutant: the family of a wallet is not looked at.
BindAnything(item, f) == TRUE

\* A derived wallet stays in its family; a migrated one may take one of the
\* two it was shown with; an imported key serves the families of its curve.
MayBind(item, f) ==
    /\ item.kind = "derived" /\ item.family # None => item.family = f
    /\ HasAddress(item, f)

\* The first binding of a migrated wallet gives it its family and drops the
\* other address.
Rebound(item, f, n) ==
    LET settled == IF item.kind = "derived" /\ item.family = None
                   THEN [item EXCEPT !.family = f, !.addresses = Restrict(@, DOMAIN @ \cap {f})]
                   ELSE item
    IN  [settled EXCEPT !.networks = @ \cup {n}]

BindNetwork(a, n) ==
    /\ MayBind(files.accounts[a], FamilyOf(n))
    /\ \E outcome \in Outcomes :
         SaveAccounts(With(a, Rebound(files.accounts[a], FamilyOf(n), n)), outcome)
    /\ UNCHANGED <<seed, issued, migrated, requests, unlocking>>

UnbindNetwork(a, n) ==
    /\ BoundTo(files.accounts[a], n) /\ Cardinality(files.accounts[a].networks) # 1
    /\ \E outcome \in Outcomes :
         SaveAccounts([files.accounts EXCEPT ![a].networks = @ \ {n}], outcome)
    /\ UNCHANGED <<seed, issued, migrated, requests, unlocking>>

\* The label is not modelled; after an unsynced write this one repairs the disk.
RenameAccount(a) ==
    /\ \E outcome \in Outcomes : SaveAccounts(files.accounts, outcome)
    /\ UNCHANGED <<seed, issued, migrated, requests, unlocking>>

DeleteAccount(a) ==
    LET rest == Restrict(files.accounts, Wallets(files) \ {a}) IN
    /\ payload # None /\ derivation = None
    /\ \E outcome \in Outcomes :
         IF files.accounts[a].kind = "imported"
         THEN Reseal(rest, Restrict(payload, DOMAIN payload \ {a}), outcome)
         ELSE SaveAccounts(rest, outcome)
    /\ UNCHANGED <<seed, issued, migrated, requests, unlocking>>

-----------------------------------------------------------------------------
(* Sessions.                                                               *)

\* The key has the wallet's fingerprint and produces exactly its addresses.
verifyImportedKey(item, key) == item.key = key /\ item.addresses = ImportedAddresses(key)

verifyPayload(file) ==
    \A a \in Wallets(file) :
        LET item == file.accounts[a] IN
        IF item.kind = "derived"
        THEN /\ seed
             /\ IF item.family = None THEN item.addresses = DerivedAddresses(item.index)
                ELSE /\ HasAddress(item, item.family)
                     /\ item.addresses[item.family] = DerivedAddress(item.family, item.index)
        ELSE a \in DOMAIN file.vault /\ verifyImportedKey(item, file.vault[a])

\* The right password was given, and the vault opens and fits the file as read
\* here.  (A call that is refused changes nothing of this module.)
Derive(op) ==
    /\ derivation = None /\ verifyPayload(files)
    /\ derivation' = [op |-> op, vault |-> files.vault]
    /\ UNCHANGED <<seed, files, disk, payload, issued, migrated, requests, overlapped, faults>>

Under(op) == derivation # None /\ derivation.op = op

\* Unlock replaces whatever session there is.
Unlock ==
    /\ Under("unlock")
    /\ payload' = derivation.vault /\ derivation' = None
    /\ UNCHANGED <<seed, files, disk, issued, migrated, requests, overlapped, faults>>

\* ChangePassword puts the vault it sealed into the file as it is now, and
\* replaces the session if there still is one.
ChangePassword ==
    /\ Under("change")
    /\ \E outcome \in Outcomes :
         /\ Save([files EXCEPT !.vault = derivation.vault], outcome)
         /\ payload' = IF outcome = "ok" /\ payload # None THEN derivation.vault ELSE payload
    /\ derivation' = None
    /\ UNCHANGED <<seed, issued, migrated, requests, overlapped>>

Lock ==
    /\ payload # None /\ payload' = None
    /\ UNCHANGED <<seed, files, disk, issued, migrated, requests, unlocking, faults>>

Restart ==
    /\ files' = disk /\ payload' = None /\ derivation' = None
    /\ requests' = [r \in Requests |-> NoRequest]
    /\ UNCHANGED <<seed, disk, issued, migrated, overlapped, faults>>

-----------------------------------------------------------------------------
(* A request that spends.                                                  *)

\* The address the key would sign for, or None when the key is refused.
privateKeyFor(item, f) ==
    IF item.kind = "derived"
    THEN IF (item.family = None /\ ~HasAddress(item, f)) \/ item.family \notin {None, f}
         THEN None ELSE DerivedAddress(f, item.index)
    ELSE IF CurveOfKey(item.key) # CurveOf(f) THEN None ELSE <<f, item.key>>

\* decodePlatformTransfer looks the sender's address up.
BeginRequest(r, a, n) ==
    LET item == files.accounts[a] IN
    /\ requests[r] = NoRequest
    /\ BoundTo(item, n) /\ HasAddress(item, FamilyOf(n))
    /\ requests' = [requests EXCEPT ![r] = [NoRequest EXCEPT
                      !.id = a, !.network = n, !.from = item.addresses[FamilyOf(n)]]]
    /\ UNCHANGED <<seed, files, disk, payload, issued, migrated, unlocking, faults>>

\* Mutant: the wallet is looked up by what it is enabled on.
findByNetwork(id, n) == {a \in Wallets(files) : BoundTo(files.accounts[a], n)}

findAccount(id, n) == {a \in Wallets(files) : a = id}

\* WithKey, any time later.
WithKey(r) ==
    LET n == requests[r].network IN
    /\ requests[r].id # None /\ requests[r].lent = None
    /\ \/ \E a \in findAccount(requests[r].id, n) :
            LET key == privateKeyFor(files.accounts[a], FamilyOf(n)) IN
            /\ payload # None /\ BoundTo(files.accounts[a], n) /\ key # None
            /\ files.accounts[a].kind = "imported" => a \in DOMAIN payload
            /\ requests' = [requests EXCEPT ![r].lent = key]
       \/ requests' = [requests EXCEPT ![r] = NoRequest]
    /\ UNCHANGED <<seed, files, disk, payload, issued, migrated, unlocking, faults>>

Answer(r) ==
    /\ requests[r].lent # None
    /\ requests' = [requests EXCEPT ![r] = NoRequest]
    /\ UNCHANGED <<seed, files, disk, payload, issued, migrated, unlocking, faults>>

AccountsNext ==
    \/ \E ns \in (SUBSET Networks) \ {{}} :
         DeriveNetworks(ns) \/ \E k \in Keys : ImportNetworks(ns, k)
    \/ \E a \in Wallets(files) :
         \/ RenameAccount(a) \/ DeleteAccount(a)
         \/ \E n \in Networks : BindNetwork(a, n) \/ UnbindNetwork(a, n)
         \/ \E n \in Networks, r \in Requests : BeginRequest(r, a, n)
    \/ \E r \in Requests : WithKey(r) \/ Answer(r)
    \/ \E op \in {"unlock", "change"} : Derive(op)
    \/ Unlock \/ ChangePassword \/ Lock \/ Restart

AccountsSpec == AccountsInit /\ [][AccountsNext]_accountsVars

-----------------------------------------------------------------------------
(* Properties.                                                             *)

\* The wallets have an address in common, so one key is behind both.
SameKey(x, y) ==
    \E f \in DOMAIN x.addresses \cap DOMAIN y.addresses : x.addresses[f] = y.addresses[f]

\* The seed never gives two wallets for one key, nor does importing one key
\* twice: not after unbinding, deleting and making them again, nor after a
\* failed write and a restart (DeriveNetworks: "Reuse the wallet and add a
\* binding instead of persisting duplicate key identities").  A derived and an
\* imported wallet may share a key, and so may wallets that came from a
\* migration; see the README.
OneWalletPerKeyOfAKind ==
    \A a, b \in Wallets(files) \ migrated :
        a # b /\ SameKey(files.accounts[a], files.accounts[b])
          => files.accounts[a].kind # files.accounts[b].kind

\* A wallet that is enabled on a network can receive there and spend what it
\* receives: it has an address for the family, and its key is not refused
\* (BindNetwork, DeriveNetworks, ImportNetworks against privateKeyFor).  An
\* import that ran beside an Unlock or a ChangePassword is the exception: the
\* session may then lack its key.
BoundIsSpendable ==
    \A a \in Wallets(files) : \A n \in files.accounts[a].networks :
        LET item == files.accounts[a] f == FamilyOf(n) IN
        /\ HasAddress(item, f)
        /\ (item.kind = "imported" /\ payload # None /\ ~overlapped => a \in DOMAIN payload)
        /\ privateKeyFor(item, f) = item.addresses[f]

\* Whatever was written last, whole, failed or unsynced, and whatever unlocks
\* and password changes ran meanwhile, the space opens again after a restart:
\* every wallet on disk agrees with the vault beside it (verifyPayload refuses
\* the whole space otherwise).  Imports beside them are the exception again.
SpaceReopens == ~overlapped => verifyPayload(disk) /\ verifyPayload(files)

\* A key borrowed by a request signs for the address the request was made
\* for, whatever happened to the wallet in between (withKey).
SignsForItsAddress ==
    \A r \in Requests : requests[r].lent # None => requests[r].lent = requests[r].from
=============================================================================
