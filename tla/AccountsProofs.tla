--------------------------- MODULE AccountsProofs ---------------------------
(***************************************************************************)
(* Theorems about Accounts, for any networks, keys, migrated spaces and    *)
(* number of requests.                                                     *)
(***************************************************************************)
EXTENDS Accounts, FiniteSetTheorems, WellFoundedInduction, TLAPS

\* What can be behind an address: a key of the seed, or an imported one.
SomeKeys == (Families \X Indexes) \cup Keys

Addresses == UNION {[S -> Families \X SomeKeys] : S \in SUBSET Families}
Signers == (Families \X SomeKeys) \cup {None}
Items == [kind : {"derived", "imported"}, family : Families \cup {None},
          index : Indexes \cup {None}, key : Keys \cup {None},
          addresses : Addresses, networks : SUBSET Networks]
AccountSets == UNION {[S -> Items] : S \in SUBSET Ids}
Vaults == UNION {[S -> Keys] : S \in SUBSET Ids}
Files == [accounts : AccountSets, vault : Vaults]

\* A derived wallet has the address of its index; it is enabled within its
\* family, and nowhere as long as it has none.
DerivedWallet(x) ==
    /\ x.kind = "derived" /\ x.index \in Indexes /\ x.key = None
    /\ \/ /\ x.family = None /\ x.networks = {}
          /\ x.addresses = DerivedAddresses(x.index)
       \/ /\ x.family \in Families /\ \A n \in x.networks : FamilyOf(n) = x.family
          /\ x.addresses = [g \in {x.family} |-> DerivedAddress(x.family, x.index)]

\* An imported one has the addresses of its key and is enabled on its curve.
ImportedWallet(x) ==
    /\ x.kind = "imported" /\ x.family = None /\ x.index = None /\ x.key \in Keys
    /\ x.addresses = ImportedAddresses(x.key)
    /\ \A n \in x.networks : CurveOf(FamilyOf(n)) = CurveOfKey(x.key)

\* A file whose wallets agree with its vault, unless a key was imported beside
\* a derivation (o), and of which no two that are not migrated were made from
\* one index or one imported key.
WalletInv(file, a, s, m, o) ==
    LET x == file.accounts[a] IN
    \/ DerivedWallet(x) /\ s /\ (x.family = None => a \in m)
    \/ ImportedWallet(x) /\ (o \/ (a \in DOMAIN file.vault /\ file.vault[a] = x.key))

SameIdentity(x, y) == x.kind = y.kind /\ x.family = y.family /\ x.index = y.index /\ x.key = y.key

FileInv(file, s, m, o) ==
    /\ file \in Files
    /\ \A a \in Wallets(file) : WalletInv(file, a, s, m, o)
    /\ \A a, b \in Wallets(file) \ m : a # b => ~SameIdentity(file.accounts[a], file.accounts[b])
    /\ IsFiniteSet(Wallets(file))
    /\ Cardinality(Wallets(file)) <= MaxAccounts \/ Wallets(file) \subseteq m

\* A wallet that has its family, or its key, for good.
Fixed(x) == x.kind = "derived" => x.family # None

\* A request under way: its wallet, if it is still there, has the address that
\* was looked up; a key that was lent signs for it.
RequestInv(r) ==
    LET q == requests[r] IN
    /\ q.id # None =>
         /\ q.id \in issued /\ q.network \in Networks
         /\ q.id \in Wallets(files) =>
              /\ Fixed(files.accounts[q.id]) /\ HasAddress(files.accounts[q.id], FamilyOf(q.network))
              /\ files.accounts[q.id].addresses[FamilyOf(q.network)] = q.from
    /\ q.lent # None => q.lent = q.from

\* The vault a derivation read is the one of the file, unless a key was
\* imported meanwhile.
DerivationInv ==
    derivation # None =>
        /\ derivation.op \in {"unlock", "change"} /\ derivation.vault \in Vaults
        /\ overlapped \/ derivation.vault = files.vault

\* So is the payload of an open session.
PayloadInv == payload # None => payload \in Vaults /\ (overlapped \/ payload = files.vault)

Rest ==
    /\ seed \in BOOLEAN /\ faults \in 0..MaxFaults
    /\ issued \subseteq Ids /\ migrated \subseteq issued
    /\ Wallets(files) \subseteq issued /\ Wallets(disk) \subseteq issued
    /\ overlapped \in BOOLEAN
    /\ PayloadInv /\ DerivationInv
    /\ requests \in [Requests -> [id : Ids \cup {None}, network : Networks \cup {None},
                                   from : Signers, lent : Signers]]

IInv ==
    /\ Rest
    /\ FileInv(files, seed, migrated, overlapped) /\ FileInv(disk, seed, migrated, overlapped)
    /\ \A r \in Requests : RequestInv(r)

-----------------------------------------------------------------------------
(* Addresses and files.                                                    *)

\* A nonempty set of naturals has a least element, which Min finds.  (The
\* initial segments below its elements are finite sets, and those are
\* well-founded by strict inclusion.)
LEMMA MinIsLeast ==
    ASSUME NEW S \in SUBSET Nat, S # {}
    PROVE  Min(S) \in S /\ \A y \in S : Min(S) <= y
<1> DEFINE Initials == {0..x : x \in S}
<1>1. Initials \subseteq FiniteSubsetsOf(Nat) /\ Initials # {}
  <2>1. \A x \in Nat : 0..x \in SUBSET Nat /\ IsFiniteSet(0..x)
    BY FS_Interval
  <2> QED BY <2>1 DEF FiniteSubsetsOf
<1>2. PICK t \in Initials : \A u \in Initials : <<u, t>> \notin StrictSubsetOrdering(Nat)
  BY <1>1, FS_StrictSubsetOrderingWellFounded, WFMin
<1>3. PICK x \in S : t = 0..x
  OBVIOUS
<1>4. ASSUME NEW y \in S, y < x PROVE FALSE
  <2>1. 0..y \subseteq 0..x /\ 0..y # 0..x
    <3>1. x \in 0..x /\ x \notin 0..y
      BY <1>4
    <3> QED BY <1>4, <3>1
  <2>2. 0..y \in SUBSET Nat /\ 0..x \in SUBSET Nat
    OBVIOUS
  <2>3. <<0..y, 0..x>> \in StrictSubsetOrdering(Nat)
    BY <2>1, <2>2 DEF StrictSubsetOrdering
  <2> QED BY <1>2, <1>3, <2>3
<1>5. \A y \in S : x <= y
  BY <1>4
<1> QED BY <1>5 DEF Min

\* Families and curves.
LEMMA FamilyFacts ==
    /\ \A n : FamilyOf(n) \in Families
    /\ \A f \in Families : \A k : f \in FamiliesOn(CurveOfKey(k)) <=> CurveOf(f) = CurveOfKey(k)
BY DEF FamilyOf, Families, FamiliesOn

\* Functions of the types above.
LEMMA AddressTypes ==
    /\ \A S \in SUBSET Families : \A f \in [S -> Families \X SomeKeys] : f \in Addresses
    /\ \A f \in Addresses : /\ DOMAIN f \subseteq Families
                            /\ \A g \in DOMAIN f : f[g] \in Families \X SomeKeys
<1>1. \A S \in SUBSET Families : \A f \in [S -> Families \X SomeKeys] : f \in Addresses
  BY DEF Addresses
<1>2. ASSUME NEW f \in Addresses
      PROVE  /\ DOMAIN f \subseteq Families
             /\ \A g \in DOMAIN f : f[g] \in Families \X SomeKeys
  <2>1. PICK S \in SUBSET Families : f \in [S -> Families \X SomeKeys]
    BY DEF Addresses
  <2> QED BY <2>1
<1> QED BY <1>1, <1>2

\* Wallets by id.
LEMMA AccountTypes ==
    /\ \A S \in SUBSET Ids : \A f \in [S -> Items] : f \in AccountSets
    /\ \A f \in AccountSets : DOMAIN f \in SUBSET Ids /\ f \in [DOMAIN f -> Items]
<1>1. \A S \in SUBSET Ids : \A f \in [S -> Items] : f \in AccountSets
  BY DEF AccountSets
<1>2. ASSUME NEW f \in AccountSets PROVE DOMAIN f \in SUBSET Ids /\ f \in [DOMAIN f -> Items]
  <2>1. PICK S \in SUBSET Ids : f \in [S -> Items]
    BY DEF AccountSets
  <2> QED BY <2>1
<1> QED BY <1>1, <1>2

\* Imported keys by id.
LEMMA VaultTypes ==
    /\ \A S \in SUBSET Ids : \A f \in [S -> Keys] : f \in Vaults
    /\ \A f \in Vaults : DOMAIN f \in SUBSET Ids /\ f \in [DOMAIN f -> Keys]
<1>1. \A S \in SUBSET Ids : \A f \in [S -> Keys] : f \in Vaults
  BY DEF Vaults
<1>2. ASSUME NEW f \in Vaults PROVE DOMAIN f \in SUBSET Ids /\ f \in [DOMAIN f -> Keys]
  <2>1. PICK S \in SUBSET Ids : f \in [S -> Keys]
    BY DEF Vaults
  <2> QED BY <2>1
<1> QED BY <1>1, <1>2

\* The addresses of wallets are addresses.
LEMMA AddressesTyped ==
    /\ \A f \in Families, i \in Indexes : [g \in {f} |-> DerivedAddress(f, i)] \in Addresses
    /\ \A i \in Indexes : DerivedAddresses(i) \in Addresses
    /\ \A k \in Keys : ImportedAddresses(k) \in Addresses
<1>1. ASSUME NEW f \in Families, NEW i \in Indexes
      PROVE  [g \in {f} |-> DerivedAddress(f, i)] \in Addresses
  <2>1. {f} \in SUBSET Families
    OBVIOUS
  <2>2. [g \in {f} |-> DerivedAddress(f, i)] \in [{f} -> Families \X SomeKeys]
    BY DEF DerivedAddress, DerivedKey, SomeKeys
  <2> QED BY <2>1, <2>2, AddressTypes
<1>2. ASSUME NEW i \in Indexes PROVE DerivedAddresses(i) \in Addresses
  <2>1. {"evm", "tron"} \in SUBSET Families
    BY DEF Families
  <2>2. DerivedAddresses(i) \in [{"evm", "tron"} -> Families \X SomeKeys]
    BY DEF DerivedAddresses, DerivedAddress, DerivedKey, SomeKeys, Families
  <2> QED BY <2>1, <2>2, AddressTypes
<1>3. ASSUME NEW k \in Keys PROVE ImportedAddresses(k) \in Addresses
  <2>1. FamiliesOn(CurveOfKey(k)) \in SUBSET Families
    BY DEF FamiliesOn
  <2>2. ImportedAddresses(k) \in [FamiliesOn(CurveOfKey(k)) -> Families \X SomeKeys]
    BY <2>1 DEF ImportedAddresses, SomeKeys
  <2> QED BY <2>1, <2>2, AddressTypes
<1> QED BY <1>1, <1>2, <1>3

\* A wallet that its file accounts for has, on each network it is enabled on,
\* an address, and its key signs for that address.
LEMMA Spendable ==
    ASSUME NEW x, DerivedWallet(x) \/ ImportedWallet(x), NEW f \in Families, HasAddress(x, f), Fixed(x)
    PROVE  privateKeyFor(x, f) = x.addresses[f]
<1>1. CASE DerivedWallet(x)
  <2>1. x.family \in Families /\ x.addresses = [g \in {x.family} |-> DerivedAddress(x.family, x.index)]
    BY <1>1 DEF DerivedWallet, Fixed
  <2>2. f = x.family /\ x.addresses[f] = DerivedAddress(f, x.index)
    BY <2>1 DEF HasAddress
  <2> QED BY <1>1, <2>1, <2>2, AccountsAssumption DEF privateKeyFor, DerivedWallet
<1>2. CASE ImportedWallet(x)
  <2>1. f \in FamiliesOn(CurveOfKey(x.key)) /\ x.addresses[f] = <<f, x.key>>
    BY <1>2 DEF ImportedWallet, HasAddress, ImportedAddresses
  <2> QED BY <1>2, <2>1, FamilyFacts DEF privateKeyFor, ImportedWallet
<1> QED BY <1>1, <1>2

\* Where a wallet is enabled it has an address.
LEMMA BoundHasAddress ==
    ASSUME NEW x \in Items, DerivedWallet(x) \/ ImportedWallet(x), NEW n \in x.networks
    PROVE  HasAddress(x, FamilyOf(n)) /\ Fixed(x)
<1>1. CASE DerivedWallet(x)
  <2>1. /\ x.family \in Families /\ FamilyOf(n) = x.family
        /\ x.addresses = [g \in {x.family} |-> DerivedAddress(x.family, x.index)]
    BY <1>1 DEF DerivedWallet
  <2> QED BY <2>1, AccountsAssumption DEF HasAddress, Fixed
<1>2. CASE ImportedWallet(x)
  <2>1. CurveOf(FamilyOf(n)) = CurveOfKey(x.key) /\ x.addresses = ImportedAddresses(x.key)
    BY <1>2 DEF ImportedWallet
  <2> QED BY <1>2, <2>1, FamilyFacts DEF HasAddress, Fixed, ImportedAddresses, ImportedWallet
<1> QED BY <1>1, <1>2

\* The parts of a file.
LEMMA FileFacts ==
    ASSUME NEW file \in Files
    PROVE  /\ file.accounts \in AccountSets /\ file.vault \in Vaults
           /\ Wallets(file) \subseteq Ids
           /\ \A a \in Wallets(file) : file.accounts[a] \in Items
           /\ \A accounts : [file EXCEPT !.accounts = accounts]
                              = [accounts |-> accounts, vault |-> file.vault]
BY AccountTypes DEF Files, Wallets

\* A wallet that is the same in another file, and its key if it has one.
LEMMA SameWallet ==
    ASSUME NEW file, NEW new, NEW a, NEW s, NEW m, NEW o, WalletInv(file, a, s, m, o),
           new.accounts[a] = file.accounts[a],
           o \/ (a \in DOMAIN file.vault => a \in DOMAIN new.vault /\ new.vault[a] = file.vault[a])
    PROVE  WalletInv(new, a, s, m, o)
<1> DEFINE x == file.accounts[a]
<1>1. CASE DerivedWallet(x) /\ s /\ (x.family = None => a \in m)
  BY <1>1 DEF WalletInv
<1>2. CASE ImportedWallet(x) /\ (o \/ (a \in DOMAIN file.vault /\ file.vault[a] = x.key))
  <2>0. ImportedWallet(new.accounts[a])
    BY <1>2
  <2> HIDE DEF x
  <2>1. CASE o
    BY <2>0, <2>1 DEF WalletInv
  <2>2. CASE ~o
    <3>1. a \in DOMAIN file.vault /\ file.vault[a] = x.key
      BY <1>2, <2>2, Zenon
    <3>2. a \in DOMAIN new.vault /\ new.vault[a] = file.vault[a]
      BY <2>2, <3>1, Zenon
    <3>3. new.accounts[a] = x
      BY DEF x
    <3>4. a \in DOMAIN new.vault /\ new.vault[a] = new.accounts[a].key
      BY <3>1, <3>2, <3>3, Zenon
    <3> QED BY <2>0, <3>4, Zenon DEF WalletInv
  <2> QED BY <2>1, <2>2
<1> QED BY <1>1, <1>2 DEF WalletInv

\* One wallet of a file is replaced or added.
LEMMA PutFile ==
    ASSUME NEW file, NEW s, NEW m, NEW o, FileInv(file, s, m, o),
           NEW id \in Ids, NEW x \in Items, NEW vault \in Vaults, NEW accounts,
           DOMAIN accounts = Wallets(file) \cup {id},
           accounts = [a \in DOMAIN accounts |-> accounts[a]],
           accounts[id] = x,
           \A a \in Wallets(file) : a # id => accounts[a] = file.accounts[a],
           o \/ \A a \in Wallets(file) : a # id /\ a \in DOMAIN file.vault =>
                  a \in DOMAIN vault /\ vault[a] = file.vault[a],
           WalletInv([accounts |-> accounts, vault |-> vault], id, s, m, o),
           id \notin m => \A b \in Wallets(file) \ m : b # id => ~SameIdentity(x, file.accounts[b]),
           id \in Wallets(file) \/ ~QuotaExceeded(file)
    PROVE  FileInv([accounts |-> accounts, vault |-> vault], s, m, o)
<1> DEFINE new == [accounts |-> accounts, vault |-> vault]
<1>0. /\ file \in Files /\ IsFiniteSet(Wallets(file)) /\ Cardinality(Wallets(file)) \in Nat
      /\ \A a \in Wallets(file) : WalletInv(file, a, s, m, o)
  BY FS_CardinalityType DEF FileInv
<1>1. Wallets(new) = Wallets(file) \cup {id} /\ new.accounts = accounts /\ new.vault = vault
  BY DEF Wallets
<1>2. \A a \in Wallets(new) : new.accounts[a] \in Items
  BY <1>0, <1>1, FileFacts
<1>3. new \in Files
  <2>1. accounts \in [Wallets(new) -> Items] /\ Wallets(new) \in SUBSET Ids
    BY <1>0, <1>1, <1>2, FileFacts
  <2>2. accounts \in AccountSets
    BY <2>1, AccountTypes
  <2> QED BY <2>2 DEF Files
<1>4. ASSUME NEW a \in Wallets(new) PROVE WalletInv(new, a, s, m, o)
  <2>1. CASE a = id
    BY <2>1
  <2>2. CASE a # id
    <3>1. a \in Wallets(file) /\ new.accounts[a] = file.accounts[a] /\ WalletInv(file, a, s, m, o)
      BY <1>0, <1>1, <2>2
    <3>2. o \/ (a \in DOMAIN file.vault =>
                  a \in DOMAIN new.vault /\ new.vault[a] = file.vault[a])
      BY <1>1, <2>2, <3>1
    <3> HIDE DEF new
    <3> QED BY <3>1, <3>2, SameWallet
  <2> QED BY <2>1, <2>2
<1>5. ASSUME NEW a \in Wallets(new) \ m, NEW b \in Wallets(new) \ m, a # b
      PROVE  ~SameIdentity(new.accounts[a], new.accounts[b])
  <2>1. a # id /\ b # id => ~SameIdentity(file.accounts[a], file.accounts[b])
    BY <1>1, <1>5 DEF FileInv
  <2>2. \A y, z : SameIdentity(y, z) <=> SameIdentity(z, y)
    BY DEF SameIdentity
  <2> QED BY <1>1, <1>5, <2>1, <2>2
<1>6. IsFiniteSet(Wallets(new))
  BY <1>0, <1>1, FS_AddElement
<1>7. Cardinality(Wallets(new)) <= MaxAccounts \/ Wallets(new) \subseteq m
  <2>1. CASE id \in Wallets(file)
    <3>1. Wallets(new) = Wallets(file)
      BY <1>1, <2>1
    <3> QED BY <3>1 DEF FileInv
  <2>2. CASE id \notin Wallets(file)
    <3>1. Cardinality(Wallets(new)) = Cardinality(Wallets(file)) + 1
      BY <1>0, <1>1, <2>2, FS_AddElement
    <3> QED BY <1>0, <2>2, <3>1, AccountsAssumption DEF QuotaExceeded
  <2> QED BY <2>1, <2>2
<1> HIDE DEF new
<1>8. FileInv(new, s, m, o)
  BY <1>3, <1>4, <1>5, <1>6, <1>7 DEF FileInv
<1> QED BY <1>8 DEF new

\* One wallet of a file is removed.
LEMMA RemoveFile ==
    ASSUME NEW file, NEW s, NEW m, NEW o, FileInv(file, s, m, o), NEW id \in Wallets(file),
           NEW vault \in Vaults,
           o \/ \A a \in Wallets(file) : a # id /\ a \in DOMAIN file.vault =>
                  a \in DOMAIN vault /\ vault[a] = file.vault[a]
    PROVE  FileInv([accounts |-> Restrict(file.accounts, Wallets(file) \ {id}), vault |-> vault], s, m, o)
<1> DEFINE accounts == Restrict(file.accounts, Wallets(file) \ {id})
           new == [accounts |-> accounts, vault |-> vault]
<1>0. /\ file \in Files /\ IsFiniteSet(Wallets(file)) /\ Cardinality(Wallets(file)) \in Nat
      /\ \A a \in Wallets(file) : WalletInv(file, a, s, m, o)
  BY FS_CardinalityType DEF FileInv
<1>1. /\ Wallets(new) = Wallets(file) \ {id} /\ new.accounts = accounts /\ new.vault = vault
      /\ \A a \in Wallets(new) : accounts[a] = file.accounts[a]
  BY DEF Wallets, Restrict
<1>2. new \in Files
  <2>1. accounts \in [Wallets(new) -> Items] /\ Wallets(new) \in SUBSET Ids
    BY <1>0, <1>1, FileFacts DEF Restrict
  <2>2. accounts \in AccountSets
    BY <2>1, AccountTypes
  <2> QED BY <2>2 DEF Files
<1> HIDE DEF accounts
<1>3. ASSUME NEW a \in Wallets(new) PROVE WalletInv(new, a, s, m, o)
  <2>1. a \in Wallets(file) /\ new.accounts[a] = file.accounts[a] /\ WalletInv(file, a, s, m, o)
    BY <1>0, <1>1
  <2>2. o \/ (a \in DOMAIN file.vault => a \in DOMAIN new.vault /\ new.vault[a] = file.vault[a])
    BY <1>1, <2>1
  <2> HIDE DEF new
  <2> QED BY <2>1, <2>2, SameWallet
<1>4. \A a, b \in Wallets(new) \ m : a # b => ~SameIdentity(new.accounts[a], new.accounts[b])
  BY <1>1 DEF FileInv
<1>5. IsFiniteSet(Wallets(new)) /\ Cardinality(Wallets(new)) <= Cardinality(Wallets(file))
      /\ Cardinality(Wallets(new)) \in Nat
  <2>1. Wallets(new) \in SUBSET Wallets(file)
    BY <1>1
  <2> QED BY <1>0, <2>1, FS_Subset, FS_CardinalityType
<1>6. Cardinality(Wallets(new)) <= MaxAccounts \/ Wallets(new) \subseteq m
  BY <1>0, <1>1, <1>5, AccountsAssumption DEF FileInv
<1> HIDE DEF new
<1>7. FileInv(new, s, m, o)
  BY <1>2, <1>3, <1>4, <1>5, <1>6 DEF FileInv
<1> QED BY <1>7 DEF new, accounts

-----------------------------------------------------------------------------
(* Writing a file.                                                         *)

\* What is asked of a file is less once a key was imported beside a derivation.
LEMMA Looser ==
    ASSUME NEW file, NEW s, NEW m, NEW o \in BOOLEAN, NEW p \in BOOLEAN, o => p, FileInv(file, s, m, o)
    PROVE  FileInv(file, s, m, p)
<1>1. ASSUME NEW a \in Wallets(file) PROVE WalletInv(file, a, s, m, p)
  <2>1. WalletInv(file, a, s, m, o)
    BY DEF FileInv
  <2> QED BY <2>1 DEF WalletInv
<1> QED BY <1>1 DEF FileInv

\* A write of a file that is right leaves memory and disk right, however it
\* ends, as long as wallets that requests may have looked up keep what they are.
LEMMA WriteIInv ==
    ASSUME IInv, NEW file, FileInv(file, seed, migrated, overlapped'), NEW outcome \in Outcomes,
           Save(file, outcome), UNCHANGED <<seed, migrated, requests>>,
           overlapped' \in BOOLEAN, overlapped => overlapped',
           issued \subseteq issued', issued' \subseteq Ids, Wallets(file) \subseteq issued',
           \A a \in Wallets(file) : a \in issued =>
             /\ a \in Wallets(files)
             /\ Fixed(files.accounts[a]) =>
                  Fixed(file.accounts[a]) /\ file.accounts[a].addresses = files.accounts[a].addresses,
           \/ UNCHANGED payload /\ file.vault = files.vault
           \/ payload' = IF outcome = "ok" THEN file.vault ELSE payload
           \/ payload' = IF outcome = "ok" /\ payload # None THEN file.vault ELSE payload,
           derivation' \in {derivation, None},
           derivation' = None \/ overlapped' \/ file.vault = files.vault
    PROVE  IInv'
<1>0. Rest /\ FileInv(files, seed, migrated, overlapped) /\ FileInv(disk, seed, migrated, overlapped)
  BY DEF IInv
<1>1. (files' = file /\ outcome = "ok") \/ (files' = files /\ outcome # "ok")
  BY DEF Save
<1>2. disk' = file \/ disk' = disk
  BY DEF Save
<1>3. FileInv(files, seed, migrated, overlapped)' /\ FileInv(disk, seed, migrated, overlapped)'
  <2>a. overlapped \in BOOLEAN
    BY <1>0 DEF Rest
  <2>b. FileInv(files, seed, migrated, overlapped')
    BY <1>0, <2>a, Looser
  <2>c. FileInv(disk, seed, migrated, overlapped')
    BY <1>0, <2>a, Looser
  <2>0. /\ FileInv(files, seed, migrated, overlapped')
        /\ FileInv(disk, seed, migrated, overlapped')
    BY <2>b, <2>c
  <2>1. FileInv(files', seed, migrated, overlapped') /\ FileInv(disk', seed, migrated, overlapped')
    BY <1>1, <1>2, <2>0
  <2> QED BY <2>1 DEF FileInv, WalletInv, DerivedWallet, ImportedWallet, SameIdentity, Wallets
<1>4. Wallets(files)' \subseteq issued' /\ Wallets(disk)' \subseteq issued'
  BY <1>0, <1>1, <1>2 DEF Rest, Wallets
<1>v. files.vault \in Vaults /\ file.vault \in Vaults
  BY <1>0 DEF FileInv, Files
<1>5. payload' # None => payload' \in Vaults /\ (overlapped' \/ payload' = files'.vault)
  <2>1. payload # None => payload \in Vaults /\ (overlapped' \/ payload = files.vault)
    BY <1>0 DEF Rest, PayloadInv
  <2> QED BY <1>1, <1>v, <2>1
<1>d. DerivationInv'
  BY <1>0, <1>1 DEF Rest, DerivationInv
<1>6. faults' \in 0..MaxFaults
  BY <1>0, AccountsAssumption DEF Save, Outcomes, Rest
<1>7. Rest'
  BY <1>0, <1>4, <1>5, <1>d, <1>6 DEF Rest, PayloadInv
<1>8. ASSUME NEW r \in Requests PROVE RequestInv(r)'
  <2>1. RequestInv(r)
    BY DEF IInv
  <2>2. CASE files' = files
    BY <2>1, <2>2 DEF RequestInv, Wallets
  <2>3. CASE files' = file
    <3>1. Wallets(files)' = Wallets(file)
      BY <2>3 DEF Wallets
    <3>2. ASSUME requests[r].id # None, requests[r].id \in Wallets(file)
          PROVE  /\ Fixed(file.accounts[requests[r].id])
                 /\ HasAddress(file.accounts[requests[r].id], FamilyOf(requests[r].network))
                 /\ file.accounts[requests[r].id].addresses[FamilyOf(requests[r].network)]
                      = requests[r].from
      BY <2>1, <3>2 DEF RequestInv, HasAddress
    <3>3. HasAddress(file.accounts[requests[r].id], FamilyOf(requests[r].network)) <=>
            HasAddress(files.accounts[requests[r].id], FamilyOf(requests[r].network))'
      BY <2>3 DEF HasAddress, FamilyOf
    <3>4. Fixed(file.accounts[requests[r].id]) <=> Fixed(files.accounts[requests[r].id])'
      BY <2>3 DEF Fixed
    <3>5. FamilyOf(requests[r].network)' = FamilyOf(requests[r].network)
      BY DEF FamilyOf
    <3> QED BY <2>1, <2>3, <3>1, <3>2, <3>3, <3>4, <3>5 DEF RequestInv
  <2> QED BY <1>1, <2>2, <2>3
<1> QED BY <1>3, <1>7, <1>8 DEF IInv

\* One wallet changes: it keeps its key and its addresses, or it is a migrated
\* one that gets its family.
LEMMA ChangeIInv ==
    ASSUME IInv, NEW a \in Wallets(files), NEW y \in Items, NEW accounts,
           accounts = [b \in Wallets(files) |-> IF b = a THEN y ELSE files.accounts[b]],
           DerivedWallet(y) \/ ImportedWallet(y),
           \/ SameIdentity(y, files.accounts[a]) /\ y.addresses = files.accounts[a].addresses
           \/ ~Fixed(files.accounts[a]) /\ DerivedWallet(y),
           NEW outcome \in Outcomes, SaveAccounts(accounts, outcome),
           UNCHANGED <<seed, migrated, requests, issued, unlocking>>
    PROVE  IInv'
<1> DEFINE x == files.accounts[a]
           file == [accounts |-> accounts, vault |-> files.vault]
<1>0. /\ Rest /\ FileInv(files, seed, migrated, overlapped) /\ files \in Files
      /\ a \in Ids /\ files.vault \in Vaults /\ WalletInv(files, a, seed, migrated, overlapped)
  BY FileFacts DEF IInv, FileInv
<1>1. Save(file, outcome) /\ UNCHANGED payload
  BY <1>0, FileFacts DEF SaveAccounts
<1>2. /\ file.accounts = accounts /\ file.vault = files.vault /\ Wallets(file) = Wallets(files)
      /\ DOMAIN accounts = Wallets(files) \cup {a} /\ accounts[a] = y
      /\ \A b \in Wallets(files) : b # a => accounts[b] = files.accounts[b]
  BY DEF Wallets
<1>3. ~Fixed(x) => a \in migrated /\ seed
  BY <1>0 DEF Fixed, WalletInv, ImportedWallet
<1>4. WalletInv(file, a, seed, migrated, overlapped)
  BY <1>0, <1>2, <1>3 DEF WalletInv, DerivedWallet, ImportedWallet, SameIdentity
<1>5. a \notin migrated => \A b \in Wallets(files) \ migrated : b # a => ~SameIdentity(y, files.accounts[b])
  BY <1>0, <1>3 DEF FileInv, SameIdentity
<1>6. FileInv(file, seed, migrated, overlapped)
  BY <1>0, <1>2, <1>4, <1>5, PutFile
<1>7. \A b \in Wallets(file) :
         /\ b \in Wallets(files)
         /\ Fixed(files.accounts[b]) =>
              Fixed(file.accounts[b]) /\ file.accounts[b].addresses = files.accounts[b].addresses
  BY <1>2 DEF Fixed, SameIdentity
<1>8. Wallets(file) \subseteq issued' /\ issued \subseteq issued' /\ issued' \subseteq Ids
  BY <1>0, <1>2 DEF Rest
<1>9. /\ overlapped' \in BOOLEAN /\ (overlapped => overlapped')
      /\ FileInv(file, seed, migrated, overlapped')
      /\ derivation' = derivation
  BY <1>0, <1>6 DEF Rest, unlocking
<1> QED
  <2> HIDE DEF file
  <2> QED BY <1>1, <1>2, <1>7, <1>8, <1>9, WriteIInv DEF file

\* A wallet is added, under an id that was never given out.
LEMMA AddIInv ==
    ASSUME IInv, NEW id \in Ids \ issued, NEW y \in Items, NEW vault \in Vaults,
           NEW outcome \in Outcomes, ~QuotaExceeded(files),
           \/ DerivedWallet(y) /\ y.family # None /\ seed /\ vault = files.vault /\ UNCHANGED payload
           \/ /\ ImportedWallet(y) /\ id \in DOMAIN vault /\ vault[id] = y.key
              /\ \/ overlapped'
                 \/ \A a \in DOMAIN files.vault : a # id => a \in DOMAIN vault /\ vault[a] = files.vault[a]
              /\ overlapped' \/ derivation = None
              /\ payload' = IF outcome = "ok" THEN vault ELSE payload,
           \A b \in Wallets(files) : ~SameIdentity(y, files.accounts[b]),
           Save([accounts |-> With(id, y), vault |-> vault], outcome),
           UNCHANGED <<seed, migrated, requests, derivation>>, issued' = issued \cup {id},
           overlapped' \in BOOLEAN, overlapped => overlapped'
    PROVE  IInv'
<1> DEFINE file == [accounts |-> With(id, y), vault |-> vault]
<1>0. /\ Rest /\ FileInv(files, seed, migrated, overlapped') /\ files \in Files
      /\ Wallets(files) \subseteq issued /\ id \notin Wallets(files) /\ id \notin migrated
  <2>1. overlapped \in BOOLEAN /\ FileInv(files, seed, migrated, overlapped)
    BY DEF IInv, Rest
  <2>2. FileInv(files, seed, migrated, overlapped')
    BY <2>1, Looser
  <2> QED BY <2>2 DEF IInv, FileInv, Rest
<1>1. /\ file.accounts = With(id, y) /\ file.vault = vault
      /\ Wallets(file) = Wallets(files) \cup {id} /\ DOMAIN With(id, y) = Wallets(files) \cup {id}
      /\ With(id, y)[id] = y
      /\ \A b \in Wallets(files) : b # id => With(id, y)[b] = files.accounts[b]
  BY DEF Wallets, With
<1>2. With(id, y) = [a \in DOMAIN With(id, y) |-> With(id, y)[a]]
  BY DEF With
<1>3. WalletInv(file, id, seed, migrated, overlapped')
  BY <1>1 DEF WalletInv
<1>4. overlapped' \/ \A a \in Wallets(files) : a # id /\ a \in DOMAIN files.vault =>
                       a \in DOMAIN vault /\ vault[a] = files.vault[a]
  OBVIOUS
<1>5. FileInv(file, seed, migrated, overlapped')
  BY <1>0, <1>1, <1>2, <1>3, <1>4, PutFile
<1>6. \A b \in Wallets(file) : b \in issued =>
         /\ b \in Wallets(files)
         /\ Fixed(files.accounts[b]) =>
              Fixed(file.accounts[b]) /\ file.accounts[b].addresses = files.accounts[b].addresses
  BY <1>1
<1>7. Wallets(file) \subseteq issued' /\ issued \subseteq issued' /\ issued' \subseteq Ids
  BY <1>0, <1>1 DEF Rest
<1> QED
  <2> HIDE DEF file
  <2> QED BY <1>1, <1>5, <1>6, <1>7, WriteIInv DEF file

-----------------------------------------------------------------------------
(* The actions.                                                            *)

\* A new space, or one that was migrated.
LEMMA InitIInv == AccountsInit => IInv
<1> SUFFICES ASSUME AccountsInit PROVE IInv
  OBVIOUS
<1>0. PICK indexes \in Legacy \cup {{}}, ids \in SUBSET Ids :
         /\ seed \in {TRUE, indexes # {}} /\ issued = ids /\ migrated = ids
         /\ \E at \in Bijection(ids, indexes) :
              files = [accounts |-> [a \in ids |-> LegacyItem(at[a])], vault |-> <<>>]
  BY DEF AccountsInit
<1>1. PICK at \in Bijection(ids, indexes) :
         files = [accounts |-> [a \in ids |-> LegacyItem(at[a])], vault |-> <<>>]
  BY <1>0
<1>2. indexes \in SUBSET Indexes /\ at \in [ids -> indexes] /\ at \in Injection(ids, indexes)
  BY <1>0, <1>1, AccountsAssumption DEF Bijection, Injection
<1>3. IsFiniteSet(ids)
  <2>1. IsFiniteSet(Indexes)
    BY AccountsAssumption, FS_Interval DEF Indexes
  <2>2. IsFiniteSet(indexes)
    BY <1>2, <2>1, FS_Subset
  <2> QED BY <1>2, <2>2, FS_Injection
<1>4. ASSUME NEW i \in Indexes PROVE LegacyItem(i) \in Items /\ DerivedWallet(LegacyItem(i))
  <2>1. DerivedAddresses(i) \in Addresses
    BY AddressesTyped
  <2> QED BY <2>1 DEF LegacyItem, Items, DerivedWallet
<1>5. files.accounts = [a \in ids |-> LegacyItem(at[a])] /\ files.vault = <<>> /\ Wallets(files) = ids
  BY <1>1 DEF Wallets
<1>6. files \in Files
  <2>1. files.accounts \in [ids -> Items]
    BY <1>2, <1>4, <1>5
  <2>2. files.accounts \in AccountSets
    BY <2>1, AccountTypes
  <2>3. <<>> \in Vaults
    <3>1. <<>> \in [{} -> Keys] /\ {} \in SUBSET Ids
      OBVIOUS
    <3> QED BY <3>1, VaultTypes
  <2> QED BY <1>1, <1>5, <2>2, <2>3 DEF Files
<1>7. \A a \in Wallets(files) : WalletInv(files, a, seed, migrated, overlapped)
  <2>1. ids # {} => seed
    BY <1>0, <1>2
  <2> QED BY <1>0, <1>2, <1>4, <1>5, <2>1 DEF WalletInv
<1>8. FileInv(files, seed, migrated, overlapped)
  BY <1>0, <1>3, <1>5, <1>6, <1>7 DEF FileInv
<1>9. Rest
  <2>1. NoRequest \in [id : Ids \cup {None}, network : Networks \cup {None},
                       from : Signers, lent : Signers]
    BY DEF NoRequest, Signers
  <2>2. seed \in BOOLEAN
    BY <1>0
  <2>3. faults \in 0..MaxFaults
    BY AccountsAssumption DEF AccountsInit
  <2>4. requests \in [Requests -> [id : Ids \cup {None}, network : Networks \cup {None},
                                   from : Signers, lent : Signers]]
    BY <2>1 DEF AccountsInit
  <2>5. disk = files /\ payload = <<>> /\ derivation = None
    BY DEF AccountsInit
  <2>6. overlapped \in BOOLEAN
    BY DEF AccountsInit
  <2>7. <<>> \in Vaults
    BY <1>5, <1>6 DEF Files
  <2> QED BY <1>0, <1>5, <2>2, <2>3, <2>4, <2>5, <2>6, <2>7 DEF Rest, DerivationInv, PayloadInv
<1>10. \A r \in Requests : RequestInv(r)
  BY DEF AccountsInit, RequestInv, NoRequest
<1> QED BY <1>8, <1>9, <1>10 DEF AccountsInit, IInv

\* A wallet with more networks, of its own family or curve.
LEMMA EnableIInv ==
    ASSUME IInv, NEW a \in Wallets(files), NEW ns \in SUBSET Networks, Fixed(files.accounts[a]),
           files.accounts[a].kind = "derived" =>
             \A n \in ns : FamilyOf(n) = files.accounts[a].family,
           files.accounts[a].kind = "imported" =>
             \A n \in ns : CurveOf(FamilyOf(n)) = CurveOfKey(files.accounts[a].key),
           NEW outcome \in Outcomes, SaveAccounts(Bound(a, ns), outcome),
           UNCHANGED <<seed, migrated, requests, issued, unlocking>>
    PROVE  IInv'
<1> DEFINE x == files.accounts[a]
           y == [x EXCEPT !.networks = @ \cup ns]
<1>0. files \in Files /\ x \in Items /\ WalletInv(files, a, seed, migrated, overlapped)
  BY FileFacts DEF IInv, FileInv
<1>1. /\ y \in Items /\ SameIdentity(y, x) /\ y.addresses = x.addresses /\ y.networks = x.networks \cup ns
  BY <1>0 DEF Items, SameIdentity
<1>2. Bound(a, ns) = [b \in Wallets(files) |-> IF b = a THEN y ELSE files.accounts[b]]
  BY <1>0 DEF Bound, Wallets, Items
<1>3. DerivedWallet(y) \/ ImportedWallet(y)
  <2> HIDE DEF y
  <2> QED BY <1>0, <1>1 DEF WalletInv, DerivedWallet, ImportedWallet, SameIdentity, Fixed
<1> HIDE DEF y, x
<1> QED BY <1>1, <1>2, <1>3, ChangeIInv DEF x

\* DeriveNetworks takes an index that none of the networks uses.
LEMMA NextIndex ==
    ASSUME NEW ns, Indexes \ UsedIndexes(ns) # {}
    PROVE  Min(Indexes \ UsedIndexes(ns)) \in Indexes \ UsedIndexes(ns)
<1>1. Indexes \ UsedIndexes(ns) \in SUBSET Nat
  BY DEF Indexes
<1> QED BY <1>1, MinIsLeast

\* A derivation: another network for the wallet of the key, or a new wallet.
LEMMA DeriveIInv ==
    ASSUME IInv, NEW ns \in (SUBSET Networks) \ {{}}, DeriveNetworks(ns)
    PROVE  IInv'
<1> DEFINE f == FamilyOf(CHOOSE n \in ns : TRUE)
           next == Min(Indexes \ UsedIndexes(ns))
           y == [kind |-> "derived", family |-> f, index |-> next, key |-> None,
                 addresses |-> [g \in {f} |-> DerivedAddress(f, next)], networks |-> ns]
<1>0. /\ f \in Families /\ next \in Indexes /\ \A n \in ns : FamilyOf(n) = f
      /\ seed /\ files \in Files /\ f # None
  <2>0. \E n \in ns : TRUE
    OBVIOUS
  <2>1. (CHOOSE n \in ns : TRUE) \in ns
    BY <2>0, Zenon
  <2> QED BY <2>1, FamilyFacts, NextIndex, AccountsAssumption
          DEF DeriveNetworks, OneFamily, IInv, FileInv
<1>1. UNCHANGED <<seed, migrated, requests, unlocking>>
  BY DEF DeriveNetworks
<1>2. PICK outcome \in Outcomes :
         \/ \E a \in WalletsAt(f, next) : SaveAccounts(Bound(a, ns), outcome) /\ UNCHANGED issued
         \/ /\ WalletsAt(f, next) = {} /\ ~QuotaExceeded(files)
            /\ \E id \in Ids \ issued : /\ issued' = issued \cup {id}
                                        /\ SaveAccounts(With(id, y), outcome)
  BY DEF DeriveNetworks
<1> HIDE DEF f, next
<1>3. ASSUME NEW a \in WalletsAt(f, next), SaveAccounts(Bound(a, ns), outcome), UNCHANGED issued
      PROVE  IInv'
  <2>1. /\ a \in Wallets(files) /\ files.accounts[a].kind = "derived"
        /\ files.accounts[a].family = f
    BY <1>3 DEF WalletsAt
  <2> QED BY <1>0, <1>1, <1>3, <2>1, EnableIInv DEF Fixed
<1>4. ASSUME WalletsAt(f, next) = {}, ~QuotaExceeded(files), NEW id \in Ids \ issued,
             issued' = issued \cup {id}, SaveAccounts(With(id, y), outcome)
      PROVE  IInv'
  <2>1. y \in Items /\ DerivedWallet(y) /\ y.family # None
    <3>1. [g \in {f} |-> DerivedAddress(f, next)] \in Addresses
      BY <1>0, AddressesTyped
    <3> QED BY <1>0, <3>1 DEF Items, DerivedWallet
  <2>2. \A b \in Wallets(files) : ~SameIdentity(y, files.accounts[b])
    BY <1>4 DEF WalletsAt, SameIdentity
  <2>3. /\ Save([accounts |-> With(id, y), vault |-> files.vault], outcome)
        /\ UNCHANGED payload /\ files.vault \in Vaults
    BY <1>0, <1>4, FileFacts DEF SaveAccounts
  <2>4. overlapped' \in BOOLEAN /\ (overlapped => overlapped') /\ derivation' = derivation
    BY <1>1 DEF unlocking, IInv, Rest
  <2> HIDE DEF y
  <2> QED BY <1>0, <1>1, <1>4, <2>1, <2>2, <2>3, <2>4, AddIInv
<1> QED BY <1>2, <1>3, <1>4

\* An import: another network for the wallet of the key, or a new wallet and
\* its key in the vault.
LEMMA ImportIInv ==
    ASSUME IInv, NEW ns \in (SUBSET Networks) \ {{}}, NEW k \in Keys, ImportNetworks(ns, k)
    PROVE  IInv'
<1> DEFINE y == [kind |-> "imported", family |-> None, index |-> None, key |-> k,
                 addresses |-> ImportedAddresses(k), networks |-> ns]
           Keyed(id) == [a \in DOMAIN payload \cup {id} |-> IF a = id THEN k ELSE payload[a]]
<1>0. /\ \A n \in ns : CurveOf(FamilyOf(n)) = CurveOfKey(k)
      /\ files \in Files /\ payload \in Vaults /\ (overlapped \/ payload = files.vault)
      /\ overlapped \in BOOLEAN
  <2>0. \E n \in ns : TRUE
    OBVIOUS
  <2>1. (CHOOSE n \in ns : TRUE) \in ns
    BY <2>0, Zenon
  <2>2. \A n \in ns : CurveOf(FamilyOf(n)) = CurveOf(FamilyOf(CHOOSE o \in ns : TRUE))
    BY <2>1 DEF ImportNetworks, OneCurve
  <2>3. CurveOfKey(k) = CurveOf(FamilyOf(CHOOSE n \in ns : TRUE))
    BY DEF ImportNetworks, parseImportedKey
  <2> QED BY <2>2, <2>3 DEF ImportNetworks, IInv, FileInv, Rest, PayloadInv
<1>1. UNCHANGED <<seed, migrated, requests, derivation>>
  BY DEF ImportNetworks
<1>2. PICK outcome \in Outcomes :
         \/ \E a \in Wallets(files) : /\ files.accounts[a].key = k
                                      /\ SaveAccounts(Bound(a, ns), outcome)
                                      /\ UNCHANGED <<issued, overlapped>>
         \/ /\ \A a \in Wallets(files) : files.accounts[a].key # k
            /\ ~QuotaExceeded(files) /\ overlapped' = (overlapped \/ derivation # None)
            /\ \E id \in Ids \ issued : /\ issued' = issued \cup {id}
                                        /\ Reseal(With(id, y), Keyed(id), outcome)
  BY DEF ImportNetworks
<1>3. ASSUME NEW a \in Wallets(files), files.accounts[a].key = k,
             SaveAccounts(Bound(a, ns), outcome), UNCHANGED <<issued, overlapped>>
      PROVE  IInv'
  <2>1. ImportedWallet(files.accounts[a])
    BY <1>3, AccountsAssumption DEF IInv, FileInv, WalletInv, DerivedWallet
  <2>2. UNCHANGED <<seed, migrated, requests, issued, unlocking>>
    BY <1>1, <1>3 DEF unlocking
  <2> QED BY <1>0, <1>3, <2>1, <2>2, EnableIInv DEF Fixed, ImportedWallet
<1>4. ASSUME \A a \in Wallets(files) : files.accounts[a].key # k, ~QuotaExceeded(files),
             overlapped' = (overlapped \/ derivation # None),
             NEW id \in Ids \ issued, issued' = issued \cup {id},
             Reseal(With(id, y), Keyed(id), outcome)
      PROVE  IInv'
  <2>1. y \in Items /\ ImportedWallet(y) /\ y.key = k
    <3>1. ImportedAddresses(k) \in Addresses
      BY AddressesTyped
    <3> QED BY <1>0, <3>1 DEF Items, ImportedWallet
  <2>2. \A b \in Wallets(files) : ~SameIdentity(y, files.accounts[b])
    BY <1>4 DEF SameIdentity
  <2>3. Keyed(id) \in Vaults /\ id \in DOMAIN Keyed(id) /\ Keyed(id)[id] = k
    <3>1. payload \in Vaults
      BY <1>0
    <3>2. DOMAIN payload \in SUBSET Ids /\ payload \in [DOMAIN payload -> Keys]
      BY <3>1, VaultTypes
    <3>3. Keyed(id) \in [DOMAIN payload \cup {id} -> Keys] /\ DOMAIN payload \cup {id} \in SUBSET Ids
      BY <3>2
    <3>4. Keyed(id) \in Vaults
      BY <3>3, VaultTypes
    <3> QED BY <3>4
  <2>4. overlapped \/ \A a \in DOMAIN files.vault :
                        a # id => a \in DOMAIN Keyed(id) /\ Keyed(id)[a] = files.vault[a]
    BY <1>0
  <2>6. /\ overlapped' \in BOOLEAN /\ (overlapped => overlapped')
        /\ overlapped' \/ derivation = None
    BY <1>0, <1>4
  <2>5. /\ Save([accounts |-> With(id, y), vault |-> Keyed(id)], outcome)
        /\ payload' = IF outcome = "ok" THEN Keyed(id) ELSE payload
    BY <1>4 DEF Reseal
  <2> HIDE DEF y, Keyed
  <2> QED BY <1>1, <1>4, <2>1, <2>2, <2>3, <2>4, <2>5, <2>6, AddIInv
<1> QED BY <1>2, <1>3, <1>4

\* A network is enabled; the first one gives a migrated wallet its family.
LEMMA BindIInv ==
    ASSUME IInv, NEW a \in Wallets(files), NEW n \in Networks, BindNetwork(a, n)
    PROVE  IInv'
<1> DEFINE x == files.accounts[a]
           f == FamilyOf(n)
           y == Rebound(x, f, n)
           accounts == With(a, y)
<1>0. /\ files \in Files /\ x \in Items /\ WalletInv(files, a, seed, migrated, overlapped)
      /\ f \in Families /\ MayBind(x, f) /\ UNCHANGED <<seed, migrated, requests, issued, unlocking>>
  BY FileFacts, FamilyFacts DEF IInv, FileInv, BindNetwork
<1>1. PICK outcome \in Outcomes : SaveAccounts(accounts, outcome)
  BY DEF BindNetwork
<1>2. accounts = [b \in Wallets(files) |-> IF b = a THEN y ELSE files.accounts[b]]
  BY DEF With
<1>3. CASE Fixed(x)
  <2>1. y = [x EXCEPT !.networks = @ \cup {n}]
    BY <1>3 DEF Rebound, Fixed
  <2>2. y \in Items /\ SameIdentity(y, x) /\ y.addresses = x.addresses /\ y.networks = x.networks \cup {n}
    BY <1>0, <2>1 DEF Items, SameIdentity
  <2>3. DerivedWallet(x) => x.family = f
    BY <1>0, <1>3 DEF DerivedWallet, MayBind, Fixed
  <2>4. ImportedWallet(x) => CurveOf(f) = CurveOfKey(x.key)
    BY <1>0, FamilyFacts DEF ImportedWallet, MayBind, HasAddress, ImportedAddresses
  <2> HIDE DEF y, f
  <2>5. f = FamilyOf(n)
    BY DEF f
  <2>6. CASE DerivedWallet(x)
    <3>1. DerivedWallet(y)
      BY <1>3, <2>2, <2>3, <2>5, <2>6 DEF DerivedWallet, SameIdentity, Fixed
    <3> QED BY <1>0, <1>1, <1>2, <2>2, <3>1, ChangeIInv
  <2>7. CASE ImportedWallet(x)
    <3>1. ImportedWallet(y)
      BY <2>2, <2>4, <2>5, <2>7 DEF ImportedWallet, SameIdentity
    <3> QED BY <1>0, <1>1, <1>2, <2>2, <3>1, ChangeIInv
  <2> QED BY <1>0, <2>6, <2>7 DEF WalletInv
<1>4. CASE ~Fixed(x)
  <2>1. x.kind = "derived" /\ x.family = None /\ DerivedWallet(x)
    BY <1>0, <1>4 DEF Fixed, WalletInv, ImportedWallet
  <2>2. x.networks = {} /\ x.addresses = DerivedAddresses(x.index) /\ x.index \in Indexes
    BY <2>1, AccountsAssumption DEF DerivedWallet
  <2>3. f \in {"evm", "tron"}
    BY <1>0, <2>2 DEF MayBind, HasAddress, DerivedAddresses
  <2>4. Restrict(x.addresses, DOMAIN x.addresses \cap {f}) = [g \in {f} |-> DerivedAddress(f, x.index)]
    <3>1. DOMAIN x.addresses \cap {f} = {f}
      BY <2>2, <2>3 DEF DerivedAddresses
    <3>2. Restrict(x.addresses, {f}) = [g \in {f} |-> x.addresses[g]]
      BY DEF Restrict
    <3>3. x.addresses[f] = DerivedAddress(f, x.index)
      BY <2>2, <2>3 DEF DerivedAddresses
    <3> QED BY <3>1, <3>2, <3>3
  <2>5. [g \in {f} |-> DerivedAddress(f, x.index)] \in Addresses
    BY <1>0, <2>2, AddressesTyped
  <2>6. /\ y \in Items /\ y.kind = "derived" /\ y.family = f /\ y.index = x.index /\ y.key = x.key
        /\ y.addresses = [g \in {f} |-> DerivedAddress(f, x.index)] /\ y.networks = {n}
    <3> DEFINE R == Restrict(x.addresses, DOMAIN x.addresses \cap {f})
    <3>1. y = [[x EXCEPT !.family = f, !.addresses = R] EXCEPT !.networks = @ \cup {n}]
      BY <2>1 DEF Rebound
    <3>2. R = [g \in {f} |-> DerivedAddress(f, x.index)] /\ R \in Addresses
      BY <2>4, <2>5
    <3> HIDE DEF R, y, f
    <3> QED BY <1>0, <2>1, <2>2, <3>1, <3>2 DEF Items
  <2>7. f = FamilyOf(n)
    OBVIOUS
  <2> HIDE DEF y, f
  <2>8. DerivedWallet(y)
    BY <1>0, <2>1, <2>2, <2>6, <2>7 DEF DerivedWallet
  <2> QED BY <1>0, <1>1, <1>2, <1>4, <2>6, <2>8, ChangeIInv
<1> QED BY <1>3, <1>4

\* A network is disabled.
LEMMA UnbindIInv ==
    ASSUME IInv, NEW a \in Wallets(files), NEW n \in Networks, UnbindNetwork(a, n)
    PROVE  IInv'
<1> DEFINE x == files.accounts[a]
           y == [x EXCEPT !.networks = @ \ {n}]
           accounts == [files.accounts EXCEPT ![a].networks = @ \ {n}]
<1>0. /\ files \in Files /\ x \in Items /\ WalletInv(files, a, seed, migrated, overlapped)
      /\ UNCHANGED <<seed, migrated, requests, issued, unlocking>>
  BY FileFacts DEF IInv, FileInv, UnbindNetwork
<1>1. PICK outcome \in Outcomes : SaveAccounts(accounts, outcome)
  BY DEF UnbindNetwork
<1>2. accounts = [b \in Wallets(files) |-> IF b = a THEN y ELSE files.accounts[b]]
  BY <1>0 DEF Wallets, Items
<1>3. y \in Items /\ SameIdentity(y, x) /\ y.addresses = x.addresses /\ y.networks = x.networks \ {n}
  BY <1>0 DEF Items, SameIdentity
<1>4. DerivedWallet(y) \/ ImportedWallet(y)
  <2> HIDE DEF y
  <2> QED BY <1>0, <1>3 DEF WalletInv, DerivedWallet, ImportedWallet, SameIdentity
<1> HIDE DEF y, accounts
<1> QED BY <1>0, <1>1, <1>2, <1>3, <1>4, ChangeIInv

\* A rename writes the file as it is in memory.
LEMMA RenameIInv ==
    ASSUME IInv, NEW a \in Wallets(files), RenameAccount(a)
    PROVE  IInv'
<1>0. /\ files \in Files /\ FileInv(files, seed, migrated, overlapped) /\ Rest
      /\ UNCHANGED <<seed, migrated, requests, issued, unlocking>>
  BY DEF IInv, FileInv, RenameAccount
<1>1. PICK outcome \in Outcomes : SaveAccounts(files.accounts, outcome)
  BY DEF RenameAccount
<1>2. [files EXCEPT !.accounts = files.accounts] = files
  BY <1>0 DEF Files
<1>3. Save(files, outcome) /\ UNCHANGED payload
  BY <1>1, <1>2 DEF SaveAccounts
<1>4. Wallets(files) \subseteq issued /\ issued \subseteq issued' /\ issued' \subseteq Ids
  BY <1>0 DEF Rest
<1>5. /\ overlapped' \in BOOLEAN /\ (overlapped => overlapped')
      /\ FileInv(files, seed, migrated, overlapped')
      /\ derivation' = derivation
  BY <1>0 DEF unlocking, Rest
<1> QED BY <1>0, <1>3, <1>4, <1>5, WriteIInv

\* A wallet is deleted, an imported one with its key.
LEMMA DeleteIInv ==
    ASSUME IInv, NEW a \in Wallets(files), DeleteAccount(a)
    PROVE  IInv'
<1> DEFINE rest == Restrict(files.accounts, Wallets(files) \ {a})
           fewer == Restrict(payload, DOMAIN payload \ {a})
<1>0. /\ files \in Files /\ FileInv(files, seed, migrated, overlapped) /\ Rest
      /\ UNCHANGED <<seed, migrated, requests, issued, unlocking>>
      /\ payload \in Vaults /\ (overlapped \/ payload = files.vault) /\ files.vault \in Vaults
      /\ derivation = None /\ overlapped \in BOOLEAN
  BY FileFacts DEF IInv, FileInv, DeleteAccount, Rest, PayloadInv
<1>1. PICK outcome \in Outcomes :
         \/ Reseal(rest, fewer, outcome)
         \/ SaveAccounts(rest, outcome)
  BY DEF DeleteAccount
<1>2. fewer \in Vaults /\ (overlapped \/ \A b \in DOMAIN files.vault : b # a =>
                              b \in DOMAIN fewer /\ fewer[b] = files.vault[b])
  <2>1. DOMAIN payload \in SUBSET Ids /\ payload \in [DOMAIN payload -> Keys]
    BY <1>0, VaultTypes
  <2>2. fewer \in [DOMAIN payload \ {a} -> Keys] /\ DOMAIN payload \ {a} \in SUBSET Ids
    BY <2>1 DEF Restrict
  <2>3. fewer \in Vaults
    BY <2>2, VaultTypes
  <2> QED BY <1>0, <2>3 DEF Restrict
<1>3. PICK vault \in Vaults :
         /\ overlapped \/ \A b \in Wallets(files) : b # a /\ b \in DOMAIN files.vault =>
                             b \in DOMAIN vault /\ vault[b] = files.vault[b]
         /\ Save([accounts |-> rest, vault |-> vault], outcome)
         /\ \/ UNCHANGED payload /\ vault = files.vault
            \/ payload' = IF outcome = "ok" THEN vault ELSE payload
  <2>1. CASE Reseal(rest, fewer, outcome)
    <3> HIDE DEF rest, fewer
    <3> QED BY <1>2, <2>1 DEF Reseal
  <2>2. CASE SaveAccounts(rest, outcome)
    <3> HIDE DEF rest
    <3> QED BY <1>0, <2>2, FileFacts DEF SaveAccounts
  <2> QED BY <1>1, <2>1, <2>2
<1> DEFINE file == [accounts |-> rest, vault |-> vault]
<1>4. FileInv(file, seed, migrated, overlapped)
  BY <1>0, <1>3, RemoveFile
<1>5. /\ Wallets(file) = Wallets(files) \ {a} /\ file.vault = vault
      /\ \A b \in Wallets(file) : file.accounts[b] = files.accounts[b]
  BY DEF Wallets, Restrict
<1>6. Wallets(file) \subseteq issued' /\ issued \subseteq issued' /\ issued' \subseteq Ids
  BY <1>0, <1>5 DEF Rest
<1>7. Save(file, outcome)
  BY <1>3
<1>8. /\ overlapped' \in BOOLEAN /\ (overlapped => overlapped')
      /\ FileInv(file, seed, migrated, overlapped')
      /\ derivation' = None /\ derivation' = derivation
  BY <1>0, <1>4 DEF unlocking
<1> HIDE DEF file
<1> QED BY <1>0, <1>3, <1>5, <1>6, <1>7, <1>8, WriteIInv

\* Steps that write nothing: sessions and requests.
LEMMA ReadIInv ==
    ASSUME IInv, UNCHANGED <<seed, files, disk, issued, migrated, overlapped, faults>>,
           PayloadInv', DerivationInv',
           requests' \in [Requests -> [id : Ids \cup {None}, network : Networks \cup {None},
                                       from : Signers, lent : Signers]],
           \A r \in Requests : requests'[r] = requests[r] \/ RequestInv(r)'
    PROVE  IInv'
<1>1. FileInv(files, seed, migrated, overlapped)' /\ FileInv(disk, seed, migrated, overlapped)'
  <2>1. FileInv(files', seed, migrated, overlapped) /\ FileInv(disk', seed, migrated, overlapped)
    BY DEF IInv
  <2> QED BY <2>1 DEF FileInv, WalletInv, DerivedWallet, ImportedWallet, SameIdentity, Wallets
<1>2. Rest'
  <2>1. Rest /\ Wallets(files)' = Wallets(files) /\ Wallets(disk)' = Wallets(disk)
    BY DEF IInv, Wallets
  <2> QED BY <2>1 DEF Rest
<1>3. ASSUME NEW r \in Requests PROVE RequestInv(r)'
  <2>1. CASE requests'[r] = requests[r]
    <3>1. RequestInv(r)
      BY DEF IInv
    <3> QED BY <2>1, <3>1 DEF RequestInv, Wallets, Fixed, HasAddress, FamilyOf
  <2> QED BY <2>1
<1> QED BY <1>1, <1>2, <1>3 DEF IInv

\* A derivation, or a session, that is not touched or ends keeps its invariant.
LEMMA SameDerivation ==
    ASSUME IInv, UNCHANGED <<files, overlapped>>, derivation' \in {derivation, None}
    PROVE  DerivationInv'
BY DEF IInv, Rest, DerivationInv

LEMMA SamePayload ==
    ASSUME IInv, UNCHANGED <<files, overlapped>>, payload' \in {payload, None}
    PROVE  PayloadInv'
BY DEF IInv, Rest, PayloadInv

\* A derivation begins, or a session opens or closes.
LEMMA SessionIInv ==
    ASSUME IInv, Unlock \/ Lock \/ \E op \in {"unlock", "change"} : Derive(op)
    PROVE  IInv'
<1>1. UNCHANGED <<seed, files, disk, issued, migrated, overlapped, faults, requests>>
  BY DEF Unlock, Lock, Derive, unlocking
<1>2. requests' \in [Requests -> [id : Ids \cup {None}, network : Networks \cup {None},
                                  from : Signers, lent : Signers]]
  BY <1>1 DEF IInv, Rest
<1>3. Rest /\ files.vault \in Vaults
  BY DEF IInv, FileInv, Files
<1>4. CASE Unlock
  <2>1. derivation # None /\ payload' = derivation.vault /\ derivation' = None
    BY <1>4 DEF Unlock, Under
  <2>2. DerivationInv'
    BY <2>1 DEF DerivationInv
  <2>3. PayloadInv'
    BY <1>1, <1>3, <2>1 DEF Rest, DerivationInv, PayloadInv
  <2> QED BY <1>1, <1>2, <2>2, <2>3, ReadIInv
<1>5. CASE Lock
  <2>1. payload' = None /\ UNCHANGED <<files, derivation, overlapped>>
    BY <1>5 DEF Lock, unlocking
  <2> QED BY <1>1, <1>2, <2>1, SameDerivation, SamePayload, ReadIInv
<1>6. ASSUME NEW op \in {"unlock", "change"}, Derive(op) PROVE IInv'
  <2>1. payload' = payload /\ derivation' = [op |-> op, vault |-> files.vault]
    BY <1>6 DEF Derive
  <2>2. DerivationInv'
    BY <1>1, <1>3, <2>1 DEF DerivationInv
  <2> QED BY <1>1, <1>2, <2>1, <2>2, SamePayload, ReadIInv
<1> QED BY <1>4, <1>5, <1>6

\* The password changes: the vault that was sealed goes into the file.
LEMMA ChangeVaultIInv == ASSUME IInv, ChangePassword PROVE IInv'
<1> DEFINE file == [files EXCEPT !.vault = derivation.vault]
<1>0. /\ Rest /\ FileInv(files, seed, migrated, overlapped) /\ files \in Files
      /\ derivation # None /\ derivation.vault \in Vaults
      /\ (overlapped \/ derivation.vault = files.vault)
      /\ UNCHANGED <<seed, issued, migrated, requests, overlapped>> /\ derivation' = None
  BY DEF IInv, FileInv, Rest, DerivationInv, ChangePassword, Under
<1>1. PICK outcome \in Outcomes :
         /\ Save(file, outcome)
         /\ payload' = IF outcome = "ok" /\ payload # None THEN derivation.vault ELSE payload
  BY DEF ChangePassword
<1>2. /\ file \in Files /\ file.accounts = files.accounts /\ file.vault = derivation.vault
      /\ Wallets(file) = Wallets(files)
  BY <1>0 DEF Files, Wallets
<1> HIDE DEF file
<1>3. FileInv(file, seed, migrated, overlapped)
  <2>1. ASSUME NEW a \in Wallets(file) PROVE WalletInv(file, a, seed, migrated, overlapped)
    <3>1. WalletInv(files, a, seed, migrated, overlapped)
      BY <1>0, <1>2 DEF FileInv
    <3>2. overlapped \/ (a \in DOMAIN files.vault =>
                           a \in DOMAIN file.vault /\ file.vault[a] = files.vault[a])
      BY <1>0, <1>2
    <3> QED BY <1>2, <3>1, <3>2, SameWallet
  <2> QED BY <1>0, <1>2, <2>1 DEF FileInv
<1>4. /\ overlapped' \in BOOLEAN /\ (overlapped => overlapped')
      /\ FileInv(file, seed, migrated, overlapped')
  BY <1>0, <1>3 DEF Rest
<1>5. /\ issued \subseteq issued' /\ issued' \subseteq Ids /\ Wallets(file) \subseteq issued'
  BY <1>0, <1>2 DEF Rest
<1>6. \A a \in Wallets(file) : a \in issued =>
         /\ a \in Wallets(files)
         /\ Fixed(files.accounts[a]) =>
              Fixed(file.accounts[a]) /\ file.accounts[a].addresses = files.accounts[a].addresses
  BY <1>2
<1> QED BY <1>0, <1>1, <1>2, <1>4, <1>5, <1>6, WriteIInv

\* The process starts again with what is on disk.
LEMMA RestartIInv == ASSUME IInv, Restart PROVE IInv'
<1>1. FileInv(files, seed, migrated, overlapped)' /\ FileInv(disk, seed, migrated, overlapped)'
  <2>1. FileInv(files', seed, migrated, overlapped) /\ FileInv(disk', seed, migrated, overlapped)
    BY DEF IInv, Restart
  <2> QED BY <2>1 DEF FileInv, WalletInv, DerivedWallet, ImportedWallet, SameIdentity, Wallets, Restart
<1>2. Rest'
  <2>1. /\ Rest /\ Wallets(files)' = Wallets(disk) /\ Wallets(disk)' = Wallets(disk)
        /\ UNCHANGED <<seed, issued, migrated, overlapped, faults>> /\ payload' = None
        /\ derivation' = None
        /\ requests' = [r \in Requests |-> NoRequest]
    BY DEF IInv, Wallets, Restart
  <2>2. NoRequest \in [id : Ids \cup {None}, network : Networks \cup {None},
                       from : Signers, lent : Signers]
    BY DEF NoRequest, Signers
  <2> QED BY <2>1, <2>2 DEF Rest, DerivationInv, PayloadInv
<1>3. \A r \in Requests : RequestInv(r)'
  BY DEF Restart, RequestInv, NoRequest
<1> QED BY <1>1, <1>2, <1>3 DEF IInv

\* A request looks its wallet up.
LEMMA BeginIInv ==
    ASSUME IInv, NEW a \in Wallets(files), NEW n \in Networks, NEW r \in Requests,
           BeginRequest(r, a, n)
    PROVE  IInv'
<1> DEFINE x == files.accounts[a]
           f == FamilyOf(n)
           New == [NoRequest EXCEPT !.id = a, !.network = n, !.from = x.addresses[f]]
<1>0. /\ UNCHANGED <<seed, files, disk, payload, issued, migrated, derivation, overlapped, faults>>
      /\ requests' = [requests EXCEPT ![r] = New]
      /\ Rest /\ files \in Files /\ x \in Items /\ WalletInv(files, a, seed, migrated, overlapped)
      /\ f \in DOMAIN x.addresses /\ n \in x.networks
      /\ a \in Ids /\ a \in issued
  BY FileFacts DEF IInv, FileInv, BeginRequest, HasAddress, BoundTo, Rest, unlocking
<1>1. Fixed(x)
  BY <1>0, BoundHasAddress DEF WalletInv
<1>2. New.id = a /\ New.network = n /\ New.from = x.addresses[f] /\ New.lent = None
  BY DEF NoRequest
<1>3. x.addresses[f] \in Signers
  BY <1>0, AddressTypes DEF Items, Signers
<1>4. New \in [id : Ids \cup {None}, network : Networks \cup {None}, from : Signers, lent : Signers]
  BY <1>0, <1>3 DEF NoRequest, Signers
<1> HIDE DEF New
<1>5. requests' \in [Requests -> [id : Ids \cup {None}, network : Networks \cup {None},
                                  from : Signers, lent : Signers]]
  BY <1>0, <1>4 DEF Rest
<1>6. requests'[r] = New /\ \A s \in Requests \ {r} : requests'[s] = requests[s]
  BY <1>0 DEF Rest
<1>7. RequestInv(r)'
  BY <1>0, <1>1, <1>2, <1>6 DEF RequestInv, Wallets, Fixed, HasAddress, FamilyOf
<1> QED BY <1>0, <1>5, <1>6, <1>7, SameDerivation, SamePayload, ReadIInv

\* A request borrows the key, or ends.
LEMMA RequestIInv ==
    ASSUME IInv, NEW r \in Requests, WithKey(r) \/ Answer(r)
    PROVE  IInv'
<1> DEFINE Type == [id : Ids \cup {None}, network : Networks \cup {None},
                    from : Signers, lent : Signers]
           q == requests[r]
           f == FamilyOf(q.network)
<1>0. /\ UNCHANGED <<seed, files, disk, payload, issued, migrated, derivation, overlapped, faults>>
      /\ Rest /\ requests \in [Requests -> Type] /\ q \in Type /\ RequestInv(r)
  BY DEF IInv, Rest, WithKey, Answer, unlocking
<1>1. CASE requests' = [requests EXCEPT ![r] = NoRequest]
  <2>1. NoRequest \in Type /\ NoRequest.id = None /\ NoRequest.lent = None
    BY DEF NoRequest, Signers
  <2>2. /\ requests' \in [Requests -> Type] /\ requests'[r] = NoRequest
        /\ \A s \in Requests \ {r} : requests'[s] = requests[s]
    BY <1>0, <1>1, <2>1
  <2>3. RequestInv(r)'
    BY <2>1, <2>2 DEF RequestInv
  <2> QED BY <1>0, <2>2, <2>3, SameDerivation, SamePayload, ReadIInv
<1>2. CASE \E a \in findAccount(q.id, q.network) :
             LET key == privateKeyFor(files.accounts[a], f) IN
             q.id # None /\ key # None /\ requests' = [requests EXCEPT ![r].lent = key]
  <2> DEFINE key == privateKeyFor(files.accounts[q.id], f)
  <2>1. /\ q.id # None /\ q.id \in Wallets(files) /\ key # None
        /\ requests' = [requests EXCEPT ![r].lent = key]
    BY <1>2 DEF findAccount
  <2>2. /\ Fixed(files.accounts[q.id]) /\ HasAddress(files.accounts[q.id], f)
        /\ files.accounts[q.id].addresses[f] = q.from
    BY <1>0, <2>1 DEF RequestInv
  <2>3. DerivedWallet(files.accounts[q.id]) \/ ImportedWallet(files.accounts[q.id])
    BY <2>1 DEF IInv, FileInv, WalletInv
  <2>4. key = q.from
    BY <2>2, <2>3, Spendable, FamilyFacts
  <2> HIDE DEF key, f
  <2>5. /\ requests' \in [Requests -> Type]
        /\ \A s \in Requests \ {r} : requests'[s] = requests[s]
        /\ requests'[r] = [q EXCEPT !.lent = q.from]
    BY <1>0, <2>1, <2>4
  <2>6. /\ requests'[r].lent = q.from /\ requests'[r].from = q.from
        /\ requests'[r].id = q.id /\ requests'[r].network = q.network
    BY <1>0, <2>5
  <2>7. RequestInv(r)'
    BY <1>0, <2>6 DEF RequestInv, Wallets, Fixed, HasAddress, FamilyOf
  <2> QED BY <1>0, <2>5, <2>7, SameDerivation, SamePayload, ReadIInv
<1> QED BY <1>1, <1>2 DEF WithKey, Answer

-----------------------------------------------------------------------------
(* The theorems.                                                           *)

\* The invariant holds throughout.
LEMMA Inductive == AccountsSpec => []IInv
<1>1. IInv /\ [AccountsNext]_accountsVars => IInv'
  <2> SUFFICES ASSUME IInv, [AccountsNext]_accountsVars PROVE IInv'
    OBVIOUS
  <2>1. ASSUME NEW ns \in (SUBSET Networks) \ {{}}, DeriveNetworks(ns) PROVE IInv'
    BY <2>1, DeriveIInv
  <2>2. ASSUME NEW ns \in (SUBSET Networks) \ {{}}, NEW k \in Keys, ImportNetworks(ns, k) PROVE IInv'
    BY <2>2, ImportIInv
  <2>3. ASSUME NEW a \in Wallets(files), RenameAccount(a) PROVE IInv'
    BY <2>3, RenameIInv
  <2>4. ASSUME NEW a \in Wallets(files), DeleteAccount(a) PROVE IInv'
    BY <2>4, DeleteIInv
  <2>5. ASSUME NEW a \in Wallets(files), NEW n \in Networks, BindNetwork(a, n) PROVE IInv'
    BY <2>5, BindIInv
  <2>6. ASSUME NEW a \in Wallets(files), NEW n \in Networks, UnbindNetwork(a, n) PROVE IInv'
    BY <2>6, UnbindIInv
  <2>7. ASSUME NEW a \in Wallets(files), NEW n \in Networks, NEW r \in Requests, BeginRequest(r, a, n)
        PROVE  IInv'
    BY <2>7, BeginIInv
  <2>8. ASSUME NEW r \in Requests, WithKey(r) \/ Answer(r) PROVE IInv'
    BY <2>8, RequestIInv
  <2>9. CASE Unlock \/ Lock \/ \E op \in {"unlock", "change"} : Derive(op)
    BY <2>9, SessionIInv
  <2>12. CASE ChangePassword
    BY <2>12, ChangeVaultIInv
  <2>10. CASE Restart
    BY <2>10, RestartIInv
  <2>11. CASE UNCHANGED accountsVars
    <3>1. UNCHANGED <<seed, files, disk, issued, migrated, derivation, overlapped, faults,
                      requests, payload>>
      BY <2>11 DEF accountsVars, unlocking
    <3>2. requests' \in [Requests -> [id : Ids \cup {None}, network : Networks \cup {None},
                                      from : Signers, lent : Signers]]
      BY <3>1 DEF IInv, Rest
    <3> QED BY <3>1, <3>2, SameDerivation, SamePayload, ReadIInv
  <2> QED BY <2>1, <2>2, <2>3, <2>4, <2>5, <2>6, <2>7, <2>8, <2>9, <2>10, <2>11, <2>12 DEF AccountsNext
<1> QED BY <1>1, InitIInv, PTL DEF AccountsSpec

\* The wallets of memory and disk have the shape account.go gives them, and a
\* space holds no more of them than the quota unless a migration brought them.
THEOREM TypeCorrect == AccountsSpec => []AccountsTypeOK
<1>1. IInv => AccountsTypeOK
  <2> SUFFICES ASSUME IInv PROVE AccountsTypeOK
    OBVIOUS
  <2>1. Rest
    BY DEF IInv
  <2>2. ASSUME NEW file \in {files, disk}
        PROVE  /\ Wallets(file) \subseteq issued
               /\ Cardinality(Wallets(file)) <= MaxAccounts \/ Wallets(file) \subseteq migrated
               /\ \A a \in Wallets(file) :
                    LET item == file.accounts[a] IN
                    /\ item.kind \in {"derived", "imported"} /\ item.family \in Families \cup {None}
                    /\ item.index \in Indexes \cup {None} /\ item.key \in Keys \cup {None}
                    /\ DOMAIN item.addresses \subseteq Families /\ item.networks \subseteq Networks
    <3>1. file \in Files /\ Wallets(file) \subseteq issued
          /\ (Cardinality(Wallets(file)) <= MaxAccounts \/ Wallets(file) \subseteq migrated)
      BY <2>1 DEF IInv, FileInv, Rest
    <3>2. \A a \in Wallets(file) : file.accounts[a] \in Items
      BY <3>1, FileFacts
    <3>3. \A x \in Items : DOMAIN x.addresses \subseteq Families
      BY AddressTypes DEF Items
    <3> QED BY <3>1, <3>2, <3>3 DEF Items
  <2>3. \A r \in Requests : requests[r].id \in issued \cup {None}
    BY DEF IInv, RequestInv
  <2>4. derivation = None \/ derivation.op \in {"unlock", "change"}
    BY <2>1 DEF Rest, DerivationInv
  <2> QED BY <2>1, <2>2, <2>3, <2>4 DEF AccountsTypeOK, Rest
<1> QED BY <1>1, Inductive, PTL

\* Wallets of a kind that share an address were made from the same index, or
\* from the same key.
LEMMA SharedAddress ==
    ASSUME NEW x, NEW y, x.kind = y.kind, SameKey(x, y), Fixed(x), Fixed(y),
           DerivedWallet(x) \/ ImportedWallet(x), DerivedWallet(y) \/ ImportedWallet(y)
    PROVE  SameIdentity(x, y)
<1>1. PICK f \in DOMAIN x.addresses \cap DOMAIN y.addresses : x.addresses[f] = y.addresses[f]
  BY DEF SameKey
<1>2. CASE DerivedWallet(x) /\ DerivedWallet(y)
  <2>1. /\ x.addresses = [g \in {x.family} |-> DerivedAddress(x.family, x.index)]
        /\ y.addresses = [g \in {y.family} |-> DerivedAddress(y.family, y.index)]
        /\ x.key = None /\ y.key = None
    BY <1>2, AccountsAssumption DEF DerivedWallet, Fixed
  <2>2. f = x.family /\ f = y.family /\ DerivedAddress(f, x.index) = DerivedAddress(f, y.index)
    BY <1>1, <2>1
  <2>3. x.index = y.index
    BY <2>2 DEF DerivedAddress, DerivedKey
  <2> QED BY <2>1, <2>2, <2>3 DEF SameIdentity
<1>3. CASE ImportedWallet(x) /\ ImportedWallet(y)
  <2>1. /\ x.addresses[f] = <<f, x.key>> /\ y.addresses[f] = <<f, y.key>>
        /\ x.family = y.family /\ x.index = y.index
    BY <1>1, <1>3 DEF ImportedWallet, ImportedAddresses
  <2>2. <<f, x.key>> = <<f, y.key>>
    BY <1>1, <2>1, Zenon
  <2>3. x.key = y.key
    BY <2>2
  <2> QED BY <2>1, <2>3 DEF SameIdentity
<1> QED BY <1>2, <1>3 DEF DerivedWallet, ImportedWallet

\* The seed never gives two wallets for one key, nor do imports, whatever was
\* unbound, deleted, made again or lost with a failed write, and also when a
\* key of the seed is imported beside its derived wallet.
THEOREM KeysNotShared == AccountsSpec => []OneWalletPerKeyOfAKind
<1>1. ASSUME IInv, NEW a \in Wallets(files) \ migrated, NEW b \in Wallets(files) \ migrated, a # b,
             SameKey(files.accounts[a], files.accounts[b])
      PROVE  files.accounts[a].kind # files.accounts[b].kind
  <2>1. ~SameIdentity(files.accounts[a], files.accounts[b])
    BY <1>1 DEF IInv, FileInv
  <2>2. \A c \in {a, b} : /\ DerivedWallet(files.accounts[c]) \/ ImportedWallet(files.accounts[c])
                          /\ Fixed(files.accounts[c])
    BY <1>1 DEF IInv, FileInv, WalletInv, Fixed, ImportedWallet
  <2> QED BY <1>1, <2>1, <2>2, SharedAddress
<1>2. IInv => OneWalletPerKeyOfAKind
  BY <1>1 DEF OneWalletPerKeyOfAKind
<1> QED BY <1>2, Inductive, PTL

\* A wallet enabled on a network has an address there and a key that signs
\* for it, which the open session holds unless a key was imported beside an
\* Unlock or a ChangePassword.
THEOREM EnabledCanSpend == AccountsSpec => []BoundIsSpendable
<1>1. IInv => BoundIsSpendable
  <2> SUFFICES ASSUME IInv, NEW a \in Wallets(files), NEW n \in files.accounts[a].networks
               PROVE  /\ HasAddress(files.accounts[a], FamilyOf(n))
                      /\ (files.accounts[a].kind = "imported" /\ payload # None /\ ~overlapped
                            => a \in DOMAIN payload)
                      /\ privateKeyFor(files.accounts[a], FamilyOf(n))
                           = files.accounts[a].addresses[FamilyOf(n)]
    BY DEF BoundIsSpendable
  <2>1. files.accounts[a] \in Items /\ WalletInv(files, a, seed, migrated, overlapped) /\ Rest
    BY FileFacts DEF IInv, FileInv
  <2>2. DerivedWallet(files.accounts[a]) \/ ImportedWallet(files.accounts[a])
    BY <2>1 DEF WalletInv
  <2>3. HasAddress(files.accounts[a], FamilyOf(n)) /\ Fixed(files.accounts[a])
    BY <2>1, <2>2, BoundHasAddress
  <2>4. privateKeyFor(files.accounts[a], FamilyOf(n)) = files.accounts[a].addresses[FamilyOf(n)]
    BY <2>2, <2>3, Spendable, FamilyFacts
  <2>5. files.accounts[a].kind = "imported" /\ payload # None /\ ~overlapped => a \in DOMAIN payload
    BY <2>1 DEF WalletInv, DerivedWallet, Rest, PayloadInv
  <2> QED BY <2>3, <2>4, <2>5
<1> QED BY <1>1, Inductive, PTL

\* The space opens with its password after any write, and after a restart
\* from any point between two steps, of an Unlock or a ChangePassword too, as
\* long as no key was imported beside one of those.
THEOREM OpensAgain == AccountsSpec => []SpaceReopens
<1>1. ASSUME NEW file, FileInv(file, seed, migrated, overlapped), ~overlapped PROVE verifyPayload(file)
  <2> SUFFICES ASSUME NEW a \in Wallets(file)
               PROVE  LET item == file.accounts[a] IN
                      IF item.kind = "derived"
                      THEN /\ seed
                           /\ IF item.family = None
                              THEN item.addresses = DerivedAddresses(item.index)
                              ELSE /\ HasAddress(item, item.family)
                                   /\ item.addresses[item.family]
                                        = DerivedAddress(item.family, item.index)
                      ELSE a \in DOMAIN file.vault /\ verifyImportedKey(item, file.vault[a])
    BY DEF verifyPayload
  <2>1. WalletInv(file, a, seed, migrated, overlapped)
    BY <1>1 DEF FileInv
  <2>2. CASE DerivedWallet(file.accounts[a]) /\ seed
    BY <2>2, AccountsAssumption DEF DerivedWallet, HasAddress
  <2>3. CASE ImportedWallet(file.accounts[a]) /\ a \in DOMAIN file.vault
               /\ file.vault[a] = file.accounts[a].key
    BY <2>3 DEF ImportedWallet, verifyImportedKey
  <2> QED BY <1>1, <2>1, <2>2, <2>3 DEF WalletInv
<1>2. IInv => SpaceReopens
  BY <1>1 DEF IInv, SpaceReopens
<1> QED BY <1>2, Inductive, PTL

\* A borrowed key signs for the address the request looked up.
THEOREM KeyMatchesAddress == AccountsSpec => []SignsForItsAddress
<1>1. IInv => SignsForItsAddress
  BY DEF IInv, RequestInv, SignsForItsAddress
<1> QED BY <1>1, Inductive, PTL

=============================================================================
