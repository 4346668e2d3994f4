------------------------- MODULE WalletVaultProofs -------------------------
(* Proofs about WalletVault, for every number of mnemonics, identities,    *)
(* wrong PINs and power cuts.                                              *)
EXTENDS WalletVault, TLAPS

-----------------------------------------------------------------------------
(* Reading the namespace after a write and after the erase of wallet_wipe. *)

LEMMA StoredReads ==
    ASSUME nvs \in [Keys -> Nat], NEW k \in Keys, NEW v \in Nat, NEW ok \in Outcomes
    PROVE  /\ Stored(k, v, ok) \in [Keys -> Nat]
           /\ \A j \in Keys : j # k => Stored(k, v, ok)[j] = nvs[j]
           /\ Stored(k, v, ok)[k] = IF ok THEN v ELSE nvs[k]
           /\ ~MayFail => ok
  BY VaultAssumption DEF Stored, Outcomes

LEMMA KeysAre ==
    /\ "lockout" \in Keys /\ "device_sk" \in Keys /\ "pin_sealed" \in Keys
    /\ SealKeys \subseteq Keys /\ CacheKeys \subseteq Keys
    /\ "lockout" \notin SealKeys \cup CacheKeys /\ "device_sk" \notin SealKeys \cup CacheKeys
    /\ "pin_sealed" \in SealKeys /\ "pin_sealed" \notin CacheKeys
    /\ "fvk" \in CacheKeys /\ "ua" \in CacheKeys /\ "lockout" # "device_sk"
    /\ Empty \in [Keys -> Nat] /\ \A k \in Keys : Empty[k] = 0
    /\ SealKeys \cap CacheKeys = {}
  BY DEF Keys, SealKeys, CacheKeys, Empty

LEMMA SealOrderIs ==
    /\ \A i \in 1..4 : SealOrder[i] \in SealKeys
    /\ SealOrder[4] = "pin_sealed"
    /\ \A i, j \in 1..4 : i # j => SealOrder[i] # SealOrder[j]
    /\ \A k \in SealKeys : \E i \in 1..4 : k = SealOrder[i]
  <1>1. /\ SealOrder[1] = "pin_salt" /\ SealOrder[2] = "pin_nonce"
        /\ SealOrder[3] = "pin_tag" /\ SealOrder[4] = "pin_sealed"
    BY DEF SealOrder
  <1>2. 1..4 = {1, 2, 3, 4}
    OBVIOUS
  <1> QED BY <1>1, <1>2 DEF SealKeys

-----------------------------------------------------------------------------
(* The type invariant, whatever the constants are: what flash holds, and   *)
(* what the other variables do.                                            *)

NvsType ==
    /\ nvs \in [Keys -> Nat]
    /\ \A k \in SealKeys \cup CacheKeys : nvs[k] \in Seeds \cup {0}
    /\ nvs["device_sk"] \in Identities \cup {0}
    /\ nvs["lockout"] \in 0..MaxFails

RamType ==
    /\ pc \in Points /\ part \in 1..4
    /\ unlocked \in Seeds \cup {0} /\ fresh \in Seeds \cup {0}
    /\ err \in BOOLEAN /\ lo \in 0..MaxFails
    /\ exported \in Seeds \cup {0} /\ pinned \in Identities \cup {0}
    /\ tries \in 0..MaxTries
    /\ doomed \in Seeds \cup {0} /\ cuts \in 0..MaxCuts

LEMMA TypeParts == TypeOK <=> NvsType /\ RamType
  BY DEF TypeOK, NvsType, RamType

LEMMA TypePartsPrime == TypeOK' <=> NvsType' /\ RamType'
  BY DEF TypeOK, NvsType, RamType

\* A write of a value that belongs under its key, and the erase, keep NvsType.
LEMMA StoredType ==
    ASSUME NvsType, NEW k \in Keys, NEW v \in Nat, NEW ok \in Outcomes,
           k \in SealKeys \cup CacheKeys => v \in Seeds \cup {0},
           k = "device_sk" => v \in Identities,
           k = "lockout" => v \in 0..MaxFails,
           nvs' = Stored(k, v, ok)
    PROVE  NvsType'
  <1>1. /\ nvs' \in [Keys -> Nat]
        /\ \A j \in Keys : nvs'[j] = nvs[j] \/ (j = k /\ nvs'[j] = v)
    BY StoredReads DEF NvsType
  <1> QED BY <1>1, KeysAre DEF NvsType

LEMMA ErasedType ==
    ASSUME NvsType, NEW gone \in SUBSET Keys, NEW ok,
           nvs' = IF ok THEN [k \in Keys |-> IF k \in gone THEN 0 ELSE nvs[k]] ELSE nvs
    PROVE  NvsType'
  <1>1. nvs' \in [Keys -> Nat] /\ \A k \in Keys : nvs'[k] = 0 \/ nvs'[k] = nvs[k]
    BY DEF NvsType
  <1>2. 0 \in 0..MaxFails
    BY VaultAssumption
  <1> QED BY <1>1, <1>2, KeysAre DEF NvsType

LEMMA EmptyType == nvs = Empty => NvsType
  <1>1. 0 \in 0..MaxFails
    BY VaultAssumption
  <1> QED BY <1>1, KeysAre DEF NvsType

LEMMA EmptyTypePrime == nvs' = Empty => NvsType'
  <1>1. 0 \in 0..MaxFails
    BY VaultAssumption
  <1> QED BY <1>1, KeysAre DEF NvsType

LEMMA Bounds ==
    /\ 0 \in 0..MaxTries /\ 0 \in 0..MaxFails /\ 0 \in 0..MaxCuts /\ 1 \in 1..4
    /\ MaxTries \in Nat /\ MaxFails \in Nat /\ MaxCuts \in Nat
    /\ Seeds \subseteq Nat /\ 0 \notin Seeds
    /\ Identities \subseteq Nat /\ 0 \notin Identities
  BY VaultAssumption DEF MaxTries

LEMMA TypeInit == Init => TypeOK
  <1> SUFFICES ASSUME Init PROVE TypeOK
    OBVIOUS
  <1>1. NvsType
    BY EmptyType DEF Init
  <1>2. RamType
    BY Bounds DEF Init, RamType, Points
  <1> QED BY <1>1, <1>2, TypeParts

\* What the two accesses of an identity or a cached key may do.
LEMMA IdentityType ==
    ASSUME NvsType, RamType, LoadOrCreateIdentity
    PROVE  NvsType' /\ pinned' \in Identities \cup {0}
  <1>1. CASE UNCHANGED nvs
    BY <1>1 DEF LoadOrCreateIdentity, NvsType, RamType
  <1>2. ASSUME NEW d \in Identities, NEW ok \in Outcomes,
               nvs' = Stored("device_sk", d, ok)
        PROVE  NvsType'
    BY <1>2, KeysAre, Bounds, StoredType
  <1> QED BY <1>1, <1>2 DEF LoadOrCreateIdentity, NvsType, RamType

LEMMA ExportType ==
    ASSUME NvsType, RamType, NEW c \in CacheKeys, ReadOrDerive(c)
    PROVE  NvsType' /\ exported' \in Seeds \cup {0}
  <1>1. c \in Keys /\ c # "device_sk" /\ c # "lockout"
        /\ unlocked \in Nat /\ unlocked \in Seeds \cup {0}
        /\ nvs[c] \in Seeds \cup {0}
    BY KeysAre, Bounds DEF NvsType, RamType
  <1>2. ASSUME NEW ok \in Outcomes, nvs' = Stored(c, unlocked, ok) PROVE NvsType'
    BY <1>1, <1>2, StoredType
  <1> QED BY <1>1, <1>2 DEF ReadOrDerive, NvsType

\* While a failure is counted, the count loaded was below the threshold.
Counting == pc = "count" => lo < MaxFails

LEMMA CountingNext == TypeOK /\ Counting /\ [Next]_vars => Counting'
  <1> SUFFICES ASSUME TypeOK, Counting, [Next]_vars, pc' = "count"
               PROVE  lo' < MaxFails
    BY DEF Counting
  <1>1. ASSUME NEW right \in BOOLEAN, PinEntered(right) PROVE lo' < MaxFails
    BY <1>1, Bounds DEF PinEntered, TypeOK
  <1>2. CASE UNCHANGED vars
    BY <1>2 DEF vars, ramVars, Counting
  <1>3. CASE \E right \in BOOLEAN : PinEntered(right)
    BY <1>1, <1>3
  <1> QED BY <1>2, <1>3
      DEF Next, BootStep, UserStep, HostStep, BootInit, BootErase, BootCheck, Create,
          ChoosePin, WritePart, ResetLockout, ShowIdentity, DeriveFvk, DeriveUa,
          ServeIdentity, ServeFvk, PinStatus, PinAbandoned, CountFailure,
          ClearFailures, Wipe, PowerCut

LEMMA TypeNext == TypeOK /\ Counting /\ [Next]_vars => TypeOK'
  <1> SUFFICES ASSUME NvsType, RamType, Counting, [Next]_vars PROVE NvsType' /\ RamType'
    BY TypeParts, TypePartsPrime
  <1>1. CASE BootInit
    <2>1. NvsType'
      BY <1>1 DEF BootInit, NvsType
    <2>2. RamType'
      BY <1>1, Bounds DEF BootInit, RamType, Points, ramVars, ghostVars
    <2> QED BY <2>1, <2>2
  <1>2. CASE BootErase
    <2>1. NvsType'
      BY <1>2, EmptyTypePrime DEF BootErase
    <2>2. RamType'
      BY <1>2, Bounds DEF BootErase, RamType, Points, ramVars, ghostVars
    <2> QED BY <2>1, <2>2
  <1>3. CASE BootCheck
    <2>1. NvsType'
      BY <1>3 DEF BootCheck, NvsType
    <2>2. RamType'
      BY <1>3, Bounds DEF BootCheck, RamType, Points, ramVars, ghostVars
    <2> QED BY <2>1, <2>2
  <1>4. CASE Create
    <2>1. NvsType'
      BY <1>4 DEF Create, NvsType
    <2>2. RamType'
      BY <1>4, Bounds DEF Create, RamType, Points, ramVars, ghostVars
    <2> QED BY <2>1, <2>2
  <1>5. CASE ChoosePin
    <2>1. NvsType'
      BY <1>5 DEF ChoosePin, NvsType
    <2>2. RamType'
      BY <1>5, Bounds DEF ChoosePin, RamType, Points, ramVars, ghostVars
    <2> QED BY <2>1, <2>2
  <1>6. CASE WritePart
    <2>1. PICK ok \in Outcomes : nvs' = Stored(SealOrder[part], fresh, ok)
      BY <1>6 DEF WritePart
    <2>2. /\ SealOrder[part] \in SealKeys /\ fresh \in Nat
          /\ fresh \in Seeds \cup {0}
      BY SealOrderIs, Bounds DEF RamType
    <2>3. NvsType'
      BY <2>1, <2>2, KeysAre, StoredType
    <2>4. part' \in 1..4 /\ err' \in BOOLEAN /\ pc' \in Points
      BY <1>6 DEF WritePart, RamType, Points
    <2> QED BY <1>6, <2>3, <2>4 DEF WritePart, RamType, ghostVars
  <1>7. CASE ResetLockout
    <2>1. PICK ok \in Outcomes : nvs' = Stored("lockout", 0, ok)
      BY <1>7 DEF ResetLockout
    <2>3. NvsType'
      BY <2>1, KeysAre, Bounds, StoredType
    <2>4. RamType'
      BY <1>7, Bounds DEF ResetLockout, RamType, Points
    <2> QED BY <2>3, <2>4
  <1>8. CASE ShowIdentity
    <2>1. NvsType' /\ pinned' \in Identities \cup {0}
      BY <1>8, IdentityType DEF ShowIdentity
    <2>2. RamType'
      BY <1>8, <2>1 DEF ShowIdentity, RamType, Points, ramVars
    <2> QED BY <2>1, <2>2
  <1>9. CASE DeriveFvk
    <2>1. NvsType' /\ exported' \in Seeds \cup {0}
      BY <1>9, KeysAre, ExportType DEF DeriveFvk
    <2>2. RamType'
      BY <1>9, <2>1 DEF DeriveFvk, RamType, Points, ghostVars
    <2> QED BY <2>1, <2>2
  <1>10. CASE DeriveUa
    <2>1. NvsType' /\ exported' \in Seeds \cup {0}
      BY <1>10, KeysAre, ExportType DEF DeriveUa
    <2>2. RamType'
      BY <1>10, <2>1 DEF DeriveUa, RamType, Points, ghostVars
    <2> QED BY <2>1, <2>2
  <1>11. CASE ServeIdentity
    <2>1. NvsType' /\ pinned' \in Identities \cup {0}
      BY <1>11, IdentityType DEF ServeIdentity
    <2>2. RamType'
      BY <1>11, <2>1 DEF ServeIdentity, RamType, Points, ramVars
    <2> QED BY <2>1, <2>2
  <1>12. CASE ServeFvk
    <2>1. NvsType' /\ exported' \in Seeds \cup {0}
      BY <1>12, KeysAre, ExportType DEF ServeFvk
    <2>2. RamType'
      BY <1>12, <2>1 DEF ServeFvk, RamType, Points, ghostVars
    <2> QED BY <2>1, <2>2
  <1>13. CASE PinStatus
    <2>1. NvsType'
      BY <1>13 DEF PinStatus, NvsType
    <2>2. RamType'
      BY <1>13, Bounds DEF PinStatus, RamType, Points, ramVars, ghostVars
    <2> QED BY <2>1, <2>2
  <1>14. CASE PinAbandoned
    <2>1. NvsType'
      BY <1>14 DEF PinAbandoned, NvsType
    <2>2. RamType'
      BY <1>14, Bounds DEF PinAbandoned, RamType, Points, ramVars, ghostVars
    <2> QED BY <2>1, <2>2
  <1>15. ASSUME NEW right \in BOOLEAN, PinEntered(right) PROVE NvsType' /\ RamType'
    <2>1. NvsType'
      BY <1>15 DEF PinEntered, NvsType
    <2>2. tries' \in 0..MaxTries
      BY <1>15, Bounds DEF PinEntered, RamType
    <2>3. lo' \in 0..MaxFails /\ unlocked' \in Seeds \cup {0} /\ pc' \in Points
      BY <1>15, KeysAre DEF PinEntered, RamType, NvsType, Points
    <2> QED BY <1>15, <2>1, <2>2, <2>3 DEF PinEntered, RamType
  <1>16. CASE CountFailure
    <2>1. PICK ok \in Outcomes : nvs' = Stored("lockout", lo + 1, ok)
      BY <1>16 DEF CountFailure
    <2>2. lo + 1 \in 0..MaxFails
      BY <1>16, Bounds DEF CountFailure, RamType, Counting
    <2>3. NvsType'
      BY <2>1, <2>2, KeysAre, Bounds, StoredType
    <2>4. RamType'
      BY <1>16, <2>2, KeysAre, Bounds DEF CountFailure, RamType, Points, NvsType
    <2> QED BY <2>3, <2>4
  <1>17. CASE ClearFailures
    <2>1. PICK ok \in Outcomes : nvs' = Stored("lockout", 0, ok)
      BY <1>17 DEF ClearFailures
    <2>3. NvsType'
      BY <2>1, KeysAre, Bounds, StoredType
    <2>4. RamType'
      BY <1>17, Bounds DEF ClearFailures, RamType, Points
    <2> QED BY <2>3, <2>4
  <1>18. CASE Wipe
    <2>1. NvsType'
      <3>1. PICK gone \in SUBSET Keys, ok \in Outcomes :
              nvs' = IF ok THEN [k \in Keys |-> IF k \in gone THEN 0 ELSE nvs[k]] ELSE nvs
        BY <1>18 DEF Wipe, Erasures
      <3> QED BY <3>1, ErasedType
    <2>2. RamType'
      BY <1>18, Bounds DEF Wipe, RamType, Points
    <2> QED BY <2>1, <2>2
  <1>19. CASE PowerCut
    <2>1. NvsType'
      BY <1>19 DEF PowerCut, NvsType
    <2>2. cuts' \in 0..MaxCuts
      BY <1>19, Bounds DEF PowerCut, RamType
    <2>3. RamType'
      BY <1>19, <2>2, Bounds DEF PowerCut, RamType, Points, ghostVars
    <2> QED BY <2>1, <2>3
  <1>20. CASE UNCHANGED vars
    BY <1>20 DEF vars, ramVars, ghostVars, NvsType, RamType
  <1> QED BY <1>1, <1>2, <1>3, <1>4, <1>5, <1>6, <1>7, <1>8, <1>9, <1>10,
             <1>11, <1>12, <1>13, <1>14, <1>15, <1>16, <1>17, <1>18, <1>19, <1>20
          DEF Next, BootStep, UserStep, HostStep

\* In every execution, the flash namespace and every variable of the boot hold
\* values of their types; the stored fail count never passes the threshold.
THEOREM TypeCorrect == Spec => []TypeOK
  <1>1. Init => TypeOK /\ Counting
    BY TypeInit DEF Init, Counting
  <1>2. TypeOK /\ Counting /\ [Next]_vars => (TypeOK /\ Counting)'
    BY TypeNext, CountingNext
  <1> QED BY <1>1, <1>2, PTL DEF Spec

-----------------------------------------------------------------------------
(* The device identity, whatever the constants are.                        *)

LEMMA IdentityNext ==
    TypeOK /\ IdentityStable /\ [Next]_vars => IdentityStable'
  <1> SUFFICES ASSUME TypeOK, IdentityStable, [Next]_vars PROVE IdentityStable'
    OBVIOUS
  <1>1. nvs \in [Keys -> Nat]
    BY DEF TypeOK
  <1>2. ASSUME pinned' = pinned, nvs'["device_sk"] = nvs["device_sk"]
        PROVE  IdentityStable'
    BY <1>2 DEF IdentityStable
  <1>3. ASSUME NEW k \in Keys, NEW v \in Nat, NEW ok \in Outcomes, k # "device_sk",
               nvs' = Stored(k, v, ok), pinned' = pinned
        PROVE  IdentityStable'
    BY <1>1, <1>2, <1>3, StoredReads, KeysAre
  <1>4. CASE BootErase
    BY <1>4 DEF BootErase, IdentityStable
  <1>5. CASE WritePart
    <2>1. SealOrder[part] \in Keys /\ SealOrder[part] # "device_sk" /\ fresh \in Nat
      BY SealOrderIs, KeysAre, Bounds DEF TypeOK
    <2> QED BY <1>3, <1>5, <2>1 DEF WritePart, ghostVars
  <1>6. CASE ResetLockout
    BY <1>3, <1>6, KeysAre DEF ResetLockout
  <1>7. ASSUME LoadOrCreateIdentity PROVE IdentityStable'
    <2>1. CASE nvs["device_sk"] # 0
      BY <1>7, <2>1 DEF LoadOrCreateIdentity, IdentityStable
    <2>2. CASE nvs["device_sk"] = 0
      <3>1. pinned = 0
        BY <2>2 DEF IdentityStable
      <3>2. PICK d \in Identities, ok \in Outcomes :
              /\ nvs' = Stored("device_sk", d, ok)
              /\ pinned' = IF ok THEN d ELSE 0
        BY <1>7, <2>2, <3>1 DEF LoadOrCreateIdentity
      <3> QED BY <1>1, <3>2, StoredReads, KeysAre, Bounds DEF IdentityStable
    <2> QED BY <2>1, <2>2
  <1>8. ASSUME NEW c \in CacheKeys, ReadOrDerive(c), pinned' = pinned
        PROVE  IdentityStable'
    <2>1. c \in Keys /\ c # "device_sk" /\ unlocked \in Nat
      BY KeysAre, Bounds DEF TypeOK
    <2> QED BY <1>2, <1>3, <1>8, <2>1 DEF ReadOrDerive
  <1>9. CASE CountFailure
    <2>1. lo + 1 \in Nat
      BY Bounds DEF TypeOK
    <2> QED BY <1>3, <1>9, <2>1, KeysAre DEF CountFailure
  <1>10. CASE ClearFailures
    BY <1>3, <1>10, KeysAre DEF ClearFailures
  <1>11. CASE Wipe
    <2>1. nvs'["device_sk"] \in {0, nvs["device_sk"]}
      BY <1>1, <1>11, KeysAre DEF Wipe
    <2> QED BY <1>11, <2>1 DEF Wipe, IdentityStable
  <1>12. CASE ShowIdentity \/ ServeIdentity
    BY <1>7, <1>12 DEF ShowIdentity, ServeIdentity
  <1>13. CASE DeriveFvk \/ DeriveUa \/ ServeFvk
    BY <1>8, <1>13, KeysAre DEF DeriveFvk, DeriveUa, ServeFvk, ghostVars
  <1>14. CASE UNCHANGED vars
    BY <1>2, <1>14 DEF vars, ghostVars
  <1>15. CASE BootInit \/ BootCheck \/ Create \/ ChoosePin \/ PinStatus \/ PinAbandoned
              \/ (\E right \in BOOLEAN : PinEntered(right)) \/ PowerCut
    BY <1>2, <1>15 DEF BootInit, BootCheck, Create, ChoosePin, PinStatus, PinAbandoned,
                       PinEntered, PowerCut, ghostVars
  <1> QED BY <1>4, <1>5, <1>6, <1>9, <1>10, <1>11, <1>12, <1>13, <1>14, <1>15
          DEF Next, BootStep, UserStep, HostStep

\* The identity a host pinned is the stored one until a wipe, wherever writes fail
\* or power is cut, also in the middle of the erase.
THEOREM IdentityKept == Spec => []IdentityStable
  <1>1. Init => TypeOK /\ Counting /\ IdentityStable
    BY TypeInit DEF Init, Counting, IdentityStable
  <1>2. TypeOK /\ Counting /\ IdentityStable /\ [Next]_vars
          => (TypeOK /\ Counting /\ IdentityStable)'
    BY TypeNext, CountingNext, IdentityNext
  <1> QED BY <1>1, <1>2, PTL DEF Spec
-----------------------------------------------------------------------------
(* The keys given out are the sealed wallet's, if the erase is indivisible *)
(* (writes may fail).  The invariant: where each seed may be.              *)

Open == {"identity", "fvk", "clear", "ua", "ready"}

Sealed == nvs["pin_sealed"]

KeyInv ==
    /\ pc \in {"create", "setpin", "seal"} => Sealed = 0
    /\ pc \in {"setpin", "seal", "reset"} => fresh # 0
    /\ pc = "reset" => Sealed \in {0, fresh} /\ (~err => Sealed = fresh)
    /\ \A c \in CacheKeys : nvs[c] # 0 => nvs[c] = Sealed
    /\ unlocked # 0 <=> pc \in Open
    /\ KeysMatchSeed

\* A write of anything but pin_sealed and the caches.
LEMMA KeyOther ==
    ASSUME TypeOK, KeyInv, NEW k \in Keys \ (CacheKeys \cup {"pin_sealed"}),
           NEW v \in Nat, NEW ok \in Outcomes, nvs' = Stored(k, v, ok)
    PROVE  Sealed' = Sealed /\ \A c \in CacheKeys : nvs'[c] = nvs[c]
  <1>1. nvs \in [Keys -> Nat] /\ k \in Keys
    BY DEF TypeOK
  <1>2. \A j \in Keys : j # k => nvs'[j] = nvs[j]
    BY <1>1, StoredReads
  <1> QED BY <1>2, KeysAre DEF Sealed

LEMMA KeyExport ==
    ASSUME TypeOK, KeyInv, pc \in {"fvk", "ua", "ready"}, NEW c \in CacheKeys,
           ReadOrDerive(c)
    PROVE  /\ Sealed' = Sealed /\ exported' = unlocked
           /\ \A d \in CacheKeys : nvs'[d] # 0 => nvs'[d] = Sealed
  <1>1. unlocked # 0 /\ unlocked = Sealed /\ unlocked \in Nat
        /\ nvs \in [Keys -> Nat] /\ c \in Keys /\ c # "pin_sealed"
    BY KeysAre, Bounds DEF KeyInv, KeysMatchSeed, Sealed, Open, TypeOK
  <1>2. CASE nvs[c] # 0
    BY <1>1, <1>2 DEF ReadOrDerive, KeyInv, Sealed
  <1>3. CASE nvs[c] = 0
    <2>1. PICK ok \in Outcomes : nvs' = Stored(c, unlocked, ok)
      BY <1>3 DEF ReadOrDerive
    <2>2. /\ \A j \in Keys : j # c => nvs'[j] = nvs[j]
          /\ nvs'[c] \in {0, unlocked}
      BY <1>1, <1>3, <2>1, StoredReads
    <2>3. Sealed' = Sealed
      BY <1>1, <2>2, KeysAre DEF Sealed
    <2> QED BY <1>1, <1>3, <2>2, <2>3, KeysAre DEF ReadOrDerive, KeyInv
  <1> QED BY <1>2, <1>3

LEMMA KeyNext ==
    ASSUME AtomicErase
    PROVE  TypeOK /\ KeyInv /\ [Next]_vars => KeyInv'
  <1> SUFFICES ASSUME TypeOK, KeyInv, [Next]_vars PROVE KeyInv'
    OBVIOUS
  <1>1. ASSUME nvs' = nvs, unlocked' = unlocked, exported' = exported,
               (pc' \in Open) = (pc \in Open), pc' \notin {"setpin", "seal", "reset"},
               pc' = "create" => Sealed = 0
        PROVE  KeyInv'
    BY <1>1 DEF KeyInv, KeysMatchSeed, Sealed
  <1>2. CASE BootInit \/ BootCheck \/ PinStatus \/ PinAbandoned
    BY <1>1, <1>2 DEF BootInit, BootCheck, PinStatus, PinAbandoned, ramVars, Open,
                      IsInitialized, Sealed
  <1>3. CASE BootErase
    BY <1>3, KeysAre DEF BootErase, KeyInv, KeysMatchSeed, Sealed, Open, ramVars
  <1>4. CASE Create
    BY <1>4, Bounds DEF Create, KeyInv, KeysMatchSeed, Sealed, Open
  <1>5. CASE ChoosePin
    BY <1>5 DEF ChoosePin, KeyInv, KeysMatchSeed, Sealed, Open
  <1>6. CASE WritePart
    <2>1. PICK ok \in Outcomes, flag \in Outcomes :
              /\ nvs' = Stored(SealOrder[part], fresh, ok)
              /\ err' = (err \/ ~ok \/ (part = 4 /\ ~flag))
      BY <1>6 DEF WritePart
    <2>2. /\ SealOrder[part] \in Keys /\ SealOrder[part] \notin CacheKeys
          /\ fresh \in Nat /\ part \in 1..4
      BY SealOrderIs, KeysAre, Bounds DEF TypeOK
    <2>3. /\ Sealed = 0 /\ unlocked = 0 /\ exported = 0 /\ fresh # 0
          /\ \A c \in CacheKeys : nvs[c] = 0
      BY <1>6 DEF WritePart, KeyInv, KeysMatchSeed, Open
    <2>4. nvs \in [Keys -> Nat]
      BY DEF TypeOK
    <2>5. /\ \A j \in Keys : j # SealOrder[part] => nvs'[j] = nvs[j]
          /\ nvs'[SealOrder[part]] = IF ok THEN fresh ELSE nvs[SealOrder[part]]
      BY <2>1, <2>2, <2>4, StoredReads
    <2>6. \A c \in CacheKeys : nvs'[c] = 0
      BY <2>2, <2>3, <2>5, KeysAre
    <2>7. CASE part = 4
      <3>1. Sealed' = IF ok THEN fresh ELSE 0
        BY <2>3, <2>7, <2>5, SealOrderIs DEF Sealed
      <3> QED BY <1>6, <2>1, <2>3, <2>6, <2>7, <3>1
              DEF WritePart, KeyInv, KeysMatchSeed, Open, Sealed
    <2>8. CASE part # 4
      <3>1. Sealed' = 0
        BY <2>2, <2>3, <2>8, <2>5, SealOrderIs, KeysAre DEF Sealed
      <3> QED BY <1>6, <2>3, <2>6, <2>8, <3>1
              DEF WritePart, KeyInv, KeysMatchSeed, Open, Sealed
    <2> QED BY <2>7, <2>8
  <1>7. CASE ResetLockout
    <2>1. Sealed' = Sealed /\ \A c \in CacheKeys : nvs'[c] = nvs[c]
      BY <1>7, KeyOther, KeysAre DEF ResetLockout
    <2> QED BY <1>7, <2>1 DEF ResetLockout, KeyInv, KeysMatchSeed, Open, Sealed
  <1>8. ASSUME LoadOrCreateIdentity
        PROVE  Sealed' = Sealed /\ \A c \in CacheKeys : nvs'[c] = nvs[c]
    BY <1>8, KeyOther, KeysAre, Bounds DEF LoadOrCreateIdentity, Sealed
  <1>9. CASE ShowIdentity \/ ServeIdentity
    BY <1>8, <1>9 DEF ShowIdentity, ServeIdentity, KeyInv, KeysMatchSeed, Open, Sealed,
                      ramVars
  <1>10. CASE DeriveFvk \/ DeriveUa \/ ServeFvk
    <2>1. \E c \in CacheKeys : ReadOrDerive(c)
      BY <1>10, KeysAre DEF DeriveFvk, DeriveUa, ServeFvk
    <2>2. /\ Sealed' = Sealed /\ exported' = unlocked
          /\ \A d \in CacheKeys : nvs'[d] # 0 => nvs'[d] = Sealed
      BY <1>10, <2>1, KeyExport DEF DeriveFvk, DeriveUa, ServeFvk
    <2> QED BY <1>10, <2>2 DEF DeriveFvk, DeriveUa, ServeFvk, KeyInv, KeysMatchSeed,
                               Open, Sealed
  <1>11. ASSUME NEW right \in BOOLEAN, PinEntered(right) PROVE KeyInv'
    BY <1>11, KeysAre DEF PinEntered, KeyInv, KeysMatchSeed, Open, Sealed
  <1>12. CASE CountFailure
    <2>1. lo + 1 \in Nat
      BY Bounds DEF TypeOK
    <2>2. Sealed' = Sealed /\ \A c \in CacheKeys : nvs'[c] = nvs[c]
      BY <1>12, <2>1, KeyOther, KeysAre DEF CountFailure
    <2> QED BY <1>12, <2>2 DEF CountFailure, KeyInv, KeysMatchSeed, Open, Sealed
  <1>13. CASE ClearFailures
    <2>1. Sealed' = Sealed /\ \A c \in CacheKeys : nvs'[c] = nvs[c]
      BY <1>13, KeyOther, KeysAre DEF ClearFailures
    <2> QED BY <1>13, <2>1 DEF ClearFailures, KeyInv, KeysMatchSeed, Open, Sealed
  <1>14. CASE Wipe
    <2>1. nvs' = nvs \/ nvs' = Empty
      BY <1>14 DEF Wipe, Erasures, Empty, TypeOK
    <2>2. pc' \in {"wipe", "halt"} /\ unlocked' = 0 /\ exported' = 0
      BY <1>14 DEF Wipe, KeyInv, KeysMatchSeed, Open
    <2> QED BY <2>1, <2>2, KeysAre DEF KeyInv, KeysMatchSeed, Open, Sealed
  <1>15. CASE PowerCut
    BY <1>15 DEF PowerCut, KeyInv, KeysMatchSeed, Open, Sealed
  <1>16. CASE UNCHANGED vars
    BY <1>16 DEF vars, ramVars, KeyInv, KeysMatchSeed, Open, Sealed
  <1> QED BY <1>2, <1>3, <1>4, <1>5, <1>6, <1>7, <1>9, <1>10, <1>11, <1>12, <1>13, <1>14,
             <1>15, <1>16 DEF Next, BootStep, UserStep, HostStep

\* With an indivisible erase, the viewing key and address given out are those of the
\* mnemonic in RAM, which is the sealed one, whichever writes fail.
THEOREM KeysMatch == AtomicErase => (Spec => []KeysMatchSeed)
  <1> SUFFICES ASSUME AtomicErase PROVE Spec => []KeysMatchSeed
    OBVIOUS
  <1>1. Init => TypeOK /\ Counting /\ KeyInv
    BY TypeInit, KeysAre DEF Init, Counting, KeyInv, KeysMatchSeed, Open, Sealed
  <1>2. TypeOK /\ Counting /\ KeyInv /\ [Next]_vars => (TypeOK /\ Counting /\ KeyInv)'
    BY TypeNext, CountingNext, KeyNext
  <1>3. KeyInv => KeysMatchSeed
    BY DEF KeyInv
  <1> QED BY <1>1, <1>2, <1>3, PTL DEF Spec
-----------------------------------------------------------------------------
(* What holds if moreover every write succeeds: a sealing is complete and  *)
(* the stored count is exact.                                              *)

FaultFree == AtomicErase /\ ~MayFail

CountInv ==
    /\ PartsCohere
    /\ pc = "seal" => \A i \in 1..4 : i < part => nvs[SealOrder[i]] = fresh
    /\ AttemptsCounted
    /\ pc = "count" => lo = nvs["lockout"] /\ lo < MaxFails /\ lo < tries
    /\ pc = "wipe" => nvs["lockout"] >= MaxFails

\* Where every write succeeds, a stored value is there to be read.
LEMMA StoredNow ==
    ASSUME ~MayFail, nvs \in [Keys -> Nat], NEW k \in Keys, NEW v \in Nat,
           \E ok \in Outcomes : nvs' = Stored(k, v, ok)
    PROVE  nvs'[k] = v /\ \A j \in Keys : j # k => nvs'[j] = nvs[j]
  BY StoredReads

\* What a step keeps that touches neither the sealed parts nor the count.
LEMMA CountKept ==
    ASSUME CountInv, \A k \in SealKeys \cup {"lockout"} : nvs'[k] = nvs[k],
           UNCHANGED <<fresh, tries, cuts>>,
           pc # "count",
           pc' \notin {"setpin", "seal", "reset", "count"},
           pc' = "wipe" => nvs["lockout"] >= MaxFails
    PROVE  CountInv'
  BY KeysAre DEF CountInv, PartsCohere, IsInitialized, Sealing, AttemptsCounted, Sealed

LEMMA CountNext ==
    ASSUME FaultFree
    PROVE  TypeOK /\ Counting /\ KeyInv /\ CountInv /\ [Next]_vars => CountInv'
  <1> SUFFICES ASSUME TypeOK, Counting, KeyInv, CountInv, [Next]_vars PROVE CountInv'
    OBVIOUS
  <1>0. /\ nvs \in [Keys -> Nat] /\ nvs["lockout"] \in 0..MaxFails /\ lo \in 0..MaxFails
        /\ tries \in Nat /\ cuts \in 0..MaxCuts /\ fresh \in Nat /\ unlocked \in Nat
        /\ part \in 1..4 /\ ~MayFail
    BY Bounds DEF TypeOK, FaultFree
  <1>1. CASE BootInit \/ BootCheck \/ PinStatus \/ PinAbandoned
    <2>1. CASE pc' # "create"
      BY <1>1, <2>1, CountKept
         DEF BootInit, BootCheck, PinStatus, PinAbandoned, ramVars, ghostVars
    <2>2. CASE pc' = "create"
      BY <1>1, <2>2, CountKept
         DEF BootInit, BootCheck, PinStatus, PinAbandoned, ramVars, ghostVars
    <2> QED BY <2>1, <2>2
  <1>2. CASE BootErase
    BY <1>0, <1>2 DEF BootErase
  <1>3. CASE Create
    BY <1>0, <1>3, Bounds DEF Create, CountInv, PartsCohere, IsInitialized, Sealing,
       AttemptsCounted, Sealed, ghostVars
  <1>4. CASE ChoosePin
    BY <1>0, <1>4 DEF ChoosePin, CountInv, PartsCohere, IsInitialized, Sealing,
       AttemptsCounted, Sealed, ghostVars
  <1>5. CASE WritePart
    <2>1. SealOrder[part] \in SealKeys /\ Sealed = 0 /\ unlocked = 0
          /\ SealOrder[part] # "lockout"
      BY <1>0, <1>5, SealOrderIs, KeysAre
         DEF WritePart, KeyInv, KeysMatchSeed, Open, CountInv
    <2>2. /\ nvs'[SealOrder[part]] = fresh
          /\ \A j \in Keys : j # SealOrder[part] => nvs'[j] = nvs[j]
      BY <1>0, <1>5, <2>1, StoredNow, KeysAre DEF WritePart
    <2>3. \A i \in 1..4 : i < part => nvs'[SealOrder[i]] = fresh
      BY <1>0, <1>5, <2>2, SealOrderIs, KeysAre DEF WritePart, CountInv
    <2>4. nvs'["lockout"] = nvs["lockout"]
      BY <2>1, <2>2, KeysAre
    <2>5. PartsCohere'
      <3>1. CASE part = 4
        <4>1. \A i \in 1..4 : nvs'[SealOrder[i]] = fresh
          BY <1>0, <2>2, <2>3, <3>1
        <4>2. Sealing(fresh)' /\ Sealed' = fresh
          BY <1>5, <4>1, SealOrderIs, KeysAre DEF Sealing, Sealed, WritePart
        <4> QED BY <1>5, <2>1, <4>2 DEF PartsCohere, Sealing, Sealed, WritePart
      <3>2. CASE part # 4
        <4>1. Sealed' = 0
          BY <1>0, <2>1, <2>2, <3>2, SealOrderIs, KeysAre DEF Sealed
        <4> QED BY <4>1 DEF PartsCohere, IsInitialized, Sealed
      <3> QED BY <3>1, <3>2
    <2>6. pc' = "seal" => \A i \in 1..4 : i < part' => nvs'[SealOrder[i]] = fresh'
      BY <1>0, <1>5, <2>2, <2>3 DEF WritePart
    <2> QED BY <1>0, <1>5, <2>1, <2>4, <2>5, <2>6
            DEF WritePart, CountInv, AttemptsCounted, Sealed, ghostVars
  <1>6. CASE ResetLockout
    <2>1. nvs'["lockout"] = 0 /\ \A k \in SealKeys : nvs'[k] = nvs[k]
      BY <1>0, <1>6, StoredNow, KeysAre DEF ResetLockout
    <2>2. Sealed \in {0, fresh} /\ unlocked = 0
      BY <1>6 DEF ResetLockout, CountInv, KeyInv, Open
    <2> QED BY <1>0, <1>6, <2>1, <2>2, KeysAre
            DEF ResetLockout, CountInv, PartsCohere, IsInitialized, Sealing,
                AttemptsCounted, Sealed
  <1>7. CASE ShowIdentity \/ ServeIdentity
    <2>1. \A k \in SealKeys \cup {"lockout"} : nvs'[k] = nvs[k]
      <3>1. CASE UNCHANGED nvs
        BY <3>1
      <3>2. ASSUME NEW d \in Identities, NEW ok \in Outcomes,
                   nvs' = Stored("device_sk", d, ok)
            PROVE  \A k \in SealKeys \cup {"lockout"} : nvs'[k] = nvs[k]
        <4>1. d \in Nat /\ "device_sk" \in Keys
          BY KeysAre, Bounds
        <4>2. \A j \in Keys : j # "device_sk" => nvs'[j] = nvs[j]
          BY <1>0, <3>2, <4>1, StoredReads
        <4> QED BY <4>2, KeysAre
      <3>3. \/ UNCHANGED nvs
            \/ \E d \in Identities, ok \in Outcomes : nvs' = Stored("device_sk", d, ok)
        <4>1. LoadOrCreateIdentity
          BY <1>7 DEF ShowIdentity, ServeIdentity
        <4> QED BY <4>1 DEF LoadOrCreateIdentity
      <3> QED BY <3>1, <3>2, <3>3
    <2> QED BY <1>7, <2>1, CountKept DEF ShowIdentity, ServeIdentity, ramVars
  <1>8. CASE DeriveFvk \/ DeriveUa \/ ServeFvk
    <2>1. PICK c \in CacheKeys : ReadOrDerive(c)
      BY <1>8, KeysAre DEF DeriveFvk, DeriveUa, ServeFvk
    <2>2. \A k \in SealKeys \cup {"lockout"} : nvs'[k] = nvs[k]
      BY <1>0, <2>1, StoredReads, KeysAre DEF ReadOrDerive
    <2> QED BY <1>8, <2>2, CountKept DEF DeriveFvk, DeriveUa, ServeFvk, ghostVars
  <1>9. ASSUME NEW right \in BOOLEAN, PinEntered(right) PROVE CountInv'
    <2>1. tries <= MaxFails + MaxCuts
      BY <1>0, <1>9, Bounds DEF PinEntered, CountInv, AttemptsCounted
    <2>2. CASE pc' \in {"wipe", "status"}
      <3>1. /\ nvs' = nvs /\ pc # "count"
            /\ UNCHANGED <<fresh, unlocked, doomed, tries, cuts>>
            /\ pc' = "wipe" => nvs["lockout"] >= MaxFails
        BY <1>9, <2>2 DEF PinEntered
      <3> QED BY <2>2, <3>1, CountKept
    <2>3. CASE pc' = "clear"
      <3>1. unlocked' = Sealed /\ Sealed # 0 /\ nvs["lockout"] < MaxFails
        <4>1. nvs["lockout"] < MaxFails
          BY <1>0, <1>9, <2>3, Bounds DEF PinEntered
        <4>2. \A k \in SealKeys : nvs[k] # 0
          BY <1>9, <2>3 DEF PinEntered
        <4>3. unlocked' = Sealed
          BY <1>9, <2>3 DEF PinEntered, Sealed
        <4> QED BY <4>1, <4>2, <4>3, KeysAre DEF Sealed
      <3> QED BY <1>0, <1>9, <2>3, <3>1
              DEF PinEntered, CountInv, PartsCohere, IsInitialized, Sealing,
                  AttemptsCounted, Sealed
    <2>4. CASE pc' = "count"
      BY <1>0, <1>9, <2>1, <2>4, Bounds
         DEF PinEntered, CountInv, PartsCohere, IsInitialized, Sealing,
             AttemptsCounted, Sealed, MaxTries
    <2> QED BY <1>9, <2>2, <2>3, <2>4 DEF PinEntered
  <1>10. CASE CountFailure
    <2>1. nvs'["lockout"] = lo + 1 /\ \A k \in SealKeys : nvs'[k] = nvs[k]
      BY <1>0, <1>10, StoredNow, KeysAre DEF CountFailure
    <2>2. unlocked = 0 /\ lo = nvs["lockout"] /\ lo < MaxFails /\ lo < tries
          /\ tries <= lo + cuts + 1
      BY <1>10 DEF CountFailure, KeyInv, Open, CountInv, AttemptsCounted
    <2> QED BY <1>0, <1>10, <2>1, <2>2, KeysAre, Bounds
            DEF CountFailure, CountInv, PartsCohere, IsInitialized, Sealing,
                AttemptsCounted, Sealed
  <1>11. CASE ClearFailures
    <2>1. nvs'["lockout"] = 0 /\ \A k \in SealKeys : nvs'[k] = nvs[k]
      BY <1>0, <1>11, StoredNow, KeysAre DEF ClearFailures
    <2>2. unlocked = Sealed
      BY <1>11 DEF ClearFailures, KeyInv, KeysMatchSeed, Open, Sealed
    <2> QED BY <1>0, <1>11, <2>1, <2>2, KeysAre
            DEF ClearFailures, CountInv, PartsCohere, IsInitialized, Sealing,
                AttemptsCounted, Sealed
  <1>12. CASE Wipe
    <2>1. nvs' = Empty /\ pc' = "halt" /\ unlocked' = 0
      <3>1. PICK gone \in Erasures, ok \in Outcomes :
              /\ nvs' = IF ok THEN [k \in Keys |-> IF k \in gone THEN 0 ELSE nvs[k]] ELSE nvs
              /\ pc' = IF ok /\ nvs' # Empty THEN "wipe" ELSE "halt"
        BY <1>12 DEF Wipe
      <3>2. gone = Keys /\ ok = TRUE
        BY <1>0, <3>1 DEF Erasures, FaultFree, Outcomes
      <3>3. nvs' = Empty
        BY <3>1, <3>2 DEF Empty
      <3> QED BY <1>12, <3>1, <3>3 DEF Wipe
    <2>2. tries' = 0
      BY <1>12, <2>1, KeysAre DEF Wipe
    <2> QED BY <1>0, <1>12, <2>1, <2>2, KeysAre, Bounds
            DEF Wipe, CountInv, PartsCohere, IsInitialized, AttemptsCounted, Sealed
  <1>13. CASE PowerCut
    <2>1. /\ nvs' = nvs /\ pc' = "init" /\ unlocked' = 0 /\ tries' = tries
          /\ cuts' = cuts + 1 /\ doomed' = doomed
      BY <1>13 DEF PowerCut, ghostVars
    <2>2. AttemptsCounted'
      <3>1. nvs["lockout"] <= tries /\ tries <= nvs["lockout"] + cuts + 1
        BY <1>0, Bounds DEF CountInv, AttemptsCounted
      <3>2. nvs'["lockout"] <= tries' /\ tries' <= nvs'["lockout"] + cuts' + 0
        BY <1>0, <2>1, <3>1, Bounds
      <3> QED BY <2>1, <3>2 DEF AttemptsCounted
    <2> QED BY <2>1, <2>2 DEF CountInv, PartsCohere, IsInitialized, Sealing, Sealed
  <1>14. CASE UNCHANGED vars
    BY <1>14 DEF vars, ramVars, ghostVars, CountInv, PartsCohere, IsInitialized, Sealing,
                 AttemptsCounted, Sealed
  <1> QED BY <1>1, <1>2, <1>3, <1>4, <1>5, <1>6, <1>7, <1>8, <1>9, <1>10, <1>11, <1>12,
             <1>13, <1>14 DEF Next, BootStep, UserStep, HostStep
VaultInv == TypeOK /\ Counting /\ KeyInv /\ CountInv

LEMMA VaultInvariant ==
    ASSUME FaultFree
    PROVE  Spec => []VaultInv
  <1>1. Init => VaultInv
    BY TypeInit, KeysAre, SealOrderIs, Bounds
       DEF Init, VaultInv, Counting, KeyInv, KeysMatchSeed, Open, Sealed, CountInv,
           PartsCohere, IsInitialized, AttemptsCounted
  <1>2. VaultInv /\ [Next]_vars => VaultInv'
    BY TypeNext, CountingNext, KeyNext, CountNext DEF VaultInv, FaultFree
  <1> QED BY <1>1, <1>2, PTL DEF Spec

\* Wherever power fails in wallet_pin_provision, a mnemonic found at boot can be
\* opened: the other parts of its sealing are there, if no write fails and no erase
\* is cut.
THEOREM SealingComplete == FaultFree => (Spec => []PartsCohere)
  <1> SUFFICES ASSUME FaultFree PROVE Spec => []PartsCohere
    OBVIOUS
  <1>1. VaultInv => PartsCohere
    BY DEF VaultInv, CountInv
  <1> QED BY <1>1, VaultInvariant, PTL

\* A wrong PIN is in the stored count before it is answered, and a power cut can hide
\* one at most, if no write fails and no erase is cut.
THEOREM EveryAttemptCounted == FaultFree => (Spec => []AttemptsCounted)
  <1> SUFFICES ASSUME FaultFree PROVE Spec => []AttemptsCounted
    OBVIOUS
  <1>1. VaultInv => AttemptsCounted
    BY DEF VaultInv, CountInv
  <1> QED BY <1>1, VaultInvariant, PTL

\* No step but a wipe earned by MaxFails wrong PINs takes a sealed mnemonic away, if
\* no write fails and no erase is cut.
THEOREM NoUnearnedWipe == FaultFree => (Spec => WipeOnlyWhenEarned)
  <1> SUFFICES ASSUME FaultFree PROVE Spec => WipeOnlyWhenEarned
    OBVIOUS
  <1> DEFINE Step == (IsInitialized /\ pc # "init" /\ nvs'["pin_sealed"] # nvs["pin_sealed"])
                       => (nvs'["pin_sealed"] = 0 /\ tries >= MaxFails)
  <1>1. VaultInv /\ [Next]_vars => [Step]_vars
    <2> SUFFICES ASSUME VaultInv, Next, IsInitialized, pc # "init", Sealed' # Sealed
                 PROVE  Sealed' = 0 /\ tries >= MaxFails
      BY DEF Sealed
    <2>1. TypeOK /\ KeyInv /\ CountInv
      BY DEF VaultInv
    <2>2. pc \notin {"create", "setpin", "seal"}
      BY <2>1 DEF KeyInv, IsInitialized, Sealed
    <2>3. ASSUME NEW k \in Keys, k # "pin_sealed", NEW v \in Nat, NEW ok \in Outcomes,
                 nvs' = Stored(k, v, ok)
          PROVE  FALSE
      BY <2>1, <2>3, StoredReads, KeysAre DEF TypeOK, Sealed
    <2>4. /\ ~(UNCHANGED nvs)
          /\ lo \in Nat /\ unlocked \in Nat /\ "fvk" \in Keys /\ "ua" \in Keys
          /\ \A d \in Identities : d \in Nat
      BY <2>1, KeysAre, Bounds DEF TypeOK, Sealed
    <2>5. ~ResetLockout /\ ~CountFailure /\ ~ClearFailures
      BY <2>3, <2>4, KeysAre DEF ResetLockout, CountFailure, ClearFailures
    <2>6. ~LoadOrCreateIdentity /\ ~ReadOrDerive("fvk") /\ ~ReadOrDerive("ua")
      BY <2>3, <2>4, KeysAre DEF LoadOrCreateIdentity, ReadOrDerive
    <2>7. Wipe
      BY <2>2, <2>4, <2>5, <2>6
         DEF Next, BootStep, UserStep, HostStep, BootInit, BootErase, BootCheck, Create,
             ChoosePin, WritePart, ShowIdentity, DeriveFvk, DeriveUa, ServeIdentity,
             ServeFvk, PinStatus, PinAbandoned, PinEntered, PowerCut
    <2>8. Sealed' = 0 \/ Sealed' = Sealed
      BY <2>1, <2>7, KeysAre DEF Wipe, TypeOK, Sealed
    <2>9. nvs["lockout"] >= MaxFails /\ nvs["lockout"] <= tries
      BY <2>1, <2>7 DEF Wipe, CountInv, AttemptsCounted
    <2>10. tries >= MaxFails
      BY <2>1, <2>9, Bounds DEF TypeOK
    <2> QED BY <2>8, <2>10
  <1> QED BY <1>1, VaultInvariant, PTL DEF Spec, WipeOnlyWhenEarned

-----------------------------------------------------------------------------
(* A wallet given up stays locked, if every write succeeds.  The erase may *)
(* be divisible here, as long as it does not take the count before the     *)
(* sealed mnemonic; the invariant therefore cannot rest on KeyInv.         *)

DoomInv ==
    /\ pc \in {"create", "setpin", "seal"} => Sealed = 0
    /\ pc = "reset" => Sealed \in {0, fresh}
    /\ pc \in {"setpin", "seal", "reset"} => fresh # doomed
    /\ pc \notin Open => unlocked = 0
    /\ pc = "clear" => unlocked = Sealed
    /\ pc = "count" => lo = nvs["lockout"]
    /\ doomed # 0 /\ Sealed = doomed => nvs["lockout"] >= MaxFails
    /\ DoomedStaysLocked

\* nvs_erase_all, interrupted or not, leaves no sealed mnemonic without its count.
SealErasedFirst ==
    [][Wipe /\ nvs'["lockout"] = 0 => nvs'["pin_sealed"] = 0]_vars

\* What a step keeps that writes neither pin_sealed nor the count.
LEMMA DoomKept ==
    ASSUME DoomInv, nvs'["pin_sealed"] = nvs["pin_sealed"],
           nvs'["lockout"] = nvs["lockout"], unlocked' = unlocked, doomed' = doomed,
           pc' \notin {"create", "setpin", "seal", "reset", "clear", "count"},
           pc' \notin Open => unlocked = 0
    PROVE  DoomInv'
  BY DEF DoomInv, Sealed, DoomedStaysLocked

LEMMA DoomNext ==
    ASSUME ~MayFail
    PROVE  /\ TypeOK /\ Counting /\ DoomInv /\ [Next]_vars
           /\ Wipe /\ nvs'["lockout"] = 0 => nvs'["pin_sealed"] = 0
           => DoomInv'
  <1> SUFFICES ASSUME TypeOK, Counting, DoomInv, [Next]_vars,
                      Wipe /\ nvs'["lockout"] = 0 => nvs'["pin_sealed"] = 0
               PROVE  DoomInv'
    OBVIOUS
  <1>0. /\ nvs \in [Keys -> Nat] /\ nvs["lockout"] \in 0..MaxFails /\ lo \in 0..MaxFails
        /\ fresh \in Nat /\ unlocked \in Nat /\ part \in 1..4 /\ ~MayFail
    BY Bounds DEF TypeOK
  <1>1. CASE BootInit \/ BootCheck \/ PinStatus \/ PinAbandoned
    BY <1>1 DEF BootInit, BootCheck, PinStatus, PinAbandoned, ramVars, ghostVars, DoomInv,
                Sealed, DoomedStaysLocked, IsInitialized, Open
  <1>2. CASE BootErase
    BY <1>0, <1>2 DEF BootErase
  <1>3. CASE Create
    BY <1>3, Bounds DEF Create, DoomInv, Sealed, DoomedStaysLocked, Open, ghostVars
  <1>4. CASE ChoosePin
    BY <1>4 DEF ChoosePin, DoomInv, Sealed, DoomedStaysLocked, Open, ghostVars
  <1>5. CASE WritePart
    <2>1. /\ SealOrder[part] \in Keys /\ SealOrder[part] # "lockout"
          /\ part # 4 => SealOrder[part] # "pin_sealed"
          /\ part = 4 => SealOrder[part] = "pin_sealed"
      BY <1>0, SealOrderIs, KeysAre
    <2>2. /\ nvs'[SealOrder[part]] = fresh
          /\ \A j \in Keys : j # SealOrder[part] => nvs'[j] = nvs[j]
      BY <1>0, <1>5, <2>1, StoredNow DEF WritePart
    <2>3. /\ nvs'["lockout"] = nvs["lockout"]
          /\ Sealed' = IF part = 4 THEN fresh ELSE Sealed
      BY <2>1, <2>2, KeysAre DEF Sealed
    <2> QED BY <1>0, <1>5, <2>3
            DEF WritePart, DoomInv, DoomedStaysLocked, Open, ghostVars
  <1>6. CASE ResetLockout
    <2>1. nvs'["lockout"] = 0 /\ Sealed' = Sealed
      BY <1>0, <1>6, StoredNow, KeysAre DEF ResetLockout, Sealed
    <2> QED BY <1>0, <1>6, <2>1 DEF ResetLockout, DoomInv, DoomedStaysLocked, Open
  <1>7. ASSUME NEW k \in Keys \ {"pin_sealed", "lockout"}, NEW v \in Nat,
               NEW ok \in Outcomes, nvs' = Stored(k, v, ok)
        PROVE  nvs'["pin_sealed"] = nvs["pin_sealed"] /\ nvs'["lockout"] = nvs["lockout"]
    BY <1>0, <1>7, StoredReads, KeysAre
  <1>8. CASE ShowIdentity \/ ServeIdentity
    <2>1. LoadOrCreateIdentity
      BY <1>8 DEF ShowIdentity, ServeIdentity
    <2>2. nvs'["pin_sealed"] = nvs["pin_sealed"] /\ nvs'["lockout"] = nvs["lockout"]
      BY <1>7, <2>1, KeysAre, Bounds DEF LoadOrCreateIdentity
    <2> QED BY <1>8, <2>2, DoomKept DEF ShowIdentity, ServeIdentity, ramVars, Open, DoomInv
  <1>9. CASE DeriveFvk \/ DeriveUa \/ ServeFvk
    <2>1. PICK c \in CacheKeys : ReadOrDerive(c)
      BY <1>9, KeysAre DEF DeriveFvk, DeriveUa, ServeFvk
    <2>2. nvs'["pin_sealed"] = nvs["pin_sealed"] /\ nvs'["lockout"] = nvs["lockout"]
      BY <1>0, <1>7, <2>1, KeysAre DEF ReadOrDerive
    <2> QED BY <1>9, <2>2, DoomKept DEF DeriveFvk, DeriveUa, ServeFvk, ghostVars, Open,
                                        DoomInv
  <1>10. ASSUME NEW right \in BOOLEAN, PinEntered(right) PROVE DoomInv'
    <2>1. CASE pc' \in {"wipe", "status"}
      BY <1>10, <2>1, DoomKept DEF PinEntered, DoomInv, Open
    <2>2. CASE pc' = "clear"
      <3>1. unlocked' = Sealed /\ Sealed' = Sealed /\ nvs["lockout"] < MaxFails
        BY <1>0, <1>10, <2>2, Bounds DEF PinEntered, Sealed
      <3> QED BY <1>0, <1>10, <2>2, <3>1
              DEF PinEntered, DoomInv, DoomedStaysLocked, Open, Sealed
    <2>3. CASE pc' = "count"
      BY <1>10, <2>3 DEF PinEntered, DoomInv, Sealed, DoomedStaysLocked, Open
    <2> QED BY <1>10, <2>1, <2>2, <2>3 DEF PinEntered
  <1>11. CASE CountFailure
    <2>1. nvs'["lockout"] = lo + 1 /\ Sealed' = Sealed
      BY <1>0, <1>11, StoredNow, KeysAre DEF CountFailure, Sealed
    <2>2. unlocked = 0 /\ lo = nvs["lockout"] /\ lo < MaxFails
      BY <1>11 DEF CountFailure, DoomInv, Open, Counting
    <2> QED BY <1>0, <1>11, <2>1, <2>2, Bounds
            DEF CountFailure, DoomInv, DoomedStaysLocked, Open, Sealed
  <1>12. CASE ClearFailures
    <2>1. nvs'["lockout"] = 0 /\ Sealed' = Sealed
      BY <1>0, <1>12, StoredNow, KeysAre DEF ClearFailures, Sealed
    <2> QED BY <1>12, <2>1 DEF ClearFailures, DoomInv, DoomedStaysLocked, Open
  <1>13. CASE Wipe
    <2>1. \A k \in Keys : nvs'[k] \in {0, nvs[k]}
      BY <1>0, <1>13 DEF Wipe
    <2>2. Sealed' \in {0, Sealed} /\ nvs'["lockout"] \in {0, nvs["lockout"]}
      BY <2>1, KeysAre DEF Sealed
    <2>3. nvs'["lockout"] = 0 => Sealed' = 0
      BY <1>13 DEF Sealed
    <2> QED BY <1>13, <2>2, <2>3 DEF Wipe, DoomInv, DoomedStaysLocked, Open
  <1>14. CASE PowerCut
    BY <1>14 DEF PowerCut, ghostVars, DoomInv, Sealed, DoomedStaysLocked, Open
  <1>15. CASE UNCHANGED vars
    BY <1>15 DEF vars, ramVars, ghostVars, DoomInv, Sealed, DoomedStaysLocked
  <1> QED BY <1>1, <1>2, <1>3, <1>4, <1>5, <1>6, <1>8, <1>9, <1>10, <1>11, <1>12, <1>13,
             <1>14, <1>15 DEF Next, BootStep, UserStep, HostStep

\* A mnemonic whose threshold was reached is never opened again, wherever power fails,
\* inside the erase of wallet_wipe included: what it takes is that the writes succeed
\* and that the erase does not remove the count while pin_sealed stays.
THEOREM LockedOutForGood ==
    ~MayFail => (Spec /\ SealErasedFirst => []DoomedStaysLocked)
  <1> SUFFICES ASSUME ~MayFail PROVE Spec /\ SealErasedFirst => []DoomedStaysLocked
    OBVIOUS
  <1> DEFINE SealFirst == Wipe /\ nvs'["lockout"] = 0 => nvs'["pin_sealed"] = 0
  <1>1. Init => TypeOK /\ Counting /\ DoomInv
    BY TypeInit, KeysAre, Bounds
       DEF Init, Counting, DoomInv, Sealed, Open, DoomedStaysLocked
  <1>2. TypeOK /\ Counting /\ DoomInv /\ [Next]_vars /\ [SealFirst]_vars
          => (TypeOK /\ Counting /\ DoomInv)'
    <2>1. UNCHANGED vars /\ DoomInv => DoomInv'
      BY DEF vars, ramVars, ghostVars, DoomInv, Sealed, DoomedStaysLocked
    <2> QED BY <2>1, TypeNext, CountingNext, DoomNext
  <1>3. DoomInv => DoomedStaysLocked
    BY DEF DoomInv
  <1>4. SealErasedFirst <=> [][SealFirst]_vars
    BY DEF SealErasedFirst
  <1> QED BY <1>1, <1>2, <1>3, <1>4, PTL DEF Spec

\* In particular, a wallet with an erase that power cannot divide is locked out for
\* good: the count and the sealed mnemonic go together.
COROLLARY LockedOutIndivisibly == FaultFree => (Spec => []DoomedStaysLocked)
  <1> SUFFICES ASSUME FaultFree PROVE Spec => []DoomedStaysLocked
    OBVIOUS
  <1>1. TypeOK /\ [Next]_vars
          => [Wipe /\ nvs'["lockout"] = 0 => nvs'["pin_sealed"] = 0]_vars
    <2> SUFFICES ASSUME TypeOK, Wipe PROVE nvs'["pin_sealed"] = 0
      OBVIOUS
    <2>1. nvs' = [k \in Keys |-> 0]
      BY DEF FaultFree, Wipe, Erasures, Outcomes, TypeOK
    <2> QED BY <2>1, KeysAre
  <1>2. Spec => SealErasedFirst
    BY <1>1, TypeCorrect, PTL DEF Spec, SealErasedFirst
  <1> QED BY <1>2, LockedOutForGood DEF FaultFree

=============================================================================
