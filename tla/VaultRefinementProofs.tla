----------------------- MODULE VaultRefinementProofs -----------------------
(* WalletVault implements PinVault, and what that needs to know of the     *)
(* parts of a sealing, for every number of mnemonics, wrong PINs and power *)
(* cuts, with writes that fail or not.                                     *)
EXTENDS WalletVaultProofs

-----------------------------------------------------------------------------
(* A mnemonic in use is sealed, whatever the constants are: the parts      *)
(* written so far are there as long as no write of them failed.            *)

SealInv ==
    /\ pc = "seal" /\ ~err => \A i \in 1..4 : i < part => nvs[SealOrder[i]] = fresh
    /\ pc = "reset" /\ ~err => Sealing(fresh)
    /\ unlocked # 0 => pc \in Open
    /\ OpenWalletSealed

PartsKept == \A k \in SealKeys : nvs'[k] = nvs[k]

\* A write under another key leaves the parts alone.
LEMMA OtherKept ==
    ASSUME TypeOK, NEW k \in Keys \ SealKeys, NEW v \in Nat, NEW ok \in Outcomes,
           nvs' = Stored(k, v, ok)
    PROVE  PartsKept /\ \A j \in Keys : j # k => nvs'[j] = nvs[j]
  <1>1. \A j \in Keys : j # k => nvs'[j] = nvs[j]
    BY StoredReads DEF TypeOK
  <1> QED BY <1>1, KeysAre DEF PartsKept

LEMMA IdentityKeepsParts ==
    ASSUME TypeOK, LoadOrCreateIdentity
    PROVE  PartsKept /\ nvs'["lockout"] = nvs["lockout"]
  <1>1. CASE UNCHANGED nvs
    BY <1>1 DEF PartsKept
  <1>2. ASSUME NEW d \in Identities, NEW ok \in Outcomes,
               nvs' = Stored("device_sk", d, ok)
        PROVE  PartsKept /\ nvs'["lockout"] = nvs["lockout"]
    <2>1. d \in Nat /\ "device_sk" \in Keys \ SealKeys
      BY KeysAre, Bounds
    <2> QED BY <1>2, <2>1, OtherKept, KeysAre
  <1> QED BY <1>1, <1>2 DEF LoadOrCreateIdentity

LEMMA ExportKeepsParts ==
    ASSUME TypeOK, NEW c \in CacheKeys, ReadOrDerive(c)
    PROVE  PartsKept /\ nvs'["lockout"] = nvs["lockout"]
  <1>1. CASE UNCHANGED nvs
    BY <1>1 DEF PartsKept
  <1>2. ASSUME NEW ok \in Outcomes, nvs' = Stored(c, unlocked, ok)
        PROVE  PartsKept /\ nvs'["lockout"] = nvs["lockout"]
    <2>1. unlocked \in Nat /\ c \in Keys \ SealKeys /\ c # "lockout"
      BY KeysAre, Bounds DEF TypeOK
    <2> QED BY <1>2, <2>1, OtherKept, KeysAre
  <1> QED BY <1>1, <1>2 DEF ReadOrDerive

LEMMA SealNext == TypeOK /\ SealInv /\ [Next]_vars => SealInv'
  <1> SUFFICES ASSUME TypeOK, SealInv, [Next]_vars PROVE SealInv'
    OBVIOUS
  <1>1. ASSUME PartsKept, unlocked' = unlocked, unlocked' # 0 => pc' \in Open,
               pc' \notin {"seal", "reset"}
        PROVE  SealInv'
    BY <1>1 DEF PartsKept, SealInv, OpenWalletSealed, Sealing
  <1>2. ASSUME unlocked' = 0, pc' \notin {"seal", "reset"}
        PROVE  SealInv'
    BY <1>2 DEF SealInv, OpenWalletSealed
  <1>3. CASE BootInit \/ BootCheck \/ PinStatus \/ PinAbandoned \/ Create
    <2>1. PartsKept /\ unlocked' = unlocked /\ pc \notin Open
          /\ pc' \notin {"seal", "reset"}
      BY <1>3 DEF BootInit, BootCheck, PinStatus, PinAbandoned, Create, ramVars, PartsKept,
                  Open
    <2> QED BY <1>1, <2>1 DEF SealInv
  <1>4. CASE BootErase \/ Wipe \/ PowerCut
    BY <1>2, <1>4 DEF BootErase, Wipe, PowerCut, ramVars, SealInv, Open
  <1>5. CASE ChoosePin
    <2>1. unlocked = 0 /\ unlocked' = 0 /\ part' = 1 /\ pc' # "reset"
      BY <1>5 DEF ChoosePin, SealInv, Open
    <2>2. \A i \in 1..4 : ~(i < 1)
      OBVIOUS
    <2> QED BY <2>1, <2>2 DEF SealInv, OpenWalletSealed
  <1>6. CASE WritePart
    <2>1. PICK ok \in Outcomes, flag \in Outcomes :
              /\ nvs' = Stored(SealOrder[part], fresh, ok)
              /\ err' = (err \/ ~ok \/ (part = 4 /\ ~flag))
      BY <1>6 DEF WritePart
    <2>2. /\ SealOrder[part] \in Keys /\ fresh \in Nat /\ part \in 1..4
          /\ nvs \in [Keys -> Nat] /\ ok \in BOOLEAN /\ err \in BOOLEAN
      <3>1. part \in 1..4 /\ fresh \in Nat /\ nvs \in [Keys -> Nat] /\ err \in BOOLEAN
        BY Bounds DEF TypeOK
      <3>2. SealOrder[part] \in Keys
        BY <3>1, SealOrderIs, KeysAre
      <3>3. ok \in BOOLEAN
        BY DEF Outcomes
      <3> QED BY <3>1, <3>2, <3>3
    <2>3. /\ \A j \in Keys : j # SealOrder[part] => nvs'[j] = nvs[j]
          /\ nvs'[SealOrder[part]] = IF ok THEN fresh ELSE nvs[SealOrder[part]]
      BY <2>1, <2>2, StoredReads
    <2>4. /\ unlocked = 0 /\ unlocked' = 0 /\ fresh' = fresh
          /\ pc' = (IF part = 4 THEN "reset" ELSE "seal")
          /\ part # 4 => part' = part + 1
      BY <1>6 DEF WritePart, SealInv, Open
    <2>5. ASSUME ~err'
          PROVE  \A i \in 1..4 : i <= part => nvs'[SealOrder[i]] = fresh
      <3>1. ok = TRUE /\ ~err
        BY <2>1, <2>2, <2>5
      <3>2. \A i \in 1..4 : i < part => nvs[SealOrder[i]] = fresh
        BY <1>6, <3>1 DEF WritePart, SealInv
      <3>3. \A i \in 1..4 : i < part => nvs'[SealOrder[i]] = fresh
        <4> SUFFICES ASSUME NEW i \in 1..4, i < part PROVE nvs'[SealOrder[i]] = fresh
          OBVIOUS
        <4>1. SealOrder[i] \in Keys /\ i # part
          BY <2>2, SealOrderIs, KeysAre
        <4>2. SealOrder[i] # SealOrder[part]
          BY <2>2, <4>1, SealOrderIs
        <4> QED BY <2>3, <3>2, <4>1, <4>2
      <3>4. nvs'[SealOrder[part]] = fresh
        BY <2>3, <3>1
      <3> QED BY <2>2, <3>3, <3>4
    <2>6. CASE part = 4
      <3>1. ~err' => \A k \in SealKeys : nvs'[k] = fresh
        BY <2>5, <2>6, SealOrderIs
      <3> QED BY <2>4, <2>6, <3>1 DEF SealInv, OpenWalletSealed, Sealing
    <2>7. CASE part # 4
      <3>1. ~err' => \A i \in 1..4 : i < part' => nvs'[SealOrder[i]] = fresh'
        BY <2>2, <2>4, <2>5, <2>7
      <3> QED BY <2>4, <2>7, <3>1 DEF SealInv, OpenWalletSealed
    <2> QED BY <2>6, <2>7
  <1>7. CASE ResetLockout
    <2>1. PartsKept
      BY <1>7, OtherKept, KeysAre DEF ResetLockout
    <2>2. unlocked = 0
      BY <1>7 DEF ResetLockout, SealInv, Open
    <2> QED BY <1>7, <2>1, <2>2
            DEF ResetLockout, PartsKept, SealInv, OpenWalletSealed, Sealing, Open
  <1>8. CASE ShowIdentity \/ ServeIdentity
    <2>1. PartsKept
      BY <1>8, IdentityKeepsParts DEF ShowIdentity, ServeIdentity
    <2> QED BY <1>1, <1>8, <2>1 DEF ShowIdentity, ServeIdentity, ramVars, Open
  <1>9. CASE DeriveFvk \/ DeriveUa \/ ServeFvk
    <2>1. PartsKept
      BY <1>9, ExportKeepsParts, KeysAre DEF DeriveFvk, DeriveUa, ServeFvk
    <2> QED BY <1>1, <1>9, <2>1 DEF DeriveFvk, DeriveUa, ServeFvk, Open
  <1>10. ASSUME NEW right \in BOOLEAN, PinEntered(right) PROVE SealInv'
    <2>1. unlocked = 0 /\ PartsKept /\ pc' \in {"wipe", "status", "clear", "count"}
      BY <1>10 DEF PinEntered, SealInv, Open, PartsKept
    <2>2. unlocked' # 0 => pc' = "clear" /\ Sealing(unlocked')
      BY <1>10, <2>1 DEF PinEntered
    <2> QED BY <2>1, <2>2 DEF PartsKept, SealInv, OpenWalletSealed, Sealing, Open
  <1>11. CASE CountFailure
    <2>1. unlocked' = 0 /\ pc' \notin {"seal", "reset"}
      BY <1>11 DEF CountFailure, SealInv, Open
    <2> QED BY <1>2, <2>1
  <1>12. CASE ClearFailures
    <2>1. PartsKept
      BY <1>12, OtherKept, KeysAre DEF ClearFailures
    <2> QED BY <1>1, <1>12, <2>1 DEF ClearFailures, Open
  <1>13. CASE UNCHANGED vars
    BY <1>13 DEF vars, ramVars, SealInv, OpenWalletSealed, Sealing
  <1> QED BY <1>3, <1>4, <1>5, <1>6, <1>7, <1>8, <1>9, <1>10, <1>11, <1>12, <1>13
          DEF Next, BootStep, UserStep, HostStep

\* A mnemonic is used only if a restart would find it: whichever writes fail,
\* whether or not the erase is indivisible, and wherever power does
\* (wallet_pin_provision, wallet_pin_unlock).
THEOREM InUseIsSealed == Spec => []OpenWalletSealed
  <1>1. Init => TypeOK /\ Counting /\ SealInv
    BY TypeInit DEF Init, Counting, SealInv, OpenWalletSealed
  <1>2. TypeOK /\ Counting /\ SealInv /\ [Next]_vars => (TypeOK /\ Counting /\ SealInv)'
    BY TypeNext, CountingNext, SealNext
  <1>3. SealInv => OpenWalletSealed
    BY DEF SealInv
  <1> QED BY <1>1, <1>2, <1>3, PTL DEF Spec
-----------------------------------------------------------------------------
(* The refinement.  It takes the stored count to be that of the mnemonic   *)
(* it is found with: none is left over for the next one, and the count in  *)
(* RAM is the stored one while a wrong PIN is answered.                    *)

RecordInv ==
    /\ nvs["lockout"] # 0 => Sealed # 0
    /\ pc = "reset" => nvs["lockout"] = 0
    /\ pc = "count" => Sealed # 0 /\ lo = nvs["lockout"] /\ lo < MaxFails

CountKeptToo == UNCHANGED nvs \/ (PartsKept /\ nvs'["lockout"] = nvs["lockout"])

LEMMA PartLeavesCount ==
    ASSUME TypeOK, WritePart
    PROVE  nvs'["lockout"] = nvs["lockout"]
  <1>1. PICK ok \in Outcomes : nvs' = Stored(SealOrder[part], fresh, ok)
    BY DEF WritePart
  <1>2. part \in 1..4 /\ fresh \in Nat /\ nvs \in [Keys -> Nat]
    BY Bounds DEF TypeOK
  <1>3. SealOrder[part] \in Keys /\ SealOrder[part] # "lockout"
    BY <1>2, SealOrderIs, KeysAre
  <1>4. \A j \in Keys : j # SealOrder[part] => nvs'[j] = nvs[j]
    BY <1>1, <1>2, <1>3, StoredReads
  <1> QED BY <1>3, <1>4, KeysAre

LEMMA RecordNext ==
    ASSUME AtomicErase
    PROVE  TypeOK /\ KeyInv /\ RecordInv /\ [Next]_vars => RecordInv'
  <1> SUFFICES ASSUME TypeOK, KeyInv, RecordInv, [Next]_vars PROVE RecordInv'
    OBVIOUS
  <1>1. ASSUME CountKeptToo, pc' \notin {"reset", "count"} PROVE RecordInv'
    BY <1>1, KeysAre DEF CountKeptToo, PartsKept, RecordInv, Sealed
  <1>2. CASE BootInit \/ BootCheck \/ PinStatus \/ PinAbandoned \/ Create
             \/ ChoosePin \/ PowerCut
    BY <1>1, <1>2 DEF BootInit, BootCheck, PinStatus, PinAbandoned, Create, ChoosePin,
                      PowerCut, CountKeptToo
  <1>3. CASE BootErase
    BY <1>3, KeysAre DEF BootErase, RecordInv
  <1>4. CASE WritePart
    <2>1. nvs["lockout"] = 0
      BY <1>4 DEF WritePart, KeyInv, RecordInv
    <2> QED BY <1>4, <2>1, PartLeavesCount DEF WritePart, RecordInv
  <1>5. CASE ResetLockout
    <2>1. PICK ok \in Outcomes : nvs' = Stored("lockout", 0, ok)
      BY <1>5 DEF ResetLockout
    <2>2. nvs'["lockout"] = 0
      BY <1>5, <2>1, StoredReads, KeysAre DEF ResetLockout, RecordInv, TypeOK
    <2> QED BY <1>5, <2>2 DEF ResetLockout, RecordInv
  <1>6. CASE ShowIdentity \/ ServeIdentity
    BY <1>1, <1>6, IdentityKeepsParts DEF ShowIdentity, ServeIdentity, CountKeptToo
  <1>7. CASE DeriveFvk \/ DeriveUa \/ ServeFvk
    BY <1>1, <1>7, ExportKeepsParts, KeysAre DEF DeriveFvk, DeriveUa, ServeFvk, CountKeptToo
  <1>8. ASSUME NEW right \in BOOLEAN, PinEntered(right) PROVE RecordInv'
    <2>1. CASE pc' = "count"
      <3>1. nvs["lockout"] < MaxFails
        BY <1>8, <2>1, Bounds DEF PinEntered, TypeOK
      <3>2. nvs["pin_sealed"] # 0
        BY <1>8, <2>1, KeysAre DEF PinEntered
      <3> QED BY <1>8, <2>1, <3>1, <3>2 DEF PinEntered, RecordInv, Sealed
    <2>2. CASE pc' # "count"
      BY <1>1, <1>8, <2>2 DEF PinEntered, CountKeptToo
    <2> QED BY <2>1, <2>2
  <1>9. CASE CountFailure
    <2>1. PICK ok \in Outcomes : nvs' = Stored("lockout", lo + 1, ok)
      BY <1>9 DEF CountFailure
    <2>2. lo + 1 \in Nat /\ "lockout" \in Keys \ SealKeys
      BY KeysAre, Bounds DEF TypeOK
    <2>3. PartsKept
      BY <2>1, <2>2, OtherKept
    <2>4. Sealed' = Sealed /\ Sealed # 0
      BY <1>9, <2>3, KeysAre DEF PartsKept, Sealed, CountFailure, RecordInv
    <2> QED BY <1>9, <2>4 DEF CountFailure, RecordInv
  <1>10. CASE ClearFailures
    <2>1. PICK ok \in Outcomes : nvs' = Stored("lockout", 0, ok)
      BY <1>10 DEF ClearFailures
    <2>2. PartsKept /\ nvs'["lockout"] \in {0, nvs["lockout"]}
      <3>1. 0 \in Nat /\ "lockout" \in Keys \ SealKeys /\ nvs \in [Keys -> Nat]
        BY KeysAre DEF TypeOK
      <3>2. PartsKept
        BY <2>1, <3>1, OtherKept
      <3>3. nvs'["lockout"] \in {0, nvs["lockout"]}
        BY <2>1, <3>1, StoredReads
      <3> QED BY <3>2, <3>3
    <2> QED BY <1>10, <2>2, KeysAre DEF ClearFailures, PartsKept, RecordInv, Sealed
  <1>11. CASE Wipe
    <2>1. nvs' = nvs \/ nvs' = Empty
      BY <1>11 DEF Wipe, Erasures, Empty, TypeOK
    <2> QED BY <1>11, <2>1, KeysAre DEF Wipe, RecordInv, Sealed
  <1>12. CASE UNCHANGED vars
    BY <1>12 DEF vars, ramVars, RecordInv, Sealed
  <1> QED BY <1>2, <1>3, <1>4, <1>5, <1>6, <1>7, <1>8, <1>9, <1>10, <1>11, <1>12
          DEF Next, BootStep, UserStep, HostStep

-----------------------------------------------------------------------------
(* Every step of the wallet is a step of the vault, or leaves it alone.    *)

RefInv == TypeOK /\ Counting /\ KeyInv /\ SealInv /\ RecordInv

Refines == PV!Next \/ UNCHANGED PV!vars

\* What the mapping reads of the parts.
LEMMA BehindIs ==
    ASSUME RefInv
    PROVE  /\ Behind \in Seeds \cup {0} /\ Behind \in {0, Sealed}
           /\ unlocked # 0 => Behind = unlocked
           /\ exported \in {0, unlocked}
           /\ pc \notin Open => unlocked = 0 /\ exported = 0
           /\ OnRecord \in 0..MaxFails /\ MaxFails \in Nat \ {0}
           /\ Behind # 0 => OnRecord = nvs["lockout"]
           /\ Behind = 0 => OnRecord = 0
  <1>1. Sealed \in Seeds \cup {0} /\ nvs["lockout"] \in 0..MaxFails /\ 0 \in 0..MaxFails
    BY KeysAre, Bounds DEF RefInv, TypeOK, Sealed
  <1>2. Behind \in {0, Sealed}
    BY DEF Behind, Sealed
  <1>3. unlocked # 0 => Behind = unlocked
    BY KeysAre DEF RefInv, SealInv, OpenWalletSealed, Sealing, Behind, IsInitialized
  <1>4. exported \in {0, unlocked} /\ (pc \notin Open => unlocked = 0 /\ exported = 0)
    BY DEF RefInv, KeyInv, KeysMatchSeed
  <1> QED BY <1>1, <1>2, <1>3, <1>4, VaultAssumption DEF OnRecord

LEMMA MapKept ==
    ASSUME PartsKept PROVE Behind' = Behind
  BY KeysAre DEF PartsKept, Behind, IsInitialized, Sealing

LEMMA RecordKept ==
    ASSUME PartsKept, nvs'["lockout"] = nvs["lockout"]
    PROVE  Behind' = Behind /\ OnRecord' = OnRecord
  BY MapKept DEF OnRecord

LEMMA NothingKept ==
    ASSUME nvs' = Empty PROVE Behind' = 0 /\ OnRecord' = 0
  BY KeysAre DEF Behind, OnRecord, IsInitialized

LEMMA NothingAtFirst == nvs = Empty => Behind = 0 /\ OnRecord = 0
  BY KeysAre DEF Behind, OnRecord, IsInitialized

\* A step the vault does not see.
LEMMA Unseen ==
    ASSUME Behind' = Behind, OnRecord' = OnRecord, UNCHANGED <<unlocked, exported, cuts>>,
           \/ Behind = 0
           \/ pc \notin {"count", "wipe"} /\ pc' \notin {"count", "wipe"}
    PROVE  Refines
  BY DEF Refines, PV!vars

LEMMA Opens ==
    ASSUME RefInv, pc \notin Open \cup {"count", "wipe"}, pc' \notin {"count", "wipe"},
           Behind # 0, OnRecord < MaxFails, unlocked' = Behind,
           Behind' = Behind, OnRecord' = OnRecord, UNCHANGED <<exported, cuts>>
    PROVE  Refines
  <1>1. unlocked = 0
    BY BehindIs
  <1>2. PV!Unlock
    BY <1>1 DEF PV!Unlock, PV!Waiting
  <1> QED BY <1>2 DEF Refines, PV!Next

\* The threshold is found in flash, at boot or when a PIN is entered.
LEMMA FoundAtThreshold ==
    ASSUME RefInv, pc \in {"status", "prompt"}, nvs["lockout"] >= MaxFails, pc' = "wipe",
           UNCHANGED <<nvs, unlocked, exported, cuts>>
    PROVE  Refines
  <1>1. Behind' = Behind /\ OnRecord' = OnRecord
    BY RecordKept DEF PartsKept
  <1>2. CASE Behind = 0
    BY <1>1, <1>2, Unseen
  <1>3. CASE Behind # 0
    <2>1. OnRecord = MaxFails
      BY <1>3, BehindIs
    <2>2. unlocked = 0
      BY BehindIs DEF Open
    <2>3. PV!Condemn
      BY <1>1, <1>3, <2>1, <2>2 DEF PV!Condemn, PV!Waiting
    <2> QED BY <2>3 DEF Refines, PV!Next
  <1> QED BY <1>2, <1>3

LEMMA SealingRefines ==
    ASSUME RefInv, RefInv', WritePart \/ ResetLockout PROVE Refines
  <1>1. CASE WritePart
    <2>1. Sealed = 0 /\ nvs["lockout"] = 0 /\ nvs'["lockout"] = 0
      BY <1>1, PartLeavesCount DEF WritePart, RefInv, KeyInv, RecordInv
    <2>2. Behind = 0 /\ OnRecord = 0 /\ OnRecord' = 0
      BY <2>1, BehindIs DEF OnRecord
    <2>3. unlocked = 0 /\ UNCHANGED <<unlocked, exported, cuts>>
          /\ pc = "seal" /\ pc' \in {"seal", "reset"}
      BY <1>1, BehindIs DEF WritePart, Open
    <2>4. CASE Behind' = 0
      BY <2>2, <2>3, <2>4, Unseen
    <2>5. CASE Behind' # 0
      <3>1. Behind' \in Seeds
        <4>1. RefInv' => (Behind \in Seeds \cup {0})'
          BY BehindIs, PTL
        <4> QED BY <2>5, <4>1
      <3>2. PV!Seal
        BY <2>2, <2>3, <3>1 DEF PV!Seal
      <3> QED BY <3>2 DEF Refines, PV!Next
    <2> QED BY <2>4, <2>5
  <1>2. CASE ResetLockout
    <2>1. PICK ok \in Outcomes : nvs' = Stored("lockout", 0, ok)
      BY <1>2 DEF ResetLockout
    <2>2. TypeOK /\ 0 \in Nat /\ "lockout" \in Keys \ SealKeys /\ nvs \in [Keys -> Nat]
      BY KeysAre DEF RefInv, TypeOK
    <2>3. PartsKept
      BY <2>1, <2>2, OtherKept
    <2>4. nvs["lockout"] = 0 /\ nvs'["lockout"] = 0
      BY <1>2, <2>1, <2>2, StoredReads DEF ResetLockout, RefInv, RecordInv
    <2>5. Behind' = Behind /\ OnRecord' = OnRecord /\ OnRecord = 0
      BY <2>3, <2>4, RecordKept, BehindIs
    <2>6. CASE err
      BY <1>2, <2>5, <2>6, Unseen DEF ResetLockout
    <2>7. CASE ~err
      <3>1. fresh # 0 /\ Sealing(fresh)
        BY <1>2, <2>7 DEF ResetLockout, RefInv, SealInv, KeyInv
      <3>2. Behind = fresh
        BY <3>1, KeysAre DEF Behind, IsInitialized, Sealing
      <3>3. OnRecord < MaxFails
        BY <2>5, BehindIs
      <3> QED BY <1>2, <2>5, <2>7, <3>1, <3>2, <3>3, Opens DEF ResetLockout, Open
    <2> QED BY <2>6, <2>7
  <1> QED BY <1>1, <1>2

LEMMA PinRefines ==
    ASSUME RefInv, NEW right \in BOOLEAN, PinEntered(right) PROVE Refines
  <1>1. Behind' = Behind /\ OnRecord' = OnRecord /\ pc = "prompt" /\ unlocked = 0
        /\ UNCHANGED <<nvs, exported, cuts>>
    BY RecordKept, BehindIs DEF PartsKept, PinEntered, Open
  <1>2. CASE nvs["lockout"] >= MaxFails
    BY <1>1, <1>2, FoundAtThreshold DEF PinEntered
  <1>3. CASE pc' = "status"
    BY <1>1, <1>3, Unseen DEF PinEntered
  <1>4. CASE pc' = "clear"
    <2>1. unlocked' = Sealed /\ Sealed # 0 /\ Sealing(Sealed)
      BY <1>1, <1>4, KeysAre DEF PinEntered, Sealed
    <2>2. Behind = Sealed
      BY <2>1 DEF Behind, IsInitialized, Sealed
    <2>3. OnRecord < MaxFails
      BY <1>4, <2>1, <2>2, BehindIs DEF PinEntered
    <2> QED BY <1>1, <1>4, <2>1, <2>2, <2>3, Opens DEF Open
  <1>5. CASE pc' = "count"
    <2>1. CASE Behind = 0
      BY <1>1, <1>5, <2>1, Unseen DEF PinEntered
    <2>2. CASE Behind # 0
      <3>1. OnRecord < MaxFails /\ unlocked' = unlocked
        BY <1>5, <2>2, BehindIs DEF PinEntered
      <3>2. PV!TryWrong
        BY <1>1, <1>5, <2>2, <3>1 DEF PV!TryWrong, PV!Waiting
      <3> QED BY <3>2 DEF Refines, PV!Next
    <2> QED BY <2>1, <2>2
  <1> QED BY <1>2, <1>3, <1>4, <1>5 DEF PinEntered

LEMMA CountRefines ==
    ASSUME RefInv, CountFailure PROVE Refines
  <1>1. PICK ok \in Outcomes : nvs' = Stored("lockout", lo + 1, ok)
    BY DEF CountFailure
  <1>2. TypeOK /\ lo + 1 \in Nat /\ "lockout" \in Keys \ SealKeys /\ nvs \in [Keys -> Nat]
    BY KeysAre, Bounds DEF RefInv, TypeOK
  <1>3. PartsKept
    BY <1>1, <1>2, OtherKept
  <1>4. Behind' = Behind
    BY <1>3, MapKept
  <1>5. /\ pc = "count" /\ pc' \in {"wipe", "status"} /\ lo = nvs["lockout"]
        /\ lo < MaxFails /\ UNCHANGED <<unlocked, exported, cuts>>
    BY DEF CountFailure, RefInv, RecordInv
  <1>6. CASE Behind = 0
    BY <1>4, <1>5, <1>6, Unseen DEF OnRecord
  <1>7. CASE Behind # 0
    <2>1. OnRecord = lo /\ OnRecord' = nvs'["lockout"]
      BY <1>4, <1>5, <1>7, BehindIs DEF OnRecord
    <2>2. OnRecord' \in {OnRecord + 1} \cup (IF MayFail THEN {OnRecord} ELSE {})
      <3>1. nvs'["lockout"] = (IF ok THEN lo + 1 ELSE nvs["lockout"]) /\ (~MayFail => ok)
        BY <1>1, <1>2, StoredReads
      <3> QED BY <1>5, <2>1, <3>1
    <2>3. pc' = "wipe" <=> OnRecord + 1 = MaxFails
      <3>1. lo \in Nat /\ MaxFails \in Nat
        BY Bounds DEF RefInv, TypeOK
      <3>2. lo + 1 >= MaxFails <=> lo + 1 = MaxFails
        BY <1>5, <3>1
      <3> QED BY <2>1, <3>2 DEF CountFailure
    <2>4. PV!AnswerWrong
      BY <1>4, <1>5, <1>7, <2>2, <2>3 DEF PV!AnswerWrong
    <2> QED BY <2>4 DEF Refines, PV!Next
  <1> QED BY <1>6, <1>7

LEMMA ClearRefines ==
    ASSUME RefInv, ClearFailures PROVE Refines
  <1>1. PICK ok \in Outcomes : nvs' = Stored("lockout", 0, ok)
    BY DEF ClearFailures
  <1>2. TypeOK /\ 0 \in Nat /\ "lockout" \in Keys \ SealKeys /\ nvs \in [Keys -> Nat]
    BY KeysAre DEF RefInv, TypeOK
  <1>3. PartsKept /\ nvs'["lockout"] \in {0, nvs["lockout"]}
    BY <1>1, <1>2, OtherKept, StoredReads
  <1>4. Behind' = Behind /\ OnRecord' \in {0, OnRecord}
    BY <1>3, MapKept DEF OnRecord
  <1>5. /\ pc = "clear" /\ pc' = "ua" /\ UNCHANGED <<unlocked, exported, cuts>>
        /\ unlocked # 0
    BY DEF ClearFailures, RefInv, KeyInv, Open
  <1>6. CASE OnRecord' = 0
    <2>1. PV!ClearRecord
      BY <1>4, <1>5, <1>6 DEF PV!ClearRecord
    <2> QED BY <2>1 DEF Refines, PV!Next
  <1>7. CASE OnRecord' = OnRecord
    BY <1>4, <1>5, <1>7, Unseen
  <1> QED BY <1>4, <1>6, <1>7

LEMMA ExportRefines ==
    ASSUME RefInv, DeriveFvk \/ DeriveUa \/ ServeFvk PROVE Refines
  <1>1. PICK c \in CacheKeys : ReadOrDerive(c)
    BY KeysAre DEF DeriveFvk, DeriveUa, ServeFvk
  <1>2. /\ pc \in {"fvk", "ua", "ready"} /\ pc' \in {"fvk", "ua", "ready"}
        /\ unlocked # 0 /\ UNCHANGED <<unlocked, cuts>>
    BY DEF DeriveFvk, DeriveUa, ServeFvk, RefInv, KeyInv, Open
  <1>3. Behind' = Behind /\ OnRecord' = OnRecord
    BY <1>1, ExportKeepsParts, RecordKept DEF RefInv
  <1>4. exported' = unlocked
    BY <1>1, <1>2, KeyExport DEF RefInv
  <1>5. PV!GiveKey
    BY <1>2, <1>3, <1>4 DEF PV!GiveKey
  <1> QED BY <1>5 DEF Refines, PV!Next

\* The erase of wallet_wipe, that of wallet_init, and the loss of power.
LEMMA ErasureRefines ==
    ASSUME AtomicErase, RefInv, Wipe \/ BootErase \/ PowerCut PROVE Refines
  <1>1. CASE Wipe
    <2>1. PICK ok \in Outcomes :
              /\ nvs' = IF ok THEN [k \in Keys |-> 0] ELSE nvs
              /\ pc' = IF ok /\ nvs' # Empty THEN "wipe" ELSE "halt"
      <3>1. PICK ok \in Outcomes :
              /\ nvs' = IF ok THEN [k \in Keys |-> IF k \in Keys THEN 0 ELSE nvs[k]] ELSE nvs
              /\ pc' = IF ok /\ nvs' # Empty THEN "wipe" ELSE "halt"
        BY <1>1 DEF Wipe, Erasures
      <3>2. [k \in Keys |-> IF k \in Keys THEN 0 ELSE nvs[k]] = [k \in Keys |-> 0]
        OBVIOUS
      <3> QED BY <3>1, <3>2
    <2>2. /\ pc = "wipe" /\ pc' = "halt" /\ unlocked = 0 /\ exported = 0
          /\ UNCHANGED <<unlocked, exported, cuts>>
      BY <1>1, <2>1, BehindIs DEF Wipe, Open, Empty
    <2>3. CASE ok
      <3>1. Behind' = 0 /\ OnRecord' = 0
        BY <2>1, <2>3, NothingKept DEF Empty
      <3>2. CASE Behind = 0
        BY <2>2, <3>1, <3>2, Unseen, BehindIs
      <3>3. CASE Behind # 0
        <4>1. PV!Empty
          BY <2>2, <3>1, <3>3 DEF PV!Empty
        <4> QED BY <4>1 DEF Refines, PV!Next
      <3> QED BY <3>2, <3>3
    <2>4. CASE ~ok
      <3>1. Behind' = Behind /\ OnRecord' = OnRecord /\ MayFail
        BY <2>1, <2>4, RecordKept DEF PartsKept, Outcomes
      <3>2. CASE Behind = 0
        BY <2>2, <3>1, <3>2, Unseen
      <3>3. CASE Behind # 0
        <4>1. PV!NotEmptied
          BY <2>2, <3>1, <3>3 DEF PV!NotEmptied
        <4> QED BY <4>1 DEF Refines, PV!Next
      <3> QED BY <3>2, <3>3
    <2> QED BY <2>3, <2>4
  <1>2. CASE BootErase
    <2>1. /\ pc = "init" /\ pc' = "check" /\ MayFail /\ nvs' = Empty
          /\ unlocked = 0 /\ exported = 0 /\ UNCHANGED <<unlocked, exported, cuts>>
      BY <1>2, BehindIs DEF BootErase, ramVars, Open
    <2>2. PV!Empty
      BY <2>1, NothingKept DEF PV!Empty
    <2> QED BY <2>2 DEF Refines, PV!Next
  <1>3. CASE PowerCut
    <2>1. Behind' = Behind /\ OnRecord' = OnRecord
      BY <1>3, RecordKept DEF PowerCut, PartsKept
    <2>2. PV!Restart
      BY <1>3, <2>1 DEF PowerCut, PV!Restart
    <2> QED BY <2>2 DEF Refines, PV!Next
  <1> QED BY <1>1, <1>2, <1>3

LEMMA StepRefinesVault ==
    ASSUME AtomicErase, RefInv, RefInv', [Next]_vars PROVE [PV!Next]_(PV!vars)
  <1> SUFFICES Refines
    BY DEF Refines
  <1>1. CASE PinStatus
    <2>1. CASE pc' = "wipe"
      BY <1>1, <2>1, FoundAtThreshold DEF PinStatus, ramVars
    <2>2. CASE pc' # "wipe"
      BY <1>1, <2>2, Unseen, RecordKept DEF PinStatus, ramVars, PartsKept
    <2> QED BY <2>1, <2>2
  <1>2. CASE BootInit \/ BootCheck \/ PinAbandoned \/ Create \/ ChoosePin
    BY <1>2, Unseen, RecordKept
       DEF BootInit, BootCheck, PinAbandoned, Create, ChoosePin, ramVars, PartsKept
  <1>3. CASE ShowIdentity \/ ServeIdentity
    BY <1>3, IdentityKeepsParts, RecordKept, Unseen
       DEF ShowIdentity, ServeIdentity, ramVars, RefInv
  <1>4. CASE UNCHANGED vars
    BY <1>4 DEF vars, ramVars, Refines, PV!vars, Behind, OnRecord, IsInitialized, Sealing
  <1> QED
    BY <1>1, <1>2, <1>3, <1>4, SealingRefines, PinRefines, CountRefines, ClearRefines,
       ExportRefines, ErasureRefines DEF Next, BootStep, UserStep, HostStep

\* With an indivisible erase the wallet implements the vault, a forgetful one if
\* writes may fail: however provisioning, unlock and wipe are cut short, it opens
\* only below the threshold, with a PIN or at the end of the sealing, it answers a
\* wrong PIN only once the count is written, and it gives out its own keys.
THEOREM WalletImplementsPinVault == AtomicErase => (Spec => ImplementsPinVault)
  <1> SUFFICES ASSUME AtomicErase PROVE Spec => ImplementsPinVault
    OBVIOUS
  <1>1. Init => RefInv
    BY TypeInit, KeysAre
       DEF Init, RefInv, Counting, KeyInv, KeysMatchSeed, Open, Sealed, SealInv,
           OpenWalletSealed, RecordInv
  <1>2. RefInv /\ [Next]_vars => RefInv'
    BY TypeNext, CountingNext, KeyNext, SealNext, RecordNext DEF RefInv
  <1>3. Init => PV!Init
    BY NothingAtFirst DEF Init, PV!Init
  <1>4. RefInv /\ RefInv' /\ [Next]_vars => [PV!Next]_(PV!vars)
    BY StepRefinesVault
  <1> QED BY <1>1, <1>2, <1>3, <1>4, PTL DEF Spec, ImplementsPinVault, PV!Spec

-----------------------------------------------------------------------------
(* What was proved of the vault holds of the wallet.                       *)

PVP == INSTANCE PinVaultProofs WITH
        Forgetful <- MayFail, sealed <- Behind, wrong <- OnRecord,
        open <- unlocked, given <- exported,
        answering <- (Behind # 0 /\ pc = "count"),
        condemned <- (Behind # 0 /\ pc = "wipe"), restarts <- cuts

LEMMA SameVault ==
    /\ PV!Init => PVP!Init
    /\ [PV!Next]_(PV!vars) => [PVP!Next]_(PVP!vars)
    /\ PVP!LockedAtThreshold <=> (OnRecord = MaxFails => unlocked = 0)
  <1>1. PV!Init => PVP!Init
    BY DEF PV!Init, PVP!Init
  <1>2. PV!vars = PVP!vars /\ PV!vars' = PVP!vars'
    BY DEF PV!vars, PVP!vars
  <1>3. PV!Next => PVP!Next
    BY DEF PV!Next, PV!Seal, PV!Unlock, PV!ClearRecord, PV!TryWrong, PV!AnswerWrong,
           PV!Condemn, PV!GiveKey, PV!Empty, PV!NotEmptied, PV!Restart, PV!Waiting,
           PVP!Next, PVP!Seal, PVP!Unlock, PVP!ClearRecord, PVP!TryWrong,
           PVP!AnswerWrong, PVP!Condemn, PVP!GiveKey, PVP!Empty, PVP!NotEmptied,
           PVP!Restart, PVP!Waiting
  <1>4. PVP!LockedAtThreshold <=> (OnRecord = MaxFails => unlocked = 0)
    BY DEF PVP!LockedAtThreshold
  <1> QED BY <1>1, <1>2, <1>3, <1>4

\* While a mnemonic is in use, the count in flash is below the threshold: no order
\* of boots, cuts and failing writes lets a locked-out wallet be opened.
THEOREM InUseBelowThreshold ==
    AtomicErase => (Spec => [](nvs["lockout"] = MaxFails => unlocked = 0))
  <1> SUFFICES ASSUME AtomicErase
               PROVE  Spec => [](nvs["lockout"] = MaxFails => unlocked = 0)
    OBVIOUS
  <1>1. Spec => ImplementsPinVault
    BY WalletImplementsPinVault
  <1>2. PVP!Constants
    BY VaultAssumption DEF PVP!Constants
  <1>3. PVP!Spec => [](PVP!OwnKeysOnly /\ PVP!LockedAtThreshold)
    BY <1>2, PVP!VaultKept
  <1>4. PVP!LockedAtThreshold /\ OpenWalletSealed
          => (nvs["lockout"] = MaxFails => unlocked = 0)
    BY SameVault, KeysAre, VaultAssumption
       DEF OnRecord, Behind, OpenWalletSealed, Sealing, IsInitialized
  <1> QED BY <1>1, <1>3, <1>4, InUseIsSealed, SameVault, PTL
          DEF ImplementsPinVault, PV!Spec, PVP!Spec
=============================================================================
