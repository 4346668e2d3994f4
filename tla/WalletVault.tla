---------------------------- MODULE WalletVault ----------------------------
(***************************************************************************)
(* The wallet at rest (main/wallet.c) and the boot that creates or unlocks *)
(* it (main/main.c app_main): the NVS namespace, the unsealed seed in RAM, *)
(* and power that may fail between any two writes.                         *)
(*                                                                         *)
(* Every nvs_set_blob is durable by itself and in program order (ESP-IDF's *)
(* NVS writes through; nvs_commit adds nothing), so each write is a step.  *)
(* A seed stands for the mnemonic, and names everything made from it: the  *)
(* salt, nonce, tag and ciphertext of its sealing and the viewing key and  *)
(* address derived from it.  0 is an absent key.  A PIN is right or wrong. *)
(*                                                                         *)
(* External behaviour the constants choose: MayFail, whether an NVS write  *)
(* may return an error (a full or worn partition) and leave the old value; *)
(* AtomicErase, whether nvs_erase_all is indivisible under a power cut.    *)
(* Reads of what was written succeed.  Not modelled: wallet_import,        *)
(* wallet_export_mnemonic and wallet_pin_lock (never called), backed_up    *)
(* (only logged; its write can fail), and the passphrase (always empty).   *)
(***************************************************************************)
EXTENDS Naturals

CONSTANTS Seeds,        \* mnemonics the generator may return
          Identities,   \* device scalars the generator may return
          MaxFails,     \* WALLET_PIN_LOCKOUT_MAX
          MaxCuts,      \* bound: power cuts
          MayFail, AtomicErase

ASSUME VaultAssumption ==
    /\ Seeds \subseteq Nat \ {0} /\ Identities \subseteq Nat \ {0}
    /\ MaxFails \in Nat \ {0} /\ MaxCuts \in Nat
    /\ MayFail \in BOOLEAN /\ AtomicErase \in BOOLEAN

VARIABLES
    nvs,        \* the namespace: key -> value, 0 if absent
    pc,         \* where app_main stands; "ready" while HWP is served
    part,       \* next of the parts wallet_pin_provision writes
    unlocked,   \* g_unlocked: the seed in RAM, 0 if locked
    fresh,      \* the generated mnemonic on app_main's stack
    err,        \* the err |= ... of wallet_pin_provision
    lo,         \* fail_count of the loaded lockout state
    exported,   \* seed of the viewing key or address last given out
    pinned,     \* first device identity given out, 0 before
    tries,      \* wrong PINs tried since an unlock was recorded
    doomed,     \* seed whose lockout threshold was reached
    cuts        \* power cuts so far

ramVars   == <<part, unlocked, fresh, err, lo, exported>>
ghostVars == <<pinned, tries, doomed>>
vars      == <<nvs, pc, ramVars, ghostVars, cuts>>

\* Mutant: pin_sealed first.
SealOrder_Backwards == [i \in 1..4 |-> IF i = 4 THEN "pin_salt"
                                   ELSE IF i = 3 THEN "pin_nonce"
                                   ELSE IF i = 2 THEN "pin_tag" ELSE "pin_sealed"]

\* The order in which wallet_pin_provision writes its parts.
SealOrder == [i \in 1..4 |-> IF i = 1 THEN "pin_salt"
                         ELSE IF i = 2 THEN "pin_nonce"
                         ELSE IF i = 3 THEN "pin_tag" ELSE "pin_sealed"]
SealKeys  == {"pin_salt", "pin_nonce", "pin_tag", "pin_sealed"}
CacheKeys == {"fvk", "ua"}
Keys      == SealKeys \cup CacheKeys \cup {"lockout", "device_sk"}
Empty     == [k \in Keys |-> 0]

MaxTries  == MaxFails + MaxCuts + 1     \* bound on what tries counts

Points == {"init", "check", "create", "setpin", "seal", "reset", "identity", "fvk",
           "status", "prompt", "count", "clear", "ua", "ready", "wipe", "halt"}

Init ==
    /\ nvs = Empty /\ pc = "init"
    /\ part = 1 /\ unlocked = 0 /\ fresh = 0 /\ err = FALSE /\ lo = 0 /\ exported = 0
    /\ pinned = 0 /\ tries = 0 /\ doomed = 0 /\ cuts = 0

-----------------------------------------------------------------------------
(* NVS.  A write succeeds, or, where MayFail, does nothing.                *)

Outcomes == IF MayFail THEN BOOLEAN ELSE {TRUE}

Stored(k, v, ok) == IF ok THEN [nvs EXCEPT ![k] = v] ELSE nvs

IsInitialized == nvs["pin_sealed"] # 0
Sealing(s)    == \A k \in SealKeys : nvs[k] = s

-----------------------------------------------------------------------------
(* Boot.                                                                   *)

\* wallet_init; a partition that cannot be used halts the device.
BootInit ==
    /\ pc = "init"
    /\ \E ok \in Outcomes : pc' = IF ok THEN "check" ELSE "halt"
    /\ UNCHANGED <<nvs, ramVars, ghostVars, cuts>>

\* nvs_flash_init reports no free pages or a new version: the whole partition
\* is erased and boot goes on as if the device were new.
BootErase ==
    /\ pc = "init" /\ MayFail
    /\ nvs' = Empty /\ pc' = "check"
    /\ pinned' = 0 /\ tries' = 0 /\ doomed' = 0
    /\ UNCHANGED <<ramVars, cuts>>

BootCheck ==
    /\ pc = "check"
    /\ pc' = IF IsInitialized THEN "status" ELSE "create"
    /\ UNCHANGED <<nvs, ramVars, ghostVars, cuts>>

\* wallet_create: a mnemonic never seen before.
Create ==
    /\ pc = "create"
    /\ fresh' \in Seeds \ ({nvs[k] : k \in SealKeys \cup CacheKeys} \cup {doomed})
    /\ pc' = "setpin"
    /\ UNCHANGED <<nvs, part, unlocked, err, lo, exported, ghostVars, cuts>>

\* user_input_collect_pin at provisioning: a cancel or timeout halts.
ChoosePin ==
    /\ pc = "setpin"
    /\ \/ pc' = "seal" /\ UNCHANGED fresh
       \/ pc' = "halt" /\ fresh' = 0
    /\ part' = 1 /\ err' = FALSE
    /\ UNCHANGED <<nvs, unlocked, lo, exported, ghostVars, cuts>>

\* Mutant: only the last write decides whether the sealing failed.
WritePart_LastCounts ==
    /\ pc = "seal"
    /\ \E ok, flag \in Outcomes :
          /\ nvs' = Stored(SealOrder[part], fresh, ok)
          /\ err' = (~ok \/ (part = 4 /\ ~flag))
    /\ IF part = 4 THEN pc' = "reset" /\ part' = 1
                   ELSE UNCHANGED pc /\ part' = part + 1
    /\ UNCHANGED <<unlocked, fresh, lo, exported, ghostVars, cuts>>

\* wallet_pin_provision writes the parts one after the other, and backed_up
\* after the last; a failed write is remembered and the next made all the same.
WritePart ==
    /\ pc = "seal"
    /\ \E ok, flag \in Outcomes :
          /\ nvs' = Stored(SealOrder[part], fresh, ok)
          /\ err' = (err \/ ~ok \/ (part = 4 /\ ~flag))
    /\ IF part = 4 THEN pc' = "reset" /\ part' = 1
                   ELSE UNCHANGED pc /\ part' = part + 1
    /\ UNCHANGED <<unlocked, fresh, lo, exported, ghostVars, cuts>>

\* lockout_save of a fresh state (its result is ignored), then the seed is kept
\* in RAM, or the device halts if a part was not written.
ResetLockout ==
    /\ pc = "reset"
    /\ \E ok \in Outcomes : nvs' = Stored("lockout", 0, ok)
    /\ IF err THEN pc' = "halt" /\ UNCHANGED unlocked
              ELSE pc' = "identity" /\ unlocked' = fresh
    /\ fresh' = 0 /\ err' = FALSE /\ tries' = 0
    /\ UNCHANGED <<part, lo, exported, pinned, doomed, cuts>>

-----------------------------------------------------------------------------
(* Device identity, viewing key and address.                               *)

\* Mutant: the stored identity is never looked for.
LoadOrCreateIdentity_Always ==
    \E d \in Identities, ok \in Outcomes :
       /\ nvs' = Stored("device_sk", d, ok)
       /\ pinned' = IF ok /\ pinned = 0 THEN d ELSE pinned

\* load_or_create_device_sk: an identity is given out if one was stored, or
\* generated and written.
LoadOrCreateIdentity ==
    LET given(d) == IF pinned = 0 THEN d ELSE pinned
    IN  \/ /\ nvs["device_sk"] # 0
           /\ pinned' = given(nvs["device_sk"]) /\ UNCHANGED nvs
        \/ /\ nvs["device_sk"] = 0
           /\ \E d \in Identities, ok \in Outcomes :
                 /\ nvs' = Stored("device_sk", d, ok)
                 /\ pinned' = IF ok THEN given(d) ELSE pinned

\* wallet_get_fvk / wallet_get_address: the cached value, else one derived from
\* the seed in RAM, which is then cached (a failed write is ignored).
ReadOrDerive(key) ==
    \/ nvs[key] # 0 /\ exported' = nvs[key] /\ UNCHANGED nvs
    \/ /\ nvs[key] = 0 /\ unlocked # 0
       /\ exported' = unlocked
       /\ \E ok \in Outcomes : nvs' = Stored(key, unlocked, ok)

ShowIdentity ==      \* an error is not looked at
    /\ pc = "identity"
    /\ LoadOrCreateIdentity
    /\ pc' = "fvk"
    /\ UNCHANGED <<ramVars, tries, doomed, cuts>>

DeriveFvk ==
    /\ pc = "fvk"
    /\ ReadOrDerive("fvk")
    /\ pc' = "ua"
    /\ UNCHANGED <<part, unlocked, fresh, err, lo, ghostVars, cuts>>

DeriveUa ==
    /\ pc = "ua"
    /\ ReadOrDerive("ua")
    /\ pc' = "ready"
    /\ UNCHANGED <<part, unlocked, fresh, err, lo, ghostVars, cuts>>

\* IDENTITY_REQ and ATTEST_REQ; FVK_REQ.
ServeIdentity ==
    /\ pc = "ready"
    /\ LoadOrCreateIdentity
    /\ UNCHANGED <<pc, ramVars, tries, doomed, cuts>>

ServeFvk ==
    /\ pc = "ready"
    /\ ReadOrDerive("fvk")
    /\ UNCHANGED <<pc, part, unlocked, fresh, err, lo, ghostVars, cuts>>

-----------------------------------------------------------------------------
(* PIN unlock.                                                             *)

\* Mutant: the stored count is not looked at.
PinStatus_Unchecked ==
    /\ pc = "status"
    /\ pc' = "prompt"
    /\ UNCHANGED <<nvs, ramVars, ghostVars, cuts>>

\* wallet_pin_status at the head of the loop.
PinStatus ==
    /\ pc = "status"
    /\ pc' = IF nvs["lockout"] >= MaxFails THEN "wipe" ELSE "prompt"
    /\ UNCHANGED <<nvs, ramVars, ghostVars, cuts>>

\* user_input_collect_pin was cancelled or timed out.
PinAbandoned ==
    /\ pc = "prompt"
    /\ pc' = "status"
    /\ UNCHANGED <<nvs, ramVars, ghostVars, cuts>>

\* wallet_pin_unlock before it writes: it ends at once if locked out already or
\* if a part is missing; else the PIN opens the sealed mnemonic, or does not
\* (no PIN opens parts of different sealings).
PinEntered(right) ==
    /\ pc = "prompt"
    /\ lo' = nvs["lockout"]
    /\ IF nvs["lockout"] >= MaxFails
       THEN pc' = "wipe" /\ UNCHANGED <<unlocked, tries>>
       ELSE IF \E k \in SealKeys : nvs[k] = 0
       THEN pc' = "status" /\ UNCHANGED <<unlocked, tries>>
       ELSE IF right /\ Sealing(nvs["pin_sealed"])
       THEN pc' = "clear" /\ unlocked' = nvs["pin_sealed"] /\ UNCHANGED tries
       ELSE /\ pc' = "count" /\ UNCHANGED unlocked
            /\ tries' = IF tries < MaxTries THEN tries + 1 ELSE tries
    /\ UNCHANGED <<nvs, part, fresh, err, exported, pinned, doomed, cuts>>

\* Mutants: the failure is recorded twice; it is answered without being saved; it
\* is not saved when the wallet is about to be wiped anyway.
CountFailure_Twice ==
    /\ pc = "count"
    /\ lo' = lo + 2
    /\ \E ok \in Outcomes : nvs' = Stored("lockout", lo + 2, ok)
    /\ IF lo + 2 >= MaxFails
       THEN pc' = "wipe" /\ doomed' = nvs["pin_sealed"]
       ELSE pc' = "status" /\ UNCHANGED doomed
    /\ UNCHANGED <<part, unlocked, fresh, err, exported, pinned, tries, cuts>>

CountFailure_Unsaved ==
    /\ pc = "count"
    /\ lo' = lo + 1
    /\ IF lo + 1 >= MaxFails
       THEN pc' = "wipe" /\ doomed' = nvs["pin_sealed"]
       ELSE pc' = "status" /\ UNCHANGED doomed
    /\ UNCHANGED <<nvs, part, unlocked, fresh, err, exported, pinned, tries, cuts>>

CountFailure_WipeUnsaved ==
    /\ pc = "count"
    /\ lo' = lo + 1
    /\ IF lo + 1 >= MaxFails
       THEN pc' = "wipe" /\ doomed' = nvs["pin_sealed"] /\ UNCHANGED nvs
       ELSE /\ pc' = "status" /\ UNCHANGED doomed
            /\ \E ok \in Outcomes : nvs' = Stored("lockout", lo + 1, ok)
    /\ UNCHANGED <<part, unlocked, fresh, err, exported, pinned, tries, cuts>>

\* wallet_lockout_record_failure, lockout_save (result ignored), and the answer.
CountFailure ==
    /\ pc = "count"
    /\ lo' = lo + 1
    /\ \E ok \in Outcomes : nvs' = Stored("lockout", lo + 1, ok)
    /\ IF lo + 1 >= MaxFails
       THEN pc' = "wipe" /\ doomed' = nvs["pin_sealed"]
       ELSE pc' = "status" /\ UNCHANGED doomed
    /\ UNCHANGED <<part, unlocked, fresh, err, exported, pinned, tries, cuts>>

\* Mutant: the cleared count stays in RAM.
ClearFailures_Unsaved ==
    /\ pc = "clear"
    /\ lo' = 0 /\ tries' = 0
    /\ pc' = "ua"
    /\ UNCHANGED <<nvs, part, unlocked, fresh, err, exported, pinned, doomed, cuts>>

\* wallet_lockout_record_success, lockout_save (result ignored).
ClearFailures ==
    /\ pc = "clear"
    /\ \E ok \in Outcomes : nvs' = Stored("lockout", 0, ok)
    /\ lo' = 0 /\ tries' = 0
    /\ pc' = "ua"
    /\ UNCHANGED <<part, unlocked, fresh, err, exported, pinned, doomed, cuts>>

\* What one step of nvs_erase_all removes, in no fixed order.
Erasures == IF AtomicErase THEN {Keys} ELSE {{k} : k \in Keys}

\* Mutant: the derived keys are not among the erased.
Wipe_KeepsCaches ==
    /\ pc = "wipe"
    /\ \E ok \in Outcomes :
          nvs' = IF ok THEN [k \in Keys |-> IF k \in CacheKeys THEN nvs[k] ELSE 0] ELSE nvs
    /\ pc' = "halt"
    /\ unlocked' = 0
    /\ pinned' = IF nvs'["device_sk"] = 0 THEN 0 ELSE pinned
    /\ tries' = IF nvs'["pin_sealed"] = 0 THEN 0 ELSE tries
    /\ UNCHANGED <<part, fresh, err, lo, exported, doomed, cuts>>

\* wallet_wipe, then fatal_halt.  Neither the erase nor the commit is checked.
Wipe ==
    /\ pc = "wipe"
    /\ \E gone \in Erasures, ok \in Outcomes :
          /\ nvs' = IF ok THEN [k \in Keys |-> IF k \in gone THEN 0 ELSE nvs[k]] ELSE nvs
          /\ pc' = IF ok /\ nvs' # Empty THEN "wipe" ELSE "halt"
    /\ unlocked' = 0
    /\ pinned' = IF nvs'["device_sk"] = 0 THEN 0 ELSE pinned
    /\ tries' = IF nvs'["pin_sealed"] = 0 THEN 0 ELSE tries
    /\ UNCHANGED <<part, fresh, err, lo, exported, doomed, cuts>>

-----------------------------------------------------------------------------
\* Power fails, or the user switches a halted device off and on: RAM is gone.
PowerCut ==
    /\ cuts < MaxCuts
    /\ cuts' = cuts + 1
    /\ pc' = "init"
    /\ part' = 1 /\ unlocked' = 0 /\ fresh' = 0 /\ err' = FALSE /\ lo' = 0 /\ exported' = 0
    /\ UNCHANGED <<nvs, ghostVars>>

\* What the firmware does without the user.
BootStep ==
    \/ BootInit \/ BootErase \/ BootCheck \/ Create \/ WritePart \/ ResetLockout
    \/ ShowIdentity \/ DeriveFvk \/ DeriveUa
    \/ PinStatus \/ CountFailure \/ ClearFailures \/ Wipe

UserStep ==
    \/ ChoosePin \/ PinAbandoned
    \/ \E right \in BOOLEAN : PinEntered(right)

HostStep == ServeIdentity \/ ServeFvk

Next == BootStep \/ UserStep \/ HostStep \/ PowerCut

Spec     == Init /\ [][Next]_vars
FairSpec == Spec /\ WF_vars(BootStep)
-----------------------------------------------------------------------------
(* Properties.                                                             *)

\* The keys of the namespace hold what belongs under them, and the counters stay
\* within the lockout threshold that wallet_lockout_should_wipe compares with.
TypeOK ==
    /\ nvs \in [Keys -> Nat]
    /\ \A k \in SealKeys \cup CacheKeys : nvs[k] \in Seeds \cup {0}
    /\ nvs["device_sk"] \in Identities \cup {0}
    /\ nvs["lockout"] \in 0..MaxFails
    /\ pc \in Points /\ part \in 1..4
    /\ unlocked \in Seeds \cup {0} /\ fresh \in Seeds \cup {0}
    /\ err \in BOOLEAN /\ lo \in 0..MaxFails
    /\ exported \in Seeds \cup {0} /\ pinned \in Identities \cup {0}
    /\ tries \in 0..MaxTries
    /\ doomed \in Seeds \cup {0} /\ cuts \in 0..MaxCuts

\* A sealed mnemonic can be opened: wherever power fails during provisioning, if
\* pin_sealed is there (wallet_is_initialized) then so are the salt, the nonce and
\* the tag of the same sealing.
PartsCohere == IsInitialized => Sealing(nvs["pin_sealed"])

\* A mnemonic is kept in RAM for use only if all four parts of its sealing are in
\* flash: nobody receives funds with a wallet that a restart would lose, whichever
\* writes fail and wherever power does (wallet_pin_provision, wallet_pin_unlock).
OpenWalletSealed == unlocked # 0 => Sealing(unlocked)

\* The viewing key and address given out are those of the seed in RAM, which is
\* the one sealed in flash: no cache outlives the wallet it was derived from.
KeysMatchSeed ==
    /\ unlocked # 0 => unlocked = nvs["pin_sealed"]
    /\ exported # 0 => exported = unlocked

\* The stored fail count is never above the wrong PINs tried, and below them by
\* at most one for each power cut and the one being counted: a wrong PIN is
\* answered only once the count is in flash.
AttemptsCounted ==
    /\ nvs["lockout"] <= tries
    /\ tries <= nvs["lockout"] + cuts + (IF pc = "count" THEN 1 ELSE 0)

\* Once the firmware gives a seed up for lost, it never opens it again, wherever
\* power fails between the last wrong PIN and the wipe (wallet_pin_unlock, app_main).
\* It takes writes that succeed, and an erase that does not remove the count while
\* pin_sealed stays: a cut in an erase that did would leave a wallet that asks for
\* the PIN again.
DoomedStaysLocked == unlocked # 0 => unlocked # doomed

\* An identity once given out to a pairing host stays the device's identity until
\* the wallet is wiped.
IdentityStable == pinned # 0 => nvs["device_sk"] = pinned

\* Outside the erase of wallet_init, a sealed mnemonic is replaced or erased only
\* after MaxFails wrong PINs with no unlock recorded in between.
WipeOnlyWhenEarned ==
    [][(IsInitialized /\ pc # "init" /\ nvs'["pin_sealed"] # nvs["pin_sealed"])
          => (nvs'["pin_sealed"] = 0 /\ tries >= MaxFails)]_vars

\* A wallet at its lockout threshold is wiped without the user's help, even if
\* power fails before the wipe: app_main finds the threshold reached again.  (A
\* divisible erase could lose the count first, see DoomedStaysLocked.)
LockoutLeadsToWipe ==
    (IsInitialized /\ nvs["lockout"] >= MaxFails) ~> ~IsInitialized

-----------------------------------------------------------------------------
(* The wallet implements a PIN vault (PinVault).                           *)

\* The mnemonic behind the PIN is one whose sealing is complete; without it the
\* record, the wrong PIN being answered and the coming wipe are of nothing.
Behind == IF IsInitialized /\ Sealing(nvs["pin_sealed"]) THEN nvs["pin_sealed"] ELSE 0
OnRecord == IF Behind = 0 THEN 0 ELSE nvs["lockout"]

PV == INSTANCE PinVault WITH
        Forgetful <- MayFail, sealed <- Behind, wrong <- OnRecord,
        open <- unlocked, given <- exported,
        answering <- (Behind # 0 /\ pc = "count"),
        condemned <- (Behind # 0 /\ pc = "wipe"), restarts <- cuts

\* Whatever is on flash in between and wherever power fails, the wallet behaves
\* as a vault that opens only below the threshold, records every wrong PIN it
\* answers, and gives out the keys of what is open (wallet_pin_provision,
\* wallet_pin_unlock, wallet_wipe, wallet_get_fvk, app_main).  With writes that
\* fail it is a forgetful one.
ImplementsPinVault == PV!Spec

=============================================================================
