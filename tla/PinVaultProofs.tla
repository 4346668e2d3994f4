--------------------------- MODULE PinVaultProofs ---------------------------
(* What the abstract vault is worth, for every number of mnemonics and     *)
(* wrong PINs, on a storage that keeps what it is given and on one that    *)
(* does not.                                                               *)
EXTENDS PinVault, TLAPS

Constants ==
    /\ Seeds \subseteq Nat \ {0}
    /\ MaxFails \in Nat \ {0}
    /\ Forgetful \in BOOLEAN

\* What is in use is sealed and below the threshold; a wrong PIN is tried below
\* the threshold only; a vault is condemned at the threshold, or was to be.
Inv ==
    /\ wrong \in 0..MaxFails
    /\ OwnKeysOnly
    /\ open # 0 => wrong < MaxFails /\ ~answering /\ ~condemned
    /\ answering => sealed # 0 /\ wrong < MaxFails /\ ~condemned
    /\ condemned => wrong = MaxFails \/ Forgetful
    /\ sealed = 0 => wrong = 0 /\ open = 0 /\ ~answering
    /\ answering \in BOOLEAN /\ condemned \in BOOLEAN /\ restarts \in Nat

LEMMA VaultInv == ASSUME Constants PROVE Spec => []Inv
  <1>0. MaxFails \in Nat /\ 0 < MaxFails /\ 0 \in 0..MaxFails
        /\ 0 \notin Seeds /\ 0 \in Nat /\ Forgetful \in BOOLEAN
    BY DEF Constants
  <1>1. Init => Inv
    BY <1>0 DEF Init, Inv, OwnKeysOnly
  <1>2. Inv /\ [Next]_vars => Inv'
    <2> SUFFICES ASSUME Inv, [Next]_vars PROVE Inv'
      OBVIOUS
    <2> USE <1>0 DEF Inv, OwnKeysOnly
    <2>1. CASE Seal
      BY <2>1 DEF Seal
    <2>2. CASE Unlock
      BY <2>2 DEF Unlock, Waiting
    <2>3. CASE ClearRecord
      BY <2>3 DEF ClearRecord
    <2>4. CASE TryWrong
      BY <2>4 DEF TryWrong, Waiting
    <2>5. CASE AnswerWrong
      <3>1. /\ sealed # 0 /\ open = 0 /\ wrong \in 0..MaxFails /\ wrong < MaxFails
            /\ answering' = FALSE /\ UNCHANGED <<sealed, open, given, restarts>>
        BY <2>5, Zenon DEF AnswerWrong
      <3>2. wrong' \in 0..MaxFails /\ (Forgetful \/ wrong' = wrong + 1)
        BY <2>5, <3>1, SMT DEF AnswerWrong
      <3>3. condemned' = (wrong + 1 = MaxFails)
        BY <2>5 DEF AnswerWrong
      <3> QED BY <3>1, <3>2, <3>3, Zenon
    <2>6. CASE Condemn
      BY <2>6 DEF Condemn, Waiting
    <2>7. CASE GiveKey
      BY <2>7 DEF GiveKey
    <2>8. CASE Empty \/ NotEmptied
      <3>1. CASE Empty
        BY <3>1 DEF Empty
      <3>2. CASE NotEmptied
        BY <3>2 DEF NotEmptied
      <3> QED BY <2>8, <3>1, <3>2
    <2>9. CASE Restart
      <3>1. restarts' \in Nat
        BY <2>9, SMT DEF Restart
      <3> QED BY <2>9, <3>1, Zenon DEF Restart
    <2>10. CASE UNCHANGED vars
      BY <2>10 DEF vars
    <2> QED BY <2>1, <2>2, <2>3, <2>4, <2>5, <2>6, <2>7, <2>8, <2>9, <2>10 DEF Next
  <1> QED BY <1>1, <1>2, PTL DEF Spec

\* The vault gives out the keys of its own mnemonic, and with MaxFails wrong PINs
\* on record nothing is open, whatever the storage forgets (wallet.h: the device
\* wipes itself after WALLET_PIN_LOCKOUT_MAX wrong PINs).
THEOREM VaultKept == Constants => (Spec => [](OwnKeysOnly /\ LockedAtThreshold))
  <1> SUFFICES ASSUME Constants PROVE Spec => [](OwnKeysOnly /\ LockedAtThreshold)
    OBVIOUS
  <1>1. Inv => OwnKeysOnly /\ LockedAtThreshold
    BY DEF Inv, LockedAtThreshold, Constants
  <1> QED BY <1>1, VaultInv, PTL

\* Every wrong PIN that is answered is on record by then; only a power failure
\* hides one (wallet_pin_unlock saves the count before it returns).
THEOREM AnswersRecorded == Constants => (Spec => AnsweredIsRecorded)
  <1> SUFFICES ASSUME Constants PROVE Spec => AnsweredIsRecorded
    OBVIOUS
  <1> DEFINE Step == answering /\ ~answering' /\ ~Forgetful /\ restarts' = restarts
                        => wrong' = wrong + 1
  <1>1. Inv /\ [Next]_vars => [Step]_vars
    <2> SUFFICES ASSUME Inv, Next, answering, ~answering', ~Forgetful, restarts' = restarts
                 PROVE  wrong' = wrong + 1 \/ UNCHANGED vars
      OBVIOUS
    <2>1. CASE AnswerWrong
      BY <2>1 DEF AnswerWrong
    <2>2. ~Restart
      BY DEF Restart, Inv
    <2> QED BY <2>1, <2>2 DEF Inv, Next, Seal, Unlock, ClearRecord, TryWrong, Condemn,
            GiveKey, Empty, NotEmptied, Waiting
  <1> QED BY <1>1, VaultInv, PTL DEF Spec, AnsweredIsRecorded

\* Only MaxFails wrong PINs on record take a mnemonic away.
THEOREM MnemonicKept == Constants => (Spec => KeptBelowThreshold)
  <1> SUFFICES ASSUME Constants PROVE Spec => KeptBelowThreshold
    OBVIOUS
  <1> DEFINE Step == sealed # 0 /\ sealed' # sealed /\ ~Forgetful
                        => sealed' = 0 /\ wrong = MaxFails
  <1>1. Inv /\ [Next]_vars => [Step]_vars
    BY DEF Inv, Next, vars, Seal, Unlock, ClearRecord, TryWrong, AnswerWrong, Condemn,
           GiveKey, Empty, NotEmptied, Restart, Waiting
  <1> QED BY <1>1, VaultInv, PTL DEF Spec, KeptBelowThreshold
=============================================================================
