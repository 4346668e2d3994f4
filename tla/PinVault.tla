------------------------------ MODULE PinVault ------------------------------
(***************************************************************************)
(* What the wallet at rest promises its owner, without NVS keys, parts or  *)
(* boot: one mnemonic behind a PIN, which is opened only while fewer than  *)
(* MaxFails wrong PINs are on record, and forgotten once they are.  Every  *)
(* wrong PIN that is answered goes on record; power may fail at any moment *)
(* and then hides the one being answered.  Keys are given out for the      *)
(* opened mnemonic only.                                                   *)
(*                                                                         *)
(* Forgetful is the promise of a storage that may refuse a write or come   *)
(* up empty: then a wrong PIN may go unrecorded and the mnemonic may go.   *)
(***************************************************************************)
EXTENDS Naturals

CONSTANTS Seeds,      \* mnemonics, named by positive numbers
          MaxFails,   \* wrong PINs the vault stands
          Forgetful

VARIABLES
    sealed,     \* the mnemonic behind the PIN, 0 if none
    wrong,      \* wrong PINs on record
    open,       \* the mnemonic in use, 0 while locked
    given,      \* whose key was given out last, 0 before
    answering,  \* a wrong PIN was tried and is not answered yet
    condemned,  \* the vault is about to be emptied
    restarts    \* how often power failed

vars == <<sealed, wrong, open, given, answering, condemned, restarts>>

Init ==
    /\ sealed = 0 /\ wrong = 0 /\ open = 0 /\ given = 0
    /\ answering = FALSE /\ condemned = FALSE /\ restarts = 0

Waiting == sealed # 0 /\ open = 0 /\ ~answering /\ ~condemned

Seal ==
    /\ sealed = 0 /\ open = 0
    /\ sealed' \in Seeds
    /\ UNCHANGED <<wrong, open, given, answering, condemned, restarts>>

\* The right PIN, or the end of the sealing.
Unlock ==
    /\ Waiting /\ wrong < MaxFails
    /\ open' = sealed
    /\ UNCHANGED <<sealed, wrong, given, answering, condemned, restarts>>

ClearRecord ==
    /\ open # 0 /\ wrong' = 0
    /\ UNCHANGED <<sealed, open, given, answering, condemned, restarts>>

TryWrong ==
    /\ Waiting /\ wrong < MaxFails
    /\ answering' = TRUE
    /\ UNCHANGED <<sealed, wrong, open, given, condemned, restarts>>

\* The threshold counts the wrong PIN whether or not it could be recorded.
AnswerWrong ==
    /\ answering /\ answering' = FALSE
    /\ wrong' \in {wrong + 1} \cup (IF Forgetful THEN {wrong} ELSE {})
    /\ condemned' = (wrong + 1 = MaxFails)
    /\ UNCHANGED <<sealed, open, given, restarts>>

\* The record is looked at before a PIN is asked for.
Condemn ==
    /\ Waiting /\ wrong = MaxFails
    /\ condemned' = TRUE
    /\ UNCHANGED <<sealed, wrong, open, given, answering, restarts>>

GiveKey ==
    /\ open # 0 /\ given' = open
    /\ UNCHANGED <<sealed, wrong, open, answering, condemned, restarts>>

\* Earned by the wrong PINs; a forgetful storage may also come up empty.
Empty ==
    /\ condemned \/ (Forgetful /\ open = 0 /\ ~answering)
    /\ sealed' = 0 /\ wrong' = 0 /\ open' = 0 /\ given' = 0
    /\ answering' = FALSE /\ condemned' = FALSE
    /\ UNCHANGED restarts

NotEmptied ==
    /\ condemned /\ Forgetful
    /\ condemned' = FALSE
    /\ UNCHANGED <<sealed, wrong, open, given, answering, restarts>>

\* Power is gone: the only way out of answering without a record.
Restart ==
    /\ restarts' = restarts + 1
    /\ open' = 0 /\ given' = 0 /\ answering' = FALSE /\ condemned' = FALSE
    /\ UNCHANGED <<sealed, wrong>>

Next ==
    \/ Seal \/ Unlock \/ ClearRecord \/ TryWrong \/ AnswerWrong \/ Condemn
    \/ GiveKey \/ Empty \/ NotEmptied \/ Restart

Spec == Init /\ [][Next]_vars

-----------------------------------------------------------------------------
\* The keys in use and given out are those of the sealed mnemonic.
OwnKeysOnly ==
    /\ open # 0 => open = sealed
    /\ given # 0 => given = open

\* A mnemonic is in use only below the threshold: with MaxFails wrong PINs on
\* record nothing opens it any more.
LockedAtThreshold == wrong = MaxFails => open = 0

\* A wrong PIN that is answered goes on record, unless power fails.
AnsweredIsRecorded ==
    [][answering /\ ~answering' /\ ~Forgetful /\ restarts' = restarts
          => wrong' = wrong + 1]_vars

\* Nothing takes a mnemonic away but the threshold, if the storage keeps what it
\* is given.
KeptBelowThreshold ==
    [][sealed # 0 /\ sealed' # sealed /\ ~Forgetful
          => sealed' = 0 /\ wrong = MaxFails]_vars
=============================================================================
