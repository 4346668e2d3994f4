----------------------------- MODULE LedStatus -----------------------------
(***************************************************************************)
(* The status LED (main/led_status.c): current_state, which any task may   *)
(* overwrite through led_status_set, and led_task, which every 20 ms reads *)
(* it and, once a SUCCESS or ERROR has flashed for 600 ms, writes back the *)
(* last state before it.  The read and the write-back are two steps: the   *)
(* other tasks that set the LED have a higher priority.  Colours and       *)
(* blinking are left out; BUSY is LED_STATE_BUSY_KEY or _SIGN, which look  *)
(* the same.                                                               *)
(***************************************************************************)
EXTENDS Naturals

CONSTANT FlashTicks    \* FLASH_MS / TICK_MS

ASSUME LedAssumption == FlashTicks \in Nat \ {0}

VARIABLES
    cur,    \* current_state
    ret,    \* return_state
    flash,  \* flash_state
    age,    \* tick - flash_start
    lpc     \* led_task is about to read current_state or to write it back

ledTaskVars == <<ret, flash, age, lpc>>
ledVars == <<cur, ledTaskVars>>

Flashing == {"SUCCESS", "ERROR"}
Steady   == {"OFF", "INITIALIZING", "READY", "CONNECTED", "BUSY",
             "TX_PROGRESS", "AWAITING"}

LedTypeOK ==
    /\ cur \in Steady \cup Flashing
    /\ ret \in Steady
    /\ flash \in Flashing \cup {"OFF"}
    /\ age \in 0..FlashTicks
    /\ lpc \in {"read", "write"}

LedInit == cur = "OFF" /\ ret = "READY" /\ flash = "OFF" /\ age = 0 /\ lpc = "read"

\* led_status_set
Show(s) == cur' = s

LedTick_Restarts ==    \* mutant: each tick starts the flash anew
    /\ lpc = "read"
    /\ IF cur \in Flashing
       THEN flash' = cur /\ age' = 0 /\ UNCHANGED <<ret, lpc>>
       ELSE ret' = cur /\ flash' = "OFF" /\ age' = 0 /\ UNCHANGED lpc
    /\ UNCHANGED cur

LedTick_Blind ==    \* mutant: a flash that is over is ended unseen what is set
    /\ lpc = "read"
    /\ IF flash # "OFF" /\ age + 1 = FlashTicks
       THEN flash' = "OFF" /\ age' = 0 /\ lpc' = "write" /\ UNCHANGED ret
       ELSE /\ flash' = IF cur \in Flashing THEN cur ELSE flash
            /\ age' = IF flash = "OFF" THEN 0 ELSE age + 1
            /\ ret' = IF cur \in Flashing THEN ret ELSE cur
            /\ UNCHANGED lpc
    /\ UNCHANGED cur

\* One turn of led_task, up to the write-back of a flash that is over.
LedTick ==
    /\ lpc = "read"
    /\ IF cur \in Flashing
       THEN LET elapsed == IF flash # cur THEN 0 ELSE age + 1 IN
            /\ IF elapsed < FlashTicks
               THEN flash' = cur /\ age' = elapsed /\ UNCHANGED lpc
               ELSE flash' = "OFF" /\ age' = 0 /\ lpc' = "write"
            /\ UNCHANGED ret
       ELSE ret' = cur /\ flash' = "OFF" /\ age' = 0 /\ UNCHANGED lpc
    /\ UNCHANGED cur

\* current_state = return_state
LedWriteBack ==
    /\ lpc = "write"
    /\ lpc' = "read" /\ Show(ret)
    /\ UNCHANGED <<ret, flash, age>>
=============================================================================
