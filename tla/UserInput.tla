----------------------------- MODULE UserInput -----------------------------
(***************************************************************************)
(* The one button (main/user_input.c): user_input_wait, which the review   *)
(* of outputs calls, and user_input_collect_pin, which counts taps with    *)
(* wait_press_or_pause.  Both poll the pin between vTaskDelays and are the *)
(* same automaton but for the drain loop at the start of the first.  Only  *)
(* one of them runs at a time.                                             *)
(*                                                                         *)
(* The contacts bounce for less than a delay: a finger that moved late in  *)
(* the present delay makes every sample at its end read anything.  Between *)
(* two delays no time passes.  A finger moves at most once in a polling or *)
(* debounce delay and rests through the delay after a late move (25 taps   *)
(* per second are not human); in the longer delays it moves as it likes.   *)
(* Durations are counted in polls.                                         *)
(***************************************************************************)
EXTENDS LedStatus, Sequences

CONSTANTS WaitPolls,   \* timeout of user_input_wait, 120 s
          DigitPolls,  \* PIN_DIGIT_TIMEOUT_MS
          PausePolls,  \* PIN_DIGIT_PAUSE_MS
          HoldPolls,   \* LONG_PRESS_MS, PIN_CANCEL_HOLD_MS
          TapsMax,     \* PIN_TAPS_MAX
          PinLen       \* WALLET_PIN_LEN

ASSUME InputAssumption ==
    /\ WaitPolls \in Nat \ {0} /\ DigitPolls \in Nat \ {0}
    /\ PausePolls \in Nat \ {0} /\ HoldPolls \in Nat \ {0}
    /\ TapsMax \in Nat \ {0} /\ PinLen \in Nat \ {0}

VARIABLES
    finger,    \* on the button or not
    bouncing,  \* it moved so late in this delay that the contacts bounce
    still,     \* it does not move again in this delay
    unused,    \* no answer was taken from the latest press
    fresh,     \* a press began since the caller last put something on display
    asleep,    \* in vTaskDelay
    loc,       \* where the program stands, or what was returned
    limit, t,  \* pause_ms or timeout_ms; elapsed or held; blinks of the echo
    taps, pin  \* taps of this digit; digits collected

fingerVars == <<finger, unused, fresh>>
delayVars  == <<bouncing, still, asleep>>
pinVars    == <<taps, pin>>
inputVars  == <<fingerVars, delayVars, loc, limit, t, pinVars>>

Polling  == {"drain", "arm", "debounce", "hold", "swallow"}
Answers  == {"none", "short", "long"}
PinEnds  == {"ok", "cancelled", "timeout"}
LongDelay == loc \in {"rest", "show", "echo"}

InputTypeOK ==
    /\ finger \in {"up", "down"}
    /\ bouncing \in BOOLEAN /\ still \in BOOLEAN /\ asleep \in BOOLEAN
    /\ unused \in BOOLEAN /\ fresh \in BOOLEAN
    /\ loc \in Polling \cup Answers \cup PinEnds
               \cup {"rest", "next", "show", "digit", "echo"}
    /\ limit \in {WaitPolls, DigitPolls, PausePolls}
    /\ t \in Nat
    /\ taps \in 0..TapsMax
    /\ pin \in Seq(0..(TapsMax - 1)) /\ Len(pin) <= PinLen

InputInit ==
    /\ finger \in {"up", "down"} /\ unused = (finger = "down") /\ fresh = FALSE
    /\ bouncing = FALSE /\ still = FALSE /\ asleep = TRUE
    /\ loc = "rest" /\ limit = WaitPolls /\ t = 0 /\ taps = 0 /\ pin = <<>>

-----------------------------------------------------------------------------
(* The finger and the pin.                                                 *)

FingerMoves ==
    /\ asleep /\ ~bouncing /\ (still => LongDelay)
    /\ finger' = IF finger = "up" THEN "down" ELSE "up"
    /\ unused' = (unused \/ finger = "up") /\ fresh' = (fresh \/ finger = "up")
    /\ bouncing' \in BOOLEAN /\ still' = TRUE
    /\ UNCHANGED <<asleep, loc, limit, t, pinVars, ledVars>>

\* button_pressed()
Pressed  == finger = "down" \/ bouncing
Released == finger = "up" \/ bouncing

\* vTaskDelay
Sleep == asleep' = TRUE /\ bouncing' = FALSE /\ still' = bouncing
Go(l) == loc' = l /\ UNCHANGED delayVars

UserInputWait_NoDrain ==    \* mutant: a button still down is taken as a press
    loc' = "arm" /\ limit' = WaitPolls /\ t' = 0

\* The two calls.
UserInputWait == loc' = "drain" /\ limit' = WaitPolls /\ t' = 0
WaitPressOrPause(max) == loc' = "arm" /\ limit' = max /\ t' = 0

-----------------------------------------------------------------------------
(* The polling automaton of both.                                          *)

Wake_Forever ==    \* mutant: the arm loop does not look at the time
    /\ asleep /\ loc \in Polling
    /\ asleep' = FALSE
    /\ IF loc \in {"drain", "hold"}
       THEN /\ t' = t + 1
            /\ loc' = IF t' < (IF loc = "hold" THEN HoldPolls ELSE limit) THEN loc
                      ELSE IF loc = "hold" THEN "swallow" ELSE "none"
       ELSE UNCHANGED <<t, loc>>
    /\ UNCHANGED <<fingerVars, bouncing, still, limit, pinVars, ledVars>>

\* A delay of a polling loop is over: elapsed or held grows and is compared.
Wake ==
    /\ asleep /\ loc \in Polling
    /\ asleep' = FALSE
    /\ CASE loc \in {"drain", "arm"} ->
              t' = t + 1 /\ loc' = IF t + 1 >= limit THEN "none" ELSE loc
         [] loc = "hold" ->
              t' = t + 1 /\ loc' = IF t + 1 >= HoldPolls THEN "swallow" ELSE loc
         [] OTHER -> UNCHANGED <<t, loc>>
    /\ UNCHANGED <<fingerVars, bouncing, still, limit, pinVars, ledVars>>

\* while (button_pressed()) before the press is waited for
Drain ==
    /\ ~asleep /\ loc = "drain"
    /\ \/ Pressed /\ Sleep /\ UNCHANGED loc
       \/ Released /\ Go("arm")
    /\ UNCHANGED <<fingerVars, limit, t, pinVars, ledVars>>

\* while (!button_pressed())
Arm ==
    /\ ~asleep /\ loc = "arm"
    /\ Sleep
    /\ \/ Released /\ UNCHANGED loc
       \/ Pressed /\ loc' = "debounce"
    /\ UNCHANGED <<fingerVars, limit, t, pinVars, ledVars>>

Debounce_Trusting ==    \* mutant: the edge is not looked at again
    /\ ~asleep /\ loc = "debounce"
    /\ Go("hold") /\ t' = 0 /\ unused' = FALSE
    /\ UNCHANGED <<finger, fresh, limit, pinVars, ledVars>>

\* The press must have lasted.
Debounce ==
    /\ ~asleep /\ loc = "debounce"
    /\ \/ Released /\ Go("none") /\ UNCHANGED <<t, unused>>
       \/ Pressed /\ Go("hold") /\ t' = 0 /\ unused' = FALSE
    /\ UNCHANGED <<finger, fresh, limit, pinVars, ledVars>>

\* while (button_pressed()), a tap or a hold
Hold ==
    /\ ~asleep /\ loc = "hold"
    /\ \/ Pressed /\ Sleep /\ UNCHANGED loc
       \/ Released /\ Go("short")
    /\ UNCHANGED <<fingerVars, limit, t, pinVars, ledVars>>

\* The rest of the long press.
Swallow ==
    /\ ~asleep /\ loc = "swallow"
    /\ \/ Pressed /\ Sleep /\ UNCHANGED loc
       \/ Released /\ Go("long")
    /\ UNCHANGED <<fingerVars, limit, t, pinVars, ledVars>>

Poll == Wake \/ Drain \/ Arm \/ Debounce \/ Hold \/ Swallow

-----------------------------------------------------------------------------
(* user_input_collect_pin                                                  *)

\* Entry: pin_out is zeroed.
CollectPin == Go("digit") /\ pin' = <<>> /\ taps' = 0 /\ UNCHANGED <<limit, t>>

PinDigit ==
    /\ loc = "digit"
    /\ Show("AWAITING")
    /\ WaitPressOrPause(DigitPolls)
    /\ UNCHANGED <<fingerVars, delayVars, pinVars, ledTaskVars>>

PinTap_Unbounded ==    \* mutant: taps are counted beyond the last digit
    /\ loc = "short"
    /\ taps' = taps + 1
    /\ WaitPressOrPause(PausePolls)
    /\ UNCHANGED <<fingerVars, delayVars, pin, ledVars>>

PinTap ==
    /\ loc = "short"
    /\ taps' = IF taps < TapsMax THEN taps + 1 ELSE taps
    /\ WaitPressOrPause(PausePolls)
    /\ UNCHANGED <<fingerVars, delayVars, pin, ledVars>>

\* The pause ends a digit that has taps; the count is blinked back.
PinPause ==
    /\ loc = "none" /\ taps > 0
    /\ pin' = Append(pin, taps % TapsMax)
    /\ Show("BUSY")
    /\ loc' = "echo" /\ t' = 0 /\ Sleep
    /\ UNCHANGED <<fingerVars, limit, taps, ledTaskVars>>

PinEcho ==
    /\ loc = "echo"
    /\ IF t < 2 * taps
       THEN /\ Show(IF t % 2 = 0 THEN "READY" ELSE "BUSY")
            /\ t' = t + 1 /\ Sleep /\ UNCHANGED <<loc, taps>>
       ELSE /\ loc' = IF Len(pin) < PinLen THEN "digit" ELSE "ok"
            /\ asleep' = FALSE /\ UNCHANGED <<bouncing, still>>
            /\ t' = 0 /\ taps' = 0 /\ UNCHANGED cur
    /\ UNCHANGED <<fingerVars, limit, pin, ledTaskVars>>

\* Cancelled, or no tap: pin_out is zeroed.
PinAbandoned ==
    /\ \/ loc = "long" /\ Go("cancelled")
       \/ loc = "none" /\ taps = 0 /\ Go("timeout")
    /\ pin' = <<>> /\ taps' = 0
    /\ UNCHANGED <<fingerVars, limit, t, ledVars>>

PinStep == PinDigit \/ PinTap \/ PinPause \/ PinEcho \/ PinAbandoned
=============================================================================
