------------------------------- MODULE Panel -------------------------------
(***************************************************************************)
(* The user's side of the firmware: the button (UserInput) and the LED     *)
(* (LedStatus) under the tasks of main/main.c that use them.  app_main     *)
(* asks for the PIN; hwp_task waits for device_ready, shows what it does   *)
(* on the LED and asks for each output of a transaction; usb_monitor_task  *)
(* shows hosts that come and go; led_task runs beside them.  hwp_task has  *)
(* the highest priority: the others run where it blocks.  What the signer  *)
(* and the wallet answer is left open here (HwpSession, WalletVault).      *)
(***************************************************************************)
EXTENDS UserInput

VARIABLES
    mode,   \* what app_main, then hwp_task, is doing
    ready,  \* device_ready
    late,   \* app_main has still to set the LED to READY
    calm    \* in this review no other task has set the LED or was about to

panelVars == <<mode, ready, late, calm>>
vars == <<ledVars, inputVars, panelVars>>

PinModes == {"provision", "unlock"}

TypeOK ==
    /\ LedTypeOK /\ InputTypeOK
    /\ mode \in PinModes \cup {"off", "boot", "booted", "halt",
                               "idle", "busy", "review"}
    /\ ready \in BOOLEAN /\ late \in BOOLEAN /\ calm \in BOOLEAN

Init ==
    /\ LedInit /\ InputInit
    /\ mode = "off" /\ ready = FALSE /\ late = FALSE /\ calm = FALSE

\* hwp_task is blocked, so that others run.
HwpBlocked == mode = "review" => asleep

-----------------------------------------------------------------------------
(* app_main                                                                *)

\* No call is under way.
Rest == loc' = "rest" /\ t' = 0 /\ asleep' = TRUE /\ UNCHANGED <<bouncing, still>>

AppStarts ==
    /\ mode = "off" /\ mode' = "boot"
    /\ Show("INITIALIZING")
    /\ UNCHANGED <<ledTaskVars, inputVars, ready, late, calm>>

FatalHalt ==
    /\ mode' = "halt"
    /\ Show("ERROR") /\ Rest /\ pin' = <<>>
    /\ UNCHANGED <<ledTaskVars, fingerVars, limit, taps, ready, late, calm>>

AskPin(m) ==
    /\ mode' = m
    /\ CollectPin
    /\ UNCHANGED <<ledVars, fingerVars, ready, late, calm>>

AppAsksPin ==
    /\ mode = "boot"
    /\ \/ AskPin("provision") \/ AskPin("unlock")
       \/ FatalHalt

PinStepOfApp == mode \in PinModes /\ PinStep /\ UNCHANGED panelVars

\* The PIN is sealed with, or right, or wrong, or wrong once too often, and the
\* caller's copy is zeroed.
PinEntered ==
    /\ mode \in PinModes /\ loc = "ok"
    /\ \/ /\ mode' = "booted" /\ Rest /\ pin' = <<>>
          /\ UNCHANGED <<ledVars, fingerVars, limit, taps, ready, late, calm>>
       \/ mode = "unlock" /\ AskPin("unlock")
       \/ FatalHalt

PinGivenUp ==
    /\ mode \in PinModes /\ loc \in {"cancelled", "timeout"}
    /\ IF mode = "provision" THEN FatalHalt ELSE AskPin("unlock")

DeviceReady ==
    /\ mode = "booted" /\ mode' = "idle"
    /\ ready' = TRUE /\ late' = TRUE
    /\ UNCHANGED <<ledVars, inputVars, calm>>

AppShowsReady ==
    /\ late /\ HwpBlocked
    /\ late' = FALSE /\ calm' = FALSE
    /\ Show("READY")
    /\ UNCHANGED <<ledTaskVars, inputVars, mode, ready>>

-----------------------------------------------------------------------------
(* usb_monitor_task and led_task                                           *)

MonitorShows ==
    /\ ready /\ HwpBlocked
    /\ calm' = FALSE
    /\ \E s \in {"CONNECTED", "READY"} : Show(s)
    /\ UNCHANGED <<ledTaskVars, inputVars, mode, ready, late>>

LedTask ==
    /\ HwpBlocked
    /\ LedTick \/ LedWriteBack
    /\ UNCHANGED <<inputVars, panelVars>>

-----------------------------------------------------------------------------
(* hwp_task                                                                *)

\* An error, the metadata of a transaction, an ABORT.
HwpShows ==
    /\ mode = "idle"
    /\ \E s \in {"ERROR", "TX_PROGRESS", "CONNECTED"} : Show(s)
    /\ UNCHANGED <<ledTaskVars, inputVars, panelVars>>

\* FVK_REQ or SIGN_REQ
HwpStartsWork ==
    /\ mode = "idle" /\ mode' = "busy"
    /\ Show("BUSY")
    /\ UNCHANGED <<ledTaskVars, inputVars, ready, late, calm>>

HwpEndsWork ==
    /\ mode = "busy" /\ mode' = "idle"
    /\ \E s \in Flashing : Show(s)
    /\ UNCHANGED <<ledTaskVars, inputVars, ready, late, calm>>

\* run_per_output_confirmation
ReviewBegins ==
    /\ mode = "idle" /\ mode' = "review"
    /\ Show("AWAITING") /\ calm' = (lpc = "read")
    /\ loc' = "next" /\ asleep' = FALSE
    /\ UNCHANGED <<ledTaskVars, fingerVars, bouncing, still, limit, t, pinVars,
                   ready, late>>

ShowOutput ==
    /\ mode = "review" /\ loc = "next"
    /\ fresh' = FALSE
    /\ loc' = "show" /\ Sleep
    /\ UNCHANGED <<ledVars, finger, unused, limit, t, pinVars, panelVars>>

\* log_drain_delay is over.
AskOutput ==
    /\ mode = "review" /\ loc = "show" /\ asleep
    /\ asleep' = FALSE /\ UserInputWait
    /\ UNCHANGED <<ledVars, fingerVars, bouncing, still, pinVars, panelVars>>

PollStep ==
    /\ mode \in PinModes \cup {"review"}
    /\ Poll
    /\ UNCHANGED panelVars

OutputConfirmed ==
    /\ mode = "review" /\ loc = "short"
    /\ Go("next")
    /\ UNCHANGED <<ledVars, fingerVars, limit, t, pinVars, panelVars>>

ReviewEnds(s) ==
    /\ mode' = "idle" /\ calm' = FALSE
    /\ Show(s) /\ Rest
    /\ UNCHANGED <<ledTaskVars, fingerVars, limit, pinVars, ready, late>>

ReviewPassed == mode = "review" /\ loc = "next" /\ ReviewEnds("TX_PROGRESS")

\* Cancelled, timed out, or the output cannot be displayed or confirmed.
ReviewRefused ==
    /\ mode = "review" /\ loc \in {"long", "none", "next"}
    /\ ReviewEnds("ERROR")

-----------------------------------------------------------------------------
App    == AppStarts \/ AppAsksPin \/ PinStepOfApp \/ PinEntered \/ PinGivenUp
          \/ DeviceReady
Review == ShowOutput \/ AskOutput \/ PollStep \/ OutputConfirmed
          \/ ReviewPassed \/ ReviewRefused

Next ==
    \/ FingerMoves /\ UNCHANGED panelVars
    \/ App \/ AppShowsReady \/ MonitorShows \/ LedTask
    \/ HwpShows \/ HwpStartsWork \/ HwpEndsWork \/ ReviewBegins \/ Review

Spec == Init /\ [][Next]_vars

\* led_task and the tasks that poll the button are never starved for good.
FairSpec == Spec /\ WF_vars(LedTask) /\ WF_vars(PollStep \/ AskOutput)

-----------------------------------------------------------------------------
\* An answer is never taken twice from one press, however the contacts bounce
\* (user_input.c wait_press_or_pause, user_input_wait).
EachPressOneTap == [][loc # "hold" /\ loc' = "hold" => unused]_vars

\* An output is confirmed only by a press that began after it was displayed,
\* not by one held since, nor by the bounces of its release (main.c
\* run_per_output_confirmation, user_input.c user_input_wait).
FreshConfirm == mode = "review" /\ loc \in {"hold", "short"} => fresh

\* While outputs are reviewed the LED asks for the button, whatever was flashing
\* when the review began, unless another task has set it since, or led_task was
\* just about to (main.c run_per_output_confirmation, led_status.c led_task).
AwaitingShown == mode = "review" /\ calm => cur = "AWAITING"

\* The button is polled by app_main for the PIN, by hwp_task for the review, and
\* by neither elsewhere.
CallInv ==
    CASE mode \in PinModes ->
           loc \in Polling \cup Answers \cup PinEnds \cup {"digit", "echo"}
      [] mode = "review" -> loc \in Polling \cup Answers \cup {"next", "show"}
      [] OTHER -> loc = "rest"

\* What the debouncing rests on: an edge that was only a bounce is followed by a
\* delay in which the finger rests; a press that was answered stays on the button
\* in the loops that wait for its release and nowhere else.
PressInv ==
    /\ bouncing => still
    /\ loc = "debounce" => IF finger = "up" THEN still ELSE ~bouncing
    /\ ~unused => \/ finger = "up" /\ (loc = "debounce" => ~bouncing)
                  \/ loc \in {"hold", "swallow"} /\ ~bouncing

\* A finger on the button since before the output was displayed must leave it
\* before the press is waited for.
ReviewInv ==
    mode = "review" =>
        /\ ~fresh /\ loc # "next" /\ bouncing => finger = "up"
        /\ ~fresh /\ loc \in {"arm", "debounce"} => finger = "up"
        /\ ~fresh /\ loc = "debounce" => ~bouncing
        /\ loc \in {"hold", "short"} => fresh
        /\ calm => cur = "AWAITING" /\ lpc = "read"

\* Counters stay below what ends their loops.
CountInv ==
    /\ loc \in {"drain", "arm"} => t < limit
    /\ loc = "hold" => t < HoldPolls
    /\ mode \in PinModes /\ loc \notin {"echo", "ok"} => Len(pin) < PinLen

\* Why each answer is the user's own and recent, and the LED asks for it:
\* together they are inductive (user_input.c, main.c, led_status.c; see
\* PanelProofs).
PanelInv == CallInv /\ PressInv /\ ReviewInv /\ CountInv

\* A wait for the button ends once the finger stays off it: by its timeout, if
\* nothing was pressed (user_input.c).
PromptEnds ==
    <>[](finger = "up") =>
        \A l \in Polling : loc = l ~> loc \in Answers

\* A flash gives way to something steady (led_status.c led_task).
FlashEnds == cur \in Flashing ~> cur \in Steady

\* "0  pause elapsed without any press": a digit ends when the pause is over,
\* not at an edge of the button (user_input.c wait_press_or_pause).
DigitEndedByPause ==
    [][loc # "none" /\ loc' = "none" /\ taps > 0 /\ mode \in PinModes
          => loc = "arm"]_vars
=============================================================================
