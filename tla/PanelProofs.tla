---------------------------- MODULE PanelProofs ----------------------------
(***************************************************************************)
(* What is proved of the button and the LED, for every timeout, hold time, *)
(* number of taps and PIN length: the types, the inductive invariant       *)
(* PanelInv, and from it that each answer is the user's own, that an       *)
(* output is confirmed by a fresh press, and that the LED asks for it.     *)
(***************************************************************************)
EXTENDS Panel, SequenceTheorems, TLAPS

\* Every task leaves the LED a state it knows.
LEMMA LedTypeStep ==
    ASSUME LedTypeOK, [Next]_vars
    PROVE  LedTypeOK'
<1> USE LedAssumption DEF LedTypeOK, Flashing, Steady, ledVars, ledTaskVars,
      Show, LedAssumption
<1>1. CASE FingerMoves /\ UNCHANGED panelVars
  BY <1>1 DEF FingerMoves
<1>2. CASE AppStarts
  BY <1>2 DEF AppStarts
<1>3. CASE AppAsksPin
  BY <1>3 DEF AppAsksPin, AskPin, CollectPin, FatalHalt, Rest, Go
<1>4. CASE PinStepOfApp /\ PinDigit
  BY <1>4 DEF PinDigit, WaitPressOrPause, PinStepOfApp
<1>5. CASE PinStepOfApp /\ PinTap
  BY <1>5 DEF PinTap, WaitPressOrPause, PinStepOfApp
<1>6. CASE PinStepOfApp /\ PinPause
  BY <1>6 DEF PinPause, Sleep, PinStepOfApp
<1>7. CASE PinStepOfApp /\ PinEcho
  BY <1>7 DEF PinEcho, Sleep, PinStepOfApp
<1>8. CASE PinStepOfApp /\ PinAbandoned
  BY <1>8 DEF PinAbandoned, Go, PinStepOfApp
<1>9. CASE PinEntered
  BY <1>9 DEF PinEntered, AskPin, CollectPin, FatalHalt, Rest, Go
<1>10. CASE PinGivenUp
  BY <1>10 DEF PinGivenUp, AskPin, CollectPin, FatalHalt, Rest, Go
<1>11. CASE DeviceReady
  BY <1>11 DEF DeviceReady
<1>12. CASE AppShowsReady
  BY <1>12 DEF AppShowsReady, HwpBlocked
<1>13. CASE MonitorShows
  BY <1>13 DEF MonitorShows, HwpBlocked
<1>14. CASE LedTask /\ LedTick
  BY <1>14 DEF LedTask, LedTick
<1>15. CASE LedTask /\ LedWriteBack
  BY <1>15 DEF LedTask, LedWriteBack
<1>16. CASE HwpShows
  BY <1>16 DEF HwpShows
<1>17. CASE HwpStartsWork
  BY <1>17 DEF HwpStartsWork
<1>18. CASE HwpEndsWork
  BY <1>18 DEF HwpEndsWork
<1>19. CASE ReviewBegins
  BY <1>19 DEF ReviewBegins
<1>20. CASE ShowOutput
  BY <1>20 DEF ShowOutput, Sleep
<1>21. CASE AskOutput
  BY <1>21 DEF AskOutput, UserInputWait
<1>22. CASE PollStep /\ Wake
  BY <1>22 DEF PollStep, Wake
<1>23. CASE PollStep /\ Drain
  BY <1>23 DEF PollStep, Drain, Pressed, Released, Sleep, Go
<1>24. CASE PollStep /\ Arm
  BY <1>24 DEF PollStep, Arm, Pressed, Released, Sleep
<1>25. CASE PollStep /\ Debounce
  BY <1>25 DEF PollStep, Debounce, Pressed, Released, Go
<1>26. CASE PollStep /\ Hold
  BY <1>26 DEF PollStep, Hold, Pressed, Released, Sleep, Go
<1>27. CASE PollStep /\ Swallow
  BY <1>27 DEF PollStep, Swallow, Pressed, Released, Sleep, Go
<1>28. CASE OutputConfirmed
  BY <1>28 DEF OutputConfirmed, Go
<1>29. CASE ReviewPassed
  BY <1>29 DEF ReviewPassed, ReviewEnds, Rest
<1>30. CASE ReviewRefused
  BY <1>30 DEF ReviewRefused, ReviewEnds, Rest
<1>31. CASE UNCHANGED vars
  BY <1>31 DEF vars
<1> QED
  BY <1>1, <1>2, <1>3, <1>4, <1>5, <1>6, <1>7, <1>8, <1>9, <1>10, <1>11,
     <1>12, <1>13, <1>14, <1>15, <1>16, <1>17, <1>18, <1>19, <1>20, <1>21,
     <1>22, <1>23, <1>24, <1>25, <1>26, <1>27, <1>28, <1>29, <1>30, <1>31
     DEF Next, App, Review, PollStep, Poll, PinStepOfApp, PinStep, LedTask

\* Who polls the button.
LEMMA CallStep ==
    ASSUME TypeOK, CallInv, [Next]_vars
    PROVE  CallInv'
<1> USE DEF TypeOK, InputTypeOK, CallInv, inputVars, fingerVars, delayVars,
      pinVars, panelVars, PinModes, PinEnds, Polling, Answers
<1>1. CASE FingerMoves /\ UNCHANGED panelVars
  BY <1>1 DEF FingerMoves
<1>2. CASE AppStarts
  BY <1>2 DEF AppStarts
<1>3. CASE AppAsksPin
  BY <1>3 DEF AppAsksPin, AskPin, CollectPin, FatalHalt, Rest, Go
<1>4. CASE PinStepOfApp /\ PinDigit
  BY <1>4 DEF PinDigit, WaitPressOrPause, PinStepOfApp
<1>5. CASE PinStepOfApp /\ PinTap
  BY <1>5 DEF PinTap, WaitPressOrPause, PinStepOfApp
<1>6. CASE PinStepOfApp /\ PinPause
  BY <1>6 DEF PinPause, Sleep, PinStepOfApp
<1>7. CASE PinStepOfApp /\ PinEcho
  BY <1>7 DEF PinEcho, Sleep, PinStepOfApp
<1>8. CASE PinStepOfApp /\ PinAbandoned
  BY <1>8 DEF PinAbandoned, Go, PinStepOfApp
<1>9. CASE PinEntered
  BY <1>9 DEF PinEntered, AskPin, CollectPin, FatalHalt, Rest, Go
<1>10. CASE PinGivenUp
  BY <1>10 DEF PinGivenUp, AskPin, CollectPin, FatalHalt, Rest, Go
<1>11. CASE DeviceReady
  BY <1>11 DEF DeviceReady
<1>12. CASE AppShowsReady
  BY <1>12 DEF AppShowsReady, HwpBlocked
<1>13. CASE MonitorShows
  BY <1>13 DEF MonitorShows, HwpBlocked
<1>14. CASE LedTask /\ LedTick
  BY <1>14 DEF LedTask, LedTick
<1>15. CASE LedTask /\ LedWriteBack
  BY <1>15 DEF LedTask, LedWriteBack
<1>16. CASE HwpShows
  BY <1>16 DEF HwpShows
<1>17. CASE HwpStartsWork
  BY <1>17 DEF HwpStartsWork
<1>18. CASE HwpEndsWork
  BY <1>18 DEF HwpEndsWork
<1>19. CASE ReviewBegins
  BY <1>19 DEF ReviewBegins
<1>20. CASE ShowOutput
  BY <1>20 DEF ShowOutput, Sleep
<1>21. CASE AskOutput
  BY <1>21 DEF AskOutput, UserInputWait
<1>22. CASE PollStep /\ Wake
  BY <1>22 DEF PollStep, Wake
<1>23. CASE PollStep /\ Drain
  BY <1>23 DEF PollStep, Drain, Pressed, Released, Sleep, Go
<1>24. CASE PollStep /\ Arm
  BY <1>24 DEF PollStep, Arm, Pressed, Released, Sleep
<1>25. CASE PollStep /\ Debounce
  BY <1>25 DEF PollStep, Debounce, Pressed, Released, Go
<1>26. CASE PollStep /\ Hold
  BY <1>26 DEF PollStep, Hold, Pressed, Released, Sleep, Go
<1>27. CASE PollStep /\ Swallow
  BY <1>27 DEF PollStep, Swallow, Pressed, Released, Sleep, Go
<1>28. CASE OutputConfirmed
  BY <1>28 DEF OutputConfirmed, Go
<1>29. CASE ReviewPassed
  BY <1>29 DEF ReviewPassed, ReviewEnds, Rest
<1>30. CASE ReviewRefused
  BY <1>30 DEF ReviewRefused, ReviewEnds, Rest
<1>31. CASE UNCHANGED vars
  BY <1>31 DEF vars
<1> QED
  BY <1>1, <1>2, <1>3, <1>4, <1>5, <1>6, <1>7, <1>8, <1>9, <1>10, <1>11,
     <1>12, <1>13, <1>14, <1>15, <1>16, <1>17, <1>18, <1>19, <1>20, <1>21,
     <1>22, <1>23, <1>24, <1>25, <1>26, <1>27, <1>28, <1>29, <1>30, <1>31
     DEF Next, App, Review, PollStep, Poll, PinStepOfApp, PinStep, LedTask

\* What the contacts and the latest press can look like.
LEMMA PressStep ==
    ASSUME TypeOK, CallInv, PressInv, [Next]_vars
    PROVE  PressInv'
<1> USE DEF TypeOK, InputTypeOK, CallInv, PinEnds, PressInv, inputVars,
      fingerVars, delayVars, pinVars, LongDelay, PinModes, Polling, Answers
<1>1. CASE FingerMoves /\ UNCHANGED panelVars
  BY <1>1 DEF FingerMoves
<1>2. CASE AppStarts
  BY <1>2 DEF AppStarts
<1>3. CASE AppAsksPin
  BY <1>3 DEF AppAsksPin, AskPin, CollectPin, FatalHalt, Rest, Go
<1>4. CASE PinStepOfApp /\ PinDigit
  BY <1>4 DEF PinDigit, WaitPressOrPause, PinStepOfApp
<1>5. CASE PinStepOfApp /\ PinTap
  BY <1>5 DEF PinTap, WaitPressOrPause, PinStepOfApp
<1>6. CASE PinStepOfApp /\ PinPause
  BY <1>6 DEF PinPause, Sleep, PinStepOfApp
<1>7. CASE PinStepOfApp /\ PinEcho
  BY <1>7 DEF PinEcho, Sleep, PinStepOfApp
<1>8. CASE PinStepOfApp /\ PinAbandoned
  BY <1>8 DEF PinAbandoned, Go, PinStepOfApp
<1>9. CASE PinEntered
  BY <1>9 DEF PinEntered, AskPin, CollectPin, FatalHalt, Rest, Go
<1>10. CASE PinGivenUp
  BY <1>10 DEF PinGivenUp, AskPin, CollectPin, FatalHalt, Rest, Go
<1>11. CASE DeviceReady
  BY <1>11 DEF DeviceReady
<1>12. CASE AppShowsReady
  BY <1>12 DEF AppShowsReady, HwpBlocked
<1>13. CASE MonitorShows
  BY <1>13 DEF MonitorShows, HwpBlocked
<1>14. CASE LedTask /\ LedTick
  BY <1>14 DEF LedTask, LedTick
<1>15. CASE LedTask /\ LedWriteBack
  BY <1>15 DEF LedTask, LedWriteBack
<1>16. CASE HwpShows
  BY <1>16 DEF HwpShows
<1>17. CASE HwpStartsWork
  BY <1>17 DEF HwpStartsWork
<1>18. CASE HwpEndsWork
  BY <1>18 DEF HwpEndsWork
<1>19. CASE ReviewBegins
  BY <1>19 DEF ReviewBegins
<1>20. CASE ShowOutput
  BY <1>20 DEF ShowOutput, Sleep
<1>21. CASE AskOutput
  BY <1>21 DEF AskOutput, UserInputWait
<1>22. CASE PollStep /\ Wake
  BY <1>22 DEF PollStep, Wake
<1>23. CASE PollStep /\ Drain
  BY <1>23 DEF PollStep, Drain, Pressed, Released, Sleep, Go
<1>24. CASE PollStep /\ Arm
  BY <1>24 DEF PollStep, Arm, Pressed, Released, Sleep
<1>25. CASE PollStep /\ Debounce
  BY <1>25 DEF PollStep, Debounce, Pressed, Released, Go
<1>26. CASE PollStep /\ Hold
  BY <1>26 DEF PollStep, Hold, Pressed, Released, Sleep, Go
<1>27. CASE PollStep /\ Swallow
  BY <1>27 DEF PollStep, Swallow, Pressed, Released, Sleep, Go
<1>28. CASE OutputConfirmed
  BY <1>28 DEF OutputConfirmed, Go
<1>29. CASE ReviewPassed
  BY <1>29 DEF ReviewPassed, ReviewEnds, Rest
<1>30. CASE ReviewRefused
  BY <1>30 DEF ReviewRefused, ReviewEnds, Rest
<1>31. CASE UNCHANGED vars
  BY <1>31 DEF vars
<1> QED
  BY <1>1, <1>2, <1>3, <1>4, <1>5, <1>6, <1>7, <1>8, <1>9, <1>10, <1>11,
     <1>12, <1>13, <1>14, <1>15, <1>16, <1>17, <1>18, <1>19, <1>20, <1>21,
     <1>22, <1>23, <1>24, <1>25, <1>26, <1>27, <1>28, <1>29, <1>30, <1>31
     DEF Next, App, Review, PollStep, Poll, PinStepOfApp, PinStep, LedTask

\* An output is asked for afresh.
LEMMA ReviewStep ==
    ASSUME TypeOK, PressInv, ReviewInv, [Next]_vars
    PROVE  ReviewInv'
<1> USE DEF TypeOK, InputTypeOK, PressInv, ReviewInv, inputVars, fingerVars,
      delayVars, pinVars, panelVars, ledVars, ledTaskVars, Show, LongDelay,
      PinModes, Polling, Flashing, Steady
<1>1. CASE FingerMoves /\ UNCHANGED panelVars
  BY <1>1 DEF FingerMoves
<1>2. CASE AppStarts
  BY <1>2 DEF AppStarts
<1>3. CASE AppAsksPin
  BY <1>3 DEF AppAsksPin, AskPin, CollectPin, FatalHalt, Rest, Go
<1>4. CASE PinStepOfApp /\ PinDigit
  BY <1>4 DEF PinDigit, WaitPressOrPause, PinStepOfApp
<1>5. CASE PinStepOfApp /\ PinTap
  BY <1>5 DEF PinTap, WaitPressOrPause, PinStepOfApp
<1>6. CASE PinStepOfApp /\ PinPause
  BY <1>6 DEF PinPause, Sleep, PinStepOfApp
<1>7. CASE PinStepOfApp /\ PinEcho
  BY <1>7 DEF PinEcho, Sleep, PinStepOfApp
<1>8. CASE PinStepOfApp /\ PinAbandoned
  BY <1>8 DEF PinAbandoned, Go, PinStepOfApp
<1>9. CASE PinEntered
  BY <1>9 DEF PinEntered, AskPin, CollectPin, FatalHalt, Rest, Go
<1>10. CASE PinGivenUp
  BY <1>10 DEF PinGivenUp, AskPin, CollectPin, FatalHalt, Rest, Go
<1>11. CASE DeviceReady
  BY <1>11 DEF DeviceReady
<1>12. CASE AppShowsReady
  BY <1>12 DEF AppShowsReady, HwpBlocked
<1>13. CASE MonitorShows
  BY <1>13 DEF MonitorShows, HwpBlocked
<1>14. CASE LedTask /\ LedTick
  BY <1>14 DEF LedTask, LedTick
<1>15. CASE LedTask /\ LedWriteBack
  BY <1>15 DEF LedTask, LedWriteBack
<1>16. CASE HwpShows
  BY <1>16 DEF HwpShows
<1>17. CASE HwpStartsWork
  BY <1>17 DEF HwpStartsWork
<1>18. CASE HwpEndsWork
  BY <1>18 DEF HwpEndsWork
<1>19. CASE ReviewBegins
  BY <1>19 DEF ReviewBegins
<1>20. CASE ShowOutput
  BY <1>20 DEF ShowOutput, Sleep
<1>21. CASE AskOutput
  BY <1>21 DEF AskOutput, UserInputWait
<1>22. CASE PollStep /\ Wake
  BY <1>22 DEF PollStep, Wake
<1>23. CASE PollStep /\ Drain
  BY <1>23 DEF PollStep, Drain, Pressed, Released, Sleep, Go
<1>24. CASE PollStep /\ Arm
  BY <1>24 DEF PollStep, Arm, Pressed, Released, Sleep
<1>25. CASE PollStep /\ Debounce
  BY <1>25 DEF PollStep, Debounce, Pressed, Released, Go
<1>26. CASE PollStep /\ Hold
  BY <1>26 DEF PollStep, Hold, Pressed, Released, Sleep, Go
<1>27. CASE PollStep /\ Swallow
  BY <1>27 DEF PollStep, Swallow, Pressed, Released, Sleep, Go
<1>28. CASE OutputConfirmed
  BY <1>28 DEF OutputConfirmed, Go
<1>29. CASE ReviewPassed
  BY <1>29 DEF ReviewPassed, ReviewEnds, Rest
<1>30. CASE ReviewRefused
  BY <1>30 DEF ReviewRefused, ReviewEnds, Rest
<1>31. CASE UNCHANGED vars
  BY <1>31 DEF vars
<1> QED
  BY <1>1, <1>2, <1>3, <1>4, <1>5, <1>6, <1>7, <1>8, <1>9, <1>10, <1>11,
     <1>12, <1>13, <1>14, <1>15, <1>16, <1>17, <1>18, <1>19, <1>20, <1>21,
     <1>22, <1>23, <1>24, <1>25, <1>26, <1>27, <1>28, <1>29, <1>30, <1>31
     DEF Next, App, Review, PollStep, Poll, PinStepOfApp, PinStep, LedTask

\* The counters of the loops.
LEMMA CountStep ==
    ASSUME TypeOK, CallInv, CountInv, [Next]_vars
    PROVE  CountInv'
<1> USE InputAssumption DEF TypeOK, InputTypeOK, CountInv, CallInv,
      inputVars, fingerVars, delayVars, pinVars, panelVars, PinModes,
      PinEnds, Polling, Answers, InputAssumption
<1>1. CASE FingerMoves /\ UNCHANGED panelVars
  BY <1>1 DEF FingerMoves
<1>2. CASE AppStarts
  BY <1>2 DEF AppStarts
<1>3. CASE AppAsksPin
  BY <1>3 DEF AppAsksPin, AskPin, CollectPin, FatalHalt, Rest, Go
<1>4. CASE PinStepOfApp /\ PinDigit
  BY <1>4 DEF PinDigit, WaitPressOrPause, PinStepOfApp
<1>5. CASE PinStepOfApp /\ PinTap
  BY <1>5 DEF PinTap, WaitPressOrPause, PinStepOfApp
<1>6. CASE PinStepOfApp /\ PinPause
  BY <1>6 DEF PinPause, Sleep, PinStepOfApp
<1>7. CASE PinStepOfApp /\ PinEcho
  BY <1>7 DEF PinEcho, Sleep, PinStepOfApp
<1>8. CASE PinStepOfApp /\ PinAbandoned
  BY <1>8 DEF PinAbandoned, Go, PinStepOfApp
<1>9. CASE PinEntered
  BY <1>9 DEF PinEntered, AskPin, CollectPin, FatalHalt, Rest, Go
<1>10. CASE PinGivenUp
  BY <1>10 DEF PinGivenUp, AskPin, CollectPin, FatalHalt, Rest, Go
<1>11. CASE DeviceReady
  BY <1>11 DEF DeviceReady
<1>12. CASE AppShowsReady
  BY <1>12 DEF AppShowsReady, HwpBlocked
<1>13. CASE MonitorShows
  BY <1>13 DEF MonitorShows, HwpBlocked
<1>14. CASE LedTask /\ LedTick
  BY <1>14 DEF LedTask, LedTick
<1>15. CASE LedTask /\ LedWriteBack
  BY <1>15 DEF LedTask, LedWriteBack
<1>16. CASE HwpShows
  BY <1>16 DEF HwpShows
<1>17. CASE HwpStartsWork
  BY <1>17 DEF HwpStartsWork
<1>18. CASE HwpEndsWork
  BY <1>18 DEF HwpEndsWork
<1>19. CASE ReviewBegins
  BY <1>19 DEF ReviewBegins
<1>20. CASE ShowOutput
  BY <1>20 DEF ShowOutput, Sleep
<1>21. CASE AskOutput
  BY <1>21 DEF AskOutput, UserInputWait
<1>22. CASE PollStep /\ Wake
  BY <1>22 DEF PollStep, Wake
<1>23. CASE PollStep /\ Drain
  BY <1>23 DEF PollStep, Drain, Pressed, Released, Sleep, Go
<1>24. CASE PollStep /\ Arm
  BY <1>24 DEF PollStep, Arm, Pressed, Released, Sleep
<1>25. CASE PollStep /\ Debounce
  BY <1>25 DEF PollStep, Debounce, Pressed, Released, Go
<1>26. CASE PollStep /\ Hold
  BY <1>26 DEF PollStep, Hold, Pressed, Released, Sleep, Go
<1>27. CASE PollStep /\ Swallow
  BY <1>27 DEF PollStep, Swallow, Pressed, Released, Sleep, Go
<1>28. CASE OutputConfirmed
  BY <1>28 DEF OutputConfirmed, Go
<1>29. CASE ReviewPassed
  BY <1>29 DEF ReviewPassed, ReviewEnds, Rest
<1>30. CASE ReviewRefused
  BY <1>30 DEF ReviewRefused, ReviewEnds, Rest
<1>31. CASE UNCHANGED vars
  BY <1>31 DEF vars
<1> QED
  BY <1>1, <1>2, <1>3, <1>4, <1>5, <1>6, <1>7, <1>8, <1>9, <1>10, <1>11,
     <1>12, <1>13, <1>14, <1>15, <1>16, <1>17, <1>18, <1>19, <1>20, <1>21,
     <1>22, <1>23, <1>24, <1>25, <1>26, <1>27, <1>28, <1>29, <1>30, <1>31
     DEF Next, App, Review, PollStep, Poll, PinStepOfApp, PinStep, LedTask

\* A halt leaves the button's variables well typed.
LEMMA FatalHaltInput ==
    ASSUME InputTypeOK, FatalHalt
    PROVE  InputTypeOK'
<1>1. <<>> \in Seq(0..(TapsMax - 1)) /\ Len(<<>>) = 0
  BY EmptySeq
<1>2. Len(pin') <= PinLen
  BY <1>1, InputAssumption DEF FatalHalt, InputAssumption
<1> QED
  BY <1>1, <1>2 DEF InputTypeOK, FatalHalt, Rest, fingerVars

\* So does the start of a PIN entry.
LEMMA AskPinInput ==
    ASSUME NEW m, InputTypeOK, AskPin(m)
    PROVE  InputTypeOK'
<1>1. <<>> \in Seq(0..(TapsMax - 1)) /\ Len(<<>>) = 0
  BY EmptySeq
<1>2. Len(pin') <= PinLen /\ taps' \in 0..TapsMax
  BY <1>1, InputAssumption DEF AskPin, CollectPin, InputAssumption
<1> QED
  BY <1>1, <1>2 DEF InputTypeOK, AskPin, CollectPin, Go, fingerVars, delayVars

\* The button's variables keep their types: no more taps are counted than mean
\* a digit, and no more digits are collected than the PIN has.
LEMMA InputTypeStep ==
    ASSUME TypeOK, CallInv, CountInv, [Next]_vars
    PROVE  InputTypeOK'
<1> USE InputAssumption DEF TypeOK, InputTypeOK, CallInv, CountInv,
      inputVars, fingerVars, delayVars, pinVars, panelVars, PinModes,
      PinEnds, Polling, Answers, InputAssumption
<1>1. CASE FingerMoves /\ UNCHANGED panelVars
  BY <1>1 DEF FingerMoves
<1>2. CASE AppStarts
  BY <1>2 DEF AppStarts
<1>3. CASE AppAsksPin
  BY <1>3, FatalHaltInput, AskPinInput DEF AppAsksPin
<1>4. CASE PinStepOfApp /\ PinDigit
  BY <1>4 DEF PinDigit, WaitPressOrPause, PinStepOfApp
<1>5. CASE PinStepOfApp /\ PinTap
  BY <1>5 DEF PinTap, WaitPressOrPause, PinStepOfApp
<1>6. CASE PinStepOfApp /\ PinPause
  <2>1. taps % TapsMax \in 0..(TapsMax - 1)
    BY SMT DEF PinStepOfApp
  <2>2. Len(pin) < PinLen /\ pin' = Append(pin, taps % TapsMax)
    BY <1>6 DEF PinPause, PinStepOfApp
  <2>3. pin' \in Seq(0..(TapsMax - 1)) /\ Len(pin') = Len(pin) + 1
    BY <2>1, <2>2, AppendProperties
  <2>4. Len(pin') <= PinLen
    BY <2>2, <2>3
  <2> QED
    BY <1>6, <2>3, <2>4 DEF PinPause, Sleep, PinStepOfApp
<1>7. CASE PinStepOfApp /\ PinEcho
  <2>1. t' \in Nat /\ taps' \in 0..TapsMax
    BY <1>7 DEF PinEcho, PinStepOfApp
  <2>2. loc' \in {"echo", "digit", "ok"} /\ asleep' \in BOOLEAN
    BY <1>7 DEF PinEcho, Sleep, PinStepOfApp
  <2>3. bouncing' \in BOOLEAN /\ still' \in BOOLEAN
    BY <1>7 DEF PinEcho, Sleep, PinStepOfApp
  <2> QED
    BY <1>7, <2>1, <2>2, <2>3 DEF PinEcho, PinStepOfApp
<1>8. CASE PinStepOfApp /\ PinAbandoned
  BY <1>8 DEF PinAbandoned, Go, PinStepOfApp
<1>9. CASE PinEntered
  <2>1. CASE mode' = "booted" /\ Rest /\ pin' = <<>>
             /\ UNCHANGED <<fingerVars, limit, taps>>
    <3>1. <<>> \in Seq(0..(TapsMax - 1)) /\ Len(<<>>) = 0
      BY EmptySeq
    <3> QED
      BY <2>1, <3>1 DEF Rest
  <2> QED
    BY <1>9, <2>1, FatalHaltInput, AskPinInput DEF PinEntered
<1>10. CASE PinGivenUp
  BY <1>10, FatalHaltInput, AskPinInput DEF PinGivenUp
<1>11. CASE DeviceReady
  BY <1>11 DEF DeviceReady
<1>12. CASE AppShowsReady
  BY <1>12 DEF AppShowsReady, HwpBlocked
<1>13. CASE MonitorShows
  BY <1>13 DEF MonitorShows, HwpBlocked
<1>14. CASE LedTask /\ LedTick
  BY <1>14 DEF LedTask, LedTick
<1>15. CASE LedTask /\ LedWriteBack
  BY <1>15 DEF LedTask, LedWriteBack
<1>16. CASE HwpShows
  BY <1>16 DEF HwpShows
<1>17. CASE HwpStartsWork
  BY <1>17 DEF HwpStartsWork
<1>18. CASE HwpEndsWork
  BY <1>18 DEF HwpEndsWork
<1>19. CASE ReviewBegins
  BY <1>19 DEF ReviewBegins
<1>20. CASE ShowOutput
  BY <1>20 DEF ShowOutput, Sleep
<1>21. CASE AskOutput
  BY <1>21 DEF AskOutput, UserInputWait
<1>22. CASE PollStep /\ Wake
  <2>1. t' \in Nat /\ loc' \in Polling \cup {"none"}
    BY <1>22 DEF PollStep, Wake
  <2> QED
    BY <1>22, <2>1 DEF PollStep, Wake
<1>23. CASE PollStep /\ Drain
  BY <1>23 DEF PollStep, Drain, Pressed, Released, Sleep, Go
<1>24. CASE PollStep /\ Arm
  BY <1>24 DEF PollStep, Arm, Pressed, Released, Sleep
<1>25. CASE PollStep /\ Debounce
  <2>1. t' \in Nat /\ loc' \in {"none", "hold"}
    BY <1>25 DEF PollStep, Debounce, Go
  <2>2. unused' \in BOOLEAN
    BY <1>25 DEF PollStep, Debounce
  <2> QED
    BY <1>25, <2>1, <2>2 DEF PollStep, Debounce, Go
<1>26. CASE PollStep /\ Hold
  BY <1>26 DEF PollStep, Hold, Pressed, Released, Sleep, Go
<1>27. CASE PollStep /\ Swallow
  BY <1>27 DEF PollStep, Swallow, Pressed, Released, Sleep, Go
<1>28. CASE OutputConfirmed
  BY <1>28 DEF OutputConfirmed, Go
<1>29. CASE ReviewPassed
  BY <1>29 DEF ReviewPassed, ReviewEnds, Rest
<1>30. CASE ReviewRefused
  BY <1>30 DEF ReviewRefused, ReviewEnds, Rest
<1>31. CASE UNCHANGED vars
  BY <1>31 DEF vars
<1> QED
  BY <1>1, <1>2, <1>3, <1>4, <1>5, <1>6, <1>7, <1>8, <1>9, <1>10, <1>11,
     <1>12, <1>13, <1>14, <1>15, <1>16, <1>17, <1>18, <1>19, <1>20, <1>21,
     <1>22, <1>23, <1>24, <1>25, <1>26, <1>27, <1>28, <1>29, <1>30, <1>31
     DEF Next, App, Review, PollStep, Poll, PinStepOfApp, PinStep, LedTask

\* The tasks' own variables keep their types.
LEMMA PanelTypeStep ==
    ASSUME TypeOK, [Next]_vars
    PROVE  (mode \in PinModes
              \cup {"off", "boot", "booted", "halt", "idle", "busy", "review"}
            /\ ready \in BOOLEAN /\ late \in BOOLEAN /\ calm \in BOOLEAN)'
<1> USE DEF TypeOK, LedTypeOK, panelVars, PinModes
<1>1. CASE FingerMoves /\ UNCHANGED panelVars
  BY <1>1 DEF FingerMoves
<1>2. CASE AppStarts
  BY <1>2 DEF AppStarts
<1>3. CASE AppAsksPin
  BY <1>3 DEF AppAsksPin, AskPin, CollectPin, FatalHalt, Rest, Go
<1>4. CASE PinStepOfApp /\ PinDigit
  BY <1>4 DEF PinDigit, WaitPressOrPause, PinStepOfApp
<1>5. CASE PinStepOfApp /\ PinTap
  BY <1>5 DEF PinTap, WaitPressOrPause, PinStepOfApp
<1>6. CASE PinStepOfApp /\ PinPause
  BY <1>6 DEF PinPause, Sleep, PinStepOfApp
<1>7. CASE PinStepOfApp /\ PinEcho
  BY <1>7 DEF PinEcho, Sleep, PinStepOfApp
<1>8. CASE PinStepOfApp /\ PinAbandoned
  BY <1>8 DEF PinAbandoned, Go, PinStepOfApp
<1>9. CASE PinEntered
  BY <1>9 DEF PinEntered, AskPin, CollectPin, FatalHalt, Rest, Go
<1>10. CASE PinGivenUp
  BY <1>10 DEF PinGivenUp, AskPin, CollectPin, FatalHalt, Rest, Go
<1>11. CASE DeviceReady
  BY <1>11 DEF DeviceReady
<1>12. CASE AppShowsReady
  BY <1>12 DEF AppShowsReady, HwpBlocked
<1>13. CASE MonitorShows
  BY <1>13 DEF MonitorShows, HwpBlocked
<1>14. CASE LedTask /\ LedTick
  BY <1>14 DEF LedTask, LedTick
<1>15. CASE LedTask /\ LedWriteBack
  BY <1>15 DEF LedTask, LedWriteBack
<1>16. CASE HwpShows
  BY <1>16 DEF HwpShows
<1>17. CASE HwpStartsWork
  BY <1>17 DEF HwpStartsWork
<1>18. CASE HwpEndsWork
  BY <1>18 DEF HwpEndsWork
<1>19. CASE ReviewBegins
  BY <1>19 DEF ReviewBegins
<1>20. CASE ShowOutput
  BY <1>20 DEF ShowOutput, Sleep
<1>21. CASE AskOutput
  BY <1>21 DEF AskOutput, UserInputWait
<1>22. CASE PollStep /\ Wake
  BY <1>22 DEF PollStep, Wake
<1>23. CASE PollStep /\ Drain
  BY <1>23 DEF PollStep, Drain, Pressed, Released, Sleep, Go
<1>24. CASE PollStep /\ Arm
  BY <1>24 DEF PollStep, Arm, Pressed, Released, Sleep
<1>25. CASE PollStep /\ Debounce
  BY <1>25 DEF PollStep, Debounce, Pressed, Released, Go
<1>26. CASE PollStep /\ Hold
  BY <1>26 DEF PollStep, Hold, Pressed, Released, Sleep, Go
<1>27. CASE PollStep /\ Swallow
  BY <1>27 DEF PollStep, Swallow, Pressed, Released, Sleep, Go
<1>28. CASE OutputConfirmed
  BY <1>28 DEF OutputConfirmed, Go
<1>29. CASE ReviewPassed
  BY <1>29 DEF ReviewPassed, ReviewEnds, Rest
<1>30. CASE ReviewRefused
  BY <1>30 DEF ReviewRefused, ReviewEnds, Rest
<1>31. CASE UNCHANGED vars
  BY <1>31 DEF vars
<1> QED
  BY <1>1, <1>2, <1>3, <1>4, <1>5, <1>6, <1>7, <1>8, <1>9, <1>10, <1>11,
     <1>12, <1>13, <1>14, <1>15, <1>16, <1>17, <1>18, <1>19, <1>20, <1>21,
     <1>22, <1>23, <1>24, <1>25, <1>26, <1>27, <1>28, <1>29, <1>30, <1>31
     DEF Next, App, Review, PollStep, Poll, PinStepOfApp, PinStep, LedTask

\* A press is taken for an answer once.
LEMMA AnswerStep ==
    ASSUME TypeOK, CallInv, PressInv, [Next]_vars
    PROVE  (loc # "hold" /\ loc' = "hold" => unused)
<1> USE DEF TypeOK, InputTypeOK, CallInv, PressInv, inputVars, fingerVars,
      delayVars, pinVars, panelVars, PinModes, PinEnds, Polling, Answers
<1>1. CASE FingerMoves /\ UNCHANGED panelVars
  BY <1>1 DEF FingerMoves
<1>2. CASE AppStarts
  BY <1>2 DEF AppStarts
<1>3. CASE AppAsksPin
  BY <1>3 DEF AppAsksPin, AskPin, CollectPin, FatalHalt, Rest, Go
<1>4. CASE PinStepOfApp /\ PinDigit
  BY <1>4 DEF PinDigit, WaitPressOrPause, PinStepOfApp
<1>5. CASE PinStepOfApp /\ PinTap
  BY <1>5 DEF PinTap, WaitPressOrPause, PinStepOfApp
<1>6. CASE PinStepOfApp /\ PinPause
  BY <1>6 DEF PinPause, Sleep, PinStepOfApp
<1>7. CASE PinStepOfApp /\ PinEcho
  BY <1>7 DEF PinEcho, Sleep, PinStepOfApp
<1>8. CASE PinStepOfApp /\ PinAbandoned
  BY <1>8 DEF PinAbandoned, Go, PinStepOfApp
<1>9. CASE PinEntered
  BY <1>9 DEF PinEntered, AskPin, CollectPin, FatalHalt, Rest, Go
<1>10. CASE PinGivenUp
  BY <1>10 DEF PinGivenUp, AskPin, CollectPin, FatalHalt, Rest, Go
<1>11. CASE DeviceReady
  BY <1>11 DEF DeviceReady
<1>12. CASE AppShowsReady
  BY <1>12 DEF AppShowsReady, HwpBlocked
<1>13. CASE MonitorShows
  BY <1>13 DEF MonitorShows, HwpBlocked
<1>14. CASE LedTask /\ LedTick
  BY <1>14 DEF LedTask, LedTick
<1>15. CASE LedTask /\ LedWriteBack
  BY <1>15 DEF LedTask, LedWriteBack
<1>16. CASE HwpShows
  BY <1>16 DEF HwpShows
<1>17. CASE HwpStartsWork
  BY <1>17 DEF HwpStartsWork
<1>18. CASE HwpEndsWork
  BY <1>18 DEF HwpEndsWork
<1>19. CASE ReviewBegins
  BY <1>19 DEF ReviewBegins
<1>20. CASE ShowOutput
  BY <1>20 DEF ShowOutput, Sleep
<1>21. CASE AskOutput
  BY <1>21 DEF AskOutput, UserInputWait
<1>22. CASE PollStep /\ Wake
  BY <1>22 DEF PollStep, Wake
<1>23. CASE PollStep /\ Drain
  BY <1>23 DEF PollStep, Drain, Pressed, Released, Sleep, Go
<1>24. CASE PollStep /\ Arm
  BY <1>24 DEF PollStep, Arm, Pressed, Released, Sleep
<1>25. CASE PollStep /\ Debounce
  BY <1>25 DEF PollStep, Debounce, Pressed, Released, Go
<1>26. CASE PollStep /\ Hold
  BY <1>26 DEF PollStep, Hold, Pressed, Released, Sleep, Go
<1>27. CASE PollStep /\ Swallow
  BY <1>27 DEF PollStep, Swallow, Pressed, Released, Sleep, Go
<1>28. CASE OutputConfirmed
  BY <1>28 DEF OutputConfirmed, Go
<1>29. CASE ReviewPassed
  BY <1>29 DEF ReviewPassed, ReviewEnds, Rest
<1>30. CASE ReviewRefused
  BY <1>30 DEF ReviewRefused, ReviewEnds, Rest
<1>31. CASE UNCHANGED vars
  BY <1>31 DEF vars
<1> QED
  BY <1>1, <1>2, <1>3, <1>4, <1>5, <1>6, <1>7, <1>8, <1>9, <1>10, <1>11,
     <1>12, <1>13, <1>14, <1>15, <1>16, <1>17, <1>18, <1>19, <1>20, <1>21,
     <1>22, <1>23, <1>24, <1>25, <1>26, <1>27, <1>28, <1>29, <1>30, <1>31
     DEF Next, App, Review, PollStep, Poll, PinStepOfApp, PinStep, LedTask

\* The start.
LEMMA InitInv == Init => TypeOK /\ PanelInv
<1> SUFFICES ASSUME Init PROVE TypeOK /\ PanelInv
  OBVIOUS
<1> USE DEF Init, LedInit, InputInit
<1>1. <<>> \in Seq(0..(TapsMax - 1)) /\ Len(<<>>) = 0
  BY EmptySeq
<1>2. LedTypeOK
  BY LedAssumption DEF LedAssumption, LedTypeOK, Steady, Flashing
<1>3. unused \in BOOLEAN
  BY Zenon
<1>4. InputTypeOK
  <2>1. bouncing \in BOOLEAN /\ still \in BOOLEAN /\ asleep \in BOOLEAN
        /\ fresh \in BOOLEAN
    OBVIOUS
  <2>2. limit \in {WaitPolls, DigitPolls, PausePolls} /\ t \in Nat
        /\ taps \in 0..TapsMax
    BY InputAssumption DEF InputAssumption
  <2>3. pin \in Seq(0..(TapsMax - 1)) /\ Len(pin) <= PinLen
    BY <1>1, InputAssumption DEF InputAssumption
  <2> QED
    BY <1>3, <2>1, <2>2, <2>3 DEF InputTypeOK
<1>5. TypeOK
  BY <1>2, <1>4 DEF TypeOK
<1>6. CallInv /\ PressInv /\ ReviewInv /\ CountInv
  BY DEF CallInv, PressInv, ReviewInv, CountInv, PinModes
<1> QED
  BY <1>5, <1>6 DEF PanelInv

\* Every state the device can be in is well typed and satisfies PanelInv,
\* whatever the finger does and whichever tasks set the LED.
THEOREM PanelInvariant == Spec => [](TypeOK /\ PanelInv)
<1>1. Init => TypeOK /\ PanelInv
  BY InitInv
<1>2. TypeOK /\ PanelInv /\ [Next]_vars => (TypeOK /\ PanelInv)'
  <2> SUFFICES ASSUME TypeOK, PanelInv, [Next]_vars PROVE (TypeOK
  /\ PanelInv)'
    OBVIOUS
  <2>1. LedTypeOK'
    BY LedTypeStep DEF TypeOK
  <2>2. InputTypeOK'
    BY InputTypeStep DEF PanelInv
  <2>3. TypeOK'
    BY <2>1, <2>2, PanelTypeStep DEF TypeOK
  <2>4. CallInv' /\ PressInv' /\ CountInv'
    BY CallStep, PressStep, CountStep DEF PanelInv
  <2>5. ReviewInv'
    BY ReviewStep DEF PanelInv
  <2> QED
    BY <2>3, <2>4, <2>5 DEF PanelInv
<1> QED
  BY <1>1, <1>2, PTL DEF Spec

\* Every variable keeps its type (led_status.c, user_input.c, main.c).
THEOREM TypeCorrect == Spec => []TypeOK
  BY PanelInvariant, PTL

\* No output is confirmed by a press that began before it was displayed (main.c
\* run_per_output_confirmation, user_input.c user_input_wait).
THEOREM ConfirmsFresh == Spec => []FreshConfirm
<1>1. TypeOK /\ PanelInv => FreshConfirm
  BY DEF PanelInv, ReviewInv, FreshConfirm
<1> QED
  BY <1>1, PanelInvariant, PTL

\* The LED asks for the button as long as no other task sets it (main.c
\* run_per_output_confirmation, led_status.c led_task).
THEOREM LedAsks == Spec => []AwaitingShown
<1>1. TypeOK /\ PanelInv => AwaitingShown
  BY DEF PanelInv, ReviewInv, AwaitingShown
<1> QED
  BY <1>1, PanelInvariant, PTL

\* No press answers twice (user_input.c).
THEOREM OneTapAPress == Spec => EachPressOneTap
<1>1. TypeOK /\ PanelInv /\ [Next]_vars
         => [loc # "hold" /\ loc' = "hold" => unused]_vars
  <2> SUFFICES ASSUME TypeOK, PanelInv, [Next]_vars
               PROVE  [loc # "hold" /\ loc' = "hold" => unused]_vars
    OBVIOUS
  <2> QED
    BY AnswerStep DEF PanelInv
<1> QED
  BY <1>1, PanelInvariant, PTL DEF Spec, EachPressOneTap

=============================================================================
