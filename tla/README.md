# Verification of the Zcash Orchard hardware wallet firmware (ESP32-S2)

TLA+ models of the firmware under `src/`, the TLC runs that check them on small
instances, and TLAPS proofs of what matters most for every value of the constants.

## 1. The system

One chip with one core, three FreeRTOS tasks and one button.

| Part | Code | State | Operations |
|---|---|---|---|
| HWP session | `main.c` handlers, `hwp_task` (prio 5) | `signer_ctx` | one frame at a time: FVK_REQ, TX_OUTPUT (metadata, action, sentinel), SIGN_REQ, TX_TRANSPARENT_INPUT/OUTPUT, TRANSPARENT_SIGN_REQ, ABORT, IDENTITY_REQ, ATTEST_REQ, PING/PONG |
| USB monitor | `main.c` `usb_monitor_task` (prio 3) | `was_connected` | every 200 ms: greet a new host, reset the session of one that left |
| Signer context | `libzcash-orchard-c`, a submodule that is not in the tree | session state machine | feed, confirm, verify, check, sign |
| Wallet vault | `wallet.c` | NVS namespace, `g_unlocked` | provision, unlock, lockout, wipe, identity, cached FVK and UA, sign, attest |
| Boot | `main.c` `app_main` | `device_ready` | provision or PIN loop, then let HWP traffic in |
| USB transport | `usb_transport.c` | `host_connected`, ring buffer, parser | callbacks (USB task), `recv_frame`, `send` |
| User input | `user_input.c` | the button | `user_input_wait`, `user_input_collect_pin` |
| LED | `led_status.c` (prio 2) | `current_state` | set, flash and return |
| Callbacks, self-tests, RNG, log redirect, `tools/*.py`, build files | `main.c`, `platform_rng.c`, ... | none | |

How they interact. `hwp_task` and the monitor share `signer_ctx` and `tx_buf`
without a lock; the USB callbacks write `host_connected` and the ring; every
handler may block in the flush of a reply, in `vTaskDelay` inside a curve
computation (`yield_cb`) or on the button. `app_main` and `hwp_task` call the
vault; all durable state is in NVS. The host drives everything else, in any order.

What is hard: a session reset in the middle of a handler; state tested before a
wait and used after it; messages in an order the companion never sends; power that
fails between two NVS writes; NVS writes whose result is ignored; a connect edge
seen too early. `PROJECT.json` "hazards" lists each at its line.

What makes each part correct:

* session: only what was displayed and approved is signed, with the key of its
  network; a transparent input only with the verified transparent part and actions;
  every handler ends; a session does not outlive its host;
* vault: a sealed mnemonic can be opened; wrong PINs are counted and the
  threshold is final; keys given out belong to the seed; the identity is stable;
  nothing else loses the wallet;
* transport: frames arrive whole and in order or not at all; a host that waits for
  its answer gets it;
* input and LED: one press is one answer, to what is on display; the light asks for
  the button when the button is wanted; no wait and no flash lasts for ever.

## 2. Modules

| Module | Models | |
|---|---|---|
| `Signer` | the library's session contract | external, pure operators |
| `HwpSession` | `hwp_task`, its handlers, the monitor, the DTR line | EXTENDS `Signer` |
| `MCHwpSession` | instances: the sighashes of all transactions over small sets | |
| `HwpSessionProofs` | theorems about `HwpSession` | |
| `WalletVault` | `wallet.c` and `app_main` | |
| `MCWalletVault` | instances | |
| `WalletVaultProofs` | theorems about `WalletVault` | |
| `PinVault` | what the wallet at rest promises its owner | abstract |
| `PinVaultProofs`, `VaultRefinementProofs` | what that promise is worth; `WalletVault` implements it | |
| `TrustedSigner` | what the signing session promises its user | abstract |
| `TrustedSignerProofs`, `HwpRefinementProofs` | the promise is kept; `HwpSession` implements it | |
| `Transport` | the receive callback, the ring, the parser, `recv_frame`, `usb_transport_send`, `tx_buf`, a host | |
| `MCTransport` | instance | |
| `LossyChannel` | what the handlers may rely on when given a frame | abstract |
| `TransportProofs` | theorems about `Transport`, the refinement included | |
| `LedStatus` | `led_status.c` | |
| `UserInput` | `user_input.c`, a finger, bouncing contacts | EXTENDS `LedStatus` |
| `Panel` | the tasks of `main.c` that use the button and the LED | EXTENDS `UserInput` |
| `PanelProofs` | theorems about `Panel` | |

### Signer

The library's source is not in the repository. Each operator is read off its calls
in `main.c` and `wallet.c`: the errors they test for, the fields they read, the
comments that say what the call guarantees. Where that does not settle the outcome
the operator returns a set: a reset may keep or clear the coin type
(`Resets`), `feed_meta` may or may not restart a session (`FeedMetaOk` and
`FeedMetaErrors` overlap), `confirm_action` outside RECEIVING_ACTIONS may succeed or
fail, `begin_transparent` may refuse an incomplete bundle or not. Two guarantees the
firmware leans on are assumed: `verify` succeeds only if all announced actions are
there, all are confirmed and the recomputed sighash is the one given; `check` and
`sign` accept only that sighash, in state VERIFIED. A digest or sighash *is* the data
it commits to, so collisions do not exist.

### HwpSession

`hwp_task` is a program counter with one value for each point where it blocks:

| `pc` | blocked in | what other code can do meanwhile |
|---|---|---|
| `recv` | `usb_transport_recv_frame` | anything |
| `derive` | `wallet_get_fvk` (may derive, which yields) | monitor, cable |
| `hash` | the note commitment of `feed_action_with_note` | monitor, cable |
| `await` | `log_drain_delay`, `user_input_wait` | monitor, cable |
| `keys` | `orchard_derive_keys` in `wallet_sign_via_ctx` | monitor, cable |
| `sign` | `orchard_signer_sign` | monitor, cable |
| `send` | `usb_transport_send`; then `session_reset` if the handler calls it | monitor, cable |

The code between two such points is one step, because the core is single and the
monitor has the lower priority. The monitor is cut the other way round: `hwp_task` may
preempt it between its sample of DTR and what it does about it, and in its 300 ms
delay. `approved` and `greeted` are history variables: the outputs approved in the
latest review, and whether this connection was sent the PING. The host may send any
frame at any time (`HwpFrame`), well or badly formed.

A transparent signature (`sig`) is over three things. `tx`, the transparent part and the
actions, is read from the context when the request is served, as
`zip244_transparent_per_input_sighash` reads `transparent_state`; that these are the
verified ones is what is checked. `net` is the coin type then in the context. `input`, the
index, the count and the data of the input, is what the request says (`HostInputs`),
also an input that was never fed: main.c 629-656 compares it with nothing.

`orchard_signer_reset` is taken as one step. An interrupt could make `hwp_task` ready
in the middle of it; what a half-cleared context looks like is decided in the
library, so this stays a listed hazard.

### WalletVault

`nvs` maps each key to the mnemonic its content was made from (0 = absent), so that
"the tag and the salt belong to the same sealing" and "this cached key is that
wallet's" are equalities. Each NVS write is a step, `PowerCut` can happen between
any two and clears everything but `nvs`. A PIN is right or wrong. Ghosts: `tries`
(wrong PINs since the last recorded unlock), `doomed` (the seed whose threshold was
reached), `pinned` (the identity first given out). Two constants choose the external
behaviour: `MayFail` (an NVS write may return an error and leave the old value) and
`AtomicErase` (`nvs_erase_all` is indivisible under a power cut).

Simplified: one FVK and one UA cache instead of one per coin type; `backed_up` is only
logged, and only the failure of its write is kept; a successful derivation (after
an unlock, `derive_seed` cannot fail); reads of what was written succeed.

### PinVault

The wallet without NVS keys, parts or boot: one mnemonic behind a PIN (`sealed`), the wrong
PINs on record, what is in use, whose key was given out. A wrong PIN is tried
(`TryWrong`) and answered (`AnswerWrong`) in two steps, and only `Restart` leads out of the first
without a record. `Forgetful` is the same promise on a storage that may refuse a write: then a
wrong PIN may be answered unrecorded and the mnemonic may be gone. `WalletVault` implements it
under the mapping above `ImplementsPinVault`. What is behind the PIN is a mnemonic whose sealing
is complete: the interrupted sealings, the keys written before the last part and the
leftovers of a wipe are steps of nothing. `restarts` is part of the promise because a vault
that may restart unseen may also leave out any record: with it hidden, a firmware that never saves
the count (the mutant `CountFailure_Unsaved`) would be a correct vault whose power fails often.

### TrustedSigner

The signing session without frames, tasks or cables: a screen, the outputs approved in
the latest review, the transaction that may be signed, the one being signed, the one
whose signature is going out. `HwpSession` implements it under the mapping above
`ImplementsTrustedSigner`: the screen is what is shown while `pc = "await"`, a
transaction is authorised when the context is VERIFIED and no reset is on its way,
being signed in `keys` and `sign`, issued in the reply. `Withdraw` is possible at any
moment because the monitor's reset is.

### Transport

A frame is a sequence of units `<<f, i>>`, unit 1 the header; a CRC is right for the
units of one whole frame. A frame of a length in `QuietLens` may be one of the `silent` ones,
PONG and ABORT, which get no answer. The hosts are impolite (any number of frames at any
time) or polite: in each connection the first frame may come at once, and the next
after the answer to the last, or at once behind a silent one; none is longer than the
ring. `since` is what was written before the present connection: its host knows nothing of it, so
what is still unanswered, or still in the ring, binds it in no way. `rushed` records
that a frame was written behind a silent one that was not handled yet, such as the
FVK_REQ behind the PONG of the README's handshake. Bytes are lost where
the code loses them: a chunk for which the ring has no room (`RxCallback`), the rest
of the item after a complete frame (`FeedUnit`, `ReturnItem`), what was under way when
the port closed. Out of step, the parser may take any unit for a header
(`FeedUnit`). On the way out `Queue` is `usb_transport_send` with the port closed, the stack
full, or room for half the answer; `PingEncode` and `PingSend` are two steps, and
`hwp_task` may use `tx_buf` in between (`ping = "overtaken"`): the monitor then sends that
answer, or the first bytes of it. `LossyChannel` is the abstract view: frames
numbered as written, handled in increasing order, one at a time.

### LedStatus, UserInput, Panel

`led_task` reads `current_state` and writes it back in two steps, as every task that sets
the LED has a higher priority, except `app_main`. `BUSY` is both BUSY states, which
look the same.

`UserInput` is one automaton for `user_input_wait` and `wait_press_or_pause`, which
differ by the drain loop and the limits:

| `loc` | code |
|---|---|
| `drain` | `user_input.c` 57-61 |
| `arm` | 63-67, 113-117 |
| `debounce` | 70-73, 119-120 |
| `hold` | 78-89, 124-134 |
| `swallow` | 84-86, 129-131 |
| `none`, `short`, `long` | the three results of either |
| `digit`, `echo` | `user_input_collect_pin` |
| `next`, `show` | `run_per_output_confirmation`: the next output, `log_drain_delay` |

Time passes only while `asleep` (in `vTaskDelay`), so two samples between which the code
does not sleep see the same finger. `bouncing` says that the finger moved so late in
the delay that the samples at its end may read anything, each for itself. The
finger is assumed to be no faster than the polling: at most one move per polling or
debounce delay (20 to 40 ms), and none in the delay after a late move. In the longer delays
(`show`, 80 ms; `echo`, 150 ms; no call) it moves freely. Times are counted in
polls; the limits are constants.

`Panel` adds who calls: `app_main` for the PIN before `device_ready`, `hwp_task` for the
review after it, and who sets the LED. What the wallet and the signer
answer is left open. While `hwp_task` runs, nobody else does (`HwpBlocked`). Ghosts:
`unused` (no answer was taken from the latest press), `fresh` (a press began since the
output was displayed), `calm` (in this review no other task set the LED or was
about to).

## 3. Runs

| Run | Instance | Distinct states | Shows |
|---|---|---|---|
| `session_orchard` | 2 outputs, 2 networks, up to 2 actions, 2 disconnects | 677,515 | no blind signing, a press confirms what is shown, the session invariant, the refinement |
| `session_transparent` | 1 output, 1 transparent item, 1 disconnect, fair | 231,187 | transparent signatures are over the verified transparent part and actions; the refinement; liveness |
| `session_network` | violation | | FVK_REQ changes the network of a session |
| `session_handshake` | violation, fair | | a host that came during boot is never greeted |
| `vault` | 3 attempts, 4 power cuts, fair | 29,715 | six invariants, the wallet is a PIN vault that forgets nothing, the wipe is earned, the lockout ends in a wipe |
| `vault_faults` | 3 attempts, 3 power cuts, writes may fail | 190,571 | keys, identity and the seal of a wallet in use with failing writes; the wallet is a forgetful PIN vault |
| `vault_lockout_save` | violation, writes may fail | | uncounted wrong PINs |
| `vault_parts` | violation, writes may fail | | a sealed mnemonic without its parts |
| `vault_wipe_cut` | violation, divisible erase | | a cached key outlives its wallet |
| `transport` | 3 frames of 1 or 2 units, those of 1 perhaps silent, ring of 3, chunks of 2, 1 disconnect, fair | 1,256,411 | the transport is a lossy channel; answers in order; a polite host never fills the ring and is answered |
| `panel` | timeouts of 3 polls, pause and hold of 2, 3 taps, 2 digits, flash of 2 ticks, fair | 80,772 | presses, reviews, PIN entry, LED |
| `panel_bounce` | violation | | a bounce ends a PIN digit |

Bounds. Two actions and two outputs are the smallest review with an order, a first
and a later output and a wrong recipient; `MaxActions + 1` is sent too, for
the refusal. One transparent input and output, each with a wrong index and count,
reach every branch of the transparent handlers. Two disconnects allow a reset in one
review and another in the next (`MaxDrops`). Three attempts put one before,
one at and one after a power cut; four cuts (`MaxCuts`) are one in the provisioning,
two in the unlocks and one in the wipe, and five seeds are enough for every part of
the interrupted provisionings, a cache and a wiped wallet to be of different seeds.
The proofs do without all of them. `tries` counts up to `MaxFails + MaxCuts + 1`,
more than it can reach without failing writes.

In `transport` two frames of an impolite host overfill the ring, as do the frames of two polite hosts
in a row if the ring is not drained in between; three frames (`MaxFrames`) are a PONG, a
request behind it and one more, or one of an earlier host and two of the next
(`MaxDrops`), enough for one to be cut by another, two in one item and a leftover. A single frame
longer than the ring (1032 bytes against 1024) is not in the instance; the theorems are for
every length. Three slots in the USB stack are room for half an answer. In
`panel` each limit is larger than one poll, so that a loop goes round before it
ends, and three taps leave one tap, several, and one too many apart.

The sets have no symmetry reductions: the runs are small, and two check liveness.
Deadlock is checked for the session and the panel. `transport` may stop: a host that has
sent all its frames owes nothing. The vault runs have `CHECK_DEADLOCK FALSE`: a halted
device stops for good once the bound on power cuts is used up.

### Fairness

* `WF(HwpStep)`: inside a handler `hwp_task` always goes on. Every wait there has a
  timeout (120 s for the button, 100 ms for the flush) or is a finite computation. One
  exception is assumed away: a button that is pressed is released
  (`user_input.c` 84-86 waits for it without a timeout).
* `WF(Monitor)`: its delays are 200 and 300 ms, and `hwp_task` yields.
* `WF(DeviceReady)`: used by the greeting only. The user unlocks the device; a host
  waits for nothing else.
* `WF(BootStep)`: what the firmware does without the user. The user and the power owe
  nothing.

* Transport: `WF(RxCallback)` (the USB task has the highest priority and is woken
  by data), `WF(Device)` (`hwp_task`, whose flush is bounded by 100 ms),
  `WF(DeviceReady)` (the user unlocks), and `WF(polite /\ HostReads)`: the polite host
  reads, the other owes nothing.
* Panel: `WF(LedTask)` and `WF(PollStep \/ AskOutput)`: delays end, and no task of a higher
  priority runs without blocking. The finger owes nothing.

In `HwpSession` no fairness is assumed of the host or of a frame.

### Properties

`SignedWasApproved`, `ConfirmsWhatIsShown`, `TransparentSignedWasVerified` are the "no
blind signing" promise of the project README, stated over the interleavings; the last is
about what is hashed into a transparent signature besides the input itself, which nothing
bounds (4).
`SessionInv` is the inductive invariant behind them. `HandlerEnds`,
`DisconnectEndsSession` and `NewHostGreeted` are the liveness side. For
`DisconnectEndsSession` a host that is back before the next poll is excluded: the
monitor sees no edge then.

In `vault` no write fails and no power cut divides an erase. `DoomedStaysLocked` needs less of the erase:
that it does not take `lockout` while `pin_sealed` stays (5). With `AtomicErase = FALSE`, TLC
finds counterexamples to `PartsCohere`, `AttemptsCounted`, `DoomedStaysLocked`,
`WipeOnlyWhenEarned` as well as the `KeysMatchSeed` of `vault_wipe_cut`; they are all cuts in the
middle of that erase and have no run of their own.

`PartsCohere` and `KeysMatchSeed` relate what is in flash to what is opened and given
out; `AttemptsCounted`, `DoomedStaysLocked`, `WipeOnlyWhenEarned`
and `LockoutLeadsToWipe` are the lockout in both directions; `IdentityStable` is
what attestation rests on. `OpenWalletSealed` is what is left of `PartsCohere` when writes fail: the
next boot may find a broken sealing, but nobody has received funds with it, because a
wallet is used only if all four writes succeeded or a PIN has opened it.

`ImplementsLossyChannel` is the reliability the handlers have: none at all about
arrival, everything about order and wholeness. `PoliteHostAnswered` is its other half,
for the host of the README that greets back with a PONG and waits for each answer; it is about
the first connection and excuses the
half answer that a PING can put in front of the next one (`ping = "spoilt"`) and a frame
written at once behind a PONG (`rushed`), which may go with the PONG's item (4).

`PoliteHostFits` is why that works at all: the callback ignores a full ring, and only
the waiting host keeps it from being full, with the item not yet returned counted. For a
host that connects after another one has written, it holds from the first answer to a
frame of its own; before that it does not (4), and TLC finds two hosts whose frames overfill the ring
during boot. `AnswersInOrder` is about the shared `tx_buf`: a PING that
`hwp_task` preempts sends the latest answer a second time, never an older one.

`EachPressOneTap` and `FreshConfirm` are what makes a press on a single bouncing button a
decision about one output: without the debounce one press confirms two, without the
drain loop one held too long confirms the next. `AwaitingShown` is the LED's part;
`calm` excuses exactly the tasks that write over it. `PromptEnds` says that every wait
times out by itself or ends with the finger.

Definitions named `X_Something` are mutants of `X` a bug
could produce; the property each one breaks is in `PROJECT.json`.

## 4. Where the code and its documentation differ

1. `main.c` 231: FVK_REQ overwrites the session's coin type at any time, and SIGN_REQ
   signs with the key of the new network (`session_network`). The comment says
   "session consistency"; the README lists the case as an error.
2. `main.c` 868: the connect edge is consumed while the device initializes, so the
   handshake PING is never sent to that host (`session_handshake`).
3. `wallet.c` 668: the result of `lockout_save` is ignored (`vault_lockout_save`);
   `wallet.h` 158 promises a persisted count.
4. `wallet.c` 578: the "single transaction" is five independent durable writes, and a failed
   one does not stop the next (`vault_parts`). Without write failures the order of the
   writes, ciphertext last, is enough (`PartsCohere`, proved).
5. `wallet.c` 412: the full reset is not atomic (`vault_wipe_cut`).
6. `user_input.c` 120: a spurious edge returns 0, "pause elapsed without any press". The bounce
   of a counted tap's release therefore ends the digit (`panel_bounce`), and one
   before the first tap ends the whole entry with PIN_ENTRY_TIMEOUT.

Without a run of their own, found while modelling:

* `user_input.h` 15 "timeout, no press": USER_INPUT_NONE is also the answer to a
  bounce (`user_input.c` 72), which cancels the review; and with a button held
  down `user_input_wait` outlasts `timeout_ms` without limit (84-86).
* `led_status.h` 11 "waiting for BOOT-button confirm": after a refused review the
  ERROR flash returns to AWAITING (main.c 203), so the LED stays magenta with nothing to
  confirm; conversely the monitor (854, 874) and `app_main` (1105) turn the prompt green
  during a review, and `led_task`'s write-back can lose it when a flash is just over.
* `led_status.h` 9 "signing in progress": after the SUCCESS flash the LED returns to BUSY.
* `fatal_halt` shows ERROR for 600 ms only, then what was shown before.
* `user_input.h` 51 names LED_STATE_PIN_ECHO_*, which does not exist.
* README 186-192 lets the companion send PONG and then FVK_REQ without anything from the device in
  between, but the two in one item lose the FVK_REQ (`usb_transport.c` 201): a companion must not
  send it at once.
* README 348: "No part of the sighash is taken on faith from the companion". The index and the data
  of a transparent input come with TRANSPARENT_SIGN_REQ and go into the per-input
  sighash (main.c 629-656) without being compared with the inputs that were fed and
  verified. The models leave `sig.input` to the host and state nothing about it.
* `usb_transport.c` 35 drops what the ring has no room for, and the ring is drained neither during
  boot (main.c 789-791) nor during a review (119). A host that waits for its answers never
  meets that, but one that reconnects in such a time does not know what the
  connection before left in the ring: its first frame may be cut.
* FVK_REQ with coin type 0, or none at all before the TxMeta, signs for the default network
  (main.c 495, 662) whatever the TxMeta says.
* A power cut inside `nvs_erase_all` (`wallet.c` 412) that has removed `lockout` and not
  `pin_sealed`, its salt, nonce and tag leaves a wallet past its threshold that asks for the PIN
  again. `app_main` (1080) has answered LOCKED_OUT, and the next boot knows nothing of it.
* Half a frame of a host that left makes the device swallow the first frames of the
  next one: `recv_frame` has no timeout inside a frame.
* SIGN_RSP goes to whoever holds the port when it is ready (main.c 508).

The README gives an unmatched `SIGN_REQ.recipient` the error `0x0E`
RecipientMismatch, `main.c` 463 sends `0x09` SIGHASH_MISMATCH. The refusal itself is
modelled; the code sent is what the source sends.

## 5. Proofs

All proofs are checked by TLAPS from no other assumption than the `ASSUME`s on the
constants. The bounds `MaxDrops`, `MaxCuts`, `MaxActions`, `MaxItems` are arbitrary.

`HwpSessionProofs`. `IInv == TypeOK /\ SessionInv` is inductive. `SignedWasApproved`
is not by itself: one has to know that a verified context holds the approved actions
(`VerifiedAgrees`), which in turn has to hold through the review (`ReviewAgrees`:
during a wait the context still begins with the approved outputs and goes on with the
one on display, or the monitor has emptied it), through a pending reset (a refused
review leaves the old verification in place until the reply is flushed, so the
invariant excuses exactly `send` with a reset pending), and through the waits in
which the monitor may reset (`InFlight`: what a signature uses after the last check is
a local copy). `TransparentAgrees` carries the transparent digest from its verification to
the signature. One lemma per handler proves `IInv'`; `NextInv` puts them together.
From `SessionInv` follow `NoBlindSigning`, `TransparentSigning` and
`ConfirmedWasShown`.

`OneNetworkPerSession` settles what the run `session_network` leaves open: whether the missing
tests of the coin type are all that is missing. Its two hypotheses are about the
host. `FvkFirst`: whenever a session begins, an FVK_REQ has named a network (coin type 0 names none, and
the signature would be for the default one). `FvkCoinAgrees`: an FVK_REQ in the middle of a
session carries the coin type of the TxMeta, not 0 either; this is the test the README gives
for error 0x05. Then no interleaving of frames, waits and
resets begins a signature, Orchard or transparent, for a network other than the one of the TxMeta
(`SignsForTheMetaNetwork`, which excuses nothing). The invariant `CoinInv` ties the coin type of the
context to the metadata for as long as it holds any; a reset may keep the coin type, and
that is harmless because it also ends the session, and the next metadata are compared with it. A host that asks for
its key first and stays on one network satisfies the hypotheses.

`WalletVaultProofs`. Four invariants with different assumptions:

* `TypeOK` with `Counting` (what is between the unseal and the save) for any
  constants, and `IdentityStable` by itself (`TypeCorrect`, `IdentityKept`);
* `KeyInv`, with `AtomicErase`: the opened seed is the sealed one and every cache is of
  the sealed seed, or there is no wallet and no cache. It gives `KeysMatch`;
* `CountInv`, with `FaultFree == AtomicErase /\ ~MayFail`: the prefix of the sealing
  written so far, and the stored count against `tries` and `cuts`. It gives `SealingComplete`,
  `EveryAttemptCounted`, `NoUnearnedWipe`;
* `DoomInv`, with `~MayFail` only: a doomed seed is either gone or still at the threshold. It gives
  `LockedOutForGood` for an erase that power may cut anywhere, under the hypothesis
  `SealErasedFirst`: no step of the erase leaves `pin_sealed` without its count. It
  cannot use `KeyInv`, which such an erase breaks, and carries what it needs of it. An
  indivisible erase satisfies the hypothesis (`LockedOutIndivisibly`).

The assumptions are needed: the violation runs drop them for `PartsCohere`,
`AttemptsCounted` (writes that fail) and `KeysMatchSeed` (a divisible erase); a divisible erase also breaks
`PartsCohere`, `AttemptsCounted` and `WipeOnlyWhenEarned`, and without `SealErasedFirst`
`DoomedStaysLocked` (3). With
`MayFail = TRUE`, TLC also finds counterexamples to `DoomedStaysLocked` (the last count
was not saved, and a power cut forgets it) and `WipeOnlyWhenEarned` (the cleared count
was not saved), for the same reason as `vault_lockout_save`; they have no run of their own.

`PinVaultProofs` and `VaultRefinementProofs`. For the abstract vault, `VaultKept` (only its own keys,
nothing open at the threshold), `AnswersRecorded` and `MnemonicKept` follow from one invariant.
`WalletImplementsPinVault` needs `AtomicErase` (`vault_wipe_cut` shows a wallet without it that gives
out the key of another mnemonic) and allows any writes to fail. Its invariant `RefInv` adds two
things to `KeyInv`:

* `SealInv`: while no write has failed, the parts before `part` are those of the new mnemonic, and
  what is in use is completely sealed. By itself it gives `InUseIsSealed`, for all constants:
  a failed write is remembered in `err` and the wallet halts, an unlock opens only what is
  sealed, and a wipe closes before it erases.
* `RecordInv`: there is a count only if there is a mnemonic, the count is 0 while a
  mnemonic is being sealed, and what `wallet_pin_unlock` has read is what is stored when it saves.

Each action is then a step of the vault or a stutter: the last part is `Seal`, the other writes
are nothing, the save after a wrong PIN is `AnswerWrong`, the entry of a cache is `GiveKey`, the erase
is `Empty`. `InUseBelowThreshold` uses the refinement from end to end: `LockedAtThreshold` is
proved of the vault and read back through the mapping, as a fact about `nvs["lockout"]` and
`unlocked` in a wallet whose writes may fail. It is what is left of `DoomedStaysLocked`
there: a wallet whose *stored* count is at the threshold is not in use, even if other counts were
lost.

`TrustedSignerProofs` and `HwpRefinementProofs`. `OnlyApproved` is inductive for the
promise. The refinement needs `IInv` in every step: a signature in the making is the
authorised one because `SessionInv` ties `arg` to the verified context. One lemma per group of
handlers shows that its step is a step of the promise or a stutter. `NothingElseAuthorised` reads
`PromiseKept` back through the mapping: not only a finished signature, but whatever a SIGN_REQ would
find authorised at that moment has the approved outputs.

`TransportProofs`. `TransportInv` says that the ring followed by what the host has written
is in the order written and belongs to frames after the last one handled. It is
inductive because everything that is lost is lost from one of the ends or is a
whole chunk in between. Of the parser it needs next to nothing: a frame is handled
only if it is whole, and its last unit was in the ring a moment ago, hence it is a later
frame. That gives the refinement. The proofs work with sequences without induction,
through facts about `SubSeq`, `Append` and `\o`.

`AnswersStayInOrder` rests on `AnswerInv`: the answers waiting in the USB stack are in the order of
their frames, not before the one heard last and not after the frame in hand, and `tx_buf` holds
one that is not older than any of them. `PoliteNeverRefused` uses it: a polite host that has heard the answer to its last
frame, or has written a silent one that was handled, knows that it was, so by `TransportInv` nothing of it or of
an earlier one, of whichever host, is left in the ring or
on the way (`NothingLeft`), and its next frame finds the ring empty. `PaceInv` says that of its frames in this connection all but
the last are silent or answered. A host becomes one the property speaks of (`Paced`) when nothing was
written before it, or by hearing the answer to its last frame, with nothing on the way
either time (`PacedFrom`). What earlier connections lost does not matter.

`PanelProofs`. `PanelInv` has four parts: who is calling (`CallInv`), what the contacts and
the latest press can look like (`PressInv`), the freshness of what is confirmed and the LED
(`ReviewInv`), the loop counters (`CountInv`). `EachPressOneTap` alone is not inductive:
one has to know that an edge which was only a bounce is followed by a delay in which
the finger rests, so that nothing is down at its end. Each part is proved action by action,
for every limit.

Only model-checked: the liveness properties (TLAPS 1.4.5 does not handle fairness or
ENABLED). There is no recursion in the proved modules; induction over data and
RECURSIVE operators are out of the prover's reach.

## 6. Not modelled

* Log lines, sequence numbers and byte layout: no property is about them.
* The cryptography, in the library that is not in the tree, and the self-tests, which
  halt before any state is touched (`FatalHalt` in `Panel`). Which transparent input a
  per-input sighash commits to is the library's; the models keep what the host asked for.
* LED colours and blinking; the bytes of an answer (whole or cut short).
* `wallet_import`, `wallet_export_mnemonic`, `wallet_pin_lock`: never called. One cache entry
  per coin type: one per kind is enough for what is stated about them.
* The start of the peripherals, the log redirect, the hardware generator, the build files:
  no state that anything else reads.
* The host scripts: the models assume nothing of a host, except that a polite one reads.
* A half-done `orchard_signer_reset` (2, HwpSession); a press shorter than a poll.
* The first `user_input_wait` after boot sleeps one poll before it samples, where `Panel` may sample
  at once; the finger may do the same in either.
* NVS reads that fail: `load_or_create_device_sk` would take one for a missing identity.

## 7. Plan

Done, in this order: `Signer`, `HwpSession`, `WalletVault` and their proofs;
`TrustedSigner` and its refinement; `Transport` with `LossyChannel`; `LedStatus`, `UserInput` and
`Panel`; the proofs of all of them; then `PinVault` and its refinement, the coin type of a session, the order of the answers and the
ring of a polite host. Every safety property of a passing run is a theorem.

Left:

1. `HwpSession` over `Transport`: frames that carry the connection they were sent in, for
   the answer that goes to a later host.
2. An abstract specification of `Panel`: one decision per press.
