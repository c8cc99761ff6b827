-------------------------------- MODULE WalletUi --------------------------------
(***************************************************************************)
(* The local authorization of the wallet: the PIN screens and settings of  *)
(* wallet_ui.c, the user-presence wait of button.c, the requests of hid.c  *)
(* that start and cancel it, and the device reset, from the scheduled wipe *)
(* to the erase at boot.  The lockout record is that of PinLock.           *)
(*                                                                         *)
(* wallet_ui_task, button_task and the start of a wait all run in          *)
(* core0_loop, one after the other: an action here is one such call that   *)
(* does something.  A button press is an event; only the Submit button,    *)
(* whose level button_wait_poll reads, has state.  A PIN is entered whole, *)
(* and a hash is the PIN it belongs to.                                    *)
(***************************************************************************)
EXTENDS PinLock, FiniteSets

CONSTANTS
  Pins,        \* the six-digit PINs a user may enter
  NoPin,       \* no PIN: nothing stored, nothing entered
  MaxRequests, \* bound on the host's requests
  MaxRestarts  \* bound on power losses and restarts

ASSUME WalletUiAssumption ==
  NoPin \notin Pins /\ MaxRequests \in Nat /\ MaxRestarts \in Nat

VARIABLES
  nvs_hash, wipe_pending, reset_done,  \* the other NVS keys: "bcrypt" and the two marks
  data,           \* the part0 partition: "live", "doomed" (a wipe is due), "partial" or "erased"
  stage,          \* of a boot, up to "run" and, when a wipe was scheduled, "restarting"
  pin_hash, pin_mode, pin_first, entry, pin_setup_at_boot,
  screen,         \* which of settings_open, settings_detail_open, ... history_open is set
  status, waiting, result_visible, reset_success_visible,
  new_command,    \* a label the worker published and the display does not show yet
  local_auth_result,
  async_button_wait, timed_out, cancel_button, cancel_raw,
  submit_down,    \* GPIO6 reads 0
  request,        \* the request the worker serves: none, "cbor" or "msg" (U2F)
  presence,       \* its user presence: "none", "asked", "prompted", or how that ended
  requests, restarts,
  proven          \* ghost: the right PIN was recorded as such since the prompt came up

bootVars == <<nvs_hash, wipe_pending, reset_done, data, stage>>
pinVars  == <<pin_hash, pin_mode, pin_first, entry, pin_setup_at_boot>>
viewVars == <<screen, status, waiting, result_visible, reset_success_visible, new_command>>
waitVars == <<local_auth_result, async_button_wait, timed_out, cancel_button, cancel_raw>>
hostVars == <<request, presence, requests, proven>>
vars     == <<lockVars, bootVars, pinVars, viewVars, waitVars, submit_down, hostVars, restarts>>

-----------------------------------------------------------------------------
VerifyModes == {"verify", "change_current", "reset_verify"}
PinModes    == VerifyModes \cup
               {"idle", "create", "retype", "change_new", "change_retype", "reset_challenge"}
Screens     == {"home", "history", "menu", "detail", "change_confirm", "reset_confirm",
                "change_success"}
SettingsOpen == screen \notin {"home", "history"}

\* core0_loop is free to run: it is not inside pin_submit computing bcrypt.
Core0 == stage = "run" /\ ~hashing

\* wallet_ui_task gets past the notice of a completed reset.
UiTask == Core0 /\ ~reset_success_visible

\* The keypad is live: in a verifying mode only while the gate is ready.
Keypad == UiTask /\ pin_mode # "idle" /\ (pin_mode \in VerifyModes => pin_lock_check = "ready")

\* The home and settings screens react to buttons.
Menus == UiTask /\ pin_mode = "idle" /\ ~waiting /\ ~result_visible /\ ~new_command
         /\ status = "ready"

-----------------------------------------------------------------------------
RamInit ==
  /\ pin_hash = NoPin /\ pin_mode = "idle" /\ pin_first = NoPin /\ entry = NoPin
  /\ pin_setup_at_boot = FALSE
  /\ screen = "home" /\ status = "ready" /\ waiting = FALSE /\ result_visible = FALSE
  /\ reset_success_visible = FALSE /\ new_command = FALSE
  /\ local_auth_result = 0
  /\ async_button_wait = FALSE /\ timed_out = FALSE
  /\ cancel_button = FALSE /\ cancel_raw = FALSE /\ proven = FALSE
  /\ request = "none" /\ presence = "none"

\* The same after a restart.
RamReset ==
  /\ pin_hash' = NoPin /\ pin_mode' = "idle" /\ pin_first' = NoPin /\ entry' = NoPin
  /\ pin_setup_at_boot' = FALSE
  /\ screen' = "home" /\ status' = "ready" /\ waiting' = FALSE /\ result_visible' = FALSE
  /\ reset_success_visible' = FALSE /\ new_command' = FALSE
  /\ local_auth_result' = 0
  /\ async_button_wait' = FALSE /\ timed_out' = FALSE
  /\ cancel_button' = FALSE /\ cancel_raw' = FALSE /\ proven' = FALSE
  /\ request' = "none" /\ presence' = "none"

\* A new device, switched on for the first time.
Init ==
  /\ LockInit
  /\ nvs_hash = NoPin /\ wipe_pending = FALSE /\ reset_done = FALSE
  /\ data = "live" /\ stage = "reset_check"
  /\ RamInit /\ submit_down = FALSE
  /\ requests = 0 /\ restarts = 0

-----------------------------------------------------------------------------
(* Boot: wallet_ui_reset_on_boot, step by step, then wallet_ui_init *)

\* The mark of a pending wipe may not be readable, or all of NVS may not come up (then it
\* does not for wallet_ui_init either): the boot goes on as if there were none.
ResetCheck ==
  /\ stage = "reset_check"
  /\ stage' \in {IF wipe_pending THEN "erase_data" ELSE "init", "init", "init_no_nvs"}
  /\ UNCHANGED <<lockVars, nvs_hash, wipe_pending, reset_done, data, pinVars, viewVars, waitVars,
                 submit_down, hostVars, restarts>>

\* Mutated form: NVS, with the mark, is erased although the partition is not.
EraseData_Late ==
  /\ stage = "erase_data" /\ stage' = "erase_nvs"
  /\ UNCHANGED <<lockVars, nvs_hash, wipe_pending, reset_done, data, pinVars, viewVars, waitVars,
                 submit_down, hostVars, restarts>>

\* The data partition is erased, sector by sector.
EraseData ==
  /\ stage = "erase_data"
  /\ \/ data # "partial" /\ data' = "partial" /\ stage' = stage
     \/ data = "partial" /\ data' = "erased" /\ stage' = "erase_nvs"
  /\ UNCHANGED <<lockVars, nvs_hash, wipe_pending, reset_done, pinVars, viewVars, waitVars,
                 submit_down, hostVars, restarts>>

\* Mutated form: the erase leaves the mark that asked for it.
EraseNvs_KeepsMark ==
  /\ stage = "erase_nvs" /\ stage' = "mark"
  /\ nvs_hash' = NoPin /\ wipe_pending' = wipe_pending /\ reset_done' = FALSE
  /\ EraseLock
  /\ UNCHANGED <<data, pinVars, viewVars, waitVars, submit_down, hostVars, restarts>>

\* Then NVS, and with it the mark that asked for the wipe.
EraseNvs ==
  /\ stage = "erase_nvs" /\ stage' = "mark"
  /\ nvs_hash' = NoPin /\ wipe_pending' = FALSE /\ reset_done' = FALSE
  /\ EraseLock
  /\ UNCHANGED <<data, pinVars, viewVars, waitVars, submit_down, hostVars, restarts>>

\* "reset-done" is set and the device restarts.
MarkDone ==
  /\ stage = "mark" /\ stage' = "reset_check"
  /\ reset_done' = TRUE
  /\ UNCHANGED <<lockVars, nvs_hash, wipe_pending, data, pinVars, viewVars, waitVars,
                 submit_down, hostVars, restarts>>

\* wallet_ui_init.  The display may not answer: then it returns before opening NVS, and
\* no PIN is asked for at boot either.  A stored hash or mark may not be readable, and the
\* mark of a completed reset may resist its removal.
UiInit ==
  /\ stage \in {"init", "init_no_nvs"} /\ stage' = "run"
  /\ LoadLock
  /\ \E display \in BOOLEAN :
       /\ ~display \/ stage = "init_no_nvs" => ~store_open'
       /\ pin_hash' \in {NoPin, IF store_open' THEN nvs_hash ELSE NoPin}
       /\ pin_setup_at_boot' = (display /\ pin_hash' = NoPin)
       /\ pin_mode' = IF pin_setup_at_boot' THEN "create" ELSE "idle"
  /\ reset_success_visible' \in {FALSE, store_open' /\ reset_done}
  /\ reset_done' \in {reset_done, reset_done /\ ~reset_success_visible'}
  /\ data' = IF data = "erased" THEN "live" ELSE data
  /\ UNCHANGED <<nvs_hash, wipe_pending, pin_first, entry, screen, status, waiting,
                 result_visible, new_command, waitVars, submit_down, hostVars, restarts>>

\* Power is lost, at any moment; or pin_submit restarts the device for a scheduled reset.
Restart ==
  /\ \/ restarts < MaxRestarts /\ restarts' = restarts + 1
     \/ stage = "restarting" /\ UNCHANGED restarts
  /\ PowerLoss(entry = pin_hash)
  /\ RamReset /\ stage' = "reset_check"
  /\ UNCHANGED <<nvs_hash, wipe_pending, reset_done, data, submit_down, requests>>

\* The erase of NVS is cut short: any of its keys may be gone already.
TornErase ==
  /\ stage = "erase_nvs" /\ stage' = "reset_check"
  /\ restarts < MaxRestarts /\ restarts' = restarts + 1
  /\ nvs_hash' \in {nvs_hash, NoPin} /\ wipe_pending' \in {wipe_pending, FALSE}
  /\ EraseLock \/ UNCHANGED lockVars
  /\ RamReset
  /\ UNCHANGED <<reset_done, data, submit_down, requests>>

NoticeExpires ==
  /\ Core0 /\ reset_success_visible /\ reset_success_visible' = FALSE
  /\ UNCHANGED <<lockVars, bootVars, pinVars, screen, status, waiting, result_visible,
                 new_command, waitVars, submit_down, hostVars, restarts>>

-----------------------------------------------------------------------------
(* The host's requests and the wait for the user *)

\* hid.c hands a request to the worker, which asks for user presence.  Only a CBOR
\* request clears the cancellation of an earlier one.
Request(kind) ==
  /\ stage = "run" /\ request = "none" /\ requests < MaxRequests
  /\ request' = kind /\ presence' = "asked" /\ requests' = requests + 1
  /\ cancel_button' = IF kind = "cbor" THEN FALSE ELSE cancel_button
  /\ new_command' = (new_command \/ kind = "cbor")
  /\ UNCHANGED <<lockVars, bootVars, pinVars, screen, status, waiting, result_visible,
                 reset_success_visible, local_auth_result, async_button_wait, timed_out,
                 cancel_raw, submit_down, proven, restarts>>

\* A request without user presence only changes the label.  It may be cancelled as well.
Background ==
  /\ stage = "run" /\ request = "none" /\ requests < MaxRequests
  /\ requests' = requests + 1 /\ new_command' = TRUE /\ cancel_button' \in BOOLEAN
  /\ UNCHANGED <<lockVars, bootVars, pinVars, screen, status, waiting, result_visible,
                 reset_success_visible, local_auth_result, async_button_wait, timed_out,
                 cancel_raw, submit_down, request, presence, proven, restarts>>

\* CTAPHID_CANCEL for the CBOR request being served.
HostCancel ==
  /\ stage = "run" /\ request = "cbor" /\ ~cancel_button
  /\ cancel_button' = TRUE
  /\ UNCHANGED <<lockVars, bootVars, pinVars, viewVars, local_auth_result, async_button_wait,
                 timed_out, cancel_raw, submit_down, hostVars, restarts>>

wallet_ui_prompt ==
  /\ screen' = "home" /\ waiting' = TRUE /\ result_visible' = FALSE /\ status' = "confirm"
  /\ new_command' = FALSE
  /\ local_auth_result' = 0 /\ pin_first' = NoPin
  /\ pin_mode' = IF pin_hash # NoPin THEN "verify" ELSE "create"

\* card_status finds EV_PRESS_BUTTON.
button_wait_start ==
  /\ Core0 /\ presence = "asked" /\ presence' = "prompted"
  /\ wallet_ui_prompt
  /\ async_button_wait' = TRUE /\ timed_out' = FALSE /\ cancel_raw' = ~submit_down
  /\ proven' = FALSE
  /\ UNCHANGED <<lockVars, bootVars, pin_hash, entry, pin_setup_at_boot,
                 reset_success_visible, cancel_button, submit_down, request, requests, restarts>>

\* Thirty seconds of a wait have passed.
Elapse ==
  /\ async_button_wait /\ ~timed_out /\ timed_out' = TRUE
  /\ UNCHANGED <<lockVars, bootVars, pinVars, viewVars, local_auth_result, async_button_wait,
                 cancel_button, cancel_raw, submit_down, hostVars, restarts>>

wallet_ui_result ==
  /\ waiting' = FALSE /\ screen' = "home" /\ pin_mode' = "idle"
  /\ result_visible' = TRUE /\ status' = "result"

\* Mutated form: the user's decision is taken and dropped while Submit is still down.
button_wait_poll_WaitsRelease ==
  /\ Core0 /\ async_button_wait /\ local_auth_result # 0
  /\ local_auth_result' = 0
  /\ cancel_raw' = ~submit_down
  /\ cancel_button' = (cancel_button \/ local_auth_result < 0)
  /\ IF submit_down
     THEN UNCHANGED <<presence, async_button_wait, waiting, screen, pin_mode, result_visible,
                      status>>
     ELSE presence' = "cancelled" /\ async_button_wait' = FALSE /\ wallet_ui_result
  /\ UNCHANGED <<lockVars, bootVars, pin_hash, pin_first, entry, pin_setup_at_boot,
                 reset_success_visible, new_command, timed_out, submit_down, request, requests,
                 proven, restarts>>

\* button_wait_poll returns at once unless the user has finished with the PIN.  Then
\* GPIO6, which reads 1 while Submit is up, is taken for a cancel button.
button_wait_poll ==
  /\ Core0 /\ async_button_wait /\ local_auth_result # 0
  /\ local_auth_result' = 0
  /\ cancel_raw' = ~submit_down
  /\ cancel_button' = (cancel_button \/ local_auth_result < 0 \/ (cancel_raw /\ cancel_raw'))
  /\ presence' = CASE cancel_button' -> "cancelled"
                   [] timed_out /\ ~cancel_button' -> "timeout"
                   [] cancel_raw' /\ ~timed_out /\ ~cancel_button' -> "cancelled"
                   [] OTHER -> "pressed"
  /\ async_button_wait' = FALSE
  /\ wallet_ui_result
  /\ UNCHANGED <<lockVars, bootVars, pin_hash, pin_first, entry, pin_setup_at_boot,
                 reset_success_visible, new_command, timed_out, submit_down, request, requests,
                 proven, restarts>>

\* The worker answers the host and is free again.
Reply ==
  /\ presence \in {"pressed", "timeout", "cancelled"}
  /\ request' = "none" /\ presence' = "none"
  /\ UNCHANGED <<lockVars, bootVars, pinVars, viewVars, waitVars, submit_down, requests, proven,
                 restarts>>

-----------------------------------------------------------------------------
(* The keypad: pin_submit, mode by mode *)

\* pin_store_new: the new hash is stored, or may have been although the call failed.
StoreNew(p)      == store_open /\ nvs_hash' = p /\ pin_hash' = p
StoreNewFails(p) ==
  nvs_hash' \in {nvs_hash, IF store_open THEN p ELSE nvs_hash} /\ UNCHANGED pin_hash

PressSubmit == Keypad /\ ~submit_down /\ submit_down' = TRUE

\* Submit is released, or pressed where pin_submit does nothing (an entry that is not
\* complete) or is not called.
MoveSubmit ==
  /\ submit_down' = ~submit_down
  /\ UNCHANGED <<lockVars, bootVars, pinVars, viewVars, waitVars, hostVars, restarts>>

\* The first entry of a new PIN, at setup or in a change.
EnterFirst(p) ==
  /\ PressSubmit /\ pin_mode \in {"create", "change_new"}
  /\ pin_first' = p
  /\ pin_mode' = IF pin_mode = "create" THEN "retype" ELSE "change_retype"
  /\ UNCHANGED <<lockVars, bootVars, pin_hash, entry, pin_setup_at_boot, viewVars, waitVars,
                 hostVars, restarts>>

\* The second entry differs from the first.
Mismatch(p) ==
  /\ PressSubmit /\ pin_mode \in {"retype", "change_retype"} /\ p # pin_first
  /\ pin_first' = NoPin
  /\ pin_mode' = IF pin_mode = "retype" THEN "create" ELSE "change_new"
  /\ UNCHANGED <<lockVars, bootVars, pin_hash, entry, pin_setup_at_boot, viewVars, waitVars,
                 hostVars, restarts>>

\* A new PIN is stored.  At boot that ends the setup, and the prompt if there is one.
CreatePin(p) ==
  /\ PressSubmit /\ pin_mode = "retype" /\ p = pin_first
  /\ pin_first' = NoPin
  /\ \/ /\ StoreNew(p) /\ pin_mode' = "idle" /\ pin_setup_at_boot' = FALSE
        /\ IF pin_setup_at_boot
           THEN /\ waiting' = FALSE /\ status' = "ready" /\ new_command' = FALSE
                /\ UNCHANGED local_auth_result
           ELSE local_auth_result' = 1 /\ UNCHANGED <<waiting, status, new_command>>
     \/ /\ StoreNewFails(p)
        /\ UNCHANGED <<pin_mode, pin_setup_at_boot, waiting, status, new_command,
                       local_auth_result>>
  /\ UNCHANGED <<lockVars, wipe_pending, reset_done, data, stage, entry, screen, result_visible,
                 reset_success_visible, async_button_wait, timed_out, cancel_button, cancel_raw,
                 hostVars, restarts>>

ChangePin(p) ==
  /\ PressSubmit /\ pin_mode = "change_retype" /\ p = pin_first
  /\ pin_first' = NoPin
  /\ \/ StoreNew(p) /\ pin_mode' = "idle" /\ screen' = "change_success"
     \/ StoreNewFails(p) /\ pin_mode' = "change_new" /\ UNCHANGED screen
  /\ UNCHANGED <<lockVars, wipe_pending, reset_done, data, stage, entry, pin_setup_at_boot,
                 status, waiting, result_visible, reset_success_visible, new_command, waitVars,
                 hostVars, restarts>>

\* The challenge of a reset is typed, right or wrong.
EnterChallenge ==
  /\ PressSubmit /\ pin_mode = "reset_challenge"
  /\ pin_mode' \in {"reset_verify", "reset_challenge"}
  /\ UNCHANGED <<lockVars, bootVars, pin_hash, pin_first, entry, pin_setup_at_boot, viewVars,
                 waitVars, hostVars, restarts>>

\* A PIN to verify passes the gate; bcrypt starts.
EnterPin(p) ==
  /\ PressSubmit /\ pin_mode \in VerifyModes
  /\ PassGate /\ entry' = p
  /\ UNCHANGED <<bootVars, pin_hash, pin_mode, pin_first, pin_setup_at_boot, viewVars, waitVars,
                 hostVars, restarts>>

\* The outcome is recorded and then acted on; the entry is cleared in any case.
Correct  == entry = pin_hash
Judged(correct) == Answer(correct) /\ entry' = NoPin

\* Mutated form: a right PIN counts although its outcome could not be recorded.
Verified_Unrecorded ==
  /\ hashing /\ Correct /\ pin_mode = "verify"
  /\ Answer(TRUE) \/ StoreFails(TRUE)
  /\ pin_mode' = "idle" /\ local_auth_result' = 1 /\ proven' = (storage_ok' = TRUE)
  /\ entry' = NoPin
  /\ UNCHANGED <<bootVars, pin_hash, pin_first, pin_setup_at_boot, viewVars,
                 async_button_wait, timed_out, cancel_button, cancel_raw, submit_down, request,
                 presence, requests, restarts>>

Verified ==
  /\ pin_mode = "verify" /\ Correct /\ Judged(TRUE)
  /\ pin_mode' = "idle" /\ local_auth_result' = 1 /\ proven' = TRUE
  /\ UNCHANGED <<bootVars, pin_hash, pin_first, pin_setup_at_boot, viewVars,
                 async_button_wait, timed_out, cancel_button, cancel_raw, submit_down, request,
                 presence, requests, restarts>>

ChangeAllowed ==
  /\ pin_mode = "change_current" /\ Correct /\ Judged(TRUE)
  /\ pin_mode' = "change_new"
  /\ UNCHANGED <<bootVars, pin_hash, pin_first, pin_setup_at_boot, viewVars, waitVars,
                 submit_down, hostVars, restarts>>

\* The wipe is put on record and the device about to restart; or NVS reports a failure,
\* with the mark stored or not.
ResetAllowed ==
  /\ pin_mode = "reset_verify" /\ Correct /\ Judged(TRUE)
  /\ \/ /\ wipe_pending' = TRUE /\ data' = "doomed" /\ stage' = "restarting"
        /\ pin_mode' = "idle" /\ screen' = "home" /\ status' = "resetting"
     \/ /\ wipe_pending' \in {wipe_pending, TRUE}
        /\ UNCHANGED <<data, stage, pin_mode, screen, status>>
  /\ UNCHANGED <<nvs_hash, reset_done, pin_hash, pin_first, pin_setup_at_boot, waiting,
                 result_visible, reset_success_visible, new_command, waitVars, submit_down,
                 hostVars, restarts>>

\* Mutated form: a wrong PIN leaves no record.
Refused_Unrecorded ==
  /\ hashing /\ ~Correct /\ hashing' = FALSE /\ entry' = NoPin
  /\ UNCHANGED <<booted, nvs_lock, pin_lock, storage_ok, store_open, now, rtc_ok, rtc_now,
                 guesses, last_guess, bootVars, pin_hash, pin_mode, pin_first,
                 pin_setup_at_boot, viewVars, waitVars, submit_down, hostVars, restarts>>

\* A wrong PIN, or an outcome that could not be computed or recorded: the prompt stays.
Refused ==
  /\ \/ ~Correct /\ Answer(FALSE)
     \/ StoreFails(Correct)
     \/ HashFails
  /\ entry' = NoPin
  /\ UNCHANGED <<bootVars, pin_hash, pin_mode, pin_first, pin_setup_at_boot, viewVars, waitVars,
                 submit_down, hostVars, restarts>>

\* Back held for a second, or pressed at a closed gate: the flow is given up.  The gate
\* is looked at once a second, so what counts may be how it was a moment ago.
GiveUp ==
  /\ UiTask /\ pin_mode # "idle"
  /\ \E closed \in BOOLEAN :
       /\ IF closed THEN pin_mode \in VerifyModes ELSE ~pin_setup_at_boot
       /\ pin_first' = IF closed THEN pin_first ELSE NoPin
       /\ pin_mode' = IF closed \/ SettingsOpen THEN "idle" ELSE pin_mode
  /\ screen' = IF SettingsOpen THEN "menu" ELSE screen
  /\ local_auth_result' = IF SettingsOpen THEN local_auth_result ELSE -1
  /\ UNCHANGED <<lockVars, bootVars, pin_hash, entry, pin_setup_at_boot, status, waiting,
                 result_visible, reset_success_visible, new_command, async_button_wait,
                 timed_out, cancel_button, cancel_raw, submit_down, hostVars, restarts>>

-----------------------------------------------------------------------------
(* The other screens *)

\* The menus of the home and settings screens, and what they start.
Navigate ==
  /\ Menus
  /\ \/ screen = "home" /\ screen' \in {"menu", "history"} /\ UNCHANGED <<pin_mode, pin_first>>
     \/ screen = "history" /\ screen' = "home" /\ UNCHANGED <<pin_mode, pin_first>>
     \/ /\ screen = "menu" /\ screen' \in {"home", "detail", "change_confirm", "reset_confirm"}
        /\ UNCHANGED <<pin_mode, pin_first>>
     \/ /\ screen \in {"detail", "change_confirm", "reset_confirm", "change_success"}
        /\ screen' = "menu" /\ UNCHANGED <<pin_mode, pin_first>>
     \/ /\ screen = "change_confirm" /\ screen' = "detail"
        /\ pin_mode' = "change_current" /\ pin_first' = NoPin
     \/ /\ screen = "reset_confirm" /\ screen' = "detail"
        /\ pin_mode' = "reset_challenge" /\ UNCHANGED pin_first
  /\ UNCHANGED <<lockVars, bootVars, pin_hash, entry, pin_setup_at_boot, status, waiting,
                 result_visible, reset_success_visible, new_command, waitVars, submit_down,
                 hostVars, restarts>>

\* A result has been shown for five seconds.
ResultExpires ==
  /\ UiTask /\ pin_mode = "idle" /\ ~waiting /\ result_visible
  /\ result_visible' = FALSE /\ screen' = "home" /\ status' = "ready" /\ new_command' = FALSE
  /\ UNCHANGED <<lockVars, bootVars, pinVars, waiting, reset_success_visible, waitVars,
                 submit_down, hostVars, restarts>>

\* The label of a request the worker took up replaces whatever is shown.
ShowCommand ==
  /\ UiTask /\ pin_mode = "idle" /\ ~waiting /\ ~result_visible /\ new_command
  /\ new_command' = FALSE /\ screen' = "home" /\ status' = "working"
  /\ UNCHANGED <<lockVars, bootVars, pinVars, waiting, result_visible, reset_success_visible,
                 waitVars, submit_down, hostVars, restarts>>

Clock ==
  /\ SetClock \/ ClockFault
  /\ UNCHANGED <<bootVars, pinVars, viewVars, waitVars, submit_down, hostVars, restarts>>

Boot     == ResetCheck \/ EraseData \/ EraseNvs \/ MarkDone \/ UiInit
FailBoot == Restart \/ TornErase
User     == \/ \E p \in Pins : EnterFirst(p) \/ Mismatch(p) \/ CreatePin(p) \/ ChangePin(p)
                               \/ EnterPin(p)
            \/ EnterChallenge \/ MoveSubmit \/ GiveUp \/ Navigate
Core     == \/ NoticeExpires \/ ResultExpires \/ ShowCommand
            \/ Verified \/ ChangeAllowed \/ ResetAllowed \/ Refused
            \/ button_wait_start \/ button_wait_poll
Host     == (\E kind \in {"cbor", "msg"} : Request(kind)) \/ Background \/ HostCancel \/ Reply

Next == Boot \/ FailBoot \/ User \/ Core \/ Host \/ Elapse \/ Clock

\* core0_loop and the worker never stop; the user, the host and the clock owe nothing.
Fairness ==
  /\ WF_vars(Boot) /\ WF_vars(stage = "restarting" /\ Restart) /\ WF_vars(Elapse) /\ WF_vars(Reply)
  /\ WF_vars(NoticeExpires) /\ WF_vars(ResultExpires) /\ WF_vars(ShowCommand)
  /\ WF_vars(Verified \/ ChangeAllowed \/ ResetAllowed \/ Refused)
  /\ WF_vars(button_wait_start) /\ WF_vars(button_wait_poll)

Spec == Init /\ [][Next]_vars /\ Fairness

-----------------------------------------------------------------------------
\* Type invariant of the state of wallet_ui.c and button.c.
TypeOK ==
  /\ LockTypeOK
  /\ nvs_hash \in Pins \cup {NoPin} /\ wipe_pending \in BOOLEAN /\ reset_done \in BOOLEAN
  /\ data \in {"live", "doomed", "partial", "erased"}
  /\ stage \in {"reset_check", "erase_data", "erase_nvs", "mark", "init", "init_no_nvs", "run",
                "restarting"}
  /\ {pin_hash, pin_first, entry} \subseteq Pins \cup {NoPin}
  /\ pin_mode \in PinModes /\ pin_setup_at_boot \in BOOLEAN
  /\ screen \in Screens /\ status \in {"ready", "confirm", "result", "working", "resetting"}
  /\ {waiting, result_visible, reset_success_visible, new_command} \subseteq BOOLEAN
  /\ local_auth_result \in -1..1
  /\ {async_button_wait, timed_out, cancel_button, cancel_raw, submit_down, proven}
       \subseteq BOOLEAN
  /\ request \in {"none", "cbor", "msg"}
  /\ presence \in {"none", "asked", "prompted", "pressed", "timeout", "cancelled"}
  /\ requests \in 0..MaxRequests /\ restarts \in 0..MaxRestarts

\* A request is approved only when the PIN in NVS was entered at its own prompt, and was
\* recorded there as a success, before the wait ended.
ApprovalNeedsPin ==
  [][presence # "pressed" /\ presence' = "pressed" => proven /\ nvs_lock.failures = 0]_vars

\* Whenever power is lost on the way, a device told to wipe itself never ends up in use
\* with old data, whole or partly erased, and no mark left to have it erased.
WipeBeforeUse == stage = "run" => data = "live" \/ wipe_pending

\* A device told to wipe itself is back in use, wiped, or, where its mark could not be
\* read at boot, still due for it: it is never caught in a loop of erases and restarts.
WipeCompletes ==
  stage = "restarting" ~> stage = "run" /\ (data = "live" \/ wipe_pending)

\* Once the user is through with the PIN screens, the host gets its answer.
DecisionIsAnswered ==
  async_button_wait /\ local_auth_result # 0 ~> request = "none"

\* Whatever the screens do, the lockout behaves as PinLock says.
ImplementsPinLock == LockSpec

\* What README.md says of the wait: it lasts thirty seconds.  In button_wait_poll nothing
\* is looked at before the user is through with the PIN, the time included.
WaitTimesOut == async_button_wait ~> ~async_button_wait

\* What README.md says of a successful local authorization: it becomes the user-presence
\* event, here if neither the time is up nor the host has cancelled.
RightPinApproves ==
  [][async_button_wait /\ ~async_button_wait' /\ stage' = "run" /\ local_auth_result = 1
     /\ ~timed_out /\ ~cancel_button => presence' = "pressed"]_vars
================================================================================
