-------------------------------- MODULE PinLock --------------------------------
(***************************************************************************)
(* The retry lockout of the device PIN (wallet_ui.c): a record of failures, *)
(* deadline and last trusted time, kept in NVS and mirrored in RAM, checked *)
(* against the real-time clock before a PIN is hashed and rewritten before  *)
(* the outcome is shown.  Power may go at any moment, NVS may fail, the    *)
(* clock may stop, or be moved either way between two readings.            *)
(***************************************************************************)
EXTENDS Integers

CONSTANTS
  FreeFailures,  \* failures without a delay (4 in the code)
  Delays,        \* the delays after them (30, 120, 600 and 3600 seconds)
  Steps,         \* how many delays there are (4); the last one repeats
  MaxFailures,   \* where the failure counter saturates (UINT32_MAX)
  MaxTime        \* bound on the clock

ASSUME PinLockAssumption ==
  /\ FreeFailures \in Nat /\ Steps \in Nat \ {0}
  /\ Delays \in [1..Steps -> Nat \ {0}]
  /\ \A i, j \in 1..Steps : i <= j => Delays[i] <= Delays[j]
  /\ MaxFailures \in Nat /\ MaxFailures >= FreeFailures + Steps
  /\ MaxTime \in Nat

VARIABLES
  booted,      \* wallet_ui_init has run since power came on
  nvs_lock,    \* the "pin-lock" blob in NVS
  pin_lock,    \* its copy in RAM
  storage_ok,  \* pin_lock_storage_ok
  store_open,  \* pin_store_open
  now,         \* what the clock reads
  rtc_ok,      \* the clock answers, its oscillator never stopped
  hashing,     \* pin_submit is past the gate and computes bcrypt
  rtc_now,     \* the time the gate read
  guesses,     \* wrong PINs answered as such since the last right one
  last_guess   \* when the last of them passed the gate

lockVars == <<booted, nvs_lock, pin_lock, storage_ok, store_open, now, rtc_ok, hashing, rtc_now,
              guesses, last_guess>>

-----------------------------------------------------------------------------
Records == [failures : 0..MaxFailures, locked_until : Nat, last_seen : Nat]
Empty   == [failures |-> 0, locked_until |-> 0, last_seen |-> 0]

AtMost(a, b) == IF a <= b THEN a ELSE b

\* Mutated form: the failure counter grows past its width.
Bump_Grows(n) == n + 1

\* The failure counter saturates.
Bump(n) == AtMost(n + 1, MaxFailures)

\* The delay the n-th failure in a row costs.
Delay(n) == IF n <= FreeFailures THEN 0 ELSE Delays[AtMost(n - FreeFailures, Steps)]

\* What pin_lock_record_result writes for an attempt that passed the gate at t.
NextRecord(correct, t) ==
  LET n == IF correct THEN 0 ELSE Bump(pin_lock.failures)
  IN  [failures     |-> n,
       locked_until |-> IF Delay(n) = 0 THEN 0 ELSE t + Delay(n),
       last_seen    |-> t]

\* pin_lock_check.
pin_lock_check ==
  CASE ~storage_ok \/ ~store_open            -> "flash_error"
    [] ~rtc_ok \/ now < pin_lock.last_seen   -> "rtc_error"
    [] pin_lock.locked_until > now           -> "wait"
    [] OTHER                                 -> "ready"

-----------------------------------------------------------------------------
\* A device never used before, just switched on.
LockInit ==
  /\ booted = FALSE
  /\ nvs_lock = Empty /\ pin_lock = Empty
  /\ storage_ok = TRUE /\ store_open = FALSE
  /\ now \in 0..MaxTime /\ rtc_ok = TRUE
  /\ hashing = FALSE /\ rtc_now = 0
  /\ guesses = 0 /\ last_guess = 0

\* pin_submit passes the gate and starts on bcrypt.
PassGate ==
  /\ booted /\ ~hashing /\ pin_lock_check = "ready"
  /\ hashing' = TRUE /\ rtc_now' = now
  /\ UNCHANGED <<booted, nvs_lock, pin_lock, storage_ok, store_open, now, rtc_ok, guesses,
                 last_guess>>

\* Mutated form: the record is updated in RAM only.
Answer_RamOnly(correct) ==
  /\ hashing /\ hashing' = FALSE
  /\ pin_lock' = NextRecord(correct, rtc_now)
  /\ guesses' = IF correct THEN 0 ELSE AtMost(guesses + 1, MaxFailures)
  /\ last_guess' = IF correct THEN last_guess ELSE rtc_now
  /\ UNCHANGED <<booted, nvs_lock, storage_ok, store_open, now, rtc_ok, rtc_now>>

\* pin_lock_record_result stores the outcome, and only then is it acted on.
Answer(correct) ==
  /\ hashing /\ hashing' = FALSE
  /\ nvs_lock' = NextRecord(correct, rtc_now)
  /\ pin_lock' = NextRecord(correct, rtc_now)
  /\ guesses' = IF correct THEN 0 ELSE AtMost(guesses + 1, MaxFailures)
  /\ last_guess' = IF correct THEN last_guess ELSE rtc_now
  /\ UNCHANGED <<booted, storage_ok, store_open, now, rtc_ok, rtc_now>>

\* Storing the outcome was not seen to succeed: the blob reached NVS or it did not.
MaybeStored(correct) ==
  \/ UNCHANGED <<nvs_lock, guesses>>
  \/ /\ nvs_lock' = NextRecord(correct, rtc_now)
     /\ guesses' = IF correct THEN 0 ELSE guesses

\* pin_lock_store fails: no outcome, and no further attempt before a restart.
StoreFails(correct) ==
  /\ hashing /\ hashing' = FALSE
  /\ MaybeStored(correct)
  /\ storage_ok' = FALSE
  /\ UNCHANGED <<booted, pin_lock, store_open, now, rtc_ok, rtc_now, last_guess>>

\* bcrypt cannot be computed from the stored hash: treated as a storage failure.
HashFails ==
  /\ hashing /\ hashing' = FALSE /\ storage_ok' = FALSE
  /\ UNCHANGED <<booted, nvs_lock, pin_lock, store_open, now, rtc_ok, rtc_now, guesses,
                 last_guess>>

\* Power is lost and returns, also while an outcome is being stored.
PowerLoss(correct) ==
  /\ \/ hashing /\ MaybeStored(correct)
     \/ ~hashing /\ UNCHANGED <<nvs_lock, guesses>>
  /\ booted' = FALSE /\ hashing' = FALSE /\ rtc_now' = 0
  /\ pin_lock' = Empty /\ storage_ok' = TRUE /\ store_open' = FALSE
  /\ UNCHANGED <<now, rtc_ok, last_guess>>

\* Mutated form: the record in NVS is not read back.
LoadLock_Fresh ==
  /\ ~booted /\ booted' = TRUE
  /\ pin_lock' = Empty /\ store_open' = TRUE /\ storage_ok' = TRUE
  /\ UNCHANGED <<nvs_lock, now, rtc_ok, hashing, rtc_now, guesses, last_guess>>

\* wallet_ui_init reads the blob, finds it unreadable, or cannot open NVS (or returns
\* early because the display does not answer).
LoadLock ==
  /\ ~booted /\ booted' = TRUE
  /\ \/ pin_lock' = nvs_lock /\ store_open' = TRUE /\ storage_ok' = TRUE
     \/ pin_lock' \in {Empty, nvs_lock} /\ store_open' = TRUE /\ storage_ok' = FALSE
     \/ pin_lock' = Empty /\ store_open' = FALSE /\ storage_ok' = TRUE
  /\ UNCHANGED <<nvs_lock, now, rtc_ok, hashing, rtc_now, guesses, last_guess>>

\* A device reset erases NVS at boot, the keys of the device being erased already.
EraseLock ==
  /\ ~booted
  /\ nvs_lock' = Empty /\ guesses' = 0 /\ last_guess' = 0
  /\ UNCHANGED <<booted, pin_lock, storage_ok, store_open, now, rtc_ok, hashing, rtc_now>>

\* The clock runs, is set to another time, or stops or starts answering.
SetClock ==
  /\ now' \in 0..MaxTime
  /\ UNCHANGED <<booted, nvs_lock, pin_lock, storage_ok, store_open, rtc_ok, hashing, rtc_now,
                 guesses, last_guess>>

ClockFault ==
  /\ rtc_ok' = ~rtc_ok
  /\ UNCHANGED <<booted, nvs_lock, pin_lock, storage_ok, store_open, now, hashing, rtc_now,
                 guesses, last_guess>>

LockNext ==
  \/ PassGate
  \/ \E correct \in BOOLEAN : Answer(correct) \/ StoreFails(correct) \/ PowerLoss(correct)
  \/ HashFails \/ LoadLock \/ EraseLock
  \/ SetClock \/ ClockFault

LockSpec == LockInit /\ [][LockNext]_lockVars

-----------------------------------------------------------------------------
\* Type invariant of the lockout state of wallet_ui.c.
LockTypeOK ==
  /\ booted \in BOOLEAN
  /\ nvs_lock \in Records /\ pin_lock \in Records
  /\ storage_ok \in BOOLEAN /\ store_open \in BOOLEAN /\ rtc_ok \in BOOLEAN
  /\ now \in 0..MaxTime /\ rtc_now \in 0..MaxTime
  /\ hashing \in BOOLEAN
  /\ guesses \in 0..MaxFailures /\ last_guess \in 0..MaxTime

\* No PIN is even hashed before the delay that the wrong PINs answered so far cost has
\* passed on the clock, counted from the last of them: whatever restarts, NVS errors
\* and clock changes there were in between.
LockoutEnforced ==
  [][~hashing /\ hashing' => now >= last_guess + Delay(guesses)]_lockVars

\* Every wrong PIN the user was told about is on record in NVS, with its deadline: a
\* restart at any moment forgets none of them.
GuessesOnRecord ==
  /\ guesses <= nvs_lock.failures
  /\ guesses > FreeFailures => nvs_lock.locked_until >= last_guess + Delay(guesses)

\* The last trusted time never runs backwards, short of a device reset.
LastSeenMonotone ==
  [][nvs_lock' = Empty \/ nvs_lock'.last_seen >= nvs_lock.last_seen]_lockVars
================================================================================
