---------------------------- MODULE WalletUiProofs ----------------------------
(***************************************************************************)
(* Proofs about PinLock, for every schedule of delays that grows, every    *)
(* width of the counter and every bound on the clock, and about WalletUi:  *)
(* the screens, the waits and the resets drive the lockout only as PinLock *)
(* allows, so that what is proved of PinLock holds of the whole device.    *)
(*                                                                         *)
(* LockInv is the inductive invariant: what NVS knows is at least what the *)
(* user was told, and an attempt in progress was let in on the record that *)
(* NVS holds.                                                              *)
(***************************************************************************)
EXTENDS WalletUi, TLAPS

\* While the gate can open at all, RAM holds the record of NVS.
MirrorOK == booted /\ storage_ok /\ store_open => pin_lock = nvs_lock

\* An attempt in progress passed the gate after every time on record.
AttemptOK ==
  hashing => booted /\ storage_ok /\ store_open /\ rtc_now >= nvs_lock.last_seen

\* The last wrong PIN is not after the last trusted time.
SeenOK == nvs_lock.last_seen >= last_guess

\* The inductive invariant.
LockInv == LockTypeOK /\ MirrorOK /\ AttemptOK /\ SeenOK /\ GuessesOnRecord

-----------------------------------------------------------------------------
\* pin_lock_record_result: the delay of a failure is a natural number, positive exactly
\* past the free failures.
LEMMA DelayType ==
  ASSUME NEW n \in Nat
  PROVE  /\ Delay(n) \in Nat
         /\ n > FreeFailures => Delay(n) > 0
         /\ n <= FreeFailures => Delay(n) = 0
<1>1. CASE n <= FreeFailures
  BY <1>1, PinLockAssumption DEF Delay
<1>2. CASE n > FreeFailures
  <2>1. AtMost(n - FreeFailures, Steps) \in 1..Steps
    BY <1>2, PinLockAssumption DEF AtMost
  <2>2. Delay(n) = Delays[AtMost(n - FreeFailures, Steps)]
    BY <1>2, PinLockAssumption DEF Delay
  <2> QED BY <1>2, <2>1, <2>2, PinLockAssumption
<1> QED BY <1>1, <1>2, PinLockAssumption

\* pin_lock_record_result: a later failure never costs less than an earlier one.
LEMMA DelayMonotone ==
  ASSUME NEW m \in Nat, NEW n \in Nat, m <= n
  PROVE  Delay(m) <= Delay(n)
<1>1. CASE m <= FreeFailures
  BY <1>1, DelayType
<1>2. CASE m > FreeFailures
  <2> DEFINE i == AtMost(m - FreeFailures, Steps)
             j == AtMost(n - FreeFailures, Steps)
  <2>1. i \in 1..Steps /\ j \in 1..Steps /\ i <= j
    BY <1>2, PinLockAssumption DEF AtMost
  <2>2. Delay(m) = Delays[i] /\ Delay(n) = Delays[j]
    BY <1>2, PinLockAssumption DEF Delay
  <2> HIDE DEF i, j
  <2> QED BY <2>1, <2>2, PinLockAssumption
<1> QED BY <1>1, <1>2, PinLockAssumption

\* pin_lock_record_result: the record it writes after an attempt at time t.
LEMMA NextRecordFacts ==
  ASSUME LockTypeOK, NEW t \in 0..MaxTime, NEW correct \in BOOLEAN
  PROVE  /\ NextRecord(correct, t) \in Records
         /\ NextRecord(correct, t).last_seen = t
         /\ correct => NextRecord(correct, t).failures = 0
         /\ ~correct => NextRecord(correct, t).failures = Bump(pin_lock.failures)
         /\ ~correct /\ Bump(pin_lock.failures) > FreeFailures
              => NextRecord(correct, t).locked_until = t + Delay(Bump(pin_lock.failures))
<1> DEFINE n == IF correct THEN 0 ELSE Bump(pin_lock.failures)
<1>1. pin_lock.failures \in 0..MaxFailures
  BY DEF LockTypeOK, Records
<1>2. n \in 0..MaxFailures /\ n \in Nat
  BY <1>1, PinLockAssumption DEF Bump, AtMost
<1>3. NextRecord(correct, t) =
        [failures |-> n, locked_until |-> IF Delay(n) = 0 THEN 0 ELSE t + Delay(n), last_seen |-> t]
  BY DEF NextRecord
<1>4. /\ Delay(n) \in Nat
      /\ n > FreeFailures => Delay(n) > 0
  BY <1>2, DelayType
<1>5. t \in Nat
  BY PinLockAssumption
<1>6. (IF Delay(n) = 0 THEN 0 ELSE t + Delay(n)) \in Nat
  BY <1>4, <1>5
<1>7. (correct => n = 0) /\ (~correct => n = Bump(pin_lock.failures))
  OBVIOUS
<1> HIDE DEF n
<1>8. NextRecord(correct, t) \in Records
  BY <1>2, <1>3, <1>5, <1>6 DEF Records
<1>9. ~correct /\ n > FreeFailures => NextRecord(correct, t).locked_until = t + Delay(n)
  BY <1>3, <1>4
<1> QED BY <1>3, <1>7, <1>8, <1>9

-----------------------------------------------------------------------------
\* A new device satisfies the invariant.
LEMMA InitLockInv == LockInit => LockInv
<1> SUFFICES ASSUME LockInit PROVE LockInv
  OBVIOUS
<1>1. Empty \in Records
  BY PinLockAssumption DEF Empty, Records
<1>2. LockTypeOK
  <2>1. 0 \in 0..MaxTime /\ 0 \in 0..MaxFailures
    BY PinLockAssumption
  <2> QED BY <1>1, <2>1, Zenon DEF LockInit, LockTypeOK
<1>3. MirrorOK /\ AttemptOK
  BY DEF LockInit, MirrorOK, AttemptOK
<1>4. nvs_lock.last_seen = 0 /\ nvs_lock.failures = 0 /\ guesses = 0 /\ last_guess = 0
  BY DEF LockInit, Empty
<1>5. SeenOK /\ GuessesOnRecord
  BY <1>4, PinLockAssumption DEF SeenOK, GuessesOnRecord
<1> QED BY <1>2, <1>3, <1>5 DEF LockInv

\* Storing an outcome, with or without success, keeps what NVS knows ahead of what the
\* user was told.
LEMMA StoredRecord ==
  ASSUME LockInv, hashing, NEW correct \in BOOLEAN,
         nvs_lock' = NextRecord(correct, rtc_now),
         \/ correct /\ guesses' = 0 /\ last_guess' = last_guess
         \/ ~correct /\ guesses' = guesses /\ last_guess' = last_guess
         \/ ~correct /\ guesses' = AtMost(guesses + 1, MaxFailures) /\ last_guess' = rtc_now
  PROVE  SeenOK' /\ GuessesOnRecord'
<1> DEFINE r == NextRecord(correct, rtc_now)
           n == Bump(pin_lock.failures)
<1>1. /\ rtc_now \in 0..MaxTime /\ last_guess \in Nat /\ guesses \in 0..MaxFailures
      /\ pin_lock = nvs_lock /\ nvs_lock \in Records /\ LockTypeOK
      /\ rtc_now >= nvs_lock.last_seen /\ nvs_lock.last_seen >= last_guess
      /\ guesses <= nvs_lock.failures
  BY PinLockAssumption DEF LockInv, LockTypeOK, MirrorOK, AttemptOK, SeenOK, GuessesOnRecord
<1>2. /\ r \in Records
      /\ r.last_seen = rtc_now
      /\ ~correct => r.failures = n
      /\ ~correct /\ n > FreeFailures => r.locked_until = rtc_now + Delay(n)
  BY <1>1, NextRecordFacts
<1>3. /\ nvs_lock.failures \in 0..MaxFailures /\ nvs_lock.last_seen \in Nat
      /\ r.failures \in 0..MaxFailures
  BY <1>1, <1>2 DEF Records
<1>4. rtc_now >= last_guess /\ rtc_now \in Nat
  BY <1>1, <1>3, PinLockAssumption
<1>5. n \in Nat /\ AtMost(guesses + 1, MaxFailures) <= n /\ guesses <= n
      /\ AtMost(guesses + 1, MaxFailures) \in Nat
  BY <1>1, <1>3, PinLockAssumption DEF Bump, AtMost
<1> HIDE DEF r, n
<1>6. nvs_lock' = r
  BY DEF r
<1>7. SeenOK'
  BY <1>1, <1>2, <1>4, <1>6 DEF SeenOK
<1>8. CASE correct
  <2>1. guesses' = 0
    BY <1>8
  <2> QED BY <2>1, <1>7, <1>3, <1>6, PinLockAssumption DEF GuessesOnRecord
<1>9. CASE ~correct
  <2>1. guesses' \in Nat /\ guesses' <= n /\ last_guess' \in Nat /\ last_guess' <= rtc_now
    BY <1>9, <1>1, <1>4, <1>5
  <2>2. Delay(guesses') \in Nat /\ Delay(n) \in Nat /\ Delay(guesses') <= Delay(n)
    BY <2>1, <1>5, DelayType, DelayMonotone
  <2>3. guesses' > FreeFailures => n > FreeFailures
    BY <2>1, <1>5, PinLockAssumption
  <2>4. guesses' > FreeFailures => r.locked_until >= last_guess' + Delay(guesses')
    BY <1>2, <1>4, <1>9, <2>1, <2>2, <2>3
  <2>5. guesses' <= r.failures
    BY <1>2, <1>9, <2>1
  <2> QED BY <1>6, <1>7, <2>4, <2>5 DEF GuessesOnRecord, Delay
<1> QED BY <1>8, <1>9

\* Every step keeps the invariant.
LEMMA NextLockInv == LockInv /\ [LockNext]_lockVars => LockInv'
<1> SUFFICES ASSUME LockInv, [LockNext]_lockVars PROVE LockInv'
  OBVIOUS
<1>0. LockTypeOK /\ MirrorOK /\ AttemptOK /\ SeenOK /\ GuessesOnRecord
  BY DEF LockInv
<1>e. Empty \in Records
  BY PinLockAssumption DEF Empty, Records
<1>1. CASE PassGate
  <2>1. pin_lock_check = "ready" /\ storage_ok /\ store_open /\ now >= pin_lock.last_seen
    <3>1. pin_lock.last_seen \in Nat /\ now \in Nat
      BY <1>0, PinLockAssumption DEF LockTypeOK, Records
    <3> QED BY <1>0, <1>1, <3>1 DEF PassGate, pin_lock_check, LockTypeOK
  <2>2. LockTypeOK'
    BY <1>0, <1>1 DEF PassGate, LockTypeOK
  <2>3. MirrorOK' /\ SeenOK' /\ GuessesOnRecord'
    BY <1>0, <1>1 DEF PassGate, MirrorOK, SeenOK, GuessesOnRecord, Delay
  <2>4. AttemptOK'
    BY <1>0, <1>1, <2>1 DEF PassGate, AttemptOK, MirrorOK
  <2> QED BY <2>2, <2>3, <2>4 DEF LockInv
<1>2. ASSUME NEW correct \in BOOLEAN, Answer(correct) PROVE LockInv'
  <2>1. hashing /\ nvs_lock' = NextRecord(correct, rtc_now) /\ pin_lock' = nvs_lock'
    BY <1>2 DEF Answer
  <2>2. SeenOK' /\ GuessesOnRecord'
    BY <1>2, <2>1, StoredRecord DEF Answer
  <2>3. rtc_now \in 0..MaxTime /\ NextRecord(correct, rtc_now) \in Records
    BY <1>0, NextRecordFacts DEF LockTypeOK
  <2>4. guesses' \in 0..MaxFailures /\ last_guess' \in 0..MaxTime
    BY <1>0, <1>2, PinLockAssumption DEF Answer, AtMost, LockTypeOK
  <2>5. LockTypeOK'
    BY <1>0, <1>2, <2>1, <2>3, <2>4 DEF Answer, LockTypeOK
  <2>6. MirrorOK' /\ AttemptOK'
    BY <1>2, <2>1 DEF Answer, MirrorOK, AttemptOK
  <2> QED BY <2>2, <2>5, <2>6 DEF LockInv
<1>3. ASSUME NEW correct \in BOOLEAN, hashing, MaybeStored(correct), last_guess' = last_guess
      PROVE  /\ SeenOK' /\ GuessesOnRecord'
             /\ nvs_lock' \in Records /\ guesses' \in 0..MaxFailures
  <2>1. CASE UNCHANGED <<nvs_lock, guesses>>
    BY <1>0, <1>3, <2>1 DEF SeenOK, GuessesOnRecord, Delay, LockTypeOK
  <2>2. CASE /\ nvs_lock' = NextRecord(correct, rtc_now)
             /\ guesses' = IF correct THEN 0 ELSE guesses
    <3>1. SeenOK' /\ GuessesOnRecord'
      BY <1>3, <2>2, StoredRecord
    <3>2. NextRecord(correct, rtc_now) \in Records
      BY <1>0, NextRecordFacts DEF LockTypeOK
    <3> QED BY <1>0, <2>2, <3>1, <3>2, PinLockAssumption DEF LockTypeOK
  <2> QED BY <1>3, <2>1, <2>2 DEF MaybeStored
<1>4. ASSUME NEW correct \in BOOLEAN, StoreFails(correct) PROVE LockInv'
  <2>1. SeenOK' /\ GuessesOnRecord' /\ nvs_lock' \in Records /\ guesses' \in 0..MaxFailures
    BY <1>3, <1>4 DEF StoreFails
  <2>2. LockTypeOK' /\ MirrorOK' /\ AttemptOK'
    BY <1>0, <1>4, <2>1 DEF StoreFails, LockTypeOK, MirrorOK, AttemptOK
  <2> QED BY <2>1, <2>2 DEF LockInv
<1>5. ASSUME NEW correct \in BOOLEAN, PowerLoss(correct) PROVE LockInv'
  <2>1. SeenOK' /\ GuessesOnRecord' /\ nvs_lock' \in Records /\ guesses' \in 0..MaxFailures
    <3>1. CASE hashing
      BY <1>3, <1>5, <3>1 DEF PowerLoss
    <3>2. CASE ~hashing
      BY <1>0, <1>5, <3>2 DEF PowerLoss, SeenOK, GuessesOnRecord, Delay, LockTypeOK
    <3> QED BY <3>1, <3>2
  <2>2. MirrorOK' /\ AttemptOK'
    BY <1>5 DEF PowerLoss, MirrorOK, AttemptOK
  <2>3. LockTypeOK'
    <3>1. 0 \in 0..MaxTime
      BY PinLockAssumption
    <3> QED BY <1>0, <1>e, <1>5, <2>1, <3>1, Zenon DEF PowerLoss, LockTypeOK
  <2> QED BY <2>1, <2>2, <2>3 DEF LockInv
<1>6. CASE HashFails
  <2>1. LockTypeOK' /\ MirrorOK' /\ AttemptOK'
    BY <1>0, <1>6 DEF HashFails, LockTypeOK, MirrorOK, AttemptOK
  <2>2. SeenOK' /\ GuessesOnRecord'
    BY <1>0, <1>6 DEF HashFails, SeenOK, GuessesOnRecord, Delay
  <2> QED BY <2>1, <2>2 DEF LockInv
<1>7. CASE LoadLock
  <2>1. LockTypeOK'
    BY <1>0, <1>e, <1>7 DEF LoadLock, LockTypeOK
  <2>2. MirrorOK' /\ AttemptOK'
    BY <1>0, <1>7 DEF LoadLock, MirrorOK, AttemptOK
  <2>3. SeenOK' /\ GuessesOnRecord'
    BY <1>0, <1>7 DEF LoadLock, SeenOK, GuessesOnRecord, Delay
  <2> QED BY <2>1, <2>2, <2>3 DEF LockInv
<1>8. CASE EraseLock
  <2>1. LockTypeOK'
    BY <1>0, <1>e, <1>8, PinLockAssumption DEF EraseLock, LockTypeOK
  <2>2. MirrorOK' /\ AttemptOK'
    BY <1>0, <1>8 DEF EraseLock, MirrorOK, AttemptOK
  <2>3. SeenOK' /\ GuessesOnRecord'
    BY <1>8, PinLockAssumption DEF EraseLock, Empty, SeenOK, GuessesOnRecord
  <2> QED BY <2>1, <2>2, <2>3 DEF LockInv
<1>9. CASE SetClock \/ ClockFault \/ UNCHANGED lockVars
  <2>1. LockTypeOK'
    <3>1. CASE SetClock \/ UNCHANGED lockVars
      BY <1>0, <3>1 DEF SetClock, lockVars, LockTypeOK
    <3>2. CASE ClockFault
      <4>1. rtc_ok' \in BOOLEAN
        BY <1>0, <3>2, Zenon DEF ClockFault, LockTypeOK
      <4> QED BY <1>0, <3>2, <4>1 DEF ClockFault, LockTypeOK
    <3> QED BY <1>9, <3>1, <3>2
  <2>2. MirrorOK' /\ AttemptOK' /\ SeenOK' /\ GuessesOnRecord'
    BY <1>0, <1>9 DEF SetClock, ClockFault, lockVars, MirrorOK, AttemptOK, SeenOK,
                      GuessesOnRecord, Delay
  <2> QED BY <2>1, <2>2 DEF LockInv
<1> QED
  BY <1>1, <1>2, <1>4, <1>5, <1>6, <1>7, <1>8, <1>9 DEF LockNext

-----------------------------------------------------------------------------
\* The inductive invariant holds of every behaviour of the lockout.
THEOREM LockInvariant == LockSpec => []LockInv
<1> QED BY InitLockInv, NextLockInv, PTL DEF LockSpec

\* The lockout state of wallet_ui.c keeps its types: the counter its width, the times
\* their range.
THEOREM LockTypeCorrect == LockSpec => []LockTypeOK
<1>1. LockInv => LockTypeOK
  BY DEF LockInv
<1> QED BY <1>1, LockInvariant, PTL

\* No wrong PIN the user was told about is ever missing from the record in NVS.
THEOREM GuessesAlwaysOnRecord == LockSpec => []GuessesOnRecord
<1>1. LockInv => GuessesOnRecord
  BY DEF LockInv
<1> QED BY <1>1, LockInvariant, PTL

\* No PIN is hashed before the delay that the wrong PINs so far cost has passed.
THEOREM LockoutAlwaysEnforced == LockSpec => LockoutEnforced
<1>1. LockInv /\ [LockNext]_lockVars
        => [~hashing /\ hashing' => now >= last_guess + Delay(guesses)]_lockVars
  <2> SUFFICES ASSUME LockInv, LockNext, ~hashing, hashing'
               PROVE  now >= last_guess + Delay(guesses)
    OBVIOUS
  <2>1. PassGate
    BY DEF LockNext, LockInv, LockTypeOK, Answer, StoreFails, PowerLoss, HashFails, LoadLock,
           EraseLock, SetClock, ClockFault
  <2>2. /\ LockTypeOK /\ pin_lock = nvs_lock /\ nvs_lock.last_seen >= last_guess
        /\ guesses > FreeFailures => nvs_lock.locked_until >= last_guess + Delay(guesses)
        /\ pin_lock_check = "ready"
    BY <2>1 DEF LockInv, MirrorOK, SeenOK, GuessesOnRecord, PassGate, pin_lock_check, LockTypeOK
  <2>3. /\ now \in Nat /\ last_guess \in Nat /\ guesses \in Nat
        /\ nvs_lock.last_seen \in Nat /\ nvs_lock.locked_until \in Nat
    BY <2>2, PinLockAssumption DEF LockTypeOK, Records
  <2>4. ~(now < nvs_lock.last_seen) /\ ~(nvs_lock.locked_until > now)
    BY <2>2 DEF pin_lock_check
  <2>5. Delay(guesses) \in Nat /\ (guesses <= FreeFailures => Delay(guesses) = 0)
    BY <2>3, DelayType
  <2> QED BY <2>2, <2>3, <2>4, <2>5, PinLockAssumption
<1> QED BY <1>1, LockInvariant, PTL DEF LockSpec, LockoutEnforced

\* The last trusted time never runs backwards, short of a device reset.
THEOREM LastSeenNeverBack == LockSpec => LastSeenMonotone
<1>1. LockInv /\ [LockNext]_lockVars
        => [nvs_lock' = Empty \/ nvs_lock'.last_seen >= nvs_lock.last_seen]_lockVars
  <2> SUFFICES ASSUME LockInv, LockNext
               PROVE  nvs_lock' = Empty \/ nvs_lock'.last_seen >= nvs_lock.last_seen
    OBVIOUS
  <2>1. nvs_lock.last_seen \in Nat /\ rtc_now \in 0..MaxTime /\ LockTypeOK
    BY DEF LockInv, LockTypeOK, Records
  <2>2. \/ UNCHANGED nvs_lock
        \/ nvs_lock' = Empty
        \/ hashing /\ \E correct \in BOOLEAN : nvs_lock' = NextRecord(correct, rtc_now)
    BY DEF LockNext, PassGate, Answer, StoreFails, PowerLoss, MaybeStored, HashFails, LoadLock,
           EraseLock, SetClock, ClockFault
  <2>3. ASSUME NEW correct \in BOOLEAN, hashing, nvs_lock' = NextRecord(correct, rtc_now)
        PROVE  nvs_lock'.last_seen >= nvs_lock.last_seen
    BY <2>1, <2>3, NextRecordFacts DEF LockInv, AttemptOK
  <2> QED BY <2>1, <2>2, <2>3
<1> QED BY <1>1, LockInvariant, PTL DEF LockSpec, LastSeenMonotone

-----------------------------------------------------------------------------
(* The whole device *)

\* Every step of the device is one of the lockout, or leaves it alone.
LEMMA StepOfLock == [Next]_vars => [LockNext]_lockVars
<1> SUFFICES ASSUME [Next]_vars PROVE LockNext \/ UNCHANGED lockVars
  OBVIOUS
<1>1. CASE Boot
  BY <1>1 DEF Boot, ResetCheck, EraseData, EraseNvs, MarkDone, UiInit, LockNext
<1>2. CASE FailBoot
  BY <1>2, Zenon DEF FailBoot, Restart, TornErase, LockNext
<1>3. CASE User
  <2>1. ASSUME NEW p \in Pins,
               EnterFirst(p) \/ Mismatch(p) \/ CreatePin(p) \/ ChangePin(p) \/ EnterPin(p)
        PROVE  LockNext \/ UNCHANGED lockVars
    BY <2>1, Zenon DEF EnterFirst, Mismatch, CreatePin, ChangePin, EnterPin, LockNext
  <2>2. CASE EnterChallenge \/ MoveSubmit \/ GiveUp \/ Navigate
    BY <2>2, Zenon DEF EnterChallenge, MoveSubmit, GiveUp, Navigate
  <2> QED BY <1>3, <2>1, <2>2 DEF User
<1>4. CASE Core
  <2>1. CASE NoticeExpires \/ ResultExpires \/ ShowCommand \/ button_wait_start \/ button_wait_poll
    BY <2>1, Zenon DEF NoticeExpires, ResultExpires, ShowCommand, button_wait_start,
                       button_wait_poll
  <2>2. CASE Verified \/ ChangeAllowed \/ ResetAllowed
    <3>1. Answer(TRUE)
      BY <2>2, Zenon DEF Verified, ChangeAllowed, ResetAllowed, Judged
    <3> QED BY <3>1, Zenon DEF LockNext
  <2>3. CASE Refused
    <3>1. Correct \in BOOLEAN
      BY Zenon DEF Correct
    <3>2. Answer(FALSE) \/ StoreFails(Correct) \/ HashFails
      BY <2>3, Zenon DEF Refused
    <3> QED BY <3>1, <3>2, Zenon DEF LockNext
  <2> QED BY <1>4, <2>1, <2>2, <2>3 DEF Core
<1>5. CASE Host \/ Elapse \/ Clock
  BY <1>5, Zenon DEF Host, Request, Background, HostCancel, Reply, Elapse, Clock, LockNext
<1>6. CASE UNCHANGED vars
  BY <1>6, Zenon DEF vars
<1> QED BY <1>1, <1>2, <1>3, <1>4, <1>5, <1>6, Zenon DEF Next

\* The device implements the lockout specification.
THEOREM WalletUiImplementsPinLock == Spec => ImplementsPinLock
<1>1. Init => LockInit
  BY DEF Init
<1> QED BY <1>1, StepOfLock, PTL DEF Spec, LockSpec, ImplementsPinLock

\* On the whole device, too, no PIN is hashed before the delay the wrong ones cost is over.
THEOREM DeviceEnforcesLockout == Spec => LockoutEnforced
BY WalletUiImplementsPinLock, LockoutAlwaysEnforced, PTL DEF ImplementsPinLock
-----------------------------------------------------------------------------
\* Which stage the boot is in, and what the lockout knows of it.
StageOK ==
  /\ stage \notin {"run", "restarting"} => ~booted /\ ~store_open
  /\ hashing => stage = "run" /\ pin_mode \in VerifyModes

\* Data that is to go is covered by the mark in NVS until it is gone.
WipeOK ==
  /\ data \in {"live", "doomed", "partial", "erased"}
  /\ data \in {"doomed", "partial"} => wipe_pending
  /\ stage = "erase_data" => wipe_pending
  /\ stage \in {"erase_nvs", "mark"} => data = "erased"
  /\ stage = "run" => data # "erased"

\* While NVS can be written, a PIN is created only by the setup at boot.
SetupOK ==
  /\ stage = "run" /\ store_open /\ pin_hash = NoPin => pin_setup_at_boot
  /\ store_open /\ pin_mode \in {"create", "retype"} => pin_setup_at_boot

\* The prompt of a request, and an authorization on its way to button_wait_poll.
PromptOK ==
  /\ local_auth_result \in {-1, 0, 1}
  /\ pin_mode = "verify" => waiting
  /\ local_auth_result = 1 => /\ stage = "run" /\ store_open /\ waiting /\ pin_mode = "idle"
                              /\ proven /\ nvs_lock.failures = 0
  /\ presence = "pressed" => store_open

\* The inductive invariant of the device.
DeviceInv == LockInv /\ StageOK /\ WipeOK /\ SetupOK /\ PromptOK

\* A new device satisfies it.
LEMMA InitDeviceInv == Init => DeviceInv
<1> SUFFICES ASSUME Init PROVE DeviceInv
  OBVIOUS
<1>1. LockInit
  BY DEF Init
<1>2. local_auth_result # 1 /\ local_auth_result \in {-1, 0, 1}
  BY DEF Init, RamInit
<1>3. StageOK /\ WipeOK /\ SetupOK /\ PromptOK
  BY <1>1, <1>2, Zenon DEF Init, LockInit, RamInit, StageOK, WipeOK, SetupOK, PromptOK, VerifyModes
<1> QED BY <1>1, <1>3, InitLockInv DEF DeviceInv

\* Every step keeps it.
LEMMA NextDeviceInv == DeviceInv /\ [Next]_vars => DeviceInv'
<1> SUFFICES ASSUME DeviceInv, [Next]_vars PROVE DeviceInv'
  OBVIOUS
<1> DEFINE OK == StageOK /\ WipeOK /\ SetupOK /\ PromptOK
<1>0. LockInv /\ OK /\ LockTypeOK
  BY DEF DeviceInv, LockInv
<1>l. LockInv'
  BY <1>0, StepOfLock, NextLockInv
<1> SUFFICES OK'
  BY <1>l DEF DeviceInv
<1> HIDE DEF OK
<1>1. ASSUME NEW p \in Pins, EnterFirst(p) PROVE OK'
  BY <1>0, <1>1, WalletUiAssumption
  DEF OK, EnterFirst, PressSubmit, Keypad, UiTask, Core0, StageOK, WipeOK, SetupOK, PromptOK,
      VerifyModes, lockVars, bootVars, viewVars, waitVars, hostVars, LockTypeOK
<1>2. ASSUME NEW p \in Pins, Mismatch(p) PROVE OK'
  BY <1>0, <1>2, WalletUiAssumption
  DEF OK, Mismatch, PressSubmit, Keypad, UiTask, Core0, StageOK, WipeOK, SetupOK, PromptOK,
      VerifyModes, lockVars, bootVars, viewVars, waitVars, hostVars, LockTypeOK
<1>3. ASSUME NEW p \in Pins, CreatePin(p) PROVE OK'
  BY <1>0, <1>3, WalletUiAssumption
  DEF OK, CreatePin, PressSubmit, Keypad, UiTask, Core0, StoreNew, StoreNewFails, StageOK,
      WipeOK, SetupOK, PromptOK, VerifyModes, lockVars, bootVars, viewVars, waitVars, hostVars,
      LockTypeOK
<1>4. ASSUME NEW p \in Pins, ChangePin(p) PROVE OK'
  BY <1>0, <1>4, WalletUiAssumption
  DEF OK, ChangePin, PressSubmit, Keypad, UiTask, Core0, StoreNew, StoreNewFails, StageOK,
      WipeOK, SetupOK, PromptOK, VerifyModes, lockVars, bootVars, viewVars, waitVars, hostVars,
      LockTypeOK
<1>5. ASSUME NEW p \in Pins, EnterPin(p) PROVE OK'
  BY <1>0, <1>5, WalletUiAssumption
  DEF OK, EnterPin, PressSubmit, Keypad, UiTask, Core0, PassGate, StageOK, WipeOK, SetupOK,
      PromptOK, VerifyModes, lockVars, bootVars, viewVars, waitVars, hostVars, LockTypeOK
<1>6. ASSUME NEW kind \in {"cbor", "msg"}, Request(kind) PROVE OK'
  BY <1>0, <1>6
  DEF OK, Request, StageOK, WipeOK, SetupOK, PromptOK, VerifyModes, lockVars, bootVars, pinVars,
      LockTypeOK
<1>7. CASE ResetCheck
  BY <1>0, <1>7
  DEF OK, ResetCheck, StageOK, WipeOK, SetupOK, PromptOK, VerifyModes, lockVars, bootVars,
      pinVars, viewVars, waitVars, hostVars, LockTypeOK
<1>8. CASE EraseData
  BY <1>0, <1>8
  DEF OK, EraseData, StageOK, WipeOK, SetupOK, PromptOK, VerifyModes, lockVars, bootVars,
      pinVars, viewVars, waitVars, hostVars, LockTypeOK
<1>9. CASE EraseNvs
  BY <1>0, <1>9
  DEF OK, EraseNvs, EraseLock, StageOK, WipeOK, SetupOK, PromptOK, VerifyModes, lockVars,
      bootVars, pinVars, viewVars, waitVars, hostVars, LockTypeOK
<1>10. CASE MarkDone
  BY <1>0, <1>10
  DEF OK, MarkDone, StageOK, WipeOK, SetupOK, PromptOK, VerifyModes, lockVars, bootVars,
      pinVars, viewVars, waitVars, hostVars, LockTypeOK
<1>11. CASE UiInit
  BY <1>0, <1>11
  DEF OK, UiInit, LoadLock, StageOK, WipeOK, SetupOK, PromptOK, VerifyModes, lockVars, bootVars,
      pinVars, viewVars, waitVars, hostVars, LockTypeOK
<1>12. CASE Restart
  BY <1>0, <1>12
  DEF OK, Restart, PowerLoss, RamReset, StageOK, WipeOK, SetupOK, PromptOK, VerifyModes,
      lockVars, bootVars, pinVars, viewVars, waitVars, hostVars, LockTypeOK
<1>13. CASE TornErase
  BY <1>0, <1>13
  DEF OK, TornErase, EraseLock, RamReset, StageOK, WipeOK, SetupOK, PromptOK, VerifyModes,
      lockVars, bootVars, pinVars, viewVars, waitVars, hostVars, LockTypeOK
<1>14. CASE NoticeExpires
  BY <1>0, <1>14
  DEF OK, NoticeExpires, Core0, StageOK, WipeOK, SetupOK, PromptOK, VerifyModes, lockVars,
      bootVars, pinVars, viewVars, waitVars, hostVars, LockTypeOK
<1>15. CASE ResultExpires
  BY <1>0, <1>15
  DEF OK, ResultExpires, UiTask, Core0, StageOK, WipeOK, SetupOK, PromptOK, VerifyModes,
      lockVars, bootVars, pinVars, viewVars, waitVars, hostVars, LockTypeOK
<1>16. CASE ShowCommand
  BY <1>0, <1>16
  DEF OK, ShowCommand, UiTask, Core0, StageOK, WipeOK, SetupOK, PromptOK, VerifyModes, lockVars,
      bootVars, pinVars, viewVars, waitVars, hostVars, LockTypeOK
<1>17. CASE Verified
  <2>1. /\ Answer(TRUE) /\ pin_mode = "verify" /\ pin_mode' = "idle" /\ local_auth_result' = 1
        /\ proven' = TRUE /\ hashing /\ hashing' = FALSE
        /\ UNCHANGED <<booted, store_open, bootVars, pin_hash, pin_setup_at_boot, viewVars,
                       presence>>
    BY <1>17 DEF Verified, Judged, Answer
  <2>2. nvs_lock'.failures = 0
    BY <1>0, <2>1, NextRecordFacts DEF Answer, LockTypeOK
  <2>3. stage = "run" /\ store_open /\ waiting
    BY <1>0, <2>1 DEF OK, StageOK, PromptOK, LockInv, AttemptOK
  <2> QED BY <1>0, <2>1, <2>2, <2>3
          DEF OK, StageOK, WipeOK, SetupOK, PromptOK, bootVars, viewVars
<1>18. CASE ChangeAllowed
  BY <1>0, <1>18
  DEF OK, ChangeAllowed, Judged, Answer, StageOK, WipeOK, SetupOK, PromptOK, VerifyModes,
      lockVars, bootVars, pinVars, viewVars, waitVars, hostVars, LockTypeOK
<1>19. CASE ResetAllowed
  <2>1. /\ hashing /\ hashing' = FALSE /\ stage = "run" /\ pin_mode = "reset_verify"
        /\ local_auth_result # 1
        /\ UNCHANGED <<booted, store_open, pin_hash, pin_setup_at_boot, waiting, presence,
                       local_auth_result>>
    BY <1>0, <1>19 DEF OK, ResetAllowed, Judged, Answer, StageOK, PromptOK, waitVars, hostVars
  <2>2. \/ /\ wipe_pending' = TRUE /\ data' = "doomed" /\ stage' = "restarting"
           /\ pin_mode' = "idle"
        \/ wipe_pending' \in {wipe_pending, TRUE} /\ UNCHANGED <<data, stage, pin_mode>>
    BY <1>19 DEF ResetAllowed
  <2>3. CASE wipe_pending' = TRUE /\ data' = "doomed" /\ stage' = "restarting" /\ pin_mode' = "idle"
    BY <1>0, <2>1, <2>3 DEF OK, StageOK, WipeOK, SetupOK, PromptOK
  <2>4. CASE wipe_pending' \in {wipe_pending, TRUE} /\ UNCHANGED <<data, stage, pin_mode>>
    BY <1>0, <2>1, <2>4 DEF OK, StageOK, WipeOK, SetupOK, PromptOK
  <2> QED BY <2>2, <2>3, <2>4
<1>20. CASE Refused
  <2>1. /\ hashing /\ hashing' = FALSE
        /\ UNCHANGED <<booted, store_open, bootVars, pin_hash, pin_mode, pin_setup_at_boot,
                       viewVars, waitVars, hostVars>>
    BY <1>20 DEF Refused, Answer, StoreFails, HashFails
  <2>2. local_auth_result # 1
    BY <1>0, <2>1 DEF OK, StageOK, PromptOK, VerifyModes
  <2> QED BY <1>0, <2>1, <2>2
          DEF OK, StageOK, WipeOK, SetupOK, PromptOK, bootVars, viewVars, waitVars, hostVars
<1>21. CASE button_wait_start
  BY <1>0, <1>21
  DEF OK, button_wait_start, wallet_ui_prompt, Core0, StageOK, WipeOK, SetupOK, PromptOK, VerifyModes, lockVars,
      bootVars, pinVars, viewVars, waitVars, hostVars, LockTypeOK
<1>22. CASE button_wait_poll
  <2>1. /\ local_auth_result' = 0 /\ pin_mode' = "idle" /\ ~hashing /\ local_auth_result # 0
        /\ UNCHANGED <<booted, store_open, hashing, bootVars, pin_hash, pin_setup_at_boot>>
    BY <1>22 DEF button_wait_poll, Core0, wallet_ui_result, lockVars
  <2>2. presence' = "pressed" => ~cancel_button'
    BY <1>22 DEF button_wait_poll
  <2>3. presence' = "pressed" => local_auth_result = 1
    <3>1. local_auth_result < 0 => cancel_button'
      BY <1>22 DEF button_wait_poll
    <3>2. local_auth_result \in {-1, 0, 1}
      BY <1>0 DEF OK, PromptOK
    <3> QED BY <2>1, <2>2, <3>1, <3>2
  <2> QED BY <1>0, <2>1, <2>3
          DEF OK, StageOK, WipeOK, SetupOK, PromptOK, VerifyModes, bootVars
<1>23. CASE Background
  BY <1>0, <1>23
  DEF OK, Background, StageOK, WipeOK, SetupOK, PromptOK, VerifyModes, lockVars, bootVars,
      pinVars, viewVars, waitVars, hostVars, LockTypeOK
<1>24. CASE HostCancel
  BY <1>0, <1>24
  DEF OK, HostCancel, StageOK, WipeOK, SetupOK, PromptOK, VerifyModes, lockVars, bootVars,
      pinVars, viewVars, waitVars, hostVars, LockTypeOK
<1>25. CASE Reply
  BY <1>0, <1>25
  DEF OK, Reply, StageOK, WipeOK, SetupOK, PromptOK, VerifyModes, lockVars, bootVars, pinVars,
      viewVars, waitVars, hostVars, LockTypeOK
<1>26. CASE Elapse
  BY <1>0, <1>26
  DEF OK, Elapse, StageOK, WipeOK, SetupOK, PromptOK, VerifyModes, lockVars, bootVars, pinVars,
      viewVars, waitVars, hostVars, LockTypeOK
<1>27. CASE Clock
  BY <1>0, <1>27
  DEF OK, Clock, SetClock, ClockFault, StageOK, WipeOK, SetupOK, PromptOK, VerifyModes,
      lockVars, bootVars, pinVars, viewVars, waitVars, hostVars, LockTypeOK
<1>28. CASE EnterChallenge
  BY <1>0, <1>28
  DEF OK, EnterChallenge, PressSubmit, Keypad, UiTask, Core0, StageOK, WipeOK, SetupOK,
      PromptOK, VerifyModes, lockVars, bootVars, pinVars, viewVars, waitVars, hostVars,
      LockTypeOK
<1>29. CASE MoveSubmit
  BY <1>0, <1>29
  DEF OK, MoveSubmit, StageOK, WipeOK, SetupOK, PromptOK, VerifyModes, lockVars, bootVars,
      pinVars, viewVars, waitVars, hostVars, LockTypeOK
<1>30. CASE GiveUp
  BY <1>0, <1>30
  DEF OK, GiveUp, UiTask, Core0, StageOK, WipeOK, SetupOK, PromptOK, VerifyModes, lockVars,
      bootVars, pinVars, viewVars, waitVars, hostVars, LockTypeOK
<1>31. CASE Navigate
  BY <1>0, <1>31
  DEF OK, Navigate, Menus, UiTask, Core0, StageOK, WipeOK, SetupOK, PromptOK, VerifyModes,
      lockVars, bootVars, pinVars, viewVars, waitVars, hostVars, LockTypeOK
<1>32. CASE UNCHANGED vars
  BY <1>0, <1>32 DEF OK, vars, lockVars, bootVars, pinVars, viewVars, waitVars, hostVars,
     StageOK, WipeOK, SetupOK, PromptOK
<1> QED
  BY <1>1, <1>2, <1>3, <1>4, <1>5, <1>6, <1>7, <1>8, <1>9, <1>10, <1>11, <1>12, <1>13, <1>14,
     <1>15, <1>16, <1>17, <1>18, <1>19, <1>20, <1>21, <1>22, <1>23, <1>24, <1>25, <1>26, <1>27,
     <1>28, <1>29, <1>30, <1>31, <1>32, Zenon DEF Next, Boot, FailBoot, User, Core, Host

-----------------------------------------------------------------------------
\* The inductive invariant holds of every behaviour of the device.
THEOREM DeviceInvariant == Spec => []DeviceInv
<1> QED BY InitDeviceInv, NextDeviceInv, PTL DEF Spec

\* A device told to wipe itself is never in use with old data and without the mark that
\* has it erased.
THEOREM WipeAlwaysBeforeUse == Spec => []WipeBeforeUse
<1>1. DeviceInv => WipeBeforeUse
  BY DEF DeviceInv, WipeOK, WipeBeforeUse
<1> QED BY <1>1, DeviceInvariant, PTL

\* A request is approved only on a right PIN entered at its own prompt and on record.
THEOREM ApprovalAlwaysNeedsPin == Spec => ApprovalNeedsPin
<1>1. DeviceInv /\ [Next]_vars
        => [presence # "pressed" /\ presence' = "pressed" => proven /\ nvs_lock.failures = 0]_vars
  <2> SUFFICES ASSUME DeviceInv, Next, presence # "pressed", presence' = "pressed"
               PROVE  proven /\ nvs_lock.failures = 0
    OBVIOUS
  <2>1. button_wait_poll
    BY Zenon DEF Next, Boot, FailBoot, User, Core, Host, ResetCheck, EraseData, EraseNvs,
       MarkDone, UiInit,
           Restart, TornErase, RamReset, NoticeExpires, ResultExpires, ShowCommand, Verified,
           ChangeAllowed, ResetAllowed, Refused, button_wait_start, Request, Background,
           HostCancel, Reply, Elapse, Clock, EnterFirst, Mismatch, CreatePin, ChangePin,
           EnterPin, EnterChallenge, MoveSubmit, GiveUp, Navigate, hostVars
  <2>2. local_auth_result \in {-1, 0, 1} /\ local_auth_result # 0 /\ ~(local_auth_result < 0)
    BY <2>1 DEF button_wait_poll, DeviceInv, PromptOK
  <2>3. local_auth_result = 1
    BY <2>2
  <2> QED BY <2>3 DEF DeviceInv, PromptOK
<1> QED BY <1>1, DeviceInvariant, PTL DEF Spec, ApprovalNeedsPin
=============================================================================
