---------------------------------- MODULE Otp -----------------------------------
(***************************************************************************)
(* The one-time-password slots (otp.c, otp_container.c): configurations    *)
(* that are written, updated, swapped and deleted, and whose passwords are *)
(* typed at the press of a button.  A Yubico password is told from others  *)
(* by a counter, stored with the slot and bumped once per boot, and by a   *)
(* session counter in RAM; an HOTP password by a stored counter alone.     *)
(*                                                                         *)
(* Slots live in one container (the bank), written as a whole and          *)
(* synchronously, or in files of an older format, left to the write-back.  *)
(* Wrong access codes, checksums and lengths change nothing and are left   *)
(* out, and so are the frames of the keyboard interface and what is only   *)
(* reported (config_seq, status_byte).                                     *)
(***************************************************************************)
EXTENDS Naturals

CONSTANTS
  OtpSlots,          \* slots (four)
  MaxCounter,        \* the stored counter stops there (0x7fff)
  Sessions,          \* values of the session counter (256)
  MaxOtpOps, MaxOtpLosses, MaxOtpFaults    \* bounds: commands and presses, power losses, failed writes

ASSUME OtpAssumption ==
  /\ MaxCounter \in Nat \ {0} /\ Sessions \in Nat \ {0}
  /\ MaxOtpOps \in Nat /\ MaxOtpLosses \in Nat /\ MaxOtpFaults \in Nat

VARIABLES
  bank, bankDisk,    \* the slots, as read and as a boot would find them
  session_counter, scanned,
  fresh,             \* ghost: configurations made or bumped since power came on
  typed,             \* ghost: <<configuration, counter, session>> of the passwords typed
  repeated,          \* ghost: one of them was typed twice
  excused,           \* ghost: something happened after which the code cannot do better
  otpOps, otpLosses, otpFaults

otpStored == <<bank, bankDisk>>
otpRam    == <<session_counter, scanned>>
otpGhosts == <<fresh, typed, repeated, excused>>
otpVars   == <<otpStored, otpRam, otpGhosts, otpOps, otpLosses, otpFaults>>

-----------------------------------------------------------------------------
SlotKinds  == {"yubico", "hotp", "other"}       \* other: static passwords, challenge-response
Unused == [form |-> "none"]
Held(s) == bank[s] # Unused

OtpInit ==
  /\ \E old \in SUBSET OtpSlots :
       /\ \A s, t \in old : s = t                \* one at most
       /\ bank = [s \in OtpSlots |-> IF s \in old THEN [form |-> "legacy", kind |-> "yubico", id |-> 0, counter |-> 0] ELSE Unused]
  /\ bankDisk = bank
  /\ session_counter = [s \in OtpSlots |-> 0] /\ scanned = FALSE
  /\ fresh = {} /\ typed = {} /\ repeated = FALSE /\ excused = FALSE
  /\ otpOps = 0 /\ otpLosses = 0 /\ otpFaults = 0

\* Nothing is asked of a run that is excused: it ends there.
OtpOp    == ~excused /\ otpOps < MaxOtpOps /\ otpOps' = otpOps + 1 /\ UNCHANGED otpLosses
OtpFault == otpFaults < MaxOtpFaults /\ otpFaults' = otpFaults + 1

\* otp_slot_store: an old file stays one; everything else goes to the bank, and gets its marker.
Stored(b, s, c) == [b EXCEPT ![s] = [c EXCEPT !.form = IF b[s].form = "legacy" THEN "legacy" ELSE "container"]]
Synced(b, ss) == IF \A s \in ss : bank[s].form = "legacy" THEN bankDisk ELSE b
SlotStore(s, c) ==
  /\ bank' = Stored(bank, s, c) /\ bankDisk' = Synced(bank', {s})
  /\ UNCHANGED otpFaults
\* Failing, it leaves the old slot, the new one, or the new one without a marker.
StoreFailsWith(s, c) ==
  /\ OtpFault
  /\ bank' \in {bank, Stored(bank, s, c)}
               \cup (IF bank[s].form = "none" THEN {[bank EXCEPT ![s] = [c EXCEPT !.form = "unmarked"]]} ELSE {})
  /\ UNCHANGED bankDisk

-----------------------------------------------------------------------------
\* init_otp, from the FIDO core, the management applet and a press: once per boot the counter of
\* every Yubico slot is bumped.  A slot that cannot be written ends it, to be repeated.
Bumps(s) == Held(s) /\ bank[s].kind = "yubico" /\ bank[s].counter < MaxCounter
Bumped(ss) == [s \in OtpSlots |-> IF s \in ss THEN [bank[s] EXCEPT !.counter = @ + 1] ELSE bank[s]]
BumpAll_Static(ss) == bank
BumpAll(ss) == Bumped(ss)
init_otp ==
  LET ss == {s \in OtpSlots : Bumps(s)} IN
  /\ ~scanned /\ OtpOp
  /\ \/ /\ bank' = BumpAll(ss) /\ bankDisk' = IF \E s \in ss : bank[s].form # "legacy" THEN bank' ELSE bankDisk
        /\ fresh' = fresh \cup {bank[s].id : s \in {t \in OtpSlots : Held(t)}} /\ scanned' = TRUE
        /\ UNCHANGED otpFaults
     \/ /\ OtpFault
        /\ \E done \in SUBSET ss : bank' = BumpAll(done)
        /\ UNCHANGED <<bankDisk, fresh, scanned>>
  /\ UNCHANGED <<session_counter, typed, repeated, excused>>

\* otp_status, with a selection, a report of the keyboard interface, or the touch of a
\* challenge-response: files are looked at, and that counts as the scan.
otp_status ==
  /\ OtpOp /\ scanned' = TRUE
  /\ UNCHANGED <<otpStored, session_counter, otpGhosts, otpFaults>>

-----------------------------------------------------------------------------
\* otp_button_pressed, after init_otp: what is typed, and what is stored first.
Type(s, c, session) ==
  LET p == <<bank[s].id, c, session>> IN
  /\ typed' = typed \cup {p}
  /\ repeated' = (repeated \/ (p \in typed /\ c < MaxCounter))
  /\ excused' = (excused \/ bank[s].id \notin fresh)

\* The counter of this password, that of the next, and whether it has to be stored.
This(n) == IF n = 0 THEN 1 ELSE n
Next_NoCarry(n, session) == This(n)
NextCounter(n, session) == IF (session + 1) % Sessions = 0 /\ This(n) < MaxCounter THEN This(n) + 1 ELSE This(n)

PressYubico(s) ==
  LET n == bank[s].counter
      c == [bank[s] EXCEPT !.counter = NextCounter(n, session_counter[s])]
  IN  /\ OtpOp /\ Held(s) /\ bank[s].kind = "yubico"
      /\ \/ /\ IF c = bank[s] THEN UNCHANGED <<otpStored, otpFaults>> ELSE SlotStore(s, c)
            /\ session_counter' = [session_counter EXCEPT ![s] = (@ + 1) % Sessions]
            /\ Type(s, This(n), session_counter[s])
         \/ c # bank[s] /\ StoreFailsWith(s, c) /\ UNCHANGED <<session_counter, typed, repeated, excused>>
      /\ UNCHANGED <<scanned, fresh>>

\* The HOTP value is typed, then its counter is stored, whatever comes of it.
PressHotp(s) ==
  LET c == [bank[s] EXCEPT !.counter = @ + 1] IN
  /\ OtpOp /\ Held(s) /\ bank[s].kind = "hotp"
  /\ \/ SlotStore(s, c) /\ excused' = excused
     \/ StoreFailsWith(s, c) /\ excused' = TRUE
  /\ typed' = typed \cup {<<c.id, bank[s].counter, 0>>}
  /\ repeated' = (repeated \/ <<c.id, bank[s].counter, 0>> \in typed)
  /\ UNCHANGED <<otpRam, fresh>>

-----------------------------------------------------------------------------
\* The commands, with the right access code where a slot is in use.
Configure(s, kind) ==
  LET c == [form |-> "container", kind |-> kind, id |-> otpOps + 1, counter |-> 0] IN
  /\ OtpOp
  /\ \/ SlotStore(s, c) /\ scanned' = TRUE
     \/ StoreFailsWith(s, c) /\ UNCHANGED <<scanned>>
  /\ fresh' = fresh \cup {c.id}
  /\ UNCHANGED <<session_counter, typed, repeated, excused>>

\* Flags change, key and counters stay.
UpdateSlot(s) ==
  /\ OtpOp
  /\ \/ Held(s) /\ SlotStore(s, bank[s])
     \/ ~Held(s) /\ UNCHANGED <<otpStored, otpFaults>>
  /\ scanned' = TRUE
  /\ UNCHANGED <<session_counter, otpGhosts>>

\* otp_slot_delete: a slot of the bank without its marker is left where it is.
Cleared(s) == [bank EXCEPT ![s] = IF bank[s].form = "unmarked" THEN @ ELSE Unused]
DeleteSlot(s) ==
  /\ OtpOp
  /\ \/ /\ bank' = Cleared(s) /\ bankDisk' = IF bank[s].form = "container" THEN bank' ELSE bankDisk
        /\ scanned' = TRUE /\ UNCHANGED otpFaults
     \/ /\ bank[s].form = "container" /\ OtpFault /\ bank' \in {bank, Cleared(s)}
        /\ UNCHANGED <<bankDisk, scanned>>
  /\ UNCHANGED <<session_counter, otpGhosts>>

\* Two slots swapped: in one write of the bank, or one after the other when a file is involved.  The
\* session counters go with them.
Swapped(s, t) ==
  LET moved(b, x, c) == IF c = Unused THEN [b EXCEPT ![x] = Unused] ELSE Stored(b, x, c)
  IN  moved(moved(bank, s, bank[t]), t, bank[s])
Legacy(s) == bank[s].form = "legacy"
SessionSwap_Stay(s, t) == session_counter
SessionSwap(s, t) == [session_counter EXCEPT ![s] = session_counter[t], ![t] = session_counter[s]]

SwapSlots(s, t) ==
  /\ OtpOp /\ s # t /\ (Held(s) \/ Held(t)) /\ "unmarked" \notin {bank[s].form, bank[t].form}
  /\ \/ /\ bank' = Swapped(s, t)
        /\ bankDisk' = IF Legacy(s) /\ Legacy(t) THEN bankDisk ELSE bank'
        /\ session_counter' = SessionSwap(s, t) /\ scanned' = TRUE
        /\ UNCHANGED <<excused, otpFaults>>
     \/ /\ OtpFault                          \* not at all, in full without an answer, or half
        /\ bank' \in {bank, Swapped(s, t)} \cup (IF Legacy(s) \/ Legacy(t) THEN {[bank EXCEPT ![s] = Swapped(s, t)[s]]} ELSE {})
        /\ excused' = (excused \/ bank' # bank)
        /\ UNCHANGED <<bankDisk, session_counter, scanned>>
  /\ UNCHANGED <<fresh, typed, repeated>>

-----------------------------------------------------------------------------
\* Files of the older format, and what failed calls left, reach the flash; the bank in one piece.
BankWriteBack ==
  /\ ~excused
  /\ \/ \E s \in OtpSlots : /\ bank[s].form = "legacy" \/ bankDisk[s].form = "legacy"
                            /\ bankDisk[s] # bank[s] /\ bankDisk' = [bankDisk EXCEPT ![s] = bank[s]]
     \/ bank # bankDisk /\ bankDisk' = bank
  /\ UNCHANGED <<bank, otpRam, otpGhosts, otpOps, otpLosses, otpFaults>>

OtpPowerLoss ==
  /\ ~excused /\ otpLosses < MaxOtpLosses /\ otpLosses' = otpLosses + 1
  /\ bank' = bankDisk
  /\ session_counter' = [s \in OtpSlots |-> 0] /\ scanned' = FALSE
  /\ fresh' = {} /\ excused' = (excused \/ bank # bankDisk)
  /\ UNCHANGED <<bankDisk, typed, repeated, otpOps, otpFaults>>

OtpNext ==
  \/ init_otp \/ otp_status
  \/ \E s \in OtpSlots : \/ PressYubico(s) \/ PressHotp(s) \/ UpdateSlot(s) \/ DeleteSlot(s)
                         \/ \E k \in SlotKinds : Configure(s, k)
                         \/ \E t \in OtpSlots : SwapSlots(s, t)
  \/ BankWriteBack \/ OtpPowerLoss

OtpSpec == OtpInit /\ [][OtpNext]_otpVars

-----------------------------------------------------------------------------
\* No password is typed twice: sessions that wrap, swaps, updates, new configurations and restarts
\* in any order keep (counter, session) of one configuration apart, up to the last counter.  Except
\* when the boot's bump did not happen (files scanned by otp_status first, or a failed write), when
\* power is lost before a slot of the older format was written back, when a swap or the store of an
\* HOTP counter failed.
PasswordsDiffer == repeated => excused
=================================================================================
