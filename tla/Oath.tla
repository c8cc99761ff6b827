---------------------------------- MODULE Oath ----------------------------------
(***************************************************************************)
(* The OATH application (oath.c) with its credential containers            *)
(* (oath_container.c): access code, one-time-password PIN with its three   *)
(* tries, HOTP counters, and lists sent piece by piece.                    *)
(*                                                                         *)
(* held is what the device reads, kept what a boot would find.  A write    *)
(* to a container or of a PIN's tries waits until the flash holds          *)
(* everything; credentials of the older format, the code and a new PIN are *)
(* left to the write-back, file by file and in any order.  Containers      *)
(* keep the promise of Containers (ContainerHolds): a write that fails     *)
(* leaves the old or the new credential.  How keys are encrypted at rest   *)
(* is left out, so their migration can only fail a selection here.         *)
(***************************************************************************)
EXTENDS Naturals, FiniteSets

CONSTANTS
  CredNames, Codes, OtpPins,   \* names, access codes, PINs
  NoCode, NoOtpPin,
  LastSlot,                    \* slots are 0..LastSlot (MAX_OATH_CRED)
  MaxTries,                    \* MAX_OTP_COUNTER
  MaxPiece,                    \* bound: credentials that fit in one response
  MaxOathOps, MaxOathLosses, MaxOathFaults   \* bounds: commands, power losses, failed writes and syncs

ASSUME OathAssumption ==
  /\ CredNames # {} /\ NoCode \notin Codes /\ NoOtpPin \notin OtpPins
  /\ LastSlot \in Nat /\ MaxTries \in Nat \ {0} /\ MaxPiece \in Nat \ {0}
  /\ MaxOathOps \in Nat /\ MaxOathLosses \in Nat /\ MaxOathFaults \in Nat

VARIABLES
  session,      \* current application, process_apdu set, validated, otp_pin_verified
  oath_chain,   \* oath_chain_state: type and next_index
  held, kept,  \* credentials, code and PIN record
  proof,        \* ghost: code and PIN the host has proved since the selection
  told,         \* ghost: slots listed since the chain began, how often in all, and whether it is over
  wrong,        \* ghost: wrong PINs answered since the last right or new one
  shown,        \* ghost: <<credential, counter>> of the HOTP values given out
  oathOps, oathLosses, oathFaults

oathVars == <<session, oath_chain, held, kept, proof, told, wrong, shown, oathOps, oathLosses, oathFaults>>

-----------------------------------------------------------------------------
CredSlots == 0..LastSlot
NoCred   == [form |-> "none"]
Broken   == [form |-> "broken"]          \* a container cut short in its deletion: its marker is left
NoProof  == [code |-> NoCode, pin |-> NoOtpPin]
NotTold  == [slots |-> {}, count |-> 0, over |-> FALSE]
NoChain  == [type |-> "none", next |-> 0]
NoPinSet == [tries |-> 0, pin |-> NoOtpPin]
OffDuty  == [current |-> FALSE, ready |-> FALSE, validated |-> FALSE, pinOk |-> FALSE]

\* present_oath_cred_fids, in order of slots: the position of a slot in that list.
Present  == {s \in CredSlots : held.creds[s] # NoCred}
Rank(s)  == Cardinality({t \in Present : t < s})
Readable == {s \in Present : held.creds[s] # Broken}

\* find_oath_cred: the first readable credential of that name.
find_oath_cred(name) ==
  {s \in Readable : /\ held.creds[s].name = name
                    /\ \A t \in Readable : held.creds[t].name = name => s <= t}

\* A device with credentials of the older format, or none.
OathInit ==
  /\ session = OffDuty /\ oath_chain = NoChain
  /\ \E old \in {{}, {0}} :
       held = [creds |-> [s \in CredSlots |-> IF s \in old THEN [form |-> "legacy", name |-> CHOOSE n \in CredNames : TRUE,
                                                                  id |-> 0, hotp |-> TRUE, counter |-> 0]
                                               ELSE NoCred],
                code |-> NoCode, pin |-> NoPinSet]
  /\ kept = held
  /\ proof = NoProof /\ told = NotTold /\ wrong = 0 /\ shown = {}
  /\ oathOps = 0 /\ oathLosses = 0 /\ oathFaults = 0

-----------------------------------------------------------------------------
\* A command reaches the application: any but SEND REMAINING ends a chain.
DropChain_Keep == UNCHANGED oath_chain /\ told' = [told EXCEPT !.over = FALSE]
DropChain == oath_chain' = NoChain /\ told' = NotTold
Commanded ==
  /\ session.current /\ session.ready /\ oathOps < MaxOathOps
  /\ oathOps' = oathOps + 1
  /\ UNCHANGED oathLosses
Faultless == UNCHANGED oathFaults
OathFault == oathFaults < MaxOathFaults /\ oathFaults' = oathFaults + 1

\* oath_migrate_secrets, done at the first selection after a boot.
oath_migrate_secrets(ok) == IF ok THEN Faultless ELSE OathFault

\* Selection, with the migration of old keys that may fail; once the handlers are set they stay.
OathSelect(migrated) ==
  /\ oathOps < MaxOathOps /\ oathOps' = oathOps + 1
  /\ oath_migrate_secrets(migrated)
  /\ session' = [current |-> TRUE, ready |-> session.ready \/ migrated, pinOk |-> FALSE,
                 validated |-> held.code = NoCode /\ held.pin = NoPinSet]
  /\ DropChain
  /\ proof' = NoProof
  /\ UNCHANGED <<held, kept, wrong, shown, oathLosses>>

\* Another application is selected.
oath_unload ==
  /\ session.current
  /\ session' = [OffDuty EXCEPT !.ready = session.ready] /\ DropChain /\ proof' = NoProof
  /\ UNCHANGED <<held, kept, wrong, shown, oathOps, oathLosses, oathFaults>>

\* A refused or unknown command.
Refused ==
  /\ Commanded /\ DropChain /\ Faultless
  /\ UNCHANGED <<session, held, kept, proof, wrong, shown>>

-----------------------------------------------------------------------------
\* oath_credential_write: an old file in place, left to the write-back; a container, synchronously,
\* created where there is none.  Failing, it leaves the old or the new credential.
Rewritten(s, c) ==
  [c EXCEPT !.form = IF held.creds[s].form = "legacy" THEN "legacy" ELSE "container"]
Write(s, c) ==
  LET after == [held EXCEPT !.creds[s] = Rewritten(s, c)] IN
  /\ held' = after
  /\ kept' = IF held.creds[s].form = "legacy" THEN kept ELSE after
  /\ Faultless
WriteFails(s, c) ==
  /\ OathFault
  /\ held' \in {held, [held EXCEPT !.creds[s] = Rewritten(s, c)]}
  /\ UNCHANGED kept

\* The slot of PUT: the one with that name, else the first free one, if any.
PutSlot(name) ==
  IF find_oath_cred(name) # {} THEN find_oath_cred(name)
  ELSE {s \in CredSlots \ Present : \A t \in CredSlots \ Present : s <= t}

\* The data of PUT, the counter of an HOTP credential filled up to eight bytes.
NewCred(name, hotp) == [form |-> "container", name |-> name, id |-> oathOps + 1, hotp |-> hotp, counter |-> 0]

cmd_put(name, hotp) ==
  /\ Commanded /\ session.validated /\ DropChain
  /\ \E s \in PutSlot(name) :
       LET c == NewCred(name, hotp)
       IN  Write(s, c) \/ WriteFails(s, c)
  /\ UNCHANGED <<session, proof, wrong, shown>>

\* oath_credential_delete: an old file is left to the write-back; a container goes synchronously, or
\* in part.
cmd_delete(name) ==
  /\ Commanded /\ session.validated /\ DropChain
  /\ \E s \in find_oath_cred(name) :
       LET gone(v) == [held EXCEPT !.creds[s] = v] IN
       IF held.creds[s].form = "legacy"
       THEN held' = gone(NoCred) /\ Faultless /\ UNCHANGED kept
       ELSE \/ held' = gone(NoCred) /\ kept' = gone(NoCred) /\ Faultless
            \/ held' \in {held, gone(Broken), gone(NoCred)} /\ OathFault /\ UNCHANGED kept
  /\ UNCHANGED <<session, proof, wrong, shown>>

cmd_rename(name, new) ==
  /\ Commanded /\ session.validated /\ name # new /\ DropChain
  /\ \E s \in find_oath_cred(name) :
       LET c == [held.creds[s] EXCEPT !.name = new] IN Write(s, c) \/ WriteFails(s, c)
  /\ UNCHANGED <<session, proof, wrong, shown>>

\* An HOTP value is given out once the next counter is written.
Advance_After(s) ==
  /\ held' = [held EXCEPT !.creds[s].counter = @ + 1] /\ UNCHANGED kept /\ Faultless
  /\ shown' = shown \cup {<<held.creds[s].id, held.creds[s].counter>>}
Advance(s) ==
  LET c == [held.creds[s] EXCEPT !.counter = @ + 1] IN
  \/ Write(s, c) /\ shown' = shown \cup {<<c.id, held.creds[s].counter>>}
  \/ WriteFails(s, c) /\ UNCHANGED shown

\* CALCULATE; a time-based credential changes nothing, and touch may be refused.
cmd_calculate(name) ==
  /\ Commanded /\ session.validated /\ DropChain
  /\ \E s \in find_oath_cred(name) :
       \/ held.creds[s].hotp /\ Advance(s)
       \/ ~held.creds[s].hotp /\ Faultless /\ UNCHANGED <<held, kept, shown>>
  /\ UNCHANGED <<session, proof, wrong>>

\* GET CREDENTIAL and VERIFY CODE, which tell but change nothing, need the PIN when there is one.
ReadSecret(name) ==
  /\ Commanded /\ session.validated /\ (held.pin # NoPinSet => session.pinOk)
  /\ find_oath_cred(name) # {} /\ DropChain /\ Faultless
  /\ UNCHANGED <<session, held, kept, proof, wrong, shown>>

-----------------------------------------------------------------------------
\* LIST and CALCULATE ALL: the credentials from next_index on, as many as fit, skipping unreadable ones.
Entries(from, upto) == {s \in Readable : from <= Rank(s) /\ Rank(s) < upto}
Furthest(from, room) ==
  IF from > Cardinality(Present) THEN from
  ELSE CHOOSE n \in from..Cardinality(Present) :
         /\ Cardinality(Entries(from, n)) <= room
         /\ n < Cardinality(Present) => Cardinality(Entries(from, n + 1)) > room

SendPiece(type, from, before, room) ==
  IF ~session.validated THEN oath_chain' = NoChain /\ told' = NotTold
  ELSE LET n == Furthest(from, room)
           p == Entries(from, n)
           over == n >= Cardinality(Present)
       IN  /\ oath_chain' = IF over THEN NoChain ELSE [type |-> type, next |-> n]
           /\ told' = [slots |-> before.slots \cup p, count |-> before.count + Cardinality(p), over |-> over]

cmd_list(type, room) ==
  /\ Commanded /\ Faultless
  /\ SendPiece(type, 0, NotTold, room)
  /\ UNCHANGED <<session, held, kept, proof, wrong, shown>>

cmd_send_remaining(room) ==
  /\ Commanded /\ Faultless /\ oath_chain # NoChain
  /\ SendPiece(oath_chain.type, oath_chain.next, told, room)
  /\ UNCHANGED <<session, held, kept, proof, wrong, shown>>

-----------------------------------------------------------------------------
\* SET CODE: a new code takes the PIN away and has to be proved at once; or the code is removed.
SetCode_StaysValid(c) ==
  /\ held' = [held EXCEPT !.code = c, !.pin = NoPinSet] /\ UNCHANGED session
SetCode(c) ==
  /\ held' = [held EXCEPT !.code = c, !.pin = NoPinSet]
  /\ session' = [session EXCEPT !.validated = FALSE]
SetCodeFails ==
  /\ held' \in {held, [held EXCEPT !.pin = NoPinSet]}
  /\ session' = [session EXCEPT !.validated = FALSE]

cmd_set_code ==
  /\ Commanded /\ session.validated /\ DropChain
  /\ \/ \E c \in Codes : SetCode(c) /\ Faultless
     \/ SetCodeFails /\ OathFault
     \/ held.code # NoCode /\ held' = [held EXCEPT !.code = NoCode] /\ Faultless /\ UNCHANGED session
  /\ UNCHANGED <<kept, proof, wrong, shown>>

\* VALIDATE with the right response, or a code that is not there.
cmd_validate ==
  /\ Commanded /\ DropChain /\ Faultless
  /\ session' = [session EXCEPT !.validated = TRUE]
  /\ proof' = [proof EXCEPT !.code = held.code]
  /\ UNCHANGED <<held, kept, wrong, shown>>

\* RESET: container by container, synchronously, then the rest, left to the write-back.
cmd_reset ==
  LET boxes == {s \in Present : held.creds[s].form # "legacy"}
      without(ss) == [held EXCEPT !.creds = [s \in CredSlots |-> IF s \in ss THEN NoCred ELSE @[s]]]
      last == IF boxes = {} THEN {} ELSE {s \in boxes : \A t \in boxes : t <= s}
  IN  /\ Commanded /\ DropChain
      /\ \/ /\ held' = [creds |-> [s \in CredSlots |-> NoCred], code |-> NoCode, pin |-> NoPinSet]
            /\ kept' = IF boxes = {} THEN kept
                       ELSE without({s \in Present : \E t \in last : s <= t})
            /\ session' = [session EXCEPT !.validated = TRUE, !.pinOk = FALSE]
            /\ Faultless
         \/ /\ OathFault                     \* a purge fails, those before it are done
            /\ \E b \in boxes : LET before == without({s \in Present : s < b})
                               IN  held' \in {before, [before EXCEPT !.creds[b] = Broken], [before EXCEPT !.creds[b] = NoCred]}
            /\ UNCHANGED <<kept, session>>
      /\ UNCHANGED <<proof, wrong, shown>>

-----------------------------------------------------------------------------
\* oath_check_pin: the try is written before the PIN is compared; without that, no comparison.
Spent == [held EXCEPT !.pin = [tries |-> held.pin.tries - 1, pin |-> held.pin.pin]]
Full(p) == [tries |-> MaxTries, pin |-> p]

CheckPin ==
  /\ held.pin # NoPinSet /\ held.pin.tries > 0
  /\ kept' = Spent

\* A write fails: the try's, or that of the record that was to follow a right PIN (only there may
\* otp_pin_verified be left as it was).
CheckFails ==
  /\ Commanded /\ DropChain /\ OathFault
  /\ held.pin # NoPinSet /\ held.pin.tries > 0
  /\ \/ held' \in {held, Spent} /\ UNCHANGED kept /\ session' = [session EXCEPT !.pinOk = FALSE]
     \/ held' = Spent /\ kept' = Spent /\ UNCHANGED session
  /\ UNCHANGED <<proof, wrong, shown>>

cmd_verify_otp_pin(p) ==
  /\ Commanded /\ DropChain /\ Faultless /\ CheckPin
  /\ IF p = held.pin.pin
     THEN /\ held' = [held EXCEPT !.pin = Full(p)] /\ wrong' = 0
          /\ session' = [session EXCEPT !.validated = TRUE, !.pinOk = TRUE]
          /\ proof' = [proof EXCEPT !.pin = p]
     ELSE /\ held' = Spent /\ wrong' = wrong + 1
          /\ session' = [session EXCEPT !.validated = FALSE, !.pinOk = FALSE]
          /\ UNCHANGED proof
  /\ UNCHANGED shown

cmd_change_otp_pin(p, new) ==
  /\ Commanded /\ DropChain /\ Faultless /\ CheckPin
  /\ IF p = held.pin.pin THEN held' = [held EXCEPT !.pin = Full(new)] /\ wrong' = 0
     ELSE held' = Spent /\ wrong' = wrong + 1
  /\ session' = [session EXCEPT !.pinOk = FALSE]
  /\ UNCHANGED <<proof, shown>>

\* A PIN that is blocked says so whatever is sent.
Blocked(verify) ==
  /\ Commanded /\ DropChain /\ Faultless /\ held.pin # NoPinSet /\ held.pin.tries = 0
  /\ session' = [session EXCEPT !.pinOk = FALSE, !.validated = session.validated /\ ~verify]
  /\ UNCHANGED <<held, kept, proof, wrong, shown>>

cmd_set_otp_pin(p) ==
  /\ Commanded /\ DropChain /\ Faultless /\ session.validated /\ held.pin = NoPinSet
  /\ held' = [held EXCEPT !.pin = Full(p)] /\ wrong' = 0
  /\ session' = [session EXCEPT !.pinOk = FALSE]
  /\ UNCHANGED <<kept, proof, shown>>

-----------------------------------------------------------------------------
\* low_flash_task writes one more file.
OathWriteBack ==
  /\ \/ \E s \in CredSlots : kept.creds[s] # held.creds[s] /\ kept' = [kept EXCEPT !.creds[s] = held.creds[s]]
     \/ kept.code # held.code /\ kept' = [kept EXCEPT !.code = held.code]
     \/ kept.pin # held.pin /\ kept' = [kept EXCEPT !.pin = held.pin]
  /\ UNCHANGED <<session, oath_chain, held, proof, told, wrong, shown, oathOps, oathLosses, oathFaults>>

OathPowerLoss ==
  /\ oathLosses < MaxOathLosses /\ oathLosses' = oathLosses + 1
  /\ held' = kept /\ session' = OffDuty /\ oath_chain' = NoChain
  /\ proof' = NoProof /\ told' = NotTold
  /\ UNCHANGED <<kept, wrong, shown, oathOps, oathFaults>>

OathNext ==
  \/ \E b \in BOOLEAN : OathSelect(b) \/ Blocked(b)
  \/ oath_unload \/ Refused
  \/ \E n \in CredNames : \/ \E h \in BOOLEAN : cmd_put(n, h)
                          \/ cmd_delete(n) \/ cmd_calculate(n) \/ ReadSecret(n)
                          \/ \E m \in CredNames : cmd_rename(n, m)
  \/ \E room \in 1..MaxPiece : \/ \E t \in {"list", "all"} : cmd_list(t, room)
                               \/ cmd_send_remaining(room)
  \/ cmd_set_code \/ cmd_validate \/ cmd_reset \/ CheckFails
  \/ \E p \in OtpPins : \/ cmd_verify_otp_pin(p) \/ cmd_set_otp_pin(p)
                        \/ \E q \in OtpPins : cmd_change_otp_pin(p, q)
  \/ OathWriteBack \/ OathPowerLoss

OathSpec == OathInit /\ [][OathNext]_oathVars

-----------------------------------------------------------------------------
\* What the session is allowed, the host has earned since the application was selected: validated
\* with a code on the device means that this code was proved, or a PIN; otp_pin_verified with a PIN
\* on the device means that this PIN was verified.  No order of SET CODE, SET PIN, CHANGE PIN,
\* RESET, selections and power losses gives it away.
OathSessionEarned ==
  /\ session.validated => held.code = NoCode \/ proof.code = held.code \/ proof.pin # NoOtpPin
  /\ session.pinOk /\ held.pin # NoPinSet => proof.pin = held.pin.pin

\* Neither tries nor HOTP counters go back: the PIN's tries, in cache and flash, are at most what the
\* wrong PINs answered so far leave of three, and no credential in a container, as the device or the
\* next boot reads it, stands at a counter whose value was given out.
OathCountersHold ==
  \A f \in {held, kept} :
    /\ f.pin # NoPinSet => f.pin.tries + wrong <= MaxTries
    /\ \A s \in CredSlots : f.creds[s].form = "container" =>
         \A n \in 0..MaxOathOps : <<f.creds[s].id, n>> \in shown => n < f.creds[s].counter

\* A list that was sent to its end, in however many pieces, had every readable credential exactly once.
ListIsComplete == told.over => told.slots = Readable /\ told.count = Cardinality(Readable)
=================================================================================
