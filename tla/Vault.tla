---------------------------------- MODULE Vault ----------------------------------
(***************************************************************************)
(* The vault: the ceremony that enrols a key (vault.c), its container and  *)
(* the two files of the older format (vault_container.c), and the vendor   *)
(* commands on them (fido_vault.c).                                        *)
(*                                                                         *)
(* safe is what the device reads, safeDisk what a boot would find.  Every  *)
(* command waits for its writes; a failed write, like a loss of power, may *)
(* leave flash at any stage on the way.  A packet is opened by the         *)
(* challenge it was made for (HPKE, certificate and serial number stand    *)
(* behind that), a blob by the key it was sealed with.  The PIN token is   *)
(* ClientPin's; a command it refuses changes nothing.  Labels are named    *)
(* after the key they come with.                                           *)
(***************************************************************************)
EXTENDS Naturals, FiniteSets

CONSTANTS
  VaultKeys, OldVaultKey, NoVaultKey,
  MaxVaultOps, MaxVaultMishaps       \* bounds: commands; failed writes and losses of power

ASSUME VaultAssumption ==
  /\ OldVaultKey \notin VaultKeys /\ NoVaultKey \notin VaultKeys \cup {OldVaultKey}
  /\ MaxVaultOps \in Nat /\ MaxVaultMishaps \in Nat

VARIABLES
  safe, safeDisk,    \* the container, EF_VAULT_KEY and EF_VAULT_LABEL
  ceremony,          \* vault_enroll_active, _challenge and _button_accepted
  minute,            \* board_millis() < PICOKEYS_VAULT_ENROLL_WINDOW_MS
  hold,              \* the button: up, down, or down for ten seconds
  duration,          \* button_pressed_duration >= PICOKEYS_VAULT_ENROLL_HOLD_MS
  challenges,        \* ceremonies begun so far: challenges are never drawn twice
  heldLong, earned, deliveries, twice,   \* ghosts: see EnrolmentEarned
  rightful,                             \* ghost: see VaultKeyKept
  vaultOps, vaultMishaps

ceremonyVars == <<ceremony, minute, hold, duration, challenges>>
vaultGhosts  == <<heldLong, earned, deliveries, twice>>
vaultVars    == <<safe, safeDisk, ceremony, minute, hold, duration, challenges,
                  heldLong, earned, deliveries, twice, rightful, vaultOps, vaultMishaps>>

-----------------------------------------------------------------------------
(* The store. *)

\* man is the slot of the current manifest, at the slot of the record each object is read from.
NoBox == [form |-> "none"]
LostBox == [form |-> "broken"]
Store(box, oldKey, oldLabel) == [box |-> box, oldKey |-> oldKey, oldLabel |-> oldLabel]

\* What status and export find: key and label.
Lost == <<"lost">>
Enrolled(d) ==
  IF d.box.form = "broken" THEN Lost
  ELSE IF d.box.form = "whole" THEN <<d.box.key, d.box.label>>
  ELSE IF d.oldKey = NoVaultKey THEN <<NoVaultKey, NoVaultKey>> ELSE <<d.oldKey, d.oldLabel>>

\* file_object_container_update of some of the objects.  A record goes to the slot of the manifest
\* that will name it, where the one in use may be.
NextSlot(d) == IF d.box.form = "none" THEN 0 ELSE 1 - d.box.man
WithObject(d, object, v) ==
  LET box == IF d.box.form = "none"
             THEN [form |-> "whole", man |-> 0, key |-> NoVaultKey, label |-> NoVaultKey, at |-> [key |-> 0, label |-> 0]]
             ELSE d.box
  IN  [d EXCEPT !.box = [box EXCEPT !.man = NextSlot(d), ![object] = v, !.at[object] = NextSlot(d)]]
Spoils(d, object) == d.box.form = "whole" /\ d.box[object] # NoVaultKey /\ d.box.at[object] = NextSlot(d)
Spoiled(d, object) == IF Spoils(d, object) THEN {[d EXCEPT !.box = LostBox]} ELSE {}

\* vault_marker_write: the marker takes the place of the older record.
Activated(d) == [d EXCEPT !.oldKey = NoVaultKey]

\* vault_migrate_legacy: both objects in one update, the marker, then the label's file.
NeedsMigration(d) == d.box.form = "none" /\ d.oldKey # NoVaultKey
MigrateStages(d) ==
  LET b == [WithObject(d, "key", d.oldKey).box EXCEPT !.label = d.oldLabel]
      u == [d EXCEPT !.box = b]
      a == Activated(u)
  IN  <<d, u, a, [a EXCEPT !.oldLabel = NoVaultKey]>>
LoadStages(d) == IF NeedsMigration(d) THEN MigrateStages(d) ELSE <<d>>

Final(stages) == stages[Cardinality(DOMAIN stages)]
AnyOf(stages) == {stages[i] : i \in DOMAIN stages}

\* vault_set_kvault, then vault_set_label.
SetStages(d, k) ==
  LET u == WithObject(d, "key", k)
      a == Activated(u)
      v == WithObject(a, "label", k)
  IN  <<d, u, a, v>>
SetSpoils(d, k) == Spoiled(d, "key") \cup Spoiled(Activated(WithObject(d, "key", k)), "label")

\* vault_delete_kvault: the container and the file it took over, or the files of the older format.
Cleared_Box(d) == [d EXCEPT !.box = NoBox]
DeleteStages_KeepsFile(d) ==
  IF d.box.form = "whole" THEN <<d, Cleared_Box(d)>>
  ELSE <<d, Activated(d), [Activated(d) EXCEPT !.oldLabel = NoVaultKey]>>
DeleteStages(d) ==
  IF d.box.form = "whole" THEN <<d, Cleared_Box(d), Activated(Cleared_Box(d))>>
  ELSE <<d, Activated(d), [Activated(d) EXCEPT !.oldLabel = NoVaultKey]>>
DeleteSpoils(d) == IF d.box.form = "whole" THEN {[d EXCEPT !.box = LostBox]} ELSE {}

-----------------------------------------------------------------------------
NoCeremony == [active |-> FALSE, challenge |-> 0, accepted |-> FALSE]

VaultInit ==
  /\ safe \in {Store(NoBox, NoVaultKey, NoVaultKey), Store(NoBox, OldVaultKey, OldVaultKey)}
  /\ safeDisk = safe
  /\ ceremony = NoCeremony /\ minute = TRUE /\ hold = "up" /\ duration = FALSE
  /\ challenges = 0
  /\ heldLong = FALSE /\ earned = {} /\ deliveries = {} /\ twice = FALSE
  /\ rightful = {Enrolled(safe)}
  /\ vaultOps = 0 /\ vaultMishaps = 0

VaultCommand == vaultOps < MaxVaultOps /\ vaultOps' = vaultOps + 1
VaultFault == vaultMishaps < MaxVaultMishaps /\ vaultMishaps' = vaultMishaps + 1

\* A command writes through these stages and waits for each: it gets to the end, or it fails with
\* flash at any of them, a record in use perhaps spoiled.
Through(stages) == safe' = Final(stages) /\ safeDisk' = safe' /\ UNCHANGED vaultMishaps
Halts(stages, spoils) ==
  /\ VaultFault /\ safe' \in AnyOf(stages) \cup spoils
  /\ safeDisk' \in IF safe' = safe THEN {safe, safeDisk} ELSE {safe'}
MayHold(states) == rightful' = rightful \cup {Enrolled(d) : d \in states}

\* vault_load_key, as status, export and import begin: a migration moves the key, and may fail.
load_key == Through(LoadStages(safe))
load_key_Fails == NeedsMigration(safe) /\ Halts(LoadStages(safe), {})

-----------------------------------------------------------------------------
(* The ceremony. *)

picokeys_vault_enrollment_clear == NoCeremony

\* button_ready: what it answers, and what it leaves of the acceptance and of the duration.
WindowOpen == minute \/ ceremony.active
Accepted == WindowOpen /\ (ceremony.accepted \/ duration)
button_ready ==
  /\ ceremony' = [ceremony EXCEPT !.accepted = Accepted]
  /\ duration' = (duration /\ WindowOpen)

\* 0x01, status.
VaultStatus ==
  /\ VaultCommand /\ button_ready /\ (load_key \/ load_key_Fails)
  /\ UNCHANGED <<minute, hold, challenges, vaultGhosts, rightful>>

\* 0x02: a new key pair and challenge; the duration stays.
enrollment_start ==
  /\ VaultCommand /\ Accepted
  /\ challenges' = challenges + 1
  /\ ceremony' = [active |-> TRUE, challenge |-> challenges + 1, accepted |-> FALSE]
  /\ earned' = earned \cup (IF heldLong /\ (minute \/ (ceremony.active /\ challenges \in earned))
                            THEN {challenges + 1} ELSE {})
  /\ UNCHANGED <<safe, safeDisk, minute, hold, duration, heldLong, deliveries, twice, rightful, vaultMishaps>>

\* 0x02 without the button.
enrollment_start_NotAllowed ==
  /\ VaultCommand /\ ~Accepted /\ button_ready
  /\ UNCHANGED <<safe, safeDisk, minute, hold, challenges, vaultGhosts, rightful, vaultMishaps>>

\* enrollment_reset, at the end of every decode.
enrollment_reset_KeepsChallenge == ceremony' = [ceremony EXCEPT !.accepted = FALSE] /\ duration' = FALSE
enrollment_reset == ceremony' = picokeys_vault_enrollment_clear /\ duration' = FALSE

\* 0x03 with a packet of another ceremony, or none that can be read.
enrollment_decode_Fails(n) ==
  /\ VaultCommand /\ ~(ceremony.active /\ ceremony.challenge = n) /\ enrollment_reset
  /\ UNCHANGED <<safe, safeDisk, minute, hold, challenges, vaultGhosts, rightful, vaultMishaps>>

\* 0x03: the key is stored, then the label; only then is the host told.
Delivered(n) ==
  /\ ceremony.active /\ ceremony.challenge = n /\ enrollment_reset
  /\ deliveries' = deliveries \cup {n} /\ twice' = (twice \/ n \in deliveries)
enrollment_finish(n, k) ==
  /\ VaultCommand /\ Delivered(n) /\ safe.box.form # "broken"
  /\ \/ Through(SetStages(safe, k)) /\ rightful' = {<<k, k>>}
     \/ Halts(SetStages(safe, k), SetSpoils(safe, k)) /\ MayHold(AnyOf(SetStages(safe, k)) \cup SetSpoils(safe, k))
  /\ UNCHANGED <<minute, hold, challenges, heldLong, earned>>

\* Nothing can be stored: a container that does not load, or no device key.
enrollment_finish_Fails(n) ==
  /\ VaultCommand /\ Delivered(n)
  /\ UNCHANGED <<safe, safeDisk, minute, hold, challenges, heldLong, earned, rightful, vaultMishaps>>

\* 0x04 and 0x05, export and import: the blob is sealed with the key that is loaded, and no other
\* opens it; the credential in it is Credentials' matter.
vault_export_blob ==
  /\ VaultCommand /\ (load_key \/ load_key_Fails)
  /\ UNCHANGED <<ceremonyVars, vaultGhosts, rightful>>
vault_import_blob ==
  /\ VaultCommand /\ (load_key \/ load_key_Fails)
  /\ UNCHANGED <<ceremonyVars, vaultGhosts, rightful>>

\* 0x06, unenroll.
delete_kvault ==
  /\ VaultCommand /\ safe.box.form # "broken"
  /\ \/ Through(DeleteStages(safe)) /\ rightful' = {<<NoVaultKey, NoVaultKey>>}
     \/ Halts(DeleteStages(safe), DeleteSpoils(safe)) /\ MayHold(AnyOf(DeleteStages(safe)) \cup DeleteSpoils(safe))
  /\ UNCHANGED <<ceremonyVars, vaultGhosts>>

-----------------------------------------------------------------------------
(* authenticatorReset clears all the files, and leaves them to the write-back. *)

VaultReset ==
  /\ VaultCommand
  /\ safe' = Store(NoBox, NoVaultKey, NoVaultKey)
  /\ rightful' = rightful \cup {Enrolled(safe'), Lost, <<safe.oldKey, safe.oldLabel>>, <<safe.oldKey, NoVaultKey>>}
  /\ UNCHANGED <<safeDisk, ceremonyVars, vaultGhosts, vaultMishaps>>

VaultWriteBack ==
  /\ \/ safeDisk.box # safe.box /\ \E b \in {safe.box, LostBox} : safeDisk' = [safeDisk EXCEPT !.box = b]
     \/ safeDisk.oldKey # safe.oldKey /\ safeDisk' = [safeDisk EXCEPT !.oldKey = safe.oldKey]
     \/ safeDisk.oldLabel # safe.oldLabel /\ safeDisk' = [safeDisk EXCEPT !.oldLabel = safe.oldLabel]
  /\ UNCHANGED <<safe, ceremonyVars, vaultGhosts, rightful, vaultOps, vaultMishaps>>

VaultPowerLoss ==
  /\ VaultFault
  /\ safe' = safeDisk /\ UNCHANGED safeDisk
  /\ ceremony' = NoCeremony /\ minute' = TRUE /\ hold' = "up" /\ duration' = FALSE /\ heldLong' = FALSE
  /\ UNCHANGED <<challenges, earned, deliveries, twice, rightful, vaultOps>>

\* The button as button_task sees it, and the first minute.
PollButton ==
  /\ \/ hold = "up"   /\ hold' = "down" /\ duration' = FALSE
     \/ hold = "down" /\ hold' = "up"   /\ duration' = FALSE
     \/ hold = "down" /\ hold' = "long" /\ duration' = TRUE
     \/ hold = "long" /\ hold' \in {"long", "up"} /\ duration' = TRUE
  /\ heldLong' = (heldLong \/ hold' = "long")
  /\ UNCHANGED <<safe, safeDisk, ceremony, minute, challenges, earned, deliveries, twice, rightful, vaultOps, vaultMishaps>>

MinuteOver ==
  /\ minute /\ minute' = FALSE
  /\ UNCHANGED <<safe, safeDisk, ceremony, hold, duration, challenges, vaultGhosts, rightful, vaultOps, vaultMishaps>>

VaultNext ==
  \/ VaultStatus \/ enrollment_start \/ enrollment_start_NotAllowed
  \/ \E n \in 0..challenges : \/ enrollment_decode_Fails(n) \/ enrollment_finish_Fails(n)
                              \/ \E k \in VaultKeys : enrollment_finish(n, k)
  \/ vault_export_blob \/ vault_import_blob \/ delete_kvault
  \/ VaultReset \/ VaultWriteBack \/ VaultPowerLoss \/ PollButton \/ MinuteOver

VaultSpec == VaultInit /\ [][VaultNext]_vaultVars

-----------------------------------------------------------------------------
\* A key is only taken from a packet made for the ceremony in progress, once for each, and every
\* ceremony goes back to one begun within the first minute: either itself was, or it took the place
\* of such a one that was still open; and the button was held for ten seconds since power came on.
EnrolmentEarned == deliveries \subseteq earned /\ ~twice

\* The key and the label that the device reads, and that a boot would read, are those of the last
\* command the host was told of, or of one that failed since: a migration that fails, or power lost
\* in it, changes neither, nothing brings back a key of the older format once the host was told of
\* another or of its deletion, and a container is unreadable only after a failed write over a record
\* in use or a deletion cut short.
VaultKeyKept == Enrolled(safe) \in rightful /\ Enrolled(safeDisk) \in rightful
=================================================================================
