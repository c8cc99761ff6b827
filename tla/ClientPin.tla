------------------------------- MODULE ClientPin -------------------------------
(***************************************************************************)
(* The client PIN of CTAP2 (cbor_client_pin.c, fido.c): its file with the  *)
(* retry counter and the soft-lock marker, the device key wrapped under    *)
(* it, the two auth tokens, and the commands that present a token.         *)
(*                                                                         *)
(* A command runs alone on the card thread; file_put_data changes the      *)
(* cached page at once and core 0 writes the pages back later, so a file   *)
(* is what the code reads now and the set of values flash may hold.  Only  *)
(* flash_commit_sync waits, and it may give up.  A power loss inside of a  *)
(* command leaves what one right after it may leave.                       *)
(***************************************************************************)
EXTENDS Integers, FiniteSets

CONSTANTS
  Pins, NoPin,     \* PINs, by the hash the platform sends; NoPin: an empty EF_PIN
  RPs, NoRP,       \* relying parties; NoRP: no rpId
  Requests,        \* the sets of permissions a platform asks for
  MAX_PIN_RETRIES, \* 8
  MaxMismatches,   \* wrong PINs before the soft lock (3)
  MaxTimeouts,     \* bound on the commits that time out
  MaxLosses        \* bound on the power losses

Permissions == {"mc", "ga", "cm", "acfg", "lbw"}

ASSUME ClientPinAssumption ==
  /\ NoPin \notin Pins /\ NoRP \notin RPs
  /\ Requests \subseteq SUBSET Permissions /\ {} \notin Requests
  /\ MAX_PIN_RETRIES \in 1..255 /\ MaxMismatches \in Nat \ {0}
  /\ MaxTimeouts \in Nat /\ MaxLosses \in Nat

VARIABLES
  fs,                 \* EF_PIN, EF_KEY_DEV, EF_MINPINLEN[1], EF_AUTHTOKEN, EF_PAUTHTOKEN
  paut,               \* permissions, bound RP, user_verified and in_use of the token
  ppaut,              \* the persistent token has its permission
  needs_power_cycle,  \* the soft lock
  new_pin_mismatches,
  hkey_init,          \* initialize() has run since power came on
  session_pin,        \* the key the device key is unwrapped with
  \* History.
  guesses,            \* wrong PINs compared since a right one
  credit,             \* wrong PINs that may still be answered as such before the soft lock
  proof,              \* what the last right PIN was given for, and what was done with it
  torn,               \* power went while a re-wrap of the device key was not on flash
  revived,            \* power went while a new token was not on flash
  timeouts, losses

vars == <<fs, paut, ppaut, needs_power_cycle, new_pin_mismatches, hkey_init, session_pin,
          guesses, credit, proof, torn, revived, timeouts, losses>>

-----------------------------------------------------------------------------
(* Files and their write-back. *)

\* file_put_data, and the write-back of the page.
Put(f, v)  == [f EXCEPT !.now = v, !.flash = @ \cup {v}]
Drained(f) == [f EXCEPT !.flash = {f.now}]
Pending(f) == f.flash # {f.now}

\* flash_commit_sync that returns in time: core 0 has written every page.
Synced(files) == [n \in DOMAIN files |-> Drained(files[n])]

\* A token is "live" from when it is made until the next one is, then "stale".  The record of
\* its file also has the tokens platforms hold, and of those the ones that must be worthless.
Outdated(h) == IF h = {} THEN {} ELSE {"stale"}

\* resetAuthToken: a new random token.
Renewed(f) ==
  [now   |-> "live",
   flash |-> {IF v = "absent" THEN v ELSE "stale" : v \in f.flash} \cup {"live"},
   held  |-> Outdated(f.held),
   void  |-> Outdated(f.void)]

\* The platform is given the token.
Given(f) == [f EXCEPT !.held = @ \cup {f.now}]

\* History: from here on, what platforms hold must be worthless.
Void(f) == [f EXCEPT !.void = f.held]
VoidToken(files)  == [files EXCEPT !["token"] = Void(@)]
VoidTokens(files) == [files EXCEPT !["token"] = Void(@), !["ptoken"] = Void(@)]

Plain           == <<"plain", NoPin>>     \* the device key in format 1, not wrapped
NoKey           == <<"absent", NoPin>>    \* EF_KEY_DEV cleared
Wrapped(kind, p) == <<kind, p>>           \* "multi": hash_multi, "derived": pin_derive_session
Unset           == [pin |-> NoPin, count |-> 0, marked |-> FALSE, legacy |-> FALSE]
Fresh(p)        == [pin |-> p, count |-> MAX_PIN_RETRIES, marked |-> FALSE, legacy |-> FALSE]

\* load_keydev succeeds with the session s.
Opens(files, s) == files["keydev"].now \in {Plain, s}

\* encrypt_keydev_f1: the device key is put back without a wrapping.
encrypt_keydev_f1(files) == [files EXCEPT !["keydev"] = Put(@, Plain)]

\* check_keydev_encrypted: a key in format 1 is wrapped under the session.
check_keydev_encrypted(files, s) ==
  IF files["keydev"].now = Plain THEN [files EXCEPT !["keydev"] = Put(@, s)] ELSE files

NoGrant == [permissions |-> {}, rp |-> NoRP, uv |-> FALSE, in_use |-> FALSE]
NoProof == [alive |-> FALSE, permissions |-> {}, rp |-> NoRP, rps |-> {}, asserted |-> 0]

\* The files of a device: new, or with a PIN of an older firmware.
FirstFiles(pin, keydev) ==
  LET File(v) == [now |-> v, flash |-> {v}]
      Token   == [now |-> "live", flash |-> {"live"}, held |-> {}, void |-> {}]
  IN  [pin |-> File(pin), keydev |-> File(keydev), force |-> File(FALSE),
       token |-> Token, ptoken |-> Token]

Legacy(p) == [pin |-> p, count |-> MAX_PIN_RETRIES, marked |-> FALSE, legacy |-> TRUE]

Init ==
  /\ fs \in {FirstFiles(Unset, Plain)}
            \cup {FirstFiles(Legacy(p), Plain) : p \in Pins}
            \cup {FirstFiles(Legacy(p), Wrapped("multi", p)) : p \in Pins}
  /\ paut = NoGrant /\ ppaut = FALSE
  /\ needs_power_cycle = FALSE /\ new_pin_mismatches = 0
  /\ hkey_init = FALSE /\ session_pin = Plain
  /\ guesses = 0 /\ credit = MaxMismatches
  /\ proof = NoProof
  /\ torn = FALSE /\ revived = FALSE
  /\ timeouts = 0 /\ losses = 0

pinNow == fs["pin"].now
PinSet == pinNow.pin # NoPin

-----------------------------------------------------------------------------
(* Comparing a PIN: what changePIN and the token requests share. *)

\* Mutated form: the marker is masked away with the retry.
Spent_DropsMarker == [pinNow EXCEPT !.count = @ - 1, !.marked = FALSE]

\* The retry is spent in the file before the PIN is compared.
Spent == [pinNow EXCEPT !.count = @ - 1]

\* persist_pin_retry_counter gives up: the command fails, the write stays pending.
RetryNotPersisted ==
  /\ timeouts < MaxTimeouts
  /\ timeouts' = timeouts + 1
  /\ fs' = [fs EXCEPT !["pin"] = Put(@, Spent)]
  /\ UNCHANGED <<paut, ppaut, needs_power_cycle, new_pin_mismatches, hkey_init, session_pin,
                 guesses, credit, proof, torn, revived, losses>>

\* Mutated form: the spent retry is left to the write-back.
SpentFiles_NoSync == [fs EXCEPT !["pin"] = Put(@, Spent)]

\* The files once the spent retry is on flash.
SpentFiles == Synced([fs EXCEPT !["pin"] = Put(@, Spent)])

\* resetPinUvAuthToken.
WithNewToken(files) == [files EXCEPT !["token"] = Renewed(@)]

\* The third mismatch in a row sets the marker, and the soft lock once that is on flash.
Marked(files) ==
  [files EXCEPT !["pin"] = Put(@, [files["pin"].now EXCEPT !.marked = TRUE])]

LocksNow == new_pin_mismatches + 1 >= MaxMismatches

\* A wrong PIN: new key agreement key and token, then the counter's and the marker's say.
WrongPin ==
  LET files == VoidToken(WithNewToken(SpentFiles))
      told  == IF needs_power_cycle THEN 0 ELSE 1  \* under the lock a right PIN is answered alike
  IN  /\ paut' = [paut EXCEPT !.permissions = {}]
      /\ proof' = NoProof
      /\ guesses' = guesses + 1
      /\ \/ /\ Spent.count = 0                                    \* PIN_BLOCKED
            /\ fs' = files
            /\ credit' = credit - told
            /\ UNCHANGED <<needs_power_cycle, new_pin_mismatches, timeouts>>
         \/ /\ Spent.count > 0 /\ Spent.marked                    \* PIN_AUTH_BLOCKED
            /\ fs' = files
            /\ needs_power_cycle' = TRUE
            /\ credit' = credit - told
            /\ UNCHANGED <<new_pin_mismatches, timeouts>>
         \/ /\ Spent.count > 0 /\ ~Spent.marked
            /\ new_pin_mismatches' = new_pin_mismatches + 1
            /\ \/ /\ ~LocksNow                                    \* PIN_INVALID
                  /\ fs' = files
                  /\ credit' = credit - told
                  /\ UNCHANGED <<needs_power_cycle, timeouts>>
               \/ /\ LocksNow                                     \* PIN_AUTH_BLOCKED
                  /\ fs' = Synced(Marked(files))
                  /\ needs_power_cycle' = TRUE
                  /\ credit' = credit - told
                  /\ UNCHANGED timeouts
               \/ /\ LocksNow                                     \* the marker's commit gives up
                  /\ timeouts < MaxTimeouts
                  /\ timeouts' = timeouts + 1
                  /\ fs' = Marked(files)
                  /\ UNCHANGED <<needs_power_cycle, credit>>
      /\ UNCHANGED <<ppaut, hkey_init, session_pin, torn, revived, losses>>

\* Mutated form: the upgrade leaves the old wrapping.
Upgraded_KeepsWrapping(files) == files

\* A PIN file of the older format: the key is unwrapped under the old session.
Upgraded(files) == IF pinNow.legacy THEN encrypt_keydev_f1(files) ELSE files

\* ... which must open it.
UpgradeOpens(p) == pinNow.legacy => Opens(fs, Wrapped("multi", p))

\* The key does not open: the session is set, the retry stays spent.
UpgradeFails(p) ==
  /\ ~UpgradeOpens(p)
  /\ fs' = SpentFiles
  /\ session_pin' = Wrapped("multi", p)
  /\ UNCHANGED <<paut, ppaut, needs_power_cycle, new_pin_mismatches, hkey_init,
                 guesses, credit, proof, torn, revived, timeouts, losses>>

\* The files after a right PIN: upgraded, the key wrapped, the counter full, no marker.
ProvenFiles(p) ==
  LET files == check_keydev_encrypted(Upgraded(SpentFiles), Wrapped("derived", p))
  IN  [files EXCEPT !["pin"] = Put(@, Fresh(p))]

\* What a right PIN resets.
PinProven ==
  /\ new_pin_mismatches' = 0
  /\ guesses' = 0
  /\ credit' = MaxMismatches

\* Mutated form: a spent counter does not stop the comparison.
MayCompare_Spent == hkey_init /\ PinSet

\* A PIN is set, retries are left.
MayCompare == hkey_init /\ PinSet /\ pinNow.count > 0

-----------------------------------------------------------------------------
(* authenticatorClientPIN. *)

\* The first command since power came on makes a key agreement key and a new token.
\* Platforms ask for that key before they can send a PIN.
getKeyAgreement ==
  /\ ~hkey_init
  /\ hkey_init' = TRUE
  /\ fs' = WithNewToken(fs)
  /\ paut' = [paut EXCEPT !.permissions = {}]
  /\ proof' = NoProof
  /\ UNCHANGED <<ppaut, needs_power_cycle, new_pin_mismatches, session_pin, guesses,
                 credit, torn, revived, timeouts, losses>>

setPIN(n) ==
  /\ hkey_init /\ ~PinSet
  /\ fs' = check_keydev_encrypted([fs EXCEPT !["pin"] = Put(@, Fresh(n))], Wrapped("derived", n))
  /\ session_pin' = Wrapped("derived", n)
  /\ needs_power_cycle' = FALSE
  /\ PinProven
  /\ UNCHANGED <<paut, ppaut, hkey_init, proof, torn, revived, timeouts, losses>>

\* The new PIN is refused, or the key does not open: what the right PIN reset stays so.
changePIN_Refused(p) ==
  /\ fs' = ProvenFiles(p)
  /\ session_pin' = Wrapped("derived", p)
  /\ PinProven
  /\ UNCHANGED <<paut, ppaut, needs_power_cycle, hkey_init, proof, torn, revived,
                 timeouts, losses>>

\* The files with the key wrapped under the new PIN.
Rewrapped(p, n) == check_keydev_encrypted(encrypt_keydev_f1(ProvenFiles(p)), Wrapped("derived", n))

\* A forced change must change the PIN.
SamePinRefused(p, n) == fs["force"].now /\ p = n

\* Mutated form: the persistent token outlives the PIN.
ChangedFiles_KeepsPersistent(p, n) ==
  [Rewrapped(p, n) EXCEPT !["pin"] = Put(@, Fresh(n)), !["force"] = Put(@, FALSE),
                          !["token"] = Renewed(@)]

\* The files after a change of the PIN.
ChangedFiles(p, n) ==
  [Rewrapped(p, n) EXCEPT !["pin"] = Put(@, Fresh(n)), !["force"] = Put(@, FALSE),
                          !["token"] = Renewed(@), !["ptoken"] = Renewed(@)]

changePIN_Changed(p, n) ==
  /\ Opens(ProvenFiles(p), Wrapped("derived", p))
  /\ session_pin' = Wrapped("derived", n)
  /\ PinProven
  /\ \/ /\ SamePinRefused(p, n)
        /\ fs' = Rewrapped(p, n)
        /\ UNCHANGED <<paut, ppaut, proof, needs_power_cycle>>
     \/ /\ ~SamePinRefused(p, n)
        /\ fs' = VoidTokens(ChangedFiles(p, n))
        /\ paut' = [paut EXCEPT !.permissions = {}]
        /\ ppaut' = FALSE
        /\ proof' = NoProof
        /\ needs_power_cycle' = FALSE
  /\ UNCHANGED <<hkey_init, torn, revived, timeouts, losses>>

\* changePIN with the current PIN p and the new one n.
changePIN(p) ==
  /\ MayCompare /\ ~needs_power_cycle
  /\ \/ RetryNotPersisted
     \/ p # pinNow.pin /\ WrongPin
     \/ p = pinNow.pin /\ UpgradeFails(p)
     \/ /\ p = pinNow.pin /\ UpgradeOpens(p)
        /\ changePIN_Refused(p) \/ \E n \in Pins : changePIN_Changed(p, n)

\* A right PIN under the soft lock: the retry is spent all the same.
SoftLocked ==
  /\ needs_power_cycle
  /\ fs' = SpentFiles
  /\ UNCHANGED <<paut, ppaut, needs_power_cycle, new_pin_mismatches, hkey_init, session_pin,
                 guesses, credit, proof, torn, revived, timeouts, losses>>

\* beginUsingPinUvAuthToken, the permissions and the RP.
Granted(permissions, rp) ==
  /\ paut' = [permissions |-> permissions, rp |-> rp, uv |-> TRUE, in_use |-> TRUE]
  /\ proof' = [NoProof EXCEPT !.alive = TRUE, !.permissions = permissions, !.rp = rp]

\* The right PIN: no token while a change is due, else the persistent token as it is, or
\* the other one renewed and in use.
TokenGiven(p) ==
  /\ session_pin' = Wrapped("derived", p)
  /\ PinProven
  /\ \/ /\ fs["force"].now
        /\ fs' = ProvenFiles(p)
        /\ UNCHANGED <<paut, ppaut, proof>>
     \/ /\ ~fs["force"].now
        /\ fs' = [ProvenFiles(p) EXCEPT !["ptoken"] = Given(@)]
        /\ ppaut' = TRUE
        /\ UNCHANGED <<paut, proof>>
     \/ /\ ~fs["force"].now
        /\ fs' = [WithNewToken(ProvenFiles(p)) EXCEPT !["token"] = Given(@)]
        /\ \E permissions \in Requests, rp \in RPs \cup {NoRP} : Granted(permissions, rp)
        /\ UNCHANGED ppaut
  /\ UNCHANGED <<needs_power_cycle, hkey_init, torn, revived, timeouts, losses>>

\* getPinToken and getPinUvAuthTokenUsingPinWithPermissions.
getPinUvAuthToken(p) ==
  /\ MayCompare
  /\ \/ RetryNotPersisted
     \/ p # pinNow.pin /\ WrongPin
     \/ p = pinNow.pin /\ SoftLocked
     \/ p = pinNow.pin /\ ~needs_power_cycle /\ UpgradeFails(p)
     \/ p = pinNow.pin /\ ~needs_power_cycle /\ UpgradeOpens(p) /\ TokenGiven(p)

-----------------------------------------------------------------------------
(* The commands that present a token.  Refusals change nothing. *)

filesAndLocks == <<needs_power_cycle, new_pin_mismatches, hkey_init, session_pin,
                   guesses, credit, torn, revived, timeouts, losses>>

\* verify(): the MAC was made with the token in the file.
Presents(t) == t \in fs["token"].held /\ t = fs["token"].now

MayAct(permission, rp) == permission \in paut.permissions /\ paut.rp \in {NoRP, rp}

\* clearUserVerifiedFlag and clearPinUvAuthTokenPermissionsExceptLbw.
Used == IF paut.in_use THEN [paut EXCEPT !.uv = FALSE, !.permissions = {"lbw"}] ELSE paut

\* authenticatorMakeCredential and authenticatorGetAssertion past their token checks: the
\* token is bound to the RP; it is used up once the user is present, and neither when
\* presence is denied nor when the platform asked for none.
TokenAssertion(permission, rp, t, present) ==
  /\ Presents(t) /\ MayAct(permission, rp)
  /\ paut.in_use /\ paut.uv
  /\ paut' = [(IF present THEN Used ELSE paut) EXCEPT !.rp = rp]
  /\ proof' = [proof EXCEPT !.rps = @ \cup {rp}, !.asserted = @ + (IF present THEN 1 ELSE 0)]
  /\ UNCHANGED <<fs, ppaut, filesAndLocks>>

\* Either command without a token, unless its options ask for no presence.
PlainAssertion ==
  /\ paut.in_use
  /\ paut' = Used
  /\ UNCHANGED <<fs, ppaut, proof, filesAndLocks>>

\* Commands that change nothing here: when authenticatorLargeBlobs writes a fragment, ...
large_blobs_accepts(t) == Presents(t) /\ "lbw" \in paut.permissions

\* ... authenticatorCredentialManagement works on all RPs (NoRP) or on one, ...
cred_mgmt_accepts(rp, t) == Presents(t) /\ MayAct("cm", rp)

\* ... as the preview command, which any token in the file will do for, ...
cred_mgmt_preview_accepts(t) == Presents(t)

\* ... or, to read, with the persistent token.
cred_mgmt_persistent_accepts(t) ==
  t \in fs["ptoken"].held /\ t = fs["ptoken"].now /\ ppaut

\* ... and when authenticatorConfig and the vault's commands pass their token check.
config_accepts(t) == Presents(t) /\ "acfg" \in paut.permissions

ForcedFiles(due) ==
  [fs EXCEPT !["force"] = Put(@, due), !["token"] = Renewed(@), !["ptoken"] = Renewed(@)]

\* setMinPINLength with forceChangePin given, or with a minimum the PIN does not reach.
setMinPINLength_Force(t, due) ==
  /\ config_accepts(t)
  /\ due => PinSet
  /\ fs' = VoidTokens(ForcedFiles(due))
  /\ paut' = [paut EXCEPT !.permissions = {}]
  /\ ppaut' = FALSE
  /\ proof' = NoProof
  /\ UNCHANGED <<needs_power_cycle, new_pin_mismatches, hkey_init, session_pin, guesses, credit,
                 torn, revived, timeouts, losses>>

\* setMinPINLength without: the order is dropped with the rest of the old record.
setMinPINLength(t) ==
  /\ config_accepts(t)
  /\ fs' = [fs EXCEPT !["force"] = Put(@, FALSE)]
  /\ UNCHANGED <<paut, ppaut, proof, filesAndLocks>>

-----------------------------------------------------------------------------
(* Time, transport, power. *)

\* Mutated form: the token's flags are cleared, its permissions are not.
Stopped_KeepsPermissions == [NoGrant EXCEPT !.permissions = paut.permissions]

Stopped == NoGrant

\* pin_uv_auth_token_tick at the next command: the token's time is over.
pin_uv_auth_token_tick ==
  /\ paut.in_use
  /\ paut' = Stopped
  /\ proof' = NoProof
  /\ UNCHANGED <<fs, ppaut, filesAndLocks>>

\* Wrong PINs that may be answered as such from here on, with p as the PIN file.
NewCredit(p) == IF p.marked THEN 1 ELSE MaxMismatches

\* init_fido when CTAPHID_INIT arrives or the application is selected anew.
init_fido ==
  /\ needs_power_cycle' = FALSE
  /\ credit' = NewCredit(pinNow)
  /\ UNCHANGED <<fs, paut, ppaut, new_pin_mismatches, hkey_init, session_pin, guesses,
                 proof, torn, revived, timeouts, losses>>

\* authenticatorReset: the files are cleared and filled again, RAM is left.
cbor_reset ==
  /\ fs' = VoidTokens([fs EXCEPT !["pin"]    = Put(@, Unset),
                                 !["force"]  = Put(@, FALSE),
                                 !["keydev"] = Put(Put(@, NoKey), Plain),
                                 !["token"]  = Renewed(Put(@, "absent")),
                                 !["ptoken"] = Renewed(Put(@, "absent"))])
  /\ needs_power_cycle' = FALSE
  /\ proof' = NoProof
  /\ guesses' = 0 /\ credit' = MaxMismatches
  /\ torn' = FALSE
  /\ UNCHANGED <<paut, ppaut, new_pin_mismatches, hkey_init, session_pin, revived, timeouts, losses>>

\* Core 0 has written the pages.
do_flash ==
  /\ \E n \in DOMAIN fs : Pending(fs[n])
  /\ fs' = Synced(fs)
  /\ UNCHANGED <<paut, ppaut, proof, filesAndLocks>>

\* A file that flash holds as v, and what the scan at boot makes of it.
ReadBack(v)    == [now |-> v, flash |-> {v}]
ScannedKey(v)  == IF v = NoKey THEN Put(ReadBack(v), Plain) ELSE ReadBack(v)
ScannedToken(f, v) ==
  CASE v = "absent" -> Renewed([f EXCEPT !.flash = {v}])
    [] v = "live"   -> Drained(f)
    [] v = "stale"  -> [now |-> v, flash |-> {v}, held |-> f.held \ {"live"},
                        void |-> f.void \ {"live"}]

\* Power is lost and returns: each file is one of the values flash may hold.
PowerLoss ==
  /\ losses < MaxLosses
  /\ losses' = losses + 1
  /\ \E p \in fs["pin"].flash, k \in fs["keydev"].flash, f \in fs["force"].flash,
        t \in fs["token"].flash, u \in fs["ptoken"].flash :
       /\ fs' = [pin    |-> ReadBack(p), keydev |-> ScannedKey(k), force |-> ReadBack(f),
                 token  |-> ScannedToken(fs["token"], t), ptoken |-> ScannedToken(fs["ptoken"], u)]
       /\ credit' = NewCredit(p)
  /\ torn' = (torn \/ Pending(fs["keydev"]))
  /\ revived' = (revived \/ Pending(fs["token"]) \/ Pending(fs["ptoken"]))
  /\ paut' = NoGrant /\ ppaut' = FALSE
  /\ needs_power_cycle' = FALSE /\ new_pin_mismatches' = 0
  /\ hkey_init' = FALSE /\ session_pin' = Plain
  /\ proof' = NoProof
  /\ UNCHANGED <<guesses, timeouts>>

Next ==
  \/ getKeyAgreement \/ pin_uv_auth_token_tick \/ init_fido \/ cbor_reset
  \/ do_flash \/ PowerLoss \/ PlainAssertion
  \/ \E p \in Pins : setPIN(p) \/ changePIN(p) \/ getPinUvAuthToken(p)
  \/ \E t \in fs["token"].held :
       \/ setMinPINLength(t)
       \/ \E due \in BOOLEAN : setMinPINLength_Force(t, due)
       \/ \E rp \in RPs, permission \in {"mc", "ga"}, present \in BOOLEAN :
            TokenAssertion(permission, rp, t, present)

Spec == Init /\ [][Next]_vars
-----------------------------------------------------------------------------
(* Properties. *)

PinValues == [pin : Pins \cup {NoPin}, count : 0..MAX_PIN_RETRIES, marked : BOOLEAN,
              legacy : BOOLEAN]
KeyValues == {Plain, NoKey} \cup {Wrapped(kind, p) : kind \in {"multi", "derived"}, p \in Pins}
TokenFiles == [now : {"live", "stale"}, flash : SUBSET {"live", "stale", "absent"},
               held : SUBSET {"live", "stale"}, void : SUBSET {"live", "stale"}]

\* The types; the retry counter never underflows, the mismatch counter fits its byte.
TypeOK ==
  /\ fs["pin"].now \in PinValues /\ fs["pin"].flash \subseteq PinValues
  /\ fs["keydev"].now \in KeyValues \ {NoKey} /\ fs["keydev"].flash \subseteq KeyValues
  /\ fs["force"].now \in BOOLEAN /\ fs["force"].flash \subseteq BOOLEAN
  /\ fs["token"] \in TokenFiles /\ fs["ptoken"] \in TokenFiles
  /\ paut \in [permissions : SUBSET Permissions, rp : RPs \cup {NoRP}, uv : BOOLEAN,
               in_use : BOOLEAN]
  /\ ppaut \in BOOLEAN /\ needs_power_cycle \in BOOLEAN /\ hkey_init \in BOOLEAN
  /\ new_pin_mismatches \in 0..255
  /\ session_pin \in KeyValues
  /\ guesses \in Nat /\ credit \in Int
  /\ proof \in [alive : BOOLEAN, permissions : SUBSET Permissions, rp : RPs \cup {NoRP},
                rps : SUBSET RPs, asserted : Nat]
  /\ torn \in BOOLEAN /\ revived \in BOOLEAN
  /\ timeouts \in 0..MaxTimeouts /\ losses \in 0..MaxLosses

\* Whatever flash turns out to hold after a power loss, and however many commits timed out,
\* the retries it still grants and the wrong PINs compared since a right one never exceed
\* MAX_PIN_RETRIES together: a retry is on flash before the PIN it pays for is compared.
RetriesOnRecord ==
  \A v \in fs["pin"].flash : v.pin # NoPin => guesses + v.count <= MAX_PIN_RETRIES

\* Between two power-ons or CTAPHID_INITs at most three wrong PINs are told from right ones
\* (one when the marker was found set), and one more for each marker whose commit gave up.
SoftLockHolds == credit >= 0

\* No sequence of commands, refused and timed-out ones included, separates the device key
\* from its PIN: it is not wrapped, or the PIN on file unwraps it, and a granted token finds
\* it open.  Only a power loss before a re-wrap is on flash can (torn).
KeyOpens ==
  ~torn =>
    /\ fs["keydev"].now \in
         {Plain, Wrapped(IF pinNow.legacy THEN "multi" ELSE "derived", pinNow.pin)}
    /\ paut.permissions # {} => Opens(fs, session_pin)

\* What a platform can do with a token it was given is covered by the last right PIN: the
\* permissions asked for then, the RP named or first used, one assertion with the user
\* present, and nothing once time is over or the token was revoked.  Large blobs are the
\* exception the code makes: they stay open after an assertion, asked for or not.
WithinProof ==
  \A t \in fs["token"].held, rp \in RPs :
    /\ \A permission \in {"mc", "ga"} :
         Presents(t) /\ MayAct(permission, rp) /\ paut.in_use /\ paut.uv =>
           /\ proof.alive /\ permission \in proof.permissions
           /\ proof.rp \in {NoRP, rp} /\ proof.rps \subseteq {rp}
           /\ proof.asserted = 0
    /\ \A on \in {rp, NoRP} :
         cred_mgmt_accepts(on, t) =>
           /\ proof.alive /\ "cm" \in proof.permissions
           /\ proof.rp \in {NoRP, on} /\ proof.rps \subseteq {on}
           /\ proof.asserted = 0
    /\ config_accepts(t) => proof.alive /\ "acfg" \in proof.permissions
    /\ large_blobs_accepts(t) => proof.alive

\* A token from before a wrong PIN, a change of the PIN, an order to change it or a reset is
\* worthless, to the preview command and to readers with the persistent token too, unless
\* power went before the token that replaced it was on flash.
VoidStaysVoid ==
  ~revived =>
    /\ \A t \in fs["token"].held : cred_mgmt_preview_accepts(t) => t \notin fs["token"].void
    /\ \A t \in fs["ptoken"].held :
         cred_mgmt_persistent_accepts(t) => t \notin fs["ptoken"].void
=============================================================================
