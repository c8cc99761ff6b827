------------------------------- MODULE CtapProofs -------------------------------
(***************************************************************************)
(* What parts of the CTAP2 application and of the smart-card side promise  *)
(* for every value of their constants: the upload of large blobs, the      *)
(* vault, responses fetched in pieces and chained commands, and the        *)
(* resident credentials.                                                   *)
(***************************************************************************)
EXTENDS LargeBlobs, Vault, Apdu, Credentials, FiniteSetTheorems, SequenceTheorems, WellFoundedInduction, TLAPS

(* Large blobs.  The file is right because the upload that filled it was:  *)
(* BlobInv ties the trail and the parts received to the offset the code    *)
(* expects next.  The parts count only once that offset is past 0, for a   *)
(* refused fragment at offset 0 begins an upload over the old parts; and   *)
(* an upload that stands at its end has a hash that did not fit, or an     *)
(* empty fragment could store it under any name.                           *)

Parts   == [of : Arrays \X BlobLengths, at : Nat]
Uploads == [len : {0} \cup BlobLengths, next : Nat, active : BOOLEAN]

\* The offsets below n, in order.
UpTo(n) == [i \in 1..n |-> i - 1]

UploadOK ==
  /\ upload \in Uploads /\ temp_lba \in Seq(Parts)
  /\ upload.next <= upload.len
  /\ trail = UpTo(upload.next)
  /\ upload.next > 0 => Len(temp_lba) = upload.next
  /\ upload.next > 0 /\ upload.next = upload.len => ~HashFits(temp_lba)

BlobInv ==
  /\ UploadOK
  /\ DOMAIN blob = {"ram", "disk"}
  /\ StoredArrayWasSent

\* It is that sequence.
LEMMA UpToFacts ==
  ASSUME NEW n \in Nat
  PROVE  /\ UpTo(n) \in Seq(Nat) /\ Len(UpTo(n)) = n
         /\ \A i \in 1..n : UpTo(n)[i] = i - 1
<1>1. UpTo(n) \in [1..n -> Nat]
  BY DEF UpTo
<1> QED  BY <1>1 DEF UpTo

\* One more offset, or none, is appended to the trail.
LEMMA TrailGrows ==
  ASSUME NEW o \in Nat, NEW size \in {0, 1}
  PROVE  UpTo(o) \o [i \in 1..size |-> o] = UpTo(o + size)
<1> DEFINE t == UpTo(o)
           e == [i \in 1..size |-> o]
           r == UpTo(o + size)
<1>1. t \in Seq(Nat) /\ Len(t) = o /\ \A i \in 1..o : t[i] = i - 1
  BY UpToFacts
<1>2. e \in [1..size -> Nat]
  OBVIOUS
<1>3. e \in Seq(Nat) /\ Len(e) = size /\ \A i \in 1..size : e[i] = o
  BY <1>2
<1>4. r \in Seq(Nat) /\ Len(r) = o + size /\ \A i \in 1..(o + size) : r[i] = i - 1
  BY UpToFacts
<1> HIDE DEF t, e, r
<1>5. /\ t \o e \in Seq(Nat) /\ Len(t \o e) = o + size
      /\ \A i \in 1..(o + size) : (t \o e)[i] = i - 1
  BY <1>1, <1>3
<1>6. t \o e = r
  BY <1>4, <1>5, SeqEqual
<1> QED  BY <1>6 DEF t, e, r

\* Only an array with all its parts, in order, is stored.
LEMMA SetAcceptedStep ==
  ASSUME LargeBlobsAssumption, BlobInv, NEW o \in 0..MaxParts, NEW length \in {0} \cup BlobLengths,
         NEW size \in {0, 1}, NEW param, NEW a \in Arrays, NEW n \in BlobLengths,
         SetAccepted(o, length, size, [of |-> <<a, n>>, at |-> o], param)
  PROVE  BlobInv'
<1> DEFINE part  == [of |-> <<a, n>>, at |-> o]
           u     == Begun(o, length)
           added == IF size = 0 THEN <<>> ELSE <<part>>
           parts == (IF o = 0 THEN <<>> ELSE temp_lba) \o added
           path  == (IF o = 0 THEN <<>> ELSE trail) \o [i \in 1..size |-> o]
           done  == o + size = u.len /\ HashFits(parts)
<1>1. MaxParts \in Nat
  BY DEF LargeBlobsAssumption
<1>2. /\ u \in Uploads /\ o = u.next /\ o + size <= u.len /\ u.len # 0
      /\ o # 0 => u = upload
  <2>1. u \in Uploads
    BY DEF BlobInv, UploadOK, Uploads, Begun, SetAccepted, FragmentSent
  <2>2. o = u.next /\ o + size <= u.len
    BY DEF SetAccepted
  <2>3. u.len # 0
    <3>1. CASE o = 0
      BY <3>1, <1>1 DEF Begun, SetAccepted, FragmentSent, BlobLengths
    <3>2. CASE o # 0
      BY <3>2, <2>1, <2>2 DEF Uploads
    <3> QED  BY <3>1, <3>2
  <2> QED  BY <2>1, <2>2, <2>3 DEF Begun
<1> HIDE DEF u
<1>3. part \in Parts
  BY DEF Parts
<1>4. added \in Seq(Parts) /\ Len(added) = size /\ (size = 1 => added[1] = part)
  <2> HIDE DEF part
  <2> QED  BY <1>3
<1>5. /\ parts \in Seq(Parts) /\ Len(parts) = o + size
      /\ size = 1 => parts[Len(parts)] = part
      /\ size = 0 /\ o # 0 => parts = temp_lba
  <2> HIDE DEF part, added
  <2>1. CASE o = 0
    BY <1>4, <2>1
  <2>2. CASE o # 0
    <3>1. temp_lba \in Seq(Parts) /\ Len(temp_lba) = o
      BY <1>2, <2>2 DEF BlobInv, UploadOK
    <3>2. parts = temp_lba \o added
      BY <2>2
    <3>3. size = 0 => added = <<>>
      BY DEF added
    <3> HIDE DEF parts
    <3> QED  BY <1>4, <3>1, <3>2, <3>3
  <2> QED  BY <2>1, <2>2
<1>6. path = UpTo(o + size)
  <2>1. (IF o = 0 THEN <<>> ELSE trail) = UpTo(o)
    <3>1. CASE o = 0
      BY <3>1 DEF UpTo
    <3>2. CASE o # 0
      BY <1>2, <3>2 DEF BlobInv, UploadOK
    <3> QED  BY <3>1, <3>2
  <2>2. UpTo(o) \o [i \in 1..size |-> o] = UpTo(o + size)
    <3>1. o \in Nat
      BY <1>1
    <3> QED  BY <3>1, TrailGrows, Zenon
  <2> QED  BY <2>1, <2>2
<1>7. /\ temp_lba' = parts /\ trail' = (IF done THEN <<>> ELSE path)
      /\ upload' = (IF done THEN NoUpload ELSE [u EXCEPT !.next = o + size])
      /\ \/ UNCHANGED blob
         \/ done /\ blob' = [blob EXCEPT !.ram = [array |-> part.of, trail |-> path]]
  BY DEF SetAccepted, u
<1> HIDE DEF part, added, parts, path
<1>8. UploadOK'
  <2>1. CASE done
    <3>1. upload' = NoUpload /\ trail' = <<>> /\ temp_lba' \in Seq(Parts)
      BY <1>5, <1>7, <2>1
    <3>2. UpTo(0) = <<>>
      BY DEF UpTo
    <3> QED  BY <3>1, <3>2 DEF UploadOK, NoUpload, Uploads
  <2>2. CASE ~done
    <3>1. upload' = [u EXCEPT !.next = o + size] /\ trail' = path /\ temp_lba' = parts
      BY <1>7, <2>2
    <3>2. upload' \in Uploads /\ upload'.next = o + size /\ upload'.len = u.len
      BY <1>2, <3>1 DEF Uploads
    <3>3. upload'.next = upload'.len => ~HashFits(temp_lba')
      BY <2>2, <3>1, <3>2
    <3>4. HashFits(temp_lba)' = HashFits(temp_lba')
      BY DEF HashFits
    <3> QED  BY <1>2, <1>5, <1>6, <3>1, <3>2, <3>3, <3>4 DEF UploadOK
  <2> QED  BY <2>1, <2>2
<1>9. DOMAIN blob' = {"ram", "disk"}
  BY <1>7 DEF BlobInv
<1>10. StoredArrayWasSent'
  <2>1. CASE UNCHANGED blob
    BY <2>1 DEF BlobInv, StoredArrayWasSent
  <2>2. CASE done /\ blob' = [blob EXCEPT !.ram = [array |-> part.of, trail |-> path]]
    <3>1. size = 1
      <4>1. ASSUME size = 0
            PROVE  FALSE
        <5>1. o # 0 /\ upload.next = o /\ upload.len = o /\ parts = temp_lba
          BY <1>2, <1>5, <2>2, <4>1
        <5> QED  BY <2>2, <5>1 DEF BlobInv, UploadOK
      <4> QED  BY <4>1
    <3>2. PICK b \in Arrays : parts = [i \in 1..Len(parts) |-> [of |-> <<b, Len(parts)>>, at |-> i - 1]]
      BY <2>2 DEF HashFits
    <3>3. parts[Len(parts)].of = <<b, Len(parts)>>
      BY <1>5, <3>1, <3>2
    <3>4. part.of[2] = o + size
      BY <1>5, <3>1, <3>3
    <3>5. /\ blob'.ram = [array |-> part.of, trail |-> path] /\ blob'.disk = blob.disk
      BY <2>2 DEF BlobInv
    <3>6. blob'.ram.array[2] = o + size /\ blob'.ram.trail = UpTo(o + size)
      BY <1>6, <3>4, <3>5
    <3> QED  BY <3>5, <3>6 DEF BlobInv, StoredArrayWasSent, UpTo
  <2> QED  BY <1>7, <2>1, <2>2
<1> QED  BY <1>8, <1>9, <1>10 DEF BlobInv

\* Every step keeps the invariant.
LEMMA BlobInvNext ==
  ASSUME LargeBlobsAssumption, BlobInv, [LargeBlobsNext]_blobVars
  PROVE  BlobInv'
<1>1. UpTo(0) = <<>>
  BY DEF UpTo
<1>2. NoUpload \in Uploads /\ NoUpload.next = 0 /\ NoUpload.len = 0
  BY DEF NoUpload, Uploads
<1>3. CASE Idle
  <2>1. upload' = NoUpload /\ trail' = <<>> /\ UNCHANGED <<temp_lba, blob>>
    BY <1>3 DEF Idle, cbor_large_blobs_tick
  <2> QED  BY <1>1, <1>2, <2>1 DEF BlobInv, UploadOK, StoredArrayWasSent
<1>4. ASSUME NEW o \in 0..MaxParts, NEW length \in {0} \cup BlobLengths, NEW size \in {0, 1},
             NEW param, SetRefused(o, length, size, param)
      PROVE  BlobInv'
  <2>1. CASE o = 0
    <3>1. /\ upload' = [len |-> length, next |-> 0, active |-> TRUE] /\ trail' = <<>>
          /\ UNCHANGED <<temp_lba, blob>>
      BY <1>4, <2>1 DEF SetRefused, Begun
    <3>2. length \in Nat
      BY DEF BlobLengths, LargeBlobsAssumption
    <3> QED  BY <1>1, <3>1, <3>2 DEF BlobInv, UploadOK, Uploads, StoredArrayWasSent
  <2>2. CASE o # 0
    <3>1. UNCHANGED <<upload, trail, temp_lba, blob>>
      BY <1>4, <2>2 DEF SetRefused, Begun
    <3> QED  BY <3>1 DEF BlobInv, UploadOK, HashFits, StoredArrayWasSent
  <2> QED  BY <2>1, <2>2
<1>5. ASSUME NEW o \in 0..MaxParts, NEW length \in {0} \cup BlobLengths, NEW size \in {0, 1},
             NEW param, NEW a \in Arrays, NEW n \in BlobLengths,
             SetAccepted(o, length, size, [of |-> <<a, n>>, at |-> o], param)
      PROVE  BlobInv'
  BY <1>5, SetAcceptedStep
<1>6. CASE ProofChanges
  BY <1>6 DEF ProofChanges, BlobInv, UploadOK, HashFits, StoredArrayWasSent
<1>7. CASE BlobWriteBack
  <2>1. UNCHANGED <<upload, trail, temp_lba>> /\ blob' = [blob EXCEPT !.disk = blob.ram]
    BY <1>7 DEF BlobWriteBack
  <2>2. blob'.ram = blob.ram /\ blob'.disk = blob.ram /\ DOMAIN blob' = {"ram", "disk"}
    BY <2>1 DEF BlobInv
  <2> QED  BY <2>1, <2>2 DEF BlobInv, UploadOK, HashFits, StoredArrayWasSent
<1>8. CASE BlobPowerLoss
  <2>1. /\ upload' = NoUpload /\ temp_lba' = <<>> /\ trail' = <<>>
        /\ blob' = [blob EXCEPT !.ram = blob.disk]
    BY <1>8 DEF BlobPowerLoss
  <2>2. blob'.ram = blob.disk /\ blob'.disk = blob.disk /\ DOMAIN blob' = {"ram", "disk"}
    BY <2>1 DEF BlobInv
  <2> QED  BY <1>1, <1>2, <2>1, <2>2 DEF BlobInv, UploadOK, StoredArrayWasSent
<1>9. CASE UNCHANGED blobVars
  BY <1>9 DEF blobVars, BlobInv, UploadOK, HashFits, StoredArrayWasSent
<1> QED  BY <1>3, <1>4, <1>5, <1>6, <1>7, <1>8, <1>9 DEF LargeBlobsNext, SetFragment

\* Whatever fragments hosts send, of however many arrays and in whatever order, refused, repeated
\* or late ones included, and wherever power is lost, the file in RAM and in flash holds the empty
\* array or one that was accepted part by part in one upload (cbor_large_blobs).
THEOREM BlobsHold == LargeBlobsSpec => []StoredArrayWasSent
<1>1. LargeBlobsInit => BlobInv
  <2> SUFFICES ASSUME LargeBlobsInit  PROVE BlobInv
    OBVIOUS
  <2>1. UpTo(0) = <<>>
    BY DEF UpTo
  <2> QED  BY <2>1 DEF LargeBlobsInit, BlobInv, UploadOK, NoUpload, Uploads, StoredArrayWasSent
<1>2. BlobInv /\ [LargeBlobsNext]_blobVars => BlobInv'
  BY BlobInvNext, LargeBlobsAssumption
<1>3. BlobInv => StoredArrayWasSent
  BY DEF BlobInv
<1> QED  BY <1>1, <1>2, <1>3, PTL DEF LargeBlobsSpec

-----------------------------------------------------------------------------
(* The vault's ceremony.  What the code goes by, the acceptance and the     *)
(* duration of the press, is tied to what really happened: the button was   *)
(* held, and the open ceremony is the newest, earned and not yet used.      *)

Ceremonies == [active : BOOLEAN, challenge : Nat, accepted : BOOLEAN]

CeremonyInv ==
  /\ ceremony \in Ceremonies /\ challenges \in Nat
  /\ minute \in BOOLEAN /\ hold \in {"up", "down", "long"} /\ duration \in BOOLEAN
  /\ heldLong \in BOOLEAN /\ twice = FALSE
  /\ deliveries \subseteq earned /\ earned \subseteq 1..challenges
  /\ duration \/ ceremony.accepted \/ hold = "long" => heldLong
  /\ ceremony.active => /\ ceremony.challenge = challenges
                        /\ challenges \in earned /\ challenges \notin deliveries

ceremonyState == <<ceremony, challenges, minute, hold, duration, heldLong, twice, earned, deliveries>>

\* A step on the store alone leaves the ceremony.
LEMMA CeremonyFrame ==
  ASSUME CeremonyInv, UNCHANGED ceremonyState
  PROVE  CeremonyInv'
BY DEF CeremonyInv, ceremonyState

\* button_ready remembers a press that happened, and forgets it when the window is over.
LEMMA ButtonReadyStep ==
  ASSUME CeremonyInv, button_ready, UNCHANGED <<minute, hold, challenges, vaultGhosts>>
  PROVE  CeremonyInv'
<1>1. Accepted \in BOOLEAN /\ (Accepted => heldLong)
  BY DEF CeremonyInv, Ceremonies, Accepted, WindowOpen
<1>2. ceremony' = [ceremony EXCEPT !.accepted = Accepted]
  BY DEF button_ready
<1> HIDE DEF Accepted
<1>3. /\ ceremony' \in Ceremonies /\ ceremony'.active = ceremony.active
      /\ ceremony'.challenge = ceremony.challenge /\ ceremony'.accepted = Accepted
  BY <1>1, <1>2 DEF CeremonyInv, Ceremonies
<1>4. duration' \in BOOLEAN /\ (duration' => duration)
  BY DEF button_ready, CeremonyInv, Ceremonies, WindowOpen
<1> QED  BY <1>1, <1>3, <1>4 DEF CeremonyInv, vaultGhosts

\* What enrollment_reset and a boot leave.
LEMMA NoCeremonyFacts ==
  /\ NoCeremony \in Ceremonies /\ NoCeremony.active = FALSE /\ NoCeremony.accepted = FALSE
<1>1. NoCeremony.active = FALSE /\ NoCeremony.accepted = FALSE
  BY DEF NoCeremony
<1> QED  BY <1>1 DEF NoCeremony, Ceremonies

\* A packet is taken for the newest ceremony, which ends with it.
LEMMA DeliveredStep ==
  ASSUME CeremonyInv, NEW n, Delivered(n), UNCHANGED <<minute, hold, challenges, heldLong, earned>>
  PROVE  CeremonyInv'
<1>1. ceremony.active /\ n = challenges /\ challenges \in earned /\ challenges \notin deliveries
  BY DEF Delivered, CeremonyInv
<1>2. /\ ceremony' = NoCeremony /\ duration' = FALSE
      /\ deliveries' = deliveries \cup {n} /\ twice' = (twice \/ n \in deliveries)
  BY DEF Delivered, enrollment_reset, picokeys_vault_enrollment_clear
<1>3. twice' = FALSE
  BY <1>1, <1>2 DEF CeremonyInv
<1> QED  BY <1>1, <1>2, <1>3, NoCeremonyFacts DEF CeremonyInv

\* A ceremony begins with a press, in the first minute or in place of an earned one.
LEMMA StartStep ==
  ASSUME CeremonyInv, enrollment_start
  PROVE  CeremonyInv'
<1>1. Accepted => heldLong /\ (minute \/ ceremony.active)
  BY DEF CeremonyInv, Ceremonies, Accepted, WindowOpen
<1>2. heldLong /\ (minute \/ (ceremony.active /\ challenges \in earned))
  BY <1>1 DEF enrollment_start, CeremonyInv
<1>3. earned' = earned \cup {challenges + 1} /\ challenges' = challenges + 1
  BY <1>2 DEF enrollment_start
<1>4. ceremony' = [active |-> TRUE, challenge |-> challenges + 1, accepted |-> FALSE]
  BY DEF enrollment_start
<1>5. ceremony' \in Ceremonies /\ ceremony'.challenge = challenges + 1 /\ ceremony'.accepted = FALSE
  BY <1>4 DEF Ceremonies, CeremonyInv
<1>6. earned' \subseteq 1..challenges' /\ challenges' \in Nat /\ challenges' \notin deliveries
  BY <1>3 DEF CeremonyInv
<1>7. UNCHANGED <<minute, hold, duration, heldLong, deliveries, twice>>
  BY DEF enrollment_start
<1> QED  BY <1>2, <1>3, <1>5, <1>6, <1>7 DEF CeremonyInv

\* Every step keeps the invariant.
LEMMA CeremonyInvNext ==
  ASSUME CeremonyInv, [VaultNext]_vaultVars
  PROVE  CeremonyInv'
<1>1. CASE VaultStatus
  BY <1>1, ButtonReadyStep DEF VaultStatus
<1>2. CASE enrollment_start
  BY <1>2, StartStep
<1>3. CASE enrollment_start_NotAllowed
  BY <1>3, ButtonReadyStep DEF enrollment_start_NotAllowed
<1>4. ASSUME NEW n \in 0..challenges, enrollment_decode_Fails(n)
      PROVE  CeremonyInv'
  <2>1. /\ ceremony' = NoCeremony /\ duration' = FALSE
        /\ UNCHANGED <<minute, hold, challenges, heldLong, earned, deliveries, twice>>
    BY <1>4 DEF enrollment_decode_Fails, enrollment_reset, picokeys_vault_enrollment_clear, vaultGhosts
  <2> QED  BY <2>1, NoCeremonyFacts DEF CeremonyInv
<1>5. ASSUME NEW n \in 0..challenges, enrollment_finish_Fails(n)
      PROVE  CeremonyInv'
  BY <1>5, DeliveredStep DEF enrollment_finish_Fails
<1>6. ASSUME NEW n \in 0..challenges, NEW k \in VaultKeys, enrollment_finish(n, k)
      PROVE  CeremonyInv'
  BY <1>6, DeliveredStep DEF enrollment_finish
<1>7. CASE vault_export_blob \/ vault_import_blob \/ delete_kvault \/ VaultReset \/ VaultWriteBack
  <2>1. UNCHANGED <<ceremonyVars, vaultGhosts>>
    BY <1>7 DEF vault_export_blob, vault_import_blob, delete_kvault, VaultReset, VaultWriteBack
  <2> QED  BY <2>1, CeremonyFrame DEF ceremonyVars, vaultGhosts, ceremonyState
<1>8. CASE VaultPowerLoss
  <2>1. /\ ceremony' = NoCeremony /\ minute' = TRUE /\ hold' = "up" /\ duration' = FALSE /\ heldLong' = FALSE
        /\ UNCHANGED <<challenges, earned, deliveries, twice>>
    BY <1>8 DEF VaultPowerLoss
  <2> QED  BY <2>1, NoCeremonyFacts DEF CeremonyInv
<1>9. CASE PollButton
  <2>1. UNCHANGED <<ceremony, minute, challenges, earned, deliveries, twice>>
    BY <1>9 DEF PollButton
  <2>2. hold' \in {"up", "down", "long"} /\ duration' \in BOOLEAN
    BY <1>9 DEF PollButton
  <2>3. heldLong' = (heldLong \/ hold' = "long")
    BY <1>9 DEF PollButton
  <2>4. duration' => hold = "long" \/ hold' = "long"
    BY <1>9 DEF PollButton
  <2> QED  BY <2>1, <2>2, <2>3, <2>4 DEF CeremonyInv
<1>10. CASE MinuteOver
  <2>1. minute' = FALSE /\ UNCHANGED <<ceremony, hold, duration, challenges, heldLong, earned, deliveries, twice>>
    BY <1>10 DEF MinuteOver, vaultGhosts
  <2> QED  BY <2>1 DEF CeremonyInv
<1>11. CASE UNCHANGED vaultVars
  BY <1>11, CeremonyFrame DEF vaultVars, ceremonyState
<1> QED  BY <1>1, <1>2, <1>3, <1>4, <1>5, <1>6, <1>7, <1>8, <1>9, <1>10, <1>11 DEF VaultNext

\* However the host mixes its commands with the press, the minute and losses of power, no key is
\* taken but from a packet of an earned ceremony, and from each only once (picokeys_vault_*).
THEOREM EnrolmentHolds == VaultSpec => []EnrolmentEarned
<1>1. VaultInit => CeremonyInv
  <2> SUFFICES ASSUME VaultInit  PROVE CeremonyInv
    OBVIOUS
  <2> QED  BY NoCeremonyFacts DEF VaultInit, CeremonyInv
<1>2. CeremonyInv /\ [VaultNext]_vaultVars => CeremonyInv'
  BY CeremonyInvNext
<1>3. CeremonyInv => EnrolmentEarned
  BY DEF CeremonyInv, EnrolmentEarned
<1> QED  BY <1>1, <1>2, <1>3, PTL DEF VaultSpec

-----------------------------------------------------------------------------
(* The vault's store.  Flash is what the device reads, except after a      *)
(* reset, whose files go to flash in any order: then every mixture of what *)
(* was there with what the reset leaves has to be one the host may find.   *)

StoredKeys == VaultKeys \cup {OldVaultKey, NoVaultKey}
WholeBoxes == [form : {"whole"}, man : {0, 1}, key : StoredKeys, label : StoredKeys,
               at : [key : {0, 1}, label : {0, 1}]]
Boxes == {NoBox, LostBox} \cup WholeBoxes
Stores == [box : Boxes, oldKey : StoredKeys, oldLabel : StoredKeys]

EmptyStore == Store(NoBox, NoVaultKey, NoVaultKey)

\* What a reset may leave of d in flash.
Remnants(d) == {Store(b, k, l) : b \in {d.box, NoBox, LostBox}, k \in {d.oldKey, NoVaultKey},
                                 l \in {d.oldLabel, NoVaultKey}}
Expected(d, found) == d \in Stores /\ Enrolled(d) \in found

SafeInv ==
  /\ safeDisk \in Stores /\ Expected(safe, rightful)
  /\ \/ safeDisk = safe
     \/ safe = EmptyStore /\ \A d \in Remnants(safeDisk) : Expected(d, rightful)

\* A command has one, three or four stages.
LEMMA Cardinalities == Cardinality(1..1) = 1 /\ Cardinality(1..3) = 3 /\ Cardinality(1..4) = 4
<1>1. \A n \in Int : Cardinality(1..n) = IF 1 > n THEN 0 ELSE n - 1 + 1
  BY FS_Interval
<1> DEFINE C(n) == Cardinality(1..n)
<1>2. \A n \in Int : C(n) = IF 1 > n THEN 0 ELSE n - 1 + 1
  BY <1>1
<1> HIDE DEF C
<1>3. C(1) = 1 /\ C(3) = 3 /\ C(4) = 4
  BY <1>2
<1> QED  BY <1>3 DEF C

\* The last of one, and all of them.
LEMMA OneStage ==
  ASSUME NEW a
  PROVE  Final(<<a>>) = a /\ AnyOf(<<a>>) = {a}
<1>1. DOMAIN <<a>> = 1..1
  OBVIOUS
<1>2. Final(<<a>>) = a
  BY <1>1, Cardinalities DEF Final
<1>3. AnyOf(<<a>>) = {a}
  BY <1>1 DEF AnyOf
<1> QED  BY <1>2, <1>3

\* The last of three, and all of them.
LEMMA ThreeStages ==
  ASSUME NEW a, NEW b, NEW c
  PROVE  Final(<<a, b, c>>) = c /\ AnyOf(<<a, b, c>>) = {a, b, c}
<1>1. DOMAIN <<a, b, c>> = 1..3
  OBVIOUS
<1>2. Final(<<a, b, c>>) = c
  BY <1>1, Cardinalities DEF Final
<1>3. AnyOf(<<a, b, c>>) = {a, b, c}
  BY <1>1 DEF AnyOf
<1> QED  BY <1>2, <1>3

\* The last of four, and all of them.
LEMMA FourStages ==
  ASSUME NEW a, NEW b, NEW c, NEW d
  PROVE  Final(<<a, b, c, d>>) = d /\ AnyOf(<<a, b, c, d>>) = {a, b, c, d}
<1>1. DOMAIN <<a, b, c, d>> = 1..4
  OBVIOUS
<1>2. Final(<<a, b, c, d>>) = d
  BY <1>1, Cardinalities DEF Final
<1>3. AnyOf(<<a, b, c, d>>) = {a, b, c, d}
  BY <1>1 DEF AnyOf
<1> QED  BY <1>2, <1>3

\* The forms of a container.
LEMMA BoxFacts ==
  /\ NoBox.form = "none" /\ LostBox.form = "broken" /\ \A b \in WholeBoxes : b.form = "whole"
  /\ \A b \in Boxes : b.form = "whole" => b \in WholeBoxes
<1>1. NoBox.form = "none" /\ LostBox.form = "broken" /\ \A b \in WholeBoxes : b.form = "whole"
  BY DEF NoBox, LostBox, WholeBoxes
<1> QED  BY <1>1 DEF Boxes

\* A store is made of its three files.
LEMMA StoreFacts ==
  ASSUME NEW d \in Stores
  PROVE  /\ d = Store(d.box, d.oldKey, d.oldLabel)
         /\ d.box \in Boxes /\ d.oldKey \in StoredKeys /\ d.oldLabel \in StoredKeys
         /\ \A b : [d EXCEPT !.box = b] = Store(b, d.oldKey, d.oldLabel)
         /\ \A k : [d EXCEPT !.oldKey = k] = Store(d.box, k, d.oldLabel)
         /\ \A l : [d EXCEPT !.oldLabel = l] = Store(d.box, d.oldKey, l)
BY DEF Stores, Store

\* And any three files make one.
LEMMA StoreType ==
  ASSUME NEW b \in Boxes, NEW k \in StoredKeys, NEW l \in StoredKeys
  PROVE  /\ Store(b, k, l) \in Stores
         /\ Store(b, k, l).box = b /\ Store(b, k, l).oldKey = k /\ Store(b, k, l).oldLabel = l
BY DEF Stores, Store

\* What a boot finds in a store, by the form of its container.
LEMMA EnrolledFacts ==
  ASSUME NEW b, NEW k, NEW l
  PROVE  /\ b.form = "broken" => Enrolled(Store(b, k, l)) = Lost
         /\ b.form = "whole" => Enrolled(Store(b, k, l)) = <<b.key, b.label>>
         /\ b.form = "none" => Enrolled(Store(b, k, l)) = IF k = NoVaultKey THEN <<NoVaultKey, NoVaultKey>> ELSE <<k, l>>
BY DEF Enrolled, Store

\* The box after an update: the object is the new one, the other as it was.
LEMMA WithObjectFacts ==
  ASSUME NEW d \in Stores, d.box.form # "broken", NEW v \in StoredKeys
  PROVE  /\ \E b \in WholeBoxes : /\ WithObject(d, "key", v) = Store(b, d.oldKey, d.oldLabel)
                                  /\ b.key = v
         /\ \E b \in WholeBoxes : /\ WithObject(d, "label", v) = Store(b, d.oldKey, d.oldLabel)
                                  /\ b.label = v /\ (d.box.form = "whole" => b.key = d.box.key)
<1> DEFINE box == IF d.box.form = "none"
                  THEN [form |-> "whole", man |-> 0, key |-> NoVaultKey, label |-> NoVaultKey, at |-> [key |-> 0, label |-> 0]]
                  ELSE d.box
           m == NextSlot(d)
<1>1. box \in WholeBoxes
  <2>1. [form |-> "whole", man |-> 0, key |-> NoVaultKey, label |-> NoVaultKey, at |-> [key |-> 0, label |-> 0]] \in WholeBoxes
    BY DEF WholeBoxes, StoredKeys
  <2>2. d.box.form # "none" => d.box \in WholeBoxes
    BY BoxFacts, StoreFacts DEF Boxes
  <2> QED  BY <2>1, <2>2
<1>2. m \in {0, 1}
  <2>1. d.box.form # "none" => d.box \in WholeBoxes
    BY BoxFacts, StoreFacts DEF Boxes
  <2> QED  BY <2>1 DEF NextSlot, WholeBoxes
<1>3. d.box.form = "whole" => box = d.box
  OBVIOUS
<1>4. /\ WithObject(d, "key", v) = [d EXCEPT !.box = [box EXCEPT !.man = m, !.key = v, !.at["key"] = m]]
      /\ WithObject(d, "label", v) = [d EXCEPT !.box = [box EXCEPT !.man = m, !.label = v, !.at["label"] = m]]
  BY DEF WithObject
<1> HIDE DEF box, m
<1> DEFINE kb == [box EXCEPT !.man = m, !.key = v, !.at["key"] = m]
           lb == [box EXCEPT !.man = m, !.label = v, !.at["label"] = m]
<1>5. kb \in WholeBoxes /\ kb.key = v
  BY <1>1, <1>2 DEF WholeBoxes
<1>6. lb \in WholeBoxes /\ lb.label = v /\ lb.key = box.key
  BY <1>1, <1>2 DEF WholeBoxes
<1> HIDE DEF kb, lb
<1>7. WithObject(d, "key", v) = Store(kb, d.oldKey, d.oldLabel) /\ WithObject(d, "label", v) = Store(lb, d.oldKey, d.oldLabel)
  BY <1>4, StoreFacts DEF kb, lb
<1> QED  BY <1>3, <1>5, <1>6, <1>7

\* A command that gets to its end leaves RAM and flash at the last stage.
LEMMA ThroughStep ==
  ASSUME NEW stages, Through(stages), Final(stages) \in Stores, Enrolled(Final(stages)) \in rightful'
  PROVE  SafeInv'
<1>1. safe' = Final(stages) /\ safeDisk' = safe'
  BY DEF Through
<1>2. Enrolled(safe)' = Enrolled(safe')
  BY DEF Enrolled
<1> QED  BY <1>1, <1>2 DEF SafeInv, Expected

\* One that fails leaves them at a stage on the way, or flash as it was before.
LEMMA HaltsStep ==
  ASSUME SafeInv, NEW stages, NEW spoils, Halts(stages, spoils), rightful \subseteq rightful',
         \A d \in AnyOf(stages) \cup spoils : d \in Stores /\ Enrolled(d) \in rightful'
  PROVE  SafeInv'
<1>1. safe' \in Stores /\ Enrolled(safe') \in rightful'
  BY DEF Halts
<1>2. \/ safeDisk' = safe'
      \/ safe' = safe /\ safeDisk' = safeDisk
  BY DEF Halts
<1>3. Expected(safe, rightful)'
  BY <1>1 DEF Expected, Enrolled
<1>4. CASE safeDisk' = safe'
  BY <1>1, <1>3, <1>4 DEF SafeInv
<1>5. CASE safe' = safe /\ safeDisk' = safeDisk
  <2>1. CASE safeDisk = safe
    BY <1>3, <1>5, <2>1 DEF SafeInv
  <2>2. CASE safe = EmptyStore /\ \A d \in Remnants(safeDisk) : Expected(d, rightful)
    <3>1. Remnants(safeDisk') = Remnants(safeDisk)
      BY <1>5
    <3>2. \A d \in Remnants(safeDisk) : d \in Stores /\ Enrolled(d) \in rightful'
      BY <2>2 DEF Expected
    <3>3. safe' = EmptyStore
      BY <1>5, <2>2
    <3>4. EmptyStore' = EmptyStore
      BY DEF EmptyStore, Store, NoBox
    <3> QED  BY <1>3, <1>5, <3>1, <3>2, <3>3, <3>4 DEF SafeInv, Expected
  <2> QED  BY <2>1, <2>2 DEF SafeInv
<1> QED  BY <1>2, <1>4, <1>5

\* A store that a boot would read to the same key and label at every stage of a migration.
LEMMA LoadFacts ==
  ASSUME NEW d \in Stores
  PROVE  /\ Final(LoadStages(d)) \in AnyOf(LoadStages(d))
         /\ \A e \in AnyOf(LoadStages(d)) : e \in Stores /\ Enrolled(e) = Enrolled(d)
<1>1. CASE ~NeedsMigration(d)
  <2>1. LoadStages(d) = <<d>>
    BY <1>1 DEF LoadStages
  <2>2. Final(<<d>>) = d /\ AnyOf(<<d>>) = {d}
    BY OneStage, Zenon
  <2> QED  BY <2>1, <2>2
<1>2. CASE NeedsMigration(d)
  <2>1. d.box.form = "none" /\ d.oldKey # NoVaultKey
    BY <1>2 DEF NeedsMigration
  <2>2. PICK w \in WholeBoxes : WithObject(d, "key", d.oldKey) = Store(w, d.oldKey, d.oldLabel) /\ w.key = d.oldKey
    <3>1. d.box.form # "broken" /\ d.oldKey \in StoredKeys
      BY <2>1, StoreFacts
    <3> QED  BY <3>1, WithObjectFacts
  <2> DEFINE b == [w EXCEPT !.label = d.oldLabel]
             u == Store(b, d.oldKey, d.oldLabel)
             a == Store(b, NoVaultKey, d.oldLabel)
             z == Store(b, NoVaultKey, NoVaultKey)
  <2>3. b \in WholeBoxes /\ b.key = d.oldKey /\ b.label = d.oldLabel
    BY <2>2, StoreFacts DEF WholeBoxes
  <2>4. WithObject(d, "key", d.oldKey).box = w
    BY <2>2 DEF Store
  <2> HIDE DEF b
  <2>5. b \in Boxes /\ b.form = "whole" /\ NoVaultKey \in StoredKeys
    BY <2>3, BoxFacts DEF Boxes, StoredKeys
  <2>6. u \in Stores /\ a \in Stores /\ z \in Stores
    BY <2>5, StoreType, StoreFacts
  <2>7. [d EXCEPT !.box = b] = u /\ Activated(u) = a /\ [a EXCEPT !.oldLabel = NoVaultKey] = z
    <3>1. [d EXCEPT !.box = b] = u
      BY StoreFacts
    <3>2. Activated(u) = a
      BY DEF Activated, Store
    <3>3. [a EXCEPT !.oldLabel = NoVaultKey] = z
      BY DEF Store
    <3> QED  BY <3>1, <3>2, <3>3
  <2>8. MigrateStages(d) = <<d, u, a, z>>
    <3>1. [WithObject(d, "key", d.oldKey).box EXCEPT !.label = d.oldLabel] = b
      BY <2>4 DEF b
    <3> QED  BY <2>7, <3>1 DEF MigrateStages
  <2>9. Enrolled(u) = <<d.oldKey, d.oldLabel>> /\ Enrolled(a) = <<d.oldKey, d.oldLabel>>
        /\ Enrolled(z) = <<d.oldKey, d.oldLabel>>
    BY <2>3, <2>5, EnrolledFacts
  <2>10. Enrolled(d) = <<d.oldKey, d.oldLabel>>
    BY <2>1 DEF Enrolled
  <2> HIDE DEF u, a, z
  <2>11. Final(LoadStages(d)) = z /\ AnyOf(LoadStages(d)) = {d, u, a, z}
    <3>1. Final(<<d, u, a, z>>) = z /\ AnyOf(<<d, u, a, z>>) = {d, u, a, z}
      BY FourStages, SMT
    <3> QED  BY <1>2, <2>8, <3>1 DEF LoadStages
  <2> QED  BY <2>6, <2>9, <2>10, <2>11
<1> QED  BY <1>1, <1>2

\* Enrolling ends with the new key and label; every stage and every spoilt one is a store.
LEMMA SetFacts ==
  ASSUME NEW d \in Stores, d.box.form # "broken", NEW k \in VaultKeys
  PROVE  /\ Final(SetStages(d, k)) \in Stores /\ Enrolled(Final(SetStages(d, k))) = <<k, k>>
         /\ AnyOf(SetStages(d, k)) \cup SetSpoils(d, k) \subseteq Stores
<1> DEFINE u == WithObject(d, "key", k)
           a == Activated(u)
           v == WithObject(a, "label", k)
<1>1. k \in StoredKeys /\ NoVaultKey \in StoredKeys
  BY DEF StoredKeys
<1>2. PICK b \in WholeBoxes : u = Store(b, d.oldKey, d.oldLabel) /\ b.key = k
  BY <1>1, WithObjectFacts
<1>3. b \in Boxes /\ b.form = "whole"
  BY BoxFacts DEF Boxes
<1> HIDE DEF u
<1>4. u \in Stores
  BY <1>2, <1>3, StoreType, StoreFacts
<1>5. a = Store(b, NoVaultKey, d.oldLabel)
  BY <1>2 DEF Activated, Store
<1>6. a \in Stores /\ a.box = b
  BY <1>1, <1>3, <1>5, StoreType, StoreFacts
<1> HIDE DEF a
<1>7. PICK c \in WholeBoxes : v = Store(c, a.oldKey, a.oldLabel) /\ c.label = k /\ c.key = k
  BY <1>1, <1>2, <1>3, <1>6, WithObjectFacts
<1> HIDE DEF v
<1>8. c \in Boxes /\ c.form = "whole"
  BY BoxFacts DEF Boxes
<1>9. v \in Stores /\ Enrolled(v) = <<k, k>>
  BY <1>6, <1>7, <1>8, StoreType, StoreFacts, EnrolledFacts
<1>10. Final(<<d, u, a, v>>) = v /\ AnyOf(<<d, u, a, v>>) = {d, u, a, v}
  BY FourStages, SMT
<1>11. SetStages(d, k) = <<d, u, a, v>>
  BY DEF SetStages, u, a, v
<1>12. LostBox \in Boxes
  BY DEF Boxes
<1>13. \A e \in Stores : [e EXCEPT !.box = LostBox] \in Stores
  BY <1>12 DEF Stores
<1>14. SetSpoils(d, k) \subseteq Stores
  BY <1>6, <1>13 DEF SetSpoils, Spoiled, u, a
<1> QED  BY <1>4, <1>6, <1>9, <1>10, <1>11, <1>14

\* Deleting ends with no key, whatever of it was in the container and in the older files.
LEMMA DeleteFacts ==
  ASSUME NEW d \in Stores, d.box.form # "broken"
  PROVE  /\ Final(DeleteStages(d)) \in Stores
         /\ Enrolled(Final(DeleteStages(d))) = <<NoVaultKey, NoVaultKey>>
         /\ AnyOf(DeleteStages(d)) \cup DeleteSpoils(d) \subseteq Stores
<1>1. NoVaultKey \in StoredKeys /\ NoBox \in Boxes /\ LostBox \in Boxes
  BY DEF StoredKeys, Boxes
<1>2. [d EXCEPT !.box = LostBox] \in Stores
  BY <1>1 DEF Stores
<1>3. DeleteSpoils(d) \subseteq Stores
  BY <1>2 DEF DeleteSpoils
<1>4. CASE d.box.form = "whole"
  <2> DEFINE x == Store(NoBox, d.oldKey, d.oldLabel)
             y == Store(NoBox, NoVaultKey, d.oldLabel)
  <2>1. x \in Stores /\ y \in Stores
    BY <1>1, StoreFacts, StoreType
  <2>2. Cleared_Box(d) = x
    BY StoreFacts DEF Cleared_Box
  <2>3. Activated(x) = y
    BY DEF Activated, Store
  <2>4. Enrolled(y) = <<NoVaultKey, NoVaultKey>>
    BY BoxFacts, EnrolledFacts
  <2> HIDE DEF x, y
  <2>5. Final(<<d, x, y>>) = y /\ AnyOf(<<d, x, y>>) = {d, x, y}
    BY ThreeStages, Zenon
  <2>6. DeleteStages(d) = <<d, x, y>>
    BY <1>4, <2>2, <2>3 DEF DeleteStages
  <2> QED  BY <1>3, <2>1, <2>4, <2>5, <2>6
<1>5. CASE d.box.form # "whole"
  <2> DEFINE x == Store(d.box, NoVaultKey, d.oldLabel)
             y == Store(d.box, NoVaultKey, NoVaultKey)
  <2>1. x \in Stores /\ y \in Stores
    BY <1>1, StoreFacts, StoreType
  <2>2. Activated(d) = x
    BY StoreFacts DEF Activated
  <2>3. [x EXCEPT !.oldLabel = NoVaultKey] = y
    BY DEF Store
  <2>4. d.box.form = "none"
    BY <1>5, BoxFacts, StoreFacts DEF Boxes
  <2>5. Enrolled(y) = <<NoVaultKey, NoVaultKey>>
    BY <2>4, EnrolledFacts
  <2> HIDE DEF x, y
  <2>6. Final(<<d, x, y>>) = y /\ AnyOf(<<d, x, y>>) = {d, x, y}
    BY ThreeStages, Zenon
  <2>7. DeleteStages(d) = <<d, x, y>>
    BY <1>5, <2>2, <2>3 DEF DeleteStages
  <2> QED  BY <1>3, <2>1, <2>5, <2>6, <2>7
<1> QED  BY <1>4, <1>5

\* A reset of the files: whatever the write-back then makes of flash is expected.
LEMMA ResetStep ==
  ASSUME SafeInv, VaultReset
  PROVE  SafeInv'
<1>1. /\ safe' = EmptyStore /\ safeDisk' = safeDisk
      /\ rightful' = rightful \cup {Enrolled(safe'), Lost, <<safe.oldKey, safe.oldLabel>>, <<safe.oldKey, NoVaultKey>>}
  BY DEF VaultReset, EmptyStore
<1>2. NoBox \in Boxes /\ LostBox \in Boxes /\ NoVaultKey \in StoredKeys
  BY DEF Boxes, StoredKeys
<1>3. EmptyStore \in Stores /\ Enrolled(EmptyStore) = <<NoVaultKey, NoVaultKey>>
  BY <1>2, StoreType, EnrolledFacts, BoxFacts DEF EmptyStore
<1>4. \A d \in Remnants(safeDisk) : d \in Stores /\ Enrolled(d) \in rightful'
  <2>1. CASE safe = EmptyStore /\ \A d \in Remnants(safeDisk) : Expected(d, rightful)
    BY <1>1, <2>1 DEF Expected
  <2>2. CASE safeDisk = safe
    <3> SUFFICES ASSUME NEW b \in {safe.box, NoBox, LostBox}, NEW k \in {safe.oldKey, NoVaultKey},
                        NEW l \in {safe.oldLabel, NoVaultKey}
                 PROVE  Store(b, k, l) \in Stores /\ Enrolled(Store(b, k, l)) \in rightful'
      BY <2>2 DEF Remnants
    <3>1. safe \in Stores /\ Enrolled(safe) \in rightful
      BY DEF SafeInv, Expected
    <3>2. b \in Boxes /\ k \in StoredKeys /\ l \in StoredKeys
      BY <1>2, <3>1, StoreFacts
    <3>3. Store(b, k, l) \in Stores
      BY <3>2, StoreType
    <3>4. CASE b.form = "broken"
      BY <1>1, <3>3, <3>4, EnrolledFacts
    <3>5. CASE b.form = "whole"
      <4>1. b = safe.box
        BY <3>5, BoxFacts
      <4>2. Enrolled(safe) = <<b.key, b.label>>
        BY <3>5, <4>1 DEF Enrolled
      <4> QED  BY <1>1, <3>1, <3>3, <3>5, <4>2, EnrolledFacts
    <3>6. CASE b.form = "none"
      <4>1. Enrolled(Store(b, k, l)) = IF k = NoVaultKey THEN <<NoVaultKey, NoVaultKey>> ELSE <<k, l>>
        BY <3>6, EnrolledFacts
      <4>2. CASE k = NoVaultKey
        BY <1>1, <1>3, <3>3, <4>1, <4>2
      <4>3. CASE k # NoVaultKey
        <5>1. k = safe.oldKey /\ (l = safe.oldLabel \/ l = NoVaultKey)
          BY <4>3
        <5> QED  BY <1>1, <3>3, <4>1, <4>3, <5>1
      <4> QED  BY <4>2, <4>3
    <3> QED  BY <3>2, <3>4, <3>5, <3>6, BoxFacts DEF Boxes
  <2> QED  BY <2>1, <2>2 DEF SafeInv
<1>5. Enrolled(safe') \in rightful' /\ safe' \in Stores
  BY <1>1, <1>3
<1>6. Expected(safe, rightful)'
  BY <1>5 DEF Expected, Enrolled
<1>7. \A d \in Remnants(safeDisk') : d \in Stores /\ Enrolled(d) \in rightful'
  BY <1>1, <1>4
<1>8. (\A d \in Remnants(safeDisk) : Expected(d, rightful))' /\ safeDisk' \in Stores
  BY <1>1, <1>7 DEF Expected, SafeInv
<1>9. (safe = EmptyStore)'
  BY <1>1 DEF EmptyStore, Store, NoBox
<1> QED  BY <1>6, <1>8, <1>9 DEF SafeInv

\* The write-back takes flash from one remnant to another.
LEMMA WriteBackStep ==
  ASSUME SafeInv, VaultWriteBack
  PROVE  SafeInv'
<1>1. safeDisk # safe
  BY DEF VaultWriteBack
<1>2. safe = EmptyStore /\ \A d \in Remnants(safeDisk) : Expected(d, rightful)
  BY <1>1 DEF SafeInv
<1>3. UNCHANGED <<safe, rightful>>
  BY DEF VaultWriteBack
<1>6. safeDisk \in Stores
  BY DEF SafeInv
<1>7. PICK b \in {safeDisk.box, NoBox, LostBox}, k \in {safeDisk.oldKey, NoVaultKey}, l \in {safeDisk.oldLabel, NoVaultKey} :
         safeDisk' = Store(b, k, l)
  <2>1. safe.box = NoBox /\ safe.oldKey = NoVaultKey /\ safe.oldLabel = NoVaultKey
    BY <1>2 DEF EmptyStore, Store
  <2> QED  BY <1>6, <2>1, StoreFacts DEF VaultWriteBack
<1>8. Remnants(safeDisk') \subseteq Remnants(safeDisk)
  <2>1. safeDisk'.box = b /\ safeDisk'.oldKey = k /\ safeDisk'.oldLabel = l
    BY <1>7 DEF Store
  <2> QED  BY <2>1 DEF Remnants
<1>9. (\A d \in Remnants(safeDisk) : Expected(d, rightful))'
  <2>1. \A d \in Remnants(safeDisk') : d \in Stores /\ Enrolled(d) \in rightful'
    BY <1>2, <1>3, <1>8 DEF Expected
  <2> QED  BY <2>1 DEF Expected
<1>10. Expected(safe, rightful)' /\ (safe = EmptyStore)'
  BY <1>2, <1>3 DEF SafeInv, Expected, Enrolled, EmptyStore, Store, NoBox
<1>11. safeDisk' \in Stores
  <2>1. NoBox \in Boxes /\ LostBox \in Boxes /\ NoVaultKey \in StoredKeys
    BY DEF Boxes, StoredKeys
  <2> QED  BY <1>6, <1>7, <2>1, StoreFacts, StoreType
<1> QED  BY <1>9, <1>10, <1>11 DEF SafeInv

\* Every step keeps the invariant.
LEMMA SafeInvNext ==
  ASSUME SafeInv, [VaultNext]_vaultVars
  PROVE  SafeInv'
<1>1. safe \in Stores /\ Enrolled(safe) \in rightful
  BY DEF SafeInv, Expected
<1>2. ASSUME load_key \/ load_key_Fails, UNCHANGED rightful
      PROVE  SafeInv'
  <2>1. /\ Final(LoadStages(safe)) \in AnyOf(LoadStages(safe))
        /\ \A e \in AnyOf(LoadStages(safe)) : e \in Stores /\ Enrolled(e) \in rightful'
    BY <1>1, <1>2, LoadFacts
  <2>2. CASE load_key
    BY <2>1, <2>2, ThroughStep DEF load_key
  <2>3. CASE load_key_Fails
    BY <1>2, <2>1, <2>3, HaltsStep DEF load_key_Fails
  <2> QED  BY <1>2, <2>2, <2>3
<1>3. ASSUME UNCHANGED <<safe, safeDisk, rightful>>
      PROVE  SafeInv'
  BY <1>3 DEF SafeInv
<1>4. CASE VaultStatus \/ vault_export_blob \/ vault_import_blob
  BY <1>2, <1>4 DEF VaultStatus, vault_export_blob, vault_import_blob
<1>5. ASSUME NEW n \in 0..challenges, NEW k \in VaultKeys, enrollment_finish(n, k)
      PROVE  SafeInv'
  <2>1. /\ Final(SetStages(safe, k)) \in Stores /\ Enrolled(Final(SetStages(safe, k))) = <<k, k>>
        /\ AnyOf(SetStages(safe, k)) \cup SetSpoils(safe, k) \subseteq Stores
    BY <1>1, <1>5, SetFacts DEF enrollment_finish
  <2>2. CASE Through(SetStages(safe, k)) /\ rightful' = {<<k, k>>}
    BY <2>1, <2>2, ThroughStep
  <2>3. CASE Halts(SetStages(safe, k), SetSpoils(safe, k)) /\ MayHold(AnyOf(SetStages(safe, k)) \cup SetSpoils(safe, k))
    <3>1. /\ rightful \subseteq rightful'
          /\ \A d \in AnyOf(SetStages(safe, k)) \cup SetSpoils(safe, k) : d \in Stores /\ Enrolled(d) \in rightful'
      BY <2>1, <2>3 DEF MayHold
    <3> QED  BY <2>3, <3>1, HaltsStep
  <2> QED  BY <1>5, <2>2, <2>3 DEF enrollment_finish
<1>6. CASE delete_kvault
  <2>1. /\ Final(DeleteStages(safe)) \in Stores /\ Enrolled(Final(DeleteStages(safe))) = <<NoVaultKey, NoVaultKey>>
        /\ AnyOf(DeleteStages(safe)) \cup DeleteSpoils(safe) \subseteq Stores
    BY <1>1, <1>6, DeleteFacts DEF delete_kvault
  <2>2. CASE Through(DeleteStages(safe)) /\ rightful' = {<<NoVaultKey, NoVaultKey>>}
    BY <2>1, <2>2, ThroughStep
  <2>3. CASE Halts(DeleteStages(safe), DeleteSpoils(safe)) /\ MayHold(AnyOf(DeleteStages(safe)) \cup DeleteSpoils(safe))
    <3>1. /\ rightful \subseteq rightful'
          /\ \A d \in AnyOf(DeleteStages(safe)) \cup DeleteSpoils(safe) : d \in Stores /\ Enrolled(d) \in rightful'
      BY <2>1, <2>3 DEF MayHold
    <3> QED  BY <2>3, <3>1, HaltsStep
  <2> QED  BY <1>6, <2>2, <2>3 DEF delete_kvault
<1>7. CASE VaultReset
  BY <1>7, ResetStep
<1>8. CASE VaultWriteBack
  BY <1>8, WriteBackStep
<1>9. CASE VaultPowerLoss
  <2>1. safe' = safeDisk /\ safeDisk' = safeDisk /\ rightful' = rightful
    BY <1>9 DEF VaultPowerLoss
  <2>2. Expected(safeDisk, rightful)
    BY StoreFacts DEF SafeInv, Remnants
  <2> QED  BY <2>1, <2>2 DEF SafeInv
<1>10. ASSUME NEW n \in 0..challenges, enrollment_decode_Fails(n) \/ enrollment_finish_Fails(n)
       PROVE  SafeInv'
  BY <1>3, <1>10 DEF enrollment_decode_Fails, enrollment_finish_Fails
<1>11. CASE enrollment_start \/ enrollment_start_NotAllowed \/ PollButton \/ MinuteOver
  BY <1>3, <1>11 DEF enrollment_start, enrollment_start_NotAllowed, PollButton, MinuteOver
<1>12. CASE UNCHANGED vaultVars
  BY <1>3, <1>12 DEF vaultVars
<1> QED  BY <1>4, <1>5, <1>6, <1>7, <1>8, <1>9, <1>10, <1>11, <1>12 DEF VaultNext

\* Whatever commands are mixed with failed writes, resets and losses of power, the key and label
\* the device reads, and those a boot would read, are ones the host was told of or may expect.
THEOREM VaultHolds == VaultSpec => []VaultKeyKept
<1>1. VaultInit => SafeInv
  <2> SUFFICES ASSUME VaultInit  PROVE SafeInv
    OBVIOUS
  <2>1. NoBox \in Boxes /\ NoVaultKey \in StoredKeys /\ OldVaultKey \in StoredKeys
    BY DEF Boxes, StoredKeys
  <2>2. safe \in Stores /\ safeDisk = safe /\ rightful = {Enrolled(safe)}
    BY <2>1, StoreType DEF VaultInit
  <2> QED  BY <2>2 DEF SafeInv, Expected
<1>2. SafeInv /\ [VaultNext]_vaultVars => SafeInv'
  BY SafeInvNext
<1>3. SafeInv => VaultKeyKept
  <2> SUFFICES ASSUME SafeInv  PROVE VaultKeyKept
    OBVIOUS
  <2>1. Expected(safeDisk, rightful)
    BY StoreFacts DEF SafeInv, Remnants
  <2> QED  BY <2>1 DEF SafeInv, Expected, VaultKeyKept
<1> QED  BY <1>1, <1>2, <1>3, PTL DEF VaultSpec

-----------------------------------------------------------------------------
(* Responses by piece.  The host has the bytes below the place the next    *)
(* piece starts at, and the bytes from there on are in the buffer once the *)
(* two under the status are put back.                                      *)

RespMem   == 0..(MaxResp + 1)
IsMem(m)  == m = [i \in RespMem |-> m[i]]
Put(m, i, x, j, y) == [m EXCEPT ![i] = x, ![j] = y]
Counts(m, from, n) == \A i \in from..(from + n - 1) : m[i] = i

\* Memory m holds the rest of an answer of len bytes, from a position on, with its status.
Holds(m, from, len, sw) == (\A i \in from..(len - 1) : m[i] = i) /\ m[len] = sw

FetchTypes ==
  /\ IsMem(rdata) /\ rlen \in 0..MaxResp /\ rdata_gr \in Nat /\ response_pending \in BOOLEAN
  /\ response_pending => rdata_gr + rlen <= MaxResp

FetchOK ==
  answer.sw # "none" =>
    /\ answer.len \in 0..MaxResp
    /\ response_pending =>
         /\ received.sw = "61" /\ rdata_gr + rlen = answer.len
         /\ received.data = UpTo(rdata_gr) /\ Holds(Restored, rdata_gr, answer.len, answer.sw)
    /\ ~response_pending => received = [data |-> UpTo(answer.len), sw |-> answer.sw]

FetchInv == FetchTypes /\ FetchOK

\* apdu_process finds the data and the length of the response that were sent, in every form.
LEMMA LengthsDecode ==
  ASSUME ApduAssumption, NEW n \in 0..MaxData, NEW want \in 1..All, NEW form \in Forms(n)
  PROVE  /\ Lengths(Coded(form, n, want)).nc = n
         /\ Lengths(Coded(form, n, want)).ne =
              CASE form = "case1" -> All
                [] form \in {"case3", "case3e"} -> 0
                [] OTHER -> want
<1> DEFINE le == IF want = All THEN 0 ELSE want
<1>1. n \in Nat /\ want \in Nat /\ All \in Nat /\ want # 0
  BY DEF ApduAssumption, All
<1>2. Wanted(le) = want /\ Wanted(0) = All /\ le \in Nat
  BY <1>1 DEF Wanted
<1> HIDE DEF le
<1>3. CASE n = 0
  <2>1. CASE form = "case1"
    BY <1>1, <1>3, <2>1 DEF Coded, Lengths
  <2>2. CASE form = "case2"
    BY <1>1, <1>2, <1>3, <2>2 DEF Coded, Lengths, le
  <2>3. CASE form = "case2e"
    BY <1>1, <1>2, <1>3, <2>3 DEF Coded, Lengths, le
  <2> QED  BY <1>3, <2>1, <2>2, <2>3 DEF Forms
<1>4. CASE n # 0
  <2>1. CASE form = "case3"
    BY <1>1, <1>4, <2>1 DEF Coded, Lengths
  <2>2. CASE form = "case3e"
    BY <1>1, <1>4, <2>2 DEF Coded, Lengths
  <2>3. CASE form = "case4"
    BY <1>1, <1>2, <1>4, <2>3 DEF Coded, Lengths, le
  <2>4. CASE form = "case4e"
    BY <1>1, <1>2, <1>4, <2>4 DEF Coded, Lengths, le
  <2> QED  BY <1>4, <2>1, <2>2, <2>3, <2>4 DEF Forms
<1> QED  BY <1>3, <1>4

\* A piece goes on where the last one ended.
LEMMA PieceFacts ==
  ASSUME NEW m, NEW from \in Nat, NEW n \in Nat, Counts(m, from, n)
  PROVE  UpTo(from) \o Piece(m, from, n) = UpTo(from + n)
<1> DEFINE p == Piece(m, from, n)
           s == UpTo(from) \o p
           t == UpTo(from + n)
<1>1. UpTo(from) \in Seq(Nat) /\ Len(UpTo(from)) = from /\ \A i \in 1..from : UpTo(from)[i] = i - 1
  BY UpToFacts
<1>2. t \in Seq(Nat) /\ Len(t) = from + n /\ \A i \in 1..(from + n) : t[i] = i - 1
  BY UpToFacts
<1>3. \A i \in 1..n : from + i - 1 \in from..(from + n - 1) /\ p[i] = from + i - 1
  BY DEF Piece, Counts
<1>4. p \in [1..n -> Nat]
  BY <1>3 DEF Piece
<1>5. p \in Seq(Nat) /\ Len(p) = n
  BY <1>4
<1>6. s \in Seq(Nat) /\ Len(s) = from + n /\ \A i \in 1..(from + n) : s[i] = IF i <= from THEN UpTo(from)[i] ELSE p[i - from]
  <2> DEFINE u == UpTo(from)
  <2>1. u \in Seq(Nat) /\ Len(u) = from
    BY <1>1
  <2> HIDE DEF p, u
  <2>2. /\ u \o p \in Seq(Nat) /\ Len(u \o p) = Len(u) + Len(p)
        /\ \A i \in 1..(Len(u) + Len(p)) : (u \o p)[i] = IF i <= Len(u) THEN u[i] ELSE p[i - Len(u)]
    BY <1>5, <2>1, ConcatProperties, Zenon
  <2>3. s = u \o p
    BY DEF u
  <2> HIDE DEF s
  <2> QED  BY <1>5, <2>1, <2>2, <2>3 DEF u
<1> HIDE DEF p, t, s
<1>7. \A i \in 1..(from + n) : s[i] = t[i]
  <2> SUFFICES ASSUME NEW i \in 1..(from + n)  PROVE s[i] = i - 1
    BY <1>2
  <2>1. CASE i <= from
    BY <1>1, <1>6, <2>1
  <2>2. CASE ~(i <= from)
    <3>1. i - from \in 1..n /\ s[i] = p[i - from]
      BY <1>6, <2>2
    <3> QED  BY <1>3, <3>1
  <2> QED  BY <2>1, <2>2
<1>8. s = t
  BY <1>2, <1>6, <1>7, SeqEqual
<1> QED  BY <1>8 DEF s, t, p

LEMMA MemFacts ==
  ASSUME NEW m, IsMem(m), NEW i, NEW j, NEW x, NEW y
  PROVE  /\ IsMem(Put(m, i, x, j, y))
         /\ \A k \in RespMem : Put(m, i, x, j, y)[k] = IF k = j THEN y ELSE IF k = i THEN x ELSE m[k]
<1> DEFINE e == Put(m, i, x, j, y)
<1>1. DOMAIN m = RespMem /\ m = [k \in DOMAIN m |-> m[k]]
  BY DEF IsMem
<1>2. e = [k \in RespMem |-> IF k = j THEN y ELSE IF k = i THEN x ELSE m[k]]
  BY <1>1 DEF Put
<1> HIDE DEF e
<1>3. \A k \in RespMem : e[k] = IF k = j THEN y ELSE IF k = i THEN x ELSE m[k]
  BY <1>2
<1>4. e = [k \in RespMem |-> e[k]]
  BY <1>2
<1> QED  BY <1>3, <1>4 DEF e, IsMem

\* The two ways a response, or the rest of one, goes out.
LEMMA RespondFacts ==
  ASSUME ApduAssumption, NEW mem, IsMem(mem), NEW from \in Nat, NEW len \in Nat, from + len <= MaxResp, NEW n \in Nat,
         NEW fresh \in BOOLEAN, Respond(mem, from, len, n, fresh)
  PROVE  LET had == IF fresh THEN <<>> ELSE received.data IN
         /\ FetchTypes'
         /\ ~response_pending' => received' = [data |-> had \o Piece(mem, from, len), sw |-> mem[from + len]]
         /\ response_pending' =>
              /\ received' = [data |-> had \o Piece(mem, from, n), sw |-> "61"]
              /\ n < len /\ rdata_gr' = from + n /\ rdata_gr' + rlen' = from + len /\ Restored' = mem
<1> DEFINE had == IF fresh THEN <<>> ELSE received.data
<1>1. CASE len <= n
  <2>1. /\ rdata' = mem /\ received' = [data |-> had \o Piece(mem, from, len), sw |-> mem[from + len]]
        /\ rlen' = (IF fresh THEN len ELSE 0) /\ rdata_gr' = 0 /\ response_pending' = FALSE
    BY <1>1 DEF Respond
  <2>2. rlen' \in 0..MaxResp
    <3>1. len \in 0..MaxResp /\ 0 \in 0..MaxResp
      BY DEF ApduAssumption
    <3> QED  BY <2>1, <3>1
  <2>3. FetchTypes'
    BY <2>1, <2>2 DEF FetchTypes, IsMem, RespMem
  <2> QED  BY <2>1, <2>3
<1>2. CASE ~(len <= n)
  <2> DEFINE i == from + n
             a == mem[i]
             b == mem[i + 1]
  <2>1. /\ rdata_bk' = <<a, b>> /\ rdata' = Put(mem, i, "61", i + 1, "left")
        /\ received' = [data |-> had \o Piece(mem, from, n), sw |-> "61"]
        /\ rlen' = len - n /\ rdata_gr' = i /\ response_pending' = TRUE
    BY <1>2 DEF Respond, Put
  <2>2. n < len /\ i \in Nat /\ i + 1 # i /\ i \in RespMem /\ i + 1 \in RespMem
    BY <1>2 DEF RespMem, ApduAssumption
  <2>3. rdata_bk'[1] = a /\ rdata_bk'[2] = b
    BY <2>1
  <2> HIDE DEF a, b
  <2>4. IsMem(rdata') /\ \A k \in RespMem : rdata'[k] = IF k = i + 1 THEN "left" ELSE IF k = i THEN "61" ELSE mem[k]
    BY <2>1, MemFacts
  <2>5. Restored' = Put(rdata', i, a, i + 1, b)
    BY <2>1, <2>3 DEF Restored, Put
  <2>6. IsMem(Restored') /\ \A k \in RespMem : Restored'[k] = IF k = i + 1 THEN b ELSE IF k = i THEN a ELSE rdata'[k]
    BY <2>4, <2>5, MemFacts
  <2>7. \A k \in RespMem : Restored'[k] = mem[k]
    BY <2>4, <2>6 DEF a, b
  <2>8. Restored' = mem
    BY <2>6, <2>7 DEF IsMem
  <2>9. rlen' \in 0..MaxResp /\ rdata_gr' \in Nat /\ rdata_gr' + rlen' = from + len
    BY <2>1, <2>2 DEF ApduAssumption
  <2>10. FetchTypes'
    BY <2>1, <2>4, <2>9 DEF FetchTypes, IsMem, RespMem
  <2> HIDE DEF had
  <2>11. response_pending' /\ n < len /\ rdata_gr' = from + n /\ rdata_gr' + rlen' = from + len
    BY <2>1, <2>2, <2>9
  <2> QED  BY <2>1, <2>8, <2>10, <2>11 DEF had
<1> QED  BY <1>1, <1>2

\* The same of an answer whose bytes the memory holds.
LEMMA AnswerGoesOut ==
  ASSUME ApduAssumption, NEW mem, IsMem(mem), NEW from \in Nat, NEW len \in Nat, from + len <= MaxResp, NEW n \in Nat,
         NEW fresh \in BOOLEAN, Respond(mem, from, len, n, fresh), NEW sw, Holds(mem, from, from + len, sw),
         fresh => from = 0, ~fresh => received.data = UpTo(from),
         answer'.len = from + len, answer'.sw = sw
  PROVE  FetchInv'
<1> DEFINE had == IF fresh THEN <<>> ELSE received.data
           total == from + len
<1>1. /\ FetchTypes'
      /\ ~response_pending' => received' = [data |-> had \o Piece(mem, from, len), sw |-> mem[from + len]]
      /\ response_pending' =>
           /\ received' = [data |-> had \o Piece(mem, from, n), sw |-> "61"]
           /\ n < len /\ rdata_gr' = from + n /\ rdata_gr' + rlen' = from + len /\ Restored' = mem
  BY RespondFacts
<1>2. had = UpTo(from)
  <2>1. UpTo(0) = <<>>
    BY DEF UpTo
  <2> QED  BY <2>1
<1>3. Counts(mem, from, len) /\ \A i \in from..(total - 1) : mem[i] = i
  BY DEF Holds, Counts
<1>4. mem[from + len] = sw /\ total \in 0..MaxResp
  BY DEF Holds, ApduAssumption
<1>5. had \o Piece(mem, from, len) = UpTo(total)
  <2>1. UpTo(from) \o Piece(mem, from, len) = UpTo(from + len)
    BY <1>3, PieceFacts
  <2> HIDE DEF had
  <2> QED  BY <1>2, <2>1
<1>6. ASSUME n < len
      PROVE  had \o Piece(mem, from, n) = UpTo(from + n) /\ Holds(mem, from + n, total, sw)
  <2>1. Counts(mem, from, n)
    BY <1>3, <1>6 DEF Counts
  <2>2. Holds(mem, from + n, total, sw)
    BY <1>3, <1>4 DEF Holds
  <2>3. UpTo(from) \o Piece(mem, from, n) = UpTo(from + n)
    BY <2>1, PieceFacts
  <2> HIDE DEF had
  <2> QED  BY <1>2, <2>2, <2>3
<1> HIDE DEF had, total
<1>7. ASSUME response_pending'
      PROVE  received'.sw = "61" /\ rdata_gr' + rlen' = total /\ received'.data = UpTo(rdata_gr') /\ Holds(Restored', rdata_gr', total, sw)
  <2>1. received'.sw = "61" /\ received'.data = had \o Piece(mem, from, n)
    BY <1>1, <1>7
  <2>2. n < len /\ rdata_gr' = from + n /\ rdata_gr' + rlen' = total /\ Restored' = mem
    BY <1>1, <1>7 DEF total
  <2> QED  BY <1>6, <2>1, <2>2
<1>8. ASSUME ~response_pending'
      PROVE  received' = [data |-> UpTo(total), sw |-> sw]
  BY <1>1, <1>4, <1>5, <1>8
<1>9. answer'.len = total
  BY DEF total
<1>10. FetchOK'
  BY <1>4, <1>7, <1>8, <1>9 DEF FetchOK, Holds, UpTo
<1> QED  BY <1>1, <1>10 DEF FetchInv

\* set_res_sw and apdu_finish put an answer together.
LEMMA AnswerWithKept ==
  ASSUME ApduAssumption, FetchInv, NEW len \in 0..MaxResp, NEW sw, NEW n \in Nat, AnswerWith(len, sw, n)
  PROVE  FetchInv'
<1> DEFINE data == [i \in RespMem |-> IF i < len THEN i ELSE rdata[i]]
           made == Put(data, len, sw, len + 1, "sw2")
<1>1. answer' = [len |-> len, sw |-> sw] /\ Respond(made, 0, len, n, TRUE)
  BY DEF AnswerWith, RespMem, Put
<1>2. IsMem(data)
  BY DEF IsMem
<1>3. len \in Nat /\ len # len + 1 /\ \A i \in 0..len : i \in RespMem /\ i # len + 1
  BY DEF ApduAssumption, RespMem
<1>4. \A i \in 0..(len - 1) : data[i] = i
  BY <1>3
<1> HIDE DEF data
<1>5. IsMem(made) /\ \A k \in RespMem : made[k] = IF k = len + 1 THEN "sw2" ELSE IF k = len THEN sw ELSE data[k]
  BY <1>2, MemFacts
<1> HIDE DEF made
<1>6. \A i \in 0..(len - 1) : i \in 0..len /\ i # len
  BY <1>3
<1>7. Holds(made, 0, len, sw)
  BY <1>3, <1>4, <1>5, <1>6 DEF Holds
<1>8. 0 + len = len /\ 0 \in Nat /\ len <= MaxResp /\ answer'.len = len /\ answer'.sw = sw
  BY <1>1, <1>3
<1> QED  BY <1>1, <1>3, <1>5, <1>7, <1>8, AnswerGoesOut

\* GET RESPONSE.
LEMMA GetResponseKept ==
  ASSUME ApduAssumption, FetchInv, NEW n \in Nat, GetResponse(n)
  PROVE  FetchInv'
<1>1. response_pending /\ Respond(Restored, rdata_gr, rlen, n, FALSE) /\ UNCHANGED answer
  BY DEF GetResponse
<1>2. IsMem(rdata) /\ rlen \in Nat /\ rdata_gr \in Nat /\ rdata_gr + rlen <= MaxResp
  BY <1>1 DEF FetchInv, FetchTypes, ApduAssumption
<1>3. IsMem(Restored)
  BY <1>2, MemFacts DEF Restored, Put
<1>4. CASE answer.sw = "none"
  <2>1. FetchTypes'
    BY <1>1, <1>2, <1>3, RespondFacts
  <2> QED  BY <1>1, <1>4, <2>1 DEF FetchInv, FetchOK
<1>5. CASE answer.sw # "none"
  <2>1. rdata_gr + rlen = answer.len /\ received.data = UpTo(rdata_gr) /\ Holds(Restored, rdata_gr, answer.len, answer.sw)
    BY <1>1, <1>5 DEF FetchInv, FetchOK
  <2> QED  BY <1>1, <1>2, <1>3, <2>1, AnswerGoesOut
<1> QED  BY <1>4, <1>5

\* A GET RESPONSE with the chaining bit sends what is there, under no answer.
LEMMA StaleKept ==
  ASSUME ApduAssumption, FetchInv, NEW n \in Nat, StaleResponse(n)
  PROVE  FetchInv'
<1>1. answer'.sw = "none"
  BY DEF StaleResponse, NoAnswer
<1>2. IsMem(rdata) /\ rlen \in Nat /\ rlen <= MaxResp /\ MaxResp \in Nat
  BY DEF FetchInv, FetchTypes, ApduAssumption
<1> DEFINE e == Put(rdata, rlen, "9000", rlen + 1, "sw2")
           f == Put(rdata, 0, "error", 1, "sw2")
<1>3. IsMem(e) /\ IsMem(f)
  BY <1>2, MemFacts
<1>4. Respond(e, 0, rlen, n, TRUE) \/ Respond(f, 0, 0, n, TRUE)
  BY DEF StaleResponse, Put
<1> HIDE DEF e, f
<1>5. 0 \in Nat /\ 0 + rlen <= MaxResp /\ 0 + 0 <= MaxResp
  BY <1>2
<1>6. CASE Respond(e, 0, rlen, n, TRUE)
  <2>1. FetchTypes'
    BY <1>2, <1>3, <1>5, <1>6, RespondFacts
  <2> QED  BY <1>1, <2>1 DEF FetchInv, FetchOK
<1>7. CASE Respond(f, 0, 0, n, TRUE)
  <2>1. FetchTypes'
    BY <1>3, <1>5, <1>7, RespondFacts
  <2> QED  BY <1>1, <2>1 DEF FetchInv, FetchOK
<1> QED  BY <1>4, <1>6, <1>7

LEMMA FetchNext ==
  ASSUME ApduAssumption, FetchInv, [ApduNext]_apduVars
  PROVE  FetchInv'
<1>1. ASSUME NEW h \in Known, NEW more \in BOOLEAN, NEW nc, NEW n \in Nat, ChainPart(h, nc, n) \/ Call(h, nc, n)
      PROVE  FetchInv'
  <2>1. \E len \in 0..MaxResp, sw \in {"9000", "error"} : AnswerWith(len, sw, n)
    <3>1. 0 \in 0..MaxResp
      BY DEF ApduAssumption
    <3>2. CASE ChainPart(h, nc, n)
      BY <3>1, <3>2 DEF ChainPart
    <3>3. CASE Call(h, nc, n)
      BY <3>1, <3>3 DEF Call
    <3> QED  BY <1>1, <3>2, <3>3
  <2> QED  BY <2>1, AnswerWithKept
<1>2. ASSUME NEW h \in Known, NEW more \in BOOLEAN, NEW n \in 0..MaxData, NEW want \in 1..All, NEW form \in Forms(n),
             Command(h, more, Coded(form, n, want))
      PROVE  FetchInv'
  <2> DEFINE l == Lengths(Coded(form, n, want))
  <2>1. ChainPart(h, l.nc, l.ne) \/ Call(h, l.nc, l.ne)
    BY <1>2 DEF Command
  <2>2. l.ne \in {All, 0, want}
    BY LengthsDecode
  <2>3. All \in Nat /\ want \in Nat
    BY DEF All, ApduAssumption
  <2> HIDE DEF l
  <2>4. l.ne \in Nat
    BY <2>2, <2>3
  <2> QED  BY <1>1, <2>1, <2>4
<1>3. ASSUME NEW n \in 0..All, GetResponse(n) \/ StaleResponse(n)
      PROVE  FetchInv'
  BY <1>3, GetResponseKept, StaleKept DEF All, ApduAssumption
<1>4. CASE TransportSelects \/ WorkerEnds \/ UNCHANGED apduVars
  <2>1. UNCHANGED <<rdata, rlen, rdata_gr, rdata_bk, response_pending, answer, received>>
    BY <1>4 DEF TransportSelects, WorkerEnds, apduVars, answers
  <2> QED  BY <2>1 DEF FetchInv, FetchTypes, FetchOK, Restored, IsMem, Holds, RespMem, UpTo
<1> QED  BY <1>2, <1>3, <1>4 DEF ApduNext

\* However a response is cut into pieces, the host ends up with the application's bytes and status,
\* for every size of response and every length the pieces are asked for in: apdu_next writes 61xx
\* over two bytes that GET RESPONSE puts back before it goes on.
THEOREM ResponsesHold == ApduSpec => []ResponseIsWhole
<1>1. ApduInit => FetchInv
  <2> SUFFICES ASSUME ApduInit  PROVE FetchInv
    OBVIOUS
  <2>1. IsMem(rdata)
    BY DEF ApduInit, IsMem, RespMem
  <2>2. rlen \in 0..MaxResp /\ rdata_gr \in Nat /\ ~response_pending /\ response_pending \in BOOLEAN /\ answer.sw = "none"
    BY ApduAssumption DEF ApduInit, ApduAssumption, NoAnswer
  <2> QED  BY <2>1, <2>2 DEF FetchInv, FetchTypes, FetchOK
<1>2. FetchInv /\ [ApduNext]_apduVars => FetchInv'
  BY FetchNext, ApduAssumption
<1>3. FetchInv => ResponseIsWhole
  <2> SUFFICES ASSUME FetchInv, answer.sw # "none", received.sw # "61"
               PROVE  received = [data |-> [i \in 1..answer.len |-> i - 1], sw |-> answer.sw]
    BY DEF ResponseIsWhole
  <2>1. ~response_pending
    BY DEF FetchInv, FetchOK
  <2> QED  BY <2>1 DEF FetchInv, FetchOK, UpTo
<1> QED  BY <1>1, <1>2, <1>3, PTL DEF ApduSpec

-----------------------------------------------------------------------------
(* Chained commands.  While a chain is open the buffer is made of the      *)
(* commands kept right before the next one, all of the header of the chain *)
(* (ChainOK); when none is open there are no such commands, and the buffer *)
(* is empty.                                                               *)

LoggedCommands == [header : Known, more : BOOLEAN, data : Seq(Nat), kept : BOOLEAN]

ChainOK(cs, buf, header, chaining) ==
  /\ MadeOf(buf, RunUpTo(cs, Len(cs) + 1), cs)
  /\ chaining => \A j \in RunUpTo(cs, Len(cs) + 1) : cs[j].header = header
  /\ ~chaining => buf = <<>> /\ RunUpTo(cs, Len(cs) + 1) = {}

ChainTypes == commands \in Seq(LoggedCommands) /\ chain_buf \in Seq(Nat)

CallOf(d, cs) ==
  LET pieces == IF cs[d.at].header = "select" THEN {} ELSE RunUpTo(cs, d.at)
  IN  /\ d.at \in 1..Len(cs) /\ d.data \in Seq(Nat)
      /\ \A j \in pieces : cs[j].header = cs[d.at].header
      /\ MadeOf(d.data, pieces \cup {d.at}, cs)

ChainInv ==
  /\ ChainTypes
  /\ ChainOK(commands, chain_buf, chain_header, is_chaining)
  /\ \A d \in delivered : CallOf(d, commands)
  /\ loaded \subseteq {current_app}

\* What is logged, for a command the chain takes in, and for one that ends it.
Logs(e, h, n) == /\ commands' = Append(commands, e) /\ e \in LoggedCommands
                 /\ e.header = h /\ Len(e.data) = n

LEMMA LogsPart ==
  ASSUME Len(commands) \in Nat, NEW h \in Known, NEW n \in Nat, Logged(h, TRUE, n, TRUE)
  PROVE  \E e : Logs(e, h, n) /\ e.more /\ e.kept
<1> DEFINE data == [i \in 1..n |-> Len(commands) + 1]
           e == [header |-> h, more |-> TRUE, data |-> data, kept |-> TRUE]
<1>1. data \in Seq(Nat) /\ Len(data) = n
  OBVIOUS
<1>2. commands' = Append(commands, e)
  BY DEF Logged, Data, Sent
<1> HIDE DEF data
<1>3. e \in LoggedCommands
  BY <1>1 DEF LoggedCommands
<1>4. e.header = h /\ e.data = data /\ e.more /\ e.kept
  OBVIOUS
<1> HIDE DEF e
<1> QED  BY <1>1, <1>2, <1>3, <1>4 DEF Logs

LEMMA LogsEnd ==
  ASSUME Len(commands) \in Nat, NEW h \in Known, NEW n \in Nat,
         Logged(h, FALSE, n, FALSE) \/ Logged(h, TRUE, n, FALSE)
  PROVE  \E e : Logs(e, h, n) /\ ~(e.more /\ e.kept)
<1> DEFINE data == [i \in 1..n |-> Len(commands) + 1]
           e(more) == [header |-> h, more |-> more, data |-> data, kept |-> FALSE]
<1>1. data \in Seq(Nat) /\ Len(data) = n
  OBVIOUS
<1>2. PICK more \in BOOLEAN : commands' = Append(commands, e(more))
  BY DEF Logged, Data, Sent
<1> HIDE DEF data
<1>3. e(more) \in LoggedCommands
  BY <1>1 DEF LoggedCommands
<1>4. e(more).header = h /\ e(more).data = data /\ ~e(more).kept
  OBVIOUS
<1> HIDE DEF e
<1> QED  BY <1>1, <1>2, <1>3, <1>4 DEF Logs

\* One more command.
LEMMA LogFacts ==
  ASSUME NEW cs \in Seq(LoggedCommands), NEW e \in LoggedCommands
  PROVE  LET ds == Append(cs, e) IN
         /\ ds \in Seq(LoggedCommands) /\ Len(ds) = Len(cs) + 1 /\ Len(cs) \in Nat
         /\ \A i \in 1..Len(cs) : ds[i] = cs[i]
         /\ ds[Len(ds)] = e
         /\ \A k \in 1..(Len(cs) + 1) : RunUpTo(ds, k) = RunUpTo(cs, k)
         /\ e.more /\ e.kept => RunUpTo(ds, Len(ds) + 1) = RunUpTo(cs, Len(cs) + 1) \cup {Len(ds)}
         /\ ~(e.more /\ e.kept) => RunUpTo(ds, Len(ds) + 1) = {}
<1> DEFINE ds == Append(cs, e)
<1>1. Len(cs) \in Nat /\ ds \in Seq(LoggedCommands) /\ Len(ds) = Len(cs) + 1
      /\ (\A i \in 1..Len(cs) : ds[i] = cs[i]) /\ ds[Len(cs) + 1] = e
  OBVIOUS
<1> HIDE DEF ds
<1>2. ASSUME NEW k \in 1..(Len(cs) + 1)
      PROVE  RunUpTo(ds, k) = RunUpTo(cs, k)
  BY <1>1 DEF RunUpTo
<1>3. ASSUME e.more /\ e.kept
      PROVE  RunUpTo(ds, Len(ds) + 1) = RunUpTo(cs, Len(cs) + 1) \cup {Len(ds)}
  <2>1. ASSUME NEW j \in RunUpTo(ds, Len(ds) + 1)
        PROVE  j \in RunUpTo(cs, Len(cs) + 1) \cup {Len(ds)}
    BY <1>1 DEF RunUpTo
  <2>2. ASSUME NEW j \in RunUpTo(cs, Len(cs) + 1) \cup {Len(ds)}
        PROVE  j \in RunUpTo(ds, Len(ds) + 1)
    BY <1>1, <1>3 DEF RunUpTo
  <2> QED  BY <2>1, <2>2
<1>4. ASSUME ~(e.more /\ e.kept)
      PROVE  RunUpTo(ds, Len(ds) + 1) = {}
  BY <1>1, <1>4 DEF RunUpTo
<1> QED  BY <1>1, <1>2, <1>3, <1>4 DEF ds

\* What was put together of commands stays so as more of them come.
LEMMA MadeStays ==
  ASSUME NEW cs \in Seq(LoggedCommands), NEW ds \in Seq(LoggedCommands), Len(ds) = Len(cs) + 1,
         \A i \in 1..Len(cs) : ds[i] = cs[i],
         NEW js, Len(ds) \notin js, NEW s \in Seq(Nat), MadeOf(s, js, cs)
  PROVE  MadeOf(s, js, ds)
<1>1. Len(cs) \in Nat /\ \A p \in 1..Len(s) : s[p] \in 1..Len(cs)
  BY DEF MadeOf
<1>2. Copies(s, Len(cs) + 1) = {}
  BY <1>1 DEF Copies
<1>3. Cardinality(Copies(s, Len(cs) + 1)) = 0
  BY <1>2, FS_EmptySet
<1>4. \A p \in 1..Len(s) : s[p] \in 1..Len(ds)
  BY <1>1
<1>5. ASSUME NEW j \in 1..Len(ds)
      PROVE  Cardinality(Copies(s, j)) = IF j \in js THEN Len(ds[j].data) ELSE 0
  <2>1. CASE j = Len(ds)
    BY <1>3, <2>1
  <2>2. CASE j # Len(ds)
    <3>1. j \in 1..Len(cs) /\ ds[j] = cs[j]
      BY <1>1, <2>2
    <3>2. Cardinality(Copies(s, j)) = IF j \in js THEN Len(cs[j].data) ELSE 0
      BY <3>1 DEF MadeOf
    <3> QED  BY <3>1, <3>2
  <2> QED  BY <2>1, <2>2
<1>6. \A p, q \in 1..Len(s) : p <= q => s[p] <= s[q]
  BY DEF MadeOf
<1> QED  BY <1>4, <1>5, <1>6 DEF MadeOf

\* The data of the newest command goes behind it.
LEMMA MadeGrows ==
  ASSUME NEW cs \in Seq(LoggedCommands), NEW ds \in Seq(LoggedCommands), Len(ds) = Len(cs) + 1,
         \A i \in 1..Len(cs) : ds[i] = cs[i],
         NEW js, Len(ds) \notin js, NEW s \in Seq(Nat), MadeOf(s, js, cs),
         NEW n \in Nat, Len(ds[Len(ds)].data) = n,
         NEW t, t = s \o [i \in 1..n |-> Len(cs) + 1]
  PROVE  t \in Seq(Nat) /\ MadeOf(t, js \cup {Len(ds)}, ds)
<1> DEFINE data == [i \in 1..n |-> Len(cs) + 1]
           k == Len(cs) + 1
<1>1. Len(cs) \in Nat /\ Len(s) \in Nat /\ data \in Seq(Nat) /\ Len(data) = n /\ \A i \in 1..n : data[i] = k
  OBVIOUS
<1> HIDE DEF data
<1>2. t \in Seq(Nat) /\ Len(t) = Len(s) + n
      /\ \A p \in 1..(Len(s) + n) : t[p] = IF p <= Len(s) THEN s[p] ELSE data[p - Len(s)]
  BY <1>1 DEF data
<1>3. \A p \in 1..Len(s) : t[p] = s[p] /\ s[p] \in 1..Len(cs)
  BY <1>1, <1>2 DEF MadeOf
<1>4. \A p \in (Len(s) + 1)..(Len(s) + n) : t[p] = k
  <2> SUFFICES ASSUME NEW p \in (Len(s) + 1)..(Len(s) + n)
               PROVE  t[p] = k
    OBVIOUS
  <2>1. p \in 1..(Len(s) + n) /\ ~(p <= Len(s)) /\ p - Len(s) \in 1..n
    BY <1>1
  <2> QED  BY <1>1, <1>2, <2>1
<1>5. \A p \in 1..Len(t) : p \in 1..Len(s) \/ p \in (Len(s) + 1)..(Len(s) + n)
  BY <1>1, <1>2
<1>6. \A p, q \in 1..Len(t) : p <= q => t[p] <= t[q]
  BY <1>1, <1>2, <1>3, <1>4, <1>5 DEF MadeOf
<1>7. ASSUME NEW p \in 1..Len(t)
      PROVE  t[p] \in 1..Len(ds)
  <2>1. \A x \in 1..Len(cs) : x \in 1..Len(ds)
    BY <1>1
  <2>2. k \in 1..Len(ds)
    BY <1>1
  <2> QED  BY <1>3, <1>4, <1>5, <2>1, <2>2
<1>8. ASSUME NEW j \in 1..Len(cs)
      PROVE  Cardinality(Copies(t, j)) = IF j \in js \cup {Len(ds)} THEN Len(ds[j].data) ELSE 0
  <2>1. Copies(t, j) = Copies(s, j)
    BY <1>1, <1>2, <1>3, <1>4, <1>5 DEF Copies
  <2>2. Cardinality(Copies(s, j)) = IF j \in js THEN Len(cs[j].data) ELSE 0
    BY DEF MadeOf
  <2>3. j # Len(ds) /\ ds[j] = cs[j]
    BY <1>1
  <2> QED  BY <2>1, <2>2, <2>3
<1>9. Cardinality(Copies(t, k)) = n
  <2>1. Copies(t, k) = (Len(s) + 1)..(Len(s) + n)
    BY <1>1, <1>2, <1>3, <1>4, <1>5 DEF Copies
  <2>2. Cardinality((Len(s) + 1)..(Len(s) + n)) = n
    BY <1>1, FS_Interval
  <2> QED  BY <2>1, <2>2
<1>10. \A j \in 1..Len(ds) : j \in 1..Len(cs) \/ j = k
  BY <1>1
<1> QED  BY <1>2, <1>6, <1>7, <1>8, <1>9, <1>10 DEF MadeOf

\* What a call was made of is not touched by later commands.
LEMMA CallStays ==
  ASSUME NEW cs \in Seq(LoggedCommands), NEW ds \in Seq(LoggedCommands), Len(ds) = Len(cs) + 1,
         \A i \in 1..Len(cs) : ds[i] = cs[i],
         \A k \in 1..(Len(cs) + 1) : RunUpTo(ds, k) = RunUpTo(cs, k),
         NEW d, CallOf(d, cs)
  PROVE  CallOf(d, ds)
<1> DEFINE pieces == IF cs[d.at].header = "select" THEN {} ELSE RunUpTo(cs, d.at)
<1>1. Len(cs) \in Nat /\ d.at \in 1..Len(cs) /\ d.data \in Seq(Nat)
  BY DEF CallOf
<1>2. ds[d.at] = cs[d.at] /\ RunUpTo(ds, d.at) = RunUpTo(cs, d.at) /\ d.at \in 1..Len(ds)
  BY <1>1
<1>3. pieces \subseteq 1..(d.at - 1)
  BY DEF RunUpTo
<1>4. Len(ds) \notin pieces \cup {d.at} /\ \A j \in pieces : ds[j] = cs[j]
  BY <1>1, <1>3
<1>5. (\A j \in pieces : cs[j].header = cs[d.at].header) /\ MadeOf(d.data, pieces \cup {d.at}, cs)
  BY DEF CallOf
<1>6. (IF ds[d.at].header = "select" THEN {} ELSE RunUpTo(ds, d.at)) = pieces
  BY <1>2
<1> HIDE DEF pieces
<1>7. MadeOf(d.data, pieces \cup {d.at}, ds)
  BY <1>1, <1>4, <1>5, MadeStays
<1> QED  BY <1>1, <1>2, <1>4, <1>5, <1>6, <1>7 DEF CallOf

\* A command that is not part of a chain, whatever it is answered: nothing stays of an open chain.
LEMMA ChainEnds ==
  ASSUME ChainInv, NEW h \in Known, NEW nc \in Nat,
         Logged(h, FALSE, nc, FALSE) \/ Logged(h, TRUE, nc, FALSE), Unchained
  PROVE  /\ ChainTypes' /\ ChainOK(commands, chain_buf, chain_header, is_chaining)'
         /\ \A d \in delivered : CallOf(d, commands')
<1>2. commands \in Seq(LoggedCommands)
  BY DEF ChainInv, ChainTypes
<1>1. PICK e : Logs(e, h, nc) /\ ~(e.more /\ e.kept)
  <2>1. Len(commands) \in Nat
    BY <1>2
  <2> QED  BY <2>1, LogsEnd, Zenon
<1> DEFINE ds == commands'
<1>3. /\ ds \in Seq(LoggedCommands) /\ Len(ds) = Len(commands) + 1 /\ Len(commands) \in Nat
      /\ \A i \in 1..Len(commands) : ds[i] = commands[i]
      /\ \A k \in 1..(Len(commands) + 1) : RunUpTo(ds, k) = RunUpTo(commands, k)
      /\ RunUpTo(ds, Len(ds) + 1) = {}
  BY <1>1, <1>2, LogFacts DEF Logs
<1> HIDE DEF ds
<1>4. chain_buf' = <<>> /\ is_chaining' = FALSE
  BY DEF Unchained
<1>5. MadeOf(<<>>, {}, ds)
  <2>1. \A j : Copies(<<>>, j) = {}
    BY DEF Copies
  <2>2. \A j : Cardinality(Copies(<<>>, j)) = 0
    BY <2>1, FS_EmptySet
  <2> QED  BY <2>2 DEF MadeOf
<1>6. ChainOK(ds, <<>>, chain_header', FALSE)
  BY <1>3, <1>5 DEF ChainOK
<1>7. ASSUME NEW d \in delivered
      PROVE  CallOf(d, ds)
  BY <1>2, <1>3, CallStays DEF ChainInv
<1>8. ChainTypes'
  <2>1. commands' \in Seq(LoggedCommands)
    BY <1>3 DEF ds
  <2> QED  BY <1>4, <2>1 DEF ChainTypes
<1> QED  BY <1>4, <1>6, <1>7, <1>8 DEF ds

\* A command the chain takes in.
LEMMA ChainGrows ==
  ASSUME ChainInv, NEW h \in Known, NEW nc \in Nat, Continues(h), Logged(h, TRUE, nc, TRUE),
         chain_buf' = (IF is_chaining THEN chain_buf ELSE <<>>) \o Data(nc), chain_header' = h, is_chaining' = TRUE
  PROVE  /\ ChainTypes' /\ ChainOK(commands, chain_buf, chain_header, is_chaining)'
         /\ \A d \in delivered : CallOf(d, commands')
<1> DEFINE ds == commands'
           run == RunUpTo(commands, Len(commands) + 1)
<1>2. /\ commands \in Seq(LoggedCommands) /\ chain_buf \in Seq(Nat)
      /\ ChainOK(commands, chain_buf, chain_header, is_chaining)
  BY DEF ChainInv, ChainTypes
<1>1. PICK e : Logs(e, h, nc) /\ e.more /\ e.kept
  <2>1. Len(commands) \in Nat
    BY <1>2
  <2> QED  BY <2>1, LogsPart, Zenon
<1>3. /\ ds \in Seq(LoggedCommands) /\ Len(ds) = Len(commands) + 1 /\ Len(commands) \in Nat
      /\ \A i \in 1..Len(commands) : ds[i] = commands[i]
      /\ ds[Len(ds)].header = h /\ Len(ds[Len(ds)].data) = nc
      /\ \A k \in 1..(Len(commands) + 1) : RunUpTo(ds, k) = RunUpTo(commands, k)
      /\ RunUpTo(ds, Len(ds) + 1) = run \cup {Len(ds)}
  BY <1>1, <1>2, LogFacts DEF Logs
<1>4. chain_buf' = chain_buf \o [i \in 1..nc |-> Len(commands) + 1]
  BY <1>2 DEF ChainOK, Data, Sent
<1>5. run \subseteq 1..Len(commands) /\ MadeOf(chain_buf, run, commands)
      /\ \A j \in run : commands[j].header = h
  <2>1. run \subseteq 1..Len(commands)
    BY <1>3 DEF RunUpTo
  <2>2. MadeOf(chain_buf, run, commands) /\ \A j \in run : commands[j].header = h
    BY <1>2 DEF ChainOK, Continues
  <2> QED  BY <2>1, <2>2
<1> HIDE DEF ds, run
<1>6. Len(ds) \notin run /\ \A j \in run : ds[j] = commands[j]
  BY <1>3, <1>5
<1>7. chain_buf' \in Seq(Nat) /\ MadeOf(chain_buf', run \cup {Len(ds)}, ds)
  BY <1>2, <1>3, <1>4, <1>5, <1>6, MadeGrows
<1>8. \A j \in run \cup {Len(ds)} : ds[j].header = h
  BY <1>3, <1>5, <1>6
<1>9. ChainOK(ds, chain_buf', h, TRUE)
  BY <1>3, <1>7, <1>8 DEF ChainOK
<1>10. ASSUME NEW d \in delivered
       PROVE  CallOf(d, ds)
  BY <1>2, <1>3, CallStays DEF ChainInv
<1>11. ChainTypes'
  BY <1>3, <1>7 DEF ChainTypes, ds
<1> QED  BY <1>9, <1>10, <1>11 DEF ds

\* What a command that is not chained is called with.
LEMMA CallMade ==
  ASSUME ChainInv, NEW h \in Known, NEW nc \in Nat, Logged(h, FALSE, nc, FALSE), ~(Breaks(h) /\ h # "select"),
         NEW app,
         NEW data, data = (IF is_chaining /\ ~Breaks(h) THEN chain_buf ELSE <<>>) \o Data(nc)
  PROVE  CallOf([at |-> Sent + 1, app |-> app, data |-> data], commands')
<1> DEFINE ds == commands'
           run == IF h = "select" THEN {} ELSE RunUpTo(commands, Len(commands) + 1)
           had == IF is_chaining /\ ~Breaks(h) THEN chain_buf ELSE <<>>
<1>2. /\ commands \in Seq(LoggedCommands) /\ chain_buf \in Seq(Nat)
      /\ ChainOK(commands, chain_buf, chain_header, is_chaining)
  BY DEF ChainInv, ChainTypes
<1>1. PICK e : Logs(e, h, nc) /\ ~(e.more /\ e.kept)
  <2>1. Len(commands) \in Nat
    BY <1>2
  <2> QED  BY <2>1, LogsEnd, Zenon
<1>3. /\ ds \in Seq(LoggedCommands) /\ Len(ds) = Len(commands) + 1 /\ Len(commands) \in Nat
      /\ \A i \in 1..Len(commands) : ds[i] = commands[i]
      /\ ds[Len(ds)].header = h /\ Len(ds[Len(ds)].data) = nc
      /\ RunUpTo(ds, Len(commands) + 1) = RunUpTo(commands, Len(commands) + 1)
  BY <1>1, <1>2, LogFacts DEF Logs
<1> HIDE DEF ds
<1>4. had \in Seq(Nat) /\ data = had \o [i \in 1..nc |-> Len(commands) + 1]
  BY <1>2 DEF Data, Sent
<1>5. MadeOf(<<>>, {}, commands)
  <2>1. \A j : Copies(<<>>, j) = {}
    BY DEF Copies
  <2>2. \A j : Cardinality(Copies(<<>>, j)) = 0
    BY <2>1, FS_EmptySet
  <2> QED  BY <2>2 DEF MadeOf
<1>6. MadeOf(had, run, commands) /\ \A j \in run : commands[j].header = h
  <2>1. CASE h = "select"
    <3>1. had = <<>> /\ run = {}
      BY <1>2, <2>1 DEF ChainOK, Breaks
    <3> QED  BY <1>5, <3>1
  <2>2. CASE h # "select" /\ is_chaining
    <3>1. ~Breaks(h) /\ h = chain_header
      BY <2>2 DEF Breaks
    <3> QED  BY <1>2, <2>2, <3>1 DEF ChainOK
  <2>3. CASE h # "select" /\ ~is_chaining
    <3>1. had = <<>> /\ run = {}
      BY <1>2, <2>3 DEF ChainOK
    <3> QED  BY <1>5, <3>1
  <2> QED  BY <2>1, <2>2, <2>3
<1>7. run \subseteq 1..Len(commands)
  BY <1>3 DEF RunUpTo
<1> HIDE DEF run, had
<1>8. Len(ds) \notin run /\ \A j \in run : ds[j] = commands[j]
  BY <1>3, <1>7
<1>9. data \in Seq(Nat) /\ MadeOf(data, run \cup {Len(ds)}, ds)
  BY <1>2, <1>3, <1>4, <1>6, <1>8, MadeGrows
<1>10. (IF ds[Len(ds)].header = "select" THEN {} ELSE RunUpTo(ds, Len(ds))) = run
  BY <1>3 DEF run
<1>11. Sent + 1 = Len(ds) /\ Len(ds) \in 1..Len(ds)
  BY <1>3 DEF Sent
<1>12. \A j \in run : ds[j].header = ds[Len(ds)].header
  BY <1>3, <1>6, <1>8
<1> DEFINE d == [at |-> Sent + 1, app |-> app, data |-> data]
<1>13. d.at = Len(ds) /\ d.data = data
  BY <1>11
<1> HIDE DEF d
<1>14. CallOf(d, ds)
  BY <1>9, <1>10, <1>11, <1>12, <1>13 DEF CallOf
<1> QED  BY <1>14 DEF d, ds

LEMMA SelectsOne ==
  ASSUME NEW a \in Apps, loaded \subseteq {current_app}, select_app(a)
  PROVE  (loaded \subseteq {current_app})'
BY DEF select_app

LEMMA CommandKept ==
  ASSUME ChainInv, NEW h \in Known, NEW nc \in Nat, NEW n, ChainPart(h, nc, n) \/ Call(h, nc, n)
  PROVE  ChainInv'
<1>0. loaded \subseteq {current_app}
  BY DEF ChainInv
<1>1. CASE ChainPart(h, nc, n) /\ Continues(h) /\ Fits(nc)
  <2>1. /\ Logged(h, TRUE, nc, TRUE) /\ chain_buf' = (IF is_chaining THEN chain_buf ELSE <<>>) \o Data(nc)
        /\ chain_header' = h /\ is_chaining' = TRUE /\ UNCHANGED <<select, delivered>>
    BY <1>1 DEF ChainPart, Logged
  <2>2. /\ ChainTypes' /\ ChainOK(commands, chain_buf, chain_header, is_chaining)'
        /\ \A d \in delivered : CallOf(d, commands')
    BY <1>1, <2>1, ChainGrows
  <2> QED  BY <1>0, <2>1, <2>2 DEF ChainInv, select
<1>2. CASE ChainPart(h, nc, n) /\ ~(Continues(h) /\ Fits(nc))
  <2>1. Logged(h, TRUE, nc, FALSE) /\ Unchained /\ UNCHANGED <<select, delivered>>
    BY <1>2 DEF ChainPart, Logged
  <2> QED  BY <1>0, <2>1, ChainEnds DEF ChainInv, select
<1>3. CASE Call(h, nc, n)
  <2> DEFINE data == (IF is_chaining /\ ~Breaks(h) THEN chain_buf ELSE <<>>) \o Data(nc)
             d(app) == [at |-> Sent + 1, app |-> app, data |-> data]
  <2>1. Logged(h, FALSE, nc, FALSE) /\ Unchained
    BY <1>3 DEF Call
  <2>2. /\ ChainTypes' /\ ChainOK(commands, chain_buf, chain_header, is_chaining)'
        /\ \A c \in delivered : CallOf(c, commands')
    BY <2>1, ChainEnds
  <2>3. UNCHANGED select \/ \E a \in Apps : select_app(a)
    BY <1>3 DEF Call
  <2>4. UNCHANGED delivered \/ (~(Breaks(h) /\ h # "select") /\ \E app : delivered' = {d(app)})
    BY <1>3 DEF Call
  <2>5. ASSUME NEW app, ~(Breaks(h) /\ h # "select")
        PROVE  CallOf(d(app), commands')
    BY <2>1, <2>5, CallMade
  <2> HIDE DEF d
  <2>6. \A c \in delivered' : CallOf(c, commands')
    BY <2>2, <2>4, <2>5
  <2>7. (loaded \subseteq {current_app})'
    BY <1>0, <2>3, SelectsOne DEF select
  <2> QED  BY <2>2, <2>6, <2>7 DEF ChainInv
<1> QED  BY <1>1, <1>2, <1>3

LEMMA ChainNext ==
  ASSUME ApduAssumption, ChainInv, [ApduNext]_apduVars
  PROVE  ChainInv'
<1>0. /\ loaded \subseteq {current_app} /\ ChainTypes /\ ChainOK(commands, chain_buf, chain_header, is_chaining)
      /\ \A d \in delivered : CallOf(d, commands)
  BY DEF ChainInv
<1>1. CASE UNCHANGED <<chain, commands, delivered>> /\ UNCHANGED select
  BY <1>0, <1>1 DEF ChainInv, ChainTypes, chain, select
<1>2. CASE TransportSelects
  BY <1>0, <1>2, SelectsOne DEF TransportSelects, ChainInv, ChainTypes, chain
<1>3. CASE WorkerEnds
  BY <1>0, <1>3 DEF WorkerEnds, ChainInv, ChainTypes, chain
<1>4. ASSUME NEW n \in 0..All, GetResponse(n)
      PROVE  ChainInv'
  BY <1>1, <1>4 DEF GetResponse
<1>5. ASSUME NEW n \in 0..All, StaleResponse(n)
      PROVE  ChainInv'
  <2>1. "get_response" \in Known /\ UNCHANGED <<select, delivered>>
    BY <1>5 DEF StaleResponse, Known
  <2>2. CASE Continues("get_response")
    <3>1. /\ Logged("get_response", TRUE, 0, TRUE) /\ chain_buf' = (IF is_chaining THEN chain_buf ELSE <<>>)
          /\ chain_header' = "get_response" /\ is_chaining' = TRUE
      BY <1>5, <2>2 DEF StaleResponse, Logged
    <3>2. chain_buf' = (IF is_chaining THEN chain_buf ELSE <<>>) \o Data(0)
      BY <1>0, <3>1 DEF ChainTypes, Data
    <3> QED  BY <1>0, <2>1, <2>2, <3>1, <3>2, ChainGrows DEF ChainInv, select
  <2>3. CASE ~Continues("get_response")
    <3>1. Logged("get_response", TRUE, 0, FALSE) /\ Unchained
      <4>1. Logged("get_response", TRUE, 0, Continues("get_response")) /\ Unchained
        BY <1>5, <2>3 DEF StaleResponse
      <4>2. Continues("get_response") = FALSE
        BY <2>3 DEF Continues
      <4> QED  BY <4>1, <4>2, Zenon
    <3> QED  BY <1>0, <2>1, <3>1, ChainEnds DEF ChainInv, select
  <2> QED  BY <2>2, <2>3
<1>6. ASSUME NEW h \in Known, NEW more \in BOOLEAN, NEW n \in 0..MaxData, NEW want \in 1..All, NEW form \in Forms(n),
             Command(h, more, Coded(form, n, want))
      PROVE  ChainInv'
  <2>1. Lengths(Coded(form, n, want)).nc \in Nat
    BY LengthsDecode
  <2> QED  BY <1>6, <2>1, CommandKept DEF Command
<1>7. CASE UNCHANGED apduVars
  BY <1>1, <1>7 DEF apduVars
<1> QED  BY <1>2, <1>3, <1>4, <1>5, <1>6, <1>7 DEF ApduNext

\* What an application is called with is its own data and that of the chain right before it, for any
\* number of commands of any length, however chains are cut short, refused or mixed with others.
THEOREM ChainsHold == ApduSpec => []CalledWithItsChain
<1>1. ApduInit => ChainInv
  <2> SUFFICES ASSUME ApduInit
               PROVE  ChainInv
    OBVIOUS
  <2>1. commands = <<>> /\ chain_buf = <<>> /\ is_chaining = FALSE /\ delivered = {} /\ loaded = {}
    BY DEF ApduInit
  <2>2. RunUpTo(<<>>, Len(<<>>) + 1) = {}
    BY DEF RunUpTo
  <2>3. MadeOf(<<>>, {}, <<>>)
    BY DEF MadeOf
  <2>4. ChainOK(<<>>, <<>>, chain_header, FALSE)
    BY <2>2, <2>3 DEF ChainOK
  <2>5. ChainTypes
    BY <2>1 DEF ChainTypes
  <2> QED  BY <2>1, <2>4, <2>5 DEF ChainInv
<1>2. ChainInv /\ [ApduNext]_apduVars => ChainInv'
  BY ChainNext, ApduAssumption
<1>3. ChainInv => CalledWithItsChain
  BY DEF ChainInv, CallOf, CalledWithItsChain
<1> QED  BY <1>1, <1>2, <1>3, PTL DEF ApduSpec

-----------------------------------------------------------------------------
(* Resident credentials.  One per account goes by slots in use, whatever   *)
(* the clock says: a dated credential is of an account that is exempt.     *)
(* Nothing need be known of the mixture of old and new slots in flash but  *)
(* what a boot finds there and RAM has ended.                              *)

Credential == [form : {"legacy", "container"}, rp : CredRps, user : CredUsers, id : Nat,
               status : {"active", "revoked", "expired"}, dated : BOOLEAN, imported : BOOLEAN, guarded : BOOLEAN]
SlotRecs   == {NoResident, Damaged} \cup Credential
CredStores     == [creds : [ResidentSlots -> SlotRecs], rps : [CredRps -> Nat]]

Held(c)    == c.form \in {"legacy", "container"}
InUse(c)   == Held(c) /\ c.status = "active"
Account(c) == <<c.rp, c.user>>
Dated(c, ex) == Held(c) => /\ c.form = "legacy" => c.status = "active"
                           /\ c.dated => Account(c) \in ex
AllDated(cs, ex) == \A s \in ResidentSlots : Dated(cs[s], ex)
Apart(cs, ex) ==
  \A s, t \in ResidentSlots : s # t /\ InUse(cs[s]) /\ InUse(cs[t]) /\ Account(cs[s]) \notin ex
                              => Account(cs[s]) # Account(cs[t])

StockOK ==
  /\ stock \in CredStores /\ stockDisk \in CredStores /\ credOps \in Nat /\ lostDeletion \in BOOLEAN
  /\ AllDated(stock.creds, exempt) /\ AllDated(stockDisk.creds, exempt)
  /\ ~lostDeletion => Apart(stock.creds, exempt)

\* Slot s of a store given to c.
With(st, s, c) == [st EXCEPT !.creds[s] = c]

LEMMA WithFacts ==
  ASSUME NEW st \in CredStores, NEW s \in ResidentSlots, NEW c \in SlotRecs
  PROVE  /\ With(st, s, c) \in CredStores
         /\ \A t \in ResidentSlots : With(st, s, c).creds[t] = IF t = s THEN c ELSE st.creds[t]
<1> DEFINE cs == [st.creds EXCEPT ![s] = c]
<1>1. st.creds \in [ResidentSlots -> SlotRecs]
  BY DEF CredStores
<1>2. cs \in [ResidentSlots -> SlotRecs] /\ \A t \in ResidentSlots : cs[t] = IF t = s THEN c ELSE st.creds[t]
  BY <1>1
<1>3. With(st, s, c) = [st EXCEPT !.creds = cs]
  BY DEF With
<1> HIDE DEF cs
<1>4. With(st, s, c) \in CredStores /\ With(st, s, c).creds = cs
  BY <1>2, <1>3 DEF CredStores
<1> QED  BY <1>2, <1>4

\* More accounts exempt ask less.
LEMMA ExemptGrows ==
  ASSUME NEW cs, NEW ex, NEW fx, ex \subseteq fx
  PROVE  (AllDated(cs, ex) => AllDated(cs, fx)) /\ (Apart(cs, ex) => Apart(cs, fx))
BY DEF AllDated, Dated, Apart

\* A credential that may take slot s: it is not in use, or of the account that is there, or of an account
\* that is in use in no other slot, or exempt.
Apt(cs, s, c, ex) ==
  \/ ~InUse(c)
  \/ InUse(cs[s]) /\ Account(c) = Account(cs[s])
  \/ Account(c) \in ex
  \/ \A t \in ResidentSlots : t # s /\ InUse(cs[t]) => Account(cs[t]) # Account(c)

\* The store as the device reads it, with c in slot s.
Given(s, c) == stock' \in CredStores /\ \A t \in ResidentSlots : stock'.creds[t] = IF t = s THEN c ELSE stock.creds[t]

LEMMA SlotKept ==
  ASSUME StockOK, NEW s \in ResidentSlots, NEW c \in SlotRecs, Given(s, c), exempt \subseteq exempt',
         Dated(c, exempt'), Apt(stock.creds, s, c, exempt'), UNCHANGED lostDeletion, stockDisk' \in {stockDisk, stock'},
         credOps' \in Nat
  PROVE  StockOK'
<1> DEFINE cs == stock.creds
           ds == stock'.creds
<1>1. stock' \in CredStores /\ \A t \in ResidentSlots : ds[t] = IF t = s THEN c ELSE cs[t]
  BY DEF Given
<1>2. AllDated(cs, exempt') /\ AllDated(stockDisk.creds, exempt') /\ (~lostDeletion => Apart(cs, exempt'))
  BY ExemptGrows DEF StockOK
<1> HIDE DEF cs, ds
<1>3. AllDated(ds, exempt')
  BY <1>1, <1>2 DEF AllDated
<1>4. ASSUME Apart(cs, exempt')  PROVE Apart(ds, exempt')
  <2> SUFFICES ASSUME NEW t \in ResidentSlots, NEW u \in ResidentSlots, t # u, InUse(ds[t]), InUse(ds[u]),
                      Account(ds[t]) \notin exempt', Account(ds[t]) = Account(ds[u])
               PROVE  FALSE
    BY DEF Apart
  <2>1. CASE t # s /\ u # s
    BY <1>1, <1>4, <2>1 DEF Apart
  <2>2. ASSUME NEW v \in ResidentSlots, v # s, InUse(cs[v]), InUse(c), Account(cs[v]) = Account(c), Account(c) \notin exempt'
        PROVE  FALSE
    <3>1. InUse(cs[s]) /\ Account(c) = Account(cs[s])
      BY <2>2 DEF Apt, cs
    <3> QED  BY <1>4, <2>2, <3>1 DEF Apart
  <2>3. CASE t = s
    BY <1>1, <2>2, <2>3
  <2>4. CASE u = s
    BY <1>1, <2>2, <2>4
  <2> QED  BY <2>1, <2>3, <2>4
<1>5. stockDisk' \in CredStores /\ AllDated(stockDisk.creds, exempt)'
  <2>1. CASE stockDisk' = stockDisk
    BY <1>2, <2>1 DEF StockOK, AllDated, Dated, Held, Account
  <2>2. CASE stockDisk' = stock'
    BY <1>1, <1>3, <2>2 DEF ds, AllDated, Dated, Held, Account
  <2> QED  BY <2>1, <2>2
<1>6. AllDated(stock'.creds, exempt') /\ (~lostDeletion' => Apart(stock'.creds, exempt')) /\ lostDeletion' \in BOOLEAN
  BY <1>2, <1>3, <1>4 DEF ds, StockOK
<1> QED  BY <1>1, <1>5, <1>6 DEF StockOK, AllDated, Dated, Apart, Held, InUse, Account, ResidentSlots

LEMMA StoreSame ==
  ASSUME StockOK, UNCHANGED <<stock, stockDisk, exempt, lostDeletion>>, credOps' \in Nat
  PROVE  StockOK'
BY DEF StockOK, AllDated, Dated, Apart, Held, InUse, Account, ResidentSlots

\* A slot is written, or the write fails.
LEMMA UpdatedKept ==
  ASSUME StockOK, NEW s \in ResidentSlots, NEW c \in SlotRecs, NEW partial, SlotUpdated(s, c, partial), exempt \subseteq exempt',
         Dated(c, exempt'), Apt(stock.creds, s, c, exempt'), UNCHANGED lostDeletion, credOps' \in Nat
  PROVE  StockOK'
<1> DEFINE old == stock.creds[s]
<1>1. stock \in CredStores /\ old \in SlotRecs /\ Dated(old, exempt)
  BY DEF StockOK, CredStores, AllDated
<1>2. PICK x \in {old, c, Damaged} : stock' = With(stock, s, x) /\ stockDisk' \in {stockDisk, stock'}
  BY DEF SlotUpdated, SlotWritten, SlotWriteFails, With
<1>3. x \in SlotRecs
  BY <1>1, <1>2 DEF SlotRecs
<1>4. Given(s, x)
  BY <1>1, <1>2, <1>3, WithFacts DEF Given
<1>5. ~Held(Damaged)
  BY DEF Held, Damaged
<1>6. Dated(x, exempt') /\ Apt(stock.creds, s, x, exempt')
  <2>1. CASE x = c
    BY <2>1
  <2>2. CASE x = old
    BY <1>1, <2>2 DEF Dated, Apt
  <2>3. CASE x = Damaged
    BY <1>5, <2>3 DEF Dated, Apt, InUse
  <2> QED  BY <1>2, <2>1, <2>2, <2>3
<1> QED  BY <1>2, <1>3, <1>4, <1>6, SlotKept

\* A credential of an account as it is made or imported.
Fresh(c, rp, user) == c \in Credential /\ c.status = "active" /\ ~c.dated /\ c.rp = rp /\ c.user = user

LEMMA ResidentFacts ==
  ASSUME NEW form \in {"legacy", "container"}, NEW rp \in CredRps, NEW user \in CredUsers, NEW id \in Nat, NEW b \in BOOLEAN, NEW c,
         c = [Resident(form, rp, user, id) EXCEPT !.guarded = b] \/ c = [Resident(form, rp, user, id) EXCEPT !.imported = b]
  PROVE  Fresh(c, rp, user)
<1> DEFINE r == Resident(form, rp, user, id)
<1>1. Fresh(r, rp, user)
  BY DEF Fresh, Resident, Credential
<1> HIDE DEF r
<1>2. CASE c = [r EXCEPT !.guarded = b]
  BY <1>1, <1>2 DEF Fresh, Credential
<1>3. CASE c = [r EXCEPT !.imported = b]
  BY <1>1, <1>3 DEF Fresh, Credential
<1> QED  BY <1>2, <1>3 DEF r

\* What may be used is in use, and what is in use and not dated may be used.
LEMMA LoadsFacts ==
  ASSUME NEW c \in SlotRecs, NEW ex, Dated(c, ex)
  PROVE  (Loads(c) => InUse(c)) /\ (InUse(c) /\ Account(c) \notin ex => Loads(c))
BY DEF Loads, LegacyLoads, resident_usable, InUse, Held, Dated

LEMMA MakeKept ==
  ASSUME CredentialsAssumption, StockOK, NEW rp \in CredRps, NEW user \in CredUsers, NEW g \in BOOLEAN, cbor_make_credential(rp, user, g)
  PROVE  StockOK'
<1>1. credOps' \in Nat /\ UNCHANGED <<exempt, lostDeletion>>
  BY DEF cbor_make_credential, CredCommand, StockOK
<1>2. PICK s \in StoreSlot(rp, user) : SlotUpdated(s, NewResident(s, rp, user, g), FALSE)
  BY DEF cbor_make_credential
<1> DEFINE c == NewResident(s, rp, user, g)
           cs == stock.creds
           same == {t \in Usable(rp) : stock.creds[t].user = user}
<1>3. c \in Credential /\ c.status = "active" /\ ~c.dated /\ c.rp = rp /\ c.user = user
  <2>1. NewId \in Nat
    BY DEF NewId, StockOK, CredentialsAssumption
  <2> DEFINE f == IF stock.creds[s].form = "legacy" THEN "legacy" ELSE "container"
  <2>2. f \in {"legacy", "container"} /\ c = [Resident(f, rp, user, NewId) EXCEPT !.guarded = g]
    BY DEF NewResident
  <2> HIDE DEF f, c
  <2>3. Fresh(c, rp, user)
    BY <2>1, <2>2, ResidentFacts
  <2> QED  BY <2>3 DEF Fresh
<1>4. Account(c) = <<rp, user>> /\ Dated(c, exempt') /\ c \in SlotRecs
  BY <1>3 DEF Account, Dated, SlotRecs
<1>5. \A t \in ResidentSlots : cs[t] \in SlotRecs /\ Dated(cs[t], exempt)
  BY DEF StockOK, CredStores, AllDated
<1> HIDE DEF c
<1>6. s \in ResidentSlots /\ (same # {} => s \in same)
  BY <1>2 DEF StoreSlot, FreeSlot, Usable
<1>7. Apt(cs, s, c, exempt')
  <2>1. CASE Account(c) \in exempt
    BY <1>1, <2>1 DEF Apt
  <2>2. CASE same # {}
    <3>1. Loads(cs[s]) /\ cs[s].rp = rp /\ cs[s].user = user
      BY <1>6, <2>2 DEF Usable, IsOf
    <3>2. InUse(cs[s]) /\ Account(cs[s]) = Account(c)
      BY <1>4, <1>5, <1>6, <3>1, LoadsFacts DEF Account
    <3> QED  BY <3>2 DEF Apt
  <2>3. CASE same = {} /\ Account(c) \notin exempt
    <3>1. ASSUME NEW t \in ResidentSlots, InUse(cs[t]), Account(cs[t]) = Account(c)
          PROVE  FALSE
      <4>1. Loads(cs[t])
        BY <1>5, <2>3, <3>1, LoadsFacts
      <4>2. cs[t].rp = rp /\ cs[t].user = user
        BY <1>4, <3>1 DEF Account
      <4>3. t \in same
        BY <3>1, <4>1, <4>2 DEF Usable, IsOf, InUse, Held
      <4> QED  BY <2>3, <4>3
    <3> QED  BY <3>1 DEF Apt
  <2> QED  BY <2>1, <2>2, <2>3
<1> QED  BY <1>1, <1>2, <1>4, <1>6, <1>7, UpdatedKept DEF c

LEMMA ImportKept ==
  ASSUME CredentialsAssumption, StockOK, NEW rp \in CredRps, NEW user \in CredUsers, credential_import(rp, user)
  PROVE  StockOK'
<1>1. credOps' \in Nat /\ exempt' = exempt \cup {<<rp, user>>} /\ UNCHANGED lostDeletion
  BY DEF credential_import, CredCommand, StockOK
<1>2. PICK s \in FreeSlot : SlotUpdated(s, NewImported(rp, user), FALSE)
  BY DEF credential_import
<1> DEFINE c == NewImported(rp, user)
<1>3. c \in Credential /\ ~c.dated /\ c.status = "active" /\ c.rp = rp /\ c.user = user
  <2>1. NewId \in Nat
    BY DEF NewId, StockOK, CredentialsAssumption
  <2>2. c = [Resident("container", rp, user, NewId) EXCEPT !.imported = TRUE]
    BY DEF NewImported
  <2> HIDE DEF c
  <2>3. Fresh(c, rp, user)
    BY <2>1, <2>2, ResidentFacts
  <2> QED  BY <2>3 DEF Fresh
<1>4. Dated(c, exempt') /\ Account(c) \in exempt' /\ c \in SlotRecs
  BY <1>1, <1>3 DEF Dated, SlotRecs, Account
<1>5. s \in ResidentSlots
  BY <1>2 DEF FreeSlot
<1> HIDE DEF c
<1>6. Apt(stock.creds, s, c, exempt')
  BY <1>4 DEF Apt
<1> QED  BY <1>1, <1>2, <1>4, <1>5, <1>6, UpdatedKept DEF c

\* A credential ends, or is written again: with another status or date, it is of the same account.
LEMMA DeleteKept ==
  ASSUME StockOK, NEW s \in ResidentSlots, DeleteCredential(s)
  PROVE  StockOK'
<1>1. credOps' \in Nat /\ UNCHANGED <<exempt, lostDeletion>> /\ stock \in CredStores
  BY DEF DeleteCredential, CredCommand, StockOK
<1> DEFINE old == stock.creds[s]
<1>2. PICK x \in {old, Damaged, NoResident} : Given(s, x) /\ stockDisk' \in {stockDisk, stock'}
  <2>1. old \in SlotRecs /\ Damaged \in SlotRecs /\ NoResident \in SlotRecs
    BY <1>1 DEF CredStores, SlotRecs
  <2>2. CASE old.form = "legacy"
    <3> DEFINE q == old.rp
               cs == [stock.creds EXCEPT ![s] = NoResident]
               n == rp_legacy_decrement(stock.rps[q])
               rs == [stock.rps EXCEPT ![q] = n]
    <3>1. stock' = [stock EXCEPT !.creds = cs, !.rps = rs] /\ stockDisk' = stockDisk
      BY <1>1, <2>2 DEF DeleteCredential, CredStores
    <3>2. stock.creds \in [ResidentSlots -> SlotRecs] /\ stock.rps \in [CredRps -> Nat]
      BY <1>1 DEF CredStores
    <3>3. cs \in [ResidentSlots -> SlotRecs] /\ \A t \in ResidentSlots : cs[t] = IF t = s THEN NoResident ELSE stock.creds[t]
      BY <2>1, <3>2
    <3>4. rs \in [CredRps -> Nat]
      <4>1. q \in CredRps => n \in Nat
        BY <3>2 DEF rp_legacy_decrement
      <4> HIDE DEF n, q
      <4> QED  BY <3>2, <4>1
    <3> HIDE DEF cs, rs
    <3>5. stock' \in CredStores /\ stock'.creds = cs
      BY <1>1, <3>1, <3>3, <3>4 DEF CredStores
    <3> QED  BY <3>1, <3>3, <3>5 DEF Given
  <2>3. CASE old.form # "legacy"
    <3>1. PICK x \in {old, Damaged, NoResident} : stock' = With(stock, s, x) /\ stockDisk' \in {stockDisk, stock'}
      BY <2>3 DEF DeleteCredential, With
    <3>2. x \in SlotRecs
      BY <2>1, <3>1
    <3>3. Given(s, x)
      BY <1>1, <3>1, <3>2, WithFacts DEF Given
    <3> QED  BY <3>1, <3>3
  <2> QED  BY <2>2, <2>3
<1>3. ~Held(Damaged) /\ ~Held(NoResident) /\ Dated(old, exempt) /\ old \in SlotRecs
  BY DEF Held, Damaged, NoResident, StockOK, AllDated, CredStores
<1>4. Dated(x, exempt) /\ Apt(stock.creds, s, x, exempt)
  BY <1>2, <1>3 DEF Dated, Apt, InUse
<1>5. x \in SlotRecs
  BY <1>2, <1>3 DEF SlotRecs
<1> QED  BY <1>1, <1>2, <1>4, <1>5, SlotKept

LEMMA RewriteKept ==
  ASSUME StockOK, NEW s \in ResidentSlots,
         UpdateUser(s) \/ Revoke(s) \/ \E d \in {"past", "coming", "none"} : Expire(s, d)
  PROVE  StockOK'
<1> DEFINE old == stock.creds[s]
<1>1. credOps' \in Nat /\ UNCHANGED lostDeletion /\ stock \in CredStores
  <2>1. CredCommand /\ UNCHANGED lostDeletion
    BY DEF UpdateUser, Revoke, Expire
  <2> QED  BY <2>1 DEF CredCommand, StockOK
<1>2. Held(old) /\ (exempt' = exempt \/ exempt' = exempt \cup {Account(old)})
  BY DEF UpdateUser, Revoke, Expire, Held, Account
<1>3. old \in SlotRecs /\ Dated(old, exempt)
  BY <1>1 DEF StockOK, AllDated, CredStores
<1>4. old \in Credential
  BY <1>2, <1>3 DEF Held, SlotRecs, NoResident, Damaged
<1>5. CASE UpdateUser(s)
  <2>1. SlotUpdated(s, old, TRUE) /\ exempt' = exempt
    BY <1>5 DEF UpdateUser
  <2>2. Apt(stock.creds, s, old, exempt')
    BY DEF Apt
  <2> QED  BY <1>1, <1>3, <2>1, <2>2, UpdatedKept
<1>6. ASSUME NEW st \in {"active", "revoked", "expired"}, NEW b \in BOOLEAN, Restated(s, st, b),
             b => Account(old) \in exempt', st = "active" => InUse(old)
      PROVE  StockOK'
  <2> DEFINE c == [old EXCEPT !.status = st, !.dated = b]
  <2>1. old.form = "container" /\ SlotUpdated(s, c, TRUE)
    BY <1>6 DEF Restated
  <2>2. c \in Credential /\ c.form = "container" /\ c.status = st /\ c.dated = b /\ c.rp = old.rp /\ c.user = old.user
    BY <1>4, <2>1 DEF Credential
  <2> HIDE DEF c
  <2>3. Account(c) = Account(old) /\ c \in SlotRecs
    BY <2>2 DEF Account, SlotRecs
  <2>4. Dated(c, exempt') /\ Apt(stock.creds, s, c, exempt')
    BY <1>6, <2>2, <2>3 DEF Dated, Apt, InUse
  <2>5. exempt \subseteq exempt'
    BY <1>2
  <2> QED  BY <1>1, <2>1, <2>3, <2>4, <2>5, UpdatedKept
<1>7. CASE Revoke(s)
  <2>1. Restated(s, "revoked", old.dated) /\ exempt' = exempt
    BY <1>7 DEF Revoke
  <2>2. old.dated \in BOOLEAN /\ (old.dated => Account(old) \in exempt')
    BY <1>2, <1>3, <1>4, <2>1 DEF Credential, Dated
  <2> QED  BY <1>6, <2>1, <2>2
<1>8. ASSUME NEW d \in {"past", "coming", "none"}, Expire(s, d)
      PROVE  StockOK'
  <2> DEFINE st == IF d = "past" \/ (d = "coming" /\ clock = "late") THEN "expired" ELSE "active"
             b == d # "none"
  <2>1. Restated(s, st, b) /\ Account(old) \in exempt' /\ Loads(old)
    BY <1>8 DEF Expire, Account
  <2>2. InUse(old)
    BY <1>3, <2>1, LoadsFacts
  <2>3. st \in {"active", "revoked", "expired"} /\ b \in BOOLEAN
    OBVIOUS
  <2> HIDE DEF st, b
  <2> QED  BY <1>6, <2>1, <2>2, <2>3
<1> QED  BY <1>5, <1>7, <1>8

LEMMA LossKept ==
  ASSUME StockOK, ResetCredentials \/ StockWriteBack \/ CredPowerLoss
  PROVE  StockOK'
<1>1. stock \in CredStores /\ stockDisk \in CredStores
  BY DEF StockOK
<1>2. CASE ResetCredentials
  <2>1. stock' = [creds |-> [s \in ResidentSlots |-> NoResident], rps |-> [rp \in CredRps |-> 0]]
        /\ UNCHANGED <<stockDisk, exempt, lostDeletion>> /\ credOps' \in Nat
    BY <1>2 DEF ResetCredentials, CredCommand, StockOK
  <2>2. stock' \in CredStores /\ \A s \in ResidentSlots : stock'.creds[s] = NoResident
    BY <2>1 DEF CredStores, SlotRecs
  <2>3. ~Held(NoResident)
    BY DEF Held, NoResident
  <2>4. AllDated(stock'.creds, exempt) /\ Apart(stock'.creds, exempt)
    BY <2>2, <2>3 DEF AllDated, Dated, Apart, InUse
  <2> QED  BY <2>1, <2>2, <2>4 DEF StockOK, AllDated, Dated, Apart, Held, InUse, Account, ResidentSlots
<1>3. CASE StockWriteBack
  <2>1. UNCHANGED <<stock, exempt, lostDeletion, credOps>>
    BY <1>3 DEF StockWriteBack
  <2>2. stockDisk' \in CredStores /\ AllDated(stockDisk'.creds, exempt)
    <3>1. ASSUME NEW s \in ResidentSlots, stockDisk' = With(stockDisk, s, stock.creds[s])
          PROVE  stockDisk' \in CredStores /\ AllDated(stockDisk'.creds, exempt)
      <4>1. stock.creds[s] \in SlotRecs
        BY <1>1 DEF CredStores
      <4>2. stockDisk' \in CredStores /\ \A t \in ResidentSlots : stockDisk'.creds[t] = IF t = s THEN stock.creds[s] ELSE stockDisk.creds[t]
        BY <1>1, <3>1, <4>1, WithFacts
      <4> QED  BY <4>2 DEF StockOK, AllDated
    <3>2. ASSUME NEW rp \in CredRps, stockDisk' = [stockDisk EXCEPT !.rps[rp] = stock.rps[rp]]
          PROVE  stockDisk' \in CredStores /\ AllDated(stockDisk'.creds, exempt)
      <4> DEFINE rs == [stockDisk.rps EXCEPT ![rp] = stock.rps[rp]]
      <4>1. rs \in [CredRps -> Nat] /\ stockDisk' = [stockDisk EXCEPT !.rps = rs]
        BY <1>1, <3>2 DEF CredStores
      <4> HIDE DEF rs
      <4>2. stockDisk' \in CredStores /\ stockDisk'.creds = stockDisk.creds
        BY <1>1, <4>1 DEF CredStores
      <4> QED  BY <4>2 DEF StockOK
    <3> QED  BY <1>3, <3>1, <3>2 DEF StockWriteBack, With
  <2> QED  BY <2>1, <2>2 DEF StockOK, AllDated, Dated, Apart, Held, InUse, Account, ResidentSlots
<1>4. CASE CredPowerLoss
  <2>1. stock' = stockDisk /\ UNCHANGED <<stockDisk, exempt, credOps>>
    BY <1>4 DEF CredPowerLoss
  <2>2. lostDeletion' = (lostDeletion \/ \E s \in ResidentSlots : Ended(stock.creds[s], stockDisk.creds[s]))
    BY <1>4 DEF CredPowerLoss
  <2> DEFINE lost == \E s \in ResidentSlots : Ended(stock.creds[s], stockDisk.creds[s])
  <2>3. ASSUME ~lostDeletion, ~lost
        PROVE  Apart(stockDisk.creds, exempt)
    <3>1. Apart(stock.creds, exempt)
      BY <2>3 DEF StockOK
    <3>2. \A s \in ResidentSlots : InUse(stockDisk.creds[s]) =>
            InUse(stock.creds[s]) /\ Account(stock.creds[s]) = Account(stockDisk.creds[s])
      BY <2>3 DEF Ended, InUse, Held, Account
    <3> QED  BY <3>1, <3>2 DEF Apart
  <2> HIDE DEF lost
  <2>4. lostDeletion' \in BOOLEAN /\ (~lostDeletion' => Apart(stockDisk.creds, exempt))
    BY <2>2, <2>3 DEF StockOK, lost
  <2> QED  BY <2>1, <2>4 DEF StockOK, AllDated, Dated, Apart, Held, InUse, Account, ResidentSlots
<1> QED  BY <1>2, <1>3, <1>4

\* The credentials still to be signed with are there.
LEMMA NextsKept ==
  ASSUME StockOK, AssertionsLive, [CredentialsNext]_credVars
  PROVE  AssertionsLive'
<1>1. CASE gna' = NoGna
  BY <1>1 DEF AssertionsLive, NoGna
<1>2. CASE gna'.left \subseteq gna.left /\ UNCHANGED stock
  BY <1>2 DEF AssertionsLive, ResidentSlots
<1>3. ASSUME NEW rp, NEW user, credential_import(rp, user)
      PROVE  AssertionsLive'
  <2> DEFINE c == NewImported(rp, user)
  <2>1. PICK s \in FreeSlot : \E x : stock' = [stock EXCEPT !.creds[s] = x]
    <3>1. PICK s \in FreeSlot : SlotUpdated(s, c, FALSE)
      BY <1>3 DEF credential_import
    <3> QED  BY <3>1 DEF SlotUpdated, SlotWritten, SlotWriteFails
  <2>2. s \in ResidentSlots /\ stock.creds[s] = NoResident /\ NoResident.form = "none"
    BY <2>1 DEF FreeSlot, NoResident
  <2>3. \A t \in ResidentSlots : t # s => stock'.creds[t] = stock.creds[t]
    BY <2>1 DEF StockOK, CredStores
  <2>4. UNCHANGED gna
    BY <1>3 DEF credential_import, walkVars
  <2>5. ASSUME NEW i \in gna.left
        PROVE  \E t \in ResidentSlots : stock'.creds[t].form \in {"legacy", "container"} /\ stock'.creds[t].id = i
                                        /\ stock'.creds[t].status = "active"
    <3>1. PICK t \in ResidentSlots : stock.creds[t].form \in {"legacy", "container"} /\ stock.creds[t].id = i
                                     /\ stock.creds[t].status = "active"
      BY DEF AssertionsLive
    <3>2. t # s
      BY <2>2, <3>1
    <3> QED  BY <2>3, <3>1, <3>2
  <2> QED  BY <2>4, <2>5 DEF AssertionsLive, ResidentSlots
<1>4. ASSUME NEW c, NEW rp \in CredRps, NEW uv, cbor_get_assertion(c, rp, uv)
      PROVE  AssertionsLive'
  <2> DEFINE ids == Ids(Shown(rp, uv))
  <2>1. UNCHANGED stock /\ (gna' = NoGna \/ \E i : gna' = [chan |-> c, left |-> ids \ {i}])
    BY <1>4 DEF cbor_get_assertion, storeVars
  <2>2. ASSUME NEW i \in ids
        PROVE  \E s \in ResidentSlots : InUse(stock.creds[s]) /\ stock.creds[s].id = i
    <3>1. PICK s \in Shown(rp, uv) : stock.creds[s].id = i
      BY <2>2 DEF Ids
    <3>2. s \in ResidentSlots /\ Loads(stock.creds[s])
      BY <3>1 DEF Shown, Usable
    <3>3. stock.creds[s] \in SlotRecs /\ Dated(stock.creds[s], exempt)
      BY <3>2 DEF StockOK, CredStores, AllDated
    <3> QED  BY <3>1, <3>2, <3>3, LoadsFacts
  <2> HIDE DEF ids
  <2>3. ASSUME NEW i, gna' = [chan |-> c, left |-> ids \ {i}]
        PROVE  AssertionsLive'
    <3>1. gna'.left \subseteq ids
      BY <2>3
    <3> QED  BY <2>1, <2>2, <3>1 DEF AssertionsLive, InUse, Held, ResidentSlots
  <2> QED  BY <1>1, <2>1, <2>3
<1>5. ASSUME NEW c, cbor_get_next_assertion(c)
      PROVE  AssertionsLive'
  <2>1. CASE gna' = NoGna
    BY <1>1, <2>1
  <2>2. CASE gna' # NoGna
    <3>1. PICK i : gna' = [gna EXCEPT !.left = gna.left \ {i}]
      BY <1>5, <2>2 DEF cbor_get_next_assertion
    <3>2. UNCHANGED stock
      BY <1>5 DEF cbor_get_next_assertion, storeVars
    <3> DEFINE fewer == gna.left \ {i}
    <3>3. gna'.left = fewer \/ gna'.left = gna.left
      <4> HIDE DEF fewer
      <4>1. gna' = [gna EXCEPT !.left = fewer]
        BY <3>1 DEF fewer
      <4> QED  BY <4>1
    <3> QED  BY <1>2, <3>2, <3>3
  <2> QED  BY <2>1, <2>2
<1>6. CASE cbor_cred_mgmt_tick
  <2>1. UNCHANGED stock /\ (gna' = NoGna \/ gna' = gna)
    BY <1>6 DEF cbor_cred_mgmt_tick, storeVars
  <2> QED  BY <1>1, <1>2, <2>1
<1>7. CASE SetRtc \/ StockWriteBack \/ UNCHANGED credVars
  <2>1. UNCHANGED <<stock, gna>>
    BY <1>7 DEF SetRtc, StockWriteBack, credVars, storeVars, walkVars
  <2> QED  BY <1>2, <2>1
<1>8. ASSUME NEW rp, NEW u, NEW g, cbor_make_credential(rp, u, g)
      PROVE  gna' = NoGna
  BY <1>8 DEF cbor_make_credential, DropNext
<1>9. CborOther \/ ResetCredentials \/ CredPowerLoss => gna' = NoGna
  BY DEF CborOther, ResetCredentials, CredPowerLoss, DropNext
<1>10. ASSUME NEW rp, NEW uv, MakeExcluded(rp, uv)
       PROVE  gna' = NoGna
  BY <1>9, <1>10 DEF MakeExcluded
<1>11. ASSUME NEW c, RpBegin(c) \/ RpNext(c) \/ CredNext(c) \/ \E rp \in CredRps : CredBegin(c, rp)
       PROVE  gna' = NoGna
  BY <1>11 DEF RpBegin, RpNext, CredNext, CredBegin, DropNext
<1>12. ASSUME NEW s, DeleteCredential(s) \/ UpdateUser(s) \/ Revoke(s) \/ \E d \in {"past", "coming", "none"} : Expire(s, d)
       PROVE  gna' = NoGna
  BY <1>12 DEF DeleteCredential, UpdateUser, Revoke, Expire, DropNext
<1> QED  BY <1>1, <1>3, <1>4, <1>5, <1>6, <1>7, <1>8, <1>9, <1>10, <1>11, <1>12
         DEF CredentialsNext, MakeMalformed, MakeUnauthorized, AssertionMalformed, AssertionUnauthorized,
             ManagementRefused, getCredsMetadata, ConfigRefused

LEMMA StockNext ==
  ASSUME CredentialsAssumption, StockOK, [CredentialsNext]_credVars
  PROVE  StockOK'
<1>1. credOps \in Nat
  BY DEF StockOK
<1>2. ASSUME CborOther
      PROVE  StockOK'
  BY <1>1, <1>2, StoreSame DEF CborOther, CredCommand, storeVars
<1>3. ASSUME NEW rp, NEW uv, MakeExcluded(rp, uv)
      PROVE  StockOK'
  BY <1>2, <1>3 DEF MakeExcluded
<1>4. ASSUME NEW c, RpBegin(c) \/ RpNext(c) \/ CredNext(c) \/ \E rp \in CredRps : CredBegin(c, rp)
      PROVE  StockOK'
  <2>1. CredCommand /\ UNCHANGED <<stock, stockDisk, exempt, lostDeletion>>
    BY <1>4 DEF RpBegin, RpNext, CredNext, CredBegin, storeVars
  <2> QED  BY <1>1, <2>1, StoreSame DEF CredCommand
<1>5. ASSUME NEW c, cbor_get_next_assertion(c) \/ \E rp \in CredRps, uv \in BOOLEAN : cbor_get_assertion(c, rp, uv)
      PROVE  StockOK'
  <2>1. CredCommand /\ UNCHANGED <<stock, stockDisk, exempt, lostDeletion>>
    BY <1>5 DEF cbor_get_next_assertion, cbor_get_assertion, storeVars
  <2> QED  BY <1>1, <2>1, StoreSame DEF CredCommand
<1>6. CASE cbor_cred_mgmt_tick \/ SetRtc \/ UNCHANGED credVars
  <2>1. UNCHANGED <<stock, stockDisk, exempt, lostDeletion, credOps>>
    BY <1>6 DEF cbor_cred_mgmt_tick, SetRtc, credVars, storeVars
  <2> QED  BY <1>1, <2>1, StoreSame
<1>7. ASSUME NEW rp \in CredRps, NEW u \in CredUsers, credential_import(rp, u) \/ \E g \in BOOLEAN : cbor_make_credential(rp, u, g)
      PROVE  StockOK'
  BY <1>7, ImportKept, MakeKept
<1>8. ASSUME NEW s \in ResidentSlots,
             DeleteCredential(s) \/ UpdateUser(s) \/ Revoke(s) \/ \E d \in {"past", "coming", "none"} : Expire(s, d)
      PROVE  StockOK'
  BY <1>8, DeleteKept, RewriteKept
<1>9. CASE ResetCredentials \/ StockWriteBack \/ CredPowerLoss
  BY <1>9, LossKept
<1> QED  BY <1>2, <1>3, <1>4, <1>5, <1>6, <1>7, <1>8, <1>9
         DEF CredentialsNext, MakeMalformed, MakeUnauthorized, AssertionMalformed, AssertionUnauthorized,
             ManagementRefused, getCredsMetadata, ConfigRefused

\* A choice of one of a set of two or more.
LEMMA OneOf ==
  ASSUME NEW S, \E x, y \in S : x # y
  PROVE  (CHOOSE x \in S : TRUE) \in S
<1>1. \E x : x \in S /\ TRUE
  OBVIOUS
<1> QED  BY <1>1, Zenon

LEMMA StockInit ==
  ASSUME CredentialsAssumption, CredentialsInit
  PROVE  StockOK
<1> DEFINE r == CHOOSE x \in CredRps : TRUE
           q == CHOOSE x \in CredRps : x # r
           u == CHOOSE x \in CredUsers : TRUE
           v == CHOOSE x \in CredUsers : x # u
           old == [x \in CredRps |-> IF x = r THEN 1 ELSE 0]
           one == [s \in ResidentSlots |-> IF s = 0 THEN Resident("legacy", r, u, 0)
                                           ELSE IF s = 1 THEN Resident("container", r, v, 1)
                                           ELSE NoResident]
           two == [s \in ResidentSlots |-> IF s = 0 THEN Resident("container", q, u, 0)
                                           ELSE IF s = 1 THEN [Resident("container", r, u, 1) EXCEPT !.guarded = TRUE]
                                           ELSE IF s = 2 THEN Resident("legacy", r, v, 2)
                                           ELSE NoResident]
<1>a. (\E x, y \in CredRps : x # y) /\ (\E x, y \in CredUsers : x # y)
  BY DEF CredentialsAssumption
<1>1. r \in CredRps /\ q \in CredRps /\ q # r
  <2>1. r \in CredRps
    BY <1>a, OneOf
  <2> HIDE DEF r
  <2>2. \E x : x \in CredRps /\ x # r
    BY <1>a, <2>1
  <2>3. q \in CredRps /\ q # r
    BY <2>2, Zenon
  <2> QED  BY <2>1, <2>3
<1>2. u \in CredUsers /\ v \in CredUsers /\ v # u
  <2>1. u \in CredUsers
    BY <1>a, OneOf
  <2> HIDE DEF u
  <2>2. \E x : x \in CredUsers /\ x # u
    BY <1>a, <2>1
  <2>3. v \in CredUsers /\ v # u
    BY <2>2, Zenon
  <2> QED  BY <2>1, <2>3
<1>3. stock \in {[creds |-> one, rps |-> old], [creds |-> two, rps |-> old]} /\ stockDisk = stock
      /\ credOps = 0 /\ lostDeletion = FALSE /\ exempt = {}
  BY DEF CredentialsInit, Populated
<1>4. old \in [CredRps -> Nat]
  OBVIOUS
<1> HIDE DEF r, q, u, v, old
<1>5. \A form \in {"legacy", "container"}, rp \in CredRps, user \in CredUsers, id \in Nat : Fresh(Resident(form, rp, user, id), rp, user)
  BY DEF Fresh, Resident, Credential
<1>6. Fresh([Resident("container", r, u, 1) EXCEPT !.guarded = TRUE], r, u)
  BY <1>1, <1>2, ResidentFacts
<1>7. ~Held(NoResident) /\ NoResident \in SlotRecs
  BY DEF Held, NoResident, SlotRecs
<1>8. \A c, rp, user : Fresh(c, rp, user) => c \in SlotRecs /\ Dated(c, {}) /\ Account(c) = <<rp, user>>
  BY DEF Fresh, SlotRecs, Dated, Account
<1>9. one \in [ResidentSlots -> SlotRecs] /\ AllDated(one, {}) /\ Apart(one, {})
  <2>1. Fresh(Resident("legacy", r, u, 0), r, u) /\ Fresh(Resident("container", r, v, 1), r, v)
    BY <1>1, <1>2, <1>5
  <2>2. \A s \in ResidentSlots : /\ s = 0 => Fresh(one[s], r, u)
                                 /\ s = 1 => Fresh(one[s], r, v)
                                 /\ s \notin {0, 1} => one[s] = NoResident
    BY <2>1
  <2>3. one \in [ResidentSlots -> SlotRecs]
    BY <1>7, <1>8, <2>1
  <2> HIDE DEF one
  <2>4. AllDated(one, {})
    BY <1>7, <1>8, <2>2 DEF AllDated, Dated
  <2>5. Apart(one, {})
    BY <1>2, <1>7, <1>8, <2>2 DEF Apart, InUse
  <2> QED  BY <2>3, <2>4, <2>5
<1>10. two \in [ResidentSlots -> SlotRecs] /\ AllDated(two, {}) /\ Apart(two, {})
  <2>1. Fresh(Resident("container", q, u, 0), q, u) /\ Fresh(Resident("legacy", r, v, 2), r, v)
    BY <1>1, <1>2, <1>5
  <2>2. \A s \in ResidentSlots : /\ s = 0 => Fresh(two[s], q, u)
                                 /\ s = 1 => Fresh(two[s], r, u)
                                 /\ s = 2 => Fresh(two[s], r, v)
                                 /\ s \notin {0, 1, 2} => two[s] = NoResident
    BY <1>6, <2>1
  <2>3. two \in [ResidentSlots -> SlotRecs]
    BY <1>6, <1>7, <1>8, <2>1
  <2> HIDE DEF two
  <2>4. AllDated(two, {})
    BY <1>7, <1>8, <2>2 DEF AllDated, Dated
  <2>5. Apart(two, {})
    BY <1>1, <1>2, <1>7, <1>8, <2>2 DEF Apart, InUse
  <2> QED  BY <2>3, <2>4, <2>5
<1> HIDE DEF one, two
<1>11. stock \in CredStores /\ AllDated(stock.creds, exempt) /\ Apart(stock.creds, exempt)
  BY <1>3, <1>4, <1>9, <1>10 DEF CredStores
<1> QED  BY <1>3, <1>11 DEF StockOK

LEMMA StockHolds == CredentialsSpec => []StockOK
<1>1. CredentialsInit => StockOK
  BY StockInit, CredentialsAssumption
<1>2. StockOK /\ [CredentialsNext]_credVars => StockOK'
  BY StockNext, CredentialsAssumption
<1> QED  BY <1>1, <1>2, PTL DEF CredentialsSpec

\* An account has one credential at most, for any number of slots, accounts, failed writes and losses
\* of power: credential_store takes the slot of the account when it is in use, and what a boot brings
\* back beside it is a credential whose end had not been written.
THEOREM AccountsHold == CredentialsSpec => []OnePerAccount
<1>1. ASSUME StockOK
      PROVE  OnePerAccount
  <2> SUFFICES ASSUME ~lostDeletion, NEW s \in ResidentSlots, NEW t \in ResidentSlots, s # t,
                      Loads(stock.creds[s]), Loads(stock.creds[t]), Account(stock.creds[s]) \notin exempt
               PROVE  Account(stock.creds[s]) # Account(stock.creds[t])
    BY DEF OnePerAccount, Account
  <2>1. Apart(stock.creds, exempt) /\ \A i \in ResidentSlots : stock.creds[i] \in SlotRecs /\ Dated(stock.creds[i], exempt)
    BY <1>1 DEF StockOK, CredStores, AllDated
  <2>2. InUse(stock.creds[s]) /\ InUse(stock.creds[t])
    BY <2>1, LoadsFacts
  <2> QED  BY <2>1, <2>2 DEF Apart
<1> QED  BY <1>1, StockHolds, PTL

\* getNextAssertion signs with credentials the device holds, whatever was imported, expired or lost
\* since the list was made: every command that could end one drops the list.
THEOREM AssertionsHold == CredentialsSpec => []AssertionsLive
<1>1. CredentialsInit => AssertionsLive
  BY DEF CredentialsInit, AssertionsLive, NoGna
<1>2. StockOK /\ AssertionsLive /\ [CredentialsNext]_credVars => AssertionsLive'
  BY NextsKept
<1> QED  BY <1>1, <1>2, StockHolds, PTL DEF CredentialsSpec

-----------------------------------------------------------------------------
(* The walks.  A walk remembers a position, so what it tells goes by how   *)
(* many usable slots come before one (Rank), and for relying parties by    *)
(* the places of an index that repeats none.  That no credential is told   *)
(* twice needs ids that differ; that none is missing from the index needs  *)
(* legacy records that count at least the credentials of their relying     *)
(* party, in RAM and after a loss of power, which holds as flash is never  *)
(* behind RAM in its counts (NumbersOK).  WalkInv then ties what a channel *)
(* has heard to the position of the walk that is open on it.               *)

\* Credentials of different slots have different ids, in RAM, in flash and between them, and the next
\* id has not been given yet.
IdsOK ==
  \A s, t \in ResidentSlots : \A x \in {stock.creds[s], stockDisk.creds[s]}, y \in {stock.creds[t], stockDisk.creds[t]} :
    /\ Held(x) => x.id < NewId
    /\ s # t /\ Held(x) /\ Held(y) => x.id # y.id

\* A legacy record counts the credentials of its relying party, and flash is never behind it.
LegacyOf(cs, rp) == {s \in ResidentSlots : cs[s].form = "legacy" /\ cs[s].rp = rp}
CountsOK ==
  \A rp \in CredRps :
    /\ stock.rps[rp] <= stockDisk.rps[rp]
    /\ ~lostDeletion => Cardinality(LegacyOf(stock.creds, rp)) <= stock.rps[rp]

\* There are finitely many slots.
LEMMA SlotsFinite ==
  ASSUME CredentialsAssumption, NEW S \in SUBSET ResidentSlots
  PROVE  IsFiniteSet(S) /\ Cardinality(S) \in Nat
<1>1. LastCredSlot \in Int /\ 0 \in Int
  BY DEF CredentialsAssumption
<1>2. IsFiniteSet(ResidentSlots)
  BY <1>1, FS_Interval DEF ResidentSlots
<1>3. IsFiniteSet(S)
  BY <1>2, FS_Subset
<1> QED  BY <1>3, FS_CardinalityType

\* A part of a set of slots has no more of them.
LEMMA FewerSlots ==
  ASSUME CredentialsAssumption, NEW T \in SUBSET ResidentSlots, NEW S \in SUBSET T
  PROVE  Cardinality(S) <= Cardinality(T)
<1>1. IsFiniteSet(T)
  BY SlotsFinite
<1> QED  BY <1>1, FS_Subset

\* A step of slot s: what it holds then has the id of what was there, or a new one.
LEMMA IdsSlot ==
  ASSUME CredentialsAssumption, StockOK, IdsOK, NEW s \in ResidentSlots, NEW x \in SlotRecs, Given(s, x),
         stockDisk' \in {stockDisk, stock'}, credOps' = credOps + 1,
         Held(x) => x.id = NewId \/ (Held(stock.creds[s]) /\ x.id = stock.creds[s].id)
  PROVE  IdsOK'
<1> DEFINE old(t) == {stock.creds[t], stockDisk.creds[t]}
           all(t) == {stock'.creds[t], stockDisk'.creds[t]}
<1>1. NewId \in Nat /\ NewId' = NewId + 1
  BY DEF NewId, StockOK, CredentialsAssumption
<1>2. ASSUME NEW t \in ResidentSlots, NEW y \in old(t), Held(y)
      PROVE  y.id \in Nat
  <2>1. y \in SlotRecs
    BY DEF StockOK, CredStores
  <2> QED  BY <1>2, <2>1 DEF SlotRecs, Credential, Held, NoResident, Damaged
<1>3. \A t \in ResidentSlots : \A y \in all(t) : y \in old(t) \/ (t = s /\ y = x)
  BY DEF Given
<1>4. \A t, u \in ResidentSlots : \A y \in old(t), z \in old(u) :
        (Held(y) => y.id < NewId) /\ (t # u /\ Held(y) /\ Held(z) => y.id # z.id)
  BY DEF IdsOK
<1> HIDE DEF all
<1>5. stock.creds[s] \in old(s)
  OBVIOUS
<1> HIDE DEF old
<1>6. Held(x) => x.id < NewId' /\ \A t \in ResidentSlots : t # s => \A y \in old(t) : Held(y) => x.id # y.id
  BY <1>1, <1>2, <1>4, <1>5
<1>7. \A t, u \in ResidentSlots : \A y \in all(t), z \in all(u) :
        (Held(y) => y.id < NewId') /\ (t # u /\ Held(y) /\ Held(z) => y.id # z.id)
  BY <1>1, <1>2, <1>3, <1>4, <1>6
<1> QED  BY <1>7 DEF IdsOK, all, Held, ResidentSlots

\* A step of slot s that adds no credential of the older format keeps the counts right.
LEMMA CountsSlot ==
  ASSUME CredentialsAssumption, StockOK, CountsOK, NEW s \in ResidentSlots, NEW x \in SlotRecs, Given(s, x),
         stockDisk' \in {stockDisk, stock'}, UNCHANGED lostDeletion,
         x.form = "legacy" => stock.creds[s].form = "legacy" /\ x.rp = stock.creds[s].rp,
         \A rp \in CredRps : \/ stock'.rps[rp] = stock.rps[rp]
                             \/ s \in LegacyOf(stock.creds, rp) /\ x.form # "legacy" /\ stock'.rps[rp] = rp_legacy_decrement(stock.rps[rp])
  PROVE  CountsOK'
<1> SUFFICES ASSUME NEW rp \in CredRps
             PROVE  /\ stock'.rps[rp] <= stockDisk'.rps[rp]
                    /\ ~lostDeletion => Cardinality(LegacyOf(stock'.creds, rp)) <= stock'.rps[rp]
  BY DEF CountsOK, LegacyOf, ResidentSlots
<1> DEFINE L == LegacyOf(stock.creds, rp)
           M == LegacyOf(stock'.creds, rp)
<1>1. stock.rps[rp] \in Nat /\ stock'.rps[rp] \in Nat /\ stockDisk.rps[rp] \in Nat
  BY DEF StockOK, Given, CredStores
<1>2. stock.rps[rp] <= stockDisk.rps[rp] /\ (~lostDeletion => Cardinality(L) <= stock.rps[rp])
  BY DEF CountsOK
<1>3. stock'.rps[rp] <= stock.rps[rp]
  BY <1>1 DEF rp_legacy_decrement
<1>4. stock'.rps[rp] <= stockDisk'.rps[rp]
  BY <1>1, <1>2, <1>3
<1>5. L \subseteq ResidentSlots /\ M \subseteq L
  BY DEF Given, LegacyOf
<1>6. Cardinality(L) \in Nat /\ Cardinality(M) \in Nat /\ Cardinality(M) <= Cardinality(L)
  BY <1>5, SlotsFinite, FewerSlots
<1>7. CASE stock'.rps[rp] = stock.rps[rp]
  BY <1>1, <1>2, <1>4, <1>6, <1>7
<1>8. CASE s \in L /\ x.form # "legacy" /\ stock'.rps[rp] = rp_legacy_decrement(stock.rps[rp])
  <2>1. M \subseteq L \ {s} /\ L \ {s} \subseteq ResidentSlots
    BY <1>5, <1>8 DEF Given, LegacyOf
  <2>2. IsFiniteSet(L)
    BY <1>5, SlotsFinite
  <2>3. Cardinality(L \ {s}) = Cardinality(L) - 1
    BY <1>8, <2>2, FS_RemoveElement
  <2>4. Cardinality(M) <= Cardinality(L) - 1
    BY <2>1, <2>3, FewerSlots
  <2> HIDE DEF L, M
  <2> QED  BY <1>1, <1>2, <1>4, <1>6, <1>8, <2>4 DEF rp_legacy_decrement, M
<1> QED  BY <1>7, <1>8

\* Ids and counts together.
NumbersOK == IdsOK /\ CountsOK

\* A step that leaves the store alone uses up an id at most.
LEMMA NumbersSame ==
  ASSUME NumbersOK, CredentialsAssumption, StockOK, UNCHANGED <<stock, stockDisk, lostDeletion>>, credOps' \in {credOps, credOps + 1}
  PROVE  NumbersOK'
<1>1. NewId \in Nat /\ NewId' \in {NewId, NewId + 1}
  <2>1. LastCredSlot \in Nat /\ credOps \in Nat
    BY DEF StockOK, CredentialsAssumption
  <2>2. NewId \in Nat
    BY <2>1 DEF NewId
  <2>3. CASE credOps' = credOps
    BY <2>2, <2>3 DEF NewId
  <2>4. CASE credOps' = credOps + 1
    <3>1. NewId' = NewId + 1
      BY <2>1, <2>4 DEF NewId
    <3> QED  BY <2>2, <3>1
  <2> QED  BY <2>3, <2>4
<1>2. CountsOK'
  BY DEF NumbersOK, CountsOK, LegacyOf, ResidentSlots
<1>3. ASSUME NEW t \in ResidentSlots, NEW y \in {stock.creds[t], stockDisk.creds[t]}, Held(y)
      PROVE  y.id < NewId'
  <2>1. y \in SlotRecs /\ y.id < NewId
    BY <1>3 DEF StockOK, CredStores, NumbersOK, IdsOK
  <2>2. y.id \in Nat
    BY <1>3, <2>1 DEF SlotRecs, Credential, Held, NoResident, Damaged
  <2> QED  BY <1>1, <2>1, <2>2
<1>4. IdsOK'
  <2>1. ASSUME NEW s \in ResidentSlots, NEW t \in ResidentSlots, s # t, NEW x \in {stock.creds[s], stockDisk.creds[s]},
               NEW y \in {stock.creds[t], stockDisk.creds[t]}, Held(x), Held(y)
        PROVE  x.id # y.id
    BY <2>1 DEF NumbersOK, IdsOK
  <2> QED  BY <1>3, <2>1 DEF IdsOK, Held, ResidentSlots
<1> QED  BY <1>2, <1>4 DEF NumbersOK

\* What a slot may be given: the id of what is there or a new one, and the older format only where it is.
Follow(x, old) ==
  /\ Held(x) => x.id = NewId \/ (Held(old) /\ x.id = old.id)
  /\ x.form = "legacy" => old.form = "legacy" /\ x.rp = old.rp

\* A slot is written, or not, with what may follow what is there.
LEMMA NumbersUpdated ==
  ASSUME CredentialsAssumption, StockOK, NumbersOK, NEW s \in ResidentSlots, NEW c \in SlotRecs, NEW partial,
         SlotUpdated(s, c, partial), Follow(c, stock.creds[s]), UNCHANGED lostDeletion, credOps' = credOps + 1
  PROVE  NumbersOK'
<1> DEFINE old == stock.creds[s]
<1>1. stock \in CredStores /\ old \in SlotRecs
  BY DEF StockOK, CredStores
<1>2. PICK x \in {old, c, Damaged} : stock' = With(stock, s, x) /\ stockDisk' \in {stockDisk, stock'}
  BY DEF SlotUpdated, SlotWritten, SlotWriteFails, With
<1>3. x \in SlotRecs
  BY <1>1, <1>2 DEF SlotRecs
<1>4. Given(s, x)
  BY <1>1, <1>2, <1>3, WithFacts DEF Given
<1>5. Follow(x, old)
  BY <1>2 DEF Follow, Damaged, Held
<1>6. stock'.rps = stock.rps
  BY <1>1, <1>2 DEF With, CredStores
<1>7. IdsOK'
  BY <1>2, <1>3, <1>4, <1>5, IdsSlot DEF NumbersOK, Follow
<1>8. CountsOK'
  BY <1>2, <1>3, <1>4, <1>5, <1>6, CountsSlot DEF NumbersOK, Follow
<1> QED  BY <1>7, <1>8 DEF NumbersOK

\* A new credential, registered or imported, has a new id.
LEMMA NumbersMade ==
  ASSUME CredentialsAssumption, StockOK, NumbersOK, NEW rp \in CredRps, NEW user \in CredUsers,
         credential_import(rp, user) \/ \E g \in BOOLEAN : cbor_make_credential(rp, user, g)
  PROVE  NumbersOK'
<1>1. NewId \in Nat
  BY DEF NewId, StockOK, CredentialsAssumption
<1>2. credOps' = credOps + 1 /\ UNCHANGED lostDeletion
  BY DEF credential_import, cbor_make_credential, CredCommand
<1>3. ASSUME NEW form \in {"legacy", "container"}, NEW b \in BOOLEAN, NEW c,
             c = [Resident(form, rp, user, NewId) EXCEPT !.guarded = b] \/ c = [Resident(form, rp, user, NewId) EXCEPT !.imported = b]
      PROVE  c \in SlotRecs /\ c.id = NewId /\ c.form = form /\ c.rp = rp
  <2>1. Fresh(c, rp, user)
    BY <1>1, <1>3, ResidentFacts
  <2> DEFINE r == Resident(form, rp, user, NewId)
  <2>2. r \in Credential /\ r.id = NewId /\ r.form = form
    BY <1>1 DEF Resident, Credential
  <2> HIDE DEF r
  <2>3. CASE c = [r EXCEPT !.guarded = b]
    BY <2>1, <2>2, <2>3 DEF Fresh, SlotRecs, Credential
  <2>4. CASE c = [r EXCEPT !.imported = b]
    BY <2>1, <2>2, <2>4 DEF Fresh, SlotRecs, Credential
  <2> QED  BY <1>3, <2>3, <2>4 DEF r
<1>4. CASE credential_import(rp, user)
  <2> DEFINE c == NewImported(rp, user)
  <2>1. PICK s \in FreeSlot : SlotUpdated(s, c, FALSE)
    BY <1>4 DEF credential_import
  <2>2. c \in SlotRecs /\ c.id = NewId /\ c.form = "container"
    <3>1. c = [Resident("container", rp, user, NewId) EXCEPT !.imported = TRUE]
      BY DEF NewImported
    <3> HIDE DEF c
    <3> QED  BY <1>3, <3>1
  <2>3. s \in ResidentSlots
    BY <2>1 DEF FreeSlot
  <2> HIDE DEF c
  <2>4. Follow(c, stock.creds[s])
    BY <2>2 DEF Follow
  <2> QED  BY <1>2, <2>1, <2>2, <2>3, <2>4, NumbersUpdated
<1>5. ASSUME NEW g \in BOOLEAN, cbor_make_credential(rp, user, g)
      PROVE  NumbersOK'
  <2>1. PICK s \in StoreSlot(rp, user) : SlotUpdated(s, NewResident(s, rp, user, g), FALSE)
    BY <1>5 DEF cbor_make_credential
  <2> DEFINE c == NewResident(s, rp, user, g)
             f == IF stock.creds[s].form = "legacy" THEN "legacy" ELSE "container"
  <2>2. c \in SlotRecs /\ c.id = NewId /\ c.form = f /\ c.rp = rp
    <3>1. f \in {"legacy", "container"} /\ c = [Resident(f, rp, user, NewId) EXCEPT !.guarded = g]
      BY DEF NewResident
    <3> HIDE DEF f, c
    <3> QED  BY <1>3, <3>1
  <2>3. s \in ResidentSlots /\ (stock.creds[s].form = "legacy" => stock.creds[s].rp = rp)
    <3>1. s \in Usable(rp) \/ s \in FreeSlot
      BY <2>1 DEF StoreSlot
    <3> QED  BY <3>1 DEF Usable, IsOf, FreeSlot, NoResident
  <2> HIDE DEF c
  <2>4. Follow(c, stock.creds[s])
    BY <2>2, <2>3 DEF Follow
  <2> QED  BY <1>2, <2>1, <2>2, <2>3, <2>4, NumbersUpdated DEF c
<1> QED  BY <1>4, <1>5

\* A credential that is written again keeps its id.
LEMMA NumbersRewritten ==
  ASSUME CredentialsAssumption, StockOK, NumbersOK, NEW s \in ResidentSlots,
         UpdateUser(s) \/ Revoke(s) \/ \E d \in {"past", "coming", "none"} : Expire(s, d)
  PROVE  NumbersOK'
<1> DEFINE old == stock.creds[s]
<1>1. credOps' = credOps + 1 /\ UNCHANGED lostDeletion
  BY DEF UpdateUser, Revoke, Expire, CredCommand
<1>2. old \in SlotRecs /\ Held(old)
  BY DEF StockOK, CredStores, UpdateUser, Revoke, Expire, Held
<1>3. old \in Credential
  BY <1>2 DEF Held, SlotRecs, NoResident, Damaged
<1>4. CASE UpdateUser(s)
  <2>1. SlotUpdated(s, old, TRUE) /\ Follow(old, old)
    BY <1>2, <1>4 DEF UpdateUser, Follow
  <2> QED  BY <1>1, <1>2, <2>1, NumbersUpdated
<1>5. ASSUME NEW st \in {"active", "revoked", "expired"}, NEW b \in BOOLEAN, Restated(s, st, b)
      PROVE  NumbersOK'
  <2> DEFINE c == [old EXCEPT !.status = st, !.dated = b]
  <2>1. old.form = "container" /\ SlotUpdated(s, c, TRUE)
    BY <1>5 DEF Restated
  <2>2. c \in Credential /\ c.form = "container" /\ c.id = old.id
    BY <1>3, <2>1 DEF Credential
  <2> HIDE DEF c
  <2>3. c \in SlotRecs /\ Follow(c, old)
    BY <1>2, <2>2 DEF SlotRecs, Follow
  <2> QED  BY <1>1, <2>1, <2>3, NumbersUpdated
<1>6. CASE Revoke(s)
  BY <1>3, <1>5, <1>6 DEF Revoke, Credential
<1>7. ASSUME NEW d \in {"past", "coming", "none"}, Expire(s, d)
      PROVE  NumbersOK'
  <2> DEFINE st == IF d = "past" \/ (d = "coming" /\ clock = "late") THEN "expired" ELSE "active"
             b == d # "none"
  <2>1. Restated(s, st, b) /\ st \in {"active", "revoked", "expired"} /\ b \in BOOLEAN
    BY <1>7 DEF Expire
  <2> HIDE DEF st, b
  <2> QED  BY <1>5, <2>1
<1> QED  BY <1>4, <1>6, <1>7

\* A deletion takes a credential of the older format out of the count too.
LEMMA NumbersDeleted ==
  ASSUME CredentialsAssumption, StockOK, NumbersOK, NEW s \in ResidentSlots, DeleteCredential(s)
  PROVE  NumbersOK'
<1> DEFINE old == stock.creds[s]
<1>1. credOps' = credOps + 1 /\ UNCHANGED lostDeletion /\ stock \in CredStores /\ Held(old)
  BY DEF DeleteCredential, CredCommand, StockOK, Held
<1>2. old \in SlotRecs /\ Damaged \in SlotRecs /\ NoResident \in SlotRecs
  BY <1>1 DEF CredStores, SlotRecs
<1>3. old \in Credential
  BY <1>1, <1>2 DEF Held, SlotRecs, NoResident, Damaged
<1>4. ~Held(NoResident) /\ ~Held(Damaged) /\ NoResident.form # "legacy" /\ Damaged.form # "legacy"
  BY DEF Held, NoResident, Damaged
<1>5. CASE old.form = "legacy"
  <2> DEFINE q == old.rp
             cs == [stock.creds EXCEPT ![s] = NoResident]
             n == rp_legacy_decrement(stock.rps[q])
             rs == [stock.rps EXCEPT ![q] = n]
  <2>1. stock' = [stock EXCEPT !.creds = cs, !.rps = rs] /\ stockDisk' = stockDisk
    BY <1>1, <1>5 DEF DeleteCredential, CredStores
  <2>2. stock.creds \in [ResidentSlots -> SlotRecs] /\ stock.rps \in [CredRps -> Nat] /\ q \in CredRps
    BY <1>1, <1>3 DEF CredStores, Credential
  <2>3. cs \in [ResidentSlots -> SlotRecs] /\ \A t \in ResidentSlots : cs[t] = IF t = s THEN NoResident ELSE stock.creds[t]
    BY <1>2, <2>2
  <2>4. rs \in [CredRps -> Nat] /\ \A rp \in CredRps : rs[rp] = IF rp = q THEN n ELSE stock.rps[rp]
    <3>1. n \in Nat
      BY <2>2 DEF rp_legacy_decrement
    <3> HIDE DEF n, q
    <3> QED  BY <2>2, <3>1
  <2> HIDE DEF cs, rs
  <2>5. stock' \in CredStores /\ stock'.creds = cs /\ stock'.rps = rs
    BY <1>1, <2>1, <2>3, <2>4 DEF CredStores
  <2>6. Given(s, NoResident)
    BY <2>3, <2>5 DEF Given
  <2>7. \A rp \in CredRps : stock'.rps[rp] = stock.rps[rp]
          \/ (s \in LegacyOf(stock.creds, rp) /\ stock'.rps[rp] = rp_legacy_decrement(stock.rps[rp]))
    BY <1>5, <2>4, <2>5 DEF LegacyOf
  <2>8. IdsOK'
    BY <1>1, <1>2, <1>4, <2>1, <2>6, IdsSlot DEF NumbersOK
  <2>9. CountsOK'
    BY <1>1, <1>2, <1>4, <2>1, <2>6, <2>7, CountsSlot DEF NumbersOK
  <2> QED  BY <2>8, <2>9 DEF NumbersOK
<1>6. CASE old.form # "legacy"
  <2>1. PICK x \in {old, Damaged, NoResident} : stock' = With(stock, s, x) /\ stockDisk' \in {stockDisk, stock'}
    BY <1>6 DEF DeleteCredential, With
  <2>2. x \in SlotRecs
    BY <1>2, <2>1
  <2>3. Given(s, x) /\ stock'.rps = stock.rps
    <3>1. Given(s, x)
      BY <1>1, <2>1, <2>2, WithFacts DEF Given
    <3> QED  BY <1>1, <2>1, <3>1 DEF With, CredStores
  <2>4. x.form # "legacy" /\ (Held(x) => x = old)
    BY <1>4, <1>6, <2>1
  <2>5. IdsOK'
    BY <1>1, <2>1, <2>2, <2>3, <2>4, IdsSlot DEF NumbersOK
  <2>6. CountsOK'
    BY <1>1, <2>1, <2>2, <2>3, <2>4, CountsSlot DEF NumbersOK
  <2> QED  BY <2>5, <2>6 DEF NumbersOK
<1> QED  BY <1>5, <1>6

\* A reset leaves nothing to count; a write-back and a loss of power mix RAM and flash.
LEMMA NumbersLost ==
  ASSUME CredentialsAssumption, StockOK, NumbersOK, ResetCredentials \/ StockWriteBack \/ CredPowerLoss
  PROVE  NumbersOK'
<1>1. stock \in CredStores /\ stockDisk \in CredStores
  BY DEF StockOK
<1>2. \A rp \in CredRps : stock.rps[rp] \in Nat /\ stockDisk.rps[rp] \in Nat /\ stock.rps[rp] <= stockDisk.rps[rp]
  BY <1>1 DEF CredStores, NumbersOK, CountsOK
<1>3. \A s \in ResidentSlots, t \in ResidentSlots : \A x \in {stock.creds[s], stockDisk.creds[s]}, y \in {stock.creds[t], stockDisk.creds[t]} :
        (Held(x) => x.id < NewId) /\ (s # t /\ Held(x) /\ Held(y) => x.id # y.id)
  BY DEF NumbersOK, IdsOK
<1>4. CASE ResetCredentials
  <2>1. stock' = [creds |-> [s \in ResidentSlots |-> NoResident], rps |-> [rp \in CredRps |-> 0]]
        /\ UNCHANGED <<stockDisk, lostDeletion>> /\ credOps' = credOps + 1
    BY <1>4 DEF ResetCredentials, CredCommand
  <2>2. \A s \in ResidentSlots : stock'.creds[s] = NoResident
    BY <2>1
  <2>3. \A rp \in CredRps : stock'.rps[rp] = 0
    BY <2>1
  <2>4. ~Held(NoResident) /\ NoResident.form # "legacy"
    BY DEF Held, NoResident
  <2>5. NewId' = NewId + 1 /\ NewId \in Nat
    <3>1. LastCredSlot \in Nat /\ credOps \in Nat
      BY DEF StockOK, CredentialsAssumption
    <3> QED  BY <2>1, <3>1 DEF NewId
  <2>6. \A s \in ResidentSlots : Held(stockDisk.creds[s]) => stockDisk.creds[s].id \in Nat
    BY <1>1 DEF CredStores, SlotRecs, Credential, Held, NoResident, Damaged
  <2>7. IdsOK'
    <3>1. \A s \in ResidentSlots, t \in ResidentSlots :
            \A x \in {stock'.creds[s], stockDisk'.creds[s]}, y \in {stock'.creds[t], stockDisk'.creds[t]} :
              (Held(x) => x.id < NewId') /\ (s # t /\ Held(x) /\ Held(y) => x.id # y.id)
      BY <1>3, <2>1, <2>2, <2>4, <2>5, <2>6
    <3> QED  BY <3>1 DEF IdsOK, Held, ResidentSlots
  <2>8. CountsOK'
    <3>1. \A rp \in CredRps : LegacyOf(stock'.creds, rp) = {}
      BY <2>2, <2>4 DEF LegacyOf
    <3>2. \A rp \in CredRps : Cardinality(LegacyOf(stock'.creds, rp)) <= stock'.rps[rp] /\ stock'.rps[rp] <= stockDisk'.rps[rp]
      BY <1>2, <2>1, <2>3, <3>1, FS_EmptySet
    <3> QED  BY <3>2 DEF CountsOK, LegacyOf, ResidentSlots
  <2> QED  BY <2>7, <2>8 DEF NumbersOK
<1>5. CASE StockWriteBack
  <2>1. UNCHANGED <<stock, lostDeletion, credOps>>
    BY <1>5 DEF StockWriteBack
  <2>2. /\ \A s \in ResidentSlots : stockDisk'.creds[s] \in {stock.creds[s], stockDisk.creds[s]}
        /\ \A rp \in CredRps : stockDisk'.rps[rp] \in {stock.rps[rp], stockDisk.rps[rp]}
    <3>1. ASSUME NEW s \in ResidentSlots, stockDisk' = With(stockDisk, s, stock.creds[s])
          PROVE  /\ \A t \in ResidentSlots : stockDisk'.creds[t] \in {stock.creds[t], stockDisk.creds[t]}
                 /\ stockDisk'.rps = stockDisk.rps
      <4>1. stock.creds[s] \in SlotRecs
        BY <1>1 DEF CredStores
      <4>2. \A t \in ResidentSlots : stockDisk'.creds[t] = IF t = s THEN stock.creds[s] ELSE stockDisk.creds[t]
        BY <1>1, <3>1, <4>1, WithFacts
      <4>3. stockDisk'.rps = stockDisk.rps
        BY <1>1, <3>1 DEF With, CredStores
      <4> QED  BY <4>2, <4>3
    <3>2. ASSUME NEW rp \in CredRps, stockDisk' = [stockDisk EXCEPT !.rps[rp] = stock.rps[rp]]
          PROVE  /\ \A q \in CredRps : stockDisk'.rps[q] \in {stock.rps[q], stockDisk.rps[q]}
                 /\ stockDisk'.creds = stockDisk.creds
      <4> DEFINE rs == [stockDisk.rps EXCEPT ![rp] = stock.rps[rp]]
      <4>1. rs \in [CredRps -> Nat] /\ stockDisk' = [stockDisk EXCEPT !.rps = rs]
            /\ \A q \in CredRps : rs[q] \in {stock.rps[q], stockDisk.rps[q]}
        BY <1>1, <3>2 DEF CredStores
      <4> HIDE DEF rs
      <4>2. stockDisk'.rps = rs /\ stockDisk'.creds = stockDisk.creds
        BY <1>1, <4>1 DEF CredStores
      <4> QED  BY <4>1, <4>2
    <3> QED  BY <1>5, <3>1, <3>2 DEF StockWriteBack, With
  <2>3. IdsOK'
    <3>1. \A s \in ResidentSlots, t \in ResidentSlots :
            \A x \in {stock'.creds[s], stockDisk'.creds[s]}, y \in {stock'.creds[t], stockDisk'.creds[t]} :
              (Held(x) => x.id < NewId) /\ (s # t /\ Held(x) /\ Held(y) => x.id # y.id)
      BY <1>3, <2>1, <2>2
    <3> QED  BY <2>1, <3>1 DEF IdsOK, Held, ResidentSlots, NewId
  <2>4. CountsOK'
    <3>1. \A rp \in CredRps : stock.rps[rp] <= stockDisk'.rps[rp]
      BY <1>2, <2>2
    <3> QED  BY <2>1, <3>1 DEF NumbersOK, CountsOK, LegacyOf, ResidentSlots
  <2> QED  BY <2>3, <2>4 DEF NumbersOK
<1>6. CASE CredPowerLoss
  <2>1. stock' = stockDisk /\ UNCHANGED <<stockDisk, credOps>>
    BY <1>6 DEF CredPowerLoss
  <2>2. lostDeletion' = (lostDeletion \/ \E s \in ResidentSlots : Ended(stock.creds[s], stockDisk.creds[s]))
    BY <1>6 DEF CredPowerLoss
  <2>3. ASSUME ~lostDeletion', NEW rp \in CredRps
        PROVE  Cardinality(LegacyOf(stockDisk.creds, rp)) <= stockDisk.rps[rp]
    <3> DEFINE L == LegacyOf(stock.creds, rp)
               M == LegacyOf(stockDisk.creds, rp)
    <3>1. ~lostDeletion /\ \A s \in ResidentSlots : ~Ended(stock.creds[s], stockDisk.creds[s])
      BY <2>2, <2>3
    <3>2. M \subseteq L /\ L \subseteq ResidentSlots
      <4>1. ASSUME NEW s \in M
            PROVE  s \in L
        <5>1. s \in ResidentSlots /\ stockDisk.creds[s].form = "legacy" /\ stockDisk.creds[s].rp = rp
          BY <4>1 DEF LegacyOf
        <5>2. stockDisk.creds[s].status = "active"
          BY <5>1 DEF StockOK, AllDated, Dated, Held
        <5>3. stock.creds[s].form = "legacy" /\ stock.creds[s].rp = rp
          BY <3>1, <5>1, <5>2 DEF Ended
        <5> QED  BY <5>1, <5>3 DEF LegacyOf
      <4> QED  BY <4>1 DEF LegacyOf
    <3>3. Cardinality(M) \in Nat /\ Cardinality(L) \in Nat /\ Cardinality(M) <= Cardinality(L)
      BY <3>2, SlotsFinite, FewerSlots
    <3>4. Cardinality(L) <= stock.rps[rp]
      BY <3>1 DEF NumbersOK, CountsOK
    <3> HIDE DEF L, M
    <3> QED  BY <1>2, <3>3, <3>4 DEF M
  <2>4. CountsOK'
    BY <1>2, <2>1, <2>3 DEF CountsOK, LegacyOf, ResidentSlots
  <2>5. IdsOK'
    <3>1. \A s \in ResidentSlots, t \in ResidentSlots :
            \A x \in {stock'.creds[s], stockDisk'.creds[s]}, y \in {stock'.creds[t], stockDisk'.creds[t]} :
              (Held(x) => x.id < NewId) /\ (s # t /\ Held(x) /\ Held(y) => x.id # y.id)
      BY <1>3, <2>1
    <3> QED  BY <2>1, <3>1 DEF IdsOK, Held, ResidentSlots, NewId
  <2> QED  BY <2>4, <2>5 DEF NumbersOK
<1> QED  BY <1>4, <1>5, <1>6

\* Every step keeps the numbers.
LEMMA NumbersNext ==
  ASSUME CredentialsAssumption, StockOK, NumbersOK, [CredentialsNext]_credVars
  PROVE  NumbersOK'
<1>1. ASSUME CredCommand, UNCHANGED <<stock, stockDisk, lostDeletion>>
      PROVE  NumbersOK'
  BY <1>1, NumbersSame DEF CredCommand
<1>2. CborOther => NumbersOK'
  BY <1>1 DEF CborOther, storeVars
<1>3. ASSUME NEW rp, NEW uv, MakeExcluded(rp, uv)
      PROVE  NumbersOK'
  BY <1>2, <1>3 DEF MakeExcluded
<1>4. ASSUME NEW c, RpBegin(c) \/ RpNext(c) \/ CredNext(c) \/ \E rp \in CredRps : CredBegin(c, rp)
      PROVE  NumbersOK'
  <2>1. CredCommand /\ UNCHANGED <<stock, stockDisk, lostDeletion>>
    BY <1>4 DEF RpBegin, RpNext, CredNext, CredBegin, storeVars
  <2> QED  BY <1>1, <2>1
<1>5. ASSUME NEW c, cbor_get_next_assertion(c) \/ \E rp \in CredRps, uv \in BOOLEAN : cbor_get_assertion(c, rp, uv)
      PROVE  NumbersOK'
  <2>1. CredCommand /\ UNCHANGED <<stock, stockDisk, lostDeletion>>
    BY <1>5 DEF cbor_get_next_assertion, cbor_get_assertion, storeVars
  <2> QED  BY <1>1, <2>1
<1>6. CASE cbor_cred_mgmt_tick \/ SetRtc \/ UNCHANGED credVars
  <2>1. UNCHANGED <<stock, stockDisk, lostDeletion, credOps>>
    BY <1>6 DEF cbor_cred_mgmt_tick, SetRtc, credVars, storeVars
  <2> QED  BY <2>1, NumbersSame
<1>7. ASSUME NEW rp \in CredRps, NEW u \in CredUsers, credential_import(rp, u) \/ \E g \in BOOLEAN : cbor_make_credential(rp, u, g)
      PROVE  NumbersOK'
  BY <1>7, NumbersMade
<1>8. ASSUME NEW s \in ResidentSlots,
             DeleteCredential(s) \/ UpdateUser(s) \/ Revoke(s) \/ \E d \in {"past", "coming", "none"} : Expire(s, d)
      PROVE  NumbersOK'
  BY <1>8, NumbersDeleted, NumbersRewritten
<1>9. CASE ResetCredentials \/ StockWriteBack \/ CredPowerLoss
  BY <1>9, NumbersLost
<1> QED  BY <1>2, <1>3, <1>4, <1>5, <1>6, <1>7, <1>8, <1>9
         DEF CredentialsNext, MakeMalformed, MakeUnauthorized, AssertionMalformed, AssertionUnauthorized,
             ManagementRefused, getCredsMetadata, ConfigRefused

\* They are right at first.
LEMMA NumbersInit ==
  ASSUME CredentialsAssumption, CredentialsInit
  PROVE  NumbersOK
<1>1. PICK r \in CredRps, k \in {0, 2} :
        /\ stock.rps = [x \in CredRps |-> IF x = r THEN 1 ELSE 0]
        /\ \A s \in ResidentSlots : Held(stock.creds[s]) =>
             stock.creds[s].id = s /\ (stock.creds[s].form = "legacy" => s = k /\ stock.creds[s].rp = r)
  <2> DEFINE r == CHOOSE x \in CredRps : TRUE
             q == CHOOSE x \in CredRps : x # r
             u == CHOOSE x \in CredUsers : TRUE
             v == CHOOSE x \in CredUsers : x # u
             old == [x \in CredRps |-> IF x = r THEN 1 ELSE 0]
             one == [s \in ResidentSlots |-> IF s = 0 THEN Resident("legacy", r, u, 0)
                                             ELSE IF s = 1 THEN Resident("container", r, v, 1)
                                             ELSE NoResident]
             two == [s \in ResidentSlots |-> IF s = 0 THEN Resident("container", q, u, 0)
                                             ELSE IF s = 1 THEN [Resident("container", r, u, 1) EXCEPT !.guarded = TRUE]
                                             ELSE IF s = 2 THEN Resident("legacy", r, v, 2)
                                             ELSE NoResident]
             Good(cs, k) == \A s \in ResidentSlots : Held(cs[s]) =>
                              cs[s].id = s /\ (cs[s].form = "legacy" => s = k /\ cs[s].rp = r)
  <2>1. stock \in {[creds |-> one, rps |-> old], [creds |-> two, rps |-> old]}
    BY DEF CredentialsInit, Populated
  <2>r. r \in CredRps
    BY OneOf DEF CredentialsAssumption
  <2> HIDE DEF r, q, u, v
  <2>2. Good(one, 0)
    BY DEF Resident, NoResident, Held
  <2>3. Good(two, 2)
    BY DEF Resident, NoResident, Held
  <2> HIDE DEF one, two, old
  <2>4. \E k \in {0, 2} : stock.rps = old /\ Good(stock.creds, k)
    BY <2>1, <2>2, <2>3
  <2> QED  BY <2>r, <2>4 DEF old
<1>2. stockDisk = stock /\ NewId = LastCredSlot + 1 + 0 /\ LastCredSlot \in Nat
  BY DEF CredentialsInit, NewId, CredentialsAssumption
<1>3. IdsOK
  BY <1>1, <1>2 DEF IdsOK, ResidentSlots
<1>4. ASSUME NEW rp \in CredRps
      PROVE  Cardinality(LegacyOf(stock.creds, rp)) <= stock.rps[rp] /\ stock.rps[rp] \in Nat
  <2> DEFINE L == LegacyOf(stock.creds, rp)
  <2>1. \A s \in L : s = k /\ rp = r
    BY <1>1 DEF LegacyOf, Held
  <2>2. L = {} \/ (rp = r /\ L = {k})
    BY <2>1
  <2>3. stock.rps[rp] = IF rp = r THEN 1 ELSE 0
    BY <1>1
  <2> HIDE DEF L
  <2>4. Cardinality({}) = 0 /\ Cardinality({k}) = 1
    BY FS_EmptySet, FS_Singleton
  <2> QED  BY <2>2, <2>3, <2>4 DEF L
<1>5. CountsOK
  BY <1>2, <1>4 DEF CountsOK
<1> QED  BY <1>3, <1>5 DEF NumbersOK

\* Ids and counts are right in every reachable state.
LEMMA NumbersHold == CredentialsSpec => []NumbersOK
<1>1. CredentialsInit => NumbersOK
  BY NumbersInit, CredentialsAssumption
<1>2. StockOK /\ NumbersOK /\ [CredentialsNext]_credVars => NumbersOK'
  BY NumbersNext, CredentialsAssumption
<1> QED  BY <1>1, <1>2, StockHolds, PTL DEF CredentialsSpec

\* So many of S come before s; those with fewer than n - 1 before them.
Rank(S, s)  == Cardinality({t \in S : t < s})
Below(S, n) == {s \in S : Rank(S, s) + 1 < n}
IdsOf(cs, S) == {cs[s].id : s \in S}

\* A slot that comes earlier has fewer before it, and all have fewer than there are slots.
LEMMA RankFacts ==
  ASSUME CredentialsAssumption, NEW S \in SUBSET ResidentSlots
  PROVE  /\ Cardinality(S) \in Nat
         /\ \A s \in S : Rank(S, s) \in Nat /\ Rank(S, s) < Cardinality(S)
         /\ \A s, t \in S : s < t => Rank(S, s) < Rank(S, t)
<1>1. IsFiniteSet(S) /\ Cardinality(S) \in Nat /\ S \subseteq Nat
  BY SlotsFinite DEF ResidentSlots, CredentialsAssumption
<1>2. ASSUME NEW T \in SUBSET S, NEW s \in T
      PROVE  /\ Rank(S, s) \in Nat
             /\ (\A t \in S : t < s => t \in T) => Rank(S, s) < Cardinality(T)
  <2> DEFINE R == {t \in S : t < s}
  <2>1. IsFiniteSet(R) /\ Cardinality(R) \in Nat /\ IsFiniteSet(T) /\ Cardinality(T) \in Nat
    BY SlotsFinite
  <2>2. ASSUME \A t \in S : t < s => t \in T
        PROVE  Cardinality(R) < Cardinality(T)
    <3>1. R \in SUBSET T /\ R # T
      <4>1. s \in Nat /\ s \in T /\ s \notin R
        BY <1>1
      <4>2. R \subseteq T
        BY <2>2
      <4> HIDE DEF R
      <4> QED  BY <4>1, <4>2
    <3> HIDE DEF R
    <3>2. Cardinality(R) <= Cardinality(T) /\ Cardinality(R) # Cardinality(T)
      BY <2>1, <3>1, FS_Subset
    <3> QED  BY <2>1, <3>2
  <2> QED  BY <2>1, <2>2 DEF Rank
<1>3. \A s \in S : Rank(S, s) \in Nat /\ Rank(S, s) < Cardinality(S)
  BY <1>2
<1>4. ASSUME NEW s \in S, NEW t \in S, s < t
      PROVE  Rank(S, s) < Rank(S, t)
  <2> DEFINE T == {u \in S : u < t}
  <2>1. T \in SUBSET S /\ s \in T /\ \A u \in S : u < s => u \in T
    BY <1>1, <1>4
  <2> HIDE DEF T
  <2>2. Rank(S, s) < Cardinality(T)
    BY <1>2, <2>1
  <2> QED  BY <2>2 DEF Rank, T
<1> QED  BY <1>1, <1>3, <1>4

\* The next slot of a walk, and the last.
LEMMA BelowFacts ==
  ASSUME CredentialsAssumption, NEW S \in SUBSET ResidentSlots, NEW s \in S, NEW n, Rank(S, s) + 1 = n
  PROVE  /\ n \in Nat \ {0} /\ n <= Cardinality(S)
         /\ Below(S, n + 1) = Below(S, n) \cup {s}
         /\ Cardinality(S) = n => Below(S, n + 1) = S
         /\ Below(S, 1) = {}
<1>1. /\ Cardinality(S) \in Nat
      /\ \A t \in S : Rank(S, t) \in Nat /\ Rank(S, t) < Cardinality(S)
      /\ \A t, u \in S : t < u => Rank(S, t) < Rank(S, u)
  BY RankFacts
<1>2. S \subseteq Nat
  BY DEF ResidentSlots, CredentialsAssumption
<1>3. \A t \in S : Rank(S, t) + 1 = n => t = s
  BY <1>1, <1>2
<1>4. n \in Nat \ {0} /\ n <= Cardinality(S)
  BY <1>1
<1>5. Below(S, n + 1) = Below(S, n) \cup {s}
  BY <1>1, <1>3, <1>4 DEF Below
<1>6. Cardinality(S) = n => Below(S, n + 1) = S
  BY <1>1, <1>4 DEF Below
<1>7. Below(S, 1) = {}
  BY <1>1 DEF Below
<1> QED  BY <1>4, <1>5, <1>6, <1>7

\* As many ids as slots.
LEMMA IdsFacts ==
  ASSUME CredentialsAssumption, NEW S \in SUBSET ResidentSlots, NEW cs
  PROVE  /\ IsFiniteSet(IdsOf(cs, S))
         /\ (\A s, t \in S : s # t => cs[s].id # cs[t].id) => Cardinality(IdsOf(cs, S)) = Cardinality(S)
<1> DEFINE f == [s \in S |-> cs[s].id]
           T == IdsOf(cs, S)
<1>1. f \in Surjection(S, T)
  BY DEF Surjection, IdsOf
<1>2. IsFiniteSet(S)
  BY SlotsFinite
<1>3. (\A s, t \in S : s # t => cs[s].id # cs[t].id) => f \in Injection(S, T)
  BY DEF Injection, IsInjective, IdsOf
<1> HIDE DEF f, T
<1>4. IsFiniteSet(T) /\ (f \in Injection(S, T) => Cardinality(T) = Cardinality(S))
  BY <1>1, <1>2, FS_Surjection
<1> QED  BY <1>3, <1>4 DEF T

\* The relying parties of the first n entries.
Named(ix, n) == {ix[i].rp : i \in 1..n}
RpEntry == [rp : CredRps, at : 0..AtRecord]
IndexOK(ix) == ix \in Seq(RpEntry) /\ \A i, j \in 1..Len(ix) : i # j => ix[i].rp # ix[j].rp

\* An index without repetitions names as many relying parties as it has entries.
LEMMA NamedFacts ==
  ASSUME NEW ix, IndexOK(ix), NEW n \in 1..Len(ix)
  PROVE  /\ Named(ix, n) = Named(ix, n - 1) \cup {ix[n].rp}
         /\ ix[n].rp \in CredRps
         /\ Named(ix, 0) = {}
         /\ Cardinality(Named(ix, n)) = n
<1>1. ix \in Seq(RpEntry) /\ n \in Nat /\ \A i \in 1..n : ix[i] \in RpEntry
  BY DEF IndexOK
<1>2. Named(ix, 0) = {}
  BY DEF Named
<1>3. Named(ix, n) = Named(ix, n - 1) \cup {ix[n].rp} /\ ix[n].rp \in CredRps
  BY <1>1 DEF Named, RpEntry
<1>4. Cardinality(Named(ix, n)) = n
  <2> DEFINE f == [i \in 1..n |-> ix[i].rp]
             T == Named(ix, n)
  <2>1. f \in Surjection(1..n, T)
    BY DEF Surjection, Named
  <2>2. f \in Injection(1..n, T)
    BY <1>1 DEF Injection, IsInjective, Named, IndexOK
  <2> HIDE DEF f, T
  <2>3. IsFiniteSet(1..n) /\ Cardinality(1..n) = n
    BY <1>1, FS_Interval
  <2>4. Cardinality(T) = Cardinality(1..n)
    BY <2>1, <2>2, <2>3, FS_Surjection
  <2> QED  BY <2>3, <2>4 DEF T
<1> QED  BY <1>2, <1>3, <1>4

\* What a channel has heard.
Heards     == [items : SUBSET (CredRps \cup Nat), count : Nat, over : BOOLEAN, due : SUBSET (CredRps \cup Nat)]
HeardTypes == [Walks -> [CredChannels -> Heards]]
Told(h, k, c, x) == [h EXCEPT ![k][c] = x]

\* Only what that channel heard of that walk changes.
LEMMA ToldFacts ==
  ASSUME NEW h \in HeardTypes, NEW k \in Walks, NEW c \in CredChannels, NEW x \in Heards
  PROVE  /\ Told(h, k, c, x) \in HeardTypes
         /\ \A j \in Walks, d \in CredChannels : Told(h, k, c, x)[j][d] = IF j = k /\ d = c THEN x ELSE h[j][d]
<1> DEFINE g == [h[k] EXCEPT ![c] = x]
<1>1. h[k] \in [CredChannels -> Heards]
  BY DEF HeardTypes
<1>2. g \in [CredChannels -> Heards] /\ \A d \in CredChannels : g[d] = IF d = c THEN x ELSE h[k][d]
  BY <1>1
<1>3. Told(h, k, c, x) = [h EXCEPT ![k] = g]
  BY DEF Told
<1> HIDE DEF g
<1>4. Told(h, k, c, x) \in HeardTypes /\ \A j \in Walks : Told(h, k, c, x)[j] = IF j = k THEN g ELSE h[j]
  BY <1>2, <1>3 DEF HeardTypes
<1> QED  BY <1>2, <1>4

\* Nothing heard is something a channel may have heard, and no end of a walk.
LEMMA NoneHeard == NotHeard \in Heards /\ NotHeard.over = FALSE
BY DEF NotHeard, Heards

\* Only what was heard of the assertions is forgotten.
LEMMA WithoutFacts ==
  ASSUME NEW h \in HeardTypes
  PROVE  /\ WithoutNext(h) \in HeardTypes
         /\ \A j \in Walks, d \in CredChannels : WithoutNext(h)[j][d] = IF j = "gna" THEN NotHeard ELSE h[j][d]
<1> DEFINE g == [c \in CredChannels |-> NotHeard]
<1>1. g \in [CredChannels -> Heards] /\ \A d \in CredChannels : g[d] = NotHeard
  BY NoneHeard
<1>2. WithoutNext(h) = [h EXCEPT !["gna"] = g]
  BY DEF WithoutNext
<1> HIDE DEF g
<1>3. WithoutNext(h) \in HeardTypes /\ \A j \in Walks : WithoutNext(h)[j] = IF j = "gna" THEN g ELSE h[j]
  BY <1>1, <1>2 DEF HeardTypes, Walks
<1> QED  BY <1>1, <1>3

\* In silence nobody has heard anything.
LEMMA SilenceFacts ==
  Silence \in HeardTypes /\ \A j \in Walks, d \in CredChannels : Silence[j][d] = NotHeard
BY NoneHeard DEF Silence, HeardTypes

\* Every set of slots that is not empty has a first one.
LEMMA FirstSlot ==
  ASSUME CredentialsAssumption, NEW T \in SUBSET ResidentSlots, T # {}
  PROVE  \E s \in T : \A t \in T : s <= t
<1>1. T \subseteq Nat
  BY DEF ResidentSlots, CredentialsAssumption
<1>2. PICK x \in T : \A y \in T : ~(<<y, x>> \in OpToRel(<, Nat))
  BY <1>1, WFMin, NatLessThanWellFounded, Zenon
<1>3. \A y \in T : ~(y < x)
  BY <1>1, <1>2 DEF OpToRel
<1> QED  BY <1>1, <1>3

\* The index names a relying party at most once, and every one that has a record or a container.
LEMMA EntriesOnce ==
  ASSUME CredentialsAssumption, StockOK
  PROVE  /\ RpEntries \subseteq RpEntry
         /\ \A d, e \in RpEntries : d.rp = e.rp => d = e
         /\ \A rp \in CredRps : stock.rps[rp] > 0 \/ (\E s \in ResidentSlots : stock.creds[s].form = "container" /\ stock.creds[s].rp = rp)
                                  => \E e \in RpEntries : e.rp = rp
<1> DEFINE boxes == {s \in ResidentSlots : stock.creds[s].form = "container"}
           firsts == {s \in boxes : /\ stock.rps[stock.creds[s].rp] = 0
                                    /\ \A t \in boxes : stock.creds[t].rp = stock.creds[s].rp => s <= t}
           A == {[rp |-> rp, at |-> AtRecord] : rp \in {r \in CredRps : stock.rps[r] > 0}}
           B == {[rp |-> stock.creds[s].rp, at |-> s] : s \in firsts}
<1>1. RpEntries = A \cup B
  BY DEF RpEntries
<1>2. LastCredSlot \in Nat /\ ResidentSlots \subseteq Nat /\ \A s \in ResidentSlots : s \in 0..AtRecord
  BY DEF CredentialsAssumption, ResidentSlots, AtRecord
<1>3. \A s \in boxes : s \in ResidentSlots /\ stock.creds[s].rp \in CredRps
  BY DEF StockOK, CredStores, SlotRecs, Credential, NoResident, Damaged
<1>4. \A rp \in CredRps : stock.rps[rp] \in Nat
  BY DEF StockOK, CredStores
<1>5. AtRecord \in 0..AtRecord
  BY <1>2 DEF AtRecord
<1>6. \A e \in A : e.rp \in CredRps /\ stock.rps[e.rp] > 0 /\ e = [rp |-> e.rp, at |-> AtRecord]
  OBVIOUS
<1>7. \A e \in B : e.at \in firsts /\ e.rp = stock.creds[e.at].rp /\ e = [rp |-> e.rp, at |-> e.at]
  OBVIOUS
<1>8. \A s \in firsts : s \in boxes /\ stock.rps[stock.creds[s].rp] = 0 /\ \A t \in boxes : stock.creds[t].rp = stock.creds[s].rp => s <= t
  OBVIOUS
<1>9. \A rp \in CredRps : stock.rps[rp] > 0 => \E e \in A : e.rp = rp
  <2> SUFFICES ASSUME NEW rp \in CredRps, stock.rps[rp] > 0
               PROVE  \E e \in A : e.rp = rp
    OBVIOUS
  <2> DEFINE e == [rp |-> rp, at |-> AtRecord]
  <2>1. e \in A /\ e.rp = rp
    OBVIOUS
  <2> HIDE DEF e, A
  <2> QED  BY <2>1
<1>10. \A s \in firsts : \E e \in B : e.rp = stock.creds[s].rp
  <2> SUFFICES ASSUME NEW s \in firsts
               PROVE  \E e \in B : e.rp = stock.creds[s].rp
    OBVIOUS
  <2> DEFINE e == [rp |-> stock.creds[s].rp, at |-> s]
  <2>1. e \in B /\ e.rp = stock.creds[s].rp
    OBVIOUS
  <2> HIDE DEF e, B
  <2> QED  BY <2>1
<1>11. ASSUME NEW rp \in CredRps, stock.rps[rp] = 0, NEW b \in boxes, stock.creds[b].rp = rp
       PROVE  \E s \in firsts : stock.creds[s].rp = rp
  <2> DEFINE T == {s \in boxes : stock.creds[s].rp = rp}
  <2>1. T \in SUBSET ResidentSlots /\ T # {}
    BY <1>11
  <2>2. \A s \in boxes : stock.creds[s].rp = rp => s \in T
    OBVIOUS
  <2>3. \A s \in T : s \in boxes /\ stock.creds[s].rp = rp
    OBVIOUS
  <2>4. PICK s \in T : \A t \in T : s <= t
    <3> HIDE DEF T
    <3> QED  BY <2>1, FirstSlot
  <2>5. s \in firsts
    <3> HIDE DEF T, boxes
    <3> QED  BY <1>11, <2>2, <2>3, <2>4
  <2> QED  BY <2>3, <2>5
<1> HIDE DEF boxes, firsts, A, B
<1>12. RpEntries \subseteq RpEntry
  BY <1>1, <1>2, <1>3, <1>5, <1>6, <1>7, <1>8 DEF RpEntry
<1>13. \A d, e \in RpEntries : d.rp = e.rp => d = e
  <2>1. \A d \in A, e \in B : d.rp # e.rp
    BY <1>3, <1>4, <1>6, <1>7, <1>8
  <2>2. \A d \in A, e \in A : d.rp = e.rp => d = e
    BY <1>6
  <2>3. \A d \in B, e \in B : d.rp = e.rp => d = e
    <3> SUFFICES ASSUME NEW d \in B, NEW e \in B, d.rp = e.rp
                 PROVE  d.at = e.at
      BY <1>7
    <3>1. d.at \in boxes /\ e.at \in boxes /\ d.at \in Nat /\ e.at \in Nat /\ d.at <= e.at /\ e.at <= d.at
      BY <1>2, <1>3, <1>7, <1>8
    <3> QED  BY <3>1
  <2> QED  BY <1>1, <2>1, <2>2, <2>3
<1>14. ASSUME NEW rp \in CredRps,
              stock.rps[rp] > 0 \/ (\E s \in ResidentSlots : stock.creds[s].form = "container" /\ stock.creds[s].rp = rp)
       PROVE  \E e \in RpEntries : e.rp = rp
  <2>1. CASE stock.rps[rp] > 0
    BY <1>1, <1>9, <2>1
  <2>2. CASE ~(stock.rps[rp] > 0)
    <3>1. stock.rps[rp] = 0
      BY <1>4, <2>2
    <3>2. \E b \in boxes : stock.creds[b].rp = rp
      BY <1>14, <2>2 DEF boxes
    <3>3. \E s \in firsts : stock.creds[s].rp = rp
      BY <1>11, <3>1, <3>2
    <3> QED  BY <1>1, <1>10, <3>3
  <2> QED  BY <2>1, <2>2
<1> QED  BY <1>12, <1>13, <1>14

\* An index repeats nothing and names every relying party with a usable credential, unless a
\* deletion was lost.
LEMMA IndexFacts ==
  ASSUME CredentialsAssumption, StockOK, NumbersOK, NEW ix \in RpIndexes
  PROVE  /\ IndexOK(ix)
         /\ lostDeletion \/ {rp \in CredRps : Usable(rp) # {}} \subseteq Named(ix, Len(ix))
<1> DEFINE E == RpEntries
           n == Cardinality(E)
<1>1. /\ E \subseteq RpEntry
      /\ \A d, e \in E : d.rp = e.rp => d = e
      /\ \A rp \in CredRps : stock.rps[rp] > 0 \/ (\E s \in ResidentSlots : stock.creds[s].form = "container" /\ stock.creds[s].rp = rp)
                               => \E e \in E : e.rp = rp
  BY EntriesOnce
<1>2. ix \in Injection(1..n, E) /\ ix \in Surjection(1..n, E)
  BY DEF RpIndexes, Bijection
<1> HIDE DEF E
<1>3. n \in Nat
  <2> DEFINE f == [e \in E |-> e.rp]
  <2>1. f \in Injection(E, CredRps)
    BY <1>1 DEF Injection, IsInjective, RpEntry
  <2>2. IsFiniteSet(CredRps)
    BY DEF CredentialsAssumption
  <2> HIDE DEF f
  <2>3. IsFiniteSet(E)
    BY <2>1, <2>2, FS_Injection
  <2> QED  BY <2>3, FS_CardinalityType
<1> HIDE DEF n
<1>4. ix \in [1..n -> E] /\ (\A i, j \in 1..n : i # j => ix[i] # ix[j]) /\ (\A e \in E : \E i \in 1..n : ix[i] = e)
  BY <1>2 DEF Injection, IsInjective, Surjection
<1>5. ix \in Seq(RpEntry) /\ Len(ix) = n /\ \A i \in 1..n : ix[i] \in E
  <2>1. ix \in [1..n -> RpEntry]
    BY <1>1, <1>4
  <2> QED  BY <1>3, <1>4, <2>1
<1>6. IndexOK(ix)
  BY <1>1, <1>4, <1>5 DEF IndexOK
<1>7. ASSUME ~lostDeletion, NEW rp \in CredRps, Usable(rp) # {}
      PROVE  rp \in Named(ix, Len(ix))
  <2>1. PICK s \in Usable(rp) : TRUE
    BY <1>7
  <2>2. s \in ResidentSlots /\ stock.creds[s].form \in {"legacy", "container"} /\ stock.creds[s].rp = rp
    BY DEF Usable, IsOf
  <2>3. ASSUME stock.creds[s].form = "legacy"
        PROVE  stock.rps[rp] > 0
    <3> DEFINE L == LegacyOf(stock.creds, rp)
    <3>1. L \in SUBSET ResidentSlots /\ s \in L
      BY <2>2, <2>3 DEF LegacyOf
    <3>2. Cardinality(L) <= stock.rps[rp] /\ stock.rps[rp] \in Nat
      BY <1>7 DEF NumbersOK, CountsOK, StockOK, CredStores
    <3> HIDE DEF L
    <3>3. IsFiniteSet(L) /\ Cardinality(L) \in Nat
      BY <3>1, SlotsFinite
    <3>4. Cardinality(L) # 0
      BY <3>1, <3>3, FS_EmptySet
    <3> QED  BY <3>2, <3>3, <3>4
  <2>4. PICK e \in E : e.rp = rp
    BY <1>1, <2>2, <2>3
  <2>5. PICK i \in 1..n : ix[i] = e
    BY <1>4
  <2> QED  BY <1>5, <2>4, <2>5 DEF Named
<1> QED  BY <1>6, <1>7

\* The usable slots of each relying party.
UsableMap == [rp \in CredRps |-> Usable(rp)]

\* What WalksComplete asks of one channel and one walk.
Complete(k, h, lost) ==
  h.over => /\ h.count = Cardinality(h.items)
            /\ IF k = "rp" THEN lost \/ h.due \subseteq h.items ELSE h.items = h.due
AllComplete(hs, lost) == \A k \in Walks, c \in CredChannels : Complete(k, hs[k][c], lost)

\* What a channel has heard of the walk it is in.
RpHeard(h, w, lost) ==
  /\ h.count = w.next - 1 /\ h.items = Named(w.index, w.next - 1)
  /\ lost \/ h.due \subseteq Named(w.index, Len(w.index))
CredHeard(h, w, us, cs) ==
  \E rp \in CredRps :
    /\ w.rp = {rp} /\ w.total = Cardinality(us[rp]) /\ h.due = IdsOf(cs, us[rp])
    /\ h.count = w.next - 1 /\ h.items = IdsOf(cs, Below(us[rp], w.next))
GnaHeard(h, g) ==
  /\ h.items \cup g.left = h.due /\ h.items \cap g.left = {}
  /\ IsFiniteSet(h.items) /\ h.count = Cardinality(h.items)

\* Whoever has heard of the walk that is open has heard what the walk remembers as told.
RpOK(hs, w, lost) ==
  \A c \in CredChannels : hs["rp"][c] # NotHeard /\ w.chan = c /\ w.next <= Len(w.index) => RpHeard(hs["rp"][c], w, lost)
CredOK(hs, w, us, cs) ==
  \A c \in CredChannels : hs["cred"][c] # NotHeard /\ w.chan = c /\ w.next <= w.total => CredHeard(hs["cred"][c], w, us, cs)
GnaOK(hs, g) ==
  \A c \in CredChannels : hs["gna"][c] # NotHeard /\ g.chan = c /\ g.left # {} => GnaHeard(hs["gna"][c], g)

\* The walks as records.
RpWalks   == [chan : CredChannels \cup {NoChannel}, index : Seq(RpEntry), next : Nat \ {0}]
CredWalks == [chan : CredChannels \cup {NoChannel}, next : Nat \ {0}, total : Nat, rp : SUBSET CredRps]
Nexts     == [chan : CredChannels \cup {NoChannel}, left : SUBSET Nat]
WalkTypes ==
  /\ rpWalk \in RpWalks /\ IndexOK(rpWalk.index)
  /\ credWalk \in CredWalks /\ gna \in Nexts

\* The inductive invariant.
WalkInv ==
  /\ WalkTypes /\ heard \in HeardTypes
  /\ RpOK(heard, rpWalk, lostDeletion) /\ CredOK(heard, credWalk, UsableMap, stock.creds) /\ GnaOK(heard, gna)
  /\ AllComplete(heard, lostDeletion)

\* What is usable goes by the store and the clock.
LEMMA UsableSame ==
  ASSUME UNCHANGED <<stock, clock>>
  PROVE  UsableMap' = UsableMap /\ stock'.creds = stock.creds
BY DEF UsableMap, Usable, IsOf, Loads, LegacyLoads, resident_usable, ResidentSlots

\* Nothing was heard.
LEMMA HeardNothing ==
  ASSUME NEW lost, NEW w, NEW v, NEW us, NEW cs, NEW g
  PROVE  /\ Silence \in HeardTypes /\ AllComplete(Silence, lost)
         /\ RpOK(Silence, w, lost) /\ CredOK(Silence, v, us, cs) /\ GnaOK(Silence, g)
<1>1. Silence \in HeardTypes /\ \A j \in Walks, d \in CredChannels : Silence[j][d] = NotHeard
  BY SilenceFacts
<1>2. {"rp", "cred", "gna"} \subseteq Walks /\ NotHeard.over = FALSE
  BY NoneHeard DEF Walks
<1>3. AllComplete(Silence, lost)
  BY <1>1, <1>2 DEF AllComplete, Complete
<1>4. RpOK(Silence, w, lost)
  BY <1>1, <1>2 DEF RpOK
<1>5. CredOK(Silence, v, us, cs)
  BY <1>1, <1>2 DEF CredOK
<1>6. GnaOK(Silence, g)
  BY <1>1, <1>2 DEF GnaOK
<1> QED  BY <1>1, <1>3, <1>4, <1>5, <1>6

\* The assertions still to come are dropped.
LEMMA HeardWithout ==
  ASSUME NEW lost, NEW w, NEW v, NEW us, NEW cs, NEW g, NEW h \in HeardTypes, AllComplete(h, lost)
  PROVE  /\ WithoutNext(h) \in HeardTypes /\ AllComplete(WithoutNext(h), lost) /\ GnaOK(WithoutNext(h), g)
         /\ RpOK(h, w, lost) => RpOK(WithoutNext(h), w, lost)
         /\ CredOK(h, v, us, cs) => CredOK(WithoutNext(h), v, us, cs)
<1> DEFINE i == WithoutNext(h)
<1>1. i \in HeardTypes /\ \A j \in Walks, d \in CredChannels : i[j][d] = IF j = "gna" THEN NotHeard ELSE h[j][d]
  BY WithoutFacts
<1>2. {"rp", "cred", "gna"} \subseteq Walks /\ NotHeard.over = FALSE
  BY NoneHeard DEF Walks
<1> HIDE DEF i
<1>3. AllComplete(i, lost)
  BY <1>1, <1>2 DEF AllComplete, Complete
<1>4. RpOK(h, w, lost) => RpOK(i, w, lost)
  BY <1>1, <1>2 DEF RpOK
<1>5. CredOK(h, v, us, cs) => CredOK(i, v, us, cs)
  BY <1>1, <1>2 DEF CredOK
<1>6. GnaOK(i, g)
  BY <1>1, <1>2 DEF GnaOK
<1> QED  BY <1>1, <1>3, <1>4, <1>5, <1>6 DEF i

\* One channel hears something of one walk.
LEMMA HeardTold ==
  ASSUME NEW lost, NEW h \in HeardTypes, AllComplete(h, lost), NEW k \in Walks, NEW c \in CredChannels, NEW x \in Heards,
         Complete(k, x, lost), NEW w, NEW v, NEW us, NEW cs, NEW g
  PROVE  /\ Told(h, k, c, x) \in HeardTypes /\ AllComplete(Told(h, k, c, x), lost)
         /\ k # "rp" /\ RpOK(h, w, lost) => RpOK(Told(h, k, c, x), w, lost)
         /\ k # "cred" /\ CredOK(h, v, us, cs) => CredOK(Told(h, k, c, x), v, us, cs)
         /\ k # "gna" /\ GnaOK(h, g) => GnaOK(Told(h, k, c, x), g)
         /\ k = "rp" /\ w.chan = c /\ (x = NotHeard \/ (w.next <= Len(w.index) => RpHeard(x, w, lost)))
              => RpOK(Told(h, k, c, x), w, lost)
         /\ k = "cred" /\ v.chan = c /\ (x = NotHeard \/ (v.next <= v.total => CredHeard(x, v, us, cs)))
              => CredOK(Told(h, k, c, x), v, us, cs)
         /\ k = "gna" /\ g.chan = c /\ (x = NotHeard \/ (g.left # {} => GnaHeard(x, g)))
              => GnaOK(Told(h, k, c, x), g)
<1> DEFINE i == Told(h, k, c, x)
<1>1. i \in HeardTypes /\ \A j \in Walks, d \in CredChannels : i[j][d] = IF j = k /\ d = c THEN x ELSE h[j][d]
  BY ToldFacts
<1>2. {"rp", "cred", "gna"} \subseteq Walks
  BY DEF Walks
<1> HIDE DEF i
<1>3. AllComplete(i, lost)
  <2> SUFFICES ASSUME NEW j \in Walks, NEW d \in CredChannels
               PROVE  Complete(j, i[j][d], lost)
    BY DEF AllComplete
  <2>1. Complete(j, h[j][d], lost)
    BY DEF AllComplete
  <2> QED  BY <1>1, <2>1
<1>4. (k # "rp" /\ RpOK(h, w, lost) => RpOK(i, w, lost))
      /\ (k = "rp" /\ w.chan = c /\ (x = NotHeard \/ (w.next <= Len(w.index) => RpHeard(x, w, lost))) => RpOK(i, w, lost))
  BY <1>1, <1>2 DEF RpOK
<1>5. (k # "cred" /\ CredOK(h, v, us, cs) => CredOK(i, v, us, cs))
      /\ (k = "cred" /\ v.chan = c /\ (x = NotHeard \/ (v.next <= v.total => CredHeard(x, v, us, cs))) => CredOK(i, v, us, cs))
  BY <1>1, <1>2 DEF CredOK
<1>6. (k # "gna" /\ GnaOK(h, g) => GnaOK(i, g))
      /\ (k = "gna" /\ g.chan = c /\ (x = NotHeard \/ (g.left # {} => GnaHeard(x, g))) => GnaOK(i, g))
  BY <1>1, <1>2 DEF GnaOK
<1> QED  BY <1>1, <1>3, <1>4, <1>5, <1>6 DEF i

\* The walks before their first step.
LEMMA NoWalks == NoRpWalk \in RpWalks /\ IndexOK(NoRpWalk.index) /\ NoCredWalk \in CredWalks /\ NoGna \in Nexts
BY DEF NoRpWalk, NoCredWalk, NoGna, RpWalks, CredWalks, Nexts, IndexOK

\* The store or the clock changes.
LEMMA WalkStored ==
  ASSUME WalkInv, heard' = Silence, rpWalk' \in {rpWalk, NoRpWalk}, credWalk' \in {credWalk, NoCredWalk}, gna' \in {gna, NoGna}
  PROVE  WalkInv'
<1>1. WalkTypes'
  BY NoWalks DEF WalkInv, WalkTypes
<1>2. /\ heard' \in HeardTypes /\ AllComplete(heard', lostDeletion')
      /\ RpOK(heard', rpWalk', lostDeletion') /\ CredOK(heard', credWalk', UsableMap', stock'.creds) /\ GnaOK(heard', gna')
  BY HeardNothing
<1> QED  BY <1>1, <1>2 DEF WalkInv

\* A command that is about none of the walks.
LEMMA WalkOther ==
  ASSUME WalkInv, UNCHANGED <<stock, clock, lostDeletion, rpWalk, credWalk>>, heard' = WithoutNext(heard), gna' = NoGna
  PROVE  WalkInv'
<1>1. WalkTypes'
  BY NoWalks DEF WalkInv, WalkTypes
<1>2. UsableMap' = UsableMap /\ stock'.creds = stock.creds
  BY UsableSame
<1>3. heard \in HeardTypes /\ AllComplete(heard, lostDeletion) /\ RpOK(heard, rpWalk, lostDeletion)
      /\ CredOK(heard, credWalk, UsableMap, stock.creds)
  BY DEF WalkInv
<1>4. /\ heard' \in HeardTypes /\ AllComplete(heard', lostDeletion)
      /\ RpOK(heard', rpWalk, lostDeletion) /\ CredOK(heard', credWalk, UsableMap, stock.creds) /\ GnaOK(heard', gna')
  BY <1>3, HeardWithout
<1> QED  BY <1>1, <1>2, <1>4 DEF WalkInv

\* A write-back, and the closing of a walk nobody goes on with.
LEMMA WalkIdle ==
  ASSUME CredentialsAssumption, WalkInv, UNCHANGED <<stock, clock, lostDeletion, heard>>,
         UNCHANGED <<rpWalk, credWalk, gna>> \/ cbor_cred_mgmt_tick
  PROVE  WalkInv'
<1>1. UsableMap' = UsableMap /\ stock'.creds = stock.creds
  BY UsableSame
<1>2. rpWalk \in RpWalks /\ IndexOK(rpWalk.index) /\ credWalk \in CredWalks /\ gna \in Nexts /\ NoChannel \notin CredChannels
  BY DEF WalkInv, WalkTypes, CredentialsAssumption
<1>3. rpWalk' = rpWalk \/ (rpWalk' \in RpWalks /\ rpWalk'.index = rpWalk.index /\ rpWalk'.chan \notin CredChannels)
  <2>1. CASE rpWalk' = [rpWalk EXCEPT !.chan = NoChannel, !.next = Len(rpWalk.index) + 1]
    <3> DEFINE n == Len(rpWalk.index) + 1
    <3>1. n \in Nat \ {0}
      BY <1>2 DEF RpWalks
    <3>2. rpWalk' = [rpWalk EXCEPT !.chan = NoChannel, !.next = n]
      BY <2>1
    <3> HIDE DEF n
    <3> QED  BY <1>2, <3>1, <3>2 DEF RpWalks
  <2> QED  BY <2>1 DEF cbor_cred_mgmt_tick
<1>4. credWalk' = credWalk \/ (credWalk' \in CredWalks /\ credWalk'.chan \notin CredChannels)
  <2>1. CASE credWalk' = [credWalk EXCEPT !.chan = NoChannel, !.next = credWalk.total + 1]
    <3> DEFINE n == credWalk.total + 1
    <3>1. n \in Nat \ {0}
      BY <1>2 DEF CredWalks
    <3>2. credWalk' = [credWalk EXCEPT !.chan = NoChannel, !.next = n]
      BY <2>1
    <3> HIDE DEF n
    <3> QED  BY <1>2, <3>1, <3>2 DEF CredWalks
  <2> QED  BY <2>1 DEF cbor_cred_mgmt_tick
<1>5. gna' = gna \/ (gna' \in Nexts /\ gna'.chan \notin CredChannels)
  <2>1. gna' = gna \/ gna' = NoGna
    BY DEF cbor_cred_mgmt_tick
  <2> QED  BY <1>2, <2>1, NoWalks DEF NoGna
<1>6. WalkTypes'
  BY <1>2, <1>3, <1>4, <1>5 DEF WalkTypes
<1>7. RpOK(heard', rpWalk', lostDeletion')
  BY <1>3 DEF WalkInv, RpOK
<1>8. CredOK(heard', credWalk', UsableMap', stock'.creds)
  BY <1>1, <1>4 DEF WalkInv, CredOK
<1>9. GnaOK(heard', gna')
  BY <1>5 DEF WalkInv, GnaOK
<1>10. heard' \in HeardTypes /\ AllComplete(heard', lostDeletion')
  BY DEF WalkInv
<1> QED  BY <1>6, <1>7, <1>8, <1>9, <1>10 DEF WalkInv

\* The walk through the relying parties begins or goes on.
LEMMA WalkRp ==
  ASSUME CredentialsAssumption, StockOK, NumbersOK, WalkInv, NEW c \in CredChannels, RpBegin(c) \/ RpNext(c)
  PROVE  WalkInv'
<1> DEFINE h == WithoutNext(heard)
<1>1. UNCHANGED <<stock, clock, lostDeletion, credWalk>> /\ gna' = NoGna
  BY DEF RpBegin, RpNext, CredCommand, DropNext, storeVars
<1>2. UsableMap' = UsableMap /\ stock'.creds = stock.creds
  BY <1>1, UsableSame
<1>3. heard \in HeardTypes /\ AllComplete(heard, lostDeletion) /\ RpOK(heard, rpWalk, lostDeletion)
      /\ CredOK(heard, credWalk, UsableMap, stock.creds)
  BY DEF WalkInv
<1>4. /\ h \in HeardTypes /\ AllComplete(h, lostDeletion) /\ RpOK(h, rpWalk, lostDeletion)
      /\ CredOK(h, credWalk, UsableMap, stock.creds) /\ GnaOK(h, gna')
  BY <1>3, HeardWithout
<1>5. \A d \in CredChannels : h["rp"][d] = heard["rp"][d]
  BY <1>3, WithoutFacts DEF Walks
<1>6. rpWalk \in RpWalks /\ IndexOK(rpWalk.index) /\ credWalk \in CredWalks /\ gna' \in Nexts
  BY <1>1, NoWalks DEF WalkInv, WalkTypes
<1> HIDE DEF h
<1>7. ASSUME NEW x \in Heards, heard' = Told(h, "rp", c, x), Complete("rp", x, lostDeletion),
             rpWalk' \in RpWalks, IndexOK(rpWalk'.index), rpWalk'.chan = c,
             x = NotHeard \/ (rpWalk'.next <= Len(rpWalk'.index) => RpHeard(x, rpWalk', lostDeletion))
      PROVE  WalkInv'
  <2>1. "rp" \in Walks
    BY DEF Walks
  <2>2. /\ heard' \in HeardTypes /\ AllComplete(heard', lostDeletion) /\ RpOK(heard', rpWalk', lostDeletion)
        /\ CredOK(heard', credWalk, UsableMap, stock.creds) /\ GnaOK(heard', gna')
    BY <1>4, <1>7, <2>1, HeardTold
  <2>3. WalkTypes'
    BY <1>1, <1>6, <1>7 DEF WalkTypes
  <2> QED  BY <1>1, <1>2, <2>2, <2>3 DEF WalkInv
<1>8. ASSUME heard' = h, UNCHANGED rpWalk \/ (rpWalk' \in RpWalks /\ IndexOK(rpWalk'.index) /\ rpWalk'.chan = c /\ h["rp"][c] = NotHeard)
      PROVE  WalkInv'
  <2>1. RpOK(heard', rpWalk', lostDeletion)
    <3>1. CASE UNCHANGED rpWalk
      BY <1>4, <1>8, <3>1
    <3>2. CASE rpWalk'.chan = c /\ h["rp"][c] = NotHeard
      BY <1>8, <3>2 DEF RpOK
    <3> QED  BY <1>8, <3>1, <3>2
  <2>2. WalkTypes'
    BY <1>1, <1>6, <1>8 DEF WalkTypes
  <2> QED  BY <1>1, <1>2, <1>4, <1>8, <2>1, <2>2 DEF WalkInv
<1>9. CASE RpBegin(c)
  <2> DEFINE due == {rp \in CredRps : Usable(rp) # {}}
  <2>1. PICK ix \in RpIndexes : LET ok == ix # <<>> /\ RpLoads(ix[1]) IN
          /\ rpWalk' = [chan |-> c, index |-> ix, next |-> IF ok THEN 2 ELSE 1]
          /\ heard' = IF ok THEN Begins(h, "rp", c, ix[1].rp, Len(ix) = 1, due) ELSE Stops(h, "rp", c)
    BY <1>9 DEF RpBegin, h
  <2>2. IndexOK(ix) /\ (lostDeletion \/ due \subseteq Named(ix, Len(ix)))
    BY IndexFacts
  <2>3. due \subseteq CredRps
    OBVIOUS
  <2> HIDE DEF due
  <2>4. ix \in Seq(RpEntry) /\ Len(ix) \in Nat /\ (ix # <<>> => 1 \in 1..Len(ix))
    BY <2>2 DEF IndexOK
  <2>5. CASE ~(ix # <<>> /\ RpLoads(ix[1]))
    <3>1. rpWalk' = [chan |-> c, index |-> ix, next |-> 1] /\ heard' = Told(h, "rp", c, NotHeard)
      BY <2>1, <2>5 DEF Stops, Told
    <3>2. rpWalk' \in RpWalks /\ IndexOK(rpWalk'.index) /\ rpWalk'.chan = c
      BY <2>2, <2>4, <3>1 DEF RpWalks
    <3>3. Complete("rp", NotHeard, lostDeletion)
      BY NoneHeard DEF Complete
    <3> QED  BY <1>7, <3>1, <3>2, <3>3, NoneHeard
  <2>6. CASE ix # <<>> /\ RpLoads(ix[1])
    <3> DEFINE over == Len(ix) = 1
               x == [items |-> {ix[1].rp}, count |-> 1, over |-> over, due |-> due]
    <3>1. rpWalk' = [chan |-> c, index |-> ix, next |-> 2] /\ heard' = Told(h, "rp", c, x)
      BY <2>1, <2>6 DEF Begins, Told
    <3>2. rpWalk' \in RpWalks /\ IndexOK(rpWalk'.index) /\ rpWalk'.chan = c /\ rpWalk'.index = ix /\ rpWalk'.next = 2
      BY <2>2, <2>4, <3>1 DEF RpWalks
    <3>3. Named(ix, 1) = {ix[1].rp} /\ ix[1].rp \in CredRps /\ Cardinality(Named(ix, 1)) = 1
      <4>1. Named(ix, 1) = Named(ix, 1 - 1) \cup {ix[1].rp} /\ ix[1].rp \in CredRps /\ Named(ix, 0) = {} /\ Cardinality(Named(ix, 1)) = 1
        BY <2>2, <2>4, <2>6, NamedFacts
      <4>2. 1 - 1 = 0
        OBVIOUS
      <4> QED  BY <4>1, <4>2
    <3>4. x \in Heards /\ x.items = {ix[1].rp} /\ x.count = 1 /\ x.over = over /\ x.due = due
      BY <2>3, <3>3 DEF Heards
    <3> HIDE DEF x
    <3>5. Complete("rp", x, lostDeletion)
      BY <2>2, <3>3, <3>4 DEF Complete
    <3>6. RpHeard(x, rpWalk', lostDeletion)
      BY <2>2, <3>2, <3>3, <3>4 DEF RpHeard
    <3> QED  BY <1>7, <3>1, <3>2, <3>4, <3>5, <3>6
  <2> QED  BY <2>5, <2>6
<1>10. CASE RpNext(c)
  <2> DEFINE ix == rpWalk.index
             n == rpWalk.next
             so == h["rp"][c]
  <2>1. CASE heard' = h /\ UNCHANGED rpWalk
    BY <1>8, <2>1
  <2>2. CASE ~(heard' = h /\ UNCHANGED rpWalk)
    <3>1. /\ rpWalk.chan = c /\ n <= Len(ix)
          /\ rpWalk' = [rpWalk EXCEPT !.next = n + 1]
          /\ heard' = GoesOn(h, "rp", c, ix[n].rp, n = Len(ix))
      BY <1>10, <2>2 DEF RpNext, OnChannel, h
    <3>2. n \in 1..Len(ix) /\ n \in Nat /\ Len(ix) \in Nat
      BY <1>6, <3>1 DEF RpWalks
    <3>3. rpWalk' \in RpWalks /\ rpWalk'.index = ix /\ rpWalk'.chan = c /\ rpWalk'.next = n + 1
      BY <1>6, <3>1, <3>2 DEF RpWalks
    <3>4. CASE so = NotHeard
      BY <1>6, <1>8, <3>1, <3>3, <3>4 DEF GoesOn
    <3>5. CASE so # NotHeard
      <4> DEFINE over == n = Len(ix)
                 x == [items |-> so.items \cup {ix[n].rp}, count |-> so.count + 1, over |-> over, due |-> so.due]
      <4>1. heard' = Told(h, "rp", c, x)
        BY <3>1, <3>5 DEF GoesOn, Told
      <4>2. so \in Heards
        BY <1>4 DEF HeardTypes, Walks
      <4>3. RpHeard(so, rpWalk, lostDeletion)
        BY <1>4, <3>1, <3>5 DEF RpOK
      <4>4. Named(ix, n) = Named(ix, n - 1) \cup {ix[n].rp} /\ ix[n].rp \in CredRps /\ Cardinality(Named(ix, n)) = n
        BY <1>6, <3>2, NamedFacts
      <4> HIDE DEF so
      <4>5. x \in Heards /\ x.items = so.items \cup {ix[n].rp} /\ x.count = so.count + 1 /\ x.over = over /\ x.due = so.due
        BY <4>2, <4>4 DEF Heards
      <4> HIDE DEF x
      <4>6. x.items = Named(ix, n) /\ x.count = n /\ (lostDeletion \/ x.due \subseteq Named(ix, Len(ix)))
        BY <3>2, <4>3, <4>4, <4>5 DEF RpHeard
      <4>7. Complete("rp", x, lostDeletion)
        BY <4>4, <4>5, <4>6 DEF Complete
      <4>8. RpHeard(x, rpWalk', lostDeletion)
        BY <3>2, <3>3, <4>6 DEF RpHeard
      <4> QED  BY <1>6, <1>7, <3>3, <4>1, <4>5, <4>7, <4>8
    <3> QED  BY <3>4, <3>5
  <2> QED  BY <2>1, <2>2
<1> QED  BY <1>9, <1>10

\* Usable credentials have ids, all different.
LEMMA UsableFacts ==
  ASSUME CredentialsAssumption, StockOK, NumbersOK, NEW rp \in CredRps
  PROVE  /\ UsableMap[rp] = Usable(rp) /\ Usable(rp) \in SUBSET ResidentSlots
         /\ \A s \in Usable(rp) : stock.creds[s].id \in Nat
         /\ \A s, t \in Usable(rp) : s # t => stock.creds[s].id # stock.creds[t].id
<1>1. Usable(rp) \in SUBSET ResidentSlots /\ \A s \in Usable(rp) : Held(stock.creds[s])
  BY DEF Usable, IsOf, Held
<1>2. \A s \in Usable(rp) : stock.creds[s].id \in Nat
  BY <1>1 DEF StockOK, CredStores, SlotRecs, Credential, Held, NoResident, Damaged
<1>3. \A s, t \in Usable(rp) : s # t => stock.creds[s].id # stock.creds[t].id
  BY <1>1 DEF NumbersOK, IdsOK
<1> QED  BY <1>1, <1>2, <1>3 DEF UsableMap

\* The next credential of a walk.
LEMMA CredStep ==
  ASSUME CredentialsAssumption, StockOK, NumbersOK, NEW rp \in CredRps, NEW n, NEW s \in NthUsable(rp, n)
  PROVE  LET cs == stock.creds
             S == Usable(rp)
         IN  /\ n \in Nat \ {0} /\ n <= Cardinality(S) /\ Cardinality(S) \in Nat /\ cs[s].id \in Nat
             /\ IdsOf(cs, Below(S, n + 1)) = IdsOf(cs, Below(S, n)) \cup {cs[s].id}
             /\ IdsOf(cs, Below(S, 1)) = {} /\ IdsOf(cs, S) \subseteq Nat
             /\ n = Cardinality(S) => IdsOf(cs, Below(S, n + 1)) = IdsOf(cs, S) /\ Cardinality(IdsOf(cs, S)) = n
<1> DEFINE cs == stock.creds
           S == Usable(rp)
<1>1. S \in SUBSET ResidentSlots /\ (\A t \in S : cs[t].id \in Nat) /\ (\A t, u \in S : t # u => cs[t].id # cs[u].id)
  BY UsableFacts
<1>2. s \in S /\ Rank(S, s) + 1 = n
  BY DEF NthUsable, Skipped, Rank
<1> HIDE DEF cs, S
<1>3. /\ n \in Nat \ {0} /\ n <= Cardinality(S)
      /\ Below(S, n + 1) = Below(S, n) \cup {s}
      /\ Cardinality(S) = n => Below(S, n + 1) = S
      /\ Below(S, 1) = {}
  BY <1>1, <1>2, BelowFacts
<1>4. Cardinality(IdsOf(cs, S)) = Cardinality(S) /\ Cardinality(S) \in Nat
  BY <1>1, IdsFacts, SlotsFinite
<1>5. IdsOf(cs, Below(S, n + 1)) = IdsOf(cs, Below(S, n)) \cup {cs[s].id} /\ IdsOf(cs, Below(S, 1)) = {}
  BY <1>3 DEF IdsOf
<1>6. IdsOf(cs, S) \subseteq Nat /\ cs[s].id \in Nat
  BY <1>1, <1>2 DEF IdsOf
<1>7. n = Cardinality(S) => IdsOf(cs, Below(S, n + 1)) = IdsOf(cs, S) /\ Cardinality(IdsOf(cs, S)) = n
  BY <1>3, <1>4
<1> QED  BY <1>3, <1>4, <1>5, <1>6, <1>7 DEF cs, S

\* The walk through the credentials of a relying party begins or goes on.
LEMMA WalkCred ==
  ASSUME CredentialsAssumption, StockOK, NumbersOK, WalkInv, NEW c \in CredChannels,
         CredNext(c) \/ \E rp \in CredRps : CredBegin(c, rp)
  PROVE  WalkInv'
<1> DEFINE h == WithoutNext(heard)
           cs == stock.creds
           us == UsableMap
<1>1. UNCHANGED <<stock, clock, lostDeletion, rpWalk>> /\ gna' = NoGna
  BY DEF CredNext, CredBegin, CredCommand, DropNext, storeVars
<1>2. UsableMap' = us /\ stock'.creds = cs
  BY <1>1, UsableSame
<1>3. heard \in HeardTypes /\ AllComplete(heard, lostDeletion) /\ RpOK(heard, rpWalk, lostDeletion)
      /\ CredOK(heard, credWalk, us, cs)
  BY DEF WalkInv
<1>4. /\ h \in HeardTypes /\ AllComplete(h, lostDeletion) /\ RpOK(h, rpWalk, lostDeletion)
      /\ CredOK(h, credWalk, us, cs) /\ GnaOK(h, gna')
  BY <1>3, HeardWithout
<1>5. rpWalk \in RpWalks /\ IndexOK(rpWalk.index) /\ credWalk \in CredWalks /\ gna' \in Nexts
  BY <1>1, NoWalks DEF WalkInv, WalkTypes
<1>6. \A rp \in CredRps : us[rp] = Usable(rp)
  BY UsableFacts
<1> HIDE DEF h, us
<1>7. ASSUME NEW x \in Heards, heard' = Told(h, "cred", c, x), Complete("cred", x, lostDeletion),
             credWalk' \in CredWalks, credWalk'.chan = c,
             x = NotHeard \/ (credWalk'.next <= credWalk'.total => CredHeard(x, credWalk', us, cs))
      PROVE  WalkInv'
  <2>1. "cred" \in Walks
    BY DEF Walks
  <2>2. /\ heard' \in HeardTypes /\ AllComplete(heard', lostDeletion) /\ RpOK(heard', rpWalk, lostDeletion)
        /\ CredOK(heard', credWalk', us, cs) /\ GnaOK(heard', gna')
    BY <1>4, <1>7, <2>1, HeardTold
  <2>3. WalkTypes'
    BY <1>1, <1>5, <1>7 DEF WalkTypes
  <2> QED  BY <1>1, <1>2, <2>2, <2>3 DEF WalkInv
<1>8. ASSUME heard' = h, UNCHANGED credWalk \/ (credWalk' \in CredWalks /\ credWalk'.chan = c /\ h["cred"][c] = NotHeard)
      PROVE  WalkInv'
  <2>1. CredOK(heard', credWalk', us, cs)
    <3>1. CASE UNCHANGED credWalk
      BY <1>4, <1>8, <3>1
    <3>2. CASE credWalk'.chan = c /\ h["cred"][c] = NotHeard
      BY <1>8, <3>2 DEF CredOK
    <3> QED  BY <1>8, <3>1, <3>2
  <2>2. WalkTypes'
    BY <1>1, <1>5, <1>8 DEF WalkTypes
  <2> QED  BY <1>1, <1>2, <1>4, <1>8, <2>1, <2>2 DEF WalkInv
<1>9. Complete("cred", NotHeard, lostDeletion) /\ NotHeard \in Heards
  BY NoneHeard DEF Complete
<1>10. ASSUME NEW rp \in CredRps, CredBegin(c, rp)
       PROVE  WalkInv'
  <2>1. CASE credWalk' = [credWalk EXCEPT !.chan = c, !.next = 1, !.total = 0] /\ heard' = Stops(h, "cred", c)
    <3> DEFINE n == 1
               m == 0
    <3>1. n \in Nat \ {0} /\ m \in Nat /\ credWalk' = [credWalk EXCEPT !.chan = c, !.next = n, !.total = m]
      BY <2>1
    <3> HIDE DEF n, m
    <3>2. credWalk' \in CredWalks /\ credWalk'.chan = c
      BY <1>5, <3>1 DEF CredWalks
    <3> QED  BY <1>7, <1>9, <2>1, <3>2 DEF Stops, Told
  <2>2. CASE ~(credWalk' = [credWalk EXCEPT !.chan = c, !.next = 1, !.total = 0] /\ heard' = Stops(h, "cred", c))
    <3> DEFINE total == Cardinality(Usable(rp))
               over == total = 1
               ids == IdsOf(cs, Usable(rp))
    <3>1. PICK s \in NthUsable(rp, 1) :
             /\ credWalk' = [chan |-> c, next |-> 2, total |-> total, rp |-> {rp}]
             /\ heard' = Begins(h, "cred", c, cs[s].id, over, ids)
      BY <1>10, <2>2 DEF CredBegin, h, Ids, IdsOf
    <3>2. /\ 1 <= total /\ total \in Nat /\ cs[s].id \in Nat
          /\ IdsOf(cs, Below(Usable(rp), 1 + 1)) = IdsOf(cs, Below(Usable(rp), 1)) \cup {cs[s].id}
          /\ IdsOf(cs, Below(Usable(rp), 1)) = {} /\ ids \subseteq Nat
          /\ 1 = total => IdsOf(cs, Below(Usable(rp), 1 + 1)) = ids /\ Cardinality(ids) = 1
      BY CredStep
    <3>3. 1 + 1 = 2
      OBVIOUS
    <3>4. IdsOf(cs, Below(Usable(rp), 2)) = {cs[s].id} /\ (over => ids = {cs[s].id} /\ Cardinality(ids) = 1)
      BY <3>2, <3>3
    <3> HIDE DEF total, ids
    <3> DEFINE x == [items |-> {cs[s].id}, count |-> 1, over |-> over, due |-> ids]
    <3>5. heard' = Told(h, "cred", c, x)
      BY <3>1 DEF Begins, Told
    <3>6. x \in Heards /\ x.items = {cs[s].id} /\ x.count = 1 /\ x.over = over /\ x.due = ids
      BY <3>2 DEF Heards
    <3>7. credWalk' \in CredWalks /\ credWalk'.chan = c /\ credWalk'.next = 2 /\ credWalk'.total = total /\ credWalk'.rp = {rp}
      BY <3>1, <3>2 DEF CredWalks
    <3> HIDE DEF x
    <3>8. Complete("cred", x, lostDeletion)
      BY <3>4, <3>6 DEF Complete
    <3>9. CredHeard(x, credWalk', us, cs)
      BY <1>6, <3>4, <3>6, <3>7 DEF CredHeard, total, ids
    <3> QED  BY <1>7, <3>5, <3>6, <3>7, <3>8, <3>9
  <2> QED  BY <2>1, <2>2
<1>11. CASE CredNext(c)
  <2> DEFINE n == credWalk.next
             so == h["cred"][c]
  <2>1. CASE heard' = h /\ UNCHANGED credWalk
    BY <1>8, <2>1
  <2>2. CASE credWalk.chan = c /\ credWalk' = [credWalk EXCEPT !.rp = {}] /\ heard' = Stops(h, "cred", c)
    <3>1. credWalk' \in CredWalks /\ credWalk'.chan = c
      BY <1>5, <2>2 DEF CredWalks
    <3> QED  BY <1>7, <1>9, <2>2, <3>1 DEF Stops, Told
  <2>3. ASSUME credWalk.chan = c, n <= credWalk.total, NEW rp \in CredRps, credWalk.rp = {} \/ rp \in credWalk.rp,
               NEW s \in NthUsable(rp, n), credWalk' = [credWalk EXCEPT !.next = n + 1],
               heard' = GoesOn(h, "cred", c, cs[s].id, n = credWalk.total)
        PROVE  WalkInv'
    <3>1. n \in Nat \ {0} /\ credWalk.total \in Nat
      BY <1>5 DEF CredWalks
    <3>2. credWalk' \in CredWalks /\ credWalk'.chan = c /\ credWalk'.next = n + 1 /\ credWalk'.total = credWalk.total
          /\ credWalk'.rp = credWalk.rp
      BY <1>5, <2>3, <3>1 DEF CredWalks
    <3>3. CASE so = NotHeard
      BY <1>8, <2>3, <3>2, <3>3 DEF GoesOn
    <3>4. CASE so # NotHeard
      <4> DEFINE over == n = credWalk.total
                 x == [items |-> so.items \cup {cs[s].id}, count |-> so.count + 1, over |-> over, due |-> so.due]
                 ids == IdsOf(cs, Usable(rp))
      <4>1. heard' = Told(h, "cred", c, x)
        BY <2>3, <3>4 DEF GoesOn, Told
      <4>2. so \in Heards
        BY <1>4 DEF HeardTypes, Walks
      <4>3. CredHeard(so, credWalk, us, cs)
        BY <1>4, <2>3, <3>4 DEF CredOK
      <4>4. /\ credWalk.rp = {rp} /\ credWalk.total = Cardinality(Usable(rp)) /\ so.due = ids
            /\ so.count = n - 1 /\ so.items = IdsOf(cs, Below(Usable(rp), n))
        BY <1>6, <2>3, <4>3 DEF CredHeard
      <4>5. /\ cs[s].id \in Nat
            /\ IdsOf(cs, Below(Usable(rp), n + 1)) = IdsOf(cs, Below(Usable(rp), n)) \cup {cs[s].id}
            /\ n = Cardinality(Usable(rp)) => IdsOf(cs, Below(Usable(rp), n + 1)) = ids /\ Cardinality(ids) = n
        BY CredStep
      <4> HIDE DEF so, ids
      <4>6. x \in Heards /\ x.items = so.items \cup {cs[s].id} /\ x.count = so.count + 1 /\ x.over = over /\ x.due = so.due
        BY <4>2, <4>5 DEF Heards
      <4> HIDE DEF x
      <4>7. x.items = IdsOf(cs, Below(Usable(rp), n + 1)) /\ x.count = n /\ x.due = ids
        BY <3>1, <4>4, <4>5, <4>6
      <4>8. Complete("cred", x, lostDeletion)
        BY <4>4, <4>5, <4>6, <4>7 DEF Complete
      <4>9. CredHeard(x, credWalk', us, cs)
        <5>1. credWalk'.rp = {rp} /\ credWalk'.total = Cardinality(us[rp]) /\ x.due = IdsOf(cs, us[rp])
          BY <1>6, <3>2, <4>4, <4>7 DEF ids
        <5>2. x.count = credWalk'.next - 1 /\ x.items = IdsOf(cs, Below(us[rp], credWalk'.next))
          BY <1>6, <3>1, <3>2, <4>7
        <5> QED  BY <5>1, <5>2 DEF CredHeard
      <4> QED  BY <1>7, <3>2, <4>1, <4>6, <4>8, <4>9
    <3> QED  BY <3>3, <3>4
  <2>4. CASE credWalk.chan = c /\ n <= credWalk.total
    <3>1. PICK rp \in IF credWalk.rp = {} THEN CredRps ELSE credWalk.rp :
            \/ \E s \in NthUsable(rp, n) : /\ credWalk' = [credWalk EXCEPT !.next = n + 1]
                                           /\ heard' = GoesOn(h, "cred", c, cs[s].id, n = credWalk.total)
            \/ credWalk' = [credWalk EXCEPT !.rp = {}] /\ heard' = Stops(h, "cred", c)
      BY <1>11, <2>4 DEF CredNext, OnChannel, h
    <3>2. rp \in CredRps
      BY <1>5, <3>1 DEF CredWalks
    <3> QED  BY <2>2, <2>3, <2>4, <3>1, <3>2
  <2>5. CASE ~(credWalk.chan = c /\ n <= credWalk.total)
    BY <1>11, <2>1, <2>5 DEF CredNext, OnChannel, h
  <2> QED  BY <2>4, <2>5
<1> QED  BY <1>10, <1>11

\* An assertion, or the next one.
LEMMA WalkGna ==
  ASSUME CredentialsAssumption, StockOK, NumbersOK, WalkInv, NEW c \in CredChannels,
         cbor_get_next_assertion(c) \/ \E rp \in CredRps, uv \in BOOLEAN : cbor_get_assertion(c, rp, uv)
  PROVE  WalkInv'
<1> DEFINE h == WithoutNext(heard)
<1>1. UNCHANGED <<stock, clock, lostDeletion, rpWalk, credWalk>>
  BY DEF cbor_get_next_assertion, cbor_get_assertion, CredCommand, storeVars
<1>2. UsableMap' = UsableMap /\ stock'.creds = stock.creds
  BY <1>1, UsableSame
<1>3. heard \in HeardTypes /\ AllComplete(heard, lostDeletion) /\ RpOK(heard, rpWalk, lostDeletion)
      /\ CredOK(heard, credWalk, UsableMap, stock.creds) /\ GnaOK(heard, gna)
  BY DEF WalkInv
<1>4. /\ h \in HeardTypes /\ AllComplete(h, lostDeletion) /\ RpOK(h, rpWalk, lostDeletion)
      /\ CredOK(h, credWalk, UsableMap, stock.creds) /\ GnaOK(h, gna')
  BY <1>3, HeardWithout
<1>5. rpWalk \in RpWalks /\ IndexOK(rpWalk.index) /\ credWalk \in CredWalks /\ gna \in Nexts
  BY DEF WalkInv, WalkTypes
<1>6. CASE gna' = NoGna /\ heard' = h
  BY <1>1, <1>6, WalkOther
<1> HIDE DEF h
<1>7. ASSUME NEW i \in {h, heard}, NEW x \in Heards, heard' = Told(i, "gna", c, x), Complete("gna", x, lostDeletion),
             gna' \in Nexts, (gna'.chan = c /\ GnaHeard(x, gna')) \/ gna' = NoGna
      PROVE  WalkInv'
  <2>1. "gna" \in Walks
    BY DEF Walks
  <2>2. /\ heard' \in HeardTypes /\ AllComplete(heard', lostDeletion) /\ RpOK(heard', rpWalk, lostDeletion)
        /\ CredOK(heard', credWalk, UsableMap, stock.creds)
    BY <1>3, <1>4, <1>7, <2>1, HeardTold
  <2>3. gna'.chan = c /\ GnaHeard(x, gna') => GnaOK(heard', gna')
    BY <1>3, <1>4, <1>7, <2>1, HeardTold
  <2>4. gna' = NoGna => GnaOK(heard', gna')
    BY DEF GnaOK, NoGna
  <2>5. WalkTypes'
    BY <1>1, <1>5, <1>7 DEF WalkTypes
  <2> QED  BY <1>1, <1>2, <1>7, <2>2, <2>3, <2>4, <2>5 DEF WalkInv
<1>8. \A y : IsFiniteSet({y}) /\ Cardinality({y}) = 1
  BY FS_Singleton
<1>9. ASSUME NEW rp \in CredRps, NEW uv \in BOOLEAN, cbor_get_assertion(c, rp, uv)
      PROVE  WalkInv'
  <2> DEFINE ids == Ids(Shown(rp, uv))
  <2>1. ids \subseteq Nat
    <3>1. Shown(rp, uv) \subseteq Usable(rp) /\ \A s \in Usable(rp) : stock.creds[s].id \in Nat
      BY UsableFacts DEF Shown
    <3> QED  BY <3>1 DEF Ids
  <2>2. CASE ids = {}
    BY <1>6, <1>9, <2>2 DEF cbor_get_assertion, h
  <2>3. CASE ids # {}
    <3>1. PICK i \in ids : /\ gna' = IF ids = {i} THEN NoGna ELSE [chan |-> c, left |-> ids \ {i}]
                           /\ heard' = Begins(h, "gna", c, i, ids = {i}, ids)
      BY <1>9, <2>3 DEF cbor_get_assertion, h
    <3> HIDE DEF ids
    <3> DEFINE over == ids = {i}
               x == [items |-> {i}, count |-> 1, over |-> over, due |-> ids]
    <3>2. heard' = Told(h, "gna", c, x)
      BY <3>1 DEF Begins, Told
    <3>3. x \in Heards /\ x.items = {i} /\ x.count = 1 /\ x.over = over /\ x.due = ids
      BY <2>1 DEF Heards
    <3> HIDE DEF x
    <3>4. Complete("gna", x, lostDeletion)
      BY <1>8, <3>3 DEF Complete
    <3>5. CASE ids = {i}
      BY <1>7, <3>1, <3>2, <3>3, <3>4, <3>5, NoWalks
    <3>6. CASE ids # {i}
      <4>1. gna' = [chan |-> c, left |-> ids \ {i}]
        BY <3>1, <3>6
      <4>2. gna' \in Nexts /\ gna'.chan = c /\ gna'.left = ids \ {i}
        BY <2>1, <4>1 DEF Nexts
      <4>3. GnaHeard(x, gna')
        BY <1>8, <3>3, <4>2 DEF GnaHeard
      <4> QED  BY <1>7, <3>2, <3>3, <3>4, <4>2, <4>3
    <3> QED  BY <3>5, <3>6
  <2> QED  BY <2>2, <2>3
<1>10. CASE cbor_get_next_assertion(c)
  <2>1. CASE ~(gna.chan = c /\ gna.left # {})
    BY <1>6, <1>10, <2>1 DEF cbor_get_next_assertion, OnChannel, h
  <2>2. CASE gna.chan = c /\ gna.left # {}
    <3> DEFINE left == gna.left
               so == heard["gna"][c]
    <3>1. PICK i \in left : /\ gna' = IF left = {i} THEN NoGna ELSE [gna EXCEPT !.left = left \ {i}]
                            /\ heard' = GoesOn(heard, "gna", c, i, left = {i})
      BY <1>10, <2>2 DEF cbor_get_next_assertion, OnChannel
    <3>2. left \subseteq Nat
      BY <1>5 DEF Nexts
    <3>3. gna' \in Nexts /\ (left = {i} => gna' = NoGna) /\ (left # {i} => gna'.chan = c /\ gna'.left = left \ {i})
      <4> DEFINE fewer == left \ {i}
      <4>1. fewer \subseteq Nat
        BY <3>2
      <4>2. CASE left = {i}
        BY <3>1, <4>2, NoWalks
      <4>3. CASE left # {i}
        <5>1. gna' = [gna EXCEPT !.left = fewer]
          BY <3>1, <4>3
        <5> HIDE DEF fewer
        <5>2. gna' \in Nexts /\ gna'.chan = c /\ gna'.left = fewer
          BY <1>5, <2>2, <4>1, <5>1 DEF Nexts
        <5> QED  BY <4>3, <5>2 DEF fewer
      <4> QED  BY <4>2, <4>3
    <3>4. CASE so = NotHeard
      <4>1. heard' = heard
        BY <3>1, <3>4 DEF GoesOn
      <4>2. GnaOK(heard', gna')
        BY <3>3, <3>4, <4>1 DEF GnaOK, NoGna
      <4>3. WalkTypes'
        BY <1>1, <1>5, <3>3 DEF WalkTypes
      <4> QED  BY <1>1, <1>2, <1>3, <4>1, <4>2, <4>3 DEF WalkInv
    <3>5. CASE so # NotHeard
      <4> DEFINE over == left = {i}
                 x == [items |-> so.items \cup {i}, count |-> so.count + 1, over |-> over, due |-> so.due]
      <4>1. heard' = Told(heard, "gna", c, x)
        BY <3>1, <3>5 DEF GoesOn, Told
      <4>2. so \in Heards
        BY <1>3 DEF HeardTypes, Walks
      <4>3. GnaHeard(so, gna)
        BY <1>3, <2>2, <3>5 DEF GnaOK
      <4> HIDE DEF so
      <4>4. x \in Heards /\ x.items = so.items \cup {i} /\ x.count = so.count + 1 /\ x.over = over /\ x.due = so.due
        BY <3>2, <4>2 DEF Heards
      <4> HIDE DEF x
      <4>5. i \notin so.items /\ IsFiniteSet(so.items)
        BY <4>3 DEF GnaHeard
      <4>6. IsFiniteSet(x.items) /\ Cardinality(x.items) = x.count
        <5>1. IsFiniteSet(so.items \cup {i}) /\ Cardinality(so.items \cup {i}) = Cardinality(so.items) + 1
          BY <4>5, FS_AddElement
        <5> QED  BY <4>3, <4>4, <5>1 DEF GnaHeard
      <4>7. Complete("gna", x, lostDeletion)
        BY <4>3, <4>4, <4>6 DEF Complete, GnaHeard
      <4>8. left # {i} => GnaHeard(x, gna')
        BY <3>3, <4>3, <4>4, <4>6 DEF GnaHeard
      <4> QED  BY <1>7, <3>3, <4>1, <4>4, <4>7, <4>8
    <3> QED  BY <3>4, <3>5
  <2> QED  BY <2>1, <2>2
<1> QED  BY <1>9, <1>10

\* Every step keeps what the walks remember and what was heard of them in step.
LEMMA WalkNext ==
  ASSUME CredentialsAssumption, StockOK, NumbersOK, WalkInv, [CredentialsNext]_credVars
  PROVE  WalkInv'
<1>1. CborOther => WalkInv'
  BY WalkOther DEF CborOther, CredCommand, DropNext, storeVars
<1>2. ASSUME NEW rp, NEW uv, MakeExcluded(rp, uv)
      PROVE  WalkInv'
  BY <1>1, <1>2 DEF MakeExcluded
<1>3. ASSUME NEW c \in CredChannels, RpBegin(c) \/ RpNext(c)
      PROVE  WalkInv'
  BY <1>3, WalkRp
<1>4. ASSUME NEW c \in CredChannels, CredNext(c) \/ \E rp \in CredRps : CredBegin(c, rp)
      PROVE  WalkInv'
  BY <1>4, WalkCred
<1>5. ASSUME NEW c \in CredChannels,
             cbor_get_next_assertion(c) \/ \E rp \in CredRps, uv \in BOOLEAN : cbor_get_assertion(c, rp, uv)
      PROVE  WalkInv'
  BY <1>5, WalkGna
<1>6. CASE cbor_cred_mgmt_tick \/ StockWriteBack \/ UNCHANGED credVars
  <2>1. UNCHANGED <<stock, clock, lostDeletion, heard>>
    BY <1>6 DEF cbor_cred_mgmt_tick, StockWriteBack, credVars, storeVars
  <2>2. UNCHANGED <<rpWalk, credWalk, gna>> \/ cbor_cred_mgmt_tick
    BY <1>6 DEF StockWriteBack, credVars, walkVars
  <2> QED  BY <2>1, <2>2, WalkIdle
<1>7. ASSUME StoreChanged, UNCHANGED <<rpWalk, credWalk>>, DropNext \/ UNCHANGED gna
      PROVE  WalkInv'
  BY <1>7, WalkStored DEF StoreChanged, DropNext
<1>8. ASSUME NEW rp, NEW u, credential_import(rp, u) \/ \E g \in BOOLEAN : cbor_make_credential(rp, u, g)
      PROVE  WalkInv'
  BY <1>7, <1>8 DEF credential_import, cbor_make_credential, walkVars
<1>9. ASSUME NEW s, DeleteCredential(s) \/ UpdateUser(s) \/ Revoke(s) \/ \E d \in {"past", "coming", "none"} : Expire(s, d)
      PROVE  WalkInv'
  BY <1>7, <1>9 DEF DeleteCredential, UpdateUser, Revoke, Expire
<1>10. CASE ResetCredentials \/ SetRtc
  BY <1>7, <1>10 DEF ResetCredentials, SetRtc, walkVars
<1>11. CASE CredPowerLoss
  BY <1>11, WalkStored DEF CredPowerLoss, StoreChanged
<1> QED  BY <1>1, <1>2, <1>3, <1>4, <1>5, <1>6, <1>8, <1>9, <1>10, <1>11
         DEF CredentialsNext, MakeMalformed, MakeUnauthorized, AssertionMalformed, AssertionUnauthorized,
             ManagementRefused, getCredsMetadata, ConfigRefused

\* At first nobody has heard anything.
LEMMA WalkInit ==
  ASSUME CredentialsInit
  PROVE  WalkInv
<1>1. WalkTypes
  BY NoWalks DEF WalkTypes, CredentialsInit
<1>2. /\ heard \in HeardTypes /\ AllComplete(heard, lostDeletion)
      /\ RpOK(heard, rpWalk, lostDeletion) /\ CredOK(heard, credWalk, UsableMap, stock.creds) /\ GnaOK(heard, gna)
  BY HeardNothing DEF CredentialsInit
<1> QED  BY <1>1, <1>2 DEF WalkInv

\* A host that walks through the relying parties, the credentials of one or the next assertions to
\* the end, the store unchanged meanwhile, is told of each exactly once, whatever other channels do
\* between its steps, for any number of slots, channels, commands and losses of power.
THEOREM WalksHold == CredentialsSpec => []WalksComplete
<1>1. CredentialsInit => WalkInv
  BY WalkInit
<1>2. StockOK /\ NumbersOK /\ WalkInv /\ [CredentialsNext]_credVars => WalkInv'
  BY WalkNext, CredentialsAssumption
<1>3. WalkInv => WalksComplete
  BY DEF WalkInv, AllComplete, Complete, WalksComplete
<1> QED  BY <1>1, <1>2, <1>3, StockHolds, NumbersHold, PTL DEF CredentialsSpec

=================================================================================
