------------------------------- MODULE LargeBlobs -------------------------------
(***************************************************************************)
(* authenticatorLargeBlobs (fido/cbor_large_blobs.c): hosts send an array  *)
(* in fragments, each with its own proof of the PIN, and read the stored   *)
(* one back.  An array is a sequence of parts; a fragment is one part, or  *)
(* none, and says at which offset it goes.  The hash at the end of an      *)
(* array fits exactly when all its parts are from one array.               *)
(*                                                                         *)
(* The upload has no channel: any host's fragment at the right offset      *)
(* continues it.  The PIN and the token are the client PIN's (ClientPin);  *)
(* here they change at any time.                                           *)
(***************************************************************************)
EXTENDS Naturals, Sequences

CONSTANTS
  Arrays,        \* the arrays hosts have
  Initially,     \* the empty array that a reset device holds
  MaxParts,      \* MAX_LARGE_BLOB_SIZE; an array has 2 parts or more (the hash is one)
  MaxFragments, MaxBlobMishaps  \* bounds: fragments sent; power losses, failed writes

ASSUME LargeBlobsAssumption ==
  Initially \notin Arrays /\ MaxParts \in Nat /\ MaxFragments \in Nat /\ MaxBlobMishaps \in Nat

VARIABLES
  upload,   \* [len, next, active]: expectedLength, expectedNextOffset, large_blob_active
  temp_lba, \* the parts received
  blob,     \* the file in RAM and in flash, each [array, trail] with the trail that stored it
  blobGate, \* [pin, token]: is a PIN set; may the token in force write large blobs
  trail,    \* ghost: the offsets accepted since the upload was begun, and idle at no time
  fragments, blobMishaps

blobVars == <<upload, temp_lba, blob, blobGate, trail, fragments, blobMishaps>>

BlobLengths == 2..MaxParts
NoUpload == [len |-> 0, next |-> 0, active |-> FALSE]
AtReset  == [array |-> Initially, trail |-> <<>>]

LargeBlobsInit ==
  /\ upload = NoUpload /\ temp_lba = <<>> /\ trail = <<>>
  /\ blob = [ram |-> AtReset, disk |-> AtReset]
  /\ blobGate \in [pin : BOOLEAN, token : {FALSE}]
  /\ fragments = 0 /\ blobMishaps = 0

-----------------------------------------------------------------------------
\* Mutated form: the upload is no longer watched, and goes on where it was.
cbor_large_blobs_tick_Keeps(u) == [u EXCEPT !.active = FALSE]

\* cbor_large_blobs_tick: half a minute without a fragment ends the upload.
cbor_large_blobs_tick(u) == NoUpload

Idle ==
  /\ upload.active /\ upload' = cbor_large_blobs_tick(upload) /\ trail' = <<>>
  /\ UNCHANGED <<temp_lba, blob, blobGate, fragments, blobMishaps>>

\* pinUvAuthParam is absent, or made with the token in force ("now") or with an older one
\* ("stale").  Without a PIN nothing has to be proven, but what is sent is verified all the same.
Proven(param) == (param = "none" /\ ~blobGate.pin) \/ (param = "now" /\ blobGate.token)

\* Offset 0 begins an upload of the declared length, before anything is proven.
Begun(o, length) == IF o = 0 THEN [len |-> length, next |-> 0, active |-> TRUE] ELSE upload

\* A request whose parameters are in order: a length comes with offset 0 and only there.
FragmentSent(o, length) ==
  /\ fragments < MaxFragments /\ fragments' = fragments + 1
  /\ IF o = 0 THEN length \in BlobLengths ELSE length = 0

\* It is out of sequence, or not proven, or too long.  What offset 0 began stays begun.
SetRefused(o, length, size, param) ==
  LET u == Begun(o, length) IN
  /\ FragmentSent(o, length) /\ (o # u.next \/ ~Proven(param) \/ o + size > u.len)
  /\ upload' = u /\ trail' = IF o = 0 THEN <<>> ELSE trail
  /\ UNCHANGED <<temp_lba, blob, blobGate, blobMishaps>>

\* The hash that ends an array.
HashFits(parts) ==
  \E a \in Arrays : parts = [i \in 1..Len(parts) |-> [of |-> <<a, Len(parts)>>, at |-> i - 1]]

\* It is appended.  With the last part the hash is compared: when it does not fit, the upload is
\* left standing at its end; when it does, the array is stored, or not: the result of
\* file_put_data is not looked at.
SetAccepted(o, length, size, part, param) ==
  LET u     == Begun(o, length)
      added == IF size = 0 THEN <<>> ELSE <<part>>
      parts == (IF o = 0 THEN <<>> ELSE temp_lba) \o added
      path  == (IF o = 0 THEN <<>> ELSE trail) \o [i \in 1..size |-> o]
      done  == o + size = u.len /\ HashFits(parts)
  IN
  /\ FragmentSent(o, length) /\ o = u.next /\ Proven(param) /\ o + size <= u.len
  /\ temp_lba' = parts /\ trail' = IF done THEN <<>> ELSE path
  /\ upload' = IF done THEN NoUpload ELSE [u EXCEPT !.next = o + size]
  /\ \/ ~done /\ UNCHANGED <<blob, blobMishaps>>
     \/ /\ done /\ UNCHANGED blobMishaps
        /\ blob' = [blob EXCEPT !.ram = [array |-> part.of, trail |-> path]]
     \/ /\ done /\ UNCHANGED blob
        /\ blobMishaps < MaxBlobMishaps /\ blobMishaps' = blobMishaps + 1
  /\ UNCHANGED blobGate

SetFragment ==
  \E o \in 0..MaxParts, length \in {0} \cup BlobLengths, size \in {0, 1}, param \in {"none", "now", "stale"} :
    \/ SetRefused(o, length, size, param)
    \/ \E a \in Arrays, n \in BlobLengths : SetAccepted(o, length, size, [of |-> <<a, n>>, at |-> o], param)

\* The rest of the device: a PIN is set, tokens are issued and used up, the file is written back,
\* power is lost.
ProofChanges ==
  /\ \E t \in BOOLEAN : blobGate' = [pin |-> TRUE, token |-> t] /\ blobGate' # blobGate
  /\ UNCHANGED <<upload, temp_lba, blob, trail, fragments, blobMishaps>>

BlobWriteBack ==
  /\ blob.ram # blob.disk /\ blob' = [blob EXCEPT !.disk = blob.ram]
  /\ UNCHANGED <<upload, temp_lba, blobGate, trail, fragments, blobMishaps>>

BlobPowerLoss ==
  /\ blobMishaps < MaxBlobMishaps /\ blobMishaps' = blobMishaps + 1
  /\ upload' = NoUpload /\ temp_lba' = <<>> /\ trail' = <<>>
  /\ blob' = [blob EXCEPT !.ram = blob.disk]
  /\ blobGate' = [blobGate EXCEPT !.token = FALSE]
  /\ UNCHANGED fragments

LargeBlobsNext == Idle \/ SetFragment \/ ProofChanges \/ BlobWriteBack \/ BlobPowerLoss

LargeBlobsSpec == LargeBlobsInit /\ [][LargeBlobsNext]_blobVars

-----------------------------------------------------------------------------
\* The stored array was sent whole: the file holds the empty array or one whose parts were
\* accepted one after the other from offset 0 to the end, in an upload that
\* nobody began anew and that was never idle (cbor_large_blobs); fragments of other uploads, other
\* hosts' fragments and refused ones in between do not get into it.
StoredArrayWasSent ==
  \A f \in {blob.ram, blob.disk} :
    f = AtReset \/ f.trail = [i \in 1..f.array[2] |-> i - 1]
=================================================================================
