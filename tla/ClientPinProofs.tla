---------------------------- MODULE ClientPinProofs ----------------------------
(***************************************************************************)
(* What the client PIN promises for every set of PINs, RPs and requests,   *)
(* every number of retries, every number of commits that give up and of    *)
(* power losses.                                                           *)
(*                                                                         *)
(* Each property is the visible part of one conjunct of PinInv.  The ones  *)
(* about power losses speak of every value flash may hold and not of the   *)
(* value the code reads; the one about the soft lock relates the history's *)
(* credit to the counter in RAM and the marker in the file, which is what  *)
(* the code has to go by; the one about tokens covers a token that is in   *)
(* use and has lost its permissions, because the next command gives "lbw"  *)
(* back to it.                                                             *)
(***************************************************************************)
EXTENDS ClientPin, TLAPS

PinFiles   == [now : PinValues, flash : SUBSET PinValues]
KeyFiles   == [now : KeyValues \ {NoKey}, flash : SUBSET KeyValues]
ForceFiles == [now : BOOLEAN, flash : SUBSET BOOLEAN]
FileSystem == [pin : PinFiles, keydev : KeyFiles, force : ForceFiles,
               token : TokenFiles, ptoken : TokenFiles]

Grants == [permissions : SUBSET Permissions, rp : RPs \cup {NoRP}, uv : BOOLEAN,
           in_use : BOOLEAN]
Proofs == [alive : BOOLEAN, permissions : SUBSET Permissions, rp : RPs \cup {NoRP},
           rps : SUBSET RPs, asserted : Nat]

\* The types, short of the width of new_pin_mismatches.
TypesOK ==
  /\ fs \in FileSystem
  /\ paut \in Grants /\ proof \in Proofs
  /\ ppaut \in BOOLEAN /\ needs_power_cycle \in BOOLEAN /\ hkey_init \in BOOLEAN
  /\ new_pin_mismatches \in Nat
  /\ session_pin \in KeyValues
  /\ guesses \in Nat /\ credit \in Int
  /\ torn \in BOOLEAN /\ revived \in BOOLEAN
  /\ timeouts \in 0..MaxTimeouts /\ losses \in 0..MaxLosses

\* What the code reads is among what flash may hold; each retry flash grants is paid for.
RetriesOK ==
  /\ pinNow \in fs["pin"].flash
  /\ RetriesOnRecord

\* The mismatch counter does not outrun the wrong PINs since a right one, which do not
\* outrun the retries; with no PIN it keeps what it had.
MismatchOK ==
  /\ new_pin_mismatches <= MAX_PIN_RETRIES
  /\ PinSet => new_pin_mismatches <= guesses

\* A PIN that can be compared and told apart has credit left: one wrong PIN if the marker is
\* set, else as many as the counter in RAM is short of the soft lock.
CreditOK ==
  /\ credit >= 0
  /\ ~needs_power_cycle /\ PinSet /\ pinNow.count > 0 =>
       /\ credit >= 1
       /\ ~pinNow.marked => credit >= MaxMismatches - new_pin_mismatches

\* The key is open, or the PIN file p unwraps it.
KeyMatches(p, key) ==
  key \in {Plain, Wrapped(IF p.legacy THEN "multi" ELSE "derived", p.pin)}

TokenStands == paut.in_use \/ paut.permissions # {}

\* The key goes with the PIN file the code reads, with every one flash may hold once the key
\* is on flash, and with the session a token was given in.
KeyOK ==
  /\ fs["keydev"].now \in fs["keydev"].flash
  /\ ~torn =>
       /\ KeyMatches(pinNow, fs["keydev"].now)
       /\ ~Pending(fs["keydev"]) =>
            \A p \in fs["pin"].flash : KeyMatches(p, fs["keydev"].now)
       /\ TokenStands => Opens(fs, session_pin)

\* A platform holds the token in the file, and the token is in use or has a permission.
Usable == fs["token"].now \in fs["token"].held /\ TokenStands

\* Such a token has what the last right PIN was given for, and less after an assertion.
GrantOK ==
  Usable =>
    /\ proof.alive
    /\ paut.permissions \ {"lbw"} \subseteq proof.permissions
    /\ paut.permissions \ {"lbw"} # {} => proof.asserted = 0
    /\ paut.rp = NoRP => proof.rp = NoRP /\ proof.rps = {}
    /\ paut.rp # NoRP => proof.rp \in {NoRP, paut.rp} /\ proof.rps \subseteq {paut.rp}

\* No power loss revived a token: the newest is in both files and is not void.
VoidOK ==
  ~revived =>
    \A n \in {"token", "ptoken"} : fs[n].now = "live" /\ "live" \notin fs[n].void

PinInv == TypesOK /\ RetriesOK /\ MismatchOK /\ CreditOK /\ KeyOK /\ GrantOK /\ VoidOK

-----------------------------------------------------------------------------
(* The values and the operators on files. *)

\* The wrappings of a key under two PINs, and the open and the absent key, are told apart.
LEMMA KeyFacts ==
  ASSUME NEW p \in Pins, NEW kind \in {"multi", "derived"}
  PROVE  /\ Wrapped(kind, p) \in KeyValues \ {NoKey, Plain}
         /\ Plain \in KeyValues \ {NoKey}
         /\ \A q, other : Wrapped(kind, p) = Wrapped(other, q) => kind = other /\ p = q
<1>1. \A q, other : Wrapped(kind, p) = Wrapped(other, q) => kind = other /\ p = q
  BY DEF Wrapped
<1>2. kind # "plain" /\ kind # "absent"
  OBVIOUS
<1>3. Plain # NoKey /\ Wrapped(kind, p) # Plain /\ Wrapped(kind, p) # NoKey
  BY <1>2 DEF Plain, NoKey, Wrapped
<1> QED  BY <1>1, <1>3 DEF KeyValues

\* What a key on file can be, and that no key is wrapped under NoPin.
LEMMA NoPinKey ==
  ASSUME ClientPinAssumption, NEW kind \in {"multi", "derived"}
  PROVE  Wrapped(kind, NoPin) \notin KeyValues /\ Plain # NoKey
<1>1. kind # "plain" /\ kind # "absent"
  OBVIOUS
<1>2. Plain # NoKey /\ Wrapped(kind, NoPin) # Plain /\ Wrapped(kind, NoPin) # NoKey
  BY <1>1 DEF Plain, NoKey, Wrapped
<1>3. \A other, p : p \in Pins => Wrapped(kind, NoPin) # Wrapped(other, p)
  BY DEF Wrapped, ClientPinAssumption
<1> QED  BY <1>2, <1>3 DEF KeyValues

\* The PIN files that a new PIN and an older firmware leave.
LEMMA PinFacts ==
  ASSUME ClientPinAssumption, NEW p \in Pins
  PROVE  /\ Fresh(p) \in PinValues /\ Legacy(p) \in PinValues /\ Unset \in PinValues
         /\ Fresh(p).pin = p /\ Fresh(p).count = MAX_PIN_RETRIES
         /\ Fresh(p).marked = FALSE /\ Fresh(p).legacy = FALSE
         /\ Legacy(p).pin = p /\ Legacy(p).count = MAX_PIN_RETRIES
         /\ Legacy(p).marked = FALSE /\ Legacy(p).legacy = TRUE
         /\ p # NoPin
<1>1. MAX_PIN_RETRIES \in 0..MAX_PIN_RETRIES /\ 0 \in 0..MAX_PIN_RETRIES /\ p # NoPin
  BY DEF ClientPinAssumption
<1>3. /\ Fresh(p).pin = p /\ Fresh(p).count = MAX_PIN_RETRIES
      /\ Legacy(p).pin = p /\ Legacy(p).count = MAX_PIN_RETRIES
  BY DEF Fresh, Legacy
<1>4. /\ Fresh(p).marked = FALSE /\ Fresh(p).legacy = FALSE
      /\ Legacy(p).marked = FALSE /\ Legacy(p).legacy = TRUE
  BY DEF Fresh, Legacy
<1>5. Fresh(p) \in PinValues /\ Unset \in PinValues
  BY <1>1 DEF Fresh, Unset, PinValues
<1>6. Legacy(p) \in PinValues
  BY <1>1 DEF Legacy, PinValues
<1> QED  BY <1>1, <1>3, <1>4, <1>5, <1>6, Zenon

\* The empty PIN file.
LEMMA UnsetFacts ==
  ASSUME ClientPinAssumption
  PROVE  Unset \in PinValues /\ Unset.pin = NoPin /\ Unset.legacy = FALSE
BY DEF Unset, PinValues, ClientPinAssumption

\* What Put does to a file,
LEMMA FilePut ==
  /\ \A f \in PinFiles, v \in PinValues :
       Put(f, v) \in PinFiles /\ Put(f, v).now = v /\ Put(f, v).flash = f.flash \cup {v}
  /\ \A f \in KeyFiles, v \in KeyValues \ {NoKey} :
       Put(f, v) \in KeyFiles /\ Put(f, v).now = v /\ Put(f, v).flash = f.flash \cup {v}
  /\ \A f \in ForceFiles, v \in BOOLEAN :
       Put(f, v) \in ForceFiles /\ Put(f, v).now = v
<1>1. \A f \in PinFiles, v \in PinValues :
        Put(f, v) \in PinFiles /\ Put(f, v).now = v /\ Put(f, v).flash = f.flash \cup {v}
  BY DEF Put, PinFiles
<1>2. \A f \in KeyFiles, v \in KeyValues \ {NoKey} :
        Put(f, v) \in KeyFiles /\ Put(f, v).now = v /\ Put(f, v).flash = f.flash \cup {v}
  BY DEF Put, KeyFiles
<1>3. \A f \in ForceFiles, v \in BOOLEAN :
        Put(f, v) \in ForceFiles /\ Put(f, v).now = v
  BY DEF Put, ForceFiles
<1> QED  BY <1>1, <1>2, <1>3

\* Drained to one,
LEMMA DrainedFacts ==
  ASSUME NEW V, NEW W, W \subseteq V, NEW f \in [now : W, flash : SUBSET V]
  PROVE  /\ Drained(f) \in [now : W, flash : SUBSET V]
         /\ Drained(f).now = f.now /\ Drained(f).flash = {f.now}
BY DEF Drained

\* and Renewed, Given, Void and Drained to a token's.
LEMMA TokenFacts ==
  ASSUME NEW f \in TokenFiles
  PROVE  /\ Renewed(f) \in TokenFiles /\ Renewed(f).now = "live"
         /\ "live" \notin Renewed(f).held /\ "live" \notin Renewed(f).void
         /\ Void(f) \in TokenFiles /\ Void(f).now = f.now
         /\ Void(f).held = f.held /\ Void(f).void = f.held
         /\ Given(f) \in TokenFiles /\ Given(f).now = f.now
         /\ Given(f).held = f.held \cup {f.now} /\ Given(f).void = f.void
         /\ Drained(f) \in TokenFiles /\ Drained(f).now = f.now
         /\ Drained(f).held = f.held /\ Drained(f).void = f.void
<1>1. Renewed(f).held \subseteq {"stale"} /\ Renewed(f).void \subseteq {"stale"}
  BY DEF Renewed, Outdated
<1>2. Renewed(f) \in TokenFiles
  <2>1. {IF v = "absent" THEN v ELSE "stale" : v \in f.flash} \cup {"live"}
          \subseteq {"live", "stale", "absent"}
    OBVIOUS
  <2> QED  BY <2>1 DEF Renewed, Outdated, TokenFiles
<1>3. Renewed(f).now = "live"
  BY DEF Renewed
<1>4. Void(f) \in TokenFiles /\ Void(f).now = f.now /\ Void(f).held = f.held /\ Void(f).void = f.held
  BY DEF Void, TokenFiles
<1>5. Given(f) \in TokenFiles /\ Given(f).now = f.now
      /\ Given(f).held = f.held \cup {f.now} /\ Given(f).void = f.void
  BY DEF Given, TokenFiles
<1>6. Drained(f) \in TokenFiles /\ Drained(f).now = f.now
      /\ Drained(f).held = f.held /\ Drained(f).void = f.void
  BY DEF Drained, TokenFiles
<1> QED  BY <1>1, <1>2, <1>3, <1>4, <1>5, <1>6

\* flash_commit_sync in time leaves in flash what the code reads, and nothing else.
LEMMA SyncedFacts ==
  ASSUME NEW d \in FileSystem
  PROVE  /\ Synced(d) \in FileSystem
         /\ Synced(d)["pin"].now = d["pin"].now /\ Synced(d)["pin"].flash = {d["pin"].now}
         /\ Synced(d)["keydev"].now = d["keydev"].now
         /\ Synced(d)["keydev"].flash = {d["keydev"].now}
         /\ Synced(d)["force"].now = d["force"].now
         /\ \A n \in {"token", "ptoken"} :
              /\ Synced(d)[n].now = d[n].now
              /\ Synced(d)[n].held = d[n].held /\ Synced(d)[n].void = d[n].void
<1>1. /\ d["pin"] \in PinFiles /\ d["keydev"] \in KeyFiles /\ d["force"] \in ForceFiles
      /\ d["token"] \in TokenFiles /\ d["ptoken"] \in TokenFiles
  BY DEF FileSystem
<1>2. /\ Drained(d["pin"]) \in PinFiles /\ Drained(d["pin"]).now = d["pin"].now
      /\ Drained(d["pin"]).flash = {d["pin"].now}
  BY <1>1, DrainedFacts DEF PinFiles
<1>3. /\ Drained(d["keydev"]) \in KeyFiles /\ Drained(d["keydev"]).now = d["keydev"].now
      /\ Drained(d["keydev"]).flash = {d["keydev"].now}
  BY <1>1, DrainedFacts DEF KeyFiles
<1>4. Drained(d["force"]) \in ForceFiles /\ Drained(d["force"]).now = d["force"].now
  BY <1>1, DrainedFacts DEF ForceFiles
<1>5. \A n \in {"token", "ptoken"} :
        /\ Drained(d[n]) \in TokenFiles /\ Drained(d[n]).now = d[n].now
        /\ Drained(d[n]).held = d[n].held /\ Drained(d[n]).void = d[n].void
  BY <1>1, TokenFacts
<1>6. /\ DOMAIN d = {"pin", "keydev", "force", "token", "ptoken"}
      /\ Synced(d) = [pin |-> Drained(d["pin"]), keydev |-> Drained(d["keydev"]),
                      force |-> Drained(d["force"]), token |-> Drained(d["token"]),
                      ptoken |-> Drained(d["ptoken"])]
  BY DEF FileSystem, Synced
<1> HIDE DEF PinFiles, KeyFiles, ForceFiles, TokenFiles
<1>7. Synced(d) \in FileSystem
  BY <1>2, <1>3, <1>4, <1>5, <1>6 DEF FileSystem
<1>8. /\ Synced(d)["pin"] = Drained(d["pin"]) /\ Synced(d)["keydev"] = Drained(d["keydev"])
      /\ Synced(d)["force"] = Drained(d["force"]) /\ Synced(d)["token"] = Drained(d["token"])
      /\ Synced(d)["ptoken"] = Drained(d["ptoken"])
  BY <1>6
<1> QED  BY <1>2, <1>3, <1>4, <1>5, <1>7, <1>8

-----------------------------------------------------------------------------
(* The files a command leaves. *)

\* The retry is spent in the file, with the PIN and the marker as they were.
LEMMA SpentFacts ==
  ASSUME ClientPinAssumption, fs \in FileSystem, pinNow.count > 0
  PROVE  /\ Spent \in PinValues /\ Spent.pin = pinNow.pin /\ Spent.count = pinNow.count - 1
         /\ Spent.marked = pinNow.marked /\ Spent.legacy = pinNow.legacy
<1>1. pinNow \in PinValues
  BY DEF pinNow, FileSystem, PinFiles
<1>2. pinNow.count - 1 \in 0..MAX_PIN_RETRIES
  BY <1>1 DEF PinValues, ClientPinAssumption
<1>3. /\ Spent.pin = pinNow.pin /\ Spent.count = pinNow.count - 1
      /\ Spent.marked = pinNow.marked /\ Spent.legacy = pinNow.legacy
  BY <1>1 DEF Spent, PinValues
<1> HIDE DEF pinNow
<1>4. Spent \in PinValues
  BY <1>1, <1>2 DEF Spent, PinValues
<1> QED  BY <1>3, <1>4

\* The PIN file replaced, the other files as they were.
PutPin(d, v) == [d EXCEPT !["pin"] = Put(d["pin"], v)]

LEMMA PinPutFacts ==
  ASSUME NEW d \in FileSystem, NEW v \in PinValues
  PROVE  /\ PutPin(d, v) \in FileSystem
         /\ PutPin(d, v)["pin"].now = v
         /\ PutPin(d, v)["pin"].flash = d["pin"].flash \cup {v}
         /\ \A n \in {"keydev", "force", "token", "ptoken"} : PutPin(d, v)[n] = d[n]
<1> DEFINE f == Put(d["pin"], v)
           e == PutPin(d, v)
<1>1. d["pin"] \in PinFiles
  BY DEF FileSystem
<1>2. f \in PinFiles /\ f.now = v /\ f.flash = d["pin"].flash \cup {v}
  BY <1>1, FilePut
<1>3. e = [d EXCEPT !["pin"] = f]
  BY DEF PutPin
<1> HIDE DEF f, e
<1>4. e \in FileSystem /\ e["pin"] = f /\ \A n \in {"keydev", "force", "token", "ptoken"} : e[n] = d[n]
  BY <1>2, <1>3 DEF FileSystem
<1> QED  BY <1>2, <1>4 DEF e

PutKey(d, v) == [d EXCEPT !["keydev"] = Put(d["keydev"], v)]

\* The same for the file of the device key.
LEMMA KeyPutFacts ==
  ASSUME NEW d \in FileSystem, NEW v \in KeyValues \ {NoKey}
  PROVE  /\ PutKey(d, v) \in FileSystem
         /\ PutKey(d, v)["keydev"].now = v
         /\ PutKey(d, v)["keydev"].flash = d["keydev"].flash \cup {v}
         /\ \A n \in {"pin", "force", "token", "ptoken"} : PutKey(d, v)[n] = d[n]
<1> DEFINE f == Put(d["keydev"], v)
           e == PutKey(d, v)
<1>1. d["keydev"] \in KeyFiles
  BY DEF FileSystem
<1>2. f \in KeyFiles /\ f.now = v /\ f.flash = d["keydev"].flash \cup {v}
  BY <1>1, FilePut
<1>3. e = [d EXCEPT !["keydev"] = f]
  BY DEF PutKey
<1> HIDE DEF f, e
<1>4. e \in FileSystem /\ e["keydev"] = f /\ \A n \in {"pin", "force", "token", "ptoken"} : e[n] = d[n]
  BY <1>2, <1>3 DEF FileSystem
<1> QED  BY <1>2, <1>4 DEF e

\* Tokens, as far as the properties tell them apart.
SameToken(f, g) == f.now = g.now /\ f.held = g.held /\ f.void = g.void
SameTokens(d, e) == SameToken(d["token"], e["token"]) /\ SameToken(d["ptoken"], e["ptoken"])

\* The spent retry is all that flash may hold of the PIN file.
LEMMA SpentFilesFacts ==
  ASSUME ClientPinAssumption, fs \in FileSystem, pinNow.count > 0
  PROVE  /\ SpentFiles \in FileSystem
         /\ SpentFiles["pin"].now = Spent /\ SpentFiles["pin"].flash = {Spent}
         /\ SpentFiles["keydev"].now = fs["keydev"].now
         /\ SpentFiles["keydev"].flash = {fs["keydev"].now}
         /\ SpentFiles["force"].now = fs["force"].now
         /\ SameTokens(SpentFiles, fs)
<1> DEFINE d == PutPin(fs, Spent)
<1>1. Spent \in PinValues
  BY SpentFacts
<1>2. /\ d \in FileSystem /\ d["pin"].now = Spent
      /\ \A n \in {"keydev", "force", "token", "ptoken"} : d[n] = fs[n]
  BY <1>1, PinPutFacts
<1>3. SpentFiles = Synced(d)
  BY DEF SpentFiles, PutPin
<1> HIDE DEF d
<1> QED  BY <1>2, <1>3, SyncedFacts DEF SameTokens, SameToken

\* A right PIN: the counter is full; the key is wrapped under it, with another form of the
\* key still in flash, or it was so before and nothing else is in flash.
LEMMA ProvenFilesFacts ==
  ASSUME ClientPinAssumption, fs \in FileSystem, pinNow.count > 0, NEW p \in Pins
  PROVE  /\ ProvenFiles(p) \in FileSystem
         /\ ProvenFiles(p)["pin"].now = Fresh(p)
         /\ ProvenFiles(p)["pin"].flash = {Spent, Fresh(p)}
         /\ ProvenFiles(p)["keydev"].now \in ProvenFiles(p)["keydev"].flash
         /\ \/ /\ ProvenFiles(p)["keydev"].now = Wrapped("derived", p)
               /\ Plain \in ProvenFiles(p)["keydev"].flash
            \/ /\ ~pinNow.legacy
               /\ ProvenFiles(p)["keydev"].now = fs["keydev"].now
               /\ ProvenFiles(p)["keydev"].now # Plain
         /\ ProvenFiles(p)["force"].now = fs["force"].now
         /\ SameTokens(ProvenFiles(p), fs)
<1> DEFINE s == SpentFiles
           W == Wrapped("derived", p)
           u == Upgraded(s)
           k == check_keydev_encrypted(u, W)
<1>1. /\ s \in FileSystem /\ s["pin"].flash = {Spent} /\ s["keydev"].now = fs["keydev"].now
      /\ s["keydev"].flash = {fs["keydev"].now} /\ s["force"].now = fs["force"].now
      /\ SameTokens(s, fs)
  BY SpentFilesFacts
<1>2. W \in KeyValues \ {NoKey} /\ Plain \in KeyValues \ {NoKey} /\ W # Plain
  BY KeyFacts
<1>3. Fresh(p) \in PinValues
  BY PinFacts
<1>4. /\ u \in FileSystem /\ \A n \in {"pin", "force", "token", "ptoken"} : u[n] = s[n]
      /\ u["keydev"].now \in u["keydev"].flash
      /\ u["keydev"].now = Plain \/ (~pinNow.legacy /\ u["keydev"].now = fs["keydev"].now)
  <2>1. CASE pinNow.legacy
    <3>1. u = PutKey(s, Plain)
      BY <2>1 DEF Upgraded, encrypt_keydev_f1, PutKey
    <3> HIDE DEF s
    <3> QED  BY <3>1, <1>1, <1>2, KeyPutFacts
  <2>2. CASE ~pinNow.legacy
    <3>1. u = s
      BY <2>2 DEF Upgraded
    <3> HIDE DEF s, u
    <3> QED  BY <3>1, <2>2, <1>1
  <2> QED  BY <2>1, <2>2
<1>5. /\ k \in FileSystem /\ \A n \in {"pin", "force", "token", "ptoken"} : k[n] = s[n]
      /\ k["keydev"].now \in k["keydev"].flash
      /\ \/ k["keydev"].now = W /\ Plain \in k["keydev"].flash
         \/ ~pinNow.legacy /\ k["keydev"].now = fs["keydev"].now /\ k["keydev"].now # Plain
  <2>1. CASE u["keydev"].now = Plain
    <3>1. k = PutKey(u, W)
      BY <2>1 DEF check_keydev_encrypted, PutKey
    <3> HIDE DEF u, s, W, k
    <3> QED  BY <3>1, <2>1, <1>2, <1>4, KeyPutFacts
  <2>2. CASE u["keydev"].now # Plain
    <3>1. k = u
      BY <2>2 DEF check_keydev_encrypted
    <3> HIDE DEF u, s, k
    <3> QED  BY <3>1, <2>2, <1>4
  <2> QED  BY <2>1, <2>2
<1>6. ProvenFiles(p) = PutPin(k, Fresh(p))
  BY DEF ProvenFiles, PutPin
<1> HIDE DEF s, u, k
<1> QED  BY <1>1, <1>3, <1>5, <1>6, PinPutFacts DEF SameTokens, SameToken, W

\* The token in f is new: no platform holds it, and none that one holds is it.
NewToken(f) == f.now = "live" /\ "live" \notin f.held /\ "live" \notin f.void

\* A renewed token is new, voided or not; given away it is live and not void.
LEMMA NewTokenFacts ==
  ASSUME NEW f \in TokenFiles
  PROVE  /\ Void(Renewed(f)) \in TokenFiles /\ NewToken(Void(Renewed(f)))
         /\ Renewed(f) \in TokenFiles /\ NewToken(Renewed(f))
         /\ Given(Renewed(f)) \in TokenFiles
         /\ Given(Renewed(f)).now = "live" /\ "live" \notin Given(Renewed(f)).void
<1>1. Renewed(f) \in TokenFiles /\ Renewed(f).now = "live"
      /\ "live" \notin Renewed(f).held /\ "live" \notin Renewed(f).void
  BY TokenFacts
<1> DEFINE g == Renewed(f)
<1> HIDE DEF g
<1>2. g \in TokenFiles
  BY <1>1 DEF g
<1>3. /\ Void(g) \in TokenFiles /\ Void(g).now = g.now /\ Void(g).held = g.held
      /\ Void(g).void = g.held
      /\ Given(g) \in TokenFiles /\ Given(g).now = g.now /\ Given(g).void = g.void
  BY <1>2, TokenFacts
<1> QED  BY <1>1, <1>3 DEF g, NewToken

\* The key wrapped under another PIN, before the PIN file says so.
LEMMA RewrappedFacts ==
  ASSUME ClientPinAssumption, fs \in FileSystem, pinNow.count > 0, NEW p \in Pins, NEW n \in Pins
  PROVE  /\ Rewrapped(p, n) \in FileSystem
         /\ Rewrapped(p, n)["pin"].now = Fresh(p)
         /\ Rewrapped(p, n)["pin"].flash = {Spent, Fresh(p)}
         /\ Rewrapped(p, n)["keydev"].now = Wrapped("derived", n)
         /\ {Plain, Wrapped("derived", n)} \subseteq Rewrapped(p, n)["keydev"].flash
         /\ SameTokens(Rewrapped(p, n), fs)
<1> DEFINE d == ProvenFiles(p)
           e == PutKey(d, Plain)
           W == Wrapped("derived", n)
<1>1. /\ d \in FileSystem /\ d["pin"].now = Fresh(p) /\ d["pin"].flash = {Spent, Fresh(p)}
      /\ SameTokens(d, fs)
  BY ProvenFilesFacts
<1>2. W \in KeyValues \ {NoKey} /\ Plain \in KeyValues \ {NoKey}
  BY KeyFacts
<1>3. Rewrapped(p, n) = check_keydev_encrypted(e, W)
  BY DEF Rewrapped, encrypt_keydev_f1, PutKey
<1> HIDE DEF d, W
<1>4. /\ e \in FileSystem /\ e["keydev"].now = Plain /\ Plain \in e["keydev"].flash
      /\ \A m \in {"pin", "force", "token", "ptoken"} : e[m] = d[m]
  BY <1>1, <1>2, KeyPutFacts
<1> HIDE DEF e
<1>5. Rewrapped(p, n) = PutKey(e, W)
  BY <1>3, <1>4 DEF check_keydev_encrypted, PutKey
<1>6. /\ PutKey(e, W) \in FileSystem /\ PutKey(e, W)["keydev"].now = W
      /\ {Plain, W} \subseteq PutKey(e, W)["keydev"].flash
      /\ \A m \in {"pin", "force", "token", "ptoken"} : PutKey(e, W)[m] = d[m]
  BY <1>2, <1>4, KeyPutFacts
<1> QED  BY <1>1, <1>5, <1>6 DEF SameTokens, SameToken, W

\* After a change of the PIN.
LEMMA ChangedFacts ==
  ASSUME ClientPinAssumption, fs \in FileSystem, pinNow.count > 0, NEW p \in Pins, NEW n \in Pins
  PROVE  LET d == VoidTokens(ChangedFiles(p, n)) IN
         /\ d \in FileSystem
         /\ d["pin"].now = Fresh(n) /\ d["pin"].flash = {Spent, Fresh(p), Fresh(n)}
         /\ d["keydev"].now = Wrapped("derived", n)
         /\ {Plain, Wrapped("derived", n)} \subseteq d["keydev"].flash
         /\ NewToken(d["token"]) /\ NewToken(d["ptoken"])
<1> DEFINE d == VoidTokens(ChangedFiles(p, n))
           r == Rewrapped(p, n)
           P == Put(r["pin"], Fresh(n))
           F == Put(r["force"], FALSE)
           T == Void(Renewed(r["token"]))
           U == Void(Renewed(r["ptoken"]))
<1>1. /\ r \in FileSystem /\ r["pin"].flash = {Spent, Fresh(p)}
      /\ r["keydev"].now = Wrapped("derived", n)
      /\ {Plain, Wrapped("derived", n)} \subseteq r["keydev"].flash
  BY RewrappedFacts
<1>2. r = [pin |-> r["pin"], keydev |-> r["keydev"], force |-> r["force"],
           token |-> r["token"], ptoken |-> r["ptoken"]]
  BY <1>1 DEF FileSystem
<1> HIDE DEF r
<1>3. d = [pin |-> P, keydev |-> r["keydev"], force |-> F, token |-> T, ptoken |-> U]
  <2> DEFINE c == ChangedFiles(p, n)
  <2>1. c = [r EXCEPT !["pin"] = P, !["force"] = F, !["token"] = Renewed(r["token"]),
                      !["ptoken"] = Renewed(r["ptoken"])]
    BY DEF ChangedFiles, r
  <2> HIDE DEF P, F
  <2>2. c = [pin |-> P, keydev |-> r["keydev"], force |-> F, token |-> Renewed(r["token"]),
             ptoken |-> Renewed(r["ptoken"])]
    BY <1>2, <2>1
  <2> HIDE DEF c
  <2> QED  BY <2>2 DEF VoidTokens, c
<1>4. /\ r["pin"] \in PinFiles /\ r["keydev"] \in KeyFiles /\ r["force"] \in ForceFiles
      /\ r["token"] \in TokenFiles /\ r["ptoken"] \in TokenFiles
  BY <1>1 DEF FileSystem
<1>5. P \in PinFiles /\ P.now = Fresh(n) /\ P.flash = {Spent, Fresh(p), Fresh(n)}
  <2>1. Fresh(n) \in PinValues
    BY PinFacts
  <2>2. P \in PinFiles /\ P.now = Fresh(n) /\ P.flash = r["pin"].flash \cup {Fresh(n)}
    BY <2>1, <1>4, FilePut
  <2> HIDE DEF P
  <2> QED  BY <2>2, <1>1
<1>6. F \in ForceFiles
  BY <1>4, FilePut
<1>7. T \in TokenFiles /\ NewToken(T) /\ U \in TokenFiles /\ NewToken(U)
  BY <1>4, NewTokenFacts
<1> HIDE DEF d, P, F, T, U
<1>8. d \in FileSystem
  BY <1>3, <1>4, <1>5, <1>6, <1>7 DEF FileSystem
<1>9. d["pin"] = P /\ d["keydev"] = r["keydev"] /\ d["token"] = T /\ d["ptoken"] = U
  BY <1>3
<1> QED  BY <1>1, <1>5, <1>7, <1>8, <1>9 DEF d

\* After a wrong PIN, short of the marker.
LEMMA WrongFacts ==
  ASSUME ClientPinAssumption, fs \in FileSystem, pinNow.count > 0
  PROVE  LET d == VoidToken(WithNewToken(SpentFiles)) IN
         /\ d \in FileSystem
         /\ d["pin"].now = Spent /\ d["pin"].flash = {Spent}
         /\ d["keydev"].now = fs["keydev"].now /\ d["keydev"].flash = {fs["keydev"].now}
         /\ NewToken(d["token"]) /\ SameToken(d["ptoken"], fs["ptoken"])
<1> DEFINE d == VoidToken(WithNewToken(SpentFiles))
           s == SpentFiles
           T == Void(Renewed(s["token"]))
<1>1. /\ s \in FileSystem /\ s["pin"].now = Spent /\ s["pin"].flash = {Spent}
      /\ s["keydev"].now = fs["keydev"].now /\ s["keydev"].flash = {fs["keydev"].now}
      /\ SameToken(s["ptoken"], fs["ptoken"])
  BY SpentFilesFacts DEF SameTokens
<1> HIDE DEF s
<1>2. /\ s["token"] \in TokenFiles
      /\ s = [pin |-> s["pin"], keydev |-> s["keydev"], force |-> s["force"],
              token |-> s["token"], ptoken |-> s["ptoken"]]
  BY <1>1 DEF FileSystem
<1>3. d = [s EXCEPT !["token"] = T]
  BY <1>2 DEF VoidToken, WithNewToken, s
<1>4. T \in TokenFiles /\ NewToken(T)
  BY <1>2, NewTokenFacts
<1> HIDE DEF d, T
<1>5. /\ d \in FileSystem /\ d["pin"] = s["pin"] /\ d["keydev"] = s["keydev"]
      /\ d["token"] = T /\ d["ptoken"] = s["ptoken"]
  BY <1>1, <1>3, <1>4 DEF FileSystem
<1> QED  BY <1>1, <1>4, <1>5 DEF d

\* The marker goes into the PIN file and nowhere else.
LEMMA MarkedFacts ==
  ASSUME NEW d \in FileSystem
  PROVE  /\ Marked(d) \in FileSystem
         /\ Marked(d)["pin"].now.pin = d["pin"].now.pin
         /\ Marked(d)["pin"].now.count = d["pin"].now.count
         /\ Marked(d)["pin"].now.marked
         /\ Marked(d)["pin"].now.legacy = d["pin"].now.legacy
         /\ Marked(d)["pin"].flash = d["pin"].flash \cup {Marked(d)["pin"].now}
         /\ \A n \in {"keydev", "force", "token", "ptoken"} : Marked(d)[n] = d[n]
<1> DEFINE v == d["pin"].now
           m == [v EXCEPT !.marked = TRUE]
<1>1. v \in PinValues
  BY DEF FileSystem, PinFiles
<1> HIDE DEF v
<1>2. m \in PinValues /\ m.pin = v.pin /\ m.count = v.count /\ m.legacy = v.legacy
  BY <1>1 DEF PinValues
<1>3. m.marked
  BY <1>1 DEF PinValues
<1> HIDE DEF m
<1>4. Marked(d) = PutPin(d, m)
  BY DEF Marked, PutPin, m, v
<1> QED  BY <1>2, <1>3, <1>4, PinPutFacts DEF v

\* After a first PIN: an open key is wrapped under it.
LEMMA SetFacts ==
  ASSUME ClientPinAssumption, fs \in FileSystem, NEW n \in Pins
  PROVE  LET d == check_keydev_encrypted([fs EXCEPT !["pin"] = Put(@, Fresh(n))],
                                         Wrapped("derived", n)) IN
         /\ d \in FileSystem
         /\ d["pin"].now = Fresh(n) /\ d["pin"].flash = fs["pin"].flash \cup {Fresh(n)}
         /\ IF fs["keydev"].now = Plain
              THEN /\ d["keydev"].now = Wrapped("derived", n)
                   /\ d["keydev"].flash = fs["keydev"].flash \cup {Wrapped("derived", n)}
              ELSE d["keydev"] = fs["keydev"]
         /\ SameTokens(d, fs)
<1> DEFINE c == PutPin(fs, Fresh(n))
           W == Wrapped("derived", n)
           d == check_keydev_encrypted(c, W)
<1>1. Fresh(n) \in PinValues /\ W \in KeyValues \ {NoKey}
  BY PinFacts, KeyFacts
<1>2. /\ c \in FileSystem /\ c["pin"].now = Fresh(n)
      /\ c["pin"].flash = fs["pin"].flash \cup {Fresh(n)}
      /\ \A m \in {"keydev", "force", "token", "ptoken"} : c[m] = fs[m]
  BY <1>1, PinPutFacts
<1> SUFFICES /\ d \in FileSystem
             /\ d["pin"] = c["pin"] /\ d["token"] = c["token"] /\ d["ptoken"] = c["ptoken"]
             /\ IF c["keydev"].now = Plain
                  THEN d["keydev"].now = W /\ d["keydev"].flash = c["keydev"].flash \cup {W}
                  ELSE d["keydev"] = c["keydev"]
  BY <1>2 DEF PutPin, SameTokens, SameToken
<1> HIDE DEF c, W
<1>3. CASE c["keydev"].now = Plain
  <2>1. d = PutKey(c, W)
    BY <1>3 DEF check_keydev_encrypted, PutKey
  <2> HIDE DEF d
  <2> QED  BY <2>1, <1>1, <1>2, <1>3, KeyPutFacts
<1>4. CASE c["keydev"].now # Plain
  BY <1>2, <1>4 DEF check_keydev_encrypted
<1> QED  BY <1>3, <1>4

\* After authenticatorConfig ordered or lifted a change of the PIN.
LEMMA ForcedFacts ==
  ASSUME fs \in FileSystem, NEW due \in BOOLEAN
  PROVE  LET d == VoidTokens(ForcedFiles(due)) IN
         /\ d \in FileSystem
         /\ d["pin"] = fs["pin"] /\ d["keydev"] = fs["keydev"]
         /\ NewToken(d["token"]) /\ NewToken(d["ptoken"])
<1> DEFINE d == VoidTokens(ForcedFiles(due))
           F == Put(fs["force"], due)
           T == Void(Renewed(fs["token"]))
           U == Void(Renewed(fs["ptoken"]))
<1>1. /\ fs["pin"] \in PinFiles /\ fs["keydev"] \in KeyFiles /\ fs["force"] \in ForceFiles
      /\ fs["token"] \in TokenFiles /\ fs["ptoken"] \in TokenFiles
      /\ fs = [pin |-> fs["pin"], keydev |-> fs["keydev"], force |-> fs["force"],
               token |-> fs["token"], ptoken |-> fs["ptoken"]]
  BY DEF FileSystem
<1>2. d = [pin |-> fs["pin"], keydev |-> fs["keydev"], force |-> F, token |-> T, ptoken |-> U]
  <2> DEFINE c == ForcedFiles(due)
  <2>1. c = [fs EXCEPT !["force"] = F, !["token"] = Renewed(fs["token"]),
                       !["ptoken"] = Renewed(fs["ptoken"])]
    BY DEF ForcedFiles
  <2> HIDE DEF F
  <2>2. c = [pin |-> fs["pin"], keydev |-> fs["keydev"], force |-> F,
             token |-> Renewed(fs["token"]), ptoken |-> Renewed(fs["ptoken"])]
    BY <1>1, <2>1
  <2> HIDE DEF c
  <2> QED  BY <2>2 DEF VoidTokens, c
<1>3. F \in ForceFiles
  BY <1>1, FilePut
<1>4. T \in TokenFiles /\ NewToken(T) /\ U \in TokenFiles /\ NewToken(U)
  BY <1>1, NewTokenFacts
<1> HIDE DEF d, F, T, U
<1>5. d \in FileSystem
  BY <1>1, <1>2, <1>3, <1>4 DEF FileSystem
<1>6. d["pin"] = fs["pin"] /\ d["keydev"] = fs["keydev"] /\ d["token"] = T /\ d["ptoken"] = U
  BY <1>2
<1> QED  BY <1>4, <1>5, <1>6 DEF d

\* The order to change the PIN lifted.
LEMMA ForcePutFacts ==
  ASSUME fs \in FileSystem
  PROVE  LET d == [fs EXCEPT !["force"] = Put(@, FALSE)] IN
         /\ d \in FileSystem
         /\ \A n \in {"pin", "keydev", "token", "ptoken"} : d[n] = fs[n]
<1> DEFINE F == Put(fs["force"], FALSE)
<1>1. fs["force"] \in ForceFiles
  BY DEF FileSystem
<1>2. F \in ForceFiles
  BY <1>1, FilePut
<1> HIDE DEF F
<1>3. /\ [fs EXCEPT !["force"] = F] \in FileSystem
      /\ \A n \in {"pin", "keydev", "token", "ptoken"} : [fs EXCEPT !["force"] = F][n] = fs[n]
  BY <1>2 DEF FileSystem
<1> QED  BY <1>3 DEF F

\* A token file cleared and filled again.
LEMMA ClearedTokenFacts ==
  ASSUME NEW f \in TokenFiles
  PROVE  LET g == Void(Renewed(Put(f, "absent"))) IN g \in TokenFiles /\ NewToken(g)
<1> DEFINE a == Put(f, "absent")
<1>1. /\ a.held = f.held /\ a.void = f.void /\ a.flash = f.flash \cup {"absent"}
  BY DEF Put, TokenFiles
<1> HIDE DEF a
<1>2. Renewed(a) \in TokenFiles /\ NewToken(Renewed(a))
  <2>1. {IF v = "absent" THEN v ELSE "stale" : v \in a.flash} \cup {"live"}
          \subseteq {"live", "stale", "absent"}
    OBVIOUS
  <2> QED  BY <1>1, <2>1 DEF Renewed, Outdated, TokenFiles, NewToken
<1> DEFINE r == Renewed(a)
<1> HIDE DEF r
<1>3. r \in TokenFiles /\ NewToken(r)
  BY <1>2 DEF r
<1>4. /\ Void(r) \in TokenFiles /\ Void(r).now = r.now /\ Void(r).held = r.held
      /\ Void(r).void = r.held
  BY <1>3, TokenFacts
<1> QED  BY <1>3, <1>4 DEF NewToken, r, a

\* The key put back without a wrapping.
LEMMA PlainPut ==
  ASSUME ClientPinAssumption, NEW g \in [now : KeyValues, flash : SUBSET KeyValues]
  PROVE  /\ Put(g, Plain) \in KeyFiles /\ Put(g, Plain).now = Plain
         /\ Put(g, Plain).flash = g.flash \cup {Plain}
<1>1. Plain \in KeyValues \ {NoKey}
  BY NoPinKey DEF KeyValues
<1> QED  BY <1>1 DEF Put, KeyFiles

\* The key's file cleared and filled again.
LEMMA ClearedKeyFacts ==
  ASSUME ClientPinAssumption, NEW f \in KeyFiles
  PROVE  LET k == Put(Put(f, NoKey), Plain)
         IN  k \in KeyFiles /\ k.now = Plain /\ {NoKey, Plain} \subseteq k.flash
<1> DEFINE g == Put(f, NoKey)
<1>1. g \in [now : KeyValues, flash : SUBSET KeyValues] /\ g.flash = f.flash \cup {NoKey}
  <2>1. NoKey \in KeyValues
    BY DEF KeyValues
  <2> QED  BY <2>1 DEF Put, KeyFiles
<1> HIDE DEF g
<1>2. Put(g, Plain) \in KeyFiles /\ Put(g, Plain).now = Plain
      /\ Put(g, Plain).flash = g.flash \cup {Plain}
  BY <1>1, PlainPut
<1> QED  BY <1>1, <1>2 DEF g

\* After authenticatorReset: no PIN, an open key, and flash that may still hold no key.
LEMMA ResetFacts ==
  ASSUME ClientPinAssumption, fs \in FileSystem, cbor_reset
  PROVE  /\ fs' \in FileSystem
         /\ fs'["pin"].now = Unset /\ fs'["pin"].flash = fs["pin"].flash \cup {Unset}
         /\ fs'["keydev"].now = Plain /\ {NoKey, Plain} \subseteq fs'["keydev"].flash
         /\ NewToken(fs'["token"]) /\ NewToken(fs'["ptoken"])
<1> DEFINE P == Put(fs["pin"], Unset)
           K == Put(Put(fs["keydev"], NoKey), Plain)
           F == Put(fs["force"], FALSE)
           T == Void(Renewed(Put(fs["token"], "absent")))
           U == Void(Renewed(Put(fs["ptoken"], "absent")))
<1>1. /\ fs["pin"] \in PinFiles /\ fs["keydev"] \in KeyFiles /\ fs["force"] \in ForceFiles
      /\ fs["token"] \in TokenFiles /\ fs["ptoken"] \in TokenFiles
      /\ fs = [pin |-> fs["pin"], keydev |-> fs["keydev"], force |-> fs["force"],
               token |-> fs["token"], ptoken |-> fs["ptoken"]]
  BY DEF FileSystem
<1>2. fs' = [pin |-> P, keydev |-> K, force |-> F, token |-> T, ptoken |-> U]
  <2> DEFINE V == Renewed(Put(fs["token"], "absent"))
             X == Renewed(Put(fs["ptoken"], "absent"))
             c == [fs EXCEPT !["pin"] = P, !["force"] = F, !["keydev"] = K,
                             !["token"] = V, !["ptoken"] = X]
  <2>1. fs' = VoidTokens(c)
    BY DEF cbor_reset
  <2> HIDE DEF P, F, K, T, U, V, X
  <2>2. c = [pin |-> P, keydev |-> K, force |-> F, token |-> V, ptoken |-> X]
    <3>1. DOMAIN fs = {"pin", "keydev", "force", "token", "ptoken"}
      BY DEF FileSystem
    <3>2. c = [n \in {"pin", "keydev", "force", "token", "ptoken"} |->
                 CASE n = "pin" -> P [] n = "keydev" -> K [] n = "force" -> F
                   [] n = "token" -> V [] n = "ptoken" -> X]
      BY <3>1
    <3> HIDE DEF c
    <3> QED  BY <3>2
  <2> HIDE DEF c
  <2> QED  BY <2>1, <2>2 DEF VoidTokens, T, U, V, X
<1>3. P \in PinFiles /\ P.now = Unset /\ P.flash = fs["pin"].flash \cup {Unset}
  BY <1>1, FilePut, UnsetFacts
<1>4. F \in ForceFiles
  BY <1>1, FilePut
<1>5. K \in KeyFiles /\ K.now = Plain /\ {NoKey, Plain} \subseteq K.flash
  BY <1>1, ClearedKeyFacts
<1>6. T \in TokenFiles /\ NewToken(T) /\ U \in TokenFiles /\ NewToken(U)
  BY <1>1, ClearedTokenFacts
<1> HIDE DEF P, K, F, T, U
<1>7. fs' \in FileSystem
  BY <1>2, <1>3, <1>4, <1>5, <1>6 DEF FileSystem
<1>8. fs'["pin"] = P /\ fs'["keydev"] = K /\ fs'["token"] = T /\ fs'["ptoken"] = U
  BY <1>2
<1> QED  BY <1>3, <1>5, <1>6, <1>7, <1>8

-----------------------------------------------------------------------------
(* The steps that leave the PIN, its counters and the key alone. *)

\* The state that RetriesOK, MismatchOK and CreditOK speak of, and that KeyOK does.
pinVars == <<fs["pin"], needs_power_cycle, new_pin_mismatches, guesses, credit>>
keyVars == <<fs["pin"], fs["keydev"], session_pin, torn>>

\* These parts follow the PIN file and the counters alone,
LEMMA PinFrame ==
  ASSUME RetriesOK, MismatchOK, CreditOK, UNCHANGED pinVars
  PROVE  RetriesOK' /\ MismatchOK' /\ CreditOK'
BY DEF RetriesOK, RetriesOnRecord, MismatchOK, CreditOK, pinVars, pinNow, PinSet

\* and this one the key, the PIN file and the session.
LEMMA KeyFrame ==
  ASSUME KeyOK, UNCHANGED keyVars, TokenStands' => TokenStands \/ Opens(fs, session_pin)
  PROVE  KeyOK'
BY DEF KeyOK, KeyMatches, Pending, Opens, keyVars, pinNow

\* A new token, before any platform holds it.
LEMMA getKeyAgreementStep ==
  ASSUME ClientPinAssumption, PinInv, getKeyAgreement
  PROVE  PinInv'
<1> DEFINE T == Renewed(fs["token"])
<1>1. TypesOK
  BY DEF PinInv
<1>2. T \in TokenFiles /\ NewToken(T)
  BY <1>1, NewTokenFacts DEF TypesOK, FileSystem
<1>3. fs' = [fs EXCEPT !["token"] = T]
  BY DEF getKeyAgreement, WithNewToken
<1> HIDE DEF T
<1>4. /\ fs' \in FileSystem /\ fs'["token"] = T
      /\ \A n \in {"pin", "keydev", "force", "ptoken"} : fs'[n] = fs[n]
  BY <1>1, <1>2, <1>3 DEF TypesOK, FileSystem
<1>5. /\ paut' \in Grants /\ paut'.permissions = {} /\ paut'.in_use = paut.in_use
  BY <1>1 DEF getKeyAgreement, TypesOK, Grants
<1>6. NoProof \in Proofs
  BY DEF NoProof, Proofs
<1>7. TypesOK'
  BY <1>1, <1>4, <1>5, <1>6 DEF TypesOK, getKeyAgreement
<1>8. RetriesOK' /\ MismatchOK' /\ CreditOK'
  BY <1>4, PinFrame DEF PinInv, getKeyAgreement, pinVars
<1>9. KeyOK'
  BY <1>4, <1>5, KeyFrame DEF PinInv, getKeyAgreement, keyVars, TokenStands
<1>10. GrantOK'
  BY <1>2, <1>4 DEF GrantOK, Usable, NewToken
<1>11. VoidOK'
  BY <1>2, <1>4 DEF PinInv, VoidOK, NewToken, getKeyAgreement
<1> QED  BY <1>7, <1>8, <1>9, <1>10, <1>11 DEF PinInv

\* Types of the empty grant and proof.
LEMMA NoGrantFacts == NoGrant \in Grants /\ NoProof \in Proofs
BY DEF NoGrant, Grants, NoProof, Proofs

\* The token's time is over.
LEMMA tickStep ==
  ASSUME ClientPinAssumption, PinInv, pin_uv_auth_token_tick
  PROVE  PinInv'
<1>1. TypesOK'
  BY NoGrantFacts DEF PinInv, TypesOK, pin_uv_auth_token_tick, filesAndLocks, Stopped
<1>2. RetriesOK' /\ MismatchOK' /\ CreditOK'
  BY PinFrame DEF PinInv, pin_uv_auth_token_tick, filesAndLocks, pinVars
<1>3. ~TokenStands'
  BY DEF pin_uv_auth_token_tick, Stopped, NoGrant, TokenStands
<1>4. KeyOK'
  BY <1>3, KeyFrame DEF PinInv, pin_uv_auth_token_tick, filesAndLocks, keyVars
<1>5. GrantOK'
  BY <1>3 DEF GrantOK, Usable
<1>6. VoidOK'
  BY DEF PinInv, VoidOK, pin_uv_auth_token_tick, filesAndLocks
<1> QED  BY <1>1, <1>2, <1>4, <1>5, <1>6 DEF PinInv

\* init_fido clears the soft lock: the credit restarts from what the marker allows.
LEMMA initFidoStep ==
  ASSUME ClientPinAssumption, PinInv, init_fido
  PROVE  PinInv'
<1> USE DEF init_fido
<1>1. TypesOK'
  <2>1. credit' \in Int
    BY DEF NewCredit, ClientPinAssumption
  <2>2. UNCHANGED <<fs, paut, proof>>
    OBVIOUS
  <2> QED  BY <2>1, <2>2 DEF PinInv, TypesOK
<1>2. RetriesOK' /\ MismatchOK'
  BY DEF PinInv, RetriesOK, RetriesOnRecord, MismatchOK, pinNow, PinSet
<1>3. CreditOK'
  BY DEF PinInv, TypesOK, CreditOK, NewCredit, ClientPinAssumption, pinNow, PinSet
<1>4. KeyOK'
  BY KeyFrame DEF PinInv, keyVars, TokenStands
<1>5. GrantOK' /\ VoidOK'
  BY DEF PinInv, GrantOK, Usable, TokenStands, VoidOK
<1> QED  BY <1>1, <1>2, <1>3, <1>4, <1>5 DEF PinInv

\* An assertion, or none: what it leaves of the grant.
LEMMA UsedFacts ==
  ASSUME paut \in Grants
  PROVE  /\ Used \in Grants /\ Used.rp = paut.rp /\ Used.in_use = paut.in_use
         /\ paut.in_use => Used.permissions = {"lbw"}
         /\ ~paut.in_use => Used = paut
BY DEF Used, Grants, Permissions

\* An assertion without the token leaves it the large blobs.
LEMMA PlainAssertionStep ==
  ASSUME ClientPinAssumption, PinInv, PlainAssertion
  PROVE  PinInv'
<1>1. /\ paut.in_use /\ paut' \in Grants /\ paut'.rp = paut.rp /\ paut'.in_use = paut.in_use
      /\ paut'.permissions = {"lbw"}
  BY UsedFacts DEF PinInv, TypesOK, PlainAssertion
<1>2. TypesOK'
  BY <1>1 DEF PinInv, TypesOK, PlainAssertion, filesAndLocks
<1>3. RetriesOK' /\ MismatchOK' /\ CreditOK'
  BY PinFrame DEF PinInv, PlainAssertion, filesAndLocks, pinVars
<1>4. KeyOK'
  BY <1>1, KeyFrame DEF PinInv, PlainAssertion, filesAndLocks, keyVars, TokenStands
<1>5. GrantOK'
  BY <1>1 DEF PinInv, GrantOK, Usable, TokenStands, PlainAssertion
<1>6. VoidOK'
  BY DEF PinInv, VoidOK, PlainAssertion, filesAndLocks
<1> QED  BY <1>2, <1>3, <1>4, <1>5, <1>6 DEF PinInv

\* An assertion with the token binds it to the RP, and uses it up if the user is present.
LEMMA TokenAssertionStep ==
  ASSUME ClientPinAssumption, PinInv, NEW t, NEW rp \in RPs, NEW permission \in {"mc", "ga"},
         NEW present \in BOOLEAN, TokenAssertion(permission, rp, t, present)
  PROVE  PinInv'
<1> DEFINE u == IF present THEN Used ELSE paut
<1>1. paut \in Grants /\ proof \in Proofs /\ paut.in_use /\ rp # NoRP
  BY DEF PinInv, TypesOK, TokenAssertion, ClientPinAssumption
<1>2. /\ u \in Grants /\ u.in_use /\ u.permissions \in {paut.permissions, {"lbw"}}
      /\ present => u.permissions = {"lbw"}
  BY <1>1, UsedFacts
<1>3. paut' = [u EXCEPT !.rp = rp]
  BY DEF TokenAssertion
<1> HIDE DEF u
<1>4. /\ paut' \in Grants /\ paut'.in_use /\ paut'.rp = rp
      /\ paut'.permissions = u.permissions
  BY <1>2, <1>3 DEF Grants
<1>5. /\ proof' \in Proofs /\ proof'.alive = proof.alive /\ proof'.rp = proof.rp
      /\ proof'.permissions = proof.permissions /\ proof'.rps = proof.rps \cup {rp}
      /\ ~present => proof'.asserted = proof.asserted
  <2> DEFINE n == proof.asserted + (IF present THEN 1 ELSE 0)
             R == proof.rps \cup {rp}
  <2>1. n \in Nat /\ R \in SUBSET RPs
    BY <1>1 DEF Proofs
  <2>2. ~present => n = proof.asserted
    BY <1>1 DEF Proofs
  <2>3. proof' = [proof EXCEPT !.rps = R, !.asserted = n]
    BY DEF TokenAssertion
  <2> HIDE DEF n, R
  <2>4. /\ proof' \in Proofs /\ proof'.alive = proof.alive /\ proof'.rp = proof.rp
        /\ proof'.permissions = proof.permissions /\ proof'.rps = R /\ proof'.asserted = n
    BY <1>1, <2>1, <2>3 DEF Proofs
  <2> QED  BY <2>2, <2>4 DEF R
<1>6. TypesOK'
  BY <1>4, <1>5 DEF PinInv, TypesOK, TokenAssertion, filesAndLocks
<1>7. RetriesOK' /\ MismatchOK' /\ CreditOK'
  BY PinFrame DEF PinInv, TokenAssertion, filesAndLocks, pinVars
<1>8. KeyOK'
  BY <1>1, KeyFrame DEF PinInv, TokenAssertion, filesAndLocks, keyVars, TokenStands
<1>9. GrantOK'
  <2>1. Usable /\ paut.rp \in {NoRP, rp} /\ fs' = fs
    BY <1>1 DEF TokenAssertion, Presents, MayAct, Usable, TokenStands
  <2>2. /\ proof.alive /\ paut.permissions \ {"lbw"} \subseteq proof.permissions
        /\ paut.permissions \ {"lbw"} # {} => proof.asserted = 0
        /\ proof.rp \in {NoRP, rp} /\ proof.rps \subseteq {rp}
    BY <2>1 DEF PinInv, GrantOK
  <2> QED  BY <1>1, <1>2, <1>4, <1>5, <2>2 DEF GrantOK
<1>10. VoidOK'
  BY DEF PinInv, VoidOK, TokenAssertion, filesAndLocks
<1> QED  BY <1>6, <1>7, <1>8, <1>9, <1>10 DEF PinInv

\* The write-back narrows what flash may hold to what the code reads.
LEMMA doFlashStep ==
  ASSUME ClientPinAssumption, PinInv, do_flash
  PROVE  PinInv'
<1>1. fs \in FileSystem /\ fs' = Synced(fs)
  BY DEF PinInv, TypesOK, do_flash
<1>2. /\ fs' \in FileSystem
      /\ fs'["pin"].now = fs["pin"].now /\ fs'["pin"].flash = {fs["pin"].now}
      /\ fs'["keydev"].now = fs["keydev"].now /\ fs'["keydev"].flash = {fs["keydev"].now}
      /\ \A n \in {"token", "ptoken"} :
           /\ fs'[n].now = fs[n].now
           /\ fs'[n].held = fs[n].held /\ fs'[n].void = fs[n].void
  BY <1>1, SyncedFacts
<1>3. UNCHANGED <<paut, ppaut, proof, needs_power_cycle, new_pin_mismatches, hkey_init,
                  session_pin, guesses, credit, torn, revived, timeouts, losses>>
  BY DEF do_flash, filesAndLocks
<1>4. TypesOK'
  BY <1>2, <1>3 DEF PinInv, TypesOK
<1>5. RetriesOK' /\ MismatchOK' /\ CreditOK'
  BY <1>2, <1>3
     DEF PinInv, RetriesOK, RetriesOnRecord, MismatchOK, CreditOK, pinNow, PinSet
<1>6. KeyOK'
  BY <1>2, <1>3 DEF PinInv, KeyOK, KeyMatches, Pending, Opens, pinNow, TokenStands
<1>7. GrantOK' /\ VoidOK'
  BY <1>2, <1>3 DEF PinInv, GrantOK, Usable, TokenStands, VoidOK
<1> QED  BY <1>4, <1>5, <1>6, <1>7 DEF PinInv

\* Neither form of setMinPINLength touches the PIN or the key.
LEMMA setMinPINLengthStep ==
  ASSUME ClientPinAssumption, PinInv, NEW t, setMinPINLength(t)
  PROVE  PinInv'
<1>1. /\ fs' \in FileSystem
      /\ \A n \in {"pin", "keydev", "token", "ptoken"} : fs'[n] = fs[n]
  BY ForcePutFacts DEF PinInv, TypesOK, setMinPINLength
<1>2. UNCHANGED <<paut, ppaut, proof, needs_power_cycle, new_pin_mismatches, hkey_init,
                  session_pin, guesses, credit, torn, revived, timeouts, losses>>
  BY DEF setMinPINLength, filesAndLocks
<1>3. TypesOK'
  BY <1>1, <1>2 DEF PinInv, TypesOK
<1>4. RetriesOK' /\ MismatchOK' /\ CreditOK'
  BY <1>1, <1>2, PinFrame DEF PinInv, pinVars
<1>5. KeyOK'
  BY <1>1, <1>2, KeyFrame DEF PinInv, keyVars, TokenStands
<1>6. GrantOK' /\ VoidOK'
  BY <1>1, <1>2 DEF PinInv, GrantOK, Usable, TokenStands, VoidOK
<1> QED  BY <1>3, <1>4, <1>5, <1>6 DEF PinInv

\* The form that orders a change revokes both tokens.
LEMMA setMinPINLengthForceStep ==
  ASSUME ClientPinAssumption, PinInv, NEW t, NEW due \in BOOLEAN, setMinPINLength_Force(t, due)
  PROVE  PinInv'
<1>1. /\ fs' \in FileSystem /\ fs'["pin"] = fs["pin"] /\ fs'["keydev"] = fs["keydev"]
      /\ NewToken(fs'["token"]) /\ NewToken(fs'["ptoken"])
  BY ForcedFacts DEF PinInv, TypesOK, setMinPINLength_Force
<1>2. UNCHANGED <<needs_power_cycle, new_pin_mismatches, hkey_init,
                  session_pin, guesses, credit, torn, revived, timeouts, losses>>
  BY DEF setMinPINLength_Force
<1>3. paut' \in Grants /\ paut'.permissions = {} /\ paut'.in_use = paut.in_use
  BY DEF setMinPINLength_Force, PinInv, TypesOK, Grants
<1>4. TypesOK'
  BY <1>1, <1>2, <1>3, NoGrantFacts DEF PinInv, TypesOK, setMinPINLength_Force
<1>5. RetriesOK' /\ MismatchOK' /\ CreditOK'
  BY <1>1, <1>2, PinFrame DEF PinInv, pinVars
<1>6. KeyOK'
  BY <1>1, <1>2, <1>3, KeyFrame DEF PinInv, keyVars, TokenStands
<1>7. GrantOK' /\ VoidOK'
  BY <1>1 DEF GrantOK, Usable, VoidOK, NewToken
<1> QED  BY <1>4, <1>5, <1>6, <1>7 DEF PinInv

\* authenticatorReset: the PIN is unset, so the mismatch counter it leaves standing binds nothing.
LEMMA cborResetStep ==
  ASSUME ClientPinAssumption, PinInv, cbor_reset
  PROVE  PinInv'
<1>1. /\ fs' \in FileSystem
      /\ fs'["pin"].now = Unset /\ fs'["pin"].flash = fs["pin"].flash \cup {Unset}
      /\ fs'["keydev"].now = Plain /\ {NoKey, Plain} \subseteq fs'["keydev"].flash
      /\ NewToken(fs'["token"]) /\ NewToken(fs'["ptoken"])
  BY ResetFacts DEF PinInv, TypesOK
<1>2. /\ needs_power_cycle' = FALSE /\ proof' = NoProof /\ guesses' = 0 /\ torn' = FALSE
      /\ credit' = MaxMismatches
      /\ UNCHANGED <<paut, ppaut, new_pin_mismatches, hkey_init, session_pin, revived,
                     timeouts, losses>>
  BY DEF cbor_reset
<1>3. Unset.pin = NoPin
  BY UnsetFacts
<1>4. TypesOK'
  <2>1. credit' \in Int /\ guesses' \in Nat
    BY <1>2 DEF ClientPinAssumption
  <2> QED  BY <1>1, <1>2, <2>1, NoGrantFacts DEF PinInv, TypesOK
<1>5. RetriesOK'
  <2>1. \A v \in fs["pin"].flash : v.count <= MAX_PIN_RETRIES /\ v.count \in Nat
    BY DEF PinInv, TypesOK, FileSystem, PinFiles, PinValues, ClientPinAssumption
  <2> QED  BY <1>1, <1>2, <1>3, <2>1
         DEF RetriesOK, RetriesOnRecord, pinNow, ClientPinAssumption
<1>6. MismatchOK' /\ CreditOK'
  BY <1>1, <1>2, <1>3 DEF PinInv, MismatchOK, CreditOK, pinNow, PinSet, ClientPinAssumption
<1>7. KeyOK'
  <2>1. Plain # NoKey
    BY NoPinKey
  <2>2. Pending(fs["keydev"])'
    BY <1>1, <2>1 DEF Pending
  <2> QED  BY <1>1, <2>2 DEF KeyOK, KeyMatches, Opens
<1>8. GrantOK' /\ VoidOK'
  BY <1>1 DEF GrantOK, Usable, VoidOK, NewToken
<1> QED  BY <1>4, <1>5, <1>6, <1>7, <1>8 DEF PinInv

\* What flash holds of the PIN file is bounded by the counter it started with.
LEMMA FlashCounts ==
  ASSUME ClientPinAssumption, TypesOK
  PROVE  \A v \in fs["pin"].flash : v.count \in Nat /\ v.count <= MAX_PIN_RETRIES
BY DEF TypesOK, FileSystem, PinFiles, PinValues, ClientPinAssumption

\* A first PIN finds the key open, unless power was lost over a re-wrap.
LEMMA setPINStep ==
  ASSUME ClientPinAssumption, PinInv, NEW n \in Pins, setPIN(n)
  PROVE  PinInv'
<1> DEFINE W == Wrapped("derived", n)
<1>1. /\ fs' \in FileSystem
      /\ fs'["pin"].now = Fresh(n) /\ fs'["pin"].flash = fs["pin"].flash \cup {Fresh(n)}
      /\ IF fs["keydev"].now = Plain
           THEN fs'["keydev"].now = W /\ fs'["keydev"].flash = fs["keydev"].flash \cup {W}
           ELSE fs'["keydev"] = fs["keydev"]
      /\ SameTokens(fs', fs)
  BY SetFacts DEF PinInv, TypesOK, setPIN
<1>2. /\ session_pin' = W /\ needs_power_cycle' = FALSE
      /\ new_pin_mismatches' = 0 /\ guesses' = 0 /\ credit' = MaxMismatches
      /\ UNCHANGED <<paut, ppaut, hkey_init, proof, torn, revived, timeouts, losses>>
      /\ pinNow.pin = NoPin
  BY DEF setPIN, PinProven, PinSet
<1>3. Fresh(n).pin = n /\ Fresh(n).count = MAX_PIN_RETRIES /\ Fresh(n).legacy = FALSE
  BY PinFacts
<1>4. W \in KeyValues /\ W # Plain
  BY KeyFacts
<1>5. TypesOK'
  <2>1. credit' \in Int /\ guesses' \in Nat /\ new_pin_mismatches' \in Nat
    BY <1>2 DEF ClientPinAssumption
  <2> QED  BY <1>1, <1>2, <1>4, <2>1 DEF PinInv, TypesOK
<1>6. RetriesOK'
  BY <1>1, <1>2, <1>3, FlashCounts DEF PinInv, RetriesOK, RetriesOnRecord, pinNow, ClientPinAssumption
<1>7. MismatchOK' /\ CreditOK'
  BY <1>1, <1>2, <1>3 DEF MismatchOK, CreditOK, pinNow, PinSet, ClientPinAssumption
<1>8. KeyOK'
  <2>1. ~torn => fs["keydev"].now = Plain
    <3>1. fs["keydev"].now \in KeyValues
      BY DEF PinInv, TypesOK, FileSystem, KeyFiles
    <3> QED  BY <1>2, <3>1, NoPinKey DEF PinInv, KeyOK, KeyMatches
  <2>2. ~torn => Pending(fs["keydev"])'
    BY <1>1, <1>4, <2>1 DEF PinInv, KeyOK, Pending
  <2>3. KeyMatches(pinNow, W)'
    BY <1>1, <1>3 DEF KeyMatches, pinNow
  <2> QED  BY <1>1, <1>2, <2>1, <2>2, <2>3 DEF PinInv, KeyOK, Opens
<1>9. GrantOK' /\ VoidOK'
  BY <1>1, <1>2 DEF PinInv, GrantOK, Usable, TokenStands, VoidOK, SameTokens, SameToken
<1> QED  BY <1>5, <1>6, <1>7, <1>8, <1>9 DEF PinInv

-----------------------------------------------------------------------------
(* The steps that compare a PIN. *)

\* A retry whose commit gives up may or may not be on flash.
LEMMA RetryNotPersistedStep ==
  ASSUME ClientPinAssumption, PinInv, MayCompare, RetryNotPersisted
  PROVE  PinInv'
<1>1. pinNow.count > 0 /\ fs \in FileSystem /\ pinNow \in PinValues
  BY DEF MayCompare, PinInv, TypesOK, FileSystem, PinFiles, pinNow
<1>2. /\ Spent \in PinValues /\ Spent.pin = pinNow.pin /\ Spent.count = pinNow.count - 1
      /\ Spent.marked = pinNow.marked /\ Spent.legacy = pinNow.legacy
  BY <1>1, SpentFacts
<1>3. fs' = PutPin(fs, Spent)
  BY DEF RetryNotPersisted, PutPin
<1>4. /\ fs' \in FileSystem
      /\ fs'["pin"].now = Spent /\ fs'["pin"].flash = fs["pin"].flash \cup {Spent}
      /\ \A n \in {"keydev", "force", "token", "ptoken"} : fs'[n] = fs[n]
  BY <1>1, <1>2, <1>3, PinPutFacts
<1>5. UNCHANGED <<paut, ppaut, needs_power_cycle, new_pin_mismatches, hkey_init, session_pin,
                  guesses, credit, proof, torn, revived, losses>>
  BY DEF RetryNotPersisted
<1>6. timeouts' \in 0..MaxTimeouts
  BY DEF RetryNotPersisted, PinInv, TypesOK, ClientPinAssumption
<1>7. TypesOK'
  BY <1>4, <1>5, <1>6 DEF PinInv, TypesOK
<1>8. pinNow \in fs["pin"].flash /\ pinNow.count \in Nat /\ guesses \in Nat
  BY <1>1 DEF PinInv, RetriesOK, TypesOK, PinValues, ClientPinAssumption
<1>9. RetriesOK'
  BY <1>2, <1>4, <1>5, <1>8
     DEF PinInv, RetriesOK, RetriesOnRecord, pinNow, ClientPinAssumption
<1>10. MismatchOK' /\ CreditOK'
  BY <1>1, <1>2, <1>4, <1>5, <1>8 DEF PinInv, MismatchOK, CreditOK, pinNow, PinSet
<1>11. KeyOK'
  BY <1>2, <1>4, <1>5, <1>8
     DEF PinInv, KeyOK, KeyMatches, Pending, Opens, TokenStands, pinNow
<1>12. GrantOK' /\ VoidOK'
  BY <1>4, <1>5 DEF PinInv, GrantOK, Usable, TokenStands, VoidOK
<1> QED  BY <1>7, <1>9, <1>10, <1>11, <1>12 DEF PinInv

\* The retry is spent and nothing else is gained or lost by it: a right PIN under the soft
\* lock, and a right PIN whose key does not open.
LEMMA SpentStep ==
  ASSUME ClientPinAssumption, PinInv, MayCompare, fs' = SpentFiles,
         session_pin' \in KeyValues, ~torn => session_pin' = session_pin,
         UNCHANGED <<paut, ppaut, needs_power_cycle, new_pin_mismatches, hkey_init,
                     guesses, credit, proof, torn, revived, timeouts, losses>>
  PROVE  PinInv'
<1>1. pinNow.count > 0 /\ fs \in FileSystem /\ pinNow \in PinValues
  BY DEF MayCompare, PinInv, TypesOK, FileSystem, PinFiles, pinNow
<1>2. /\ Spent \in PinValues /\ Spent.pin = pinNow.pin /\ Spent.count = pinNow.count - 1
      /\ Spent.marked = pinNow.marked /\ Spent.legacy = pinNow.legacy
  BY <1>1, SpentFacts
<1>3. /\ fs' \in FileSystem
      /\ fs'["pin"].now = Spent /\ fs'["pin"].flash = {Spent}
      /\ fs'["keydev"].now = fs["keydev"].now /\ fs'["keydev"].flash = {fs["keydev"].now}
      /\ SameTokens(fs', fs)
  BY <1>1, SpentFilesFacts
<1>4. TypesOK'
  BY <1>3 DEF PinInv, TypesOK
<1>5. pinNow \in fs["pin"].flash /\ pinNow.count \in Nat /\ guesses \in Nat
  BY <1>1 DEF PinInv, RetriesOK, TypesOK, PinValues, ClientPinAssumption
<1>6. RetriesOK'
  BY <1>2, <1>3, <1>5 DEF PinInv, RetriesOK, RetriesOnRecord, pinNow, ClientPinAssumption
<1>7. MismatchOK' /\ CreditOK'
  BY <1>1, <1>2, <1>3, <1>5 DEF PinInv, MismatchOK, CreditOK, pinNow, PinSet
<1>8. KeyOK'
  BY <1>2, <1>3 DEF PinInv, KeyOK, KeyMatches, Pending, Opens, TokenStands, pinNow
<1>9. GrantOK' /\ VoidOK'
  BY <1>3 DEF PinInv, GrantOK, Usable, TokenStands, VoidOK, SameTokens, SameToken
<1> QED  BY <1>4, <1>6, <1>7, <1>8, <1>9 DEF PinInv

\* As long as power was not lost over a re-wrap, an old key opens under the PIN on file.
LEMMA UpgradeFailsStep ==
  ASSUME ClientPinAssumption, PinInv, MayCompare, NEW p \in Pins, p = pinNow.pin, UpgradeFails(p)
  PROVE  PinInv'
<1>1. torn
  BY DEF UpgradeFails, UpgradeOpens, Opens, PinInv, KeyOK, KeyMatches
<1>2. Wrapped("multi", p) \in KeyValues
  BY KeyFacts
<1> QED  BY <1>1, <1>2, SpentStep DEF UpgradeFails

\* A right PIN under the soft lock.
LEMMA SoftLockedStep ==
  ASSUME ClientPinAssumption, PinInv, MayCompare, SoftLocked
  PROVE  PinInv'
<1>1. session_pin' \in KeyValues
  BY DEF SoftLocked, PinInv, TypesOK
<1> QED  BY <1>1, SpentStep DEF SoftLocked

\* A right PIN starts the counters afresh, whichever PIN the file then has.
LEMMA ProvenCounters ==
  ASSUME ClientPinAssumption, PinInv, MayCompare, PinProven, NEW p \in Pins, NEW n \in Pins,
         fs'["pin"].now = Fresh(n), fs'["pin"].flash \subseteq {Spent, Fresh(p), Fresh(n)},
         Fresh(n) \in fs'["pin"].flash
  PROVE  RetriesOK' /\ MismatchOK' /\ CreditOK'
<1>1. pinNow.count > 0 /\ fs \in FileSystem
  BY DEF MayCompare, PinInv, TypesOK
<1>2. Spent \in PinValues
  BY <1>1, SpentFacts
<1>3. /\ Fresh(n).pin = n /\ Fresh(n).count = MAX_PIN_RETRIES
      /\ Fresh(n) \in PinValues /\ Fresh(p) \in PinValues
  BY PinFacts
<1>4. \A v \in fs'["pin"].flash : v.count \in Nat /\ v.count <= MAX_PIN_RETRIES
  BY <1>2, <1>3 DEF PinValues, ClientPinAssumption
<1>5. RetriesOK'
  BY <1>4 DEF RetriesOK, RetriesOnRecord, pinNow, PinProven, ClientPinAssumption
<1>6. MismatchOK' /\ CreditOK'
  BY <1>3 DEF MismatchOK, CreditOK, PinProven, pinNow, PinSet, ClientPinAssumption
<1> QED  BY <1>5, <1>6

\* A right PIN whose key opens, or was lost to a power loss before: the key goes with the PIN
\* file it leaves.
LEMMA ProvenKey ==
  ASSUME ClientPinAssumption, PinInv, MayCompare, NEW p \in Pins, p = pinNow.pin,
         fs'["pin"] = ProvenFiles(p)["pin"], fs'["keydev"] = ProvenFiles(p)["keydev"],
         session_pin' = Wrapped("derived", p), UNCHANGED torn
  PROVE  KeyOK'
<1> DEFINE W == Wrapped("derived", p)
<1>1. pinNow.count > 0 /\ fs \in FileSystem
  BY DEF MayCompare, PinInv, TypesOK
<1>2. /\ fs'["pin"].now = Fresh(p) /\ fs'["pin"].flash = {Spent, Fresh(p)}
      /\ fs'["keydev"].now \in fs'["keydev"].flash
      /\ \/ fs'["keydev"].now = W /\ Plain \in fs'["keydev"].flash
         \/ ~pinNow.legacy /\ fs'["keydev"].now = fs["keydev"].now /\ fs'["keydev"].now # Plain
  BY <1>1, ProvenFilesFacts
<1>3. Fresh(p).pin = p /\ Fresh(p).legacy = FALSE
  BY PinFacts
<1>4. Spent.pin = p /\ Spent.legacy = pinNow.legacy
  BY <1>1, SpentFacts
<1>5. W # Plain
  BY KeyFacts
<1>6. ~torn => fs'["keydev"].now = W
  BY <1>2 DEF PinInv, KeyOK, KeyMatches
<1> HIDE DEF W
<1>7. ~torn => KeyMatches(Fresh(p), fs'["keydev"].now)
  BY <1>3, <1>6 DEF KeyMatches, W
<1>8. ~torn /\ ~Pending(fs["keydev"])' =>
        \A v \in fs'["pin"].flash : KeyMatches(v, fs'["keydev"].now)
  <2>1. ASSUME ~torn, ~Pending(fs["keydev"])'
        PROVE  ~pinNow.legacy
    BY <1>2, <1>5, <2>1 DEF Pending
  <2> QED  BY <1>2, <1>4, <1>6, <1>7, <2>1 DEF KeyMatches, W
<1> QED  BY <1>2, <1>6, <1>7, <1>8 DEF KeyOK, Opens, pinNow, W

\* changePIN that stops after the comparison.
LEMMA changePINRefusedStep ==
  ASSUME ClientPinAssumption, PinInv, MayCompare, NEW p \in Pins, p = pinNow.pin,
         changePIN_Refused(p)
  PROVE  PinInv'
<1>1. pinNow.count > 0 /\ fs \in FileSystem
  BY DEF MayCompare, PinInv, TypesOK
<1>2. /\ fs' \in FileSystem /\ fs'["pin"].now = Fresh(p) /\ fs'["pin"].flash = {Spent, Fresh(p)}
      /\ SameTokens(fs', fs)
  BY <1>1, ProvenFilesFacts DEF changePIN_Refused
<1>3. /\ session_pin' \in KeyValues /\ credit' \in Int /\ guesses' \in Nat
      /\ new_pin_mismatches' \in Nat
  BY KeyFacts DEF changePIN_Refused, PinProven, ClientPinAssumption
<1>4. TypesOK'
  BY <1>2, <1>3 DEF PinInv, TypesOK, changePIN_Refused
<1>5. RetriesOK' /\ MismatchOK' /\ CreditOK'
  BY <1>2, ProvenCounters DEF changePIN_Refused
<1>6. KeyOK'
  BY ProvenKey DEF changePIN_Refused
<1>7. GrantOK' /\ VoidOK'
  BY <1>2 DEF PinInv, GrantOK, Usable, TokenStands, VoidOK, SameTokens, SameToken,
             changePIN_Refused
<1> QED  BY <1>4, <1>5, <1>6, <1>7 DEF PinInv

\* changePIN that goes through, or refuses the same PIN after the re-wrap.
LEMMA changePINChangedStep ==
  ASSUME ClientPinAssumption, PinInv, MayCompare, NEW p \in Pins, NEW n \in Pins,
         changePIN_Changed(p, n)
  PROVE  PinInv'
<1> DEFINE W == Wrapped("derived", n)
<1>1. pinNow.count > 0 /\ fs \in FileSystem
  BY DEF MayCompare, PinInv, TypesOK
<1>2. /\ session_pin' = W /\ W \in KeyValues /\ W # Plain
      /\ credit' \in Int /\ guesses' \in Nat /\ new_pin_mismatches' \in Nat
  BY KeyFacts DEF changePIN_Changed, PinProven, ClientPinAssumption
<1>3. /\ PinProven
      /\ UNCHANGED <<hkey_init, torn, revived, timeouts, losses>>
  BY DEF changePIN_Changed
<1>4. Fresh(n).pin = n /\ Fresh(n).legacy = FALSE
  BY PinFacts
<1>5. ASSUME fs' \in FileSystem, fs'["pin"].now = Fresh(n), fs'["keydev"].now = W,
             {Plain, W} \subseteq fs'["keydev"].flash
      PROVE  KeyOK'
  <2>1. Pending(fs["keydev"])'
    BY <1>2, <1>5 DEF Pending
  <2> QED  BY <1>2, <1>4, <1>5, <2>1 DEF KeyOK, KeyMatches, Opens, pinNow
<1>6. CASE SamePinRefused(p, n) /\ fs' = Rewrapped(p, n)
           /\ UNCHANGED <<paut, ppaut, proof, needs_power_cycle>>
  <2>1. /\ fs' \in FileSystem /\ fs'["pin"].now = Fresh(n) /\ fs'["pin"].flash = {Spent, Fresh(n)}
        /\ fs'["keydev"].now = W /\ {Plain, W} \subseteq fs'["keydev"].flash
        /\ SameTokens(fs', fs)
    BY <1>1, <1>6, RewrappedFacts DEF SamePinRefused
  <2> HIDE DEF W
  <2>2. TypesOK'
    BY <1>2, <1>3, <1>6, <2>1 DEF PinInv, TypesOK
  <2>3. RetriesOK' /\ MismatchOK' /\ CreditOK'
    BY <1>3, <2>1, ProvenCounters
  <2>4. KeyOK'
    BY <1>5, <2>1
  <2>5. GrantOK' /\ VoidOK'
    BY <1>3, <1>6, <2>1
       DEF PinInv, GrantOK, Usable, TokenStands, VoidOK, SameTokens, SameToken
  <2> QED  BY <2>2, <2>3, <2>4, <2>5 DEF PinInv
<1>7. CASE /\ fs' = VoidTokens(ChangedFiles(p, n))
           /\ paut' = [paut EXCEPT !.permissions = {}]
           /\ ppaut' = FALSE /\ proof' = NoProof /\ needs_power_cycle' = FALSE
  <2>1. /\ fs' \in FileSystem /\ fs'["pin"].now = Fresh(n)
        /\ fs'["pin"].flash = {Spent, Fresh(p), Fresh(n)}
        /\ fs'["keydev"].now = W /\ {Plain, W} \subseteq fs'["keydev"].flash
        /\ NewToken(fs'["token"]) /\ NewToken(fs'["ptoken"])
    BY <1>1, <1>7, ChangedFacts
  <2> HIDE DEF W
  <2>2. paut' \in Grants
    BY <1>7 DEF PinInv, TypesOK, Grants
  <2>3. TypesOK'
    BY <1>2, <1>3, <1>7, <2>1, <2>2, NoGrantFacts DEF PinInv, TypesOK
  <2>4. RetriesOK' /\ MismatchOK' /\ CreditOK'
    BY <1>3, <2>1, ProvenCounters
  <2>5. KeyOK'
    BY <1>5, <2>1
  <2>6. GrantOK' /\ VoidOK'
    BY <2>1 DEF GrantOK, Usable, VoidOK, NewToken
  <2> QED  BY <2>3, <2>4, <2>5, <2>6 DEF PinInv
<1> QED  BY <1>6, <1>7 DEF changePIN_Changed

\* A right PIN asks for a token.
LEMMA TokenGivenStep ==
  ASSUME ClientPinAssumption, PinInv, MayCompare, NEW p \in Pins, p = pinNow.pin, TokenGiven(p)
  PROVE  PinInv'
<1> DEFINE d == ProvenFiles(p)
<1>1. pinNow.count > 0 /\ fs \in FileSystem
  BY DEF MayCompare, PinInv, TypesOK
<1>2. /\ d \in FileSystem /\ d["pin"].now = Fresh(p) /\ d["pin"].flash = {Spent, Fresh(p)}
      /\ SameTokens(d, fs)
  BY <1>1, ProvenFilesFacts
<1>3. /\ session_pin' \in KeyValues /\ credit' \in Int /\ guesses' \in Nat
      /\ new_pin_mismatches' \in Nat
  BY KeyFacts DEF TokenGiven, PinProven, ClientPinAssumption
<1>4. /\ PinProven /\ session_pin' = Wrapped("derived", p)
      /\ UNCHANGED <<needs_power_cycle, hkey_init, torn, revived, timeouts, losses>>
  BY DEF TokenGiven
<1>5. ASSUME fs' \in FileSystem, fs'["pin"] = d["pin"], fs'["keydev"] = d["keydev"],
             paut' \in Grants, proof' \in Proofs, ppaut' \in BOOLEAN
      PROVE  TypesOK' /\ RetriesOK' /\ MismatchOK' /\ CreditOK' /\ KeyOK'
  <2>1. TypesOK'
    BY <1>3, <1>4, <1>5 DEF PinInv, TypesOK
  <2>2. RetriesOK' /\ MismatchOK' /\ CreditOK'
    BY <1>2, <1>4, <1>5, ProvenCounters
  <2>3. KeyOK'
    BY <1>4, <1>5, ProvenKey
  <2> QED  BY <2>1, <2>2, <2>3
<1> HIDE DEF d
<1>6. paut \in Grants /\ proof \in Proofs /\ ppaut \in BOOLEAN
  BY DEF PinInv, TypesOK
<1>7. d["token"] \in TokenFiles /\ d["ptoken"] \in TokenFiles
  BY <1>2 DEF FileSystem
<1>8. CASE fs' = d /\ UNCHANGED <<paut, ppaut, proof>>
  <2>1. TypesOK' /\ RetriesOK' /\ MismatchOK' /\ CreditOK' /\ KeyOK'
    BY <1>2, <1>5, <1>6, <1>8
  <2>2. GrantOK' /\ VoidOK'
    BY <1>2, <1>4, <1>8
       DEF PinInv, GrantOK, Usable, TokenStands, VoidOK, SameTokens, SameToken
  <2> QED  BY <2>1, <2>2 DEF PinInv
<1>9. CASE /\ fs' = [d EXCEPT !["ptoken"] = Given(d["ptoken"])] /\ ppaut' = TRUE
           /\ UNCHANGED <<paut, proof>>
  <2> DEFINE U == Given(d["ptoken"])
  <2>1. U \in TokenFiles /\ U.now = d["ptoken"].now /\ U.void = d["ptoken"].void
    BY <1>7, TokenFacts
  <2> HIDE DEF U
  <2>2. /\ fs' \in FileSystem /\ fs'["pin"] = d["pin"] /\ fs'["keydev"] = d["keydev"]
        /\ fs'["token"] = d["token"] /\ fs'["ptoken"] = U
    BY <1>2, <1>9, <2>1 DEF FileSystem, U
  <2>3. TypesOK' /\ RetriesOK' /\ MismatchOK' /\ CreditOK' /\ KeyOK'
    BY <1>5, <1>6, <1>9, <2>2
  <2>4. GrantOK' /\ VoidOK'
    BY <1>2, <1>4, <1>9, <2>1, <2>2
       DEF PinInv, GrantOK, Usable, TokenStands, VoidOK, SameTokens, SameToken
  <2> QED  BY <2>3, <2>4 DEF PinInv
<1>10. ASSUME fs' = [WithNewToken(d) EXCEPT !["token"] = Given(@)],
              NEW permissions \in Requests, NEW rp \in RPs \cup {NoRP},
              Granted(permissions, rp), UNCHANGED ppaut
       PROVE  PinInv'
  <2> DEFINE T == Given(Renewed(d["token"]))
  <2>1. T \in TokenFiles /\ T.now = "live" /\ "live" \notin T.void
    BY <1>7, NewTokenFacts
  <2>2. fs' = [d EXCEPT !["token"] = T]
    BY <1>2, <1>10 DEF WithNewToken, FileSystem
  <2> HIDE DEF T
  <2>3. /\ fs' \in FileSystem /\ fs'["pin"] = d["pin"] /\ fs'["keydev"] = d["keydev"]
        /\ fs'["token"] = T /\ fs'["ptoken"] = d["ptoken"]
    BY <1>2, <2>1, <2>2 DEF FileSystem
  <2>4. /\ paut' \in Grants /\ paut'.permissions = permissions /\ paut'.rp = rp
    BY <1>10 DEF Granted, Grants, ClientPinAssumption
  <2>5. proof' = [alive |-> TRUE, permissions |-> permissions, rp |-> rp, rps |-> {},
                  asserted |-> 0]
    BY <1>10 DEF Granted, NoProof
  <2>6. /\ proof' \in Proofs /\ proof'.alive = TRUE /\ proof'.permissions = permissions
        /\ proof'.rp = rp /\ proof'.rps = {} /\ proof'.asserted = 0
    BY <1>10, <2>5 DEF Proofs, ClientPinAssumption
  <2>7. TypesOK' /\ RetriesOK' /\ MismatchOK' /\ CreditOK' /\ KeyOK'
    BY <1>5, <1>6, <1>10, <2>3, <2>4, <2>6
  <2>8. GrantOK'
    BY <2>4, <2>6 DEF GrantOK
  <2>9. VoidOK'
    BY <1>2, <1>4, <2>1, <2>3 DEF PinInv, VoidOK, SameTokens, SameToken
  <2> QED  BY <2>7, <2>8, <2>9 DEF PinInv
<1> QED  BY <1>8, <1>9, <1>10 DEF TokenGiven, d

\* A wrong PIN, whatever becomes of the marker: all of the invariant but the credit.
LEMMA WrongCommon ==
  ASSUME ClientPinAssumption, PinInv, MayCompare,
         fs' \in FileSystem, fs'["pin"].now \in fs'["pin"].flash,
         \A v \in fs'["pin"].flash : /\ v.pin = pinNow.pin /\ v.legacy = pinNow.legacy
                                     /\ v.count = pinNow.count - 1,
         fs'["keydev"].now = fs["keydev"].now, fs'["keydev"].flash = {fs["keydev"].now},
         NewToken(fs'["token"]), SameToken(fs'["ptoken"], fs["ptoken"]),
         paut' = [paut EXCEPT !.permissions = {}], proof' = NoProof, guesses' = guesses + 1,
         new_pin_mismatches' \in {new_pin_mismatches, new_pin_mismatches + 1},
         credit' \in Int, timeouts' \in 0..MaxTimeouts, needs_power_cycle' \in BOOLEAN,
         UNCHANGED <<ppaut, hkey_init, session_pin, torn, revived, losses>>
  PROVE  TypesOK' /\ RetriesOK' /\ MismatchOK' /\ KeyOK' /\ GrantOK' /\ VoidOK'
<1>1. /\ pinNow.count > 0 /\ pinNow.pin # NoPin /\ fs \in FileSystem /\ pinNow \in PinValues
      /\ guesses \in Nat /\ new_pin_mismatches \in Nat
  BY DEF MayCompare, PinSet, PinInv, TypesOK, FileSystem, PinFiles, pinNow
<1>2. pinNow.count \in Nat /\ MAX_PIN_RETRIES \in Nat
  BY <1>1 DEF PinValues, ClientPinAssumption
<1>3. guesses + pinNow.count <= MAX_PIN_RETRIES
  BY <1>1 DEF PinInv, RetriesOK, RetriesOnRecord
<1>4. new_pin_mismatches <= guesses
  BY <1>1 DEF PinInv, MismatchOK, PinSet
<1>5. paut' \in Grants /\ paut'.permissions = {} /\ paut'.in_use = paut.in_use
  BY DEF PinInv, TypesOK, Grants
<1>6. new_pin_mismatches' \in Nat /\ guesses' \in Nat
  BY <1>1
<1>7. TypesOK'
  BY <1>5, <1>6, NoGrantFacts DEF PinInv, TypesOK
<1>8. RetriesOK'
  BY <1>1, <1>2, <1>3 DEF RetriesOK, RetriesOnRecord, pinNow
<1>9. MismatchOK'
  BY <1>1, <1>2, <1>3, <1>4 DEF MismatchOK
<1>10. KeyOK'
  BY <1>5 DEF PinInv, KeyOK, KeyMatches, Pending, Opens, TokenStands, pinNow
<1>11. GrantOK' /\ VoidOK'
  BY DEF PinInv, GrantOK, Usable, VoidOK, NewToken, SameToken
<1> QED  BY <1>7, <1>8, <1>9, <1>10, <1>11

\* The counter in RAM stops short of the soft lock as long as the credit lasts: with the
\* marker in the file, or put there now, the lock is on or its commit gave up.
LEMMA WrongPinStep ==
  ASSUME ClientPinAssumption, PinInv, MayCompare, WrongPin
  PROVE  PinInv'
<1> DEFINE files == VoidToken(WithNewToken(SpentFiles))
           told  == IF needs_power_cycle THEN 0 ELSE 1
<1>1. /\ pinNow.count > 0 /\ pinNow.pin # NoPin /\ fs \in FileSystem /\ pinNow \in PinValues
      /\ pinNow.count \in Nat /\ new_pin_mismatches \in Nat /\ credit \in Int
      /\ MaxMismatches \in Nat \ {0} /\ timeouts \in 0..MaxTimeouts /\ MaxTimeouts \in Nat
      /\ needs_power_cycle \in BOOLEAN
  BY DEF MayCompare, PinSet, PinInv, TypesOK, FileSystem, PinFiles, PinValues, pinNow,
         ClientPinAssumption
<1>2. /\ Spent.pin = pinNow.pin /\ Spent.count = pinNow.count - 1
      /\ Spent.marked = pinNow.marked /\ Spent.legacy = pinNow.legacy
  BY <1>1, SpentFacts
<1>3. /\ files \in FileSystem /\ files["pin"].now = Spent /\ files["pin"].flash = {Spent}
      /\ files["keydev"].now = fs["keydev"].now /\ files["keydev"].flash = {fs["keydev"].now}
      /\ NewToken(files["token"]) /\ SameToken(files["ptoken"], fs["ptoken"])
  BY <1>1, WrongFacts
<1>4. /\ paut' = [paut EXCEPT !.permissions = {}] /\ proof' = NoProof /\ guesses' = guesses + 1
      /\ UNCHANGED <<ppaut, hkey_init, session_pin, torn, revived, losses>>
  BY DEF WrongPin
<1>5. /\ credit >= 0 /\ told \in {0, 1} /\ credit - told >= 0 /\ credit - told \in Int
      /\ ~needs_power_cycle =>
           /\ told = 1 /\ credit >= 1
           /\ ~pinNow.marked => credit >= MaxMismatches - new_pin_mismatches
  BY <1>1 DEF PinInv, CreditOK, PinSet
<1> HIDE DEF files, told
<1>6. CASE /\ Spent.count = 0 /\ fs' = files /\ credit' = credit - told
           /\ UNCHANGED <<needs_power_cycle, new_pin_mismatches, timeouts>>
  <2>1. TypesOK' /\ RetriesOK' /\ MismatchOK' /\ KeyOK' /\ GrantOK' /\ VoidOK'
    BY <1>1, <1>2, <1>3, <1>4, <1>5, <1>6, WrongCommon
  <2>2. CreditOK'
    BY <1>3, <1>5, <1>6 DEF CreditOK, pinNow
  <2> QED  BY <2>1, <2>2 DEF PinInv
<1>7. CASE /\ fs' = files /\ needs_power_cycle' = TRUE /\ credit' = credit - told
           /\ UNCHANGED <<new_pin_mismatches, timeouts>>
  <2>1. TypesOK' /\ RetriesOK' /\ MismatchOK' /\ KeyOK' /\ GrantOK' /\ VoidOK'
    BY <1>1, <1>2, <1>3, <1>4, <1>5, <1>7, WrongCommon
  <2>2. CreditOK'
    BY <1>5, <1>7 DEF CreditOK
  <2> QED  BY <2>1, <2>2 DEF PinInv
<1>8. CASE /\ Spent.count > 0 /\ ~Spent.marked /\ ~LocksNow
           /\ new_pin_mismatches' = new_pin_mismatches + 1
           /\ fs' = files /\ credit' = credit - told /\ UNCHANGED <<needs_power_cycle, timeouts>>
  <2>1. TypesOK' /\ RetriesOK' /\ MismatchOK' /\ KeyOK' /\ GrantOK' /\ VoidOK'
    BY <1>1, <1>2, <1>3, <1>4, <1>5, <1>8, WrongCommon
  <2>2. CreditOK'
    BY <1>1, <1>2, <1>3, <1>5, <1>8 DEF CreditOK, LocksNow, pinNow
  <2> QED  BY <2>1, <2>2 DEF PinInv
<1>9. ASSUME NEW v \in Marked(files)["pin"].flash
      PROVE  v.pin = pinNow.pin /\ v.legacy = pinNow.legacy /\ v.count = pinNow.count - 1
  BY <1>2, <1>3, <1>9, MarkedFacts
<1>10. /\ Marked(files) \in FileSystem
       /\ Marked(files)["pin"].now \in Marked(files)["pin"].flash
       /\ Marked(files)["pin"].now.marked
       /\ Marked(files)["pin"].now.pin = pinNow.pin
       /\ Marked(files)["pin"].now.legacy = pinNow.legacy
       /\ Marked(files)["pin"].now.count = pinNow.count - 1
       /\ \A n \in {"keydev", "force", "token", "ptoken"} : Marked(files)[n] = files[n]
  BY <1>2, <1>3, MarkedFacts
<1>11. CASE /\ new_pin_mismatches' = new_pin_mismatches + 1
            /\ fs' = Synced(Marked(files)) /\ needs_power_cycle' = TRUE
            /\ credit' = credit - told /\ UNCHANGED timeouts
  <2>1. /\ fs' \in FileSystem
        /\ fs'["pin"].now = Marked(files)["pin"].now
        /\ fs'["pin"].flash = {Marked(files)["pin"].now}
        /\ fs'["keydev"].now = fs["keydev"].now /\ fs'["keydev"].flash = {fs["keydev"].now}
        /\ NewToken(fs'["token"]) /\ SameToken(fs'["ptoken"], fs["ptoken"])
    BY <1>3, <1>10, <1>11, SyncedFacts DEF NewToken, SameToken
  <2>2. TypesOK' /\ RetriesOK' /\ MismatchOK' /\ KeyOK' /\ GrantOK' /\ VoidOK'
    BY <1>1, <1>4, <1>5, <1>10, <1>11, <2>1, WrongCommon
  <2>3. CreditOK'
    BY <1>5, <1>11 DEF CreditOK
  <2> QED  BY <2>2, <2>3 DEF PinInv
<1>12. CASE /\ new_pin_mismatches' = new_pin_mismatches + 1
            /\ timeouts < MaxTimeouts /\ timeouts' = timeouts + 1
            /\ fs' = Marked(files) /\ UNCHANGED <<needs_power_cycle, credit>>
  <2>1. timeouts' \in 0..MaxTimeouts
    BY <1>1, <1>12
  <2>2. /\ fs'["keydev"].now = fs["keydev"].now /\ fs'["keydev"].flash = {fs["keydev"].now}
        /\ NewToken(fs'["token"]) /\ SameToken(fs'["ptoken"], fs["ptoken"])
    BY <1>3, <1>10, <1>12
  <2>3. TypesOK' /\ RetriesOK' /\ MismatchOK' /\ KeyOK' /\ GrantOK' /\ VoidOK'
    BY <1>1, <1>4, <1>9, <1>10, <1>12, <2>1, <2>2, WrongCommon
  <2>4. CreditOK'
    BY <1>5, <1>10, <1>12 DEF CreditOK, pinNow
  <2> QED  BY <2>3, <2>4 DEF PinInv
<1> QED  BY <1>6, <1>7, <1>8, <1>11, <1>12 DEF WrongPin, files, told

-----------------------------------------------------------------------------
(* Power. *)

\* What the scan at boot makes of a token file.
LEMMA ScannedFacts ==
  ASSUME ClientPinAssumption, NEW f \in TokenFiles, NEW v \in f.flash
  PROVE  /\ ScannedToken(f, v) \in TokenFiles
         /\ v = "live" => /\ ScannedToken(f, v).now = f.now
                          /\ ScannedToken(f, v).void = f.void
<1>1. v \in {"live", "stale", "absent"}
  BY DEF TokenFiles
<1>2. CASE v = "live"
  <2>1. ScannedToken(f, v) = Drained(f)
    BY <1>2 DEF ScannedToken
  <2>2. Drained(f) \in TokenFiles /\ Drained(f).now = f.now /\ Drained(f).void = f.void
    BY TokenFacts
  <2> QED  BY <2>1, <2>2
<1>3. CASE v = "stale"
  <2>1. ScannedToken(f, v) = [now |-> v, flash |-> {v}, held |-> f.held \ {"live"},
                              void |-> f.void \ {"live"}]
    BY <1>3 DEF ScannedToken
  <2> QED  BY <2>1, <1>3 DEF TokenFiles
<1>4. CASE v = "absent"
  <2> DEFINE g == [f EXCEPT !.flash = {v}]
  <2>1. ScannedToken(f, v) = Renewed(g)
    BY <1>4 DEF ScannedToken
  <2>2. g \in TokenFiles
    BY <1>4 DEF TokenFiles
  <2> HIDE DEF g
  <2>3. Renewed(g) \in TokenFiles
    BY <2>2, TokenFacts
  <2> QED  BY <2>1, <2>3, <1>4
<1> QED  BY <1>1, <1>2, <1>3, <1>4

\* Each file is one of the values flash may hold.  If no token was pending the newest is what
\* flash holds; if the key was not pending it goes with every PIN file flash may hold.
LEMMA PowerLossStep ==
  ASSUME ClientPinAssumption, PinInv, PowerLoss
  PROVE  PinInv'
<1>1. /\ fs \in FileSystem /\ fs["pin"] \in PinFiles /\ fs["keydev"] \in KeyFiles
      /\ fs["force"] \in ForceFiles /\ fs["token"] \in TokenFiles /\ fs["ptoken"] \in TokenFiles
      /\ guesses \in Nat /\ MaxMismatches \in Nat \ {0} /\ MAX_PIN_RETRIES \in Nat
  BY DEF PinInv, TypesOK, FileSystem, ClientPinAssumption
<1>2. PICK p \in fs["pin"].flash, k \in fs["keydev"].flash, f \in fs["force"].flash,
           t \in fs["token"].flash, u \in fs["ptoken"].flash :
        /\ fs' = [pin    |-> ReadBack(p), keydev |-> ScannedKey(k), force |-> ReadBack(f),
                  token  |-> ScannedToken(fs["token"], t),
                  ptoken |-> ScannedToken(fs["ptoken"], u)]
        /\ credit' = NewCredit(p)
  BY DEF PowerLoss
<1>3. /\ losses < MaxLosses /\ losses' = losses + 1
      /\ torn' = (torn \/ Pending(fs["keydev"]))
      /\ revived' = (revived \/ Pending(fs["token"]) \/ Pending(fs["ptoken"]))
      /\ paut' = NoGrant /\ ppaut' = FALSE /\ needs_power_cycle' = FALSE
      /\ new_pin_mismatches' = 0 /\ hkey_init' = FALSE /\ session_pin' = Plain
      /\ proof' = NoProof /\ UNCHANGED <<guesses, timeouts>>
  BY DEF PowerLoss
<1> DEFINE P == ReadBack(p)
           K == ScannedKey(k)
           F == ReadBack(f)
           T == ScannedToken(fs["token"], t)
           U == ScannedToken(fs["ptoken"], u)
<1>4. p \in PinValues /\ P \in PinFiles /\ P.now = p /\ P.flash = {p}
  BY <1>1 DEF ReadBack, PinFiles
<1>5. /\ K \in KeyFiles /\ K.now \in K.flash
      /\ k # NoKey => K.now = k /\ K.flash = {k}
  <2>1. CASE k = NoKey
    <3> DEFINE g == ReadBack(NoKey)
    <3>1. K = Put(g, Plain)
      BY <2>1 DEF ScannedKey
    <3>2. g \in [now : KeyValues, flash : SUBSET KeyValues]
      BY DEF ReadBack, KeyValues
    <3> HIDE DEF g, K
    <3>3. K \in KeyFiles /\ K.now \in K.flash
      BY <3>1, <3>2, PlainPut
    <3> QED  BY <2>1, <3>3
  <2>2. CASE k # NoKey
    <3>1. K = [now |-> k, flash |-> {k}]
      BY <2>2 DEF ScannedKey, ReadBack
    <3> HIDE DEF K
    <3> QED  BY <1>1, <2>2, <3>1 DEF KeyFiles
  <2> QED  BY <2>1, <2>2
<1>6. F \in ForceFiles
  BY <1>1 DEF ReadBack, ForceFiles
<1>7. /\ T \in TokenFiles /\ U \in TokenFiles
      /\ t = "live" => T.now = fs["token"].now /\ T.void = fs["token"].void
      /\ u = "live" => U.now = fs["ptoken"].now /\ U.void = fs["ptoken"].void
  BY <1>1, ScannedFacts
<1>8. fs' = [pin |-> P, keydev |-> K, force |-> F, token |-> T, ptoken |-> U]
  BY <1>2
<1> HIDE DEF P, K, F, T, U
<1>9. /\ fs' \in FileSystem /\ fs'["pin"] = P /\ fs'["keydev"] = K
      /\ fs'["token"] = T /\ fs'["ptoken"] = U
  BY <1>4, <1>5, <1>6, <1>7, <1>8 DEF FileSystem
<1>10. TypesOK'
  <2>1. credit' \in Int
    BY <1>1, <1>2 DEF NewCredit
  <2>2. losses' \in 0..MaxLosses
    BY <1>3 DEF PinInv, TypesOK, ClientPinAssumption
  <2>3. torn' \in BOOLEAN /\ revived' \in BOOLEAN
    BY <1>3 DEF PinInv, TypesOK, Pending
  <2>4. session_pin' \in KeyValues
    BY <1>3 DEF KeyValues
  <2>5. ppaut' \in BOOLEAN /\ needs_power_cycle' \in BOOLEAN /\ hkey_init' \in BOOLEAN
        /\ new_pin_mismatches' \in Nat
    BY <1>3
  <2> QED  BY <1>3, <1>9, <2>1, <2>2, <2>3, <2>4, <2>5, NoGrantFacts DEF PinInv, TypesOK
<1>11. RetriesOK'
  BY <1>2, <1>3, <1>4, <1>9 DEF PinInv, RetriesOK, RetriesOnRecord, pinNow
<1>12. MismatchOK'
  BY <1>1, <1>3 DEF MismatchOK
<1>13. CreditOK'
  BY <1>1, <1>2, <1>3, <1>4, <1>9 DEF CreditOK, NewCredit, pinNow
<1>14. ~TokenStands'
  BY <1>3 DEF TokenStands, NoGrant
<1>15. KeyOK'
  <2>1. ASSUME ~torn'
        PROVE  KeyMatches(p, K.now)
    <3>1. ~torn /\ ~Pending(fs["keydev"])
      BY <1>3, <2>1 DEF PinInv, TypesOK
    <3>2. k = fs["keydev"].now
      BY <1>2, <3>1 DEF Pending
    <3>3. K.now = k
      BY <1>1, <1>5, <3>2 DEF KeyFiles
    <3> QED  BY <1>2, <3>1, <3>2, <3>3 DEF PinInv, KeyOK
  <2> QED  BY <1>4, <1>5, <1>9, <1>14, <2>1 DEF KeyOK, KeyMatches, pinNow
<1>16. GrantOK'
  BY <1>14 DEF GrantOK, Usable
<1>17. VoidOK'
  <2>1. ASSUME ~revived'
        PROVE  /\ ~revived /\ t = fs["token"].now /\ u = fs["ptoken"].now
    BY <1>2, <1>3, <2>1 DEF PinInv, TypesOK, Pending
  <2> QED  BY <1>7, <1>9, <2>1 DEF PinInv, VoidOK
<1> QED  BY <1>10, <1>11, <1>12, <1>13, <1>15, <1>16, <1>17 DEF PinInv

\* A new device, and one with a PIN of an older firmware.
LEMMA PinInvInit ==
  ASSUME ClientPinAssumption, Init
  PROVE  PinInv
<1>1. PICK v \in PinValues, k \in KeyValues \ {NoKey} :
        /\ fs = FirstFiles(v, k) /\ KeyMatches(v, k)
        /\ v.count <= MAX_PIN_RETRIES /\ v.marked = FALSE
  <2>1. CASE fs = FirstFiles(Unset, Plain)
    <3>1. Unset \in PinValues /\ Unset.count <= MAX_PIN_RETRIES /\ Unset.marked = FALSE
      BY UnsetFacts DEF Unset, ClientPinAssumption
    <3>2. Plain \in KeyValues \ {NoKey}
      BY NoPinKey DEF KeyValues
    <3> QED  BY <2>1, <3>1, <3>2 DEF KeyMatches
  <2>2. ASSUME NEW p \in Pins, fs = FirstFiles(Legacy(p), Plain)
        PROVE  \E v \in PinValues, k \in KeyValues \ {NoKey} :
                 /\ fs = FirstFiles(v, k) /\ KeyMatches(v, k)
                 /\ v.count <= MAX_PIN_RETRIES /\ v.marked = FALSE
    <3>1. Legacy(p) \in PinValues /\ Legacy(p).marked = FALSE
      BY PinFacts, Zenon
    <3>3. Legacy(p).count <= MAX_PIN_RETRIES
      BY <3>1 DEF PinValues, ClientPinAssumption
    <3>2. Plain \in KeyValues \ {NoKey}
      BY NoPinKey DEF KeyValues
    <3> QED  BY <2>2, <3>1, <3>2, <3>3 DEF KeyMatches
  <2>3. ASSUME NEW p \in Pins, fs = FirstFiles(Legacy(p), Wrapped("multi", p))
        PROVE  \E v \in PinValues, k \in KeyValues \ {NoKey} :
                 /\ fs = FirstFiles(v, k) /\ KeyMatches(v, k)
                 /\ v.count <= MAX_PIN_RETRIES /\ v.marked = FALSE
    <3>1. /\ Legacy(p) \in PinValues /\ Legacy(p).marked = FALSE /\ Legacy(p).pin = p
          /\ Legacy(p).legacy = TRUE
      BY PinFacts, Zenon
    <3>4. Legacy(p).count <= MAX_PIN_RETRIES
      BY <3>1 DEF PinValues, ClientPinAssumption
    <3>2. Wrapped("multi", p) \in KeyValues \ {NoKey}
      BY KeyFacts
    <3>3. KeyMatches(Legacy(p), Wrapped("multi", p))
      BY <3>1 DEF KeyMatches
    <3> QED  BY <2>3, <3>1, <3>2, <3>3, <3>4
  <2> QED  BY <2>1, <2>2, <2>3 DEF Init
<1> DEFINE T == [now |-> "live", flash |-> {"live"}, held |-> {}, void |-> {}]
<1>2. fs = [pin |-> [now |-> v, flash |-> {v}], keydev |-> [now |-> k, flash |-> {k}],
            force |-> [now |-> FALSE, flash |-> {FALSE}], token |-> T, ptoken |-> T]
  BY <1>1 DEF FirstFiles
<1>3. T \in TokenFiles /\ T.now = "live" /\ T.held = {} /\ T.void = {}
  BY DEF TokenFiles
<1> HIDE DEF T
<1>4. [now |-> v, flash |-> {v}] \in PinFiles /\ [now |-> k, flash |-> {k}] \in KeyFiles
      /\ [now |-> FALSE, flash |-> {FALSE}] \in ForceFiles
  BY <1>1 DEF PinFiles, KeyFiles, ForceFiles
<1>5. /\ fs \in FileSystem /\ fs["pin"].now = v /\ fs["pin"].flash = {v}
      /\ fs["keydev"].now = k /\ fs["keydev"].flash = {k} /\ fs["token"] = T /\ fs["ptoken"] = T
  BY <1>2, <1>3, <1>4 DEF FileSystem
<1>6. TypesOK
  <2>1. credit \in Int /\ 0 \in 0..MaxTimeouts /\ 0 \in 0..MaxLosses
    BY DEF Init, ClientPinAssumption
  <2>2. session_pin \in KeyValues
    BY DEF Init, KeyValues
  <2>3. fs \in FileSystem
    BY <1>5
  <2> QED  BY <2>1, <2>2, <2>3, NoGrantFacts, Zenon DEF Init, TypesOK
<1>7. ~TokenStands
  BY DEF Init, NoGrant, TokenStands
<1>8. RetriesOK /\ MismatchOK
  BY <1>1, <1>5 DEF Init, RetriesOK, RetriesOnRecord, MismatchOK, pinNow, PinValues,
                   ClientPinAssumption
<1>9. CreditOK
  BY DEF Init, CreditOK, ClientPinAssumption
<1>10. KeyOK
  BY <1>1, <1>5, <1>7 DEF KeyOK, pinNow
<1>11. GrantOK /\ VoidOK
  BY <1>3, <1>5, <1>7 DEF GrantOK, Usable, VoidOK
<1> QED  BY <1>6, <1>8, <1>9, <1>10, <1>11 DEF PinInv

-----------------------------------------------------------------------------
(* The invariant, and what it says. *)

\* One step per action.
LEMMA PinInvNext ==
  ASSUME ClientPinAssumption, PinInv, [Next]_vars
  PROVE  PinInv'
<1>1. CASE getKeyAgreement
  BY <1>1, getKeyAgreementStep
<1>2. CASE pin_uv_auth_token_tick
  BY <1>2, tickStep
<1>3. CASE init_fido
  BY <1>3, initFidoStep
<1>4. CASE cbor_reset
  BY <1>4, cborResetStep
<1>5. CASE do_flash
  BY <1>5, doFlashStep
<1>6. CASE PowerLoss
  BY <1>6, PowerLossStep
<1>7. CASE PlainAssertion
  BY <1>7, PlainAssertionStep
<1>8. ASSUME NEW p \in Pins, setPIN(p)
      PROVE  PinInv'
  BY <1>8, setPINStep
<1>9. ASSUME NEW p \in Pins, changePIN(p)
      PROVE  PinInv'
  <2>1. MayCompare
    BY <1>9 DEF changePIN
  <2>2. CASE RetryNotPersisted
    BY <2>1, <2>2, RetryNotPersistedStep
  <2>3. CASE WrongPin
    BY <2>1, <2>3, WrongPinStep
  <2>4. CASE p = pinNow.pin /\ UpgradeFails(p)
    BY <2>1, <2>4, UpgradeFailsStep
  <2>5. CASE p = pinNow.pin /\ changePIN_Refused(p)
    BY <2>1, <2>5, changePINRefusedStep
  <2>6. CASE \E n \in Pins : changePIN_Changed(p, n)
    BY <2>1, <2>6, changePINChangedStep
  <2> QED  BY <1>9, <2>2, <2>3, <2>4, <2>5, <2>6 DEF changePIN
<1>10. ASSUME NEW p \in Pins, getPinUvAuthToken(p)
       PROVE  PinInv'
  <2>1. MayCompare
    BY <1>10 DEF getPinUvAuthToken
  <2>2. CASE RetryNotPersisted
    BY <2>1, <2>2, RetryNotPersistedStep
  <2>3. CASE WrongPin
    BY <2>1, <2>3, WrongPinStep
  <2>4. CASE SoftLocked
    BY <2>1, <2>4, SoftLockedStep
  <2>5. CASE p = pinNow.pin /\ UpgradeFails(p)
    BY <2>1, <2>5, UpgradeFailsStep
  <2>6. CASE p = pinNow.pin /\ TokenGiven(p)
    BY <2>1, <2>6, TokenGivenStep
  <2> QED  BY <1>10, <2>2, <2>3, <2>4, <2>5, <2>6 DEF getPinUvAuthToken
<1>11. ASSUME NEW t \in fs["token"].held, setMinPINLength(t)
       PROVE  PinInv'
  BY <1>11, setMinPINLengthStep
<1>12. ASSUME NEW t \in fs["token"].held, NEW due \in BOOLEAN, setMinPINLength_Force(t, due)
       PROVE  PinInv'
  BY <1>12, setMinPINLengthForceStep
<1>13. ASSUME NEW t \in fs["token"].held, NEW rp \in RPs, NEW permission \in {"mc", "ga"},
              NEW present \in BOOLEAN, TokenAssertion(permission, rp, t, present)
       PROVE  PinInv'
  BY <1>13, TokenAssertionStep
<1>14. CASE UNCHANGED vars
  <2> USE <1>14 DEF vars
  <2>1. TypesOK'
    BY DEF PinInv, TypesOK
  <2>2. RetriesOK' /\ MismatchOK' /\ CreditOK'
    BY PinFrame DEF PinInv, pinVars
  <2>3. KeyOK'
    BY KeyFrame DEF PinInv, keyVars, TokenStands
  <2>4. GrantOK' /\ VoidOK'
    BY DEF PinInv, GrantOK, Usable, TokenStands, VoidOK
  <2> QED  BY <2>1, <2>2, <2>3, <2>4 DEF PinInv
<1> QED  BY <1>1, <1>2, <1>3, <1>4, <1>5, <1>6, <1>7, <1>8, <1>9, <1>10, <1>11, <1>12, <1>13,
            <1>14 DEF Next

\* The inductive invariant: every command of authenticatorClientPIN, every command that
\* presents a token, the write-back and every power loss keep it.
THEOREM PinInvariant == Spec => []PinInv
<1>1. Init => PinInv
  BY PinInvInit, ClientPinAssumption
<1>2. PinInv /\ [Next]_vars => PinInv'
  BY PinInvNext, ClientPinAssumption
<1> QED  BY <1>1, <1>2, PTL DEF Spec

\* The retry counter in EF_PIN never underflows and new_pin_mismatches fits the byte the code
\* keeps it in, across resets of the PIN that leave it standing too.
THEOREM PinTypeCorrect == Spec => []TypeOK
<1>1. PinInv => TypeOK
  <2> SUFFICES ASSUME PinInv  PROVE TypeOK
    OBVIOUS
  <2>1. new_pin_mismatches \in 0..255
    BY ClientPinAssumption DEF PinInv, TypesOK, MismatchOK, ClientPinAssumption
  <2>2. /\ fs["pin"] \in PinFiles /\ fs["keydev"] \in KeyFiles /\ fs["force"] \in ForceFiles
        /\ fs["token"] \in TokenFiles /\ fs["ptoken"] \in TokenFiles
    BY DEF PinInv, TypesOK, FileSystem
  <2>3. /\ fs["pin"].now \in PinValues /\ fs["pin"].flash \subseteq PinValues
        /\ fs["keydev"].now \in KeyValues \ {NoKey} /\ fs["keydev"].flash \subseteq KeyValues
        /\ fs["force"].now \in BOOLEAN /\ fs["force"].flash \subseteq BOOLEAN
    BY <2>2 DEF PinFiles, KeyFiles, ForceFiles
  <2> QED  BY <2>1, <2>2, <2>3 DEF PinInv, TypesOK, TypeOK, Grants, Proofs
<1> QED  BY <1>1, PinInvariant, PTL

\* A retry is on flash before the PIN it pays for is compared: whatever a power loss brings
\* back, the wrong PINs since a right one and the retries left never exceed MAX_PIN_RETRIES.
THEOREM RetriesHold == Spec => []RetriesOnRecord
<1>1. PinInv => RetriesOnRecord
  BY DEF PinInv, RetriesOK
<1> QED  BY <1>1, PinInvariant, PTL

\* The soft lock lets no more wrong PINs be told from right ones than the mismatch counter
\* and the marker allow between two power-ons.
THEOREM SoftLock == Spec => []SoftLockHolds
<1>1. PinInv => SoftLockHolds
  BY DEF PinInv, CreditOK, SoftLockHolds
<1> QED  BY <1>1, PinInvariant, PTL

\* No sequence of commands separates the device key from the PIN on file, or a granted token
\* from the session that opens it; only a power loss over a pending re-wrap may.
THEOREM KeyHolds == Spec => []KeyOpens
<1>1. PinInv => KeyOpens
  BY DEF PinInv, KeyOK, KeyMatches, KeyOpens, TokenStands
<1> QED  BY <1>1, PinInvariant, PTL

\* A token a platform can use does no more than what the last right PIN was given for.
THEOREM ProofHolds == Spec => []WithinProof
<1>1. ASSUME ClientPinAssumption, PinInv
      PROVE  WithinProof
  <2> SUFFICES ASSUME NEW t \in fs["token"].held, NEW rp \in RPs
               PROVE  /\ \A permission \in {"mc", "ga"} :
                           Presents(t) /\ MayAct(permission, rp) /\ paut.in_use /\ paut.uv =>
                             /\ proof.alive /\ permission \in proof.permissions
                             /\ proof.rp \in {NoRP, rp} /\ proof.rps \subseteq {rp}
                             /\ proof.asserted = 0
                      /\ \A on \in {rp, NoRP} :
                           cred_mgmt_accepts(on, t) =>
                             /\ proof.alive /\ "cm" \in proof.permissions
                             /\ proof.rp \in {NoRP, on} /\ proof.rps \subseteq {on}
                             /\ proof.asserted = 0
                      /\ config_accepts(t) => proof.alive /\ "acfg" \in proof.permissions
                      /\ large_blobs_accepts(t) => proof.alive
    BY DEF WithinProof
  <2>1. rp # NoRP
    BY <1>1 DEF ClientPinAssumption
  <2>2. ASSUME Presents(t), NEW permission \in paut.permissions
        PROVE  /\ proof.alive
               /\ permission # "lbw" => permission \in proof.permissions /\ proof.asserted = 0
               /\ paut.rp = NoRP => proof.rp = NoRP /\ proof.rps = {}
               /\ paut.rp # NoRP => proof.rp \in {NoRP, paut.rp} /\ proof.rps \subseteq {paut.rp}
    <3>1. Usable
      BY <2>2 DEF Presents, Usable, TokenStands
    <3> QED  BY <1>1, <2>2, <3>1 DEF PinInv, GrantOK
  <2>3. \A permission \in {"mc", "ga"} :
          Presents(t) /\ MayAct(permission, rp) /\ paut.in_use /\ paut.uv =>
            /\ proof.alive /\ permission \in proof.permissions
            /\ proof.rp \in {NoRP, rp} /\ proof.rps \subseteq {rp}
            /\ proof.asserted = 0
    BY <2>1, <2>2 DEF MayAct
  <2>4. \A on \in {rp, NoRP} :
          cred_mgmt_accepts(on, t) =>
            /\ proof.alive /\ "cm" \in proof.permissions
            /\ proof.rp \in {NoRP, on} /\ proof.rps \subseteq {on}
            /\ proof.asserted = 0
    BY <2>1, <2>2 DEF MayAct, cred_mgmt_accepts
  <2>5. config_accepts(t) => proof.alive /\ "acfg" \in proof.permissions
    BY <2>2 DEF config_accepts
  <2>6. large_blobs_accepts(t) => proof.alive
    BY <2>2 DEF large_blobs_accepts
  <2> QED  BY <2>3, <2>4, <2>5, <2>6
<1> QED  BY <1>1, PinInvariant, ClientPinAssumption, PTL

\* A token revoked by a wrong PIN, a change, an order to change or a reset opens nothing,
\* unless power went before the token that replaced it was on flash.
THEOREM VoidHolds == Spec => []VoidStaysVoid
<1>1. PinInv => VoidStaysVoid
  BY DEF PinInv, VoidOK, VoidStaysVoid, cred_mgmt_preview_accepts, Presents,
         cred_mgmt_persistent_accepts
<1> QED  BY <1>1, PinInvariant, PTL

================================================================================
