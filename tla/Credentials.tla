------------------------------- MODULE Credentials -------------------------------
(***************************************************************************)
(* Resident credentials: their slots (credential.c, resident_container.c), *)
(* registration, discovery and the next assertions, the walks of           *)
(* credential management, revocation, expiry and import.                   *)
(*                                                                         *)
(* stock is what the device reads, stockDisk what a boot would find: a     *)
(* credential of the older format and the count of those per relying party *)
(* are left to the write-back, file by file; a container is written before *)
(* the answer (Containers).  A walk is bound to a channel and remembers a  *)
(* position, not the credentials; an assertion remembers the credentials.  *)
(* PIN tokens are ClientPin's, presence is WalletUi's: a refusal by either *)
(* is CborOther here.  Keys, extensions and the sign counter are left out, *)
(* and so is the order of assertions, which goes by the uptime at creation.*)
(***************************************************************************)
EXTENDS Naturals, Sequences, FiniteSets, Functions

CONSTANTS
  CredRps, CredUsers, CredChannels, NoChannel,
  LastCredSlot,     \* slots are 0..LastCredSlot (MAX_RESIDENT_CREDENTIALS)
  MaxList,          \* MAX_CREDENTIAL_COUNT_IN_LIST
  MaxCredOps, MaxCredMishaps   \* bounds: commands; losses of power and failed writes

ASSUME CredentialsAssumption ==
  /\ NoChannel \notin CredChannels
  /\ IsFiniteSet(CredRps) /\ \E x, y \in CredRps : x # y
  /\ \E x, y \in CredUsers : x # y
  /\ LastCredSlot \in Nat /\ MaxList \in Nat \ {0}
  /\ MaxCredOps \in Nat /\ MaxCredMishaps \in Nat

VARIABLES
  stock, stockDisk,   \* credentials by slot, and the count in each legacy RP record
  rpWalk,             \* rp_channel, credential_rp_index, rp_counter
  credWalk,           \* cred_channel, cred_counter, cred_total, rpIdHashx
  gna,                \* channelx, and those of credsx that are still to come
  clock,              \* the RTC: not set, before or after the date credentials expire at
  heard,              \* ghost: what each channel was told in the walks it is in
  exempt,            \* ghost: accounts a credential was imported or dated for
  lostDeletion,       \* ghost: power was lost before the end of a credential was written
  credOps, credMishaps

storeVars == <<stock, stockDisk>>
walkVars  == <<rpWalk, credWalk, gna>>
credVars  == <<stock, stockDisk, rpWalk, credWalk, gna, clock, heard, exempt, lostDeletion,
               credOps, credMishaps>>

-----------------------------------------------------------------------------
ResidentSlots == 0..LastCredSlot
AtRecord  == LastCredSlot + 1        \* an RP listed for its legacy record, not for a slot
Walks     == {"rp", "cred", "gna"}

NoResident  == [form |-> "none"]
Damaged == [form |-> "broken"]       \* a marker whose container cannot be read any more
Resident(form, rp, user, id) ==
  [form |-> form, rp |-> rp, user |-> user, id |-> id, status |-> "active",
   dated |-> FALSE, imported |-> FALSE, guarded |-> FALSE]

NoRpWalk   == [chan |-> NoChannel, index |-> <<>>, next |-> 1]
NoCredWalk == [chan |-> NoChannel, next |-> 1, total |-> 0, rp |-> {}]
NoGna      == [chan |-> NoChannel, left |-> {}]
NotHeard   == [items |-> {}, count |-> 0, over |-> FALSE, due |-> {}]
Silence    == [k \in Walks |-> [c \in CredChannels |-> NotHeard]]

\* A credential of the older format decrypts and parses; a container has to be usable besides.
LegacyLoads(c) == c.form = "legacy"
resident_usable(c) == c.form = "container" /\ c.status = "active" /\ ~(c.dated /\ clock = "late")
Loads(c) == LegacyLoads(c) \/ resident_usable(c)
IsOf(c, rp) == c.form \in {"legacy", "container"} /\ c.rp = rp
Usable(rp)  == {s \in ResidentSlots : IsOf(stock.creds[s], rp) /\ Loads(stock.creds[s])}
Ids(slots)  == {stock.creds[s].id : s \in slots}

\* Loops over the slots count those they can use: so many come before slot s.
Skipped(rp, s)   == Cardinality({t \in Usable(rp) : t < s})
NthUsable(rp, n) == {s \in Usable(rp) : Skipped(rp, s) + 1 = n}

\* Stores as they can be found: credentials of either format, one per account.
Populated ==
  LET r == CHOOSE x \in CredRps : TRUE
      u == CHOOSE x \in CredUsers : TRUE
      v == CHOOSE x \in CredUsers : x # u
      q == CHOOSE x \in CredRps : x # r
      old(rp, n) == [x \in CredRps |-> IF x = rp THEN n ELSE 0]
  IN  {[creds |-> [s \in ResidentSlots |-> IF s = 0 THEN Resident("legacy", r, u, 0)
                                           ELSE IF s = 1 THEN Resident("container", r, v, 1)
                                           ELSE NoResident],
        rps |-> old(r, 1)],
       [creds |-> [s \in ResidentSlots |-> IF s = 0 THEN Resident("container", q, u, 0)
                                           ELSE IF s = 1 THEN [Resident("container", r, u, 1) EXCEPT !.guarded = TRUE]
                                           ELSE IF s = 2 THEN Resident("legacy", r, v, 2)
                                           ELSE NoResident],
        rps |-> old(r, 1)]}

CredentialsInit ==
  /\ stock \in Populated /\ stockDisk = stock
  /\ rpWalk = NoRpWalk /\ credWalk = NoCredWalk /\ gna = NoGna
  /\ clock = "unset" /\ heard = Silence /\ exempt = {} /\ lostDeletion = FALSE
  /\ credOps = 0 /\ credMishaps = 0

-----------------------------------------------------------------------------
\* A CBOR command of any kind but getNextAssertion drops the assertions still to come.
DropNext_Keep == UNCHANGED gna
DropNext == gna' = NoGna
CredCommand == credOps < MaxCredOps /\ credOps' = credOps + 1 /\ UNCHANGED clock
CredFaultless == UNCHANGED credMishaps
CredFault == credMishaps < MaxCredMishaps /\ credMishaps' = credMishaps + 1

\* A host's account of its walks only counts while the store stays as it is.
StoreChanged == heard' = Silence
WithoutNext(h) == [h EXCEPT !["gna"] = [c \in CredChannels |-> NotHeard]]

\* A slot is written: of the older format, in cache; as a container, in flash.  Failing, the old
\* or the new one is left, and when only some of its objects were written perhaps neither.
SlotWritten(s, c) ==
  /\ stock' = [stock EXCEPT !.creds[s] = c]
  /\ stockDisk' = IF c.form = "legacy" THEN stockDisk ELSE stock'
  /\ CredFaultless
SlotWriteFails(s, c, partial) ==
  /\ CredFault
  /\ stock' \in {[stock EXCEPT !.creds[s] = x] : x \in {stock.creds[s], c} \cup
                    (IF partial /\ c.form = "container" THEN {Damaged} ELSE {})}
  /\ UNCHANGED stockDisk
SlotUpdated(s, c, partial) == SlotWritten(s, c) \/ SlotWriteFails(s, c, partial)

FreeSlot ==
  LET free == {s \in ResidentSlots : stock.creds[s] = NoResident}
  IN  {s \in free : \A t \in free : s <= t}

\* The slot of a new credential: that of the account, else the first free one, if any.
StoreSlot_First(rp, user) == FreeSlot
StoreSlot(rp, user) ==
  LET same == {s \in Usable(rp) : stock.creds[s].user = user}
  IN  IF same # {} THEN {s \in same : \A t \in same : s <= t} ELSE FreeSlot

NewId == LastCredSlot + 1 + credOps
NewResident(s, rp, user, guarded) ==
  [Resident(IF stock.creds[s].form = "legacy" THEN "legacy" ELSE "container", rp, user, NewId)
     EXCEPT !.guarded = guarded]

\* A command that is refused, or is about none of this.
CborOther ==
  /\ CredCommand /\ DropNext /\ CredFaultless
  /\ heard' = WithoutNext(heard)
  /\ UNCHANGED <<storeVars, rpWalk, credWalk, exempt, lostDeletion>>

\* Commands that are not understood, and those that an option, a permission or the user refuses.
MakeMalformed         == CborOther
MakeUnauthorized      == CborOther
AssertionMalformed    == CborOther
AssertionUnauthorized == CborOther
ManagementRefused     == CborOther
getCredsMetadata      == CborOther     \* reads how many slots are in use
ConfigRefused         == CborOther

\* The exclude list names a credential that may be used.
MakeExcluded(rp, uv) ==
  /\ \E s \in Usable(rp) : stock.creds[s].guarded => uv
  /\ CborOther

\* makeCredential of a resident credential (others leave nothing behind).
cbor_make_credential(rp, user, guarded) ==
  /\ CredCommand /\ DropNext /\ StoreChanged
  /\ \E s \in StoreSlot(rp, user) :
       SlotUpdated(s, NewResident(s, rp, user, guarded), FALSE)
  /\ UNCHANGED <<rpWalk, credWalk, exempt, lostDeletion>>

NewImported(rp, user) == [Resident("container", rp, user, NewId) EXCEPT !.imported = TRUE]

\* The vendor's import takes a free slot whatever the account, and is no CBOR command.
credential_import(rp, user) ==
  /\ CredCommand /\ StoreChanged
  /\ \E s \in FreeSlot :
       SlotUpdated(s, NewImported(rp, user), FALSE)
  /\ exempt' = exempt \cup {<<rp, user>>}
  /\ UNCHANGED <<walkVars, lostDeletion>>

-----------------------------------------------------------------------------
\* What a channel hears when a walk begins, and when it goes on (unless the store has changed).
Begins(h, k, c, item, over, due) ==
  [h EXCEPT ![k][c] = [items |-> {item}, count |-> 1, over |-> over, due |-> due]]
GoesOn(h, k, c, item, over) ==
  LET so == h[k][c] IN
  IF so = NotHeard THEN h
  ELSE [h EXCEPT ![k][c] = [items |-> so.items \cup {item}, count |-> so.count + 1, over |-> over, due |-> so.due]]
Stops(h, k, c) == [h EXCEPT ![k][c] = NotHeard]

\* getAssertion without an allow list: the first MaxList usable credentials, then those of them
\* that may be shown without verification.
Shown(rp, uv) ==
  {s \in Usable(rp) : Skipped(rp, s) < MaxList /\ (stock.creds[s].guarded => uv)}

cbor_get_assertion(c, rp, uv) ==
  /\ CredCommand /\ CredFaultless
  /\ LET ids == Ids(Shown(rp, uv)) IN
     IF ids = {} THEN gna' = NoGna /\ heard' = WithoutNext(heard)
     ELSE \E i \in ids :
            /\ gna' = IF ids = {i} THEN NoGna ELSE [chan |-> c, left |-> ids \ {i}]
            /\ heard' = Begins(WithoutNext(heard), "gna", c, i, ids = {i}, ids)
  /\ UNCHANGED <<storeVars, rpWalk, credWalk, exempt, lostDeletion>>

\* getNextAssertion; a refusal, be it only of another channel, ends it for all.
OnChannel_Any(walk, c) == walk.chan # NoChannel
OnChannel(walk, c) == walk.chan = c

cbor_get_next_assertion(c) ==
  /\ CredCommand /\ CredFaultless
  /\ IF OnChannel(gna, c) /\ gna.left # {}
     THEN \E i \in gna.left :
            /\ gna' = IF gna.left = {i} THEN NoGna ELSE [gna EXCEPT !.left = @ \ {i}]
            /\ heard' = GoesOn(heard, "gna", c, i, gna.left = {i})
     ELSE gna' = NoGna /\ heard' = WithoutNext(heard)
  /\ UNCHANGED <<storeVars, rpWalk, credWalk, exempt, lostDeletion>>

-----------------------------------------------------------------------------
\* credential_rp_count: relying parties with a legacy record, in the order of those files, which may
\* be any, then those of containers in the order of their first slots.
RpEntries ==
  LET boxes == {s \in ResidentSlots : stock.creds[s].form = "container"}
      firsts == {s \in boxes : /\ stock.rps[stock.creds[s].rp] = 0
                               /\ \A t \in boxes : stock.creds[t].rp = stock.creds[s].rp => s <= t}
  IN  {[rp |-> rp, at |-> AtRecord] : rp \in {r \in CredRps : stock.rps[r] > 0}}
      \cup {[rp |-> stock.creds[s].rp, at |-> s] : s \in firsts}
RpIndexes ==
  {ix \in Bijection(1..Cardinality(RpEntries), RpEntries) :
     \A i, j \in DOMAIN ix : i < j /\ ix[i].at # AtRecord => ix[i].at < ix[j].at /\ ix[j].at # AtRecord}

\* credential_rp_load reads the source again, and a container only while it is usable.
RpLoads(e) ==
  IF e.at = AtRecord THEN stock.rps[e.rp] > 0
  ELSE stock.creds[e.at].form = "container" /\ e.at \in Usable(e.rp)

RpBegin(c) ==
  /\ CredCommand /\ DropNext /\ CredFaultless
  /\ \E ix \in RpIndexes :
       LET ok == ix # <<>> /\ RpLoads(ix[1])
           due == {rp \in CredRps : Usable(rp) # {}}
       IN  /\ rpWalk' = [chan |-> c, index |-> ix, next |-> IF ok THEN 2 ELSE 1]
           /\ heard' = IF ok THEN Begins(WithoutNext(heard), "rp", c, ix[1].rp, Len(ix) = 1, due)
                      ELSE Stops(WithoutNext(heard), "rp", c)
  /\ UNCHANGED <<storeVars, credWalk, exempt, lostDeletion>>

\* An entry that cannot be loaded is an error and stays the next one.
RpNext(c) ==
  /\ CredCommand /\ DropNext /\ CredFaultless
  /\ IF OnChannel(rpWalk, c) /\ rpWalk.next <= Len(rpWalk.index) /\ RpLoads(rpWalk.index[rpWalk.next])
     THEN /\ rpWalk' = [rpWalk EXCEPT !.next = @ + 1]
          /\ heard' = GoesOn(WithoutNext(heard), "rp", c, rpWalk.index[rpWalk.next].rp, rpWalk.next = Len(rpWalk.index))
     ELSE heard' = WithoutNext(heard) /\ UNCHANGED rpWalk
  /\ UNCHANGED <<storeVars, credWalk, exempt, lostDeletion>>

\* Credentials of a relying party: the n-th usable one in order of slots.  rpIdHashx is kept while
\* more are to come; an error frees it although the counter would let the walk go on.
CredBegin(c, rp) ==
  /\ CredCommand /\ DropNext /\ CredFaultless
  /\ \/ /\ Usable(rp) = {}
        /\ credWalk' = [credWalk EXCEPT !.chan = c, !.next = 1, !.total = 0]
        /\ heard' = Stops(WithoutNext(heard), "cred", c)
     \/ \E s \in NthUsable(rp, 1) : LET total == Cardinality(Usable(rp)) IN
        /\ credWalk' = [chan |-> c, next |-> 2, total |-> total, rp |-> {rp}]
        /\ heard' = Begins(WithoutNext(heard), "cred", c, stock.creds[s].id, total = 1, Ids(Usable(rp)))
  /\ UNCHANGED <<storeVars, rpWalk, exempt, lostDeletion>>

CredNext(c) ==
  /\ CredCommand /\ DropNext /\ CredFaultless
  /\ IF OnChannel(credWalk, c) /\ credWalk.next <= credWalk.total
     THEN \E rp \in IF credWalk.rp = {} THEN CredRps ELSE credWalk.rp :   \* freed: whatever is there
            \/ \E s \in NthUsable(rp, credWalk.next) :
                 /\ credWalk' = [credWalk EXCEPT !.next = @ + 1]
                 /\ heard' = GoesOn(WithoutNext(heard), "cred", c, stock.creds[s].id, credWalk.next = credWalk.total)
            \/ /\ NthUsable(rp, credWalk.next) = {}
               /\ credWalk' = [credWalk EXCEPT !.rp = {}] /\ heard' = Stops(WithoutNext(heard), "cred", c)
     ELSE heard' = WithoutNext(heard) /\ UNCHANGED credWalk
  /\ UNCHANGED <<storeVars, rpWalk, exempt, lostDeletion>>

\* Walks that nobody goes on with are closed after a while.
cbor_cred_mgmt_tick ==
  /\ \/ rpWalk.chan # NoChannel /\ rpWalk.next <= Len(rpWalk.index)
        /\ rpWalk' = [rpWalk EXCEPT !.chan = NoChannel, !.next = Len(rpWalk.index) + 1] /\ UNCHANGED <<credWalk, gna>>
     \/ credWalk.chan # NoChannel /\ credWalk.next <= credWalk.total
        /\ credWalk' = [credWalk EXCEPT !.chan = NoChannel, !.next = credWalk.total + 1] /\ UNCHANGED <<rpWalk, gna>>
     \/ gna # NoGna /\ gna' = NoGna /\ UNCHANGED <<rpWalk, credWalk>>
  /\ UNCHANGED <<storeVars, clock, heard, exempt, lostDeletion, credOps, credMishaps>>

-----------------------------------------------------------------------------
rp_legacy_decrement(n) == IF n > 0 THEN n - 1 ELSE 0

\* deleteCredential, by its id: of the older format with its count, both left to the write-back; a
\* container in flash, or in part.
DeleteCredential(s) ==
  /\ CredCommand /\ DropNext /\ StoreChanged
  /\ stock.creds[s].form \in {"legacy", "container"}
  /\ IF stock.creds[s].form = "legacy"
     THEN /\ stock' = [stock EXCEPT !.creds[s] = NoResident,
                                    !.rps[stock.creds[s].rp] = rp_legacy_decrement(@)]
          /\ CredFaultless /\ UNCHANGED stockDisk
     ELSE \/ /\ stock' = [stock EXCEPT !.creds[s] = NoResident] /\ stockDisk' = stock'
             /\ CredFaultless
          \/ /\ CredFault /\ UNCHANGED stockDisk
             /\ stock' \in {[stock EXCEPT !.creds[s] = x] : x \in {stock.creds[s], Damaged, NoResident}}
  /\ UNCHANGED <<rpWalk, credWalk, exempt, lostDeletion>>

\* updateUserInformation writes the credential object again under the same id.
UpdateUser(s) ==
  /\ CredCommand /\ DropNext /\ StoreChanged
  /\ stock.creds[s].form \in {"legacy", "container"} /\ Loads(stock.creds[s])
  /\ SlotUpdated(s, stock.creds[s], TRUE)
  /\ UNCHANGED <<rpWalk, credWalk, exempt, lostDeletion>>

\* resident_container_update_metadata: only an active credential changes its status.
Restated(s, status, dated) ==
  /\ stock.creds[s].form = "container" /\ stock.creds[s].status \in {"active", status}
  /\ SlotUpdated(s, [stock.creds[s] EXCEPT !.status = status, !.dated = dated], TRUE)

Revoke(s) ==
  /\ CredCommand /\ DropNext /\ StoreChanged
  /\ stock.creds[s].form = "container" /\ Restated(s, "revoked", stock.creds[s].dated)
  /\ UNCHANGED <<rpWalk, credWalk, exempt, lostDeletion>>

\* A date is given to a credential, with the clock set: past, to come, or none.
Expire(s, date) ==
  /\ CredCommand /\ DropNext /\ StoreChanged
  /\ clock # "unset" /\ stock.creds[s].form = "container" /\ Loads(stock.creds[s])
  /\ Restated(s, IF date = "past" \/ (date = "coming" /\ clock = "late") THEN "expired" ELSE "active", date # "none")
  /\ exempt' = exempt \cup {<<stock.creds[s].rp, stock.creds[s].user>>}
  /\ UNCHANGED <<rpWalk, credWalk, lostDeletion>>

\* authenticatorReset clears the files; the walks' counters stay.
ResetCredentials ==
  /\ CredCommand /\ DropNext /\ StoreChanged /\ CredFaultless
  /\ stock' = [creds |-> [s \in ResidentSlots |-> NoResident], rps |-> [rp \in CredRps |-> 0]]
  /\ UNCHANGED <<stockDisk, rpWalk, credWalk, exempt, lostDeletion>>

-----------------------------------------------------------------------------
\* The clock is set, through the rescue application, or passes the date.
SetRtc ==
  /\ clock' \in (IF clock = "unset" THEN {"early", "late"} ELSE {"late"}) \ {clock}
  /\ StoreChanged
  /\ UNCHANGED <<storeVars, walkVars, exempt, lostDeletion, credOps, credMishaps>>

\* low_flash_task writes one more file.
StockWriteBack ==
  /\ \/ \E s \in ResidentSlots : stockDisk.creds[s] # stock.creds[s]
                                 /\ stockDisk' = [stockDisk EXCEPT !.creds[s] = stock.creds[s]]
     \/ \E rp \in CredRps : stockDisk.rps[rp] # stock.rps[rp]
                            /\ stockDisk' = [stockDisk EXCEPT !.rps[rp] = stock.rps[rp]]
  /\ UNCHANGED <<stock, walkVars, clock, heard, exempt, lostDeletion, credOps, credMishaps>>

\* A credential that a boot would find in use has ended in RAM: deleted, damaged or revoked, or its
\* slot given to another account, or to a container after a credential of the older format.
Ended(c, found) ==
  /\ found.form \in {"legacy", "container"} /\ found.status = "active"
  /\ c.form = found.form => <<c.rp, c.user>> # <<found.rp, found.user>> \/ c.status # "active"

CredPowerLoss ==
  /\ CredFault
  /\ stock' = stockDisk /\ StoreChanged
  /\ lostDeletion' = (lostDeletion \/ \E s \in ResidentSlots : Ended(stock.creds[s], stockDisk.creds[s]))
  /\ rpWalk' = NoRpWalk /\ credWalk' = NoCredWalk /\ gna' = NoGna /\ clock' = "unset"
  /\ UNCHANGED <<stockDisk, exempt, credOps>>

CredentialsNext ==
  \/ \E rp \in CredRps, u \in CredUsers : credential_import(rp, u)
                                          \/ \E g \in BOOLEAN : cbor_make_credential(rp, u, g)
  \/ \E rp \in CredRps, uv \in BOOLEAN : MakeExcluded(rp, uv)
  \/ MakeMalformed \/ MakeUnauthorized \/ AssertionMalformed \/ AssertionUnauthorized
  \/ ManagementRefused \/ getCredsMetadata \/ ConfigRefused
  \/ ResetCredentials
  \/ \E c \in CredChannels : \/ cbor_get_next_assertion(c) \/ RpBegin(c) \/ RpNext(c) \/ CredNext(c)
                             \/ \E rp \in CredRps : CredBegin(c, rp)
                                                    \/ \E uv \in BOOLEAN : cbor_get_assertion(c, rp, uv)
  \/ \E s \in ResidentSlots : \/ DeleteCredential(s) \/ UpdateUser(s) \/ Revoke(s)
                              \/ \E d \in {"past", "coming", "none"} : Expire(s, d)
  \/ cbor_cred_mgmt_tick \/ SetRtc \/ StockWriteBack \/ CredPowerLoss

CredentialsSpec == CredentialsInit /\ [][CredentialsNext]_credVars

-----------------------------------------------------------------------------
\* A walk that a channel has heard to its end, the store unchanged meanwhile, told it everything
\* once: all usable credentials of the relying party, all relying parties that have one, or all
\* credentials of the assertion.  Other channels walking at the same time, commands between two
\* steps, and credentials that may not be used do not make it skip or repeat one.
WalksComplete ==
  \A k \in Walks, c \in CredChannels :
    LET h == heard[k][c] IN
    h.over => /\ h.count = Cardinality(h.items)
              /\ IF k = "rp" THEN lostDeletion \/ h.due \subseteq h.items ELSE h.items = h.due

\* An account has one credential at most: a new registration takes the place of the one in use, of
\* whatever format, and no failed writes or losses of power leave both (imports and dated credentials
\* apart, and deletions and revocations that never reached flash).
OnePerAccount ==
  ~lostDeletion =>
    \A s, t \in ResidentSlots :
      LET a == stock.creds[s]
          b == stock.creds[t]
      IN  s # t /\ Loads(a) /\ Loads(b) /\ <<a.rp, a.user>> \notin exempt
          => <<a.rp, a.user>> # <<b.rp, b.user>>

\* What getNextAssertion may still sign with is a credential the device holds, neither revoked nor
\* replaced nor deleted since the list was made.
AssertionsLive ==
  \A i \in gna.left : \E s \in ResidentSlots :
    stock.creds[s].form \in {"legacy", "container"} /\ stock.creds[s].id = i /\ stock.creds[s].status = "active"
=================================================================================
