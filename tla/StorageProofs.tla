------------------------------ MODULE StorageProofs ------------------------------
(***************************************************************************)
(* What the applications that keep counters in flash promise for every     *)
(* value of their constants: the one-time-password slots and OATH.         *)
(***************************************************************************)
EXTENDS Otp, Oath, FiniteSetTheorems, WellFoundedInduction, TLAPS

(* The slots.  A password is a new one because nothing typed before is     *)
(* ahead of the slot it came from: an HOTP counter is past every value     *)
(* typed; a Yubico counter is not behind, and where a configuration that   *)
(* was bumped since power came on types on the counter of an earlier       *)
(* password, the session is past it.  Slots hold different configurations, *)
(* or one would catch up with the other.                                   *)

Slots == {Unused} \cup [form : {"legacy", "container", "unmarked"}, kind : SlotKinds, id : Nat, counter : Nat]

\* Password p, of the configuration in slot c with session counter x, is in the past.
Past(c, x, bumped, p) ==
  /\ c.kind = "hotp" => p[2] < c.counter
  /\ c.kind = "yubico" => /\ p[2] <= c.counter
                          /\ c.id \in bumped /\ p[2] = c.counter /\ p[2] < MaxCounter => p[3] < x

SlotsOK(b, x, bumped, ty, n) ==
  /\ b \in [OtpSlots -> Slots] /\ x \in [OtpSlots -> 0..Sessions - 1] /\ n \in Nat
  /\ ty \subseteq Nat \X Nat \X Nat
  /\ \A p \in ty : p[1] <= n
  /\ \A s \in OtpSlots : b[s] # Unused => b[s].id <= n
  /\ \A s, t \in OtpSlots : b[s] # Unused /\ b[t] # Unused /\ b[s].id = b[t].id => s = t
  /\ \A s \in OtpSlots : b[s] # Unused =>
       \A p \in ty : p[1] = b[s].id => Past(b[s], x[s], bumped, p)

OtpInv ==
  /\ excused \in BOOLEAN /\ repeated \in BOOLEAN /\ (repeated => excused)
  /\ excused \/ SlotsOK(bank, session_counter, fresh, typed, otpOps)

\* Slot c goes on as slot d, with its configuration and no counter taken back.
Continues(c, x, bumped, d, y, bumped2) ==
  /\ d.id = c.id /\ d.kind = c.kind /\ d.counter >= c.counter
  /\ c.kind = "yubico" => d.counter > c.counter \/ d.counter >= MaxCounter \/ d.id \notin bumped2 \/ (c.id \in bumped /\ y >= x)

\* Every slot t comes from slot from[t], or is the new one.
Carried(b, x, bumped, n, b2, x2, bumped2, n2, from, new) ==
  /\ \A s, t \in OtpSlots : from[s] = from[t] => s = t
  /\ \A t \in OtpSlots : b2[t] # Unused =>
       \/ b[from[t]] # Unused /\ Continues(b[from[t]], x[from[t]], bumped, b2[t], x2[t], bumped2)
       \/ t = new /\ b2[t].id = n2 /\ n2 > n

\* Slots go on, in their places or in others', and at most one is new.
LEMMA SlotsContinue ==
  ASSUME NEW b, NEW x, NEW bumped, NEW ty, NEW n, SlotsOK(b, x, bumped, ty, n), OtpAssumption,
         NEW b2 \in [OtpSlots -> Slots], NEW x2 \in [OtpSlots -> 0..Sessions - 1], NEW bumped2, NEW n2 \in Nat, n2 >= n,
         NEW from \in [OtpSlots -> OtpSlots], NEW new,
         Carried(b, x, bumped, n, b2, x2, bumped2, n2, from, new)
  PROVE  SlotsOK(b2, x2, bumped2, ty, n2)
<1>1. n \in Nat /\ b \in [OtpSlots -> Slots] /\ x \in [OtpSlots -> 0..Sessions - 1] /\ ty \subseteq Nat \X Nat \X Nat
  BY DEF SlotsOK
<1>2. \A p \in ty : p[1] \in Nat /\ p[2] \in Nat /\ p[3] \in Nat /\ p[1] <= n
  BY <1>1 DEF SlotsOK
<1>3. \A s \in OtpSlots : /\ b[s] # Unused => b[s].id \in Nat /\ b[s].counter \in Nat /\ b[s].id <= n
                          /\ b2[s] # Unused => b2[s].id \in Nat /\ b2[s].counter \in Nat
  BY <1>1 DEF SlotsOK, Slots
<1> USE DEF Carried
<1>4. \A t \in OtpSlots : b2[t] # Unused => b2[t].id <= n2
  BY <1>1, <1>3 DEF Continues
<1>5. ASSUME NEW s \in OtpSlots, NEW t \in OtpSlots, b2[s] # Unused, b2[t] # Unused, b2[s].id = b2[t].id
      PROVE  s = t
  <2>1. CASE s = new /\ b2[s].id = n2 /\ n2 > n
    BY <1>1, <1>3, <1>5, <2>1 DEF Continues
  <2>2. CASE t = new /\ b2[t].id = n2 /\ n2 > n
    BY <1>1, <1>3, <1>5, <2>2 DEF Continues
  <2>3. CASE b[from[s]] # Unused /\ b[from[t]] # Unused /\ b2[s].id = b[from[s]].id /\ b2[t].id = b[from[t]].id
    BY <1>5, <2>3 DEF SlotsOK
  <2> QED  BY <1>5, <2>1, <2>2, <2>3 DEF Continues
<1>6. ASSUME NEW t \in OtpSlots, b2[t] # Unused, NEW p \in ty, p[1] = b2[t].id
      PROVE  Past(b2[t], x2[t], bumped2, p)
  <2>1. ~(b2[t].id = n2 /\ n2 > n)
    BY <1>1, <1>2, <1>6
  <2> DEFINE s == from[t]
  <2>2. s \in OtpSlots /\ b[s] # Unused
        /\ Continues(b[s], x[s], bumped, b2[t], x2[t], bumped2)
    BY <1>6, <2>1
  <2> HIDE DEF s
  <2>3. Past(b[s], x[s], bumped, p)
    BY <1>6, <2>2 DEF SlotsOK, Continues
  <2>4. x[s] \in Nat /\ x2[t] \in Nat
    BY <1>1, <2>2
  <2> QED  BY <1>2, <1>3, <1>6, <2>2, <2>3, <2>4 DEF Past, Continues
<1> QED  BY <1>1, <1>2, <1>4, <1>5, <1>6 DEF SlotsOK

\* The password just typed is in the past of its slot; the other slots hold other configurations.
LEMMA SlotsTyped ==
  ASSUME NEW b, NEW x, NEW bumped, NEW ty, NEW n, SlotsOK(b, x, bumped, ty, n),
         NEW s \in OtpSlots, b[s] # Unused, NEW c \in Nat, NEW round \in Nat,
         Past(b[s], x[s], bumped, <<b[s].id, c, round>>)
  PROVE  SlotsOK(b, x, bumped, ty \cup {<<b[s].id, c, round>>}, n)
<1> DEFINE p == <<b[s].id, c, round>>
<1>1. b[s].id \in Nat /\ b[s].id <= n
  BY DEF SlotsOK, Slots
<1>2. p \in Nat \X Nat \X Nat /\ p[1] = b[s].id
  BY <1>1
<1> HIDE DEF p
<1>3. \A t \in OtpSlots : b[t] # Unused /\ p[1] = b[t].id => Past(b[t], x[t], bumped, p)
  BY <1>2 DEF SlotsOK, p
<1>4. SlotsOK(b, x, bumped, ty \cup {p}, n)
  BY <1>1, <1>2, <1>3 DEF SlotsOK
<1> QED  BY <1>4 DEF p

\* One slot changes; the others keep their place and their sessions.
LEMMA SlotPut ==
  ASSUME NEW b, NEW x, NEW bumped, NEW ty, NEW n, SlotsOK(b, x, bumped, ty, n), OtpAssumption,
         NEW s \in OtpSlots, NEW d \in Slots, NEW x2 \in [OtpSlots -> 0..Sessions - 1], NEW bumped2,
         NEW n2 \in Nat, n2 >= n, \A t \in OtpSlots : t # s => x2[t] = x[t],
         \A i \in Nat : i <= n /\ i \in bumped2 => i \in bumped,
         d # Unused => \/ /\ b[s] # Unused
                          /\ Continues(b[s], x[s], bumped, d, x2[s], bumped2)
                       \/ d.id = n2 /\ n2 > n
  PROVE  SlotsOK([b EXCEPT ![s] = d], x2, bumped2, ty, n2)
<1> DEFINE b2 == [b EXCEPT ![s] = d]
           from == [t \in OtpSlots |-> t]
<1>1. b \in [OtpSlots -> Slots] /\ x \in [OtpSlots -> 0..Sessions - 1]
  BY DEF SlotsOK
<1>2. b2 \in [OtpSlots -> Slots] /\ b2[s] = d /\ \A t \in OtpSlots : t # s => b2[t] = b[t]
  BY <1>1
<1>3. from \in [OtpSlots -> OtpSlots] /\ \A t \in OtpSlots : from[t] = t
  OBVIOUS
<1> HIDE DEF b2, from
<1>4. ASSUME NEW t \in OtpSlots, t # s, b2[t] # Unused
      PROVE  b[t] # Unused /\ Continues(b[t], x[t], bumped, b2[t], x2[t], bumped2)
  <2>1. b2[t] = b[t] /\ x2[t] = x[t] /\ b[t].id \in Nat /\ b[t].id <= n /\ b[t].counter \in Nat
    BY <1>2, <1>4 DEF SlotsOK, Slots
  <2>2. b[t].id \in bumped2 => b[t].id \in bumped
    BY <2>1
  <2>3. x[t] \in Nat
    BY <1>1 DEF OtpAssumption
  <2> QED  BY <1>4, <2>1, <2>2, <2>3 DEF Continues
<1>5. Carried(b, x, bumped, n, b2, x2, bumped2, n2, from, s)
  BY <1>2, <1>3, <1>4 DEF Carried
<1>7. SlotsOK(b2, x2, bumped2, ty, n2)
  BY <1>2, <1>3, <1>5, SlotsContinue
<1> QED  BY <1>7 DEF b2

\* What is stored has the configuration and the counter of c, in whatever form.
LEMMA FormFacts ==
  ASSUME NEW c \in Slots \ {Unused}, NEW f \in {"legacy", "container", "unmarked"}
  PROVE  /\ [c EXCEPT !.form = f] \in Slots \ {Unused}
         /\ [c EXCEPT !.form = f].id = c.id /\ [c EXCEPT !.form = f].kind = c.kind
         /\ [c EXCEPT !.form = f].counter = c.counter
<1> DEFINE F == {"legacy", "container", "unmarked"}
           R == [form : F, kind : SlotKinds, id : Nat, counter : Nat]
<1>1. c \in R
  BY DEF Slots
<1>2. [c EXCEPT !.form = f] \in R /\ [c EXCEPT !.form = f].form = f
  BY <1>1
<1>3. Unused.form = "none"
  BY DEF Unused
<1>4. [c EXCEPT !.form = f] # Unused
  BY <1>2, <1>3
<1>5. /\ [c EXCEPT !.form = f].id = c.id /\ [c EXCEPT !.form = f].kind = c.kind
      /\ [c EXCEPT !.form = f].counter = c.counter
  BY <1>1
<1> QED  BY <1>2, <1>4, <1>5 DEF Slots

\* A command that keeps the configuration of its slot, or puts the new one there, done or failed.
LEMMA StoreStep ==
  ASSUME SlotsOK(bank, session_counter, fresh, typed, otpOps), NEW s \in OtpSlots, NEW c \in Slots \ {Unused},
         NEW x2 \in [OtpSlots -> 0..Sessions - 1], NEW bumped2, NEW n2 \in Nat, n2 >= otpOps,
         \A t \in OtpSlots : t # s => x2[t] = session_counter[t],
         \A i \in Nat : i <= otpOps /\ i \in bumped2 => i \in fresh,
         \/ /\ bank[s] # Unused
            /\ Continues(bank[s], session_counter[s], fresh, c, x2[s], bumped2)
         \/ c.id = n2 /\ n2 > otpOps
  PROVE  /\ SlotsOK(Stored(bank, s, c), x2, bumped2, typed, n2)
         /\ SlotsOK([bank EXCEPT ![s] = [c EXCEPT !.form = "unmarked"]], x2, bumped2, typed, n2)
<1>1. bank \in [OtpSlots -> Slots]
  BY DEF SlotsOK
<1>2. PICK f \in {"legacy", "container", "unmarked"} : Stored(bank, s, c) = [bank EXCEPT ![s] = [c EXCEPT !.form = f]]
  BY DEF Stored
<1>4. ASSUME NEW d \in Slots \ {Unused}, d.id = c.id /\ d.kind = c.kind /\ d.counter = c.counter
      PROVE  SlotsOK([bank EXCEPT ![s] = d], x2, bumped2, typed, n2)
  <2>1. \/ /\ bank[s] # Unused
           /\ Continues(bank[s], session_counter[s], fresh, d, x2[s], bumped2)
        \/ d.id = n2 /\ n2 > otpOps
    BY <1>4 DEF Continues
  <2> QED  BY <2>1, SlotPut, OtpAssumption
<1>5. ASSUME NEW g \in {"legacy", "container", "unmarked"}
      PROVE  SlotsOK([bank EXCEPT ![s] = [c EXCEPT !.form = g]], x2, bumped2, typed, n2)
  <2> DEFINE e == [c EXCEPT !.form = g]
  <2>1. e \in Slots \ {Unused} /\ e.id = c.id /\ e.kind = c.kind /\ e.counter = c.counter
    BY FormFacts
  <2> HIDE DEF e
  <2>2. SlotsOK([bank EXCEPT ![s] = e], x2, bumped2, typed, n2)
    BY <1>4, <2>1
  <2> QED  BY <2>2 DEF e
<1>6. SlotsOK(Stored(bank, s, c), x2, bumped2, typed, n2)
  BY <1>2, <1>5
<1> QED  BY <1>5, <1>6

\* The same configuration with another counter.
LEMMA CounterFacts ==
  ASSUME NEW c \in Slots \ {Unused}, NEW k \in Nat
  PROVE  /\ [c EXCEPT !.counter = k] \in Slots \ {Unused}
         /\ [c EXCEPT !.counter = k].id = c.id /\ [c EXCEPT !.counter = k].kind = c.kind
         /\ [c EXCEPT !.counter = k].counter = k
<1> DEFINE F == {"legacy", "container", "unmarked"}
           R == [form : F, kind : SlotKinds, id : Nat, counter : Nat]
<1>1. c \in R
  BY DEF Slots
<1>2. [c EXCEPT !.counter = k] \in R /\ [c EXCEPT !.counter = k].form \in F
  BY <1>1
<1>3. Unused.form = "none"
  BY DEF Unused
<1>4. [c EXCEPT !.counter = k] # Unused
  BY <1>2, <1>3
<1>5. /\ [c EXCEPT !.counter = k].id = c.id /\ [c EXCEPT !.counter = k].kind = c.kind
      /\ [c EXCEPT !.counter = k].counter = k
  BY <1>1
<1> QED  BY <1>2, <1>4, <1>5 DEF Slots

\* A session counter goes on by one, or wraps to 0.
LEMMA SessionFacts ==
  ASSUME OtpAssumption, NEW x \in 0..Sessions - 1
  PROVE  /\ (x + 1) % Sessions \in 0..Sessions - 1
         /\ (x + 1) % Sessions = 0 \/ (x + 1) % Sessions = x + 1
<1>1. Sessions \in Nat /\ Sessions > 0 /\ x \in Nat /\ x + 1 <= Sessions
  BY DEF OtpAssumption
<1>2. CASE x + 1 = Sessions
  <2>1. Sessions % Sessions = 0
    BY <1>1
  <2> QED  BY <1>1, <1>2, <2>1
<1>3. CASE x + 1 < Sessions
  BY <1>1, <1>3
<1> QED  BY <1>1, <1>2, <1>3

\* Operations that change no slot, and have more commands behind them.
LEMMA SlotsStay ==
  ASSUME NEW b, NEW x, NEW bumped, NEW ty, NEW n, SlotsOK(b, x, bumped, ty, n), NEW n2 \in Nat, n2 >= n
  PROVE  SlotsOK(b, x, bumped, ty, n2)
<1>1. n \in Nat /\ \A p \in ty : p[1] \in Nat
  BY DEF SlotsOK
<1>2. \A s \in OtpSlots : b[s] # Unused => b[s].id \in Nat
  BY DEF SlotsOK, Slots
<1>3. (\A p \in ty : p[1] <= n2) /\ (\A s \in OtpSlots : b[s] # Unused => b[s].id <= n2)
  BY <1>1, <1>2 DEF SlotsOK
<1> QED  BY <1>3 DEF SlotsOK

\* The boot's bump, in full or cut short: counters go up, and only those at their end become
\* fresh without it.
LEMMA BumpStep ==
  ASSUME SlotsOK(bank, session_counter, fresh, typed, otpOps), NEW ss \in SUBSET {s \in OtpSlots : Bumps(s)},
         NEW bumped2, NEW n2 \in Nat, n2 >= otpOps,
         \/ bumped2 = fresh
         \/ ss = {s \in OtpSlots : Bumps(s)}
  PROVE  SlotsOK(BumpAll(ss), session_counter, bumped2, typed, n2)
<1> DEFINE b2 == BumpAll(ss)
           from == [t \in OtpSlots |-> t]
<1>1. bank \in [OtpSlots -> Slots] /\ session_counter \in [OtpSlots -> 0..Sessions - 1]
  BY DEF SlotsOK
<1>2. MaxCounter \in Nat /\ Sessions \in Nat
  BY OtpAssumption DEF OtpAssumption
<1>3. ASSUME NEW t \in OtpSlots
      PROVE  /\ b2[t] \in Slots /\ (b2[t] # Unused => bank[t] # Unused)
             /\ b2[t] # Unused => Continues(bank[t], session_counter[t], fresh, b2[t], session_counter[t], bumped2)
  <2>1. session_counter[t] \in Nat
    BY <1>1, <1>2
  <2>2. CASE t \in ss
    <3>1. bank[t] \in Slots \ {Unused} /\ bank[t].counter \in Nat
      BY <1>1, <2>2 DEF Bumps, Held, Slots
    <3>2. b2[t] = [bank[t] EXCEPT !.counter = bank[t].counter + 1]
      BY <2>2 DEF BumpAll, Bumped
    <3> HIDE DEF b2
    <3>3. bank[t].counter + 1 \in Nat
      BY <3>1
    <3>4. /\ b2[t] \in Slots \ {Unused} /\ b2[t].id = bank[t].id /\ b2[t].kind = bank[t].kind
          /\ b2[t].counter = bank[t].counter + 1
      BY <3>1, <3>2, <3>3, CounterFacts
    <3> QED  BY <3>1, <3>4 DEF Continues
  <2>3. CASE t \notin ss
    <3>1. b2[t] = bank[t] /\ bank[t] \in Slots /\ (bank[t] # Unused => bank[t].counter \in Nat)
      BY <1>1, <2>3 DEF BumpAll, Bumped, Slots
    <3> HIDE DEF b2
    <3>2. CASE bumped2 = fresh
      BY <2>1, <3>1, <3>2 DEF Continues
    <3>3. CASE ss = {s \in OtpSlots : Bumps(s)}
      <4>1. bank[t] # Unused /\ bank[t].kind = "yubico" => bank[t].counter >= MaxCounter
        BY <1>2, <2>3, <3>1, <3>3 DEF Bumps, Held
      <4> QED  BY <3>1, <4>1 DEF Continues
    <3> QED  BY <3>2, <3>3
  <2> QED  BY <2>2, <2>3
<1>4. b2 \in [OtpSlots -> Slots]
  <2>1. b2 = [t \in OtpSlots |-> b2[t]]
    BY DEF BumpAll, Bumped
  <2> HIDE DEF b2
  <2> QED  BY <1>3, <2>1
<1>5. from \in [OtpSlots -> OtpSlots] /\ \A t \in OtpSlots : from[t] = t
  OBVIOUS
<1> HIDE DEF b2, from
<1>6. Carried(bank, session_counter, fresh, otpOps, b2, session_counter, bumped2, n2, from, 0)
  BY <1>3, <1>5 DEF Carried
<1>7. SlotsOK(b2, session_counter, bumped2, typed, n2)
  BY <1>1, <1>4, <1>5, <1>6, SlotsContinue, OtpAssumption
<1> QED  BY <1>7 DEF b2

\* Counters of a Yubico slot around a press.
LEMMA NextCounterFacts ==
  ASSUME OtpAssumption, NEW n \in Nat, NEW x \in 0..Sessions - 1
  PROVE  /\ This(n) \in Nat /\ This(n) >= n /\ This(n) >= 1 /\ (This(n) <= n => This(n) = n)
         /\ NextCounter(n, x) \in Nat /\ NextCounter(n, x) >= This(n)
         /\ \/ NextCounter(n, x) > This(n)
            \/ NextCounter(n, x) >= MaxCounter
            \/ NextCounter(n, x) = This(n) /\ (x + 1) % Sessions = x + 1
<1>1. MaxCounter \in Nat /\ This(n) \in Nat /\ This(n) >= n /\ This(n) >= 1 /\ (This(n) <= n => This(n) = n)
  BY DEF OtpAssumption, This
<1>2. (x + 1) % Sessions = 0 \/ (x + 1) % Sessions = x + 1
  BY SessionFacts
<1> QED  BY <1>1, <1>2 DEF NextCounter

\* The slot's side of a press: its next counter is stored, and its session goes on.
LEMMA YubicoSlot ==
  ASSUME SlotsOK(bank, session_counter, fresh, typed, otpOps), NEW s \in OtpSlots, Held(s), bank[s].kind = "yubico"
  PROVE  LET n == bank[s].counter
             c == [bank[s] EXCEPT !.counter = NextCounter(n, session_counter[s])]
         IN  /\ n \in Nat /\ session_counter[s] \in 0..Sessions - 1
             /\ c \in Slots \ {Unused} /\ c.id = bank[s].id /\ c.kind = "yubico"
             /\ c.counter = NextCounter(n, session_counter[s])
             /\ Continues(bank[s], session_counter[s], fresh, c, session_counter[s], fresh)
             /\ bank[s].id \in fresh =>
                  Continues(bank[s], session_counter[s], fresh, c, (session_counter[s] + 1) % Sessions, fresh)
<1> DEFINE n == bank[s].counter
           x == session_counter[s]
           k == NextCounter(n, x)
           c == [bank[s] EXCEPT !.counter = k]
<1>1. bank[s] \in Slots \ {Unused} /\ n \in Nat /\ x \in 0..Sessions - 1
  BY DEF SlotsOK, Held, Slots
<1>2. Sessions \in Nat /\ MaxCounter \in Nat
  BY OtpAssumption DEF OtpAssumption
<1>3. /\ This(n) \in Nat /\ This(n) >= n /\ k \in Nat /\ k >= This(n)
      /\ \/ k > This(n)
         \/ k >= MaxCounter
         \/ k = This(n) /\ (x + 1) % Sessions = x + 1
  BY <1>1, NextCounterFacts, OtpAssumption
<1> HIDE DEF k
<1>4. c \in Slots \ {Unused} /\ c.id = bank[s].id /\ c.kind = bank[s].kind /\ c.counter = k
  BY <1>1, <1>3, CounterFacts
<1> HIDE DEF c
<1>5. x \in Nat /\ k >= n
  BY <1>1, <1>2, <1>3
<1>6. Continues(bank[s], x, fresh, c, x, fresh)
  BY <1>4, <1>5 DEF Continues
<1>7. bank[s].id \in fresh => Continues(bank[s], x, fresh, c, (x + 1) % Sessions, fresh)
  BY <1>1, <1>2, <1>3, <1>4, <1>5 DEF Continues
<1> QED  BY <1>1, <1>4, <1>6, <1>7 DEF c, k

\* A Yubico password: typed from a fresh configuration it is a new one, and in the slot's past after.
LEMMA PressYubicoStep ==
  ASSUME OtpInv, NEW s \in OtpSlots, PressYubico(s)
  PROVE  OtpInv'
<1> DEFINE n == bank[s].counter
           x == session_counter[s]
           k == NextCounter(n, x)
           c == [bank[s] EXCEPT !.counter = k]
           y == (x + 1) % Sessions
           p == <<bank[s].id, This(n), x>>
           x2 == [session_counter EXCEPT ![s] = y]
<1>1. /\ ~excused /\ otpOps' = otpOps + 1 /\ Held(s) /\ bank[s].kind = "yubico" /\ fresh' = fresh
      /\ excused = FALSE /\ repeated = FALSE
  BY DEF PressYubico, OtpOp, OtpInv
<1>2. SlotsOK(bank, session_counter, fresh, typed, otpOps)
  BY <1>1 DEF OtpInv
<1>3. /\ n \in Nat /\ x \in 0..Sessions - 1
      /\ c \in Slots \ {Unused} /\ c.id = bank[s].id /\ c.kind = "yubico" /\ c.counter = k
      /\ Continues(bank[s], x, fresh, c, x, fresh)
      /\ bank[s].id \in fresh => Continues(bank[s], x, fresh, c, y, fresh)
  BY <1>1, <1>2, YubicoSlot
<1>4. /\ This(n) \in Nat /\ (This(n) <= n => This(n) = n) /\ k \in Nat /\ k >= This(n)
      /\ \/ k > This(n)
         \/ k >= MaxCounter
         \/ k = This(n) /\ y = x + 1
  BY <1>3, NextCounterFacts, OtpAssumption
<1>5. otpOps' \in Nat /\ otpOps' >= otpOps
  BY <1>1, <1>2 DEF SlotsOK
<1>6. y \in 0..Sessions - 1
  BY <1>3, SessionFacts, OtpAssumption
<1>7. Sessions \in Nat /\ MaxCounter \in Nat /\ session_counter \in [OtpSlots -> 0..Sessions - 1]
      /\ bank \in [OtpSlots -> Slots]
  BY <1>2, OtpAssumption DEF SlotsOK, OtpAssumption
<1>8. x2 \in [OtpSlots -> 0..Sessions - 1] /\ x2[s] = y /\ \A t \in OtpSlots : t # s => x2[t] = session_counter[t]
  BY <1>6, <1>7
<1>9. \/ /\ bank' = Stored(bank, s, c) \/ (bank' = bank /\ c = bank[s])
         /\ session_counter' = x2 /\ Type(s, This(n), x)
      \/ StoreFailsWith(s, c) /\ UNCHANGED <<session_counter, typed, repeated, excused>>
  BY DEF PressYubico, SlotStore, otpStored
<1> HIDE DEF c, k, y, x2
<1>10. CASE /\ bank' = Stored(bank, s, c) \/ (bank' = bank /\ c = bank[s])
            /\ session_counter' = x2 /\ Type(s, This(n), x)
  <2>1. /\ typed' = typed \cup {p} /\ repeated' = (p \in typed /\ This(n) < MaxCounter)
        /\ excused' = (bank[s].id \notin fresh)
    BY <1>1, <1>10 DEF Type
  <2>2. CASE bank[s].id \notin fresh
    BY <2>1, <2>2 DEF OtpInv
  <2>3. CASE bank[s].id \in fresh
    <3>1. ~(p \in typed /\ This(n) < MaxCounter)
      <4> SUFFICES ASSUME p \in typed, This(n) < MaxCounter  PROVE FALSE
        OBVIOUS
      <4>1. Past(bank[s], x, fresh, p)
        BY <1>1, <1>2 DEF SlotsOK, Held
      <4>2. This(n) = n
        BY <1>1, <1>4, <4>1 DEF Past
      <4> QED  BY <1>1, <1>3, <1>7, <2>3, <4>1, <4>2 DEF Past
    <3>2. SlotsOK(bank', x2, fresh, typed, otpOps')
      <4>1. CASE bank' = Stored(bank, s, c)
        BY <1>1, <1>2, <1>3, <1>5, <1>8, <2>3, <4>1, StoreStep DEF Held
      <4>2. CASE bank' = bank /\ c = bank[s]
        <5>1. bank[s] \in Slots /\ bank = [bank EXCEPT ![s] = bank[s]]
          BY <1>7
        <5>2. Continues(bank[s], session_counter[s], fresh, bank[s], x2[s], fresh)
          BY <1>3, <1>8, <2>3, <4>2
        <5>3. SlotsOK([bank EXCEPT ![s] = bank[s]], x2, fresh, typed, otpOps')
          BY <1>1, <1>2, <1>5, <1>8, <5>1, <5>2, SlotPut, OtpAssumption DEF Held
        <5> QED  BY <4>2, <5>1, <5>3
      <4> QED  BY <1>10, <4>1, <4>2
    <3>3. bank'[s] # Unused /\ bank'[s].id = bank[s].id /\ bank'[s].kind = "yubico" /\ bank'[s].counter = k
      <4>1. CASE bank' = Stored(bank, s, c)
        <5>1. PICK f \in {"legacy", "container", "unmarked"} : bank'[s] = [c EXCEPT !.form = f]
          BY <1>7, <4>1 DEF Stored
        <5>2. /\ [c EXCEPT !.form = f] \in Slots \ {Unused}
              /\ [c EXCEPT !.form = f].id = c.id /\ [c EXCEPT !.form = f].kind = c.kind
              /\ [c EXCEPT !.form = f].counter = c.counter
          BY <1>3, FormFacts
        <5> HIDE DEF n, x, p
        <5> DEFINE d == [c EXCEPT !.form = f]
        <5>3. d # Unused /\ d.id = c.id /\ d.kind = c.kind /\ d.counter = c.counter /\ bank'[s] = d
          BY <5>1, <5>2
        <5> HIDE DEF d
        <5> QED  BY <1>3, <5>3
      <4>2. CASE bank' = bank /\ c = bank[s]
        BY <1>1, <1>3, <4>2 DEF Held
      <4> QED  BY <1>10, <4>1, <4>2
    <3>4. Past(bank'[s], x2[s], fresh, p)
      <4>1. p[2] = This(n) /\ p[3] = x /\ x \in Nat
        BY <1>3, <1>7
      <4> QED  BY <1>4, <1>7, <1>8, <3>3, <4>1 DEF Past
    <3>5. SlotsOK(bank', x2, fresh, typed \cup {<<bank'[s].id, This(n), x>>}, otpOps')
      <4>1. x \in Nat
        BY <1>3, <1>7
      <4> QED  BY <1>4, <3>2, <3>3, <3>4, <4>1, SlotsTyped
    <3>6. repeated' = FALSE /\ excused' = FALSE
      BY <2>1, <2>3, <3>1
    <3>7. SlotsOK(bank', session_counter', fresh', typed', otpOps')
      BY <1>1, <1>10, <2>1, <3>3, <3>5
    <3> QED  BY <3>6, <3>7 DEF OtpInv
  <2> QED  BY <2>2, <2>3
<1>11. CASE StoreFailsWith(s, c) /\ UNCHANGED <<session_counter, typed, repeated, excused>>
  <2>1. bank' \in {bank, Stored(bank, s, c)}
    <3>1. bank[s].form # "none"
      BY <1>1, <1>7 DEF Slots, Held
    <3> QED  BY <1>11, <3>1 DEF StoreFailsWith
  <2>2. SlotsOK(bank', session_counter, fresh, typed, otpOps')
    <3>1. CASE bank' = bank
      BY <1>2, <1>5, <3>1, SlotsStay
    <3>2. CASE bank' = Stored(bank, s, c)
      BY <1>1, <1>2, <1>3, <1>5, <1>7, <3>2, StoreStep DEF Held
    <3> QED  BY <2>1, <3>1, <3>2
  <2>3. repeated' = FALSE /\ excused' = FALSE
    BY <1>1, <1>11
  <2> QED  BY <1>1, <1>11, <2>2, <2>3 DEF OtpInv
<1> QED  BY <1>9, <1>10, <1>11

\* An HOTP password is the counter's, which then goes on; one that could not be stored excuses.
LEMMA PressHotpStep ==
  ASSUME OtpInv, NEW s \in OtpSlots, PressHotp(s)
  PROVE  OtpInv'
<1> DEFINE n == bank[s].counter
           c == [bank[s] EXCEPT !.counter = n + 1]
           p == <<bank[s].id, n, 0>>
<1>1. /\ ~excused /\ otpOps' = otpOps + 1 /\ Held(s) /\ bank[s].kind = "hotp" /\ fresh' = fresh
      /\ session_counter' = session_counter /\ excused = FALSE /\ repeated = FALSE
  BY DEF PressHotp, OtpOp, OtpInv, otpRam
<1>2. SlotsOK(bank, session_counter, fresh, typed, otpOps)
  BY <1>1 DEF OtpInv
<1>3. bank[s] \in Slots \ {Unused} /\ n \in Nat /\ bank \in [OtpSlots -> Slots]
      /\ session_counter \in [OtpSlots -> 0..Sessions - 1]
  BY <1>1, <1>2 DEF SlotsOK, Held, Slots
<1>4. c \in Slots \ {Unused} /\ c.id = bank[s].id /\ c.kind = "hotp" /\ c.counter = n + 1
  BY <1>1, <1>3, CounterFacts
<1>5. /\ typed' = typed \cup {p} /\ repeated' = (repeated \/ p \in typed)
      /\ \/ bank' = Stored(bank, s, c) /\ excused' = FALSE
         \/ excused' = TRUE
  BY <1>1, <1>4 DEF PressHotp, SlotStore
<1> HIDE DEF c
<1>6. otpOps' \in Nat /\ otpOps' >= otpOps
  BY <1>1, <1>2 DEF SlotsOK
<1>7. CASE excused' = TRUE
  BY <1>5, <1>7 DEF OtpInv
<1>8. CASE bank' = Stored(bank, s, c) /\ excused' = FALSE
  <2>1. p \notin typed
    <3> SUFFICES ASSUME p \in typed  PROVE FALSE
      OBVIOUS
    <3>1. Past(bank[s], session_counter[s], fresh, p)
      BY <1>1, <1>2 DEF SlotsOK, Held
    <3> QED  BY <1>1, <1>3, <3>1 DEF Past
  <2>2. SlotsOK(bank', session_counter, fresh, typed, otpOps')
    <3>1. Continues(bank[s], session_counter[s], fresh, c, session_counter[s], fresh)
      BY <1>1, <1>3, <1>4 DEF Continues
    <3> QED  BY <1>1, <1>2, <1>3, <1>4, <1>6, <1>8, <3>1, StoreStep DEF Held
  <2>3. bank'[s] # Unused /\ bank'[s].id = bank[s].id /\ bank'[s].kind = "hotp" /\ bank'[s].counter = n + 1
    <3>1. PICK f \in {"legacy", "container", "unmarked"} : bank'[s] = [c EXCEPT !.form = f]
      BY <1>3, <1>8 DEF Stored
    <3>2. /\ [c EXCEPT !.form = f] \in Slots \ {Unused}
          /\ [c EXCEPT !.form = f].id = c.id /\ [c EXCEPT !.form = f].kind = c.kind
          /\ [c EXCEPT !.form = f].counter = c.counter
      BY <1>4, FormFacts
    <3> HIDE DEF n, p
    <3> DEFINE d == [c EXCEPT !.form = f]
    <3>3. d # Unused /\ d.id = c.id /\ d.kind = c.kind /\ d.counter = c.counter /\ bank'[s] = d
      BY <3>1, <3>2
    <3> HIDE DEF d
    <3> QED  BY <1>4, <3>3
  <2>4. Past(bank'[s], session_counter[s], fresh, p)
    BY <1>3, <2>3 DEF Past
  <2>5. SlotsOK(bank', session_counter, fresh, typed \cup {<<bank'[s].id, n, 0>>}, otpOps')
    BY <1>3, <2>2, <2>3, <2>4, SlotsTyped
  <2>6. repeated' = FALSE
    BY <1>1, <1>5, <2>1
  <2>7. SlotsOK(bank', session_counter', fresh', typed', otpOps')
    BY <1>1, <1>5, <2>3, <2>5
  <2> QED  BY <1>8, <2>6, <2>7 DEF OtpInv
<1> QED  BY <1>5, <1>7, <1>8

\* A new configuration has an identity no password was typed for.
LEMMA ConfigureStep ==
  ASSUME OtpInv, NEW s \in OtpSlots, NEW kind \in SlotKinds, Configure(s, kind)
  PROVE  OtpInv'
<1> DEFINE c == [form |-> "container", kind |-> kind, id |-> otpOps + 1, counter |-> 0]
<1>1. /\ ~excused /\ otpOps' = otpOps + 1 /\ fresh' = fresh \cup {c.id}
      /\ UNCHANGED <<session_counter, typed, repeated, excused>>
  BY DEF Configure, OtpOp
<1>2. SlotsOK(bank, session_counter, fresh, typed, otpOps)
  BY <1>1 DEF OtpInv
<1>3. otpOps \in Nat /\ session_counter \in [OtpSlots -> 0..Sessions - 1]
  BY <1>2 DEF SlotsOK
<1>4. c \in Slots /\ c.id = otpOps + 1 /\ c.form = "container"
  BY <1>3 DEF Slots
<1>5. c \in Slots \ {Unused}
  <2>1. Unused.form = "none"
    BY DEF Unused
  <2> HIDE DEF c
  <2> QED  BY <1>4, <2>1
<1>6. bank' \in {bank, Stored(bank, s, c), [bank EXCEPT ![s] = [c EXCEPT !.form = "unmarked"]]}
  BY DEF Configure, SlotStore, StoreFailsWith
<1> HIDE DEF c
<1>7. otpOps' \in Nat /\ otpOps' > otpOps /\ c.id = otpOps'
  BY <1>1, <1>3, <1>4
<1>8. \A i \in Nat : i <= otpOps /\ i \in fresh' => i \in fresh
  BY <1>1, <1>3, <1>4
<1>9. SlotsOK(bank', session_counter, fresh', typed, otpOps')
  <2>1. CASE bank' = bank
    <3>1. SlotsOK(bank, session_counter, fresh', typed, otpOps)
      <4>1. \A t \in OtpSlots : bank[t] # Unused => bank[t].id \in Nat /\ bank[t].id <= otpOps
        BY <1>2 DEF SlotsOK, Slots
      <4>2. \A t \in OtpSlots : bank[t] # Unused => \A q \in typed : q[1] = bank[t].id => Past(bank[t], session_counter[t], fresh', q)
        BY <1>2, <1>8, <4>1 DEF SlotsOK, Past
      <4> QED  BY <1>2, <4>2 DEF SlotsOK
    <3> QED  BY <1>3, <1>7, <2>1, <3>1, SlotsStay
  <2>2. CASE bank' # bank
    <3>1. otpOps' >= otpOps
      BY <1>3, <1>7
    <3>2. /\ SlotsOK(Stored(bank, s, c), session_counter, fresh', typed, otpOps')
          /\ SlotsOK([bank EXCEPT ![s] = [c EXCEPT !.form = "unmarked"]], session_counter, fresh', typed, otpOps')
      BY <1>2, <1>3, <1>5, <1>7, <1>8, <3>1, StoreStep
    <3> QED  BY <1>6, <2>2, <3>2
  <2> QED  BY <2>1, <2>2
<1> QED  BY <1>1, <1>9 DEF OtpInv

\* Flags of a slot, and a slot that goes.
LEMMA UpdateDeleteStep ==
  ASSUME OtpInv, NEW s \in OtpSlots, UpdateSlot(s) \/ DeleteSlot(s)
  PROVE  OtpInv'
<1>1. ~excused /\ otpOps' = otpOps + 1 /\ UNCHANGED <<session_counter, fresh, typed, repeated, excused>>
  BY DEF UpdateSlot, DeleteSlot, OtpOp, otpGhosts
<1>2. SlotsOK(bank, session_counter, fresh, typed, otpOps)
  BY <1>1 DEF OtpInv
<1>3. /\ otpOps \in Nat /\ session_counter \in [OtpSlots -> 0..Sessions - 1] /\ bank \in [OtpSlots -> Slots]
      /\ Sessions \in Nat
  BY <1>2, OtpAssumption DEF SlotsOK, OtpAssumption
<1>4. otpOps' \in Nat /\ otpOps' >= otpOps
  BY <1>1, <1>3
<1>5. \/ bank' = bank
      \/ Held(s) /\ bank' = Stored(bank, s, bank[s])
      \/ bank' = [bank EXCEPT ![s] = Unused]
  BY <1>3 DEF UpdateSlot, DeleteSlot, SlotStore, Cleared, otpStored
<1>6. SlotsOK(bank', session_counter, fresh, typed, otpOps')
  <2>1. CASE bank' = bank
    BY <1>2, <1>4, <2>1, SlotsStay
  <2>2. CASE Held(s) /\ bank' = Stored(bank, s, bank[s])
    <3>1. bank[s] \in Slots \ {Unused} /\ bank[s].counter \in Nat /\ session_counter[s] \in Nat
      BY <1>3, <2>2 DEF Held, Slots
    <3>2. Continues(bank[s], session_counter[s], fresh, bank[s], session_counter[s], fresh)
      BY <3>1 DEF Continues
    <3> QED  BY <1>2, <1>3, <1>4, <2>2, <3>1, <3>2, StoreStep
  <2>3. CASE bank' = [bank EXCEPT ![s] = Unused]
    <3>1. Unused \in Slots
      BY DEF Slots
    <3> QED  BY <1>2, <1>3, <1>4, <2>3, <3>1, SlotPut, OtpAssumption
  <2> QED  BY <1>5, <2>1, <2>2, <2>3
<1> QED  BY <1>1, <1>6 DEF OtpInv

\* Where the slots trade places, configurations and sessions go with them.
LEMMA SwappedFacts ==
  ASSUME NEW s \in OtpSlots, NEW t \in OtpSlots, s # t, bank \in [OtpSlots -> Slots]
  PROVE  /\ Swapped(s, t) \in [OtpSlots -> Slots]
         /\ \A r \in OtpSlots : r # s /\ r # t => Swapped(s, t)[r] = bank[r]
         /\ \A r \in {s, t} : LET o == IF r = s THEN t ELSE s IN
              Swapped(s, t)[r] # Unused => /\ bank[o] # Unused
                                           /\ Swapped(s, t)[r].id = bank[o].id
                                           /\ Swapped(s, t)[r].kind = bank[o].kind
                                           /\ Swapped(s, t)[r].counter = bank[o].counter
<1> DEFINE moved(b, x, c) == IF c = Unused THEN [b EXCEPT ![x] = Unused] ELSE Stored(b, x, c)
<1>1. ASSUME NEW b \in [OtpSlots -> Slots], NEW x \in OtpSlots, NEW c \in Slots
      PROVE  /\ moved(b, x, c) \in [OtpSlots -> Slots]
             /\ \A r \in OtpSlots : r # x => moved(b, x, c)[r] = b[r]
             /\ moved(b, x, c)[x] # Unused => /\ c # Unused
                                             /\ moved(b, x, c)[x].id = c.id
                                             /\ moved(b, x, c)[x].kind = c.kind
                                             /\ moved(b, x, c)[x].counter = c.counter
  <2>1. CASE c = Unused
    BY <2>1 DEF Slots
  <2>2. CASE c # Unused
    <3>1. PICK f \in {"legacy", "container", "unmarked"} : moved(b, x, c) = [b EXCEPT ![x] = [c EXCEPT !.form = f]]
      BY <2>2 DEF Stored
    <3> DEFINE d == [c EXCEPT !.form = f]
               m == moved(b, x, c)
    <3>2. d \in Slots \ {Unused} /\ d.id = c.id /\ d.kind = c.kind /\ d.counter = c.counter
      BY <2>2, FormFacts
    <3>3. m = [b EXCEPT ![x] = d]
      BY <3>1
    <3> HIDE DEF d, m, moved
    <3>4. m \in [OtpSlots -> Slots] /\ m[x] = d /\ \A r \in OtpSlots : r # x => m[r] = b[r]
      BY <3>2, <3>3
    <3>5. m[x].id = c.id /\ m[x].kind = c.kind /\ m[x].counter = c.counter
      BY <3>2, <3>4
    <3> QED  BY <2>2, <3>4, <3>5 DEF m
  <2> QED  BY <2>1, <2>2
<1>2. Swapped(s, t) = moved(moved(bank, s, bank[t]), t, bank[s])
  BY DEF Swapped
<1> HIDE DEF moved
<1> DEFINE b1 == moved(bank, s, bank[t])
           b2 == moved(b1, t, bank[s])
<1>3. bank[s] \in Slots /\ bank[t] \in Slots
  OBVIOUS
<1>4. /\ b1 \in [OtpSlots -> Slots] /\ \A r \in OtpSlots : r # s => b1[r] = bank[r]
      /\ b1[s] # Unused => /\ bank[t] # Unused /\ b1[s].id = bank[t].id /\ b1[s].kind = bank[t].kind
                           /\ b1[s].counter = bank[t].counter
  BY <1>1, <1>3
<1> HIDE DEF b1
<1>5. /\ b2 \in [OtpSlots -> Slots] /\ \A r \in OtpSlots : r # t => b2[r] = b1[r]
      /\ b2[t] # Unused => /\ bank[s] # Unused /\ b2[t].id = bank[s].id /\ b2[t].kind = bank[s].kind
                           /\ b2[t].counter = bank[s].counter
  BY <1>1, <1>3, <1>4
<1>6. Swapped(s, t) = b2
  BY <1>2 DEF b1
<1> HIDE DEF b2
<1> QED  BY <1>4, <1>5, <1>6

\* A swap: in full, or it changes nothing, or it excuses.
LEMMA SwapStep ==
  ASSUME OtpInv, NEW s \in OtpSlots, NEW t \in OtpSlots, SwapSlots(s, t)
  PROVE  OtpInv'
<1>1. ~excused /\ otpOps' = otpOps + 1 /\ s # t /\ UNCHANGED <<fresh, typed, repeated>>
  BY DEF SwapSlots, OtpOp
<1>2. SlotsOK(bank, session_counter, fresh, typed, otpOps)
  BY <1>1 DEF OtpInv
<1>3. /\ otpOps \in Nat /\ session_counter \in [OtpSlots -> 0..Sessions - 1] /\ bank \in [OtpSlots -> Slots]
      /\ Sessions \in Nat
  BY <1>2, OtpAssumption DEF SlotsOK, OtpAssumption
<1>4. otpOps' \in Nat /\ otpOps' >= otpOps
  BY <1>1, <1>3
<1>5. \/ bank' = Swapped(s, t) /\ session_counter' = SessionSwap(s, t) /\ excused' = excused
      \/ session_counter' = session_counter /\ excused' = (excused \/ bank' # bank)
  BY DEF SwapSlots
<1>6. CASE bank' = Swapped(s, t) /\ session_counter' = SessionSwap(s, t) /\ excused' = excused
  <2> DEFINE from == [r \in OtpSlots |-> IF r = s THEN t ELSE IF r = t THEN s ELSE r]
             b2 == Swapped(s, t)
             x2 == SessionSwap(s, t)
  <2>1. from \in [OtpSlots -> OtpSlots] /\ from[s] = t /\ from[t] = s
        /\ \A r \in OtpSlots : r # s /\ r # t => from[r] = r
    BY <1>1
  <2>2. x2 \in [OtpSlots -> 0..Sessions - 1] /\ \A r \in OtpSlots : x2[r] = session_counter[from[r]]
    BY <1>1, <1>3 DEF SessionSwap
  <2>3. /\ b2 \in [OtpSlots -> Slots]
        /\ \A r \in OtpSlots : b2[r] # Unused => /\ bank[from[r]] # Unused /\ b2[r].id = bank[from[r]].id
                                                 /\ b2[r].kind = bank[from[r]].kind
                                                 /\ b2[r].counter = bank[from[r]].counter
    <3>1. /\ b2 \in [OtpSlots -> Slots]
          /\ \A r \in OtpSlots : r # s /\ r # t => b2[r] = bank[r]
          /\ b2[s] # Unused => /\ bank[t] # Unused /\ b2[s].id = bank[t].id /\ b2[s].kind = bank[t].kind
                               /\ b2[s].counter = bank[t].counter
          /\ b2[t] # Unused => /\ bank[s] # Unused /\ b2[t].id = bank[s].id /\ b2[t].kind = bank[s].kind
                               /\ b2[t].counter = bank[s].counter
      BY <1>1, <1>3, SwappedFacts
    <3> HIDE DEF b2, from
    <3> QED  BY <2>1, <3>1
  <2>4. \A r \in OtpSlots : bank[r] # Unused => bank[r].counter \in Nat /\ session_counter[r] \in Nat
    BY <1>3 DEF Slots
  <2> HIDE DEF from, b2, x2
  <2>5. \A r \in OtpSlots : b2[r] # Unused =>
           bank[from[r]] # Unused /\ Continues(bank[from[r]], session_counter[from[r]], fresh, b2[r], x2[r], fresh)
    BY <2>1, <2>2, <2>3, <2>4 DEF Continues
  <2>6. \A q, r \in OtpSlots : from[q] = from[r] => q = r
    BY <2>1
  <2>7. Carried(bank, session_counter, fresh, otpOps, b2, x2, fresh, otpOps', from, 0)
    BY <2>5, <2>6 DEF Carried
  <2>8. SlotsOK(b2, x2, fresh, typed, otpOps')
    BY <1>2, <1>4, <2>1, <2>2, <2>3, <2>7, SlotsContinue, OtpAssumption
  <2>9. SlotsOK(bank', session_counter', fresh', typed', otpOps')
    BY <1>1, <1>6, <2>8 DEF b2, x2
  <2> QED  BY <1>1, <1>6, <2>9 DEF OtpInv
<1>7. CASE session_counter' = session_counter /\ excused' = (excused \/ bank' # bank)
  <2>1. CASE bank' # bank
    BY <1>1, <1>7, <2>1 DEF OtpInv
  <2>2. CASE bank' = bank
    <3>1. SlotsOK(bank, session_counter, fresh, typed, otpOps')
      BY <1>2, <1>4, SlotsStay
    <3>2. excused' = excused
      BY <1>7, <2>2 DEF OtpInv
    <3> QED  BY <1>1, <1>7, <2>2, <3>1, <3>2 DEF OtpInv
  <2> QED  BY <2>1, <2>2
<1> QED  BY <1>5, <1>6, <1>7

\* A boot that finds everything written: sessions begin anew, and nothing is fresh.
LEMMA OtpPowerLossStep ==
  ASSUME OtpInv, OtpPowerLoss
  PROVE  OtpInv'
<1>1. /\ ~excused /\ bank' = bankDisk /\ session_counter' = [s \in OtpSlots |-> 0] /\ fresh' = {}
      /\ excused' = (excused \/ bank # bankDisk) /\ UNCHANGED <<typed, repeated, otpOps>>
  BY DEF OtpPowerLoss
<1>2. SlotsOK(bank, session_counter, fresh, typed, otpOps)
  BY <1>1 DEF OtpInv
<1>3. CASE bank # bankDisk
  BY <1>1, <1>3 DEF OtpInv
<1>4. CASE bank = bankDisk
  <2>1. SlotsOK(bank, [s \in OtpSlots |-> 0], {}, typed, otpOps)
    <3>1. [s \in OtpSlots |-> 0] \in [OtpSlots -> 0..Sessions - 1]
      BY OtpAssumption DEF OtpAssumption
    <3>2. \A s \in OtpSlots : bank[s] # Unused => \A p \in typed : p[1] = bank[s].id => Past(bank[s], 0, {}, p)
      BY <1>2 DEF SlotsOK, Past
    <3> QED  BY <1>2, <3>1, <3>2 DEF SlotsOK
  <2>2. SlotsOK(bank', session_counter', fresh', typed', otpOps')
    BY <1>1, <1>4, <2>1
  <2>3. excused' = excused
    BY <1>1, <1>4 DEF OtpInv
  <2> QED  BY <1>1, <2>2, <2>3 DEF OtpInv
<1> QED  BY <1>3, <1>4

\* Every step keeps the invariant.
LEMMA OtpInvNext ==
  ASSUME OtpInv, [OtpNext]_otpVars
  PROVE  OtpInv'
<1>1. CASE init_otp
  <2> DEFINE all == {s \in OtpSlots : Bumps(s)}
  <2>1. ~excused /\ otpOps' = otpOps + 1 /\ UNCHANGED <<session_counter, typed, repeated, excused>>
    BY <1>1 DEF init_otp, OtpOp
  <2>2. SlotsOK(bank, session_counter, fresh, typed, otpOps)
    BY <2>1 DEF OtpInv
  <2>3. otpOps' \in Nat /\ otpOps' >= otpOps
    BY <2>1, <2>2 DEF SlotsOK
  <2>4. PICK ss \in SUBSET all : bank' = BumpAll(ss) /\ (fresh' = fresh \/ ss = all)
    BY <1>1 DEF init_otp
  <2>5. SlotsOK(BumpAll(ss), session_counter, fresh', typed, otpOps')
    BY <2>2, <2>3, <2>4, BumpStep
  <2> QED  BY <2>1, <2>4, <2>5 DEF OtpInv
<1>2. CASE otp_status
  <2>1. /\ ~excused /\ otpOps' = otpOps + 1
        /\ UNCHANGED <<bank, session_counter, fresh, typed, repeated, excused>>
    BY <1>2 DEF otp_status, OtpOp, otpStored, otpGhosts
  <2>2. SlotsOK(bank, session_counter, fresh, typed, otpOps)
    BY <2>1 DEF OtpInv
  <2>3. otpOps' \in Nat /\ otpOps' >= otpOps
    BY <2>1, <2>2 DEF SlotsOK
  <2>4. SlotsOK(bank, session_counter, fresh, typed, otpOps')
    BY <2>2, <2>3, SlotsStay
  <2> QED  BY <2>1, <2>4 DEF OtpInv
<1>3. ASSUME NEW s \in OtpSlots, PressYubico(s) \/ PressHotp(s) \/ UpdateSlot(s) \/ DeleteSlot(s)
      PROVE  OtpInv'
  BY <1>3, PressYubicoStep, PressHotpStep, UpdateDeleteStep
<1>4. ASSUME NEW s \in OtpSlots, NEW k \in SlotKinds, Configure(s, k)
      PROVE  OtpInv'
  BY <1>4, ConfigureStep
<1>5. ASSUME NEW s \in OtpSlots, NEW t \in OtpSlots, SwapSlots(s, t)
      PROVE  OtpInv'
  BY <1>5, SwapStep
<1>6. CASE BankWriteBack \/ UNCHANGED otpVars
  <2>1. UNCHANGED <<bank, session_counter, fresh, typed, repeated, excused, otpOps>>
    BY <1>6 DEF BankWriteBack, otpVars, otpStored, otpRam, otpGhosts
  <2> QED  BY <2>1 DEF OtpInv
<1>7. CASE OtpPowerLoss
  BY <1>7, OtpPowerLossStep
<1> QED  BY <1>1, <1>2, <1>3, <1>4, <1>5, <1>6, <1>7 DEF OtpNext

\* Whatever presses, commands, failed writes and losses of power are mixed, for any number of slots
\* and wherever the counters wrap or end, a password typed twice is one the code could not know of
\* (otp_button_pressed, init_otp).
THEOREM PasswordsHold == OtpSpec => []PasswordsDiffer
<1>1. OtpInit => OtpInv
  <2> SUFFICES ASSUME OtpInit  PROVE OtpInv
    OBVIOUS
  <2>1. PICK old \in SUBSET OtpSlots :
          /\ \A s, t \in old : s = t
          /\ bank = [s \in OtpSlots |-> IF s \in old THEN [form |-> "legacy", kind |-> "yubico", id |-> 0, counter |-> 0] ELSE Unused]
    BY DEF OtpInit
  <2> DEFINE c == [form |-> "legacy", kind |-> "yubico", id |-> 0, counter |-> 0]
  <2>2. c \in Slots /\ Unused \in Slots /\ c.id = 0
    BY DEF Slots, SlotKinds
  <2> HIDE DEF c
  <2>3. bank \in [OtpSlots -> Slots] /\ \A s \in OtpSlots : bank[s] # Unused => s \in old /\ bank[s].id = 0
    BY <2>1, <2>2 DEF c
  <2>5. session_counter \in [OtpSlots -> 0..Sessions - 1]
    BY OtpAssumption DEF OtpInit, OtpAssumption
  <2>6. typed = {} /\ otpOps = 0 /\ repeated = FALSE /\ excused = FALSE
    BY DEF OtpInit
  <2>7. SlotsOK(bank, session_counter, fresh, typed, otpOps)
    BY <2>1, <2>3, <2>5, <2>6 DEF SlotsOK
  <2> QED  BY <2>6, <2>7 DEF OtpInv
<1>2. OtpInv /\ [OtpNext]_otpVars => OtpInv'
  BY OtpInvNext
<1>3. OtpInv => PasswordsDiffer
  BY DEF OtpInv, PasswordsDiffer
<1> QED  BY <1>1, <1>2, <1>3, PTL DEF OtpSpec

-----------------------------------------------------------------------------
(* OATH.  Types first: they say what EXCEPT leaves alone.                  *)

RealCreds == [form : {"legacy", "container"}, name : CredNames, id : Nat, hotp : BOOLEAN, counter : Nat]
CredForms == {NoCred, Broken} \cup RealCreds
PinForms  == [tries : Nat, pin : OtpPins \cup {NoOtpPin}]
Files     == [creds : [CredSlots -> CredForms], code : Codes \cup {NoCode}, pin : PinForms]
Duties    == [current : BOOLEAN, ready : BOOLEAN, validated : BOOLEAN, pinOk : BOOLEAN]
Proofs    == [code : Codes \cup {NoCode}, pin : OtpPins \cup {NoOtpPin}]

OathTypes ==
  /\ held \in Files /\ kept \in Files /\ session \in Duties /\ proof \in Proofs
  /\ wrong \in Nat /\ oathOps \in Nat

\* The three forms of a slot.
LEMMA CredFacts ==
  /\ NoCred.form = "none" /\ Broken.form = "broken" /\ NoCred # Broken
  /\ \A c \in RealCreds : c.form \in {"legacy", "container"} /\ c # NoCred /\ c # Broken
<1>1. NoCred.form = "none" /\ Broken.form = "broken"
  BY DEF NoCred, Broken
<1>2. \A c \in RealCreds : c.form \in {"legacy", "container"}
  BY DEF RealCreds
<1> QED  BY <1>1, <1>2

\* One slot of the files changes.
LEMMA PutFacts ==
  ASSUME NEW f \in Files, NEW s \in CredSlots, NEW d \in CredForms
  PROVE  /\ [f EXCEPT !.creds[s] = d] \in Files
         /\ [f EXCEPT !.creds[s] = d].creds = [f.creds EXCEPT ![s] = d]
         /\ [f EXCEPT !.creds[s] = d].code = f.code /\ [f EXCEPT !.creds[s] = d].pin = f.pin
<1>1. f.creds \in [CredSlots -> CredForms]
  BY DEF Files
<1>2. [f.creds EXCEPT ![s] = d] \in [CredSlots -> CredForms]
  BY <1>1
<1> QED  BY <1>2 DEF Files

\* A credential in the form of its file, its content as given.
LEMMA RewrittenFacts ==
  ASSUME OathTypes, NEW s \in CredSlots, NEW c \in RealCreds
  PROVE  /\ Rewritten(s, c) \in RealCreds
         /\ Rewritten(s, c).id = c.id /\ Rewritten(s, c).counter = c.counter
         /\ Rewritten(s, c).form = IF held.creds[s].form = "legacy" THEN "legacy" ELSE "container"
<1> DEFINE form == IF held.creds[s].form = "legacy" THEN "legacy" ELSE "container"
<1>1. form \in {"legacy", "container"}
  OBVIOUS
<1>2. Rewritten(s, c) = [c EXCEPT !.form = form]
  BY DEF Rewritten
<1> HIDE DEF form
<1>3. Rewritten(s, c) \in RealCreds /\ Rewritten(s, c).id = c.id /\ Rewritten(s, c).counter = c.counter
      /\ Rewritten(s, c).form = form
  BY <1>1, <1>2 DEF RealCreds
<1> QED  BY <1>3 DEF form

\* A write leaves the files as they were, or with the credential in the device's copy, and in flash
\* too when it was done and is a container's.
LEMMA WriteFacts ==
  ASSUME OathTypes, NEW s \in CredSlots, NEW c \in RealCreds, Write(s, c) \/ WriteFails(s, c)
  PROVE  LET after == [held EXCEPT !.creds[s] = Rewritten(s, c)] IN
         /\ after \in Files
         /\ \/ held' = held /\ kept' = kept
            \/ held' = after /\ kept' \in {kept, after}
         /\ Write(s, c) => held' = after /\ (held.creds[s].form # "legacy" => kept' = after)
<1> DEFINE after == [held EXCEPT !.creds[s] = Rewritten(s, c)]
<1>1. Rewritten(s, c) \in CredForms /\ held \in Files
  BY RewrittenFacts DEF CredForms, OathTypes
<1>2. after \in Files
  BY <1>1, PutFacts
<1>3. Write(s, c) => held' = after /\ (held.creds[s].form # "legacy" => kept' = after) /\ kept' \in {kept, after}
  BY DEF Write
<1>4. WriteFails(s, c) => held' \in {held, after} /\ kept' = kept
  BY DEF WriteFails
<1> QED  BY <1>2, <1>3, <1>4

\* Credentials come and go; code, PIN and session stay.
LEMMA CredCommandFacts ==
  ASSUME OathTypes, NEW n \in CredNames,
         (\E h \in BOOLEAN : cmd_put(n, h)) \/ cmd_delete(n) \/ cmd_calculate(n) \/ (\E m \in CredNames : cmd_rename(n, m))
  PROVE  /\ held' \in Files /\ kept' \in Files /\ held'.code = held.code /\ held'.pin = held.pin
         /\ kept'.pin \in {kept.pin, held.pin} /\ UNCHANGED <<session, proof, wrong>> /\ oathOps' = oathOps + 1
<1>1. held \in Files /\ kept \in Files /\ oathOps \in Nat /\ held.creds \in [CredSlots -> CredForms]
  BY DEF OathTypes, Files
<1>2. UNCHANGED <<session, proof, wrong>> /\ oathOps' = oathOps + 1
  BY DEF cmd_put, cmd_delete, cmd_calculate, cmd_rename, Commanded
<1>3. find_oath_cred(n) \subseteq CredSlots /\ \A s \in find_oath_cred(n) : held.creds[s] \in RealCreds
  BY <1>1 DEF find_oath_cred, Readable, Present, CredForms
<1>4. ASSUME NEW s \in CredSlots, NEW c \in RealCreds, Write(s, c) \/ WriteFails(s, c)
      PROVE  /\ held' \in Files /\ kept' \in Files /\ held'.code = held.code /\ held'.pin = held.pin
             /\ kept'.pin \in {kept.pin, held.pin}
  <2> DEFINE after == [held EXCEPT !.creds[s] = Rewritten(s, c)]
  <2>1. Rewritten(s, c) \in CredForms
    BY RewrittenFacts DEF CredForms
  <2>2. after \in Files /\ after.code = held.code /\ after.pin = held.pin
    BY <1>1, <2>1, PutFacts
  <2>3. held' \in {held, after} /\ kept' \in {kept, after}
    BY <1>4, WriteFacts
  <2> HIDE DEF after
  <2> QED  BY <1>1, <2>2, <2>3
<1>5. ASSUME NEW h \in BOOLEAN, cmd_put(n, h)
      PROVE  /\ held' \in Files /\ kept' \in Files /\ held'.code = held.code /\ held'.pin = held.pin
             /\ kept'.pin \in {kept.pin, held.pin}
  <2>1. NewCred(n, h) \in RealCreds
    BY <1>1 DEF NewCred, RealCreds
  <2>2. PutSlot(n) \subseteq CredSlots
    BY <1>3 DEF PutSlot
  <2> QED  BY <1>4, <1>5, <2>1, <2>2 DEF cmd_put
<1>6. ASSUME NEW m \in CredNames, cmd_rename(n, m)
      PROVE  /\ held' \in Files /\ kept' \in Files /\ held'.code = held.code /\ held'.pin = held.pin
             /\ kept'.pin \in {kept.pin, held.pin}
  <2>1. \A s \in find_oath_cred(n) : [held.creds[s] EXCEPT !.name = m] \in RealCreds
    BY <1>3 DEF RealCreds
  <2> QED  BY <1>3, <1>4, <1>6, <2>1 DEF cmd_rename
<1>7. CASE cmd_calculate(n)
  <2>1. \A s \in find_oath_cred(n) : [held.creds[s] EXCEPT !.counter = @ + 1] \in RealCreds
    BY <1>3 DEF RealCreds
  <2> QED  BY <1>1, <1>2, <1>3, <1>4, <1>7, <2>1 DEF cmd_calculate, Advance
<1>8. CASE cmd_delete(n)
  <2>1. PICK s \in find_oath_cred(n) :
          LET gone(v) == [held EXCEPT !.creds[s] = v] IN
          /\ held' \in {held, gone(Broken), gone(NoCred)} /\ kept' \in {kept, gone(NoCred)}
    BY <1>8 DEF cmd_delete
  <2> DEFINE gb == [held EXCEPT !.creds[s] = Broken]
             gn == [held EXCEPT !.creds[s] = NoCred]
  <2>2. gb \in Files /\ gb.code = held.code /\ gb.pin = held.pin /\ gn \in Files /\ gn.code = held.code /\ gn.pin = held.pin
    BY <1>1, <1>3, PutFacts DEF CredForms
  <2>3. held' \in {held, gb, gn} /\ kept' \in {kept, gn}
    BY <2>1
  <2> HIDE DEF gb, gn
  <2> QED  BY <1>1, <1>2, <2>2, <2>3
<1> QED  BY <1>2, <1>5, <1>6, <1>7, <1>8

\* What a session may do was earned, and the tries pay for the wrong PINs, in cache and in flash.
TriesOK == \A f \in {held, kept} : f.pin # NoPinSet => f.pin.tries + wrong <= MaxTries

OathBase == OathTypes /\ OathSessionEarned /\ TriesOK

\* Steps that leave code, PIN and session alone.
LEMMA BaseFrame ==
  ASSUME OathBase, held' \in Files, kept' \in Files, held'.code = held.code, held'.pin = held.pin,
         kept'.pin \in {kept.pin, held.pin}, UNCHANGED <<session, proof, wrong>>, oathOps' \in Nat
  PROVE  OathBase'
<1>1. OathTypes'
  BY DEF OathBase, OathTypes
<1>2. OathSessionEarned'
  BY DEF OathBase, OathSessionEarned, NoPinSet
<1>3. TriesOK'
  BY DEF OathBase, TriesOK, NoPinSet
<1> QED  BY <1>1, <1>2, <1>3 DEF OathBase

\* The PIN record or the code of the files changes.
LEMMA FileFacts ==
  ASSUME NEW f \in Files
  PROVE  /\ \A p \in PinForms : /\ [f EXCEPT !.pin = p] \in Files /\ [f EXCEPT !.pin = p].pin = p
                                /\ [f EXCEPT !.pin = p].code = f.code /\ [f EXCEPT !.pin = p].creds = f.creds
         /\ \A c \in Codes \cup {NoCode} :
              /\ [f EXCEPT !.code = c] \in Files /\ [f EXCEPT !.code = c].code = c
              /\ [f EXCEPT !.code = c].pin = f.pin /\ [f EXCEPT !.code = c].creds = f.creds
              /\ \A p \in PinForms :
                   /\ [f EXCEPT !.code = c, !.pin = p] \in Files /\ [f EXCEPT !.code = c, !.pin = p].pin = p
                   /\ [f EXCEPT !.code = c, !.pin = p].creds = f.creds
<1> DEFINE C == [CredSlots -> CredForms]
<1>1. f \in [creds : C, code : Codes \cup {NoCode}, pin : PinForms] /\ Files = [creds : C, code : Codes \cup {NoCode}, pin : PinForms]
  BY DEF Files
<1> HIDE DEF C
<1> QED  BY <1>1

\* No PIN and a full one are records.
LEMMA PinFacts ==
  /\ NoPinSet \in PinForms /\ NoPinSet.tries = 0 /\ NoPinSet.pin = NoOtpPin
  /\ \A p \in OtpPins : Full(p) \in PinForms /\ Full(p).tries = MaxTries /\ Full(p).pin = p /\ Full(p) # NoPinSet
<1>1. MaxTries \in Nat /\ NoOtpPin \notin OtpPins
  BY OathAssumption DEF OathAssumption
<1>2. NoPinSet \in PinForms /\ NoPinSet.tries = 0 /\ NoPinSet.pin = NoOtpPin
  BY DEF NoPinSet, PinForms
<1>3. \A p \in OtpPins : Full(p) \in PinForms /\ Full(p).tries = MaxTries /\ Full(p).pin = p
  BY <1>1 DEF Full, PinForms
<1> QED  BY <1>1, <1>2, <1>3

\* A try is spent, and the PIN it is spent on stays.
LEMMA SpentFacts ==
  ASSUME OathTypes, held.pin # NoPinSet, held.pin.tries > 0
  PROVE  /\ Spent \in Files /\ Spent.creds = held.creds /\ Spent.code = held.code
         /\ Spent.pin.tries = held.pin.tries - 1 /\ Spent.pin.pin = held.pin.pin
         /\ held.pin.tries \in Nat
<1>1. held \in Files /\ held.pin \in PinForms /\ held.code \in Codes \cup {NoCode}
  BY DEF OathTypes, Files
<1> DEFINE p == [tries |-> held.pin.tries - 1, pin |-> held.pin.pin]
<1>2. p \in PinForms /\ p.tries = held.pin.tries - 1 /\ p.pin = held.pin.pin /\ held.pin.tries \in Nat
  BY <1>1 DEF PinForms
<1>3. Spent = [held EXCEPT !.pin = p]
  BY DEF Spent
<1> HIDE DEF p
<1>4. Spent.creds = held.creds /\ Spent.code = held.code /\ Spent.pin = p /\ Spent \in Files
  BY <1>1, <1>2, <1>3, FileFacts
<1> QED  BY <1>2, <1>4

\* SET CODE takes the session back before anything depends on the new code.
LEMMA SetCodeStep ==
  ASSUME OathBase, cmd_set_code
  PROVE  OathBase'
<1>1. held \in Files /\ kept \in Files /\ session \in Duties /\ oathOps \in Nat /\ held.pin \in PinForms
      /\ held.code \in Codes \cup {NoCode}
  BY DEF OathBase, OathTypes, Files
<1>2. UNCHANGED <<kept, proof, wrong>> /\ oathOps' = oathOps + 1
  BY DEF cmd_set_code, Commanded
<1>3. \/ /\ \/ \E c \in Codes : held' = [held EXCEPT !.code = c, !.pin = NoPinSet]
            \/ held' \in {held, [held EXCEPT !.pin = NoPinSet]}
         /\ session' = [session EXCEPT !.validated = FALSE]
      \/ held' = [held EXCEPT !.code = NoCode] /\ session' = session
  BY DEF cmd_set_code, SetCode, SetCodeFails
<1>4. CASE /\ \/ \E c \in Codes : held' = [held EXCEPT !.code = c, !.pin = NoPinSet]
              \/ held' \in {held, [held EXCEPT !.pin = NoPinSet]}
           /\ session' = [session EXCEPT !.validated = FALSE]
  <2>1. session' \in Duties /\ session'.validated = FALSE /\ session'.pinOk = session.pinOk
    BY <1>1, <1>4 DEF Duties
  <2>2. held' \in Files /\ held'.pin \in {held.pin, NoPinSet}
    <3>1. NoPinSet \in PinForms
      BY PinFacts
    <3>2. ASSUME NEW c \in Codes, held' = [held EXCEPT !.code = c, !.pin = NoPinSet]
          PROVE  held' \in Files /\ held'.pin = NoPinSet
      <4>1. c \in Codes \cup {NoCode}
        OBVIOUS
      <4>2. /\ [held EXCEPT !.code = c, !.pin = NoPinSet] \in Files
            /\ [held EXCEPT !.code = c, !.pin = NoPinSet].pin = NoPinSet
        BY <1>1, <3>1, <4>1 DEF Files
      <4> QED  BY <3>2, <4>2, Zenon
    <3>3. CASE held' = [held EXCEPT !.pin = NoPinSet]
      BY <1>1, <3>1, <3>3, FileFacts
    <3> QED  BY <1>1, <1>4, <3>2, <3>3
  <2>3. OathTypes'
    BY <1>1, <1>2, <2>1, <2>2 DEF OathBase, OathTypes
  <2>4. OathSessionEarned'
    BY <1>2, <2>1, <2>2 DEF OathBase, OathSessionEarned, NoPinSet
  <2>5. TriesOK'
    BY <1>2, <2>2 DEF OathBase, TriesOK, NoPinSet
  <2> QED  BY <2>3, <2>4, <2>5 DEF OathBase
<1>5. CASE held' = [held EXCEPT !.code = NoCode] /\ session' = session
  <2>1. held' \in Files /\ held'.code = NoCode /\ held'.pin = held.pin
    BY <1>1, <1>5, FileFacts
  <2>2. OathTypes'
    BY <1>1, <1>2, <1>5, <2>1 DEF OathBase, OathTypes
  <2>3. OathSessionEarned'
    BY <1>2, <1>5, <2>1 DEF OathBase, OathSessionEarned, NoPinSet
  <2>4. TriesOK'
    BY <1>2, <2>1 DEF OathBase, TriesOK, NoPinSet
  <2> QED  BY <2>2, <2>3, <2>4 DEF OathBase
<1> QED  BY <1>3, <1>4, <1>5

\* VERIFY and CHANGE PIN, right, wrong or with a write that failed.
LEMMA CheckPinStep ==
  ASSUME OathBase,
         CheckFails \/ \E p \in OtpPins : cmd_verify_otp_pin(p) \/ \E q \in OtpPins : cmd_change_otp_pin(p, q)
  PROVE  OathBase'
<1>1. held \in Files /\ kept \in Files /\ session \in Duties /\ oathOps \in Nat /\ held.pin \in PinForms
      /\ proof \in Proofs /\ wrong \in Nat /\ MaxTries \in Nat /\ NoOtpPin \notin OtpPins /\ kept.pin \in PinForms
      /\ held.code \in Codes \cup {NoCode}
  BY OathAssumption DEF OathBase, OathTypes, Files, OathAssumption
<1>2. held.pin # NoPinSet /\ held.pin.tries > 0 /\ oathOps' \in Nat
  BY <1>1 DEF CheckFails, cmd_verify_otp_pin, cmd_change_otp_pin, CheckPin, Commanded
<1>3. /\ Spent \in Files /\ Spent.creds = held.creds /\ Spent.code = held.code
      /\ Spent.pin.tries = held.pin.tries - 1 /\ Spent.pin.pin = held.pin.pin
      /\ held.pin.tries \in Nat
  BY <1>2, SpentFacts DEF OathBase
<1>4. held.pin.tries + wrong <= MaxTries /\ (kept.pin # NoPinSet => kept.pin.tries + wrong <= MaxTries) /\ kept.pin.tries \in Nat
  BY <1>1, <1>2 DEF OathBase, TriesOK, PinForms
<1>5. CASE CheckFails
  <2>1. /\ session' = [session EXCEPT !.pinOk = FALSE] \/ session' = session
        /\ held' \in {held, Spent} /\ kept' \in {kept, Spent} /\ UNCHANGED <<proof, wrong>>
    BY <1>5 DEF CheckFails
  <2>2. session' \in Duties /\ session'.validated = session.validated /\ (session'.pinOk => session.pinOk)
    BY <1>1, <2>1 DEF Duties
  <2>3. OathTypes'
    BY <1>1, <1>2, <1>3, <2>1, <2>2 DEF OathTypes
  <2>4. held'.code = held.code /\ held'.pin.pin = held.pin.pin
    BY <1>3, <2>1
  <2>5. OathSessionEarned'
    BY <1>2, <2>1, <2>2, <2>4 DEF OathBase, OathSessionEarned, NoPinSet
  <2>6. TriesOK'
    BY <1>1, <1>3, <1>4, <2>1 DEF TriesOK, NoPinSet
  <2> QED  BY <2>3, <2>5, <2>6 DEF OathBase
<1>6. ASSUME NEW p \in OtpPins, cmd_verify_otp_pin(p)
      PROVE  OathBase'
  <2>1. kept' = Spent
    BY <1>6 DEF cmd_verify_otp_pin, CheckPin
  <2>2. CASE p = held.pin.pin
    <3>1. held' = [held EXCEPT !.pin = Full(p)] /\ wrong' = 0 /\ proof' = [proof EXCEPT !.pin = p]
          /\ session' = [session EXCEPT !.validated = TRUE, !.pinOk = TRUE]
      BY <1>6, <2>2 DEF cmd_verify_otp_pin
    <3>2. /\ held' \in Files /\ held'.pin = Full(p)
          /\ Full(p).tries = MaxTries
      <4>1. Full(p) \in PinForms /\ Full(p).tries = MaxTries
        BY PinFacts
      <4> HIDE DEF Full
      <4> QED  BY <1>1, <3>1, <4>1, FileFacts
    <3>3. proof' \in Proofs /\ proof'.pin = p /\ p # NoOtpPin
      BY <1>1, <3>1 DEF Proofs
    <3>4. session' \in Duties
      BY <1>1, <3>1 DEF Duties
    <3>5. OathTypes'
      BY <1>2, <1>3, <2>1, <3>1, <3>2, <3>3, <3>4 DEF OathTypes
    <3>6. Full(p).pin = p
      BY PinFacts
    <3>7. OathSessionEarned'
      BY <3>2, <3>3, <3>6 DEF OathSessionEarned
    <3>8. TriesOK'
      <4>1. held'.pin.tries + wrong' <= MaxTries
        BY <1>1, <3>1, <3>2
      <4>2. kept'.pin.tries + wrong' <= MaxTries
        BY <1>1, <1>3, <1>4, <2>1, <3>1
      <4> QED  BY <4>1, <4>2 DEF TriesOK
    <3> QED  BY <3>5, <3>7, <3>8 DEF OathBase
  <2>3. CASE p # held.pin.pin
    <3>1. held' = Spent /\ wrong' = wrong + 1 /\ proof' = proof
          /\ session' = [session EXCEPT !.validated = FALSE, !.pinOk = FALSE]
      BY <1>6, <2>3 DEF cmd_verify_otp_pin
    <3>2. session' \in Duties /\ session'.validated = FALSE /\ session'.pinOk = FALSE
      BY <1>1, <3>1 DEF Duties
    <3>3. OathTypes'
      BY <1>1, <1>2, <1>3, <2>1, <3>1, <3>2 DEF OathTypes
    <3>4. OathSessionEarned'
      BY <3>2 DEF OathSessionEarned
    <3>5. TriesOK'
      BY <1>1, <1>3, <1>4, <2>1, <3>1 DEF TriesOK
    <3> QED  BY <3>3, <3>4, <3>5 DEF OathBase
  <2> QED  BY <2>2, <2>3
<1>7. ASSUME NEW p \in OtpPins, NEW q \in OtpPins, cmd_change_otp_pin(p, q)
      PROVE  OathBase'
  <2>1. kept' = Spent /\ proof' = proof /\ session' = [session EXCEPT !.pinOk = FALSE]
    BY <1>7 DEF cmd_change_otp_pin, CheckPin
  <2>2. session' \in Duties /\ session'.validated = session.validated /\ session'.pinOk = FALSE
    BY <1>1, <2>1 DEF Duties
  <2>3. \/ held' = [held EXCEPT !.pin = Full(q)] /\ wrong' = 0
        \/ held' = Spent /\ wrong' = wrong + 1
    BY <1>7 DEF cmd_change_otp_pin
  <2> DEFINE full == Full(q)
  <2>8. full \in PinForms /\ full.tries = MaxTries
    BY PinFacts
  <2> HIDE DEF full
  <2>4. held' \in Files /\ held'.code = held.code
    <3>1. CASE held' = [held EXCEPT !.pin = full]
      BY <1>1, <2>8, <3>1, FileFacts
    <3>2. CASE held' = Spent
      BY <1>3, <3>2
    <3> QED  BY <2>3, <3>1, <3>2 DEF full
  <2>5. OathTypes'
    BY <1>1, <1>2, <1>3, <2>1, <2>2, <2>3, <2>4 DEF OathTypes
  <2>6. OathSessionEarned'
    BY <2>1, <2>2, <2>4 DEF OathBase, OathSessionEarned
  <2>7. TriesOK'
    <3>1. CASE held' = [held EXCEPT !.pin = full] /\ wrong' = 0
      <4>1. held'.pin = full
        BY <1>1, <2>8, <3>1, FileFacts
      <4>2. held'.pin.tries + wrong' <= MaxTries
        BY <1>1, <2>8, <3>1, <4>1
      <4>3. kept'.pin.tries + wrong' <= MaxTries
        BY <1>1, <1>3, <1>4, <2>1, <3>1
      <4> QED  BY <4>2, <4>3 DEF TriesOK
    <3>2. CASE held' = Spent /\ wrong' = wrong + 1
      BY <1>1, <1>3, <1>4, <2>1, <3>2 DEF TriesOK
    <3> QED  BY <2>3, <3>1, <3>2 DEF full
  <2> QED  BY <2>5, <2>6, <2>7 DEF OathBase
<1> QED  BY <1>5, <1>6, <1>7

\* RESET: what is left of the files has the code and the PIN of before, or none.
LEMMA ResetFacts ==
  ASSUME OathTypes, cmd_reset
  PROVE  /\ held' \in Files /\ kept' \in Files /\ kept'.pin \in {kept.pin, held.pin}
         /\ oathOps' = oathOps + 1 /\ UNCHANGED <<proof, wrong>>
         /\ \/ /\ held'.code = NoCode /\ held'.pin = NoPinSet
               /\ session' = [session EXCEPT !.validated = TRUE, !.pinOk = FALSE]
            \/ held'.code = held.code /\ held'.pin = held.pin /\ UNCHANGED session
<1>1. held \in Files /\ kept \in Files /\ held.creds \in [CredSlots -> CredForms]
  BY DEF OathTypes, Files
<1>2. oathOps' = oathOps + 1 /\ UNCHANGED <<proof, wrong>>
  BY DEF cmd_reset, Commanded
<1> DEFINE without(ss) == [held EXCEPT !.creds = [s \in CredSlots |-> IF s \in ss THEN NoCred ELSE held.creds[s]]]
<1>3. ASSUME NEW ss
      PROVE  without(ss) \in Files /\ without(ss).code = held.code /\ without(ss).pin = held.pin
  <2> DEFINE cs == [s \in CredSlots |-> IF s \in ss THEN NoCred ELSE held.creds[s]]
  <2>1. cs \in [CredSlots -> CredForms]
    BY <1>1 DEF CredForms
  <2> HIDE DEF cs
  <2>2. [held EXCEPT !.creds = cs] \in Files /\ [held EXCEPT !.creds = cs].code = held.code
        /\ [held EXCEPT !.creds = cs].pin = held.pin
    BY <1>1, <2>1 DEF Files
  <2> QED  BY <2>2 DEF cs
<1>4. \/ /\ held' = [creds |-> [s \in CredSlots |-> NoCred], code |-> NoCode, pin |-> NoPinSet]
         /\ kept' = kept \/ \E ss : kept' = without(ss)
         /\ session' = [session EXCEPT !.validated = TRUE, !.pinOk = FALSE]
      \/ /\ \E ss : \E b \in CredSlots : held' \in {without(ss), [without(ss) EXCEPT !.creds[b] = Broken],
                                                     [without(ss) EXCEPT !.creds[b] = NoCred]}
         /\ UNCHANGED <<kept, session>>
  BY DEF cmd_reset, Present
<1> HIDE DEF without
<1>5. CASE /\ held' = [creds |-> [s \in CredSlots |-> NoCred], code |-> NoCode, pin |-> NoPinSet]
           /\ kept' = kept \/ \E ss : kept' = without(ss)
           /\ session' = [session EXCEPT !.validated = TRUE, !.pinOk = FALSE]
  <2>1. kept' \in Files /\ kept'.pin \in {kept.pin, held.pin}
    BY <1>1, <1>3, <1>5
  <2>2. held'.code = NoCode /\ held'.pin = NoPinSet
    BY <1>5
  <2>3. held' \in Files
    <3>1. [s \in CredSlots |-> NoCred] \in [CredSlots -> CredForms]
      BY DEF CredForms
    <3>2. NoPinSet \in PinForms
      BY PinFacts
    <3> QED  BY <1>5, <3>1, <3>2 DEF Files
  <2> QED  BY <1>2, <1>5, <2>1, <2>2, <2>3
<1>6. CASE /\ \E ss : \E b \in CredSlots : held' \in {without(ss), [without(ss) EXCEPT !.creds[b] = Broken],
                                                       [without(ss) EXCEPT !.creds[b] = NoCred]}
           /\ UNCHANGED <<kept, session>>
  <2>0. PICK ss : \E b \in CredSlots : held' \in {without(ss), [without(ss) EXCEPT !.creds[b] = Broken],
                                                  [without(ss) EXCEPT !.creds[b] = NoCred]}
    BY <1>6
  <2>1. PICK b \in CredSlots : held' \in {without(ss), [without(ss) EXCEPT !.creds[b] = Broken],
                                          [without(ss) EXCEPT !.creds[b] = NoCred]}
    BY <2>0
  <2>2. without(ss) \in Files /\ without(ss).code = held.code /\ without(ss).pin = held.pin
    BY <1>3
  <2> DEFINE w == without(ss)
             wb == [w EXCEPT !.creds[b] = Broken]
             wn == [w EXCEPT !.creds[b] = NoCred]
  <2>3. w \in Files /\ w.code = held.code /\ w.pin = held.pin
    BY <2>2
  <2> HIDE DEF w
  <2>7. Broken \in CredForms /\ NoCred \in CredForms
    BY DEF CredForms
  <2>8. wb \in Files /\ wb.code = held.code /\ wb.pin = held.pin
    BY <2>3, <2>7, PutFacts
  <2>9. wn \in Files /\ wn.code = held.code /\ wn.pin = held.pin
    BY <2>3, <2>7, PutFacts
  <2>4. wb \in Files /\ wb.code = held.code /\ wb.pin = held.pin /\ wn \in Files /\ wn.code = held.code /\ wn.pin = held.pin
    BY <2>8, <2>9
  <2>5. held' \in {w, wb, wn}
    BY <2>1 DEF w
  <2> HIDE DEF wb, wn
  <2>6. held' \in Files /\ held'.code = held.code /\ held'.pin = held.pin
    BY <2>3, <2>4, <2>5
  <2> QED  BY <1>1, <1>2, <1>6, <2>6
<1> QED  BY <1>4, <1>5, <1>6

\* The write-back takes over one file.
LEMMA WriteBackFacts ==
  ASSUME OathTypes, OathWriteBack
  PROVE  /\ kept' \in Files /\ kept'.pin \in {kept.pin, held.pin}
         /\ UNCHANGED <<session, oath_chain, held, proof, told, wrong, shown, oathOps, oathLosses, oathFaults>>
         /\ \A s \in CredSlots : kept'.creds[s] \in {kept.creds[s], held.creds[s]}
<1>1. held \in Files /\ kept \in Files /\ kept.creds \in [CredSlots -> CredForms] /\ held.creds \in [CredSlots -> CredForms]
      /\ held.pin \in PinForms /\ held.code \in Codes \cup {NoCode}
  BY DEF OathTypes, Files
<1>2. UNCHANGED <<session, oath_chain, held, proof, told, wrong, shown, oathOps, oathLosses, oathFaults>>
  BY DEF OathWriteBack
<1>3. ASSUME NEW s \in CredSlots, kept' = [kept EXCEPT !.creds[s] = held.creds[s]]
      PROVE  /\ kept' \in Files /\ kept'.pin = kept.pin
             /\ \A t \in CredSlots : kept'.creds[t] \in {kept.creds[t], held.creds[t]}
  <2>1. held.creds[s] \in CredForms
    BY <1>1
  <2>2. kept' \in Files /\ kept'.pin = kept.pin /\ kept'.creds = [kept.creds EXCEPT ![s] = held.creds[s]]
    BY <1>1, <1>3, <2>1, PutFacts
  <2> QED  BY <1>1, <2>2
<1>4. CASE kept' = [kept EXCEPT !.code = held.code]
  BY <1>1, <1>2, <1>4, FileFacts
<1>5. CASE kept' = [kept EXCEPT !.pin = held.pin]
  BY <1>1, <1>2, <1>5, FileFacts
<1> QED  BY <1>2, <1>3, <1>4, <1>5 DEF OathWriteBack

\* Every step keeps types, session and tries.
LEMMA OathBaseNext ==
  ASSUME OathBase, [OathNext]_oathVars
  PROVE  OathBase'
<1>1. held \in Files /\ kept \in Files /\ session \in Duties /\ oathOps \in Nat /\ held.pin \in PinForms
      /\ proof \in Proofs /\ wrong \in Nat /\ held.code \in Codes \cup {NoCode} /\ kept.pin \in PinForms /\ OathTypes
  BY DEF OathBase, OathTypes, Files
<1>2. MaxTries \in Nat /\ NoOtpPin \notin OtpPins /\ NoProof \in Proofs
  BY OathAssumption DEF OathAssumption, NoProof, Proofs
<1>3. ASSUME NEW b \in BOOLEAN, OathSelect(b)
      PROVE  OathBase'
  <2>1. /\ session' = [current |-> TRUE, ready |-> session.ready \/ b, pinOk |-> FALSE,
                       validated |-> held.code = NoCode /\ held.pin = NoPinSet]
        /\ proof' = NoProof /\ UNCHANGED <<held, kept, wrong>> /\ oathOps' = oathOps + 1
    BY <1>3 DEF OathSelect
  <2>2. session' \in Duties /\ session'.pinOk = FALSE /\ (session'.validated => held.code = NoCode)
    BY <1>1, <2>1 DEF Duties
  <2>3. OathTypes'
    BY <1>1, <1>2, <2>1, <2>2 DEF OathTypes
  <2> QED  BY <2>1, <2>2, <2>3 DEF OathBase, OathSessionEarned, TriesOK, NoPinSet
<1>4. ASSUME NEW b \in BOOLEAN, Blocked(b)
      PROVE  OathBase'
  <2>1. session' = [session EXCEPT !.pinOk = FALSE, !.validated = session.validated /\ ~b]
        /\ UNCHANGED <<held, kept, proof, wrong>> /\ oathOps' = oathOps + 1
    BY <1>4 DEF Blocked, Commanded
  <2>2. session' \in Duties /\ session'.pinOk = FALSE /\ (session'.validated => session.validated)
    BY <1>1, <2>1 DEF Duties
  <2>3. OathTypes'
    BY <1>1, <2>1, <2>2 DEF OathTypes
  <2> QED  BY <2>1, <2>2, <2>3 DEF OathBase, OathSessionEarned, TriesOK, NoPinSet
<1>5. CASE oath_unload \/ OathPowerLoss
  <2>1. /\ session' \in Duties /\ session'.validated = FALSE /\ session'.pinOk = FALSE
    <3>1. OffDuty \in Duties /\ OffDuty.validated = FALSE /\ OffDuty.pinOk = FALSE
      BY DEF OffDuty, Duties
    <3>2. session.ready \in BOOLEAN
      BY <1>1 DEF Duties
    <3>3. CASE oath_unload
      <4>1. session' = [OffDuty EXCEPT !.ready = session.ready]
        BY <3>3 DEF oath_unload
      <4> QED  BY <3>1, <3>2, <4>1 DEF Duties
    <3>4. CASE OathPowerLoss
      BY <3>1, <3>4 DEF OathPowerLoss
    <3> QED  BY <1>5, <3>3, <3>4
  <2>2. held' \in {held, kept} /\ proof' = NoProof /\ UNCHANGED <<kept, wrong, oathOps>>
    BY <1>5 DEF oath_unload, OathPowerLoss
  <2>3. OathTypes'
    BY <1>1, <1>2, <2>1, <2>2 DEF OathTypes
  <2> QED  BY <2>1, <2>2, <2>3 DEF OathBase, OathSessionEarned, TriesOK, NoPinSet
<1>6. CASE Refused \/ (\E n \in CredNames : ReadSecret(n))
           \/ (\E room \in 1..MaxPiece : (\E t \in {"list", "all"} : cmd_list(t, room)) \/ cmd_send_remaining(room))
           \/ UNCHANGED oathVars
  <2>1. UNCHANGED <<session, held, kept, proof, wrong>> /\ oathOps' \in {oathOps, oathOps + 1}
    BY <1>6 DEF Refused, ReadSecret, cmd_list, cmd_send_remaining, Commanded, oathVars
  <2> QED  BY <1>1, <2>1, BaseFrame
<1>7. ASSUME NEW n \in CredNames,
             (\E h \in BOOLEAN : cmd_put(n, h)) \/ cmd_delete(n) \/ cmd_calculate(n) \/ (\E m \in CredNames : cmd_rename(n, m))
      PROVE  OathBase'
  <2>1. /\ held' \in Files /\ kept' \in Files /\ held'.code = held.code /\ held'.pin = held.pin
        /\ kept'.pin \in {kept.pin, held.pin} /\ UNCHANGED <<session, proof, wrong>> /\ oathOps' = oathOps + 1
    BY <1>1, <1>7, CredCommandFacts
  <2>2. oathOps' \in Nat
    BY <1>1, <2>1
  <2> QED  BY <2>1, <2>2, BaseFrame
<1>8. CASE cmd_set_code
  BY <1>8, SetCodeStep
<1>9. CASE cmd_validate
  <2>1. /\ session' = [session EXCEPT !.validated = TRUE] /\ proof' = [proof EXCEPT !.code = held.code]
        /\ UNCHANGED <<held, kept, wrong>> /\ oathOps' = oathOps + 1
    BY <1>9 DEF cmd_validate, Commanded
  <2>2. session' \in Duties /\ session'.pinOk = session.pinOk
    BY <1>1, <2>1 DEF Duties
  <2>3. proof' \in Proofs /\ proof'.code = held.code /\ proof'.pin = proof.pin
    BY <1>1, <2>1 DEF Proofs
  <2>4. OathTypes'
    BY <1>1, <2>1, <2>2, <2>3 DEF OathTypes
  <2> QED  BY <2>1, <2>2, <2>3, <2>4 DEF OathBase, OathSessionEarned, TriesOK, NoPinSet
<1>10. CASE cmd_reset
  <2>1. /\ held' \in Files /\ kept' \in Files /\ kept'.pin \in {kept.pin, held.pin}
        /\ oathOps' = oathOps + 1 /\ UNCHANGED <<proof, wrong>>
        /\ \/ /\ held'.code = NoCode /\ held'.pin = NoPinSet
              /\ session' = [session EXCEPT !.validated = TRUE, !.pinOk = FALSE]
           \/ held'.code = held.code /\ held'.pin = held.pin /\ UNCHANGED session
    BY <1>1, <1>10, ResetFacts
  <2>2. CASE held'.code = held.code /\ held'.pin = held.pin /\ UNCHANGED session
    <3>1. oathOps' \in Nat
      BY <1>1, <2>1
    <3> QED  BY <2>1, <2>2, <3>1, BaseFrame
  <2>3. CASE /\ held'.code = NoCode /\ held'.pin = NoPinSet
             /\ session' = [session EXCEPT !.validated = TRUE, !.pinOk = FALSE]
    <3>1. session' \in Duties /\ session'.pinOk = FALSE
      BY <1>1, <2>3 DEF Duties
    <3>2. OathTypes'
      BY <1>1, <2>1, <3>1 DEF OathTypes
    <3> QED  BY <2>1, <2>3, <3>1, <3>2 DEF OathBase, OathSessionEarned, TriesOK, NoPinSet
  <2> QED  BY <2>1, <2>2, <2>3
<1>11. CASE CheckFails \/ \E p \in OtpPins : cmd_verify_otp_pin(p) \/ \E q \in OtpPins : cmd_change_otp_pin(p, q)
  BY <1>11, CheckPinStep
<1>12. ASSUME NEW p \in OtpPins, cmd_set_otp_pin(p)
       PROVE  OathBase'
  <2> DEFINE full == Full(p)
  <2>1. /\ held' = [held EXCEPT !.pin = full] /\ wrong' = 0 /\ UNCHANGED <<kept, proof>> /\ oathOps' = oathOps + 1
        /\ session' = [session EXCEPT !.pinOk = FALSE]
    BY <1>12 DEF cmd_set_otp_pin, Commanded
  <2>2. full \in PinForms /\ full.tries = MaxTries
    BY PinFacts
  <2> HIDE DEF full
  <2>3. held' \in Files /\ held'.pin = full /\ held'.code = held.code
    BY <1>1, <2>1, <2>2, FileFacts
  <2>4. session' \in Duties /\ session'.pinOk = FALSE /\ session'.validated = session.validated
    BY <1>1, <2>1 DEF Duties
  <2>5. OathTypes'
    BY <1>1, <2>1, <2>3, <2>4 DEF OathTypes
  <2>6. OathSessionEarned'
    BY <2>1, <2>3, <2>4 DEF OathBase, OathSessionEarned
  <2>7. held'.pin.tries + wrong' <= MaxTries
    BY <1>2, <2>1, <2>2, <2>3
  <2>8. kept.pin # NoPinSet => kept.pin.tries + wrong' <= MaxTries
    <3>1. kept.pin.tries \in Nat
      BY <1>1 DEF PinForms
    <3> QED  BY <1>1, <1>2, <2>1, <3>1 DEF OathBase, TriesOK
  <2>9. TriesOK'
    BY <2>1, <2>7, <2>8 DEF TriesOK, NoPinSet
  <2> QED  BY <2>5, <2>6, <2>9 DEF OathBase
<1>13. CASE OathWriteBack
  <2>1. /\ kept' \in Files /\ kept'.pin \in {kept.pin, held.pin} /\ UNCHANGED <<session, held, proof, wrong, oathOps>>
    BY <1>1, <1>13, WriteBackFacts
  <2> QED  BY <1>1, <2>1, BaseFrame
<1> QED  BY <1>3, <1>4, <1>5, <1>6, <1>7, <1>8, <1>9, <1>10, <1>11, <1>12, <1>13 DEF OathNext

\* A device as it is first met has earned nothing and spent nothing.
LEMMA OathBaseInit ==
  ASSUME OathInit
  PROVE  OathBase
<1> DEFINE first == [form |-> "legacy", name |-> CHOOSE n \in CredNames : TRUE, id |-> 0, hotp |-> TRUE, counter |-> 0]
<1>1. PICK old \in {{}, {0}} : held = [creds |-> [s \in CredSlots |-> IF s \in old THEN first ELSE NoCred],
                                       code |-> NoCode, pin |-> NoPinSet]
  BY DEF OathInit
<1>2. first \in CredForms /\ NoCred \in CredForms
  <2>1. (CHOOSE n \in CredNames : TRUE) \in CredNames
    BY OathAssumption DEF OathAssumption
  <2> QED  BY <2>1 DEF CredForms, RealCreds
<1> HIDE DEF first
<1>3. [s \in CredSlots |-> IF s \in old THEN first ELSE NoCred] \in [CredSlots -> CredForms]
  BY <1>2
<1>4. NoPinSet \in PinForms
  BY PinFacts
<1>5. held \in Files /\ held.pin = NoPinSet
  BY <1>1, <1>3, <1>4 DEF Files
<1>6. session \in Duties /\ session.validated = FALSE /\ session.pinOk = FALSE
  BY DEF OathInit, OffDuty, Duties
<1>7. proof \in Proofs /\ wrong = 0 /\ oathOps = 0 /\ kept = held
  BY DEF OathInit, NoProof, Proofs
<1>8. OathTypes
  BY <1>5, <1>6, <1>7 DEF OathTypes
<1>9. OathSessionEarned
  BY <1>6 DEF OathSessionEarned
<1>10. TriesOK
  BY <1>5, <1>7 DEF TriesOK
<1> QED  BY <1>8, <1>9, <1>10 DEF OathBase

\* Whatever order codes and PINs are set, changed, verified, blocked, reset and lost in, a session has
\* only the rights that were proved in it (cmd_validate, cmd_verify_otp_pin, cmd_set_code, cmd_reset).
THEOREM OathSessionHolds == OathSpec => []OathSessionEarned
<1>1. OathInit => OathBase
  BY OathBaseInit
<1>2. OathBase /\ [OathNext]_oathVars => OathBase'
  BY OathBaseNext
<1>3. OathBase => OathSessionEarned
  BY DEF OathBase
<1> QED  BY <1>1, <1>2, <1>3, PTL DEF OathSpec

-----------------------------------------------------------------------------
(* The counters.  A credential is known by its id: wherever two copies of  *)
(* it are read, they are in the same slot and of the same form.            *)

IsReal(c) == c.form \in {"legacy", "container"}

\* h and k are the credentials the device reads and those in flash, after n commands.
IdsOK(h, k, n) ==
  /\ \A s, t \in CredSlots : \A c \in {h[s], k[s]} : \A d \in {h[t], k[t]} :
       IsReal(c) /\ IsReal(d) /\ c.id = d.id => s = t /\ c.form = d.form
  /\ \A s \in CredSlots : \A c \in {h[s], k[s]} : IsReal(c) => c.id <= n

\* No counter of a container is one that was shown.
ShownOK(h, k, n, given) ==
  /\ given \subseteq Nat \X Nat
  /\ \A q \in given : q[1] <= n
  /\ \A s \in CredSlots : \A c \in {h[s], k[s]} : c.form = "container" => \A q \in given : q[1] = c.id => q[2] < c.counter

Known(h, k, n, given) == IdsOK(h, k, n) /\ ShownOK(h, k, n, given)

\* A step that only copies or drops credentials.
LEMMA KnownCarried ==
  ASSUME NEW h, NEW k, NEW h2, NEW k2, NEW n \in Nat, NEW n2 \in Nat, NEW given, n <= n2, Known(h, k, n, given),
         h \in [CredSlots -> CredForms], k \in [CredSlots -> CredForms],
         \A s \in CredSlots : h2[s] \in {h[s], k[s], NoCred, Broken} /\ k2[s] \in {h[s], k[s], NoCred, Broken}
  PROVE  Known(h2, k2, n2, given)
<1>1. \A s \in CredSlots : \A c \in {h2[s], k2[s]} : IsReal(c) => c \in {h[s], k[s]}
  BY CredFacts DEF IsReal
<1>2. \A s \in CredSlots : \A c \in {h[s], k[s]} : IsReal(c) => c \in RealCreds
  BY CredFacts DEF IsReal, CredForms
<1>3. IdsOK(h2, k2, n2)
  <2>1. \A s \in CredSlots : \A c \in {h2[s], k2[s]} : IsReal(c) => c.id <= n2
    <3> SUFFICES ASSUME NEW s \in CredSlots, NEW c \in {h2[s], k2[s]}, IsReal(c)  PROVE c.id <= n2
      OBVIOUS
    <3>1. c \in {h[s], k[s]} /\ c \in RealCreds
      BY <1>1, <1>2
    <3>2. c.id <= n /\ c.id \in Nat
      BY <3>1 DEF Known, IdsOK, RealCreds
    <3> QED  BY <3>2
  <2>2. ASSUME NEW s \in CredSlots, NEW t \in CredSlots, NEW c \in {h2[s], k2[s]}, NEW d \in {h2[t], k2[t]},
               IsReal(c), IsReal(d), c.id = d.id
        PROVE  s = t /\ c.form = d.form
    <3>1. c \in {h[s], k[s]} /\ d \in {h[t], k[t]}
      BY <1>1, <2>2
    <3> QED  BY <2>2, <3>1 DEF Known, IdsOK
  <2> QED  BY <2>1, <2>2 DEF IdsOK
<1>4. ShownOK(h2, k2, n2, given)
  <2>1. given \subseteq Nat \X Nat
    BY DEF Known, ShownOK
  <2>2. \A q \in given : q[1] <= n2
    <3> TAKE q \in given
    <3>1. q[1] \in Nat /\ q[1] <= n
      BY <2>1 DEF Known, ShownOK
    <3> QED  BY <3>1
  <2>3. ASSUME NEW s \in CredSlots, NEW c \in {h2[s], k2[s]}, c.form = "container", NEW q \in given, q[1] = c.id
        PROVE  q[2] < c.counter
    <3>1. c \in {h[s], k[s]}
      BY <1>1, <2>3 DEF IsReal
    <3> QED  BY <2>3, <3>1 DEF Known, ShownOK
  <2> QED  BY <2>1, <2>2, <2>3 DEF ShownOK
<1> QED  BY <1>3, <1>4 DEF Known

\* One slot gets a credential, in the device's copy and perhaps in flash: a new one, or the one that
\* was there with a counter no smaller.
Placed(h, k, h2, k2, s, c) ==
  \A t \in CredSlots : /\ h2[t] \in {h[t], k[t]} \/ (t = s /\ h2[t] = c)
                       /\ k2[t] \in {h[t], k[t]} \/ (t = s /\ k2[t] = c)

LEMMA KnownNew ==
  ASSUME NEW h, NEW k, NEW h2, NEW k2, NEW n \in Nat, NEW given, Known(h, k, n, given),
         h \in [CredSlots -> CredForms], k \in [CredSlots -> CredForms],
         NEW s \in CredSlots, NEW x \in RealCreds, x.id = n + 1, Placed(h, k, h2, k2, s, x)
  PROVE  Known(h2, k2, n + 1, given)
<1>1. \A t \in CredSlots : \A c \in {h2[t], k2[t]} : c \in {h[t], k[t]} \/ (t = s /\ c = x)
  BY DEF Placed
<1>2. \A t \in CredSlots : \A c \in {h[t], k[t]} : IsReal(c) => c.id \in Nat /\ c.id <= n
  BY CredFacts DEF IsReal, CredForms, RealCreds, Known, IdsOK
<1>3. IdsOK(h2, k2, n + 1)
  <2>1. ASSUME NEW t \in CredSlots, NEW c \in {h2[t], k2[t]}, IsReal(c)
        PROVE  c.id <= n + 1
    BY <1>1, <1>2, <2>1
  <2>2. ASSUME NEW t \in CredSlots, NEW u \in CredSlots, NEW c \in {h2[t], k2[t]}, NEW d \in {h2[u], k2[u]},
               IsReal(c), IsReal(d), c.id = d.id
        PROVE  t = u /\ c.form = d.form
    <3>1. CASE c \in {h[t], k[t]} /\ d \in {h[u], k[u]}
      BY <2>2, <3>1 DEF Known, IdsOK
    <3>2. CASE ~(c \in {h[t], k[t]} /\ d \in {h[u], k[u]})
      BY <1>1, <1>2, <2>2, <3>2
    <3> QED  BY <3>1, <3>2
  <2> QED  BY <2>1, <2>2 DEF IdsOK
<1>4. ShownOK(h2, k2, n + 1, given)
  <2>1. given \subseteq Nat \X Nat
    BY DEF Known, ShownOK
  <2>2. \A q \in given : q[1] \in Nat /\ q[1] <= n
    BY <2>1 DEF Known, ShownOK
  <2>3. ASSUME NEW t \in CredSlots, NEW c \in {h2[t], k2[t]}, c.form = "container", NEW q \in given, q[1] = c.id
        PROVE  q[2] < c.counter
    <3>1. c \in {h[t], k[t]}
      BY <1>1, <2>2, <2>3
    <3> QED  BY <2>3, <3>1 DEF Known, ShownOK
  <2> QED  BY <2>1, <2>2, <2>3 DEF ShownOK
<1> QED  BY <1>3, <1>4 DEF Known

LEMMA KnownSame ==
  ASSUME NEW h, NEW k, NEW h2, NEW k2, NEW n \in Nat, NEW given, NEW given2, Known(h, k, n, given),
         h \in [CredSlots -> CredForms], k \in [CredSlots -> CredForms],
         NEW s \in CredSlots, h[s] \in RealCreds, NEW x \in RealCreds, x.id = h[s].id, x.form = h[s].form,
         x.counter >= h[s].counter, Placed(h, k, h2, k2, s, x),
         \/ given2 = given
         \/ /\ given2 = given \cup {<<x.id, h[s].counter>>} /\ x.counter = h[s].counter + 1
            /\ x.form # "legacy" => (\A t \in CredSlots : h2[t] = k2[t] /\ (t # s => h2[t] = h[t])) /\ h2[s] = x
  PROVE  Known(h2, k2, n + 1, given2)
<1>1. \A t \in CredSlots : \A c \in {h2[t], k2[t]} : c \in {h[t], k[t]} \/ (t = s /\ c = x)
  BY DEF Placed
<1>2. \A t \in CredSlots : \A c \in {h[t], k[t]} : IsReal(c) => c.id \in Nat /\ c.id <= n
  BY CredFacts DEF IsReal, CredForms, RealCreds, Known, IdsOK
<1>x. IsReal(x) /\ IsReal(h[s]) /\ x.id \in Nat /\ h[s].counter \in Nat /\ x.counter \in Nat /\ x.id <= n
      /\ x.form \in {"legacy", "container"}
  BY <1>2 DEF IsReal, RealCreds
<1>3. IdsOK(h2, k2, n + 1)
  <2>1. ASSUME NEW t \in CredSlots, NEW c \in {h2[t], k2[t]}, IsReal(c)
        PROVE  c.id <= n + 1
    BY <1>1, <1>2, <1>x, <2>1
  <2>2. ASSUME NEW t \in CredSlots, NEW u \in CredSlots, NEW c \in {h2[t], k2[t]}, NEW d \in {h2[u], k2[u]},
               IsReal(c), IsReal(d), c.id = d.id
        PROVE  t = u /\ c.form = d.form
    <3>1. PICK c0 \in {h[t], k[t]} : IsReal(c0) /\ c0.id = c.id /\ c0.form = c.form
      BY <1>1, <1>x, <2>2
    <3>2. PICK d0 \in {h[u], k[u]} : IsReal(d0) /\ d0.id = d.id /\ d0.form = d.form
      BY <1>1, <1>x, <2>2
    <3>3. t = u /\ c0.form = d0.form
      BY <2>2, <3>1, <3>2 DEF Known, IdsOK
    <3> QED  BY <3>1, <3>2, <3>3
  <2> QED  BY <2>1, <2>2 DEF IdsOK
<1>5. given \subseteq Nat \X Nat
  BY DEF Known, ShownOK
<1>6. \A q \in given : q[1] \in Nat /\ q[2] \in Nat /\ q[1] <= n
  BY <1>5 DEF Known, ShownOK
<1>7. \A t \in CredSlots : \A c \in {h2[t], k2[t]} : c.form = "container" => \A q \in given : q[1] = c.id => q[2] < c.counter
  <2> SUFFICES ASSUME NEW t \in CredSlots, NEW c \in {h2[t], k2[t]}, c.form = "container", NEW q \in given, q[1] = c.id
               PROVE  q[2] < c.counter
    OBVIOUS
  <2>1. CASE c \in {h[t], k[t]}
    BY <2>1 DEF Known, ShownOK
  <2>2. CASE t = s /\ c = x
    <3>1. q[2] < h[s].counter
      BY <2>2 DEF Known, ShownOK
    <3> QED  BY <1>6, <1>x, <2>2, <3>1
  <2> QED  BY <1>1, <2>1, <2>2
<1>8. CASE given2 = given
  <2>1. ShownOK(h2, k2, n + 1, given2)
    BY <1>5, <1>6, <1>7, <1>8 DEF ShownOK
  <2> QED  BY <1>3, <2>1 DEF Known
<1>9. CASE /\ given2 = given \cup {<<x.id, h[s].counter>>} /\ x.counter = h[s].counter + 1
           /\ x.form # "legacy" => (\A t \in CredSlots : h2[t] = k2[t] /\ (t # s => h2[t] = h[t])) /\ h2[s] = x
  <2> DEFINE now == <<x.id, h[s].counter>>
  <2>1. now \in Nat \X Nat /\ now[1] = x.id /\ now[2] = h[s].counter
    BY <1>x
  <2>2. given2 \subseteq Nat \X Nat /\ \A q \in given2 : q[1] <= n + 1
    BY <1>5, <1>6, <1>9, <1>x, <2>1
  <2>3. ASSUME NEW t \in CredSlots, NEW c \in {h2[t], k2[t]}, c.form = "container", c.id = x.id
        PROVE  h[s].counter < c.counter
    <3>1. PICK c0 \in {h[t], k[t]} : IsReal(c0) /\ c0.id = c.id /\ c0.form = c.form
      BY <1>1, <1>x, <2>3 DEF IsReal
    <3>2. t = s /\ c0.form = h[s].form
      BY <1>x, <2>3, <3>1 DEF Known, IdsOK
    <3>3. x.form = "container" /\ c = x
      BY <1>9, <2>3, <3>1, <3>2
    <3> QED  BY <1>9, <1>x, <3>3
  <2> HIDE DEF now
  <2>4. \A t \in CredSlots : \A c \in {h2[t], k2[t]} : c.form = "container" => \A q \in given2 : q[1] = c.id => q[2] < c.counter
    BY <1>7, <1>9, <2>1, <2>3 DEF now
  <2>5. ShownOK(h2, k2, n + 1, given2)
    BY <2>2, <2>4 DEF ShownOK
  <2> QED  BY <1>3, <2>5 DEF Known
<1> QED  BY <1>8, <1>9

KnownNow == Known(held.creds, kept.creds, oathOps, shown)

\* A command that copies or drops credentials, and shows none.
LEMMA CarryStep ==
  ASSUME OathTypes, KnownNow, oathOps' \in {oathOps, oathOps + 1}, UNCHANGED shown,
         \A s \in CredSlots : /\ held'.creds[s] \in {held.creds[s], kept.creds[s], NoCred, Broken}
                              /\ kept'.creds[s] \in {held.creds[s], kept.creds[s], NoCred, Broken}
  PROVE  KnownNow'
<1> DEFINE h == held.creds
           k == kept.creds
           h2 == held'.creds
           k2 == kept'.creds
           n2 == oathOps'
<1>1. oathOps \in Nat /\ n2 \in Nat /\ oathOps <= n2 /\ h \in [CredSlots -> CredForms] /\ k \in [CredSlots -> CredForms]
  BY DEF OathTypes, Files
<1>2. \A s \in CredSlots : h2[s] \in {h[s], k[s], NoCred, Broken} /\ k2[s] \in {h[s], k[s], NoCred, Broken}
  OBVIOUS
<1>3. Known(h, k, oathOps, shown)
  BY DEF KnownNow
<1> HIDE DEF h, k, h2, k2, n2
<1>4. Known(h2, k2, n2, shown)
  BY <1>1, <1>2, <1>3, KnownCarried
<1> QED  BY <1>4 DEF KnownNow, h2, k2, n2

\* A write, done or failed, changes the slot it is for.
LEMMA WritePlaces ==
  ASSUME OathTypes, NEW s \in CredSlots, NEW c \in RealCreds, Write(s, c) \/ WriteFails(s, c)
  PROVE  /\ Placed(held.creds, kept.creds, held'.creds, kept'.creds, s, Rewritten(s, c))
         /\ Write(s, c) /\ held.creds[s].form # "legacy" =>
              /\ \A t \in CredSlots : held'.creds[t] = kept'.creds[t] /\ (t # s => held'.creds[t] = held.creds[t])
              /\ held'.creds[s] = Rewritten(s, c)
<1> DEFINE d == Rewritten(s, c)
           after == [held EXCEPT !.creds[s] = d]
<1>1. held \in Files /\ held.creds \in [CredSlots -> CredForms] /\ d \in CredForms
  BY RewrittenFacts DEF OathTypes, Files, CredForms
<1>2. /\ \/ held' = held /\ kept' = kept
         \/ held' = after /\ kept' \in {kept, after}
      /\ Write(s, c) => held' = after /\ (held.creds[s].form # "legacy" => kept' = after)
  BY WriteFacts
<1> HIDE DEF d
<1>3. after.creds = [held.creds EXCEPT ![s] = d]
  BY <1>1, PutFacts
<1>4. \A t \in CredSlots : after.creds[t] = IF t = s THEN d ELSE held.creds[t]
  BY <1>1, <1>3
<1> HIDE DEF after
<1>5. Placed(held.creds, kept.creds, held'.creds, kept'.creds, s, d)
  BY <1>2, <1>4 DEF Placed
<1>6. Write(s, c) /\ held.creds[s].form # "legacy" =>
         /\ \A t \in CredSlots : held'.creds[t] = kept'.creds[t] /\ (t # s => held'.creds[t] = held.creds[t])
         /\ held'.creds[s] = d
  BY <1>2, <1>4
<1> QED  BY <1>5, <1>6 DEF d

\* PUT brings a credential with a new id.
LEMMA PutKnown ==
  ASSUME OathTypes, KnownNow, NEW n \in CredNames, NEW b \in BOOLEAN, cmd_put(n, b)
  PROVE  KnownNow'
<1>1. oathOps \in Nat /\ held.creds \in [CredSlots -> CredForms] /\ kept.creds \in [CredSlots -> CredForms]
  BY DEF OathTypes, Files
<1>2. oathOps' = oathOps + 1 /\ UNCHANGED shown
  BY DEF cmd_put, Commanded
<1>3. PutSlot(n) \subseteq CredSlots
  BY DEF PutSlot, find_oath_cred, Readable, Present
<1>4. NewCred(n, b) \in RealCreds /\ NewCred(n, b).id = oathOps + 1
  BY <1>1 DEF NewCred, RealCreds
<1>5. PICK s \in CredSlots : Write(s, NewCred(n, b)) \/ WriteFails(s, NewCred(n, b))
  BY <1>3 DEF cmd_put
<1> DEFINE h == held.creds
           k == kept.creds
           h2 == held'.creds
           k2 == kept'.creds
           x == Rewritten(s, NewCred(n, b))
<1>6. x \in RealCreds /\ x.id = oathOps + 1
  BY <1>4, RewrittenFacts
<1>7. Placed(h, k, h2, k2, s, x)
  BY <1>4, <1>5, WritePlaces
<1>8. Known(h, k, oathOps, shown) /\ h \in [CredSlots -> CredForms] /\ k \in [CredSlots -> CredForms]
  BY <1>1 DEF KnownNow
<1> HIDE DEF h, k, h2, k2, x
<1>9. Known(h2, k2, oathOps + 1, shown)
  BY <1>1, <1>6, <1>7, <1>8, KnownNew
<1> QED  BY <1>2, <1>9 DEF KnownNow, h2, k2

\* RENAME and CALCULATE write the credential back, with its next counter when a value was shown.
LEMMA RewriteKnown ==
  ASSUME OathTypes, KnownNow, NEW s \in CredSlots, held.creds[s] \in RealCreds, oathOps' = oathOps + 1,
         NEW c \in RealCreds, c.id = held.creds[s].id, Write(s, c) \/ WriteFails(s, c),
         \/ c.counter = held.creds[s].counter /\ UNCHANGED shown
         \/ /\ c.counter = held.creds[s].counter + 1
            /\ \/ UNCHANGED shown
               \/ Write(s, c) /\ shown' = shown \cup {<<c.id, held.creds[s].counter>>}
  PROVE  KnownNow'
<1>1. oathOps \in Nat /\ held.creds \in [CredSlots -> CredForms] /\ kept.creds \in [CredSlots -> CredForms]
  BY DEF OathTypes, Files
<1>2. held.creds[s].counter \in Nat /\ held.creds[s].form \in {"legacy", "container"}
  BY DEF RealCreds
<1> DEFINE h == held.creds
           k == kept.creds
           h2 == held'.creds
           k2 == kept'.creds
           x == Rewritten(s, c)
           given2 == shown'
<1>3. x \in RealCreds /\ x.id = h[s].id /\ x.form = h[s].form /\ x.counter = c.counter
  BY <1>2, RewrittenFacts
<1>4. Placed(h, k, h2, k2, s, x)
      /\ (Write(s, c) /\ h[s].form # "legacy" =>
             (\A t \in CredSlots : h2[t] = k2[t] /\ (t # s => h2[t] = h[t])) /\ h2[s] = x)
  BY WritePlaces
<1>5. Known(h, k, oathOps, shown) /\ h \in [CredSlots -> CredForms] /\ k \in [CredSlots -> CredForms]
  BY <1>1 DEF KnownNow
<1>6. x.counter >= h[s].counter /\ h[s] \in RealCreds
  BY <1>2, <1>3
<1>7. \/ given2 = shown
      \/ /\ given2 = shown \cup {<<x.id, h[s].counter>>} /\ x.counter = h[s].counter + 1
         /\ x.form # "legacy" => (\A t \in CredSlots : h2[t] = k2[t] /\ (t # s => h2[t] = h[t])) /\ h2[s] = x
  BY <1>3, <1>4
<1> HIDE DEF h, k, h2, k2, x, given2
<1>8. Known(h2, k2, oathOps + 1, given2)
  BY <1>1, <1>3, <1>4, <1>5, <1>6, <1>7, KnownSame
<1> QED  BY <1>8 DEF KnownNow, h2, k2, given2

\* RESET and DELETE drop credentials, whole or in part.
LEMMA ResetDrops ==
  ASSUME OathTypes, cmd_reset
  PROVE  \A s \in CredSlots : /\ held'.creds[s] \in {held.creds[s], kept.creds[s], NoCred, Broken}
                              /\ kept'.creds[s] \in {held.creds[s], kept.creds[s], NoCred, Broken}
<1>1. held \in Files /\ held.creds \in [CredSlots -> CredForms]
  BY DEF OathTypes, Files
<1> DEFINE without(ss) == [held EXCEPT !.creds = [s \in CredSlots |-> IF s \in ss THEN NoCred ELSE held.creds[s]]]
<1>2. ASSUME NEW ss
      PROVE  /\ without(ss) \in Files
             /\ \A s \in CredSlots : without(ss).creds[s] \in {held.creds[s], NoCred}
  <2> DEFINE cs == [s \in CredSlots |-> IF s \in ss THEN NoCred ELSE held.creds[s]]
  <2>1. cs \in [CredSlots -> CredForms] /\ \A s \in CredSlots : cs[s] \in {held.creds[s], NoCred}
    BY <1>1 DEF CredForms
  <2> HIDE DEF cs
  <2>2. [held EXCEPT !.creds = cs] \in Files /\ [held EXCEPT !.creds = cs].creds = cs
    BY <1>1, <2>1 DEF Files
  <2> QED  BY <2>1, <2>2 DEF cs
<1>3. \/ /\ held' = [creds |-> [s \in CredSlots |-> NoCred], code |-> NoCode, pin |-> NoPinSet]
         /\ kept' = kept \/ \E ss : kept' = without(ss)
      \/ /\ \E ss : \E b \in CredSlots : held' \in {without(ss), [without(ss) EXCEPT !.creds[b] = Broken],
                                                     [without(ss) EXCEPT !.creds[b] = NoCred]}
         /\ UNCHANGED kept
  BY DEF cmd_reset, Present
<1> HIDE DEF without
<1>4. CASE /\ held' = [creds |-> [s \in CredSlots |-> NoCred], code |-> NoCode, pin |-> NoPinSet]
           /\ kept' = kept \/ \E ss : kept' = without(ss)
  <2>1. \A s \in CredSlots : held'.creds[s] = NoCred
    BY <1>4
  <2>2. \A s \in CredSlots : kept'.creds[s] \in {held.creds[s], kept.creds[s], NoCred, Broken}
    BY <1>2, <1>4
  <2> QED  BY <2>1, <2>2
<1>5. CASE /\ \E ss : \E b \in CredSlots : held' \in {without(ss), [without(ss) EXCEPT !.creds[b] = Broken],
                                                       [without(ss) EXCEPT !.creds[b] = NoCred]}
           /\ UNCHANGED kept
  <2>1. PICK ss : \E b \in CredSlots : held' \in {without(ss), [without(ss) EXCEPT !.creds[b] = Broken],
                                                  [without(ss) EXCEPT !.creds[b] = NoCred]}
    BY <1>5
  <2>2. PICK b \in CredSlots : held' \in {without(ss), [without(ss) EXCEPT !.creds[b] = Broken],
                                          [without(ss) EXCEPT !.creds[b] = NoCred]}
    BY <2>1
  <2> DEFINE w == without(ss)
  <2>3. w \in Files /\ \A s \in CredSlots : w.creds[s] \in {held.creds[s], NoCred}
    BY <1>2
  <2>4. held' \in {w, [w EXCEPT !.creds[b] = Broken], [w EXCEPT !.creds[b] = NoCred]}
    BY <2>2
  <2> HIDE DEF w
  <2>5. Broken \in CredForms /\ NoCred \in CredForms /\ w.creds \in [CredSlots -> CredForms]
    BY <2>3 DEF CredForms, Files
  <2>6. ASSUME NEW d \in {Broken, NoCred}
        PROVE  \A s \in CredSlots : [w EXCEPT !.creds[b] = d].creds[s] \in {held.creds[s], NoCred, Broken}
    <3>1. [w EXCEPT !.creds[b] = d].creds = [w.creds EXCEPT ![b] = d]
      BY <2>3, <2>5, PutFacts
    <3> QED  BY <2>3, <2>5, <3>1
  <2>7. \A s \in CredSlots : held'.creds[s] \in {held.creds[s], NoCred, Broken}
    BY <2>3, <2>4, <2>6
  <2> QED  BY <1>5, <2>7
<1> QED  BY <1>3, <1>4, <1>5

LEMMA DeleteDrops ==
  ASSUME OathTypes, NEW n \in CredNames, cmd_delete(n)
  PROVE  \A s \in CredSlots : /\ held'.creds[s] \in {held.creds[s], kept.creds[s], NoCred, Broken}
                              /\ kept'.creds[s] \in {held.creds[s], kept.creds[s], NoCred, Broken}
<1>1. held \in Files /\ held.creds \in [CredSlots -> CredForms] /\ find_oath_cred(n) \subseteq CredSlots
  BY DEF OathTypes, Files, find_oath_cred, Readable, Present
<1>2. PICK b \in CredSlots :
        LET gone(v) == [held EXCEPT !.creds[b] = v] IN
        /\ held' \in {held, gone(Broken), gone(NoCred)} /\ kept' \in {kept, gone(NoCred)}
  BY <1>1 DEF cmd_delete
<1>3. Broken \in CredForms /\ NoCred \in CredForms
  BY DEF CredForms
<1>4. ASSUME NEW d \in {Broken, NoCred}
      PROVE  \A s \in CredSlots : [held EXCEPT !.creds[b] = d].creds[s] \in {held.creds[s], NoCred, Broken}
  <2>1. [held EXCEPT !.creds[b] = d].creds = [held.creds EXCEPT ![b] = d]
    BY <1>1, <1>3, PutFacts
  <2> QED  BY <1>1, <2>1
<1> QED  BY <1>2, <1>4

\* Code and PIN change and the credentials do not.
LEMMA PinCommandFacts ==
  ASSUME OathTypes,
         cmd_set_code \/ CheckFails
           \/ (\E p \in OtpPins : cmd_verify_otp_pin(p) \/ cmd_set_otp_pin(p) \/ \E q \in OtpPins : cmd_change_otp_pin(p, q))
  PROVE  /\ held'.creds = held.creds /\ kept'.creds \in {held.creds, kept.creds}
         /\ UNCHANGED shown /\ oathOps' = oathOps + 1
<1>1. held \in Files
  BY DEF OathTypes
<1>2. UNCHANGED shown /\ oathOps' = oathOps + 1
  BY DEF cmd_set_code, CheckFails, cmd_verify_otp_pin, cmd_set_otp_pin, cmd_change_otp_pin, Commanded
<1>3. Spent.creds = held.creds
  BY <1>1 DEF Spent, Files
<1>4. /\ \/ held' \in {held, Spent}
         \/ \E x : held' = [held EXCEPT !.pin = x]
         \/ \E x : held' = [held EXCEPT !.code = x]
         \/ \E x, y : held' = [held EXCEPT !.code = x, !.pin = y]
      /\ kept' \in {kept, Spent}
  BY DEF cmd_set_code, SetCode, SetCodeFails, CheckFails, cmd_verify_otp_pin, cmd_set_otp_pin, cmd_change_otp_pin, CheckPin
<1>5. held'.creds = held.creds
  <2>1. CASE held' \in {held, Spent}
    BY <1>3, <2>1
  <2>2. CASE \E x : held' = [held EXCEPT !.pin = x]
    BY <1>1, <2>2 DEF Files
  <2>3. CASE \E x : held' = [held EXCEPT !.code = x]
    BY <1>1, <2>3 DEF Files
  <2>4. CASE \E x, y : held' = [held EXCEPT !.code = x, !.pin = y]
    BY <1>1, <2>4 DEF Files
  <2> QED  BY <1>4, <2>1, <2>2, <2>3, <2>4
<1>6. kept'.creds \in {held.creds, kept.creds}
  BY <1>3, <1>4
<1> QED  BY <1>2, <1>5, <1>6

\* Every step keeps ids apart and counters ahead.
LEMMA KnownNext ==
  ASSUME OathTypes, KnownNow, [OathNext]_oathVars
  PROVE  KnownNow'
<1>1. held.creds \in [CredSlots -> CredForms] /\ kept.creds \in [CredSlots -> CredForms] /\ oathOps \in Nat
  BY DEF OathTypes, Files
<1>2. \A n \in CredNames : \A s \in find_oath_cred(n) : s \in CredSlots /\ held.creds[s] \in RealCreds
  BY <1>1 DEF find_oath_cred, Readable, Present, CredForms
<1>3. CASE oath_unload \/ Refused \/ cmd_validate \/ (\E b \in BOOLEAN : OathSelect(b) \/ Blocked(b))
           \/ (\E n \in CredNames : ReadSecret(n))
           \/ (\E room \in 1..MaxPiece : (\E t \in {"list", "all"} : cmd_list(t, room)) \/ cmd_send_remaining(room))
           \/ OathPowerLoss \/ UNCHANGED oathVars
  <2>1. held' \in {held, kept} /\ kept' = kept /\ UNCHANGED shown /\ oathOps' \in {oathOps, oathOps + 1}
    BY <1>3 DEF oath_unload, Refused, cmd_validate, OathSelect, Blocked, ReadSecret, cmd_list, cmd_send_remaining,
                OathPowerLoss, Commanded, oathVars
  <2> QED  BY <2>1, CarryStep
<1>4. ASSUME NEW n \in CredNames, NEW h \in BOOLEAN, cmd_put(n, h)
      PROVE  KnownNow'
  BY <1>4, PutKnown
<1>5. ASSUME NEW n \in CredNames, cmd_delete(n)
      PROVE  KnownNow'
  <2>1. oathOps' \in {oathOps, oathOps + 1} /\ UNCHANGED shown
    BY <1>5 DEF cmd_delete, Commanded
  <2> QED  BY <1>5, <2>1, CarryStep, DeleteDrops
<1>6. ASSUME NEW n \in CredNames, NEW m \in CredNames, cmd_rename(n, m)
      PROVE  KnownNow'
  <2>1. PICK s \in find_oath_cred(n) : LET c == [held.creds[s] EXCEPT !.name = m] IN Write(s, c) \/ WriteFails(s, c)
    BY <1>6 DEF cmd_rename
  <2> DEFINE c == [held.creds[s] EXCEPT !.name = m]
  <2>2. s \in CredSlots /\ held.creds[s] \in RealCreds
    BY <1>2
  <2>3. c \in RealCreds /\ c.id = held.creds[s].id /\ c.counter = held.creds[s].counter
    BY <2>2 DEF RealCreds
  <2>4. oathOps' = oathOps + 1 /\ UNCHANGED shown
    BY <1>6 DEF cmd_rename, Commanded
  <2>5. Write(s, c) \/ WriteFails(s, c)
    BY <2>1
  <2> HIDE DEF c
  <2> QED  BY <2>2, <2>3, <2>4, <2>5, RewriteKnown
<1>7. ASSUME NEW n \in CredNames, cmd_calculate(n)
      PROVE  KnownNow'
  <2>1. oathOps' = oathOps + 1
    BY <1>7 DEF cmd_calculate, Commanded
  <2>2. PICK s \in find_oath_cred(n) : Advance(s) \/ UNCHANGED <<held, kept, shown>>
    BY <1>7 DEF cmd_calculate
  <2>3. s \in CredSlots /\ held.creds[s] \in RealCreds
    BY <1>2
  <2>4. CASE UNCHANGED <<held, kept, shown>>
    BY <2>1, <2>4, CarryStep
  <2>5. CASE Advance(s)
    <3> DEFINE c == [held.creds[s] EXCEPT !.counter = held.creds[s].counter + 1]
    <3>1. c \in RealCreds /\ c.id = held.creds[s].id /\ c.counter = held.creds[s].counter + 1
      BY <2>3 DEF RealCreds
    <3>2. \/ Write(s, c) /\ shown' = shown \cup {<<c.id, held.creds[s].counter>>}
          \/ WriteFails(s, c) /\ UNCHANGED shown
      BY <2>5 DEF Advance
    <3> HIDE DEF c
    <3> QED  BY <2>1, <2>3, <3>1, <3>2, RewriteKnown
  <2> QED  BY <2>2, <2>4, <2>5
<1>8. CASE cmd_reset
  <2>1. oathOps' \in {oathOps, oathOps + 1} /\ UNCHANGED shown
    BY <1>8 DEF cmd_reset, Commanded
  <2> QED  BY <1>8, <2>1, CarryStep, ResetDrops
<1>9. CASE cmd_set_code \/ CheckFails
           \/ (\E p \in OtpPins : cmd_verify_otp_pin(p) \/ cmd_set_otp_pin(p) \/ \E q \in OtpPins : cmd_change_otp_pin(p, q))
  <2>1. held'.creds = held.creds /\ kept'.creds \in {held.creds, kept.creds} /\ UNCHANGED shown /\ oathOps' = oathOps + 1
    BY <1>9, PinCommandFacts
  <2> QED  BY <2>1, CarryStep
<1>10. CASE OathWriteBack
  <2>1. UNCHANGED <<held, shown, oathOps>> /\ \A s \in CredSlots : kept'.creds[s] \in {kept.creds[s], held.creds[s]}
    BY <1>10, WriteBackFacts
  <2> QED  BY <2>1, CarryStep
<1> QED  BY <1>3, <1>4, <1>5, <1>6, <1>7, <1>8, <1>9, <1>10 DEF OathNext

\* Under every interleaving of commands, failed writes, write-backs and losses of power, no try is
\* given back and no container stands at a counter that was shown (oath_check_pin, cmd_calculate).
THEOREM OathCounters == OathSpec => []OathCountersHold
<1> DEFINE Inv == OathBase /\ KnownNow
<1>1. OathInit => Inv
  <2> SUFFICES ASSUME OathInit  PROVE KnownNow
    BY OathBaseInit
  <2> DEFINE first == [form |-> "legacy", name |-> CHOOSE n \in CredNames : TRUE, id |-> 0, hotp |-> TRUE, counter |-> 0]
  <2>1. first.id = 0 /\ first.form = "legacy"
    OBVIOUS
  <2>2. kept = held /\ shown = {} /\ oathOps = 0
        /\ \E old \in {{}, {0}} : held = [creds |-> [s \in CredSlots |-> IF s \in old THEN first ELSE NoCred],
                                          code |-> NoCode, pin |-> NoPinSet]
    BY DEF OathInit
  <2> HIDE DEF first
  <2>3. \A s \in CredSlots : held.creds[s] = NoCred \/ (s = 0 /\ held.creds[s] = first)
    BY <2>2
  <2>4. ~IsReal(NoCred)
    BY CredFacts DEF IsReal
  <2> DEFINE h == held.creds
  <2>5. \A s \in CredSlots : IsReal(h[s]) => s = 0 /\ h[s] = first
    BY <2>3, <2>4
  <2> HIDE DEF h
  <2>6. IdsOK(h, h, 0)
    BY <2>1, <2>5 DEF IdsOK
  <2>7. ShownOK(h, h, 0, {})
    BY DEF ShownOK
  <2> QED  BY <2>2, <2>6, <2>7 DEF KnownNow, Known, h
<1>2. Inv /\ [OathNext]_oathVars => Inv'
  BY OathBaseNext, KnownNext DEF OathBase
<1>3. Inv => OathCountersHold
  <2> SUFFICES ASSUME OathBase, KnownNow  PROVE OathCountersHold
    OBVIOUS
  <2>1. ASSUME NEW f \in {held, kept}, NEW s \in CredSlots, f.creds[s].form = "container",
               NEW n \in 0..MaxOathOps, <<f.creds[s].id, n>> \in shown
        PROVE  n < f.creds[s].counter
    BY <2>1 DEF KnownNow, Known, ShownOK
  <2> QED  BY <2>1 DEF OathCountersHold, OathBase, TriesOK
<1> QED  BY <1>1, <1>2, <1>3, PTL DEF OathSpec

-----------------------------------------------------------------------------
(* The list.  While a chain is open the host has every readable credential *)
(* up to the position the next piece starts at, and that position exists.  *)

ListOK ==
  /\ told.over => told.slots = Readable /\ told.count = Cardinality(Readable)
  /\ oath_chain # NoChain => /\ oath_chain.next \in Nat /\ oath_chain.next <= Cardinality(Present)
                             /\ told.slots = Entries(0, oath_chain.next)
                             /\ told.count = Cardinality(Entries(0, oath_chain.next))

\* Every set of natural numbers that is not empty has a least element.
LEMMA LeastNatural ==
  ASSUME NEW T, T \subseteq Nat, T # {}
  PROVE  \E x \in T : \A y \in T : x <= y
<1>1. PICK x \in T : \A y \in T : ~(<<y, x>> \in OpToRel(<, Nat))
  BY WFMin, NatLessThanWellFounded, Zenon
<1>2. \A y \in T : ~(y < x)
  BY <1>1 DEF OpToRel
<1> QED BY <1>2

\* The positions of the files present are natural numbers below their number.
LEMMA RankFacts ==
  /\ IsFiniteSet(Present) /\ Cardinality(Present) \in Nat
  /\ \A s \in Present : Rank(s) \in Nat /\ Rank(s) < Cardinality(Present)
<1>1. IsFiniteSet(CredSlots) /\ CredSlots \subseteq Nat
  BY OathAssumption, FS_Interval DEF OathAssumption, CredSlots
<1>2. Present \in SUBSET CredSlots
  BY DEF Present
<1>3. IsFiniteSet(Present)
  BY <1>1, <1>2, FS_Subset
<1>4. Cardinality(Present) \in Nat
  BY <1>3, FS_CardinalityType
<1>5. ASSUME NEW s \in Present
      PROVE  Rank(s) \in Nat /\ Rank(s) < Cardinality(Present)
  <2> DEFINE T == {t \in Present : t < s}
  <2>1. T \in SUBSET Present
    OBVIOUS
  <2>2. s \notin T
    BY <1>1, <1>2
  <2> HIDE DEF T
  <2>3. IsFiniteSet(T) /\ Cardinality(T) <= Cardinality(Present) /\ Cardinality(Present) # Cardinality(T)
    BY <1>3, <2>1, <2>2, FS_Subset
  <2>4. Cardinality(T) \in Nat
    BY <2>3, FS_CardinalityType
  <2>5. Rank(s) = Cardinality(T)
    BY DEF Rank, T
  <2> QED  BY <1>4, <2>3, <2>4, <2>5
<1> QED  BY <1>3, <1>4, <1>5

\* A stretch of the list is finite; stretches that meet make a longer one; the longest is the list.
LEMMA EntriesFacts ==
  /\ \A a, b \in Nat : IsFiniteSet(Entries(a, b)) /\ Cardinality(Entries(a, b)) \in Nat
  /\ \A a \in Nat : Cardinality(Entries(a, a)) = 0
  /\ \A b \in Nat : b >= Cardinality(Present) => Entries(0, b) = Readable
  /\ \A a, b \in Nat : a <= b => /\ Entries(0, a) \cup Entries(a, b) = Entries(0, b)
                                 /\ Cardinality(Entries(0, b)) = Cardinality(Entries(0, a)) + Cardinality(Entries(a, b))
<1>1. IsFiniteSet(Present) /\ Cardinality(Present) \in Nat /\ Readable \subseteq Present
      /\ \A s \in Readable : Rank(s) \in Nat /\ Rank(s) < Cardinality(Present)
  BY RankFacts DEF Readable
<1>2. ASSUME NEW a \in Nat, NEW b \in Nat
      PROVE  IsFiniteSet(Entries(a, b)) /\ Cardinality(Entries(a, b)) \in Nat
  <2>1. Entries(a, b) \in SUBSET Present
    BY <1>1 DEF Entries
  <2>2. IsFiniteSet(Entries(a, b))
    BY <1>1, <2>1, FS_Subset
  <2> QED  BY <2>2, FS_CardinalityType
<1>3. ASSUME NEW a \in Nat
      PROVE  Cardinality(Entries(a, a)) = 0
  <2>1. Entries(a, a) = {}
    BY <1>1 DEF Entries
  <2> QED  BY <2>1, FS_EmptySet
<1>4. ASSUME NEW b \in Nat, b >= Cardinality(Present)
      PROVE  Entries(0, b) = Readable
  BY <1>1, <1>4 DEF Entries
<1>5. ASSUME NEW a \in Nat, NEW b \in Nat, a <= b
      PROVE  /\ Entries(0, a) \cup Entries(a, b) = Entries(0, b)
             /\ Cardinality(Entries(0, b)) = Cardinality(Entries(0, a)) + Cardinality(Entries(a, b))
  <2> DEFINE S == Entries(0, a)
             T == Entries(a, b)
  <2>1. S \cup T = Entries(0, b) /\ S \cap T = {}
    BY <1>1, <1>5 DEF Entries
  <2>2. IsFiniteSet(S) /\ IsFiniteSet(T) /\ Cardinality(S) \in Nat /\ Cardinality(T) \in Nat
    BY <1>2
  <2> HIDE DEF S, T
  <2>3. Cardinality(S \cup T) = Cardinality(S) + Cardinality(T) - Cardinality(S \cap T)
    BY <2>2, FS_Union
  <2>4. Cardinality(S \cap T) = 0
    BY <2>1, FS_EmptySet
  <2>5. Cardinality(S \cup T) = Cardinality(S) + Cardinality(T)
    BY <2>2, <2>3, <2>4
  <2> QED  BY <2>1, <2>5 DEF S, T
<1> QED  BY <1>2, <1>3, <1>4, <1>5

\* There is always a piece that fits: the loop that fills a response stops between where it starts
\* and the end of the list.
LEMMA FurthestFacts ==
  ASSUME NEW from \in Nat, from <= Cardinality(Present), NEW room \in Nat
  PROVE  Furthest(from, room) \in Nat /\ from <= Furthest(from, room) /\ Furthest(from, room) <= Cardinality(Present)
<1> DEFINE C == Cardinality(Present)
           T == {n \in from..C : n = C \/ Cardinality(Entries(from, n + 1)) > room}
           Fits(n) == /\ Cardinality(Entries(from, n)) <= room
                      /\ n < C => Cardinality(Entries(from, n + 1)) > room
<1>1. C \in Nat
  BY RankFacts
<1>2. PICK m \in T : \A y \in T : m <= y
  <2>1. T \subseteq Nat /\ C \in T
    BY <1>1
  <2> HIDE DEF T, C
  <2> QED  BY <2>1, LeastNatural
<1>3. m \in from..C /\ m \in Nat /\ (m = C \/ Cardinality(Entries(from, m + 1)) > room)
  BY <1>1, <1>2
<1>4. Cardinality(Entries(from, m)) <= room
  <2>1. CASE m = from
    BY <2>1, EntriesFacts
  <2>2. CASE m # from
    <3>1. m - 1 \in from..C /\ m - 1 # C /\ (m - 1) + 1 = m
      BY <1>1, <1>3, <2>2
    <3>2. m - 1 \notin T
      BY <1>2, <1>3
    <3>3. ~(Cardinality(Entries(from, (m - 1) + 1)) > room)
      BY <3>1, <3>2
    <3>4. Cardinality(Entries(from, m)) \in Nat
      BY <1>3, EntriesFacts
    <3> QED  BY <3>1, <3>3, <3>4
  <2> QED  BY <2>1, <2>2
<1>5. Fits(m)
  BY <1>1, <1>3, <1>4
<1>6. Furthest(from, room) = CHOOSE n \in from..C : Fits(n)
  BY <1>1 DEF Furthest
<1> HIDE DEF C, Fits
<1>7. (CHOOSE n \in from..C : Fits(n)) \in from..C
  BY <1>3, <1>5
<1> QED  BY <1>1, <1>6, <1>7 DEF C

\* A piece that starts where the host's part of the list ends.
LEMMA PieceStep ==
  ASSUME NEW type \in {"list", "all"}, NEW from \in Nat, from <= Cardinality(Present), NEW before, NEW room \in Nat,
         before.slots = Entries(0, from), before.count = Cardinality(Entries(0, from)),
         SendPiece(type, from, before, room), UNCHANGED held
  PROVE  ListOK'
<1>1. /\ Present' = Present /\ Readable' = Readable
      /\ \A b : Entries(0, b)' = Entries(0, b)
  BY DEF Present, Readable, Entries, Rank
<1>2. CASE ~session.validated
  <2>1. oath_chain' = NoChain /\ told'.over = FALSE
    BY <1>2 DEF SendPiece, NotTold
  <2> QED  BY <2>1 DEF ListOK, NoChain
<1>3. CASE session.validated
  <2> DEFINE n == Furthest(from, room)
             over == n >= Cardinality(Present)
  <2>1. /\ oath_chain' = IF over THEN NoChain ELSE [type |-> type, next |-> n]
        /\ told' = [slots |-> before.slots \cup Entries(from, n), count |-> before.count + Cardinality(Entries(from, n)),
                    over |-> over]
    BY <1>3 DEF SendPiece
  <2>2. n \in Nat /\ from <= n /\ n <= Cardinality(Present) /\ Cardinality(Present) \in Nat
    BY FurthestFacts, RankFacts
  <2> HIDE DEF n
  <2>3. told'.slots = Entries(0, n) /\ told'.count = Cardinality(Entries(0, n))
    BY <2>1, <2>2, EntriesFacts
  <2>4. CASE over
    <3>1. Entries(0, n) = Readable
      BY <2>2, <2>4, EntriesFacts
    <3>2. oath_chain' = NoChain
      BY <2>1, <2>4
    <3> QED  BY <1>1, <2>3, <3>1, <3>2 DEF ListOK, NoChain
  <2>5. CASE ~over
    <3>1. oath_chain' = [type |-> type, next |-> n]
      BY <2>1, <2>5
    <3>2. ~told'.over
      <4> HIDE DEF over
      <4>1. told'.over = over
        BY <2>1, Zenon
      <4> QED  BY <2>5, <4>1, Zenon
    <3>3. oath_chain'.next = n
      BY <3>1
    <3>4. Entries(0, oath_chain.next)' = Entries(0, n)
      BY <3>3 DEF Entries, Readable, Present, Rank
    <3> QED  BY <1>1, <2>2, <2>3, <3>2, <3>3, <3>4 DEF ListOK
  <2> QED  BY <2>4, <2>5
<1> QED  BY <1>2, <1>3

ChainTypes == oath_chain = NoChain \/ oath_chain.type \in {"list", "all"}

\* Every other step ends the chain, or touches neither it nor what the device reads.
LEMMA ListNext ==
  ASSUME ListOK, ChainTypes, [OathNext]_oathVars
  PROVE  ListOK' /\ ChainTypes'
<1>1. CASE UNCHANGED <<oath_chain, told, held>>
  <2>1. ChainTypes'
    BY <1>1 DEF ChainTypes, NoChain
  <2>2. Present' = Present /\ Readable' = Readable /\ Entries(0, oath_chain.next)' = Entries(0, oath_chain.next)
    BY <1>1 DEF Entries, Readable, Present, Rank
  <2> QED  BY <1>1, <2>1, <2>2 DEF ListOK, NoChain
<1>2. CASE oath_chain' = NoChain /\ told' = NotTold
  BY <1>2 DEF ListOK, ChainTypes, NoChain, NotTold
<1>3. ASSUME NEW room \in 1..MaxPiece, NEW t \in {"list", "all"}, cmd_list(t, room)
      PROVE  ListOK' /\ ChainTypes'
  <2>1. SendPiece(t, 0, NotTold, room) /\ UNCHANGED held /\ room \in Nat
    BY <1>3 DEF cmd_list
  <2>2. NotTold.slots = Entries(0, 0) /\ NotTold.count = Cardinality(Entries(0, 0))
    <3>1. Cardinality(Entries(0, 0)) = 0 /\ IsFiniteSet(Entries(0, 0))
      BY EntriesFacts
    <3>2. Entries(0, 0) = {}
      BY <3>1, FS_EmptySet
    <3> QED  BY <3>1, <3>2 DEF NotTold
  <2>3. 0 \in Nat /\ 0 <= Cardinality(Present)
    BY RankFacts
  <2>4. ListOK'
    BY <2>1, <2>2, <2>3, PieceStep
  <2>5. ChainTypes'
    BY <2>1 DEF SendPiece, ChainTypes, NoChain
  <2> QED  BY <2>4, <2>5
<1>4. ASSUME NEW room \in 1..MaxPiece, cmd_send_remaining(room)
      PROVE  ListOK' /\ ChainTypes'
  <2>1. SendPiece(oath_chain.type, oath_chain.next, told, room) /\ UNCHANGED held /\ room \in Nat /\ oath_chain # NoChain
    BY <1>4 DEF cmd_send_remaining
  <2>2. oath_chain.type \in {"list", "all"} /\ oath_chain.next \in Nat /\ oath_chain.next <= Cardinality(Present)
        /\ told.slots = Entries(0, oath_chain.next) /\ told.count = Cardinality(Entries(0, oath_chain.next))
    BY <2>1 DEF ListOK, ChainTypes
  <2>4. ListOK'
    BY <2>1, <2>2, PieceStep
  <2>5. ChainTypes'
    BY <2>1, <2>2 DEF SendPiece, ChainTypes, NoChain
  <2> QED  BY <2>4, <2>5
<1>5. CASE \/ \E b \in BOOLEAN : OathSelect(b) \/ Blocked(b)
           \/ oath_unload \/ Refused
           \/ \E n \in CredNames : \/ \E h \in BOOLEAN : cmd_put(n, h)
                                   \/ cmd_delete(n) \/ cmd_calculate(n) \/ ReadSecret(n)
                                   \/ \E m \in CredNames : cmd_rename(n, m)
           \/ cmd_set_code \/ cmd_validate \/ cmd_reset \/ CheckFails
           \/ \E p \in OtpPins : \/ cmd_verify_otp_pin(p) \/ cmd_set_otp_pin(p)
                                 \/ \E q \in OtpPins : cmd_change_otp_pin(p, q)
           \/ OathPowerLoss
  <2>1. oath_chain' = NoChain /\ told' = NotTold
    BY <1>5 DEF OathSelect, Blocked, oath_unload, Refused, cmd_put, cmd_delete, cmd_calculate, ReadSecret, cmd_rename,
                cmd_set_code, cmd_validate, cmd_reset, CheckFails, cmd_verify_otp_pin, cmd_set_otp_pin, cmd_change_otp_pin,
                OathPowerLoss, DropChain
  <2> QED  BY <1>2, <2>1
<1>6. CASE OathWriteBack \/ UNCHANGED oathVars
  BY <1>1, <1>6 DEF OathWriteBack, oathVars
<1> QED  BY <1>3, <1>4, <1>5, <1>6 DEF OathNext

\* However many pieces a list takes, and whatever comes between them, a list that was sent to its end
\* was sent whole, each credential once (cmd_list, cmd_calculate_all, cmd_send_remaining).
THEOREM ListHolds == OathSpec => []ListIsComplete
<1>1. OathInit => ListOK /\ ChainTypes
  BY DEF OathInit, ListOK, ChainTypes, NoChain, NotTold
<1>2. ListOK /\ ChainTypes /\ [OathNext]_oathVars => ListOK' /\ ChainTypes'
  BY ListNext
<1>3. ListOK => ListIsComplete
  BY DEF ListOK, ListIsComplete
<1> QED  BY <1>1, <1>2, <1>3, PTL DEF OathSpec

=================================================================================
