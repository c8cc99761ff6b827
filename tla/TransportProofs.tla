---------------------------- MODULE TransportProofs ----------------------------
(***************************************************************************)
(* What the REST server promises for every number of connections, of       *)
(* sessions, of background jobs and of clients, and the HID and CCID       *)
(* transports for every number of channels, of frames and of requests.     *)
(*                                                                         *)
(* RestInv ties four pieces of state together.  At most one event is on    *)
(* its way between the cores, and only for the pending job.  A connection  *)
(* that was dispatched and not answered is the job's, and a job whose      *)
(* client is still there is that connection's.  A request that ran, or is  *)
(* about to, is no longer being read.  And a session has seen every number *)
(* that was accepted under its id.                                         *)
(*                                                                         *)
(* TransportInv says where the hand-over of a request between core 0 and   *)
(* the card worker may stand, with one task at most, and that what is      *)
(* being handed over is the last request: its bytes, the address of its    *)
(* reply, and who has cancelled it.  It holds for hosts that send requests *)
(* only while the device is idle (Overlap = FALSE); without their turn-    *)
(* taking the code promises none of it.                                    *)
(***************************************************************************)
EXTENDS Rest, Transport, SequenceTheorems, FiniteSetTheorems, TLAPS

-----------------------------------------------------------------------------
(* The REST server: the inductive invariant *)

ConnRecs == [client : Nat \ {0}, tls : BOOLEAN, stage : {"reading", "dispatched", "bad"}, tx : BOOLEAN,
             cut : BOOLEAN, got : Seq(Nat), chatty : BOOLEAN]
RestSessionRecs == [id : Nat, status : {"free", "waiting", "ok"}, last_seq : Nat, aged : BOOLEAN]
Stamps == [id : Nat, seq : Nat]

\* The responses on connection c that are its own.
Own(c) == {k \in 1..Len(c.got) : c.got[k] \in {NoOne, c.client}}

\* What is known of connection c in slot s of a table, with a job, after n clients.
ConnOK(cs, j, n, s, c) ==
  /\ c.client <= n
  /\ j.pending /\ j.client = c.client => c.stage = "dispatched" /\ j.slot = s
  /\ ~c.cut /\ ~c.chatty =>
       /\ \A i, k \in Own(c) : i = k
       /\ c.stage = "reading" => Own(c) = {}
       /\ c.stage = "dispatched" /\ Own(c) = {} => j.pending /\ j.client = c.client
       /\ j.pending /\ j.client = c.client => Own(c) = {}
       /\ \A k \in (1..Len(c.got)) \ Own(c) : c.got[k] <= n /\ \A t \in 1..Conns : cs[t].client # c.got[k]

ConnsOK(cs, j, n) ==
  /\ cs \in [1..Conns -> ConnRecs \cup {NoConn}] /\ n \in 0..MaxClients
  /\ \A s, t \in 1..Conns : cs[s] # NoConn /\ cs[t] # NoConn /\ cs[s].client = cs[t].client => s = t
  /\ \A s \in 1..Conns : cs[s] # NoConn => ConnOK(cs, j, n, s, cs[s])

\* One event between the cores, for the pending job.
JobOK ==
  /\ cmds \in {0, 1} /\ fins \in {0, 1}
  /\ cmds = 1 => fins = 0 /\ core1 = Idle /\ job.pending
  /\ fins = 1 => core1 = Idle /\ job.pending /\ result = [ready |-> TRUE, about |-> job.client]
  /\ core1 # Idle => job.pending /\ core1 = job.client
  /\ job \in [pending : BOOLEAN, slot : 0..Conns, client : 0..clients]
  /\ job.pending => (job.slot = 0 <=> job.client = 0)

ExecOK ==
  /\ executed \in [0..MaxClients -> Nat]
  /\ \A c \in 1..MaxClients : executed[c] <= 1
  /\ \A c \in 1..MaxClients : executed[c] = 1 =>
       /\ c <= clients
       /\ \A s \in 1..Conns : conns[s] # NoConn /\ conns[s].client = c => conns[s].stage # "reading"
       /\ cmds = 1 => job.client # c

\* Session records ss, n of them ever created, and the signatures accepted.
SignedOK(ss, n, sg) ==
  /\ ss \in [1..RestSessions -> RestSessionRecs] /\ n \in Nat /\ sg \in [1..MaxClients -> Stamps]
  /\ \A i \in 1..RestSessions : ss[i].status # "free" => ss[i].id <= n
  /\ \A i, k \in 1..RestSessions : ss[i].status # "free" /\ ss[k].status # "free" /\ ss[i].id = ss[k].id => i = k
  /\ \A c \in 1..MaxClients : sg[c].id <= n
  /\ \A c \in 1..MaxClients, i \in 1..RestSessions :
       ss[i].status # "free" /\ sg[c].id = ss[i].id => sg[c].seq <= ss[i].last_seq
  /\ \A c, d \in 1..MaxClients : sg[c] # Unsigned /\ sg[c] = sg[d] => c = d

RestInv == ConnsOK(conns, job, clients) /\ JobOK /\ ExecOK /\ SignedOK(sessions, ids, signed)

-----------------------------------------------------------------------------
(* Connections *)

LEMMA NoConnFacts == NoConn.client = 0 /\ \A c \in ConnRecs : c # NoConn /\ c.client \in Nat /\ c.client # 0 /\ c.got \in Seq(Nat)
<1>1. NoConn.client = 0
  BY DEF NoConn
<1>2. \A c \in ConnRecs : c.client \in Nat /\ c.client # 0 /\ c.got \in Seq(Nat)
  BY DEF ConnRecs
<1> QED  BY <1>1, <1>2

\* The other responses on c are other clients'.
LEMMA OtherFacts ==
  ASSUME NEW c \in ConnRecs
  PROVE  \A i \in (1..Len(c.got)) \ Own(c) : c.got[i] \in Nat /\ c.got[i] # 0 /\ c.got[i] # c.client
<1> DEFINE g == c.got
<1>1. g \in Seq(Nat)
  BY NoConnFacts
<1>2. Own(c) = {k \in 1..Len(g) : g[k] \in {0, c.client}}
  BY DEF Own, NoOne
<1> HIDE DEF g
<1>3. \A i \in (1..Len(g)) \ Own(c) : g[i] \in Nat /\ g[i] # 0 /\ g[i] # c.client
  BY <1>1, <1>2
<1> QED  BY <1>3 DEF g

Busy(j, c) == j.pending /\ j.client = c

\* Slot s gets what is known of a connection, the one that was there or a new one; the other
\* connections have nothing to do with a change of the job.
Fits(cs, n, j2, n2, s, k) ==
  k # NoConn => ConnOK(cs, j2, n2, s, k) /\ ((cs[s] # NoConn /\ k.client = cs[s].client) \/ k.client > n)
Apart(cs, j, j2, s) ==
  \A t \in 1..Conns : t # s /\ cs[t] # NoConn => j2 = j \/ (~Busy(j, cs[t].client) /\ ~Busy(j2, cs[t].client))

\* One slot changes hands, and the job perhaps too.
LEMMA StepConn ==
  ASSUME RestAssumption,
         NEW cs, NEW j, NEW n, ConnsOK(cs, j, n), NEW j2, NEW n2 \in 0..MaxClients, n2 >= n, NEW s \in 1..Conns,
         NEW k \in ConnRecs \cup {NoConn},
         Fits(cs, n, j2, n2, s, k), Apart(cs, j, j2, s)
  PROVE  ConnsOK([cs EXCEPT ![s] = k], j2, n2)
<1> USE DEF Fits, Apart
<1> DEFINE cs2 == [cs EXCEPT ![s] = k]
<1>1. cs \in [1..Conns -> ConnRecs \cup {NoConn}] /\ n \in Nat /\ n2 \in Nat
  BY DEF ConnsOK, RestAssumption
<1>2. cs2 \in [1..Conns -> ConnRecs \cup {NoConn}] /\ \A t \in 1..Conns : cs2[t] = IF t = s THEN k ELSE cs[t]
  BY <1>1
<1> HIDE DEF cs2
<1>3. \A t \in 1..Conns : cs[t] # NoConn => cs[t] \in ConnRecs /\ ConnOK(cs, j, n, t, cs[t]) /\ cs[t].client \in Nat /\ cs[t].client <= n
  BY <1>1, NoConnFacts DEF ConnsOK, ConnOK
<1>4. k # NoConn => k \in ConnRecs /\ k.client \in Nat
  BY NoConnFacts
<1>5. ASSUME NEW t \in 1..Conns, NEW u \in 1..Conns, cs2[t] # NoConn, cs2[u] # NoConn, cs2[t].client = cs2[u].client
      PROVE  t = u
  BY <1>1, <1>2, <1>3, <1>4, <1>5 DEF ConnsOK
<1>6. ASSUME NEW x \in Nat, x # 0, \A t \in 1..Conns : cs[t].client # x, k # NoConn => k.client # x
      PROVE  \A t \in 1..Conns : cs2[t].client # x
  BY <1>2, <1>6, NoConnFacts
<1>7. ASSUME NEW t \in 1..Conns, cs2[t] # NoConn
      PROVE  ConnOK(cs2, j2, n2, t, cs2[t])
  <2>1. CASE t = s
    <3>1. k # NoConn /\ cs2[t] = k /\ ConnOK(cs, j2, n2, s, k) /\ k.got \in Seq(Nat)
      BY <1>2, <1>4, <1>7, <2>1, NoConnFacts
    <3>2. \A i \in (1..Len(k.got)) \ Own(k) : k.got[i] \in Nat /\ k.got[i] # 0 /\ k.got[i] # k.client
      BY <1>4, <3>1, OtherFacts
    <3>3. ~k.cut /\ ~k.chatty => \A i \in (1..Len(k.got)) \ Own(k) : \A u \in 1..Conns : cs2[u].client # k.got[i]
      BY <1>6, <3>1, <3>2 DEF ConnOK
    <3> QED  BY <2>1, <3>1, <3>3 DEF ConnOK
  <2>2. CASE t # s
    <3> DEFINE c == cs[t]
    <3>1. cs2[t] = c /\ c # NoConn
      BY <1>2, <1>7, <2>2
    <3>2. c \in ConnRecs /\ ConnOK(cs, j, n, t, c) /\ c.got \in Seq(Nat) /\ c.client \in Nat /\ c.client <= n
      BY <1>3, <3>1, NoConnFacts
    <3>3. j2 = j \/ (~Busy(j, c.client) /\ ~Busy(j2, c.client))
      BY <2>2, <3>1
    <3>4. cs[s] # NoConn => cs[s].client # c.client
      BY <2>2, <3>1 DEF ConnsOK
    <3> HIDE DEF c
    <3>5. \A i \in (1..Len(c.got)) \ Own(c) : c.got[i] \in Nat /\ c.got[i] # 0 /\ c.got[i] # c.client
      BY <3>2, OtherFacts
    <3>6. ~c.cut /\ ~c.chatty => \A i \in (1..Len(c.got)) \ Own(c) : c.got[i] <= n2 /\ \A u \in 1..Conns : cs2[u].client # c.got[i]
      <4> SUFFICES ASSUME ~c.cut, ~c.chatty, NEW i \in (1..Len(c.got)) \ Own(c)
                   PROVE  c.got[i] <= n2 /\ \A u \in 1..Conns : cs2[u].client # c.got[i]
        OBVIOUS
      <4> DEFINE x == c.got[i]
      <4>1. x \in Nat /\ x # 0 /\ x <= n /\ \A u \in 1..Conns : cs[u].client # x
        BY <3>2, <3>5 DEF ConnOK
      <4> HIDE DEF x
      <4>2. k # NoConn => k.client # x
        BY <1>1, <1>4, <4>1
      <4>3. \A u \in 1..Conns : cs2[u].client # x
        BY <1>6, <4>1, <4>2
      <4>4. x <= n2
        BY <1>1, <4>1
      <4> QED  BY <4>3, <4>4 DEF x
    <3>7. c.client <= n2
      BY <1>1, <3>2
    <3>8. ConnOK(cs2, j2, n2, t, c)
      <4>1. CASE j2 = j
        BY <3>2, <3>6, <3>7, <4>1 DEF ConnOK
      <4>2. CASE ~Busy(j, c.client) /\ ~Busy(j2, c.client)
        BY <3>2, <3>6, <3>7, <4>2 DEF ConnOK, Busy
      <4> QED  BY <3>3, <4>1, <4>2
    <3> QED  BY <3>1, <3>8
  <2> QED  BY <2>1, <2>2
<1>8. ConnsOK(cs2, j2, n2)
  BY <1>2, <1>5, <1>7 DEF ConnsOK
<1> QED  BY <1>8 DEF cs2

\* What a close, and what a response about a request, leave of connection c.
ShutOff(k, c) == k = NoConn \/ (k \in ConnRecs /\ k.client = c.client /\ k.stage = c.stage /\ k.cut)
Responded(k, c, about) ==
  k = NoConn \/ /\ k \in ConnRecs /\ k.client = c.client /\ k.stage = c.stage
                /\ k.cut \/ k.chatty \/ (~c.cut /\ ~c.chatty /\ k.got = Append(c.got, about))

LEMMA ClosingFacts ==
  ASSUME NEW c \in ConnRecs, NEW k \in Closings(c)
  PROVE  ShutOff(k, c)
<1> DEFINE d == [c EXCEPT !.tx = FALSE, !.cut = TRUE, !.got = <<>>]
<1>1. <<>> \in Seq(Nat)
  OBVIOUS
<1>2. d \in ConnRecs /\ d.client = c.client /\ d.stage = c.stage /\ d.cut
  BY <1>1 DEF ConnRecs
<1>3. k \in {NoConn, d}
  BY DEF Closings
<1> HIDE DEF d
<1> QED  BY <1>2, <1>3 DEF ShutOff

LEMMA SendFacts ==
  ASSUME NEW s \in 1..Conns, NEW c \in ConnRecs, NEW about \in Nat, Send(s, c, about)
  PROVE  \E k : conns' = [conns EXCEPT ![s] = k] /\ Responded(k, c, about)
<1> DEFINE g == IF c.cut \/ c.chatty THEN <<>> ELSE Append(c.got, about)
           d == [c EXCEPT !.got = g]
<1>1. g \in Seq(Nat)
  BY DEF ConnRecs
<1>2. PICK k \in Closings(c) \cup Written(d, about) : conns' = [conns EXCEPT ![s] = k]
  BY DEF Send
<1>3. ~c.cut /\ ~c.chatty => g = Append(c.got, about)
  OBVIOUS
<1> HIDE DEF g
<1>4. d \in ConnRecs /\ d.client = c.client /\ d.stage = c.stage /\ d.got = g
  BY <1>1 DEF ConnRecs
<1>5. (d.cut <=> c.cut) /\ (d.chatty <=> c.chatty)
  BY DEF ConnRecs
<1> HIDE DEF d
<1>6. CASE k \in Closings(c)
  <2>1. ShutOff(k, c)
    BY <1>6, ClosingFacts
  <2> QED  BY <1>2, <2>1 DEF ShutOff, Responded
<1>7. CASE k \in Closings(d)
  <2>1. ShutOff(k, d)
    BY <1>4, <1>7, ClosingFacts
  <2> QED  BY <1>2, <1>4, <2>1 DEF ShutOff, Responded
<1>8. ASSUME NEW b \in BOOLEAN, k = [d EXCEPT !.tx = b]
      PROVE  Responded(k, c, about)
  <2>1. k \in ConnRecs /\ k.client = c.client /\ k.stage = c.stage /\ k.got = g
    BY <1>4, <1>8 DEF ConnRecs
  <2>2. (k.cut <=> c.cut) /\ (k.chatty <=> c.chatty)
    BY <1>4, <1>5, <1>8 DEF ConnRecs
  <2> QED  BY <1>3, <2>1, <2>2 DEF Responded
<1>9. d.tx \in BOOLEAN
  BY <1>4 DEF ConnRecs
<1>10. k \in Closings(c) \/ k \in Closings(d) \/ \E b \in BOOLEAN : k = [d EXCEPT !.tx = b]
  BY <1>2, <1>9 DEF Written
<1> QED  BY <1>2, <1>6, <1>7, <1>8, <1>10

\* A connection that is closed as far as it can be.
LEMMA ShutOffOK ==
  ASSUME NEW cs, NEW j, NEW n, NEW s, NEW c, ConnOK(cs, j, n, s, c), NEW k, ShutOff(k, c), k # NoConn
  PROVE  ConnOK(cs, j, n, s, k)
BY DEF ConnOK, ShutOff

\* One more response.
LEMMA AppendOwn ==
  ASSUME NEW c \in ConnRecs, NEW k \in ConnRecs, NEW about \in Nat, k.client = c.client, k.got = Append(c.got, about)
  PROVE  /\ about \in {NoOne, c.client} => Own(k) = Own(c) \cup {Len(c.got) + 1}
         /\ about \notin {NoOne, c.client} => Own(k) = Own(c)
         /\ \A i \in (1..Len(k.got)) \ Own(k) : (i \in (1..Len(c.got)) \ Own(c) /\ k.got[i] = c.got[i]) \/ k.got[i] = about
<1> DEFINE g == c.got
           h == Append(g, about)
           d == c.client
<1>1. g \in Seq(Nat) /\ k.got = h
  BY NoConnFacts
<1>2. Own(c) = {i \in 1..Len(g) : g[i] \in {NoOne, d}} /\ Own(k) = {i \in 1..Len(h) : h[i] \in {NoOne, d}}
  BY <1>1 DEF Own
<1> HIDE DEF g, d
<1>3. Len(h) = Len(g) + 1 /\ Len(g) \in Nat /\ h[Len(g) + 1] = about /\ \A i \in 1..Len(g) : h[i] = g[i]
  BY <1>1
<1> HIDE DEF h
<1>4. about \in {NoOne, d} => Own(k) = Own(c) \cup {Len(g) + 1}
  BY <1>2, <1>3
<1>5. about \notin {NoOne, d} => Own(k) = Own(c)
  BY <1>2, <1>3
<1>6. \A i \in (1..Len(h)) \ Own(k) : (i \in (1..Len(g)) \ Own(c) /\ h[i] = g[i]) \/ h[i] = about
  BY <1>2, <1>3
<1> QED  BY <1>1, <1>4, <1>5, <1>6 DEF g, d

OthersGone(cs, n, c) == \A i \in (1..Len(c.got)) \ Own(c) : c.got[i] <= n /\ \A t \in 1..Conns : cs[t].client # c.got[i]

\* The answer a connection waited for.
LEMMA OwnAnswer ==
  ASSUME NEW cs, NEW j, NEW n, NEW s, NEW c \in ConnRecs, NEW about \in {NoOne, c.client}, NEW k, Responded(k, c, about), k # NoConn,
         c.client <= n, Busy(j, c.client) => c.stage = "dispatched" /\ j.slot = s,
         ~c.cut /\ ~c.chatty => Own(c) = {} /\ c.stage # "reading" /\ ~Busy(j, c.client) /\ OthersGone(cs, n, c)
  PROVE  ConnOK(cs, j, n, s, k)
<1>1. k \in ConnRecs /\ k.client = c.client /\ k.stage = c.stage
      /\ (k.cut \/ k.chatty \/ (~c.cut /\ ~c.chatty /\ k.got = Append(c.got, about)))
  BY DEF Responded
<1>2. CASE k.cut \/ k.chatty
  BY <1>1, <1>2 DEF ConnOK, Busy
<1>3. CASE ~c.cut /\ ~c.chatty /\ k.got = Append(c.got, about)
  <2>1. about \in Nat /\ about \in {NoOne, c.client}
    BY NoConnFacts DEF NoOne
  <2>2. /\ Own(k) = {Len(c.got) + 1}
        /\ \A i \in (1..Len(k.got)) \ Own(k) : (i \in (1..Len(c.got)) \ Own(c) /\ k.got[i] = c.got[i]) \/ k.got[i] = about
    BY <1>1, <1>3, <2>1, AppendOwn
  <2>3. \A i \in (1..Len(k.got)) \ Own(k) : k.got[i] # 0 /\ k.got[i] # c.client
    BY <1>1, OtherFacts
  <2>4. OthersGone(cs, n, k)
    BY <1>3, <2>1, <2>2, <2>3 DEF OthersGone, NoOne
  <2> QED  BY <1>1, <1>3, <2>2, <2>4 DEF ConnOK, OthersGone, Busy
<1> QED  BY <1>1, <1>2, <1>3

\* The answer to a client that has left goes to the connection that has its slot.
LEMMA StrangersAnswer ==
  ASSUME NEW cs, NEW j, NEW n, NEW s, NEW c \in ConnRecs, ConnOK(cs, j, n, s, c), NEW about \in Nat, about \notin {NoOne, c.client},
         about <= n, \A t \in 1..Conns : cs[t].client # about, NEW k, Responded(k, c, about), k # NoConn
  PROVE  ConnOK(cs, j, n, s, k)
<1>1. k \in ConnRecs /\ k.client = c.client /\ k.stage = c.stage
      /\ (k.cut \/ k.chatty \/ (~c.cut /\ ~c.chatty /\ k.got = Append(c.got, about)))
  BY DEF Responded
<1>2. CASE k.cut \/ k.chatty
  BY <1>1, <1>2 DEF ConnOK
<1>3. CASE ~c.cut /\ ~c.chatty /\ k.got = Append(c.got, about)
  <2>1. /\ Own(k) = Own(c)
        /\ \A i \in (1..Len(k.got)) \ Own(k) : (i \in (1..Len(c.got)) \ Own(c) /\ k.got[i] = c.got[i]) \/ k.got[i] = about
    BY <1>1, <1>3, AppendOwn
  <2> DEFINE others == \A i \in (1..Len(k.got)) \ Own(k) : k.got[i] <= n /\ \A t \in 1..Conns : cs[t].client # k.got[i]
  <2>2. others
    BY <1>3, <2>1 DEF ConnOK
  <2> HIDE DEF others
  <2>3. /\ c.client <= n
        /\ j.pending /\ j.client = c.client => c.stage = "dispatched" /\ j.slot = s
        /\ \A i, m \in Own(c) : i = m
        /\ c.stage = "reading" => Own(c) = {}
        /\ c.stage = "dispatched" /\ Own(c) = {} => j.pending /\ j.client = c.client
        /\ j.pending /\ j.client = c.client => Own(c) = {}
    BY <1>3 DEF ConnOK
  <2> QED  BY <1>1, <2>1, <2>2, <2>3 DEF ConnOK, others
<1> QED  BY <1>1, <1>2, <1>3

-----------------------------------------------------------------------------
(* Sessions *)

\* Sessions go on, end, or begin with an id that was never used.
GoOn(ss, n, ss2, n2, new) ==
  \A i \in 1..RestSessions : ss2[i].status # "free" =>
     \/ ss[i].status # "free" /\ ss2[i].id = ss[i].id /\ ss2[i].last_seq = ss[i].last_seq
     \/ i = new /\ ss2[i].id = n + 1 /\ n2 = n + 1

LEMMA SessionsKept ==
  ASSUME NEW ss, NEW n, NEW sg, SignedOK(ss, n, sg), NEW ss2 \in [1..RestSessions -> RestSessionRecs], NEW n2 \in Nat, n2 >= n,
         NEW new, GoOn(ss, n, ss2, n2, new)
  PROVE  SignedOK(ss2, n2, sg)
<1> USE DEF GoOn
<1>1. n \in Nat /\ sg \in [1..MaxClients -> Stamps] /\ ss \in [1..RestSessions -> RestSessionRecs]
  BY DEF SignedOK
<1>2. \A i \in 1..RestSessions : ss[i].status # "free" => ss[i].id <= n /\ ss[i].id \in Nat
  BY <1>1 DEF SignedOK, RestSessionRecs
<1>3. \A c \in 1..MaxClients : sg[c].id \in Nat /\ sg[c].id <= n
  BY <1>1 DEF SignedOK, Stamps
<1>4. \A i \in 1..RestSessions : ss2[i].status # "free" => ss2[i].id <= n2
  BY <1>1, <1>2
<1>5. ASSUME NEW i \in 1..RestSessions, NEW k \in 1..RestSessions, ss2[i].status # "free", ss2[k].status # "free", ss2[i].id = ss2[k].id
      PROVE  i = k
  <2>1. CASE ss[i].status # "free" /\ ss2[i].id = ss[i].id /\ ss[k].status # "free" /\ ss2[k].id = ss[k].id
    BY <1>5, <2>1 DEF SignedOK
  <2> QED  BY <1>1, <1>2, <1>5, <2>1
<1>6. \A c \in 1..MaxClients : sg[c].id <= n2
  BY <1>1, <1>3
<1>7. \A c \in 1..MaxClients, i \in 1..RestSessions :
        ss2[i].status # "free" /\ sg[c].id = ss2[i].id => sg[c].seq <= ss2[i].last_seq
  BY <1>1, <1>3 DEF SignedOK
<1>8. \A c, d \in 1..MaxClients : sg[c] # Unsigned /\ sg[c] = sg[d] => c = d
  BY DEF SignedOK
<1> QED  BY <1>1, <1>4, <1>5, <1>6, <1>7, <1>8 DEF SignedOK

\* A signature is accepted with a number its session has not seen.
LEMMA StampAccepted ==
  ASSUME NEW ss, NEW n, NEW sg, SignedOK(ss, n, sg), NEW i \in 1..RestSessions, ss[i].status # "free", NEW seq \in Nat,
         seq > ss[i].last_seq, NEW c \in 1..MaxClients
  PROVE  SignedOK([ss EXCEPT ![i].last_seq = seq], n, [sg EXCEPT ![c] = [id |-> ss[i].id, seq |-> seq]])
<1> DEFINE r == [ss[i] EXCEPT !.last_seq = seq]
           ss2 == [ss EXCEPT ![i] = r]
           p == [id |-> ss[i].id, seq |-> seq]
           sg2 == [sg EXCEPT ![c] = p]
<1>1. n \in Nat /\ sg \in [1..MaxClients -> Stamps] /\ ss \in [1..RestSessions -> RestSessionRecs] /\ ss[i] \in RestSessionRecs
  BY DEF SignedOK
<1>2. r \in RestSessionRecs /\ r.id = ss[i].id /\ r.status = ss[i].status /\ r.last_seq = seq
  BY <1>1 DEF RestSessionRecs
<1>3. p \in Stamps /\ p.id = ss[i].id /\ p.seq = seq /\ ss[i].id \in Nat /\ ss[i].last_seq \in Nat /\ ss[i].id <= n
  BY <1>1 DEF Stamps, RestSessionRecs, SignedOK
<1>4. ss2 = [ss EXCEPT ![i].last_seq = seq]
  BY <1>1
<1> HIDE DEF r, p
<1>5. ss2 \in [1..RestSessions -> RestSessionRecs] /\ \A k \in 1..RestSessions : ss2[k] = IF k = i THEN r ELSE ss[k]
  BY <1>1, <1>2
<1>6. sg2 \in [1..MaxClients -> Stamps] /\ \A d \in 1..MaxClients : sg2[d] = IF d = c THEN p ELSE sg[d]
  BY <1>1, <1>3
<1> HIDE DEF ss2, sg2
<1>7. \A k \in 1..RestSessions : /\ ss2[k].status = ss[k].status /\ ss2[k].id = ss[k].id
                                 /\ ss2[k].last_seq = IF k = i THEN seq ELSE ss[k].last_seq
  BY <1>2, <1>5
<1>8. \A k \in 1..RestSessions : ss2[k].status # "free" => ss2[k].id <= n
  BY <1>7 DEF SignedOK
<1>9. \A k, m \in 1..RestSessions : ss2[k].status # "free" /\ ss2[m].status # "free" /\ ss2[k].id = ss2[m].id => k = m
  BY <1>7 DEF SignedOK
<1>10. \A d \in 1..MaxClients : sg2[d].id <= n
  BY <1>3, <1>6 DEF SignedOK
<1>11. ASSUME NEW d \in 1..MaxClients, NEW k \in 1..RestSessions, ss2[k].status # "free", sg2[d].id = ss2[k].id
       PROVE  sg2[d].seq <= ss2[k].last_seq
  <2>1. CASE d = c
    <3>1. ss[k].id = ss[i].id /\ ss[k].status # "free"
      BY <1>3, <1>6, <1>7, <1>11, <2>1
    <3>2. k = i
      BY <3>1 DEF SignedOK
    <3> QED  BY <1>3, <1>6, <1>7, <2>1, <3>2
  <2>2. CASE d # c
    <3>1. sg[d].seq \in Nat /\ sg2[d] = sg[d] /\ sg[d].seq <= ss[k].last_seq
      BY <1>1, <1>6, <1>7, <1>11, <2>2 DEF SignedOK, Stamps
    <3> QED  BY <1>3, <1>7, <3>1
  <2> QED  BY <2>1, <2>2
<1>12. ASSUME NEW d \in 1..MaxClients, d # c
       PROVE  sg2[d] # p
  <2>1. sg2[d] = sg[d] /\ sg[d].seq \in Nat
    BY <1>1, <1>6, <1>12 DEF Stamps
  <2>2. sg[d].id = ss[i].id => sg[d].seq <= ss[i].last_seq
    BY DEF SignedOK
  <2> QED  BY <1>3, <2>1, <2>2
<1>13. \A d, e \in 1..MaxClients : sg2[d] # Unsigned /\ sg2[d] = sg2[e] => d = e
  BY <1>6, <1>12 DEF SignedOK
<1>14. SignedOK(ss2, n, sg2)
  BY <1>1, <1>5, <1>6, <1>8, <1>9, <1>10, <1>11, <1>13 DEF SignedOK
<1> QED  BY <1>4, <1>14 DEF sg2, p

SessionsOK == SignedOK(sessions, ids, signed)

LEMMA AdmitsKept ==
  ASSUME RestAssumption, SessionsOK, NEW s, conns[s].client \in 1..MaxClients, Admits(s), UNCHANGED ids
  PROVE  SessionsOK'
<1>1. CASE UNCHANGED <<sessions, signed>>
  BY <1>1 DEF SessionsOK
<1>2. ASSUME NEW id \in 1..ids, NEW seq \in Seqs, NEW i \in 1..RestSessions,
             Session(i, id) /\ FreshSeq(i, seq), sessions' = [sessions EXCEPT ![i].last_seq = seq],
             signed' = [signed EXCEPT ![conns[s].client] = [id |-> id, seq |-> seq]]
      PROVE  SessionsOK'
  <2> DEFINE c == conns[s].client
  <2>1. seq \in Nat /\ c \in 1..MaxClients /\ sessions[i].status # "free" /\ sessions[i].id = id /\ seq > sessions[i].last_seq
    BY <1>2 DEF RestAssumption, Session, Live, FreshSeq
  <2>2. signed' = [signed EXCEPT ![c] = [id |-> sessions[i].id, seq |-> seq]]
    BY <1>2, <2>1
  <2> HIDE DEF c
  <2>3. SignedOK([sessions EXCEPT ![i].last_seq = seq], ids, [signed EXCEPT ![c] = [id |-> sessions[i].id, seq |-> seq]])
    BY <2>1, StampAccepted DEF SessionsOK
  <2> QED  BY <1>2, <2>2, <2>3 DEF SessionsOK
<1> QED  BY <1>1, <1>2 DEF Admits

\* Handlers and time.
LEMMA HandlerKept ==
  ASSUME RestAssumption, SessionsOK, UNCHANGED signed,
         \/ HandlerEffects
         \/ UNCHANGED ids /\ \E i \in 1..RestSessions : \/ Live(i) /\ sessions' = [sessions EXCEPT ![i].aged = TRUE]
                                                       \/ sessions' = [sessions EXCEPT ![i] = Now(i, "free")]
  PROVE  SessionsOK'
<1>1. sessions \in [1..RestSessions -> RestSessionRecs] /\ ids \in Nat
  BY DEF SessionsOK, SignedOK
<1>2. NoRestSession \in RestSessionRecs /\ NoRestSession.status = "free"
  BY DEF NoRestSession, RestSessionRecs
<1>3. ASSUME sessions' \in [1..RestSessions -> RestSessionRecs], ids' \in Nat, ids' >= ids, NEW new, GoOn(sessions, ids, sessions', ids', new)
      PROVE  SessionsOK'
  <2> DEFINE ss2 == sessions'
             n2 == ids'
  <2>1. ss2 \in [1..RestSessions -> RestSessionRecs] /\ n2 \in Nat /\ n2 >= ids /\ GoOn(sessions, ids, ss2, n2, new)
    BY <1>3
  <2>2. SignedOK(sessions, ids, signed)
    BY DEF SessionsOK
  <2> HIDE DEF ss2, n2
  <2>3. SignedOK(ss2, n2, signed)
    BY <2>1, <2>2, SessionsKept
  <2> QED  BY <2>3 DEF SessionsOK, ss2, n2
<1>4. CASE UNCHANGED <<sessions, ids>>
  BY <1>4 DEF SessionsOK
<1>5. ASSUME NEW i \in 1..RestSessions, NEW r \in RestSessionRecs, sessions' = [sessions EXCEPT ![i] = r], UNCHANGED ids,
             r.status # "free" => sessions[i].status # "free" /\ r.id = sessions[i].id /\ r.last_seq = sessions[i].last_seq
      PROVE  SessionsOK'
  <2>1. sessions' \in [1..RestSessions -> RestSessionRecs] /\ \A k \in 1..RestSessions : sessions'[k] = IF k = i THEN r ELSE sessions[k]
    BY <1>1, <1>5
  <2>2. GoOn(sessions, ids, sessions', ids', i)
    BY <1>5, <2>1 DEF GoOn
  <2>3. ids' \in Nat /\ ids' >= ids
    BY <1>1, <1>5
  <2> QED  BY <1>3, <2>1, <2>2, <2>3
<1>6. ASSUME NEW i \in 1..RestSessions
      PROVE  /\ \A st \in {"ok", "waiting", "free"} :
                  /\ Live(i) \/ st = "free" => Now(i, st) \in RestSessionRecs
                  /\ Now(i, st).status # "free" => Now(i, st).id = sessions[i].id /\ Now(i, st).last_seq = sessions[i].last_seq
             /\ \A b \in BOOLEAN : /\ [sessions[i] EXCEPT !.aged = b] \in RestSessionRecs
                                   /\ [sessions[i] EXCEPT !.aged = b].id = sessions[i].id
                                   /\ [sessions[i] EXCEPT !.aged = b].last_seq = sessions[i].last_seq
                                   /\ [sessions EXCEPT ![i].aged = b] = [sessions EXCEPT ![i] = [sessions[i] EXCEPT !.aged = b]]
  BY <1>1, <1>2 DEF Now, RestSessionRecs
<1>7. ASSUME NEW i \in 1..RestSessions, NEW st \in {"ok", "waiting", "free"}, Live(i) \/ st = "free",
             sessions' = [sessions EXCEPT ![i] = Now(i, st)], UNCHANGED ids
      PROVE  SessionsOK'
  <2> DEFINE r == Now(i, st)
  <2>1. r \in RestSessionRecs /\ (r.status # "free" => r.id = sessions[i].id /\ r.last_seq = sessions[i].last_seq /\ sessions[i].status # "free")
    BY <1>2, <1>6, <1>7 DEF Live, Now
  <2> HIDE DEF r
  <2>2. sessions' = [sessions EXCEPT ![i] = r]
    BY <1>7 DEF r
  <2> QED  BY <1>5, <1>7, <2>1, <2>2
<1>8. ASSUME NEW i \in 1..RestSessions, NEW b \in BOOLEAN, Live(i), sessions' = [sessions EXCEPT ![i].aged = b], UNCHANGED ids
      PROVE  SessionsOK'
  <2> DEFINE r == [sessions[i] EXCEPT !.aged = b]
  <2>1. r \in RestSessionRecs /\ r.id = sessions[i].id /\ r.last_seq = sessions[i].last_seq /\ sessions[i].status # "free"
        /\ sessions' = [sessions EXCEPT ![i] = r]
    BY <1>6, <1>8 DEF Live
  <2> HIDE DEF r
  <2> QED  BY <1>5, <1>8, <2>1
<1>9. CASE session_clear_all
  <2>1. sessions' \in [1..RestSessions -> RestSessionRecs] /\ \A k \in 1..RestSessions : sessions'[k].status = "free"
    BY <1>2, <1>9 DEF session_clear_all
  <2>2. ids' = ids
    BY <1>9 DEF session_clear_all
  <2>3. GoOn(sessions, ids, sessions', ids', 0)
    BY <2>1 DEF GoOn
  <2> QED  BY <1>1, <1>3, <2>1, <2>2, <2>3
<1>10. ASSUME NEW st \in {"waiting", "ok"}, session_create(st)
       PROVE  SessionsOK'
  <2>1. ids' = ids + 1
    BY <1>10 DEF session_create
  <2> DEFINE r == [id |-> ids + 1, status |-> st, last_seq |-> 0, aged |-> FALSE]
  <2>2. PICK i \in 1..RestSessions : sessions' = [sessions EXCEPT ![i] = r]
    BY <1>10 DEF session_create, Vacant
  <2>3. r \in RestSessionRecs /\ r.id = ids + 1
    BY <1>1 DEF RestSessionRecs
  <2> HIDE DEF r
  <2>4. sessions' \in [1..RestSessions -> RestSessionRecs] /\ \A k \in 1..RestSessions : sessions'[k] = IF k = i THEN r ELSE sessions[k]
    BY <1>1, <2>2, <2>3
  <2>5. GoOn(sessions, ids, sessions', ids', i)
    BY <2>1, <2>3, <2>4 DEF GoOn
  <2>6. ids' \in Nat /\ ids' >= ids
    BY <1>1, <2>1
  <2> QED  BY <1>3, <2>4, <2>5, <2>6
<1> QED  BY <1>4, <1>7, <1>8, <1>9, <1>10 DEF HandlerEffects, appVars, session_set_status, session_update_activity

-----------------------------------------------------------------------------
(* Steps *)

\* What a connection is.
LEMMA TakenFacts ==
  ASSUME RestAssumption, RestInv, NEW s \in 1..Conns, conns[s] # NoConn
  PROVE  /\ conns[s] \in ConnRecs /\ ConnOK(conns, job, clients, s, conns[s])
         /\ conns[s].client \in 1..MaxClients /\ conns[s].client <= clients /\ clients \in Nat
<1>1. conns[s] \in ConnRecs /\ ConnOK(conns, job, clients, s, conns[s]) /\ clients \in 0..MaxClients
  BY DEF RestInv, ConnsOK
<1>2. conns[s].client \in Nat /\ conns[s].client # 0 /\ conns[s].client <= clients
  BY <1>1, NoConnFacts DEF ConnOK
<1> QED  BY <1>1, <1>2 DEF RestAssumption

\* A connection changes, and nothing but sessions with it.
LEMMA ConnStep ==
  ASSUME RestAssumption, RestInv, NEW s \in 1..Conns, conns[s] # NoConn, NEW k \in ConnRecs \cup {NoConn},
         conns' = [conns EXCEPT ![s] = k], UNCHANGED <<jobVars, clients, executed>>, SessionsOK',
         k # NoConn => /\ k.client = conns[s].client /\ ConnOK(conns, job, clients, s, k)
                       /\ (k.stage = "reading" => conns[s].stage = "reading")
  PROVE  RestInv'
<1>1. conns \in [1..Conns -> ConnRecs \cup {NoConn}] /\ clients \in 0..MaxClients
  BY DEF RestInv, ConnsOK
<1>2. ConnsOK([conns EXCEPT ![s] = k], job, clients)
  <2>1. ConnsOK(conns, job, clients) /\ clients >= clients
    BY <1>1 DEF RestInv, RestAssumption
  <2>2. Fits(conns, clients, job, clients, s, k) /\ Apart(conns, job, job, s)
    BY DEF Fits, Apart
  <2> QED  BY <1>1, <2>1, <2>2, StepConn
<1>3. ConnsOK(conns, job, clients)'
  BY <1>2 DEF jobVars
<1>4. JobOK'
  BY DEF RestInv, JobOK, jobVars, Idle
<1>5. \A t \in 1..Conns : conns'[t] # NoConn =>
        conns[t] # NoConn /\ conns'[t].client = conns[t].client /\ (conns'[t].stage = "reading" => conns[t].stage = "reading")
  BY <1>1
<1>6. ExecOK'
  <2>1. ExecOK /\ UNCHANGED <<executed, clients, cmds, job>>
    BY DEF RestInv, jobVars
  <2> QED  BY <1>5, <2>1 DEF ExecOK, NoConn
<1> QED  BY <1>3, <1>4, <1>6 DEF RestInv, SessionsOK

\* A response of the server itself to a request that arrives, or the answer that it runs.
LEMMA ArrivalStep ==
  ASSUME RestAssumption, RestInv, NEW s \in 1..Conns, NEW about \in {NoOne, conns[s].client}, Taken(s), conns[s].stage = "reading",
         NEW stage \in {"dispatched", "bad"}, Send(s, [conns[s] EXCEPT !.stage = stage], about)
  PROVE  \E k \in ConnRecs \cup {NoConn} :
           /\ conns' = [conns EXCEPT ![s] = k]
           /\ k # NoConn => k.client = conns[s].client /\ k.stage = stage /\ ConnOK(conns, job, clients, s, k)
<1> DEFINE c == conns[s]
           d == [conns[s] EXCEPT !.stage = stage]
<1>1. c \in ConnRecs /\ ConnOK(conns, job, clients, s, c) /\ c.client <= clients /\ c.stage = "reading" /\ about \in {NoOne, c.client}
  BY TakenFacts DEF Taken
<1>2. d \in ConnRecs /\ d.client = c.client /\ d.stage = stage /\ d.got = c.got
  BY <1>1 DEF ConnRecs
<1>3. (d.cut <=> c.cut) /\ (d.chatty <=> c.chatty)
  BY <1>1 DEF ConnRecs
<1>4. about \in Nat /\ Send(s, d, about)
  BY <1>1, NoConnFacts DEF NoOne
<1> HIDE DEF c, d
<1>5. PICK k : conns' = [conns EXCEPT ![s] = k] /\ Responded(k, d, about)
  BY <1>2, <1>4, SendFacts
<1>6. ~Busy(job, c.client)
  BY <1>1 DEF ConnOK, Busy
<1>7. Own(d) = Own(c)
  BY <1>2 DEF Own
<1>8. ~d.cut /\ ~d.chatty => Own(d) = {} /\ d.stage # "reading" /\ ~Busy(job, d.client) /\ OthersGone(conns, clients, d)
  BY <1>1, <1>2, <1>3, <1>6, <1>7 DEF ConnOK, OthersGone
<1>9. k # NoConn => ConnOK(conns, job, clients, s, k)
  BY <1>1, <1>2, <1>5, <1>6, <1>8, OwnAnswer
<1> QED  BY <1>2, <1>5, <1>9 DEF Responded, c

\* Connections close, go on sending, are refused, or lose the answer to what followed the request.
LEMMA PlainStep ==
  ASSUME RestAssumption, RestInv, NEW s \in 1..Conns,
         Leaves(s) \/ TimesOut(s) \/ rest_lwip_continue_send(s) \/ Surplus(s)
  PROVE  RestInv'
<1> DEFINE c == conns[s]
<1>1. c # NoConn /\ UNCHANGED <<jobVars, clients, executed, sessions, ids, signed>>
  BY DEF Leaves, TimesOut, rest_lwip_continue_send, Surplus, Taken, appVars, restGhosts
<1>2. c \in ConnRecs /\ ConnOK(conns, job, clients, s, c)
  BY <1>1, TakenFacts
<1>3. SessionsOK'
  BY <1>1 DEF RestInv, SessionsOK
<1>4. CASE Closed(s)
  <2>1. PICK k \in Closings(c) : conns' = [conns EXCEPT ![s] = k]
    BY <1>4 DEF Closed
  <2>2. ShutOff(k, c)
    BY <1>2, ClosingFacts
  <2>3. k \in ConnRecs \cup {NoConn} /\ (k # NoConn => k.client = c.client /\ k.stage = c.stage /\ ConnOK(conns, job, clients, s, k))
    BY <1>2, <2>2, ShutOffOK DEF ShutOff
  <2> QED  BY <1>1, <1>3, <2>1, <2>3, ConnStep
<1>5. CASE conns' = [conns EXCEPT ![s].tx = FALSE]
  <2> DEFINE k == [c EXCEPT !.tx = FALSE]
  <2>1. conns' = [conns EXCEPT ![s] = k]
    BY <1>5
  <2>2. k \in ConnRecs /\ k.client = c.client /\ k.stage = c.stage /\ k.got = c.got
    BY <1>2 DEF ConnRecs
  <2>3. (k.cut <=> c.cut) /\ (k.chatty <=> c.chatty)
    BY <1>2 DEF ConnRecs
  <2> HIDE DEF k, c
  <2>4. Own(k) = Own(c)
    BY <2>2 DEF Own
  <2>5. ConnOK(conns, job, clients, s, k)
    BY <1>2, <2>2, <2>3, <2>4 DEF ConnOK
  <2> QED  BY <1>1, <1>3, <2>1, <2>2, <2>5, ConnStep DEF c
<1>6. CASE Surplus(s)
  <2> DEFINE d == [c EXCEPT !.chatty = TRUE]
  <2>1. Send(s, d, NoOne) /\ NoOne \in Nat
    BY <1>6 DEF Surplus, NoOne
  <2>2. d \in ConnRecs /\ d.client = c.client /\ d.stage = c.stage
    BY <1>2 DEF ConnRecs
  <2>3. d.chatty
    BY <1>2 DEF ConnRecs
  <2> HIDE DEF d
  <2>4. PICK k : conns' = [conns EXCEPT ![s] = k] /\ Responded(k, d, NoOne)
    BY <2>1, <2>2, SendFacts
  <2>5. k # NoConn => k \in ConnRecs /\ k.client = c.client /\ k.stage = c.stage /\ (k.cut \/ k.chatty)
    BY <2>2, <2>3, <2>4 DEF Responded
  <2>6. k # NoConn => ConnOK(conns, job, clients, s, k)
    BY <1>2, <2>5 DEF ConnOK
  <2> QED  BY <1>1, <1>3, <2>4, <2>5, <2>6, ConnStep
<1> QED  BY <1>4, <1>5, <1>6 DEF Leaves, TimesOut, rest_lwip_continue_send

\* Requests the server answers itself.
LEMMA ServerAnswers ==
  ASSUME RestAssumption, RestInv, NEW s \in 1..Conns,
         \/ Refuse(s) \/ BadRequest(s) \/ \E i \in 1..RestSessions : ExpireSession(s, i)
         \/ Admit(s) /\ Send(s, Dispatched(s), NoOne) /\ UNCHANGED jobVars
  PROVE  RestInv'
<1>1. Taken(s) /\ conns[s] # NoConn /\ conns[s].stage = "reading" /\ UNCHANGED <<jobVars, clients, executed>>
  BY DEF Refuse, BadRequest, ExpireSession, Admit, Arrives, Taken, restGhosts
<1>2. \E stage \in {"dispatched", "bad"} : Send(s, [conns[s] EXCEPT !.stage = stage], NoOne)
  BY DEF Refuse, BadRequest, ExpireSession, Admit, Dispatched
<1>3. PICK stage \in {"dispatched", "bad"} : Send(s, [conns[s] EXCEPT !.stage = stage], NoOne)
  BY <1>2
<1>4. PICK k \in ConnRecs \cup {NoConn} :
           /\ conns' = [conns EXCEPT ![s] = k]
           /\ k # NoConn => k.client = conns[s].client /\ k.stage = stage /\ ConnOK(conns, job, clients, s, k)
  BY <1>1, <1>3, ArrivalStep
<1>5. SessionsOK
  BY DEF RestInv, SessionsOK
<1>6. SessionsOK'
  <2>1. CASE Refuse(s) \/ BadRequest(s)
    BY <1>5, <2>1 DEF SessionsOK, Refuse, BadRequest, appVars, restGhosts
  <2>2. ASSUME NEW i \in 1..RestSessions, ExpireSession(s, i)
        PROVE  SessionsOK'
    <3>1. sessions' = [sessions EXCEPT ![i] = Now(i, "free")] /\ UNCHANGED ids /\ UNCHANGED signed
      BY <2>2 DEF ExpireSession, restGhosts
    <3> QED  BY <1>5, <3>1, HandlerKept
  <2>3. CASE Admit(s)
    <3>1. Admits(s) /\ UNCHANGED ids
      BY <2>3 DEF Admit
    <3>2. conns[s].client \in 1..MaxClients
      BY <1>1, TakenFacts
    <3> QED  BY <1>5, <3>1, <3>2, AdmitsKept
  <2> QED  BY <2>1, <2>2, <2>3
<1>7. k # NoConn => /\ k.client = conns[s].client /\ ConnOK(conns, job, clients, s, k)
                    /\ (k.stage = "reading" => conns[s].stage = "reading")
  BY <1>1, <1>4
<1> QED  BY <1>1, <1>4, <1>6, <1>7, ConnStep

\* A request runs: who has it was reading, so it had not run.
LEMMA NotYetRun ==
  ASSUME RestAssumption, RestInv, NEW s \in 1..Conns, Arrives(s)
  PROVE  conns[s].client \in 1..MaxClients /\ conns[s].client <= clients /\ executed[conns[s].client] = 0
<1>1. conns[s] # NoConn /\ conns[s].stage = "reading"
  BY DEF Arrives, Taken
<1>2. conns[s].client \in 1..MaxClients /\ conns[s].client <= clients
  BY <1>1, TakenFacts
<1>3. ExecOK /\ MaxClients \in Nat
  BY DEF RestInv, RestAssumption
<1>4. executed[conns[s].client] \in Nat /\ executed[conns[s].client] <= 1 /\ executed[conns[s].client] # 1
  BY <1>1, <1>2, <1>3 DEF ExecOK
<1> QED  BY <1>2, <1>4

LEMMA CancelKept ==
  ASSUME RestAssumption, RestInv, NEW s \in 1..Conns, CancelJob(s)
  PROVE  RestInv'
<1> DEFINE c == conns[s].client
<1>1. Taken(s) /\ conns[s] # NoConn /\ conns[s].stage = "reading" /\ UNCHANGED <<jobVars, clients, ids>> /\ Arrives(s)
  BY DEF CancelJob, Arrives, Taken
<1>2. c \in 1..MaxClients /\ c <= clients /\ executed[c] = 0
  BY <1>1, NotYetRun
<1>3. Send(s, [conns[s] EXCEPT !.stage = "dispatched"], c) /\ c \in {NoOne, conns[s].client}
  BY DEF CancelJob, Dispatched
<1>4. PICK k \in ConnRecs \cup {NoConn} :
           /\ conns' = [conns EXCEPT ![s] = k]
           /\ k # NoConn => k.client = conns[s].client /\ k.stage = "dispatched" /\ ConnOK(conns, job, clients, s, k)
  BY <1>1, <1>3, ArrivalStep
<1>5. SessionsOK'
  <2>1. SessionsOK /\ Admits(s)
    BY DEF RestInv, SessionsOK, CancelJob
  <2> QED  BY <1>1, <1>2, <2>1, AdmitsKept
<1>6. conns \in [1..Conns -> ConnRecs \cup {NoConn}] /\ clients \in 0..MaxClients
  BY DEF RestInv, ConnsOK
<1>7. ConnsOK([conns EXCEPT ![s] = k], job, clients)
  <2>1. ConnsOK(conns, job, clients) /\ clients >= clients
    BY <1>6 DEF RestInv, RestAssumption
  <2>2. Fits(conns, clients, job, clients, s, k) /\ Apart(conns, job, job, s)
    BY <1>1, <1>4 DEF Fits, Apart
  <2> QED  BY <1>6, <2>1, <2>2, StepConn
<1>8. ConnsOK(conns, job, clients)'
  BY <1>1, <1>4, <1>7 DEF jobVars
<1>9. JobOK'
  BY <1>1 DEF RestInv, JobOK, jobVars, Idle
<1>10. \A t \in 1..Conns : conns'[t] # NoConn =>
         conns[t] # NoConn /\ conns'[t].client = conns[t].client /\ conns'[t].stage \in {"dispatched", conns[t].stage} /\ (t = s => conns'[t].stage = "dispatched")
  BY <1>1, <1>4, <1>6
<1>11. cmds = 1 => job.client # c
  <2>1. cmds = 1 => job.pending
    BY DEF RestInv, JobOK
  <2>2. ConnOK(conns, job, clients, s, conns[s])
    BY <1>1, TakenFacts
  <2> QED  BY <1>1, <2>1, <2>2 DEF ConnOK
<1>12. executed' \in [0..MaxClients -> Nat] /\ \A d \in 0..MaxClients : executed'[d] = IF d = c THEN 1 ELSE executed[d]
  <2>1. executed \in [0..MaxClients -> Nat] /\ executed' = [executed EXCEPT ![c] = executed[c] + 1]
    BY DEF RestInv, ExecOK, CancelJob
  <2> HIDE DEF c
  <2> QED  BY <1>2, <2>1
<1>13. \A t \in 1..Conns : conns[t] # NoConn /\ conns[t].client = c => t = s
  BY <1>1 DEF RestInv, ConnsOK
<1>14. ExecOK'
  <2>1. ExecOK /\ UNCHANGED <<clients, cmds, job>>
    BY <1>1 DEF RestInv, jobVars
  <2>2. MaxClients \in Nat
    BY DEF RestAssumption
  <2> HIDE DEF c
  <2>3. \A d \in 1..MaxClients : executed'[d] <= 1
    BY <1>12, <2>1, <2>2 DEF ExecOK
  <2>4. ASSUME NEW d \in 1..MaxClients, executed'[d] = 1
        PROVE  /\ d <= clients
               /\ \A t \in 1..Conns : conns'[t] # NoConn /\ conns'[t].client = d => conns'[t].stage # "reading"
               /\ cmds = 1 => job.client # d
    <3>1. CASE d = c
      BY <1>2, <1>10, <1>11, <1>13, <3>1
    <3>2. CASE d # c
      <4>1. executed[d] = 1
        BY <1>12, <2>2, <2>4, <3>2
      <4>2. /\ d <= clients
            /\ \A t \in 1..Conns : conns[t] # NoConn /\ conns[t].client = d => conns[t].stage # "reading"
            /\ cmds = 1 => job.client # d
        BY <2>1, <4>1 DEF ExecOK
      <4> QED  BY <1>10, <4>2
    <3> QED  BY <3>1, <3>2
  <2> QED  BY <1>12, <2>1, <2>3, <2>4 DEF ExecOK, NoConn
<1> QED  BY <1>5, <1>8, <1>9, <1>14 DEF RestInv, SessionsOK

\* A request goes to core 1.
LEMMA StartKept ==
  ASSUME RestAssumption, RestInv, NEW s \in 1..Conns, Admit(s), StartJob(s, conns[s].client),
         conns' = [conns EXCEPT ![s] = Dispatched(s)]
  PROVE  RestInv'
<1> DEFINE c == conns[s].client
           k == Dispatched(s)
           j2 == [pending |-> TRUE, slot |-> s, client |-> conns[s].client]
<1>1. Taken(s) /\ conns[s] # NoConn /\ conns[s].stage = "reading" /\ UNCHANGED <<clients, ids, executed>> /\ Arrives(s)
  BY DEF Admit, Arrives, Taken
<1>2. c \in 1..MaxClients /\ c <= clients /\ executed[c] = 0
  BY <1>1, NotYetRun
<1>3. SessionsOK'
  <2>1. SessionsOK /\ Admits(s)
    BY DEF RestInv, SessionsOK, Admit
  <2> QED  BY <1>1, <1>2, <2>1, AdmitsKept
<1>4. conns \in [1..Conns -> ConnRecs \cup {NoConn}] /\ clients \in 0..MaxClients
  BY DEF RestInv, ConnsOK
<1>5. ~job.pending /\ job' = j2 /\ result' = NoResult /\ cmds' = cmds + 1 /\ UNCHANGED <<fins, core1>>
  BY DEF StartJob, Pending
<1>6. cmds = 0 /\ fins = 0 /\ core1 = Idle
  BY <1>5 DEF RestInv, JobOK
<1>7. conns[s] \in ConnRecs /\ ConnOK(conns, job, clients, s, conns[s])
  BY <1>1, TakenFacts
<1>8. k \in ConnRecs /\ k.client = c /\ k.stage = "dispatched" /\ k.got = conns[s].got
  BY <1>7 DEF ConnRecs, Dispatched
<1>9. (k.cut <=> conns[s].cut) /\ (k.chatty <=> conns[s].chatty)
  BY <1>7 DEF ConnRecs, Dispatched
<1>10. Own(k) = Own(conns[s])
  BY <1>8 DEF Own
<1>11. j2.pending /\ j2.client = c /\ j2.slot = s
  OBVIOUS
<1>12. conns' = [conns EXCEPT ![s] = k]
  OBVIOUS
<1> HIDE DEF k, j2
<1>13. ConnOK(conns, j2, clients, s, k)
  BY <1>1, <1>2, <1>7, <1>8, <1>9, <1>10, <1>11 DEF ConnOK
<1>14. \A t \in 1..Conns : t # s /\ conns[t] # NoConn => conns[t].client # c
  BY <1>1 DEF RestInv, ConnsOK
<1>15. ConnsOK([conns EXCEPT ![s] = k], j2, clients)
  <2>1. ConnsOK(conns, job, clients) /\ clients >= clients
    BY <1>4 DEF RestInv, RestAssumption
  <2>2. Fits(conns, clients, j2, clients, s, k)
    BY <1>1, <1>8, <1>13 DEF Fits
  <2>3. Apart(conns, job, j2, s)
    BY <1>5, <1>11, <1>14 DEF Apart, Busy
  <2> QED  BY <1>4, <1>8, <2>1, <2>2, <2>3, StepConn
<1>16. ConnsOK(conns, job, clients)'
  BY <1>1, <1>5, <1>12, <1>15
<1>17. JobOK'
  <2>1. job' \in [pending : BOOLEAN, slot : 0..Conns, client : 0..clients]
    BY <1>2, <1>4, <1>5 DEF j2, RestAssumption
  <2>2. job'.pending /\ job'.slot # 0 /\ job'.client # 0
    BY <1>2, <1>5, <1>11
  <2> QED  BY <1>1, <1>5, <1>6, <2>1, <2>2 DEF JobOK, Idle
<1>18. \A t \in 1..Conns : conns'[t] # NoConn =>
         conns[t] # NoConn /\ conns'[t].client = conns[t].client /\ (conns'[t].stage = "reading" => conns[t].stage = "reading")
  BY <1>1, <1>4, <1>8, <1>12
<1>19. ExecOK'
  <2>1. ExecOK /\ job'.client = c
    BY <1>5, <1>11 DEF RestInv
  <2>2. \A d \in 1..MaxClients : executed[d] = 1 =>
          /\ d <= clients
          /\ \A t \in 1..Conns : conns'[t] # NoConn /\ conns'[t].client = d => conns'[t].stage # "reading"
          /\ job'.client # d
    BY <1>2, <1>18, <2>1 DEF ExecOK
  <2> QED  BY <1>1, <2>1, <2>2 DEF ExecOK, NoConn
<1> QED  BY <1>3, <1>16, <1>17, <1>19 DEF RestInv, SessionsOK

LEMMA AcceptKept ==
  ASSUME RestAssumption, RestInv, NEW s \in 1..Conns, NEW tls \in BOOLEAN, rest_accept(s, tls)
  PROVE  RestInv'
<1> DEFINE k == [client |-> clients + 1, tls |-> tls, stage |-> "reading", tx |-> FALSE,
                 cut |-> FALSE, got |-> <<>>, chatty |-> FALSE]
           n2 == clients + 1
<1>1. conns \in [1..Conns -> ConnRecs \cup {NoConn}] /\ clients \in Nat /\ n2 \in 0..MaxClients /\ n2 > clients
  BY DEF RestInv, ConnsOK, RestAssumption, rest_accept
<1>2. conns' = [conns EXCEPT ![s] = k] /\ clients' = n2 /\ UNCHANGED <<jobVars, sessions, ids, signed, executed>>
  BY DEF rest_accept, appVars, restGhosts
<1>3. k \in ConnRecs /\ k.client = n2 /\ k.stage = "reading" /\ k.got = <<>>
  BY <1>1 DEF ConnRecs
<1>4. job \in [pending : BOOLEAN, slot : 0..Conns, client : 0..clients]
  BY DEF RestInv, JobOK
<1>5. job.client \in Nat /\ job.client <= clients
  BY <1>1, <1>4
<1>6. Own(k) = {} /\ (1..Len(k.got)) = {}
  BY <1>3 DEF Own
<1> HIDE DEF k, n2
<1>7. ConnOK(conns, job, n2, s, k)
  BY <1>1, <1>3, <1>5, <1>6 DEF ConnOK
<1>8. ConnsOK([conns EXCEPT ![s] = k], job, n2)
  <2>1. ConnsOK(conns, job, clients) /\ n2 >= clients
    BY <1>1 DEF RestInv, n2
  <2>2. Fits(conns, clients, job, n2, s, k) /\ Apart(conns, job, job, s)
    BY <1>1, <1>3, <1>7 DEF Fits, Apart
  <2> QED  BY <1>1, <1>3, <2>1, <2>2, StepConn
<1>9. ConnsOK(conns, job, clients)'
  BY <1>2, <1>8 DEF jobVars
<1>10. JobOK'
  <2>1. JobOK /\ UNCHANGED <<job, result, cmds, fins, core1>>
    BY <1>2 DEF RestInv, jobVars
  <2>2. job' \in [pending : BOOLEAN, slot : 0..Conns, client : 0..clients']
    BY <1>1, <1>2, <1>4, <2>1 DEF n2
  <2> QED  BY <2>1, <2>2 DEF JobOK, Idle
<1>11. \A t \in 1..Conns : conns'[t] = IF t = s THEN k ELSE conns[t]
  BY <1>1, <1>2
<1>12. ExecOK'
  <2>1. ExecOK /\ UNCHANGED <<executed, cmds, job>>
    BY <1>2 DEF RestInv, jobVars
  <2>2. \A d \in 1..MaxClients : executed[d] = 1 =>
          /\ d <= n2
          /\ \A t \in 1..Conns : conns'[t] # NoConn /\ conns'[t].client = d => conns'[t].stage # "reading"
          /\ cmds = 1 => job.client # d
    BY <1>1, <1>3, <1>11, <2>1 DEF ExecOK, RestAssumption
  <2> QED  BY <1>2, <2>1, <2>2 DEF ExecOK, NoConn
<1>13. SessionsOK'
  BY <1>2 DEF RestInv, SessionsOK
<1> QED  BY <1>9, <1>10, <1>12, <1>13 DEF RestInv, SessionsOK

\* A change of the job that is none of a connection's business.
LEMMA JobSwap ==
  ASSUME NEW cs, NEW j, NEW j2, NEW n, ConnsOK(cs, j, n),
         \A t \in 1..Conns : cs[t] # NoConn => ~Busy(j, cs[t].client) /\ ~Busy(j2, cs[t].client)
  PROVE  ConnsOK(cs, j2, n)
<1>1. ASSUME NEW t \in 1..Conns, cs[t] # NoConn
      PROVE  ConnOK(cs, j2, n, t, cs[t])
  <2>1. ConnOK(cs, j, n, t, cs[t])
    BY <1>1 DEF ConnsOK
  <2>2. ~Busy(j, cs[t].client) /\ ~Busy(j2, cs[t].client)
    BY <1>1
  <2> QED  BY <2>1, <2>2 DEF ConnOK, Busy
<1> QED  BY <1>1 DEF ConnsOK

LEMMA CoreTakesKept ==
  ASSUME RestAssumption, RestInv, CoreTakes
  PROVE  RestInv'
<1> DEFINE c == job.client
<1>1. cmds = 1 /\ fins = 0 /\ job.pending /\ cmds' = 0 /\ core1' = c /\ result' = NoResult
      /\ UNCHANGED <<job, fins, conns, clients, sessions, ids, signed>>
  BY DEF RestInv, JobOK, CoreTakes, appVars
<1>2. job \in [pending : BOOLEAN, slot : 0..Conns, client : 0..clients] /\ clients \in 0..MaxClients
  BY DEF RestInv, JobOK, ConnsOK
<1>3. c \in 0..MaxClients /\ c \in 0..clients /\ MaxClients \in Nat /\ clients \in Nat
  BY <1>2 DEF RestAssumption
<1>4. ConnsOK(conns, job, clients)' /\ SessionsOK'
  BY <1>1 DEF RestInv, SessionsOK
<1>5. JobOK'
  BY <1>1 DEF RestInv, JobOK, Idle
<1>6. ExecOK'
  <2>1. ExecOK /\ executed \in [0..MaxClients -> Nat]
    BY DEF RestInv, ExecOK
  <2>2. c # 0 => executed[c] = 0
    BY <1>1, <1>3, <2>1 DEF ExecOK
  <2>3. executed' \in [0..MaxClients -> Nat] /\ \A d \in 1..MaxClients : executed'[d] = IF d = c THEN 1 ELSE executed[d]
    <3>1. executed' = [executed EXCEPT ![c] = IF c = 0 THEN 0 ELSE executed[c] + 1]
      BY DEF CoreTakes, NoOne
    <3> HIDE DEF c
    <3> QED  BY <1>3, <2>1, <2>2, <3>1
  <2>4. \A t \in 1..Conns : conns[t] # NoConn /\ conns[t].client = c => conns[t].stage # "reading"
    BY <1>1 DEF RestInv, ConnsOK, ConnOK
  <2> HIDE DEF c
  <2>5. \A d \in 1..MaxClients : executed'[d] <= 1
    <3>1. \A d \in 1..MaxClients : executed[d] <= 1
      BY <2>1 DEF ExecOK
    <3> QED  BY <2>3, <3>1
  <2>6. ASSUME NEW d \in 1..MaxClients, executed'[d] = 1
        PROVE  /\ d <= clients
               /\ \A t \in 1..Conns : conns[t] # NoConn /\ conns[t].client = d => conns[t].stage # "reading"
    <3>1. CASE d = c
      BY <1>3, <2>4, <3>1
    <3>2. CASE d # c
      BY <2>1, <2>3, <2>6, <3>2 DEF ExecOK
    <3> QED  BY <3>1, <3>2
  <2> QED  BY <1>1, <2>3, <2>5, <2>6 DEF ExecOK
<1> QED  BY <1>4, <1>5, <1>6 DEF RestInv, SessionsOK

LEMMA CoreEndsKept ==
  ASSUME RestAssumption, RestInv, CoreEnds
  PROVE  RestInv'
<1>1. cmds = 0 /\ fins = 0 /\ job.pending /\ core1 = job.client /\ core1' = Idle /\ fins' = 1
      /\ result' = [ready |-> TRUE, about |-> core1] /\ UNCHANGED <<job, cmds, conns, clients, signed, executed>>
  BY DEF RestInv, JobOK, CoreEnds, restGhosts
<1>2. SessionsOK'
  <2>1. SessionsOK /\ HandlerEffects
    BY DEF RestInv, SessionsOK, CoreEnds
  <2> QED  BY <1>1, <2>1, HandlerKept
<1>3. ConnsOK(conns, job, clients)'
  BY <1>1 DEF RestInv
<1>4. JobOK'
  BY <1>1 DEF RestInv, JobOK, Idle
<1>5. ExecOK'
  BY <1>1 DEF RestInv, ExecOK
<1> QED  BY <1>2, <1>3, <1>4, <1>5 DEF RestInv, SessionsOK

LEMMA BackgroundKept ==
  ASSUME RestAssumption, RestInv, BackgroundJob
  PROVE  RestInv'
<1> DEFINE j2 == [pending |-> TRUE, slot |-> 0, client |-> 0]
<1>1. ~job.pending /\ job' = j2 /\ cmds' = cmds + 1 /\ UNCHANGED <<fins, core1, conns, clients, sessions, ids, signed, executed>>
  BY DEF BackgroundJob, StartJob, Pending, NoOne, restGhosts
<1>2. cmds = 0 /\ fins = 0 /\ core1 = Idle
  BY <1>1 DEF RestInv, JobOK
<1>3. clients \in 0..MaxClients /\ ConnsOK(conns, job, clients)
  BY DEF RestInv, ConnsOK
<1>4. j2 \in [pending : BOOLEAN, slot : 0..Conns, client : 0..clients] /\ j2.client = 0 /\ j2.slot = 0 /\ j2.pending
  BY <1>3 DEF RestAssumption
<1> HIDE DEF j2
<1>5. \A t \in 1..Conns : conns[t] # NoConn => ~Busy(job, conns[t].client) /\ ~Busy(j2, conns[t].client)
  <2>1. \A t \in 1..Conns : conns[t] # NoConn => conns[t].client # 0
    BY <1>3, NoConnFacts DEF ConnsOK
  <2> QED  BY <1>1, <1>4, <2>1 DEF Busy
<1>6. ConnsOK(conns, j2, clients)
  BY <1>3, <1>5, JobSwap
<1>7. ConnsOK(conns, job, clients)' /\ SessionsOK'
  BY <1>1, <1>6 DEF RestInv, SessionsOK
<1>8. JobOK'
  BY <1>1, <1>2, <1>4 DEF JobOK, Idle
<1>9. ExecOK'
  <2>1. ExecOK /\ job'.client = 0
    BY <1>1, <1>4 DEF RestInv
  <2> QED  BY <1>1, <2>1 DEF ExecOK
<1> QED  BY <1>7, <1>8, <1>9 DEF RestInv, SessionsOK

\* An answer goes to the connection that has the job's slot by now.
LEMMA AnswerKept ==
  ASSUME RestAssumption, RestInv, AnswerJob
  PROVE  RestInv'
<1> DEFINE a == job.client
           s == job.slot
           j2 == NoRestJob
<1>1. job.pending /\ fins = 1 /\ cmds = 0 /\ core1 = Idle /\ result = [ready |-> TRUE, about |-> a] /\ fins' = 0 /\ job' = j2
      /\ UNCHANGED <<cmds, core1, clients, sessions, ids, signed, executed>>
  BY DEF RestInv, JobOK, AnswerJob, appVars, restGhosts
<1>2. job \in [pending : BOOLEAN, slot : 0..Conns, client : 0..clients] /\ (job.slot = 0 <=> job.client = 0)
  BY <1>1 DEF RestInv, JobOK
<1>3. ConnsOK(conns, job, clients) /\ clients \in 0..MaxClients /\ conns \in [1..Conns -> ConnRecs \cup {NoConn}]
  BY DEF RestInv, ConnsOK
<1>4. s \in 0..Conns /\ a \in Nat /\ a <= clients /\ clients \in Nat /\ (s = 0 <=> a = 0)
  BY <1>2, <1>3 DEF RestAssumption
<1>5. j2 \in [pending : BOOLEAN, slot : 0..Conns, client : 0..clients] /\ ~j2.pending
  BY <1>3 DEF NoRestJob, RestAssumption
<1>6. \A t \in 1..Conns : conns[t] # NoConn => conns[t].client # 0 /\ (conns[t].client = a => t = s)
  BY <1>1, <1>3, NoConnFacts DEF ConnsOK, ConnOK
<1>7. (~Taken(s) /\ UNCHANGED conns) \/ (Taken(s) /\ Send(s, conns[s], a))
  <2>1. (IF result.ready THEN result.about ELSE NoOne) = a
    BY <1>1
  <2> QED  BY <2>1 DEF AnswerJob
<1>8. SessionsOK'
  BY <1>1 DEF RestInv, SessionsOK
<1> HIDE DEF a, s, j2
<1>9. JobOK'
  BY <1>1, <1>5 DEF JobOK, Idle
<1>10. CASE ~Taken(s) /\ UNCHANGED conns
  <2>1. \A t \in 1..Conns : conns[t] # NoConn => ~Busy(job, conns[t].client) /\ ~Busy(j2, conns[t].client)
    BY <1>4, <1>5, <1>6, <1>10 DEF Busy, Taken, a
  <2>2. ConnsOK(conns, j2, clients)
    BY <1>3, <2>1, JobSwap
  <2>3. ConnsOK(conns, job, clients)'
    BY <1>1, <1>10, <2>2
  <2>4. ExecOK'
    BY <1>1, <1>10 DEF RestInv, ExecOK
  <2> QED  BY <1>8, <1>9, <2>3, <2>4 DEF RestInv, SessionsOK
<1>11. CASE Taken(s) /\ Send(s, conns[s], a)
  <2> DEFINE c == conns[s]
  <2>1. s \in 1..Conns /\ c # NoConn /\ Send(s, c, a)
    BY <1>4, <1>11 DEF Taken, RestAssumption
  <2>2. c \in ConnRecs /\ ConnOK(conns, job, clients, s, c) /\ c.client <= clients
    BY <2>1, TakenFacts
  <2>3. PICK k : conns' = [conns EXCEPT ![s] = k] /\ Responded(k, c, a)
    BY <1>4, <2>1, <2>2, SendFacts
  <2>4. k \in ConnRecs \cup {NoConn} /\ (k # NoConn => k.client = c.client /\ k.stage = c.stage)
    BY <2>3 DEF Responded
  <2>5. a # 0 /\ \A t \in 1..Conns : t # s /\ conns[t] # NoConn => conns[t].client # a
    BY <1>4, <1>6, <2>1 DEF RestAssumption
  <2>6. ASSUME k # NoConn
        PROVE  ConnOK(conns, j2, clients, s, k)
    <3>1. CASE c.client = a
      <4>1. Busy(job, c.client)
        BY <1>1, <3>1 DEF Busy, a
      <4>2. ~Busy(j2, c.client)
        BY <1>5 DEF Busy
      <4>3. ~c.cut /\ ~c.chatty => Own(c) = {} /\ c.stage # "reading" /\ ~Busy(j2, c.client) /\ OthersGone(conns, clients, c)
        BY <2>2, <4>1, <4>2 DEF ConnOK, Busy, OthersGone
      <4>4. a \in {NoOne, c.client}
        BY <3>1
      <4> HIDE DEF c
      <4> QED  BY <2>2, <2>3, <2>6, <4>2, <4>3, <4>4, OwnAnswer
    <3>2. CASE c.client # a
      <4>1. ~Busy(job, c.client) /\ ~Busy(j2, c.client)
        BY <1>5, <3>2 DEF Busy, a
      <4>2. ConnOK(conns, j2, clients, s, c)
        BY <2>2, <4>1 DEF ConnOK, Busy
      <4>3. \A t \in 1..Conns : conns[t].client # a
        BY <2>5, <3>2, NoConnFacts
      <4>4. a \notin {NoOne, c.client}
        BY <2>5, <3>2 DEF NoOne
      <4> HIDE DEF c
      <4> QED  BY <1>4, <2>2, <2>3, <2>6, <4>2, <4>3, <4>4, StrangersAnswer
    <3> QED  BY <3>1, <3>2
  <2>7. ConnsOK([conns EXCEPT ![s] = k], j2, clients)
    <3>1. Fits(conns, clients, j2, clients, s, k)
      BY <2>1, <2>4, <2>6 DEF Fits
    <3>2. Apart(conns, job, j2, s)
      BY <1>5, <2>5 DEF Apart, Busy, a
    <3>3. clients >= clients
      BY <1>4
    <3> QED  BY <1>3, <2>1, <2>4, <3>1, <3>2, <3>3, StepConn
  <2>8. ConnsOK(conns, job, clients)'
    BY <1>1, <2>3, <2>7
  <2>9. \A t \in 1..Conns : conns'[t] # NoConn =>
          conns[t] # NoConn /\ conns'[t].client = conns[t].client /\ conns'[t].stage = conns[t].stage
    BY <1>3, <2>1, <2>3, <2>4
  <2>10. ExecOK'
    <3>1. ExecOK
      BY DEF RestInv
    <3> QED  BY <1>1, <2>9, <3>1 DEF ExecOK, NoConn
  <2> QED  BY <1>8, <1>9, <2>8, <2>10 DEF RestInv, SessionsOK
<1> QED  BY <1>7, <1>10, <1>11

LEMMA RestInvNext ==
  ASSUME RestAssumption, RestInv, [RestNext]_restVars
  PROVE  RestInv'
<1>1. ASSUME NEW s \in 1..Conns, Admit(s)
      PROVE  RestInv'
  BY <1>1, StartKept, ServerAnswers DEF Admit
<1>2. ASSUME NEW i \in 1..RestSessions, SessionAges(i)
      PROVE  RestInv'
  <2>1. Live(i) /\ sessions' = [sessions EXCEPT ![i].aged = TRUE] /\ UNCHANGED <<ids, signed>>
    BY <1>2 DEF SessionAges, restGhosts
  <2>2. SessionsOK
    BY DEF RestInv, SessionsOK
  <2>3. SessionsOK'
    BY <2>1, <2>2, HandlerKept
  <2>4. UNCHANGED <<conns, job, result, cmds, fins, core1, clients, executed>>
    BY <1>2 DEF SessionAges, jobVars, restGhosts
  <2> QED  BY <2>3, <2>4 DEF RestInv, SessionsOK, JobOK, ExecOK, Idle
<1>3. CASE CardTaken
  <2>1. fins' = 0 /\ UNCHANGED <<conns, job, result, cmds, core1, clients, executed, sessions, ids, signed>>
    BY <1>3 DEF CardTaken, appVars, restGhosts
  <2> QED  BY <2>1 DEF RestInv, JobOK, ExecOK, Idle
<1>4. CASE UNCHANGED restVars
  BY <1>4 DEF restVars, RestInv, JobOK, ExecOK, Idle
<1>5. ASSUME NEW s \in 1..Conns, NEW tls \in BOOLEAN, rest_accept(s, tls)
      PROVE  RestInv'
  BY <1>5, AcceptKept
<1>6. ASSUME NEW s \in 1..Conns, Leaves(s) \/ TimesOut(s) \/ rest_lwip_continue_send(s) \/ Surplus(s)
      PROVE  RestInv'
  BY <1>6, PlainStep
<1>7. ASSUME NEW s \in 1..Conns, Refuse(s) \/ BadRequest(s) \/ \E i \in 1..RestSessions : ExpireSession(s, i)
      PROVE  RestInv'
  BY <1>7, ServerAnswers
<1>8. ASSUME NEW s \in 1..Conns, CancelJob(s)
      PROVE  RestInv'
  BY <1>8, CancelKept
<1> QED  BY <1>1, <1>2, <1>3, <1>4, <1>5, <1>6, <1>7, <1>8, CoreTakesKept, CoreEndsKept, AnswerKept, BackgroundKept DEF RestNext

LEMMA RestInvInit ==
  ASSUME RestAssumption, RestInit
  PROVE  RestInv
<1>1. ConnsOK(conns, job, clients)
  BY DEF RestInit, ConnsOK, RestAssumption
<1>2. JobOK
  <2>1. NoRestJob \in [pending : BOOLEAN, slot : 0..Conns, client : 0..0] /\ ~NoRestJob.pending
    BY DEF NoRestJob, RestAssumption
  <2> QED  BY <2>1 DEF RestInit, JobOK
<1>3. ExecOK
  BY DEF RestInit, ExecOK, RestAssumption
<1>4. SignedOK(sessions, ids, signed)
  <2>1. NoRestSession \in RestSessionRecs /\ NoRestSession.status = "free"
    BY DEF NoRestSession, RestSessionRecs
  <2>2. Unsigned \in Stamps /\ Unsigned.id = 0 /\ Unsigned.seq = 0
    BY DEF Unsigned, Stamps
  <2> QED  BY <2>1, <2>2 DEF RestInit, SignedOK
<1> QED  BY <1>1, <1>2, <1>3, <1>4 DEF RestInv

LEMMA RestInvHolds == RestSpec => []RestInv
<1>1. RestInit => RestInv
  BY RestInvInit, RestAssumption
<1>2. RestInv /\ [RestNext]_restVars => RestInv'
  BY RestInvNext, RestAssumption
<1> QED  BY <1>1, <1>2, PTL DEF RestSpec

-----------------------------------------------------------------------------
\* Nobody is forgotten, answered twice or given a present client's answer, for every number of
\* connections: rest_task answers whoever holds the slot of the job it has finished, and a slot that
\* changed hands meanwhile is the only way to an answer that is not the connection's own.
THEOREM AnswersHold == RestSpec => []OneAnswerEach
<1>1. RestInv => OneAnswerEach
  <2> SUFFICES ASSUME RestInv, NEW s \in 1..Conns, Taken(s) /\ ~conns[s].cut /\ ~conns[s].chatty
               PROVE  LET c == conns[s].client
                          heard == conns[s].got
                          own == {k \in 1..Len(heard) : heard[k] \in {NoOne, c}}
                      IN  /\ \A j, k \in own : j = k
                          /\ conns[s].stage = "dispatched" /\ own = {} => job.pending /\ job.slot = s /\ job.client = c
                          /\ \A k \in (1..Len(heard)) \ own, t \in 1..Conns : conns[t].client # heard[k]
    BY DEF OneAnswerEach
  <2> DEFINE c == conns[s]
  <2>1. ConnOK(conns, job, clients, s, c)
    BY TakenFacts, RestAssumption DEF Taken
  <2>2. Own(c) = {k \in 1..Len(c.got) : c.got[k] \in {NoOne, c.client}}
    BY DEF Own
  <2>3. /\ \A i, k \in Own(c) : i = k
        /\ c.stage = "dispatched" /\ Own(c) = {} => job.pending /\ job.slot = s /\ job.client = c.client
        /\ \A k \in (1..Len(c.got)) \ Own(c) : \A t \in 1..Conns : conns[t].client # c.got[k]
    BY <2>1 DEF ConnOK
  <2> QED  BY <2>2, <2>3
<1> QED  BY <1>1, RestInvHolds, PTL

\* A request runs at most once, and no two requests that ran carry the same session and sequence
\* number, whatever sessions come and go: rest_handle_request takes a number only when the session
\* has seen none as high, and ids are never given again.
THEOREM RequestsHold == RestSpec => []RequestsOnce
<1>1. RestInv => RequestsOnce
  BY DEF RestInv, ExecOK, SignedOK, RequestsOnce
<1> QED  BY <1>1, RestInvHolds, PTL

-----------------------------------------------------------------------------
(* The card worker: the inductive invariant *)

Lines == {"none", "error", "cbor", "msg", "init", "lock", "unlock", "ping"}
BufRecs    == [req : Nat, whole : BOOLEAN]
ReplyRecs  == [req : Nat, whole : BOOLEAN, verdict : {"none", "cancelled", "timeout", "done"}]
TxRecs     == [cid : Cids \cup {NoCid}, cmd : Lines, reply : ReplyRecs, left : Int]
MsgRecs    == [cid : Cids \cup {NoCid}, cmd : Lines, left : Nat, seq : Nat, fresh : BOOLEAN, armed : BOOLEAN,
               rx : Cids \cup {NoCid}, from : SUBSET (Cids \cup {NoCid})]
WorkerRecs == [func : {"none", "cbor", "apdu"}, pc : {"off", "idle", "run", "wait"}, req : Nat,
               press : {"none"} \cup ButtonEvents]
AskRecs    == [itf : {"hid", "ccid"}, cid : Cids \cup {NoCid}, kind : RequestKinds, from : SUBSET (Cids \cup {NoCid})]
Tasks      == [itf : {"hid", "ccid"}, func : {"cbor", "apdu"}]

TransportTypes ==
  /\ worker \in [1..Workers -> WorkerRecs] /\ msg \in MsgRecs /\ lock \in Cids \cup {NoCid}
  /\ cborBuf \in BufRecs /\ apduBuf \in BufRecs /\ out \in ReplyRecs /\ tx \in TxRecs
  /\ pend \in {"none", "keep", "data", "other"}
  /\ asked \in Seq(AskRecs) /\ busy \in BOOLEAN /\ waiting \in BOOLEAN /\ cancel \in BOOLEAN

\* Where the hand-over of a request stands, with the only task that is not over, if any, in place w.
Stands(w, pc) == worker[w].pc = pc /\ locked \in Tasks /\ worker[w].func = locked.func
Queues(c, u)  == toCard = c /\ toUsb = u
Working(w, pc) == core0 = Loop /\ busy /\ Stands(w, pc)

Resting(w) == /\ core0 = Loop /\ ~busy /\ Queues(<<>>, <<>>) /\ ~waiting
              /\ (worker[w].pc = "off" /\ locked = NoLock) \/ Stands(w, "idle")
Called(w)  == Working(w, "idle") /\ Queues(<<"cmd">>, <<>>) /\ ~waiting
Running(w) == Working(w, "run") /\ toCard = <<>> /\ toUsb \in {<<>>, <<"ack">>} /\ ~waiting
Asking(w)  == Working(w, "wait") /\ toCard = <<>> /\ toUsb \in {<<"press">>, <<"ack", "press">>} /\ ~waiting
Polled(w)  == Working(w, "wait") /\ Queues(<<>>, <<>>) /\ waiting
Decided(w) == Working(w, "wait") /\ (\E e \in ButtonEvents : toCard = <<e>>) /\ toUsb = <<>> /\ ~waiting
Done(w)    == Working(w, "idle") /\ toCard = <<>> /\ toUsb \in {<<"exec">>, <<"ack", "exec">>} /\ ~waiting
Leaving    == (core0.then = "start" /\ busy /\ [itf |-> core0.itf, func |-> core0.func] \in Tasks) \/ (core0.then = "init" /\ ~busy)
Exiting(w) == Leaving /\ Stands(w, "idle") /\ Queues(<<"exit">>, <<>>) /\ ~waiting
Ended(w)   == Leaving /\ worker[w].pc = "off" /\ Queues(<<>>, <<"ack">>) /\ ~waiting

Alone(w) == \A v \in 1..Workers : v # w => worker[v].pc = "off"
PhaseOK ==
  \E w \in 1..Workers :
    /\ Alone(w)
    /\ \/ Resting(w) \/ Called(w) \/ Running(w) \/ Asking(w) \/ Polled(w) \/ Decided(w) \/ Done(w)
       \/ Exiting(w) \/ Ended(w)

\* What is known of the request a that is worked on, number n: which task it goes to, where its reply
\* will go, where its bytes are, and who has cancelled it when something says so.
Func(kind) == IF kind = "cbor" THEN "cbor" ELSE "apdu"
Scoped(a, n, stops, v) == a.kind = "cbor" /\ v = "cancelled" => n \in stops
Handed(a, c, t) ==
  /\ c = Loop => t = [itf |-> a.itf, func |-> Func(a.kind)]
  /\ c # Loop => c.itf = a.itf /\ c.func = Func(a.kind)
Back(a, m) == a.itf = "hid" => m.cid = a.cid /\ m.cmd = a.kind
Held(a, n, stops, cb, ab, cn) ==
  /\ a.kind = "cbor" => cb = Buf(n) /\ (cn => n \in stops)
  /\ a.kind = "msg" => ab.req = n
Worked(a, n, stops, ws) ==
  \A w \in 1..Workers : ws[w].pc \in {"run", "wait"} => ws[w].req = n /\ Scoped(a, n, stops, ws[w].press)
Told(a, n, stops, c) == \A e \in ButtonEvents : c = <<e>> => Scoped(a, n, stops, e)
Executed(u) == u \in {<<"exec">>, <<"ack", "exec">>}
Produced(a, n, stops, u, o) == Executed(u) => o.req = n /\ Scoped(a, n, stops, o.verdict)

Newest == asked[Len(asked)]
CurrentOK ==
  busy =>
    /\ Len(asked) # 0
    /\ Handed(Newest, core0, locked) /\ Back(Newest, msg)
    /\ Held(Newest, Len(asked), stopped, cborBuf, apduBuf, cancel)
    /\ Worked(Newest, Len(asked), stopped, worker)
    /\ Told(Newest, Len(asked), stopped, toCard)
    /\ Produced(Newest, Len(asked), stopped, toUsb, out)

\* A reply, whole or not, that is or was addressed to cid under cmd.
Addressed(reqs, stops, cid, cmd, reply) ==
  /\ reply.req \in 1..Len(reqs)
  /\ cid = reqs[reply.req].cid /\ cmd = reqs[reply.req].kind
  /\ cmd = "cbor" /\ reply.verdict = "cancelled" => reply.req \in stops
RepliesOK ==
  /\ tx.reply.req # None => Addressed(asked, stopped, tx.cid, tx.cmd, tx.reply)
  /\ \A g \in got : Addressed(asked, stopped, g.cid, g.cmd, g.reply)

MessagesOK ==
  /\ \A r \in 1..Last : asked[r].from = {asked[r].cid} /\ (asked[r].itf = "ccid" => asked[r].cid = NoCid /\ asked[r].kind = "msg")
  /\ msg.left > 0 => msg.from = {msg.cid} /\ msg.cmd \in RequestKinds

TransportInv == TransportTypes /\ PhaseOK /\ CurrentOK /\ RepliesOK /\ MessagesOK

-----------------------------------------------------------------------------
(* Phases *)

work == <<toCard, toUsb, busy, locked, worker, core0, waiting>>

LEMMA QueueFacts ==
  /\ \A x : Append(<<>>, x) = <<x>> /\ <<x>> # <<>> /\ Head(<<x>>) = x /\ Tail(<<x>>) = <<>>
  /\ \A x, y : Append(<<x>>, y) = <<x, y>> /\ <<x, y>> # <<>> /\ Head(<<x, y>>) = x /\ Tail(<<x, y>>) = <<y>>
  /\ \A x, y : <<x>> = <<y>> => x = y
  /\ \A x, y, z : <<x, y>> # <<z>>
  /\ \A x, y, u, v : <<x, y>> = <<u, v>> => x = u /\ y = v
<1>1. \A x : Append(<<>>, x) = <<x>> /\ <<x>> # <<>> /\ Head(<<x>>) = x /\ Tail(<<x>>) = <<>>
  OBVIOUS
<1>2. \A x, y : Append(<<x>>, y) = <<x, y>> /\ <<x, y>> # <<>> /\ Head(<<x, y>>) = x /\ Tail(<<x, y>>) = <<y>>
  <2>1. \A x, y : <<x, y>> # <<>> /\ Head(<<x, y>>) = x
    OBVIOUS
  <2>2. ASSUME NEW x, NEW y
        PROVE  Append(<<x>>, y) = <<x, y>>
    <3> DEFINE s == Append(<<x>>, y)
               t == <<x, y>>
    <3>1. <<x>> \in Seq({x, y}) /\ Len(<<x>>) = 1 /\ <<x>>[1] = x
      OBVIOUS
    <3>2. s \in Seq({x, y}) /\ Len(s) = 2 /\ s[1] = x /\ s[2] = y
      BY <3>1
    <3>3. t \in Seq({x, y}) /\ Len(t) = 2 /\ t[1] = x /\ t[2] = y
      OBVIOUS
    <3> HIDE DEF s, t
    <3>4. \A i \in 1..Len(s) : s[i] = t[i]
      BY <3>2, <3>3
    <3>5. s = t
      BY <3>2, <3>3, <3>4, SeqEqual
    <3> QED  BY <3>5 DEF s, t
  <2>3. \A x, y : Tail(<<x, y>>) = <<y>>
    OBVIOUS
  <2> QED  BY <2>1, <2>2, <2>3
<1>3. \A x, y : <<x>> = <<y>> => x = y
  OBVIOUS
<1>4. \A x, y, z : <<x, y>> # <<z>>
  <2>1. \A x, y, z : Len(<<x, y>>) = 2 /\ Len(<<z>>) = 1
    OBVIOUS
  <2> QED  BY <2>1
<1>5. \A x, y, u, v : <<x, y>> = <<u, v>> => x = u /\ y = v
  OBVIOUS
<1> QED  BY <1>1, <1>2, <1>3, <1>4, <1>5

LEMMA EventFacts ==
  /\ Head(<<"ack">>) = "ack" /\ Tail(<<"ack">>) = <<>> /\ Head(<<"exec">>) = "exec" /\ Tail(<<"exec">>) = <<>>
  /\ Head(<<"press">>) = "press" /\ Tail(<<"press">>) = <<>>
  /\ Head(<<"ack", "exec">>) = "ack" /\ Tail(<<"ack", "exec">>) = <<"exec">>
  /\ Head(<<"ack", "press">>) = "ack" /\ Tail(<<"ack", "press">>) = <<"press">>
  /\ \A u \in {<<>>, <<"ack">>, <<"press">>, <<"ack", "press">>} : u # <<"exec">> /\ u # <<"ack", "exec">>
<1>1. /\ Head(<<"ack", "exec">>) = "ack" /\ Tail(<<"ack", "exec">>) = <<"exec">>
      /\ Head(<<"ack", "press">>) = "ack" /\ Tail(<<"ack", "press">>) = <<"press">>
  BY QueueFacts
<1>2. /\ Head(<<"ack">>) = "ack" /\ Tail(<<"ack">>) = <<>> /\ Head(<<"exec">>) = "exec" /\ Tail(<<"exec">>) = <<>>
      /\ Head(<<"press">>) = "press" /\ Tail(<<"press">>) = <<>>
  BY QueueFacts
<1>3. <<>> # <<"exec">> /\ <<"ack">> # <<"exec">> /\ <<"press">> # <<"exec">> /\ <<"ack", "press">> # <<"exec">>
  BY QueueFacts
<1>4. /\ <<>> # <<"ack", "exec">> /\ <<"ack">> # <<"ack", "exec">> /\ <<"press">> # <<"ack", "exec">>
      /\ <<"ack", "press">> # <<"ack", "exec">>
  BY QueueFacts
<1> QED  BY <1>1, <1>2, <1>3, <1>4

LEMMA LoopFacts == Loop.then = "loop" /\ Off.pc = "off" /\ Off \in WorkerRecs /\ NoLock \notin Tasks
<1>1. Loop.then = "loop" /\ Off.pc = "off"
  BY DEF Loop, Off
<1>2. Off \in WorkerRecs
  BY DEF Off, WorkerRecs, None
<1>3. NoLock.itf = "none" /\ \A t \in Tasks : t.itf # "none"
  BY DEF NoLock, Tasks
<1> QED  BY <1>1, <1>2, <1>3

\* A host that waits its turn finds nothing under way.
LEMMA QuietFacts ==
  ASSUME Overlap = FALSE, PhaseOK, MaySend
  PROVE  core0 = Loop /\ ~busy /\ \E w \in 1..Workers : Alone(w) /\ Resting(w)
<1>1. core0 = Loop /\ ~busy
  BY DEF MaySend, Quiet
<1>2. ~Leaving
  BY <1>1, LoopFacts DEF Leaving
<1> QED  BY <1>1, <1>2 DEF PhaseOK, Called, Running, Asking, Polled, Decided, Done, Exiting, Ended, Working

LEMMA PhaseSame ==
  ASSUME PhaseOK, UNCHANGED work
  PROVE  PhaseOK'
BY DEF work, PhaseOK, Alone, Resting, Called, Running, Asking, Polled, Decided, Done, Exiting, Ended, Working, Stands, Queues, Leaving,
       Loop, NoLock, Tasks, ButtonEvents

\* card_start launches a task where none is left.
LEMMA LaunchFacts ==
  ASSUME TransportAssumption, worker \in [1..Workers -> WorkerRecs], \A v \in 1..Workers : worker[v].pc = "off",
         NEW itf, NEW func, [itf |-> itf, func |-> func] \in Tasks, Launch(itf, func)
  PROVE  /\ worker' \in [1..Workers -> WorkerRecs] /\ locked' = [itf |-> itf, func |-> func]
         /\ \E x \in 1..Workers : Alone(x)' /\ Stands(x, "idle")'
<1> DEFINE free == {w \in 1..Workers : worker[w].pc = "off"}
           r == [Off EXCEPT !.func = func, !.pc = "idle"]
<1>1. locked' = [itf |-> itf, func |-> func]
  BY DEF Launch
<1>2. PICK x \in free : worker' = [worker EXCEPT ![x] = r]
  BY DEF Launch
<1>3. func \in {"cbor", "apdu"}
  BY DEF Tasks
<1>4. r \in WorkerRecs /\ r.pc = "idle" /\ r.func = func
  BY <1>3 DEF Off, WorkerRecs, None
<1>5. x \in 1..Workers
  BY <1>2
<1> HIDE DEF r, free
<1>6. worker' \in [1..Workers -> WorkerRecs] /\ \A v \in 1..Workers : worker'[v] = IF v = x THEN r ELSE worker[v]
  BY <1>2, <1>4, <1>5
<1>7. Alone(x)'
  BY <1>6 DEF Alone
<1>8. Stands(x, "idle")'
  BY <1>1, <1>4, <1>5, <1>6 DEF Stands, Tasks
<1> QED  BY <1>1, <1>5, <1>6, <1>7, <1>8

\* What Start leaves, for a task that begins or one that is to end first.
Announced(itf, func) ==
  /\ PhaseOK' /\ busy' /\ worker' \in [1..Workers -> WorkerRecs]
  /\ core0' = Loop => locked' = [itf |-> itf, func |-> func]
  /\ core0' # Loop => core0'.itf = itf /\ core0'.func = func
  /\ \A w \in 1..Workers : worker'[w].pc \notin {"run", "wait"}
  /\ \A e \in ButtonEvents : toCard' # <<e>>
  /\ toUsb' \notin {<<"exec">>, <<"ack", "exec">>}

LEMMA NotButton == \A e \in ButtonEvents : <<"cmd">> # <<e>> /\ <<"exit">> # <<e>>
<1>1. \A e \in ButtonEvents : e # "cmd" /\ e # "exit"
  BY DEF ButtonEvents
<1> QED  BY <1>1, QueueFacts

LEMMA StartFacts ==
  ASSUME TransportAssumption, worker \in [1..Workers -> WorkerRecs], NEW w \in 1..Workers, Alone(w), Resting(w),
         NEW itf, NEW func, [itf |-> itf, func |-> func] \in Tasks, Start(itf, func), UNCHANGED <<toUsb, waiting>>
  PROVE  Announced(itf, func)
<1> DEFINE task == [itf |-> itf, func |-> func]
<1>1. busy' /\ toUsb' = <<>> /\ ~waiting' /\ toCard = <<>> /\ core0 = Loop
  BY DEF Start, Resting, Queues
<1>2. toUsb' \notin {<<"exec">>, <<"ack", "exec">>}
  BY <1>1, QueueFacts
<1>3. (toCard' = <<"cmd">> \/ toCard' = <<"exit">>) => \A e \in ButtonEvents : toCard' # <<e>>
  BY NotButton
<1>4. CASE locked = task
  <2>1. Stands(w, "idle")
    BY <1>4, LoopFacts DEF Resting
  <2>2. toCard' = <<"cmd">> /\ UNCHANGED <<worker, locked, core0>>
    BY <1>1, <1>4, QueueFacts, LoopFacts DEF Start
  <2>3. Called(w)' /\ Alone(w)'
    BY <1>1, <2>1, <2>2 DEF Called, Working, Stands, Queues, Alone, Loop, Tasks
  <2>4. \A v \in 1..Workers : worker'[v].pc \notin {"run", "wait"}
    BY <2>1, <2>2 DEF Stands, Alone
  <2> QED  BY <1>1, <1>2, <1>3, <1>4, <2>2, <2>3, <2>4 DEF Announced, PhaseOK
<1>5. CASE locked = NoLock
  <2>1. worker[w].pc = "off"
    BY <1>5, LoopFacts DEF Resting, Stands
  <2>2. \A v \in 1..Workers : worker[v].pc = "off"
    BY <2>1 DEF Alone
  <2>3. Launch(itf, func) /\ toCard' = <<"cmd">> /\ UNCHANGED core0
    BY <1>1, <1>5, QueueFacts, LoopFacts DEF Start
  <2>4. PICK x \in 1..Workers : Alone(x)' /\ Stands(x, "idle")'
    BY <2>2, <2>3, LaunchFacts
  <2>5. worker' \in [1..Workers -> WorkerRecs] /\ locked' = task
    BY <2>2, <2>3, LaunchFacts
  <2>6. Called(x)'
    BY <1>1, <2>3, <2>4 DEF Called, Working, Queues, Loop
  <2>7. \A v \in 1..Workers : worker'[v].pc \notin {"run", "wait"}
    BY <2>4 DEF Stands, Alone
  <2> QED  BY <1>1, <1>2, <1>3, <2>3, <2>4, <2>5, <2>6, <2>7 DEF Announced, PhaseOK
<1>6. CASE locked \notin {NoLock, task}
  <2>1. Stands(w, "idle")
    BY <1>6 DEF Resting
  <2>2. toCard' = <<"exit">> /\ core0' = [then |-> "start", itf |-> itf, func |-> func] /\ UNCHANGED <<worker, locked>>
    BY <1>1, <1>6, QueueFacts DEF Start
  <2>3. Leaving'
    BY <1>1, <2>2 DEF Leaving, Tasks
  <2>4. Exiting(w)' /\ Alone(w)'
    BY <1>1, <2>1, <2>2, <2>3 DEF Exiting, Stands, Queues, Alone, Tasks
  <2>5. core0'.itf = itf /\ core0'.func = func /\ core0' # Loop
    BY <2>2, LoopFacts
  <2>6. \A v \in 1..Workers : worker'[v].pc \notin {"run", "wait"}
    BY <2>1, <2>2 DEF Stands, Alone
  <2> QED  BY <1>1, <1>2, <1>3, <2>2, <2>4, <2>5, <2>6 DEF Announced, PhaseOK
<1> QED  BY <1>4, <1>5, <1>6

-----------------------------------------------------------------------------
(* Replies and messages *)

LEMMA RecordFacts ==
  /\ NoReply \in ReplyRecs /\ NoReply.req = None /\ NoTx \in TxRecs /\ NoTx.reply.req = None
  /\ \A c \in Cids \cup {NoCid} : Error(c) \in TxRecs /\ Error(c).reply.req = None
  /\ NoMsg \in MsgRecs /\ NoMsg.left = 0
  /\ \A b \in BufRecs : Trampled(b) \in BufRecs /\ Trampled(b).req = b.req
  /\ \A r \in Nat : Buf(r) \in BufRecs /\ Buf(r).req = r
<1>1. NoReply \in ReplyRecs /\ NoReply.req = None
  BY DEF NoReply, ReplyRecs, None
<1>2. NoTx \in TxRecs /\ NoTx.reply = NoReply
  BY <1>1 DEF NoTx, TxRecs, Lines
<1>3. ASSUME NEW c \in Cids \cup {NoCid}
      PROVE  Error(c) \in TxRecs /\ Error(c).reply = NoReply
  <2>1. ASSUME NEW cmd \in Lines, NEW left \in Int
        PROVE  LET e == [NoTx EXCEPT !.cid = c, !.cmd = cmd, !.left = left] IN e \in TxRecs /\ e.reply = NoReply
    BY <1>2 DEF TxRecs
  <2>2. "error" \in Lines /\ 1 \in Int
    BY DEF Lines
  <2> QED  BY <2>1, <2>2 DEF Error
<1>4. NoMsg \in MsgRecs /\ NoMsg.left = 0
  BY DEF NoMsg, MsgRecs, Lines
<1>5. \A b \in BufRecs : Trampled(b) \in BufRecs /\ Trampled(b).req = b.req
  BY DEF Trampled, BufRecs
<1>6. \A r \in Nat : Buf(r) \in BufRecs /\ Buf(r).req = r
  BY DEF Buf, BufRecs
<1> QED  BY <1>1, <1>2, <1>3, <1>4, <1>5, <1>6

LEMMA ClearedFacts ==
  ASSUME NEW r \in ReplyRecs
  PROVE  Cleared(r) \in ReplyRecs /\ Cleared(r).req = r.req /\ Cleared(r).verdict = r.verdict
<1> DEFINE b == r.req = None
<1>1. b \in BOOLEAN /\ Cleared(r) = [r EXCEPT !.whole = b]
  BY DEF Cleared
<1> HIDE DEF b
<1> QED  BY <1>1 DEF ReplyRecs

\* How the requests, the reply under way and the replies received may change.
Follows(cid, cmd, reply) ==
  tx.reply.req # None /\ cid = tx.cid /\ cmd = tx.cmd /\ reply.req = tx.reply.req /\ reply.verdict = tx.reply.verdict
AskedGrows  == Len(asked) <= Len(asked') /\ (\A r \in 1..Len(asked) : asked'[r] = asked[r]) /\ stopped \subseteq stopped'
TxFollows   == tx'.reply.req # None => Follows(tx'.cid, tx'.cmd, tx'.reply) \/ Addressed(asked', stopped', tx'.cid, tx'.cmd, tx'.reply)
GotFollows  == \A g \in got' : g \in got \/ Follows(g.cid, g.cmd, g.reply) \/ Addressed(asked', stopped', g.cid, g.cmd, g.reply)

LEMMA RepliesKept ==
  ASSUME asked \in Seq(AskRecs), asked' \in Seq(AskRecs), RepliesOK, AskedGrows, TxFollows, GotFollows
  PROVE  RepliesOK'
<1>1. Len(asked) \in Nat /\ Len(asked') \in Nat
  OBVIOUS
<1>2. \A cid, cmd, reply : Addressed(asked, stopped, cid, cmd, reply) => Addressed(asked', stopped', cid, cmd, reply)
  BY <1>1 DEF Addressed, AskedGrows
<1>3. \A cid, cmd, reply : Follows(cid, cmd, reply) => Addressed(asked, stopped, cid, cmd, reply)
  BY DEF Follows, Addressed, RepliesOK
<1>4. tx'.reply.req # None => Addressed(asked', stopped', tx'.cid, tx'.cmd, tx'.reply)
  BY <1>2, <1>3 DEF TxFollows
<1>5. \A g \in got' : Addressed(asked', stopped', g.cid, g.cmd, g.reply)
  BY <1>2, <1>3 DEF GotFollows, RepliesOK
<1> QED  BY <1>4, <1>5 DEF RepliesOK, None

LEMMA ReplacedFacts ==
  ASSUME Replaced
  PROVE  GotFollows
<1>1. \A g \in got' : g \in got \/ (tx.reply.req # None /\ g = [cid |-> tx.cid, cmd |-> tx.cmd, reply |-> tx.reply])
  BY DEF Replaced
<1> QED  BY <1>1 DEF GotFollows, Follows

AskedSame == UNCHANGED asked /\ stopped \subseteq stopped'

\* The request that is worked on, while the hand-over stands.
CurrentFollows ==
  busy => /\ msg'.cid = msg.cid /\ msg'.cmd = msg.cmd /\ UNCHANGED cborBuf /\ apduBuf'.req = apduBuf.req
          /\ out'.req = out.req /\ out'.verdict = out.verdict
          /\ Newest.kind = "cbor" => (cancel' => cancel \/ Len(asked) \in stopped')

LEMMA CurrentSame ==
  ASSUME CurrentOK, UNCHANGED work, AskedSame, CurrentFollows
  PROVE  CurrentOK'
<1> DEFINE a == Newest
           n == Len(asked)
<1>1. UNCHANGED <<busy, core0, locked, worker, toCard, toUsb, asked>> /\ Newest' = a /\ Len(asked)' = n /\ stopped \subseteq stopped'
  BY DEF work, AskedSame, Newest
<1> SUFFICES ASSUME busy PROVE CurrentOK'
  BY <1>1 DEF CurrentOK
<1>2. /\ n # 0 /\ Handed(a, core0, locked) /\ Back(a, msg) /\ Held(a, n, stopped, cborBuf, apduBuf, cancel)
      /\ Worked(a, n, stopped, worker) /\ Told(a, n, stopped, toCard) /\ Produced(a, n, stopped, toUsb, out)
  BY DEF CurrentOK
<1>3. /\ msg'.cid = msg.cid /\ msg'.cmd = msg.cmd /\ cborBuf' = cborBuf /\ apduBuf'.req = apduBuf.req
      /\ out'.req = out.req /\ out'.verdict = out.verdict
      /\ a.kind = "cbor" => (cancel' => cancel \/ n \in stopped')
  BY DEF CurrentFollows
<1> HIDE DEF a, n
<1>4. \A v : Scoped(a, n, stopped, v) => Scoped(a, n, stopped', v)
  BY <1>1 DEF Scoped
<1>5. Back(a, msg')
  BY <1>2, <1>3 DEF Back
<1>6. Held(a, n, stopped', cborBuf', apduBuf', cancel')
  BY <1>1, <1>2, <1>3 DEF Held
<1>7. Worked(a, n, stopped', worker)
  BY <1>2, <1>4 DEF Worked
<1>8. Told(a, n, stopped', toCard)
  BY <1>2, <1>4 DEF Told
<1>9. Produced(a, n, stopped', toUsb, out')
  BY <1>2, <1>3, <1>4 DEF Produced
<1> QED  BY <1>1, <1>2, <1>5, <1>6, <1>7, <1>8, <1>9 DEF CurrentOK

MsgFollows ==
  msg'.left > 0 => \/ msg.left > 0 /\ msg'.from = msg.from /\ msg'.cid = msg.cid /\ msg'.cmd = msg.cmd
                   \/ msg'.from = {msg'.cid} /\ msg'.cmd \in RequestKinds

\* A step beside the hand-over.
LEMMA SideStep ==
  ASSUME TransportInv, UNCHANGED work, AskedSame, CurrentFollows, TxFollows, GotFollows, MsgFollows, TransportTypes'
  PROVE  TransportInv'
<1>1. PhaseOK'
  BY PhaseSame DEF TransportInv
<1>2. CurrentOK'
  BY CurrentSame DEF TransportInv
<1>3. RepliesOK'
  <2>1. asked \in Seq(AskRecs) /\ asked' \in Seq(AskRecs) /\ RepliesOK
    BY DEF TransportInv, TransportTypes
  <2>2. AskedGrows
    BY <2>1 DEF AskedSame, AskedGrows
  <2> QED  BY <2>1, <2>2, RepliesKept
<1>4. MessagesOK'
  <2>1. MessagesOK /\ UNCHANGED asked
    BY DEF TransportInv, AskedSame
  <2> QED  BY <2>1 DEF MessagesOK, MsgFollows, RequestKinds, Last
<1> QED  BY <1>1, <1>2, <1>3, <1>4 DEF TransportInv

\* ctap_error, and a frame that is only added to the message.
LEMMA RejectedKept ==
  ASSUME TransportInv, NEW cid \in Cids \cup {NoCid}, driver_init_hid, Rejected(cid), UNCHANGED <<toUsb, waiting, stopped>>
  PROVE  TransportInv'
<1>1. TransportTypes
  BY DEF TransportInv
<1>2. UNCHANGED <<toCard, busy, locked, worker, core0, cancel, lock, cborBuf, asked>> /\ tx' = Error(cid) /\ pend' = Still
      /\ msg' = [msg EXCEPT !.armed = FALSE, !.rx = cid] /\ apduBuf' = Trampled(apduBuf) /\ out' = Cleared(out) /\ Replaced
  BY DEF Rejected, driver_init_hid, card
<1>3. msg' \in MsgRecs /\ msg'.cid = msg.cid /\ msg'.cmd = msg.cmd /\ msg'.left = msg.left /\ msg'.from = msg.from
  BY <1>1, <1>2 DEF TransportTypes, MsgRecs
<1>4. tx' \in TxRecs /\ tx'.reply.req = None
  BY <1>2, RecordFacts
<1>5. apduBuf' \in BufRecs /\ apduBuf'.req = apduBuf.req
  BY <1>1, <1>2, RecordFacts DEF TransportTypes
<1>6. out' \in ReplyRecs /\ out'.req = out.req /\ out'.verdict = out.verdict
  BY <1>1, <1>2, ClearedFacts DEF TransportTypes
<1>7. TransportTypes'
  BY <1>1, <1>2, <1>3, <1>4, <1>5, <1>6 DEF TransportTypes, Still
<1>8. GotFollows
  BY <1>2, ReplacedFacts
<1>9. UNCHANGED work /\ AskedSame /\ CurrentFollows /\ TxFollows /\ MsgFollows
  BY <1>2, <1>3, <1>4, <1>5, <1>6 DEF work, AskedSame, CurrentFollows, TxFollows, MsgFollows
<1> QED  BY <1>7, <1>8, <1>9, SideStep

LEMMA CollectedKept ==
  ASSUME TransportInv, ~busy, driver_init_hid, NEW m \in MsgRecs, Collected(m), UNCHANGED <<toUsb, waiting, stopped>>,
         m.left > 0 => \/ msg.left > 0 /\ m.from = msg.from /\ m.cid = msg.cid /\ m.cmd = msg.cmd
                       \/ m.from = {m.cid} /\ m.cmd \in RequestKinds
  PROVE  TransportInv'
<1>1. TransportTypes
  BY DEF TransportInv
<1>2. UNCHANGED <<toCard, busy, locked, worker, core0, cancel, lock, cborBuf, asked>> /\ tx' = NoTx /\ pend' = Still
      /\ msg' = m /\ apduBuf' = Trampled(apduBuf) /\ out' = Cleared(out) /\ Replaced
  BY DEF Collected, driver_init_hid, card
<1>3. tx' \in TxRecs /\ tx'.reply.req = None
  BY <1>2, RecordFacts
<1>4. apduBuf' \in BufRecs
  BY <1>1, <1>2, RecordFacts DEF TransportTypes
<1>5. out' \in ReplyRecs
  BY <1>1, <1>2, ClearedFacts DEF TransportTypes
<1>6. TransportTypes'
  BY <1>1, <1>2, <1>3, <1>4, <1>5 DEF TransportTypes, Still
<1>7. GotFollows
  BY <1>2, ReplacedFacts
<1>8. UNCHANGED work /\ AskedSame /\ CurrentFollows /\ TxFollows /\ MsgFollows
  BY <1>2, <1>3 DEF work, AskedSame, CurrentFollows, TxFollows, MsgFollows
<1> QED  BY <1>6, <1>7, <1>8, SideStep

\* A cancel marks the request of its own channel, and moves nothing else that matters.
LEMMA CancelFrameKept ==
  ASSUME TransportInv, NEW cid \in Cids, CancelFrame(cid)
  PROVE  TransportInv'
<1> DEFINE b == ~Foreign(cid)
<1>1. TransportTypes /\ CurrentOK /\ MessagesOK
  BY DEF TransportInv
<1>2. UNCHANGED <<toCard, toUsb, busy, locked, worker, core0, waiting, lock, asked, cborBuf>> /\ pend' = Still
      /\ msg' = [msg EXCEPT !.armed = b, !.rx = cid] /\ apduBuf' = Trampled(apduBuf) /\ out' = Cleared(out) /\ Replaced
  BY DEF CancelFrame, driver_init_hid, queues, card, Noted, Overwrites
<1>3. /\ tx' = Error(cid) \/ tx' = NoTx
      /\ cancel' = cancel \/ cancel' = (cancel \/ Cancels(cid))
      /\ stopped \subseteq stopped'
  BY DEF CancelFrame
<1>4. b \in BOOLEAN
  OBVIOUS
<1> HIDE DEF b
<1>5. msg' \in MsgRecs /\ msg'.cid = msg.cid /\ msg'.cmd = msg.cmd /\ msg'.left = msg.left /\ msg'.from = msg.from
  BY <1>1, <1>2, <1>4 DEF TransportTypes, MsgRecs
<1>6. tx' \in TxRecs /\ tx'.reply.req = None
  BY <1>3, RecordFacts
<1>7. apduBuf' \in BufRecs /\ apduBuf'.req = apduBuf.req
  BY <1>1, <1>2, RecordFacts DEF TransportTypes
<1>8. out' \in ReplyRecs /\ out'.req = out.req /\ out'.verdict = out.verdict
  BY <1>1, <1>2, ClearedFacts DEF TransportTypes
<1>9. cancel' \in BOOLEAN
  BY <1>1, <1>3 DEF TransportTypes, Cancels
<1>10. TransportTypes'
  BY <1>1, <1>2, <1>5, <1>6, <1>7, <1>8, <1>9 DEF TransportTypes, Still
<1>11. GotFollows
  BY <1>2, ReplacedFacts
<1>12. ASSUME busy, Newest.kind = "cbor", cancel', ~cancel
       PROVE  Len(asked) \in stopped'
  <2>1. Len(asked) \in Nat /\ Len(asked) # 0 /\ asked \in Seq(AskRecs)
    BY <1>1, <1>12 DEF CurrentOK, TransportTypes
  <2>2. Newest \in AskRecs
    BY <2>1 DEF Newest
  <2>3. Newest.itf \in {"hid", "ccid"} /\ (Newest.itf = "ccid" => Newest.kind = "msg")
    BY <1>1, <2>1, <2>2 DEF MessagesOK, Newest, Last, AskRecs
  <2>4. Back(Newest, msg)
    BY <1>1, <1>12 DEF CurrentOK
  <2>5. Newest.cid = msg.cid
    BY <1>12, <2>3, <2>4 DEF Back
  <2>6. Cancels(cid) /\ ~Foreign(cid)
    BY <1>12 DEF CancelFrame
  <2>7. asked[Last].cid = cid /\ Last > 0
    BY <2>1, <2>5, <2>6 DEF Cancels, Newest, Last
  <2>8. stopped' = stopped \cup {Last}
    BY <1>12, <2>6, <2>7 DEF CancelFrame
  <2> QED  BY <2>8 DEF Last
<1>13. UNCHANGED work /\ AskedSame /\ TxFollows /\ MsgFollows
  BY <1>2, <1>3, <1>5, <1>6 DEF work, AskedSame, TxFollows, MsgFollows
<1>14. CurrentFollows
  BY <1>2, <1>5, <1>7, <1>8, <1>12 DEF CurrentFollows
<1> QED  BY <1>10, <1>11, <1>13, <1>14, SideStep

\* A first frame that is answered on the spot, or with an error.
Warned(cid) == msg' = [msg EXCEPT !.armed = FALSE, !.rx = cid]
Replied(cid, cmd) ==
  /\ driver_init_hid /\ apduBuf' = Trampled(apduBuf)
  /\ tx' = Error(cid) \/ tx' = NoTx
  /\ pend' = Still \/ WriteNow
  /\ Warned(cid) \/ msg' = [NoMsg EXCEPT !.cid = cid, !.cmd = cmd, !.rx = cid]
  /\ UNCHANGED <<cborBuf, asked, cancel, stopped>>

LEMMA RepliedFacts ==
  ASSUME TransportInv, ~busy, NEW cid \in Cids \cup {NoCid}, NEW cmd \in Lines, Replied(cid, cmd)
  PROVE  /\ msg' \in MsgRecs /\ tx' \in TxRecs /\ apduBuf' \in BufRecs /\ out' \in ReplyRecs
         /\ pend' \in {"none", "keep", "data", "other"}
         /\ AskedSame /\ CurrentFollows /\ TxFollows /\ GotFollows /\ MsgFollows
<1>1. TransportTypes
  BY DEF TransportInv
<1>2. tx' \in TxRecs /\ tx'.reply.req = None
  BY RecordFacts DEF Replied
<1>3. apduBuf' \in BufRecs /\ out' \in ReplyRecs
  BY <1>1, RecordFacts, ClearedFacts DEF Replied, driver_init_hid, TransportTypes
<1>4. pend' \in {"none", "keep", "data", "other"}
  BY <1>1 DEF Replied, Still, WriteNow, TransportTypes
<1>5. CASE Warned(cid)
  <2>1. msg' \in MsgRecs /\ msg'.cid = msg.cid /\ msg'.cmd = msg.cmd /\ msg'.left = msg.left /\ msg'.from = msg.from
    BY <1>1, <1>5 DEF Warned, TransportTypes, MsgRecs
  <2>2. MsgFollows
    BY <2>1 DEF MsgFollows
  <2>3. GotFollows
    BY ReplacedFacts DEF Replied, driver_init_hid
  <2> QED  BY <1>2, <1>3, <1>4, <2>1, <2>2, <2>3 DEF AskedSame, CurrentFollows, TxFollows, Replied
<1>6. CASE msg' = [NoMsg EXCEPT !.cid = cid, !.cmd = cmd, !.rx = cid]
  <2>1. msg' \in MsgRecs /\ msg'.left = NoMsg.left
    BY <1>6, RecordFacts DEF MsgRecs
  <2>2. MsgFollows
    BY <2>1, RecordFacts DEF MsgFollows
  <2>3. GotFollows
    BY ReplacedFacts DEF Replied, driver_init_hid
  <2> QED  BY <1>2, <1>3, <1>4, <2>1, <2>2, <2>3 DEF AskedSame, CurrentFollows, TxFollows, Replied
<1> QED  BY <1>5, <1>6 DEF Replied

LEMMA ShortKept ==
  ASSUME TransportInv, Overlap = FALSE, NEW cid \in Cids, NEW cmd \in {"lock", "unlock", "ping"}, ShortCommand(cid, cmd)
  PROVE  TransportInv'
<1>1. TransportTypes /\ PhaseOK /\ cmd \in Lines
  BY DEF TransportInv, Lines
<1>2. ~busy
  BY <1>1, QuietFacts DEF ShortCommand
<1>3. UNCHANGED <<toCard, toUsb, busy, locked, worker, core0, waiting, cancel, asked, cborBuf, stopped>>
  BY DEF ShortCommand, queues, card, button
<1>4. Replied(cid, cmd)
  BY <1>3 DEF ShortCommand, Replied, Warned
<1>5. lock' \in Cids \cup {NoCid}
  BY <1>1 DEF ShortCommand, TransportTypes
<1>6. /\ msg' \in MsgRecs /\ tx' \in TxRecs /\ apduBuf' \in BufRecs /\ out' \in ReplyRecs
      /\ pend' \in {"none", "keep", "data", "other"}
      /\ AskedSame /\ CurrentFollows /\ TxFollows /\ GotFollows /\ MsgFollows
  BY <1>1, <1>2, <1>4, RepliedFacts
<1>7. TransportTypes'
  BY <1>1, <1>3, <1>5, <1>6 DEF TransportTypes
<1>8. UNCHANGED work
  BY <1>3 DEF work
<1> QED  BY <1>6, <1>7, <1>8, SideStep

\* CTAPHID_INIT is answered at once, or once the worker has ended.
LEMMA InitChannelKept ==
  ASSUME TransportInv, Overlap = FALSE, NEW cid \in Cids \cup {NoCid}, InitChannel(cid)
  PROVE  TransportInv'
<1>1. TransportTypes /\ PhaseOK /\ "init" \in Lines
  BY DEF TransportInv, Lines
<1>2. ~busy /\ core0 = Loop /\ \E w \in 1..Workers : Alone(w) /\ Resting(w)
  BY <1>1, QuietFacts DEF InitChannel
<1>3. UNCHANGED <<toUsb, busy, locked, worker, waiting, cancel, lock, asked, cborBuf, stopped>>
  BY DEF InitChannel, button
<1>4. Replied(cid, "init")
  BY <1>3 DEF InitChannel, Replied, Warned
<1>5. /\ msg' \in MsgRecs /\ tx' \in TxRecs /\ apduBuf' \in BufRecs /\ out' \in ReplyRecs
      /\ pend' \in {"none", "keep", "data", "other"}
      /\ AskedSame /\ CurrentFollows /\ TxFollows /\ GotFollows /\ MsgFollows
  BY <1>1, <1>2, <1>4, RepliedFacts
<1>6. TransportTypes'
  BY <1>1, <1>3, <1>5 DEF TransportTypes
<1>7. CASE UNCHANGED <<toCard, core0>>
  <2>1. UNCHANGED work
    BY <1>3, <1>7 DEF work
  <2> QED  BY <1>5, <1>6, <2>1, SideStep
<1>8. CASE locked # NoLock /\ toCard' = Append(toCard, "exit") /\ core0' = [Loop EXCEPT !.then = "init"]
  <2>1. PICK w \in 1..Workers : Alone(w) /\ Resting(w)
    BY <1>2
  <2>2. toCard' = <<"exit">> /\ toUsb' = <<>> /\ ~waiting' /\ ~busy'
    BY <1>2, <1>3, <1>8, <2>1, QueueFacts DEF Resting, Queues
  <2>3. Leaving'
    BY <1>8, <2>2 DEF Leaving, Loop
  <2>4. Exiting(w)' /\ Alone(w)'
    BY <1>3, <1>8, <2>1, <2>2, <2>3 DEF Exiting, Resting, Stands, Queues, Alone, Tasks
  <2>5. PhaseOK' /\ CurrentOK'
    BY <2>2, <2>4 DEF PhaseOK, CurrentOK
  <2>6. RepliesOK'
    <3>1. asked \in Seq(AskRecs) /\ asked' \in Seq(AskRecs) /\ RepliesOK
      BY <1>1, <1>6 DEF TransportInv, TransportTypes
    <3>2. AskedGrows
      BY <1>5, <3>1 DEF AskedSame, AskedGrows
    <3> QED  BY <1>5, <3>1, <3>2, RepliesKept
  <2>7. MessagesOK'
    <3>1. MessagesOK /\ UNCHANGED asked
      BY <1>3 DEF TransportInv
    <3> QED  BY <1>5, <3>1 DEF MessagesOK, MsgFollows, RequestKinds, Last
  <2> QED  BY <1>6, <2>5, <2>6, <2>7 DEF TransportInv
<1> QED  BY <1>7, <1>8 DEF InitChannel

\* Time, and the frames of a reply.
LEMMA TimeKept ==
  ASSUME TransportInv, Ages \/ Unlocks \/ NoPacket \/ KeepAlive \/ SendFrame
  PROVE  TransportInv'
<1>1. TransportTypes
  BY DEF TransportInv
<1>2. UNCHANGED <<toCard, toUsb, busy, locked, worker, core0, waiting, cancel, asked, cborBuf, apduBuf, stopped>>
  BY DEF Ages, Unlocks, NoPacket, KeepAlive, SendFrame, queues, card, button, inputs, hosts
<1>3. UNCHANGED work /\ AskedSame
  BY <1>2 DEF work, AskedSame
<1>4. msg' \in MsgRecs /\ msg'.cid = msg.cid /\ msg'.cmd = msg.cmd /\ msg'.from = msg.from /\ (msg'.left = 0 \/ msg'.left = msg.left)
  <2>1. msg' = [msg EXCEPT !.fresh = FALSE] \/ msg' = [msg EXCEPT !.armed = FALSE, !.left = 0] \/ msg' = msg
    BY DEF Ages, Unlocks, NoPacket, KeepAlive, SendFrame, frame
  <2>2. CASE msg' = [msg EXCEPT !.fresh = FALSE]
    BY <1>1, <2>2 DEF TransportTypes, MsgRecs
  <2>3. CASE msg' = [msg EXCEPT !.armed = FALSE, !.left = 0]
    BY <1>1, <2>3 DEF TransportTypes, MsgRecs
  <2>4. CASE msg' = msg
    BY <1>1, <2>4 DEF TransportTypes
  <2> QED  BY <2>1, <2>2, <2>3, <2>4
<1>5. out' \in ReplyRecs /\ out'.req = out.req /\ out'.verdict = out.verdict
  <2>1. out' = out \/ out' = Cleared(out)
    BY DEF Ages, Unlocks, NoPacket, KeepAlive, SendFrame, line
  <2> QED  BY <1>1, <2>1, ClearedFacts DEF TransportTypes
<1>6. tx' \in TxRecs /\ TxFollows /\ GotFollows
  <2>1. CASE NoPacket
    <3>1. tx' = Error(msg.rx) /\ msg.rx \in Cids \cup {NoCid} /\ Replaced
      BY <1>1, <2>1 DEF NoPacket, TransportTypes, MsgRecs
    <3> QED  BY <3>1, RecordFacts, ReplacedFacts DEF TxFollows
  <2>2. CASE UNCHANGED <<tx, got>>
    BY <1>1, <2>2 DEF TransportTypes, TxFollows, GotFollows, Follows
  <2> QED  BY <2>1, <2>2 DEF Ages, Unlocks, KeepAlive, SendFrame, line, hosts
<1>7. pend' \in {"none", "keep", "data", "other"}
  BY <1>1 DEF Ages, Unlocks, NoPacket, KeepAlive, SendFrame, line, Still, TransportTypes
<1>8. lock' \in Cids \cup {NoCid}
  BY <1>1 DEF Ages, Unlocks, NoPacket, KeepAlive, SendFrame, frame, TransportTypes
<1>9. TransportTypes'
  BY <1>1, <1>2, <1>4, <1>5, <1>6, <1>7, <1>8 DEF TransportTypes
<1>10. CurrentFollows /\ MsgFollows
  BY <1>2, <1>4, <1>5 DEF CurrentFollows, MsgFollows
<1> QED  BY <1>3, <1>6, <1>9, <1>10, SideStep

-----------------------------------------------------------------------------
(* Requests *)

\* A complete request a: the bytes are kept, and the worker is told.
Takes(a) ==
  /\ asked' = Append(asked, a) /\ Start(a.itf, Func(a.kind)) /\ UNCHANGED <<toUsb, waiting, stopped>>
  /\ Back(a, msg') /\ Held(a, Len(asked) + 1, stopped, cborBuf', apduBuf', cancel')
  /\ msg' \in MsgRecs /\ cborBuf' \in BufRecs /\ apduBuf' \in BufRecs /\ out' \in ReplyRecs /\ tx' \in TxRecs
  /\ pend' \in {"none", "keep", "data", "other"} /\ lock' \in Cids \cup {NoCid} /\ cancel' \in BOOLEAN
  /\ TxFollows /\ GotFollows /\ MsgFollows
Proper(a) == a.from = {a.cid} /\ (a.itf = "ccid" => a.cid = NoCid /\ a.kind = "msg")

LEMMA TakesKept ==
  ASSUME TransportAssumption, TransportInv, NEW w \in 1..Workers, Alone(w), Resting(w), NEW a \in AskRecs, Proper(a), Takes(a)
  PROVE  TransportInv'
<1> DEFINE n == Len(asked) + 1
<1>1. TransportTypes /\ RepliesOK /\ MessagesOK
  BY DEF TransportInv
<1>2. asked \in Seq(AskRecs) /\ worker \in [1..Workers -> WorkerRecs] /\ waiting \in BOOLEAN
  BY <1>1 DEF TransportTypes
<1>3. /\ asked' \in Seq(AskRecs) /\ Len(asked') = n /\ asked'[n] = a /\ n # 0 /\ Len(asked) \in Nat
      /\ \A r \in 1..Len(asked) : asked'[r] = asked[r]
  BY <1>2 DEF Takes
<1>4. [itf |-> a.itf, func |-> Func(a.kind)] \in Tasks
  BY DEF AskRecs, Tasks, Func
<1>5. Announced(a.itf, Func(a.kind))
  BY <1>2, <1>4, StartFacts DEF Takes
<1>6. PhaseOK' /\ busy' /\ worker' \in [1..Workers -> WorkerRecs]
  BY <1>5 DEF Announced
<1>7. TransportTypes'
  BY <1>2, <1>3, <1>6 DEF TransportTypes, Takes
<1>8. Newest' = a /\ Len(asked)' = n
  BY <1>3 DEF Newest
<1> HIDE DEF n
<1>9. Handed(a, core0', locked')
  BY <1>5 DEF Handed, Announced
<1>10. Worked(a, n, stopped', worker') /\ Told(a, n, stopped', toCard') /\ Produced(a, n, stopped', toUsb', out')
  BY <1>5 DEF Worked, Told, Produced, Announced, Executed
<1>11. Back(a, msg') /\ Held(a, n, stopped', cborBuf', apduBuf', cancel')
  BY DEF Takes, n
<1>12. CurrentOK'
  BY <1>3, <1>6, <1>8, <1>9, <1>10, <1>11 DEF CurrentOK
<1>13. RepliesOK'
  <2>1. AskedGrows
    BY <1>3 DEF AskedGrows, Takes, n
  <2> QED  BY <1>1, <1>2, <1>3, <2>1, RepliesKept DEF Takes
<1>14. MessagesOK'
  <2>1. \A r \in 1..n : (r \in 1..Len(asked) \/ r = n)
    BY <1>3 DEF n
  <2>2. \A r \in 1..n : Proper(asked'[r])
    BY <1>1, <1>3, <2>1 DEF MessagesOK, Proper, Last
  <2>3. msg'.left > 0 => msg'.from = {msg'.cid} /\ msg'.cmd \in RequestKinds
    BY <1>1 DEF MessagesOK, MsgFollows, Takes
  <2> QED  BY <1>3, <2>2, <2>3 DEF MessagesOK, Proper, RequestKinds, Last
<1> QED  BY <1>6, <1>7, <1>12, <1>13, <1>14 DEF TransportInv

LEMMA AcceptedKept ==
  ASSUME TransportAssumption, TransportInv, NEW w \in 1..Workers, Alone(w), Resting(w), NEW cid \in Cids, NEW kind \in RequestKinds,
         NEW m \in MsgRecs, m.cid = cid, m.cmd = kind, m.from = {cid}, driver_init_hid, Accept(cid, kind, m), UNCHANGED <<toUsb, waiting, stopped>>
  PROVE  TransportInv'
<1> DEFINE a == [itf |-> "hid", cid |-> cid, kind |-> kind, from |-> {cid}]
           n == Len(asked) + 1
<1>1. TransportTypes /\ asked \in Seq(AskRecs) /\ Len(asked) \in Nat /\ n \in Nat
  BY DEF TransportInv, TransportTypes
<1>2. a \in AskRecs /\ a.itf = "hid" /\ a.cid = cid /\ a.kind = kind /\ a.from = {cid}
  BY DEF AskRecs, RequestKinds
<1>3. asked' = Append(asked, a) /\ Start(a.itf, Func(a.kind)) /\ tx' = NoTx /\ UNCHANGED lock
      /\ msg' = [m EXCEPT !.left = 0, !.armed = FALSE, !.fresh = FALSE]
      /\ out' = Cleared(out) /\ Replaced
  BY DEF Accept, Func, driver_init_hid
<1>4. kind = "cbor" => cborBuf' = Buf(n) /\ cancel' = FALSE /\ apduBuf' = Trampled(apduBuf)
  BY DEF Accept, cbor_process, Last
<1>5. kind = "msg" => apduBuf' = Buf(n) /\ UNCHANGED <<cborBuf, cancel>>
  BY DEF Accept, msg_process, Last
<1>6. pend' \in {"none", "keep", "data", "other"}
  BY <1>1 DEF Accept, Still, TransportTypes
<1>7. kind = "cbor" \/ kind = "msg"
  BY DEF RequestKinds
<1> HIDE DEF a, n
<1>8. cborBuf' \in BufRecs /\ apduBuf' \in BufRecs /\ cancel' \in BOOLEAN /\ Held(a, n, stopped, cborBuf', apduBuf', cancel')
  <2>1. CASE kind = "cbor"
    BY <1>1, <1>2, <1>4, <2>1, RecordFacts DEF Held, TransportTypes
  <2>2. CASE kind = "msg"
    BY <1>1, <1>2, <1>5, <2>2, RecordFacts DEF Held, TransportTypes
  <2> QED  BY <1>7, <2>1, <2>2
<1>9. msg' \in MsgRecs /\ msg'.cid = cid /\ msg'.cmd = kind /\ msg'.left = 0
  BY <1>3 DEF MsgRecs
<1>10. Back(a, msg') /\ MsgFollows
  BY <1>2, <1>9 DEF Back, MsgFollows
<1>11. tx' \in TxRecs /\ TxFollows
  BY <1>3, RecordFacts DEF TxFollows
<1>12. out' \in ReplyRecs /\ GotFollows
  BY <1>1, <1>3, ClearedFacts, ReplacedFacts DEF TransportTypes
<1>13. lock' \in Cids \cup {NoCid}
  BY <1>1, <1>3 DEF TransportTypes
<1>14. Takes(a)
  BY <1>3, <1>6, <1>8, <1>9, <1>10, <1>11, <1>12, <1>13 DEF Takes, n
<1>15. Proper(a)
  BY <1>2 DEF Proper
<1> QED  BY <1>2, <1>14, <1>15, TakesKept

LEMMA InitFrameKept ==
  ASSUME TransportAssumption, TransportInv, Overlap = FALSE, NEW cid \in Cids, NEW kind \in RequestKinds, NEW long \in BOOLEAN,
         InitFrame(cid, kind, long)
  PROVE  TransportInv'
<1> DEFINE m == [cid |-> cid, cmd |-> kind, left |-> IF long THEN Conts ELSE 0, seq |-> 0, fresh |-> TRUE,
                 armed |-> TRUE, rx |-> cid, from |-> {cid}]
<1>1. TransportTypes /\ PhaseOK
  BY DEF TransportInv
<1>2. ~busy /\ \E w \in 1..Workers : Alone(w) /\ Resting(w)
  BY <1>1, QuietFacts DEF InitFrame
<1>3. PICK w \in 1..Workers : Alone(w) /\ Resting(w)
  BY <1>2
<1>4. driver_init_hid /\ UNCHANGED <<toUsb, waiting, stopped>> /\ (Rejected(cid) \/ Collected(m) \/ Accept(cid, kind, m))
  BY DEF InitFrame
<1>5. m \in MsgRecs /\ m.cid = cid /\ m.cmd = kind /\ m.from = {cid}
  BY DEF MsgRecs, RequestKinds, Lines, TransportAssumption
<1> HIDE DEF m
<1>6. CASE Rejected(cid)
  BY <1>4, <1>6, RejectedKept
<1>7. CASE Collected(m)
  BY <1>2, <1>4, <1>5, <1>7, CollectedKept
<1>8. CASE Accept(cid, kind, m)
  BY <1>3, <1>4, <1>5, <1>8, AcceptedKept
<1> QED  BY <1>4, <1>6, <1>7, <1>8

LEMMA ContFrameKept ==
  ASSUME TransportAssumption, TransportInv, Overlap = FALSE, NEW cid \in Cids, NEW seq, ContFrame(cid, seq)
  PROVE  TransportInv'
<1> DEFINE m1 == [msg EXCEPT !.left = @ - 1, !.seq = @ + 1, !.armed = TRUE, !.rx = cid, !.from = @ \cup {cid}]
           m2 == [msg EXCEPT !.armed = TRUE, !.rx = cid]
           m == IF Mine(cid) THEN m1 ELSE m2
<1>1. TransportTypes /\ PhaseOK /\ MessagesOK
  BY DEF TransportInv
<1>2. ~busy /\ \E w \in 1..Workers : Alone(w) /\ Resting(w)
  BY <1>1, QuietFacts DEF ContFrame
<1>3. PICK w \in 1..Workers : Alone(w) /\ Resting(w)
  BY <1>2
<1>4. driver_init_hid /\ UNCHANGED <<toUsb, waiting, stopped>> /\ msg.left > 0
  BY DEF ContFrame
<1>5. Rejected(cid) \/ (m.left > 0 /\ Collected(m)) \/ (~(m.left > 0) /\ Accept(msg.cid, msg.cmd, m))
  BY DEF ContFrame
<1>6. msg.from = {msg.cid} /\ msg.cmd \in RequestKinds /\ msg \in MsgRecs /\ msg.left \in Nat
  BY <1>1, <1>4 DEF MessagesOK, TransportTypes, MsgRecs
<1>7. m1 \in MsgRecs /\ m1.cid = msg.cid /\ m1.cmd = msg.cmd /\ m1.from = msg.from \cup {cid}
  <2> DEFINE e(l, n, f) == [msg EXCEPT !.left = l, !.seq = n, !.armed = TRUE, !.rx = cid, !.from = f]
  <2>1. ASSUME NEW l \in Nat, NEW n \in Nat, NEW f \in SUBSET (Cids \cup {NoCid})
        PROVE  e(l, n, f) \in MsgRecs /\ e(l, n, f).cid = msg.cid /\ e(l, n, f).cmd = msg.cmd /\ e(l, n, f).from = f
    BY <1>6 DEF MsgRecs
  <2>2. msg.left - 1 \in Nat /\ msg.seq + 1 \in Nat /\ msg.from \cup {cid} \in SUBSET (Cids \cup {NoCid})
    BY <1>4, <1>6 DEF MsgRecs
  <2>3. m1 = e(msg.left - 1, msg.seq + 1, msg.from \cup {cid})
    OBVIOUS
  <2> HIDE DEF e, m1
  <2> QED  BY <2>1, <2>2, <2>3
<1>8. m2 \in MsgRecs /\ m2.cid = msg.cid /\ m2.cmd = msg.cmd /\ m2.from = msg.from /\ m2.left = msg.left
  BY <1>6 DEF MsgRecs
<1> HIDE DEF m1, m2
<1>9. m \in MsgRecs /\ m.cid = msg.cid /\ m.cmd = msg.cmd /\ m.from = {msg.cid} /\ (~(m.left > 0) => Mine(cid))
  BY <1>4, <1>6, <1>7, <1>8 DEF Mine
<1> HIDE DEF m
<1>10. CASE Rejected(cid)
  BY <1>4, <1>10, RejectedKept
<1>11. CASE Collected(m)
  BY <1>2, <1>4, <1>6, <1>9, <1>11, CollectedKept
<1>12. CASE ~(m.left > 0) /\ Accept(msg.cid, msg.cmd, m)
  <2>1. msg.cid \in Cids
    BY <1>9, <1>12 DEF Mine
  <2> QED  BY <1>3, <1>4, <1>6, <1>9, <1>12, <2>1, AcceptedKept
<1> QED  BY <1>5, <1>10, <1>11, <1>12

LEMMA XfrBlockKept ==
  ASSUME TransportAssumption, TransportInv, Overlap = FALSE, XfrBlock
  PROVE  TransportInv'
<1> DEFINE a == [itf |-> "ccid", cid |-> NoCid, kind |-> "msg", from |-> {NoCid}]
           n == Len(asked) + 1
<1>1. TransportTypes /\ PhaseOK /\ asked \in Seq(AskRecs) /\ n \in Nat
  BY DEF TransportInv, TransportTypes
<1>2. PICK w \in 1..Workers : Alone(w) /\ Resting(w)
  BY <1>1, QuietFacts DEF XfrBlock
<1>3. asked' = Append(asked, a) /\ apduBuf' = Buf(n) /\ Start("ccid", "apdu")
      /\ UNCHANGED <<toUsb, waiting, cancel, msg, lock, cborBuf, out, tx, pend, got, stopped>>
  BY DEF XfrBlock, Last, button, frame, line
<1>4. a \in AskRecs /\ a.itf = "ccid" /\ a.cid = NoCid /\ a.kind = "msg" /\ a.from = {NoCid} /\ Func(a.kind) = "apdu"
  BY DEF AskRecs, RequestKinds, Func
<1> HIDE DEF a, n
<1>5. apduBuf' \in BufRecs /\ apduBuf'.req = n
  BY <1>1, <1>3, RecordFacts
<1>6. Back(a, msg') /\ Held(a, n, stopped, cborBuf', apduBuf', cancel') /\ Proper(a)
  BY <1>4, <1>5 DEF Back, Held, Proper
<1>7. TxFollows /\ GotFollows /\ MsgFollows
  BY <1>3 DEF TxFollows, GotFollows, MsgFollows, Follows
<1>8. Takes(a)
  BY <1>1, <1>3, <1>4, <1>5, <1>6, <1>7 DEF Takes, TransportTypes, n
<1> QED  BY <1>2, <1>4, <1>6, <1>8, TakesKept

\* tud_hid_report_complete_cb.
LEMMA CompleteKept ==
  ASSUME TransportInv, Complete
  PROVE  TransportInv'
<1>1. TransportTypes
  BY DEF TransportInv
<1>2. UNCHANGED <<toCard, toUsb, busy, locked, worker, core0, waiting, cancel, asked, cborBuf, apduBuf, stopped, msg, lock, out>> /\ pend' = "none"
  BY DEF Complete, queues, card, button, frame, inputs
<1>3. UNCHANGED work /\ AskedSame /\ CurrentFollows /\ MsgFollows
  BY <1>2 DEF work, AskedSame, CurrentFollows, MsgFollows
<1>4. GotFollows
  <2>1. \A g \in got' : g \in got \/ (tx.reply.req # None /\ g = [cid |-> tx.cid, cmd |-> tx.cmd, reply |-> tx.reply])
    BY DEF Complete
  <2> QED  BY <2>1 DEF GotFollows, Follows
<1>5. /\ Advanced \in TxRecs /\ Advanced.cid = tx.cid /\ Advanced.cmd = tx.cmd
      /\ Advanced.reply.req = tx.reply.req /\ Advanced.reply.verdict = tx.reply.verdict
  <2>1. tx \in TxRecs /\ tx.reply \in ReplyRecs /\ pend \in {"keep", "data", "other"}
    BY <1>1 DEF TransportTypes, TxRecs, Complete
  <2>2. ASSUME NEW left \in Int, NEW r \in ReplyRecs
        PROVE  LET e == [tx EXCEPT !.left = left, !.reply = r] IN e \in TxRecs /\ e.cid = tx.cid /\ e.cmd = tx.cmd /\ e.reply = r
    BY <2>1 DEF TxRecs
  <2>3. ASSUME NEW left \in Int
        PROVE  LET e == [tx EXCEPT !.left = left] IN e \in TxRecs /\ e.cid = tx.cid /\ e.cmd = tx.cmd /\ e.reply = tx.reply
    BY <2>1 DEF TxRecs
  <2>4. tx.left - 1 \in Int
    BY <2>1 DEF TxRecs
  <2>5. Cleared(tx.reply) \in ReplyRecs /\ Cleared(tx.reply).req = tx.reply.req /\ Cleared(tx.reply).verdict = tx.reply.verdict
    BY <2>1, ClearedFacts
  <2>6. CASE pend = "keep"
    BY <2>1, <2>6 DEF Advanced
  <2>7. CASE pend = "data"
    BY <2>3, <2>4, <2>7 DEF Advanced
  <2>8. CASE pend = "other"
    BY <2>1, <2>2, <2>4, <2>5, <2>8 DEF Advanced
  <2> QED  BY <2>1, <2>6, <2>7, <2>8
<1>6. tx' \in TxRecs /\ TxFollows
  <2>1. tx' = NoTx \/ tx' = Advanced
    BY DEF Complete
  <2> QED  BY <1>5, <2>1, RecordFacts DEF TxFollows, Follows
<1>7. TransportTypes'
  BY <1>1, <1>2, <1>6 DEF TransportTypes
<1> QED  BY <1>3, <1>4, <1>6, <1>7, SideStep

-----------------------------------------------------------------------------
(* Core 0 and the worker *)

\* A step of the hand-over: what stays of everything else.
Beside == UNCHANGED <<asked, got, stopped, msg, lock, cborBuf, apduBuf, cancel, tx, pend>>

LEMMA HandOver ==
  ASSUME TransportInv, Beside, PhaseOK', CurrentOK', worker' \in [1..Workers -> WorkerRecs], out' \in ReplyRecs,
         busy' \in BOOLEAN, waiting' \in BOOLEAN
  PROVE  TransportInv'
<1>1. TransportTypes'
  BY DEF TransportInv, TransportTypes, Beside
<1>2. RepliesOK' /\ MessagesOK'
  BY DEF TransportInv, RepliesOK, MessagesOK, Beside, Last, None, RequestKinds
<1> QED  BY <1>1, <1>2 DEF TransportInv

\* card_exit is over.
LEMMA ExitWakesKept ==
  ASSUME TransportAssumption, TransportInv, ExitWakes
  PROVE  TransportInv'
<1>1. TransportTypes /\ PhaseOK /\ CurrentOK
  BY DEF TransportInv
<1>2. PICK w \in 1..Workers : Alone(w) /\ Ended(w)
  <2>1. core0 # Loop /\ toUsb # <<>>
    BY DEF ExitWakes, Woken
  <2> QED  BY <1>1, <2>1 DEF PhaseOK, Resting, Called, Running, Asking, Polled, Decided, Done, Working, Exiting, Queues
<1>3. \A v \in 1..Workers : worker[v].pc = "off"
  BY <1>2 DEF Alone, Ended
<1>4. toUsb' = <<>> /\ core0' = Loop /\ UNCHANGED <<waiting, cancel, msg, lock, cborBuf, apduBuf, asked, got, stopped>> /\ ~waiting'
  BY <1>2 DEF ExitWakes, button, frame, inputs, hosts, Ended
<1>5. CASE core0.then = "start"
  <2>1. Launch(core0.itf, core0.func) /\ toCard' = <<"cmd">> /\ busy' = TRUE /\ UNCHANGED <<out, tx, pend>>
    BY <1>5 DEF ExitWakes, line
  <2>2. busy /\ [itf |-> core0.itf, func |-> core0.func] \in Tasks
    BY <1>2, <1>5 DEF Ended, Leaving
  <2>3. worker' \in [1..Workers -> WorkerRecs] /\ locked' = [itf |-> core0.itf, func |-> core0.func]
    BY <1>1, <1>3, <2>1, <2>2, LaunchFacts DEF TransportTypes
  <2>4. PICK x \in 1..Workers : Alone(x)' /\ Stands(x, "idle")'
    BY <1>1, <1>3, <2>1, <2>2, LaunchFacts DEF TransportTypes
  <2>5. Called(x)'
    BY <1>4, <2>1, <2>4 DEF Called, Working, Queues, Loop
  <2>6. PhaseOK'
    BY <2>4, <2>5 DEF PhaseOK
  <2> DEFINE a == Newest
             n == Len(asked)
  <2>7. /\ n # 0 /\ Handed(a, core0, locked) /\ Back(a, msg) /\ Held(a, n, stopped, cborBuf, apduBuf, cancel)
    BY <1>1, <2>2 DEF CurrentOK
  <2>8. core0 # Loop
    BY DEF ExitWakes
  <2>9. Newest' = a /\ Len(asked)' = n
    BY <1>4 DEF Newest
  <2> HIDE DEF a, n
  <2>10. Handed(a, core0', locked')
    BY <1>4, <2>3, <2>7, <2>8 DEF Handed
  <2>11. \A v \in 1..Workers : worker'[v].pc \notin {"run", "wait"}
    BY <2>4 DEF Alone, Stands
  <2>12. Worked(a, n, stopped', worker') /\ Told(a, n, stopped', toCard') /\ Produced(a, n, stopped', toUsb', out')
    BY <1>4, <2>1, <2>11, NotButton, QueueFacts DEF Worked, Told, Produced, Executed
  <2>13. CurrentOK'
    BY <1>4, <2>7, <2>9, <2>10, <2>12 DEF CurrentOK
  <2>14. Beside /\ out' \in ReplyRecs /\ busy' \in BOOLEAN /\ waiting' \in BOOLEAN
    BY <1>1, <1>4, <2>1 DEF Beside, TransportTypes
  <2> QED  BY <2>3, <2>6, <2>13, <2>14, HandOver
<1>6. CASE core0.then = "init"
  <2>1. toCard' = <<>> /\ locked' = NoLock /\ tx' = NoTx /\ WriteNow /\ UNCHANGED <<busy, worker, out>>
    BY <1>6 DEF ExitWakes
  <2>2. ~busy
    BY <1>2, <1>6 DEF Ended, Leaving
  <2>3. Resting(w)' /\ Alone(w)'
    BY <1>2, <1>3, <1>4, <2>1, <2>2 DEF Resting, Queues, Alone, Loop, NoLock
  <2>4. PhaseOK' /\ CurrentOK'
    BY <2>1, <2>2, <2>3 DEF PhaseOK, CurrentOK
  <2>5. tx' \in TxRecs /\ tx'.reply.req = None
    BY <2>1, RecordFacts
  <2>6. pend' \in {"none", "keep", "data", "other"}
    BY <1>1, <2>1 DEF WriteNow, TransportTypes
  <2>7. TransportTypes'
    BY <1>1, <1>4, <2>1, <2>5, <2>6 DEF TransportTypes
  <2>8. RepliesOK' /\ MessagesOK'
    BY <1>4, <2>5 DEF TransportInv, RepliesOK, MessagesOK, Last, None, RequestKinds
  <2> QED  BY <2>4, <2>7, <2>8 DEF TransportInv
<1> QED  BY <1>5, <1>6 DEF ExitWakes

\* An event of the button, asked for or come.
LEMMA PressKept ==
  ASSUME TransportInv, PollOther \/ PollPress
  PROVE  TransportInv'
<1>1. TransportTypes /\ PhaseOK /\ CurrentOK
  BY DEF TransportInv
<1>2. core0 = Loop /\ busy /\ toUsb # <<>> /\ toUsb' = Tail(toUsb) /\ UNCHANGED <<toCard, busy, locked, worker, core0, out>> /\ Beside
  BY DEF PollOther, PollPress, Poll, card, button, frame, inputs, line, hosts, Beside
<1>3. (Head(toUsb) = "ack" /\ waiting' = waiting) \/ (Head(toUsb) = "press" /\ waiting')
  BY DEF PollOther, PollPress, Poll, button
<1>4. PICK w \in 1..Workers : Alone(w) /\ (Running(w) \/ Asking(w) \/ Done(w))
  <2>1. ~Leaving
    BY <1>2, LoopFacts DEF Leaving
  <2> QED  BY <1>1, <1>2, <2>1 DEF PhaseOK, Resting, Called, Polled, Decided, Exiting, Ended, Queues
<1>5. Alone(w)' /\ (\A pc : Working(w, pc) => Working(w, pc)')
  BY <1>2, <1>4 DEF Alone, Working, Stands, Loop, Tasks
<1>6. (Running(w)' \/ Asking(w)' \/ Polled(w)' \/ Done(w)') /\ (Executed(toUsb') => Executed(toUsb)) /\ waiting' \in BOOLEAN
  <2>1. CASE Running(w)
    <3>1. toUsb = <<"ack">> /\ toUsb' = <<>> /\ Head(toUsb) = "ack"
      BY <1>2, <2>1, EventFacts DEF Running
    <3>2. waiting' = waiting
      BY <1>3, <3>1
    <3>3. Running(w)'
      BY <1>2, <1>5, <2>1, <3>1, <3>2 DEF Running
    <3> QED  BY <1>1, <3>1, <3>2, <3>3, EventFacts DEF Executed, TransportTypes
  <2>2. CASE Asking(w)
    <3>1. CASE toUsb = <<"press">>
      <4>1. toUsb' = <<>> /\ Head(toUsb) = "press"
        BY <1>2, <3>1, EventFacts
      <4>2. Polled(w)'
        BY <1>2, <1>3, <1>5, <2>2, <4>1 DEF Asking, Polled, Queues
      <4> QED  BY <1>3, <4>1, <4>2, EventFacts DEF Executed
    <3>2. CASE toUsb = <<"ack", "press">>
      <4>1. toUsb' = <<"press">> /\ Head(toUsb) = "ack"
        BY <1>2, <3>2, EventFacts
      <4>2. waiting' = waiting
        BY <1>3, <4>1
      <4>3. Asking(w)'
        BY <1>2, <1>5, <2>2, <4>1, <4>2 DEF Asking
      <4> QED  BY <1>1, <4>1, <4>2, <4>3, EventFacts DEF Executed, TransportTypes
    <3> QED  BY <2>2, <3>1, <3>2 DEF Asking
  <2>3. CASE Done(w)
    <3>1. toUsb = <<"ack", "exec">> /\ toUsb' = <<"exec">> /\ Head(toUsb) = "ack"
      BY <1>2, <1>3, <2>3, EventFacts DEF Done
    <3>2. Done(w)'
      BY <1>2, <1>3, <1>5, <2>3, <3>1 DEF Done
    <3> QED  BY <1>1, <1>3, <3>1, <3>2 DEF Executed, TransportTypes
  <2> QED  BY <1>4, <2>1, <2>2, <2>3
<1>7. PhaseOK'
  BY <1>5, <1>6 DEF PhaseOK
<1>8. CurrentOK'
  <2>1. UNCHANGED <<busy, asked, core0, locked, msg, stopped, cborBuf, apduBuf, cancel, worker, toCard, out>> /\ Newest' = Newest
    BY <1>2 DEF Beside, Newest
  <2> QED  BY <1>1, <1>6, <2>1 DEF CurrentOK, Produced
<1> QED  BY <1>1, <1>2, <1>6, <1>7, <1>8, HandOver DEF TransportTypes

\* The command is over: the reply goes out, and hosts may send again.
LEMMA FinishedKept ==
  ASSUME TransportInv, PollFinishedHid \/ PollFinishedCcid
  PROVE  TransportInv'
<1> DEFINE a == Newest
           n == Len(asked)
<1>1. TransportTypes /\ PhaseOK /\ CurrentOK /\ RepliesOK /\ MessagesOK
  BY DEF TransportInv
<1>2. core0 = Loop /\ busy /\ toUsb # <<>> /\ toUsb' = Tail(toUsb) /\ Head(toUsb) = "exec" /\ busy' = FALSE /\ out' = NoReply
      /\ UNCHANGED <<toCard, locked, worker, core0, waiting, cancel, msg, lock, cborBuf, apduBuf, asked, stopped>>
  BY DEF PollFinishedHid, PollFinishedCcid, Poll, button, frame, inputs
<1>3. PICK w \in 1..Workers : Alone(w) /\ Done(w)
  <2>1. ~Leaving
    BY <1>2, LoopFacts DEF Leaving
  <2>2. toUsb \notin {<<"ack">>, <<"press">>, <<"ack", "press">>}
    BY <1>2, EventFacts
  <2> QED  BY <1>1, <1>2, <2>1, <2>2 DEF PhaseOK, Resting, Called, Running, Asking, Polled, Decided, Exiting, Ended, Queues
<1>4. Executed(toUsb) /\ toUsb' = <<>>
  BY <1>2, <1>3, EventFacts DEF Done, Executed
<1>5. Resting(w)' /\ Alone(w)'
  BY <1>2, <1>3, <1>4 DEF Resting, Done, Working, Stands, Queues, Alone, Loop, Tasks, NoLock
<1>6. PhaseOK' /\ CurrentOK'
  BY <1>2, <1>5 DEF PhaseOK, CurrentOK
<1>7. n # 0 /\ Handed(a, core0, locked) /\ Back(a, msg) /\ Produced(a, n, stopped, toUsb, out)
  BY <1>1, <1>2 DEF CurrentOK
<1>8. out.req = n /\ Scoped(a, n, stopped, out.verdict) /\ locked.itf = a.itf
  BY <1>2, <1>4, <1>7 DEF Produced, Handed
<1>9. asked \in Seq(AskRecs) /\ n \in Nat /\ n \in 1..n /\ a = asked[n] /\ a \in AskRecs
  BY <1>1, <1>7 DEF TransportTypes, Newest
<1>10. Addressed(asked, stopped, a.cid, a.kind, out)
  BY <1>8, <1>9 DEF Addressed, Scoped
<1>11. AskedGrows
  BY <1>2, <1>9 DEF AskedGrows
<1>12. tx' \in TxRecs /\ TxFollows /\ GotFollows /\ pend' \in {"none", "keep", "data", "other"}
  <2>1. CASE PollFinishedHid
    <3>1. tx' = [cid |-> msg.cid, cmd |-> msg.cmd, reply |-> out, left |-> Frames] /\ Replaced /\ locked.itf = "hid" /\ pend' = Still
      BY <2>1 DEF PollFinishedHid, Poll
    <3>2. msg.cid = a.cid /\ msg.cmd = a.kind
      BY <1>7, <1>8, <3>1 DEF Back
    <3>3. tx' \in TxRecs
      BY <1>1, <3>1, TransportAssumption DEF TransportTypes, TxRecs, MsgRecs, TransportAssumption
    <3>4. Addressed(asked', stopped', tx'.cid, tx'.cmd, tx'.reply)
      BY <1>2, <1>10, <3>1, <3>2
    <3>5. pend' \in {"none", "keep", "data", "other"}
      BY <1>1, <3>1 DEF Still, TransportTypes
    <3> QED  BY <3>1, <3>3, <3>4, <3>5, ReplacedFacts DEF TxFollows
  <2>2. CASE PollFinishedCcid
    <3>1. got' = got \cup {[cid |-> NoCid, cmd |-> "msg", reply |-> out]} /\ UNCHANGED <<tx, pend>> /\ locked.itf = "ccid"
      BY <2>2 DEF PollFinishedCcid, Poll
    <3>2. a.cid = NoCid /\ a.kind = "msg"
      BY <1>1, <1>8, <1>9, <3>1 DEF MessagesOK, Last
    <3>3. \A g \in got' : g \in got \/ Addressed(asked', stopped', g.cid, g.cmd, g.reply)
      BY <1>2, <1>10, <3>1, <3>2
    <3> QED  BY <1>1, <3>1, <3>3 DEF TransportTypes, TxFollows, GotFollows, Follows
  <2> QED  BY <2>1, <2>2
<1>13. TransportTypes'
  BY <1>1, <1>2, <1>12, RecordFacts DEF TransportTypes
<1>14. RepliesOK'
  BY <1>1, <1>2, <1>9, <1>11, <1>12, RepliesKept
<1>15. MessagesOK'
  BY <1>1, <1>2 DEF MessagesOK, Last, RequestKinds
<1> QED  BY <1>6, <1>13, <1>14, <1>15 DEF TransportInv

\* The button decides, or the time is over.
LEMMA ButtonKept ==
  ASSUME TransportInv, NEW e \in ButtonEvents, ButtonPoll(e)
  PROVE  TransportInv'
<1>1. TransportTypes /\ PhaseOK /\ CurrentOK /\ RepliesOK /\ MessagesOK
  BY DEF TransportInv
<1>2. core0 = Loop /\ waiting /\ waiting' = FALSE /\ toCard' = Append(toCard, e)
      /\ UNCHANGED <<toUsb, busy, locked, worker, core0, msg, lock, cborBuf, apduBuf, out, tx, pend, asked, got>>
  BY DEF ButtonPoll, card, frame, inputs, line
<1>3. PICK w \in 1..Workers : Alone(w) /\ Polled(w)
  BY <1>1, <1>2 DEF PhaseOK, Resting, Called, Running, Asking, Decided, Done, Exiting, Ended
<1>4. toCard' = <<e>>
  BY <1>2, <1>3, QueueFacts DEF Polled, Queues
<1>5. Alone(w)' /\ Decided(w)'
  BY <1>2, <1>3, <1>4 DEF Alone, Polled, Decided, Working, Stands, Queues, Loop, Tasks, ButtonEvents
<1>6. PhaseOK'
  BY <1>5 DEF PhaseOK
<1>7. cancel' \in BOOLEAN /\ stopped \subseteq stopped'
  BY <1>1 DEF ButtonPoll, TransportTypes
<1>8. TransportTypes'
  BY <1>1, <1>2, <1>7 DEF TransportTypes
<1> DEFINE a == Newest
           n == Len(asked)
<1>9. /\ busy /\ n # 0 /\ Handed(a, core0, locked) /\ Back(a, msg) /\ Held(a, n, stopped, cborBuf, apduBuf, cancel)
      /\ Worked(a, n, stopped, worker) /\ Produced(a, n, stopped, toUsb, out)
  BY <1>1, <1>3 DEF CurrentOK, Polled, Working
<1>10. Newest' = a /\ Len(asked)' = n
  BY <1>2 DEF Newest
<1>11. e = "cancelled" /\ ~cancel => n \in stopped'
  BY DEF ButtonPoll, Last
<1>12. cancel' => cancel \/ (e = "cancelled" /\ ~cancel)
  BY DEF ButtonPoll
<1> HIDE DEF a, n
<1>13. a.kind = "cbor" => (cancel => n \in stopped')
  BY <1>7, <1>9 DEF Held
<1>14. Held(a, n, stopped', cborBuf', apduBuf', cancel')
  BY <1>2, <1>9, <1>11, <1>12, <1>13 DEF Held
<1>15. Worked(a, n, stopped', worker') /\ Produced(a, n, stopped', toUsb', out')
  BY <1>2, <1>7, <1>9 DEF Worked, Produced, Scoped
<1>16. Told(a, n, stopped', toCard')
  <2>1. Scoped(a, n, stopped', e)
    BY <1>11, <1>13 DEF Scoped
  <2>2. \A d \in ButtonEvents : toCard' = <<d>> => d = e
    BY <1>4, QueueFacts
  <2> QED  BY <2>1, <2>2 DEF Told
<1>17. Handed(a, core0', locked') /\ Back(a, msg')
  BY <1>2, <1>9
<1>18. CurrentOK'
  BY <1>2, <1>9, <1>10, <1>14, <1>15, <1>16, <1>17 DEF CurrentOK
<1>19. AskedGrows /\ TxFollows /\ GotFollows
  <2>1. AskedGrows
    BY <1>1, <1>2, <1>7 DEF AskedGrows, TransportTypes
  <2>2. TxFollows /\ GotFollows
    BY <1>2 DEF TxFollows, GotFollows, Follows
  <2> QED  BY <2>1, <2>2
<1>20. RepliesOK'
  BY <1>1, <1>8, <1>19, RepliesKept DEF TransportTypes
<1>21. MessagesOK'
  BY <1>1, <1>2 DEF MessagesOK, Last, RequestKinds
<1> QED  BY <1>6, <1>8, <1>18, <1>20, <1>21 DEF TransportInv

\* The only task that may step.
LEMMA ActingTask ==
  ASSUME TransportInv, NEW v \in 1..Workers, worker[v].pc # "off"
  PROVE  /\ Alone(v)
         /\ \/ Resting(v) \/ Called(v) \/ Running(v) \/ Asking(v) \/ Polled(v) \/ Decided(v) \/ Done(v)
            \/ Exiting(v)
<1>1. PICK w \in 1..Workers :
        /\ Alone(w)
        /\ \/ Resting(w) \/ Called(w) \/ Running(w) \/ Asking(w) \/ Polled(w) \/ Decided(w) \/ Done(w)
           \/ Exiting(w) \/ Ended(w)
  BY DEF TransportInv, PhaseOK
<1>2. v = w
  BY <1>1 DEF Alone
<1>3. ~Ended(v)
  BY DEF Ended
<1> QED  BY <1>1, <1>2, <1>3

\* The worker asks for the button.
LEMMA AskKept ==
  ASSUME TransportInv, NEW v \in 1..Workers, AskPresence(v)
  PROVE  TransportInv'
<1>1. TransportTypes /\ CurrentOK
  BY DEF TransportInv
<1>2. /\ worker[v].pc = "run" /\ toUsb' = Append(toUsb, "press") /\ worker' = [worker EXCEPT ![v].pc = "wait"]
      /\ UNCHANGED <<toCard, busy, locked, core0, waiting, out>> /\ Beside
  BY DEF AskPresence, button, frame, inputs, line, hosts, Beside
<1>3. Alone(v) /\ Running(v)
  BY <1>2, ActingTask DEF Resting, Called, Asking, Polled, Decided, Done, Exiting, Working, Stands
<1>4. /\ worker' \in [1..Workers -> WorkerRecs] /\ worker'[v].pc = "wait" /\ worker'[v].func = worker[v].func
      /\ worker'[v].req = worker[v].req /\ worker'[v].press = worker[v].press /\ \A u \in 1..Workers : u # v => worker'[u] = worker[u]
  <2> DEFINE r == [worker[v] EXCEPT !.pc = "wait"]
  <2>1. worker[v] \in WorkerRecs /\ worker' = [worker EXCEPT ![v] = r]
    BY <1>1, <1>2 DEF TransportTypes
  <2>2. r \in WorkerRecs /\ r.pc = "wait" /\ r.func = worker[v].func /\ r.req = worker[v].req /\ r.press = worker[v].press
    BY <2>1 DEF WorkerRecs
  <2> HIDE DEF r
  <2> QED  BY <1>1, <2>1, <2>2 DEF TransportTypes
<1>5. toUsb' \in {<<"press">>, <<"ack", "press">>}
  <2>1. toUsb = <<>> => toUsb' = <<"press">>
    BY <1>2, QueueFacts
  <2>2. toUsb = <<"ack">> => toUsb' = <<"ack", "press">>
    BY <1>2, QueueFacts
  <2> QED  BY <1>3, <2>1, <2>2 DEF Running
<1>6. Alone(v)' /\ Asking(v)'
  BY <1>2, <1>3, <1>4, <1>5 DEF Alone, Running, Asking, Working, Stands, Loop, Tasks
<1>7. PhaseOK'
  BY <1>6 DEF PhaseOK
<1>8. ~Executed(toUsb')
  BY <1>5, EventFacts DEF Executed
<1> DEFINE a == Newest
           n == Len(asked)
<1>9. /\ busy /\ n # 0 /\ Handed(a, core0, locked) /\ Back(a, msg) /\ Held(a, n, stopped, cborBuf, apduBuf, cancel)
      /\ Worked(a, n, stopped, worker) /\ Told(a, n, stopped, toCard)
  BY <1>1, <1>3 DEF CurrentOK, Running, Working
<1>10. Newest' = a /\ Len(asked)' = n
  BY <1>2 DEF Newest, Beside
<1> HIDE DEF a, n
<1>11. Worked(a, n, stopped', worker')
  BY <1>2, <1>4, <1>9 DEF Worked, Beside
<1>12. Produced(a, n, stopped', toUsb', out')
  BY <1>8 DEF Produced
<1>13. CurrentOK'
  BY <1>2, <1>9, <1>10, <1>11, <1>12 DEF CurrentOK, Beside
<1> QED  BY <1>1, <1>2, <1>4, <1>7, <1>13, HandOver DEF TransportTypes

\* A task steps to r, and the others stay as they are.
LEMMA SteppedTask ==
  ASSUME worker \in [1..Workers -> WorkerRecs], NEW v \in 1..Workers, NEW r \in WorkerRecs,
         worker' = [worker EXCEPT ![v] = r], Alone(v)
  PROVE  worker' \in [1..Workers -> WorkerRecs] /\ worker'[v] = r /\ Alone(v)' /\ \A u \in 1..Workers : u # v => worker'[u].pc = "off"
BY DEF Alone

\* The wait for the button is over.
LEMMA TakeWaitingKept ==
  ASSUME TransportInv, NEW v \in 1..Workers, TakeWaiting(v)
  PROVE  TransportInv'
<1>1. TransportTypes /\ CurrentOK
  BY DEF TransportInv
<1>2. /\ worker[v].pc = "wait" /\ toCard # <<>> /\ toCard' = Tail(toCard)
      /\ UNCHANGED <<toUsb, busy, locked, core0, waiting, out>> /\ Beside
  BY DEF TakeWaiting, button, frame, inputs, line, hosts, Beside
<1>3. Alone(v) /\ Decided(v)
  BY <1>2, ActingTask DEF Resting, Called, Running, Asking, Polled, Done, Exiting, Working, Stands, Queues
<1>4. PICK e \in ButtonEvents : toCard = <<e>>
  BY <1>3 DEF Decided
<1>5. Head(toCard) = e /\ toCard' = <<>>
  BY <1>2, <1>4, QueueFacts
<1> DEFINE r == [worker[v] EXCEPT !.pc = "run", !.press = e]
           a == Newest
           n == Len(asked)
<1>6. worker[v] \in WorkerRecs
  BY <1>1 DEF TransportTypes
<1>7. r \in WorkerRecs /\ r.pc = "run" /\ r.func = worker[v].func /\ r.req = worker[v].req /\ r.press = e
  BY <1>6 DEF WorkerRecs
<1>8. worker' = [worker EXCEPT ![v] = r]
  BY <1>1, <1>5 DEF TakeWaiting, Awaited, TransportTypes
<1>9. /\ busy /\ n # 0 /\ Handed(a, core0, locked) /\ Back(a, msg) /\ Held(a, n, stopped, cborBuf, apduBuf, cancel)
      /\ Worked(a, n, stopped, worker) /\ Told(a, n, stopped, toCard)
  BY <1>1, <1>3 DEF CurrentOK, Decided, Working
<1>10. Newest' = a /\ Len(asked)' = n
  BY <1>2 DEF Newest, Beside
<1> HIDE DEF r, a, n
<1>11. worker' \in [1..Workers -> WorkerRecs] /\ worker'[v] = r /\ Alone(v)' /\ \A u \in 1..Workers : u # v => worker'[u].pc = "off"
  BY <1>1, <1>3, <1>7, <1>8, SteppedTask DEF TransportTypes
<1>12. Running(v)'
  BY <1>2, <1>3, <1>5, <1>7, <1>11 DEF Decided, Running, Working, Stands, Loop, Tasks
<1>13. PhaseOK'
  BY <1>11, <1>12 DEF PhaseOK
<1>14. worker[v].req = n /\ Scoped(a, n, stopped, e)
  BY <1>2, <1>4, <1>9 DEF Worked, Told
<1>15. Worked(a, n, stopped', worker')
  BY <1>2, <1>7, <1>11, <1>14 DEF Worked, Beside
<1>16. Told(a, n, stopped', toCard')
  BY <1>5, QueueFacts DEF Told
<1>17. Produced(a, n, stopped', toUsb', out')
  BY <1>2, <1>3, EventFacts DEF Produced, Executed, Decided
<1>18. CurrentOK'
  BY <1>2, <1>9, <1>10, <1>15, <1>16, <1>17 DEF CurrentOK, Beside
<1> QED  BY <1>1, <1>2, <1>11, <1>13, <1>18, HandOver DEF TransportTypes

\* The worker leaves its reply.
LEMMA FinishKept ==
  ASSUME TransportInv, NEW v \in 1..Workers, Finish(v)
  PROVE  TransportInv'
<1>1. TransportTypes /\ CurrentOK
  BY DEF TransportInv
<1>2. /\ worker[v].pc = "run" /\ toUsb' = Append(toUsb, "exec") /\ worker' = [worker EXCEPT ![v].pc = "idle"]
      /\ UNCHANGED <<toCard, busy, locked, core0, waiting>> /\ Beside
  BY DEF Finish, button, frame, inputs, hosts, Beside
<1>3. Alone(v) /\ Running(v)
  BY <1>2, ActingTask DEF Resting, Called, Asking, Polled, Decided, Done, Exiting, Working, Stands
<1> DEFINE r == [worker[v] EXCEPT !.pc = "idle"]
           b == InputOf(v) = Buf(worker[v].req)
           d == Verdict(v)
           a == Newest
           n == Len(asked)
<1>4. worker[v] \in WorkerRecs /\ worker' = [worker EXCEPT ![v] = r]
  BY <1>1, <1>2 DEF TransportTypes
<1>5. r \in WorkerRecs /\ r.pc = "idle" /\ r.func = worker[v].func
  BY <1>4 DEF WorkerRecs
<1>6. /\ busy /\ n # 0 /\ Handed(a, core0, locked) /\ Back(a, msg) /\ Held(a, n, stopped, cborBuf, apduBuf, cancel)
      /\ Worked(a, n, stopped, worker) /\ Told(a, n, stopped, toCard)
  BY <1>1, <1>3 DEF CurrentOK, Running, Working
<1>7. Newest' = a /\ Len(asked)' = n
  BY <1>2 DEF Newest, Beside
<1>8. out' = [req |-> worker[v].req, whole |-> b, verdict |-> d] /\ b \in BOOLEAN
  BY DEF Finish
<1>9. d \in {"none", "cancelled", "timeout", "done"} /\ (d = "cancelled" => cancel \/ worker[v].press = "cancelled")
  BY DEF Verdict
<1> HIDE DEF r, b, d, a, n
<1>10. worker' \in [1..Workers -> WorkerRecs] /\ worker'[v] = r /\ Alone(v)' /\ \A u \in 1..Workers : u # v => worker'[u].pc = "off"
  BY <1>1, <1>3, <1>4, <1>5, SteppedTask DEF TransportTypes
<1>11. toUsb' \in {<<"exec">>, <<"ack", "exec">>}
  <2>1. toUsb = <<>> => toUsb' = <<"exec">>
    BY <1>2, QueueFacts
  <2>2. toUsb = <<"ack">> => toUsb' = <<"ack", "exec">>
    BY <1>2, QueueFacts
  <2> QED  BY <1>3, <2>1, <2>2 DEF Running
<1>12. Done(v)'
  BY <1>2, <1>3, <1>5, <1>10, <1>11 DEF Running, Done, Working, Stands, Loop, Tasks
<1>13. PhaseOK'
  BY <1>10, <1>12 DEF PhaseOK
<1>14. worker[v].req \in Nat /\ worker[v].req = n /\ Scoped(a, n, stopped, worker[v].press)
  BY <1>2, <1>4, <1>6 DEF WorkerRecs, Worked
<1>15. out' \in ReplyRecs /\ out'.req = n /\ out'.verdict = d
  BY <1>8, <1>9, <1>14 DEF ReplyRecs
<1>16. Scoped(a, n, stopped, d)
  BY <1>6, <1>9, <1>14 DEF Scoped, Held
<1>17. Worked(a, n, stopped', worker')
  BY <1>5, <1>10 DEF Worked
<1>18. Produced(a, n, stopped', toUsb', out')
  BY <1>2, <1>15, <1>16 DEF Produced, Beside
<1>19. CurrentOK'
  BY <1>2, <1>6, <1>7, <1>17, <1>18 DEF CurrentOK, Beside
<1> QED  BY <1>1, <1>2, <1>10, <1>13, <1>15, <1>19, HandOver DEF TransportTypes

\* A task takes the command, or ends.
LEMMA TakeKept ==
  ASSUME TransportInv, NEW v \in 1..Workers, Take(v)
  PROVE  TransportInv'
<1>1. TransportTypes /\ CurrentOK
  BY DEF TransportInv
<1>2. /\ worker[v].pc = "idle" /\ toCard # <<>> /\ toCard' = Tail(toCard)
      /\ UNCHANGED <<busy, locked, core0, waiting, out>> /\ Beside
  BY DEF Take, button, frame, inputs, line, hosts, Beside
<1>3. Alone(v) /\ (Called(v) \/ Exiting(v))
  BY <1>2, ActingTask DEF Resting, Running, Asking, Polled, Decided, Done, Working, Stands, Queues
<1>4. worker[v] \in WorkerRecs
  BY <1>1 DEF TransportTypes
<1> DEFINE a == Newest
           n == Len(asked)
<1>5. Newest' = a /\ Len(asked)' = n
  BY <1>2 DEF Newest, Beside
<1>6. busy => /\ n # 0 /\ Handed(a, core0, locked) /\ Back(a, msg)
              /\ Held(a, n, stopped, cborBuf, apduBuf, cancel)
  BY <1>1 DEF CurrentOK
<1>7. <<>> \notin {<<e>> : e \in ButtonEvents} /\ ~Executed(<<>>) /\ ~Executed(<<"ack">>)
  BY QueueFacts, EventFacts DEF Executed
<1>8. CASE Called(v)
  <2>1. Head(toCard) = "cmd" /\ toCard' = <<>> /\ toUsb = <<>>
    BY <1>2, <1>8, QueueFacts DEF Called, Queues
  <2>2. toUsb' = <<>> \/ toUsb' = <<"ack">>
    BY <2>1, QueueFacts DEF Take
  <2> DEFINE q == InputOf(v).req
             r == [worker[v] EXCEPT !.pc = "run", !.req = q, !.press = "none"]
  <2>3. worker' = [worker EXCEPT ![v] = r]
    BY <1>1, <2>1 DEF Take, TransportTypes
  <2>4. busy /\ core0 = Loop /\ worker[v].func = locked.func
    BY <1>8 DEF Called, Working, Stands
  <2>5. a \in AskRecs
    BY <1>1, <1>6, <2>4 DEF TransportTypes, Newest
  <2>6. worker[v].func = Func(a.kind)
    BY <1>6, <2>4 DEF Handed
  <2>7. q = n
    <3>1. CASE a.kind = "cbor"
      <4>1. InputOf(v) = cborBuf /\ cborBuf = Buf(n)
        BY <1>6, <2>4, <2>6, <3>1 DEF Func, Held, InputOf
      <4> QED  BY <4>1 DEF Buf
    <3>2. CASE a.kind = "msg"
      <4>1. InputOf(v) = apduBuf /\ apduBuf.req = n
        BY <1>6, <2>4, <2>6, <3>2 DEF Func, Held, InputOf
      <4> QED  BY <4>1
    <3> QED  BY <2>5, <3>1, <3>2 DEF AskRecs, RequestKinds
  <2>8. q \in Nat
    BY <1>1, <2>7 DEF TransportTypes
  <2> HIDE DEF q
  <2>9. r \in WorkerRecs /\ r.pc = "run" /\ r.func = worker[v].func /\ r.req = q /\ r.press = "none"
    BY <1>4, <2>8 DEF WorkerRecs
  <2> HIDE DEF r, a, n
  <2>10. worker' \in [1..Workers -> WorkerRecs] /\ worker'[v] = r /\ Alone(v)' /\ \A u \in 1..Workers : u # v => worker'[u].pc = "off"
    BY <1>1, <1>3, <2>3, <2>9, SteppedTask DEF TransportTypes
  <2>11. Running(v)'
    BY <1>2, <1>8, <2>1, <2>2, <2>9, <2>10 DEF Called, Running, Working, Stands, Loop, Tasks
  <2>12. PhaseOK'
    BY <2>10, <2>11 DEF PhaseOK
  <2>13. Worked(a, n, stopped', worker')
    BY <2>7, <2>9, <2>10 DEF Worked, Scoped
  <2>14. Told(a, n, stopped', toCard') /\ Produced(a, n, stopped', toUsb', out')
    BY <1>7, <2>1, <2>2 DEF Told, Produced
  <2>15. CurrentOK'
    BY <1>2, <1>5, <1>6, <2>4, <2>13, <2>14 DEF CurrentOK, Beside
  <2> QED  BY <1>1, <1>2, <2>10, <2>12, <2>15, HandOver DEF TransportTypes
<1>9. CASE Exiting(v)
  <2>1. Head(toCard) = "exit" /\ toCard' = <<>> /\ toUsb = <<>>
    BY <1>2, <1>9, QueueFacts DEF Exiting, Queues
  <2>2. toUsb' = <<"ack">>
    BY <2>1, QueueFacts DEF Take
  <2>3. worker' = [worker EXCEPT ![v] = Off]
    BY <1>1, <2>1 DEF Take, TransportTypes
  <2>4. worker' \in [1..Workers -> WorkerRecs] /\ worker'[v].pc = "off" /\ Alone(v)' /\ \A u \in 1..Workers : u # v => worker'[u].pc = "off"
    BY <1>1, <1>3, <2>3, LoopFacts, SteppedTask DEF TransportTypes
  <2>5. Ended(v)'
    BY <1>2, <1>9, <2>1, <2>2, <2>4 DEF Exiting, Ended, Leaving, Queues, Tasks
  <2>6. PhaseOK'
    BY <2>4, <2>5 DEF PhaseOK
  <2> HIDE DEF a, n
  <2>7. Worked(a, n, stopped', worker')
    BY <2>4 DEF Worked
  <2>8. Told(a, n, stopped', toCard') /\ Produced(a, n, stopped', toUsb', out')
    BY <1>7, <2>1, <2>2 DEF Told, Produced
  <2>9. CurrentOK'
    BY <1>2, <1>5, <1>6, <2>7, <2>8 DEF CurrentOK, Beside
  <2> QED  BY <1>1, <1>2, <2>4, <2>6, <2>9, HandOver DEF TransportTypes
<1> QED  BY <1>3, <1>8, <1>9

-----------------------------------------------------------------------------
(* Every step of the transports *)

LEMMA TransportInvNext ==
  ASSUME TransportAssumption, Overlap = FALSE, TransportInv, [TransportNext]_tvars
  PROVE  TransportInv'
<1>1. CASE HostStep
  <2>1. ASSUME NEW c \in Cids, NEW k \in RequestKinds, NEW long \in BOOLEAN, InitFrame(c, k, long)
        PROVE  TransportInv'
    BY <2>1, InitFrameKept
  <2>2. ASSUME NEW c \in Cids, NEW s \in 0..Conts, ContFrame(c, s)
        PROVE  TransportInv'
    BY <2>2, ContFrameKept
  <2>3. ASSUME NEW c \in Cids, CancelFrame(c)
        PROVE  TransportInv'
    BY <2>3, CancelFrameKept
  <2>4. ASSUME NEW c \in Cids \cup {NoCid}, InitChannel(c)
        PROVE  TransportInv'
    BY <2>4, InitChannelKept
  <2>5. ASSUME NEW c \in Cids, NEW k \in {"lock", "unlock", "ping"}, ShortCommand(c, k)
        PROVE  TransportInv'
    BY <2>5, ShortKept
  <2>6. CASE XfrBlock
    BY <2>6, XfrBlockKept
  <2> QED  BY <1>1, <2>1, <2>2, <2>3, <2>4, <2>5, <2>6 DEF HostStep
<1>2. CASE Core0Step
  <2>1. CASE ExitWakes
    BY <2>1, ExitWakesKept
  <2>2. CASE NoPacket \/ KeepAlive \/ SendFrame
    BY <2>2, TimeKept
  <2>3. CASE PollOther \/ PollPress
    BY <2>3, PressKept
  <2>4. CASE PollFinishedHid \/ PollFinishedCcid
    BY <2>4, FinishedKept
  <2>5. CASE Complete
    BY <2>5, CompleteKept
  <2>6. ASSUME NEW e \in ButtonEvents, ButtonPoll(e)
        PROVE  TransportInv'
    BY <2>6, ButtonKept
  <2> QED  BY <1>2, <2>1, <2>2, <2>3, <2>4, <2>5, <2>6 DEF Core0Step
<1>3. CASE Ages \/ Unlocks
  BY <1>3, TimeKept
<1>4. ASSUME NEW w \in 1..Workers, WorkerStep(w)
      PROVE  TransportInv'
  BY <1>4, TakeKept, AskKept, TakeWaitingKept, FinishKept DEF WorkerStep
<1>5. CASE UNCHANGED tvars
  <2>1. UNCHANGED work /\ Beside /\ UNCHANGED out
    BY <1>5 DEF tvars, queues, card, button, frame, inputs, line, hosts, work, Beside
  <2>2. TransportTypes /\ PhaseOK /\ CurrentOK
    BY DEF TransportInv
  <2>3. PhaseOK'
    BY <2>1, <2>2, PhaseSame
  <2>4. AskedSame /\ CurrentFollows
    BY <2>1 DEF Beside, AskedSame, CurrentFollows
  <2>5. CurrentOK'
    BY <2>1, <2>2, <2>4, CurrentSame
  <2> QED  BY <2>1, <2>2, <2>3, <2>5, HandOver DEF TransportTypes, work
<1> QED  BY <1>1, <1>2, <1>3, <1>4, <1>5 DEF TransportNext

LEMMA TransportInvInit ==
  ASSUME TransportAssumption, TransportInit
  PROVE  TransportInv
<1>1. TransportTypes
  <2>1. worker \in [1..Workers -> WorkerRecs]
    BY LoopFacts DEF TransportInit
  <2>2. None \in Nat
    BY DEF None
  <2>3. cborBuf \in BufRecs /\ apduBuf \in BufRecs
    BY <2>2, RecordFacts DEF TransportInit
  <2>4. msg \in MsgRecs /\ out \in ReplyRecs /\ tx \in TxRecs /\ asked \in Seq(AskRecs)
    BY RecordFacts DEF TransportInit
  <2>5. lock \in Cids \cup {NoCid} /\ pend \in {"none", "keep", "data", "other"} /\ busy \in BOOLEAN /\ waiting \in BOOLEAN /\ cancel \in BOOLEAN
    BY DEF TransportInit
  <2> QED  BY <2>1, <2>3, <2>4, <2>5 DEF TransportTypes
<1>2. 1 \in 1..Workers
  BY DEF TransportAssumption
<1>3. \A w \in 1..Workers : worker[w].pc = "off"
  BY LoopFacts DEF TransportInit
<1>4. Alone(1) /\ Resting(1)
  BY <1>2, <1>3 DEF TransportInit, Alone, Resting, Queues
<1>5. PhaseOK /\ CurrentOK
  BY <1>2, <1>4 DEF TransportInit, PhaseOK, CurrentOK
<1>6. RepliesOK /\ MessagesOK
  <2>1. tx.reply.req = None /\ got = {} /\ Len(asked) = 0 /\ msg.left = 0
    BY RecordFacts DEF TransportInit
  <2> QED  BY <2>1 DEF RepliesOK, MessagesOK, Last
<1> QED  BY <1>1, <1>5, <1>6 DEF TransportInv

LEMMA TransportInvHolds ==
  ASSUME Overlap = FALSE
  PROVE  TransportSpec => []TransportInv
<1>1. TransportInit => TransportInv
  BY TransportInvInit, TransportAssumption
<1>2. TransportInv /\ [TransportNext]_tvars => TransportInv'
  BY TransportInvNext, TransportAssumption
<1> QED  BY <1>1, <1>2, PTL DEF TransportSpec

-----------------------------------------------------------------------------
\* For hosts that wait their turn, whatever cancels they send in between and however many channels,
\* frames and requests there are, every reply received in full is the reply to a request of that
\* channel and transport, under its command: driver_exec_finished_cont_hid takes both from the last
\* frame that came in, and that one is still the request's.
THEOREM RepliesReachAsker ==
  ASSUME Overlap = FALSE
  PROVE  TransportSpec => []RepliesToAsker
<1>1. TransportInv => RepliesToAsker
  BY DEF TransportInv, RepliesOK, Addressed, RepliesToAsker, Last
<1> QED  BY <1>1, TransportInvHolds, PTL

\* A request answered as cancelled was cancelled by its own channel or the user, for hosts that wait
\* their turn: cbor_process clears cancel_button for each request, and CTAPHID_CANCEL sets it for the
\* channel of the request only.
THEOREM CancelsAreScoped ==
  ASSUME Overlap = FALSE
  PROVE  TransportSpec => []CancelIsScoped
<1>1. TransportInv => CancelIsScoped
  BY DEF TransportInv, RepliesOK, Addressed, CancelIsScoped
<1> QED  BY <1>1, TransportInvHolds, PTL

\* A request is made of frames of one channel, and cbor_thread works on its bytes as they were
\* received, for hosts that wait their turn, however its continuations are interleaved with frames
\* and cancels of others.
THEOREM RequestsStayIntact ==
  ASSUME Overlap = FALSE
  PROVE  TransportSpec => []RequestIsIntact
<1>1. ASSUME TransportInv, NEW w \in Alive, worker[w].func = "cbor", worker[w].pc \in {"run", "wait"}
      PROVE  cborBuf = Buf(worker[w].req)
  <2>1. w \in 1..Workers /\ worker[w].pc # "off" /\ worker[w].pc # "idle"
    BY <1>1 DEF Alive
  <2>2. Running(w) \/ Asking(w) \/ Polled(w) \/ Decided(w)
    BY <1>1, <2>1, ActingTask DEF Resting, Called, Done, Exiting, Working, Stands
  <2>3. core0 = Loop /\ busy /\ locked.func = "cbor"
    BY <1>1, <2>2 DEF Running, Asking, Polled, Decided, Working, Stands
  <2>4. /\ Handed(Newest, core0, locked) /\ Held(Newest, Len(asked), stopped, cborBuf, apduBuf, cancel)
        /\ Worked(Newest, Len(asked), stopped, worker)
    BY <1>1, <2>3 DEF TransportInv, CurrentOK
  <2>5. Newest.kind = "cbor"
    BY <2>3, <2>4 DEF Handed, Func
  <2>6. worker[w].req = Len(asked)
    BY <1>1, <2>1, <2>4 DEF Worked
  <2> QED  BY <2>4, <2>5, <2>6 DEF Held
<1>2. TransportInv => \A r \in 1..Last : asked[r].from = {asked[r].cid}
  BY DEF TransportInv, MessagesOK
<1>3. TransportInv => RequestIsIntact
  BY <1>1, <1>2 DEF RequestIsIntact
<1> QED  BY <1>3, TransportInvHolds, PTL

\* Two tasks never share the queues, and core 0 in card_exit always waits for a task that will answer,
\* for hosts that wait their turn: card_start launches the next task only after card_exit has heard
\* the old one, and no event but EV_EXIT is then left for it to take.
THEOREM OneWorkerHolds ==
  ASSUME Overlap = FALSE
  PROVE  TransportSpec => []OneWorker
<1>1. ASSUME TransportInv
      PROVE  OneWorker
  <2>1. PICK w \in 1..Workers :
          /\ Alone(w)
          /\ \/ Resting(w) \/ Called(w) \/ Running(w) \/ Asking(w) \/ Polled(w) \/ Decided(w) \/ Done(w)
             \/ Exiting(w) \/ Ended(w)
    BY <1>1 DEF TransportInv, PhaseOK
  <2>2. Alive = {} \/ Alive = {w}
    BY <2>1 DEF Alone, Alive
  <2>3. Cardinality(Alive) <= 1
    <3>1. Cardinality({}) = 0 /\ Cardinality({w}) = 1
      BY FS_EmptySet, FS_Singleton
    <3> QED  BY <2>2, <3>1
  <2>4. ASSUME core0 = Loop
        PROVE  Alive = {} <=> locked = NoLock
    <3>1. ~Leaving
      BY <2>4, LoopFacts DEF Leaving
    <3>2. (worker[w].pc = "off" /\ locked = NoLock) \/ (\E pc \in {"idle", "run", "wait"} : Stands(w, pc))
      BY <2>1, <3>1 DEF Resting, Called, Running, Asking, Polled, Decided, Done, Exiting, Ended, Working
    <3>3. (worker[w].pc = "off" /\ locked = NoLock) \/ (worker[w].pc # "off" /\ locked # NoLock)
      BY <3>2, LoopFacts DEF Stands
    <3> QED  BY <2>2, <3>3 DEF Alive
  <2>5. ASSUME core0 # Loop
        PROVE  Woken \/ \E v \in Alive : worker[v].pc = "idle" /\ toCard # <<>> /\ Head(toCard) = "exit"
    <3>1. Exiting(w) \/ Ended(w)
      BY <2>1, <2>5 DEF Resting, Called, Running, Asking, Polled, Decided, Done, Working
    <3>2. CASE Exiting(w)
      BY <3>2, QueueFacts DEF Exiting, Stands, Queues, Alive
    <3>3. CASE Ended(w)
      BY <3>3, QueueFacts DEF Ended, Queues, Woken
    <3> QED  BY <3>1, <3>2, <3>3
  <2> QED  BY <2>3, <2>4, <2>5 DEF OneWorker
<1> QED  BY <1>1, TransportInvHolds, PTL

================================================================================
