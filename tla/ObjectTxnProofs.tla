---------------------------- MODULE ObjectTxnProofs ----------------------------
(***************************************************************************)
(* Proofs about ObjectTxn, for every set of payloads, every width of the   *)
(* generation and token counters, every number of handles and every bound  *)
(* on faults, timeouts and power losses.                                   *)
(*                                                                         *)
(* Three arguments meet in the inductive invariant.  Generations have the  *)
(* parity of the slot they live in, so two genuine commits never carry the *)
(* same one, whatever gave up before.  A handle was opened on a generation *)
(* that the running firmware has not passed and that it never writes       *)
(* again.  And, while every commit sync drains, one slot stands in flash   *)
(* with the acknowledged payload while the other is rewritten.             *)
(***************************************************************************)
EXTENDS ObjectTxn, FiniteSetTheorems, WellFoundedInduction, TLAPS

-----------------------------------------------------------------------------
(* The inductive invariant *)

\* The commit file of a slot is genuine, whatever the state of the record it names.
Committed(m, s) == m[C(s)].kind \in {"commit", "tombstone"}

\* Odd generations live in slot 0, even ones in slot 1.
ParityOK ==
  /\ \A s \in Slots :
       /\ Committed(cache, s) => cache[C(s)].gen % 2 = 1 - s
       /\ Committed(disk, s) => disk[C(s)].gen % 2 = 1 - s
  /\ pc # "idle" => op.gen % 2 = 1 - op.slot

NewRecord == IF op.val = NoVal THEN Absent
             ELSE [kind |-> "record", gen |-> op.gen, val |-> op.val]
NewCommit == [kind |-> IF op.val = NoVal THEN "tombstone" ELSE "commit",
              gen |-> op.gen, val |-> op.val]

\* What file_object_txn_put and _delete know at each of their steps: the generation follows
\* the one that stands in the other slot, and the target slot holds what was put there so far.
CallOK ==
  /\ pc = "idle" => op = NoOp
  /\ pc # "idle" =>
      /\ IF parse_commit(cache, 1 - op.slot)
         THEN op.gen = cache[C(1 - op.slot)].gen + 1
         ELSE op.gen = 1 /\ op.slot = 0
      /\ pc \in {"remove_record", "write_record", "sync_1", "write_commit"}
           => cache[C(op.slot)] = Absent
      /\ pc \in {"sync_1", "write_commit", "sync_2"} => cache[R(op.slot)] = NewRecord
      /\ pc = "sync_2" => cache[C(op.slot)] = NewCommit
      /\ pc = "write_record" => op.val # NoVal

\* A handle is not ahead of the slot that stands, and the generation it was opened on still
\* has the payload it had then.
HandleOK(h) ==
  h.token # 0 =>
    /\ \E s \in Slots :
         /\ parse_commit(cache, s) /\ h.gen <= cache[C(s)].gen
         /\ pc # "idle" => s # op.slot
    /\ Committed(cache, h.slot) /\ cache[C(h.slot)].gen = h.gen => cache[C(h.slot)].val = h.val

HandlesOK == \A i \in HandleSlots : HandleOK(handles[i])

\* No two handles answer to one token.
TokensOK ==
  \A i, j \in HandleSlots :
    handles[i].token # 0 /\ handles[i].token = handles[j].token => i = j

\* Nothing was ever stored.
Blank ==
  /\ \A s \in Slots : ~Committed(cache, s) /\ ~Committed(disk, s)
  /\ acked = NoVal

\* A slot stands in flash with the acknowledged payload, ahead of whatever the other holds.
Stands(s) ==
  /\ parse_commit(cache, s)
  /\ disk[R(s)] = cache[R(s)] /\ disk[C(s)] = cache[C(s)]
  /\ cache[C(s)].val = acked
  /\ Committed(cache, 1 - s) => cache[C(1 - s)].gen < cache[C(s)].gen
  /\ Committed(disk, 1 - s) => disk[C(1 - s)].gen < cache[C(s)].gen

\* While the new commit is on its way to flash: everything else is there.
Publishing ==
  LET t == op.slot
      o == 1 - op.slot
  IN  /\ disk[R(t)] = cache[R(t)] /\ disk[R(o)] = cache[R(o)] /\ disk[C(o)] = cache[C(o)]
      /\ disk[C(t)] \in {Absent, cache[C(t)]}
      /\ \/ parse_commit(cache, o) /\ cache[C(o)].val = acked
         \/ ~Committed(cache, o) /\ acked = NoVal

SteadyOK ==
  timeouts = 0 =>
    /\ pc # "sync_2" => Blank \/ \E s \in Slots : Stands(s) /\ (pc # "idle" => s = 1 - op.slot)
    /\ pc = "write_commit" => cache = disk
    /\ pc = "sync_2" => Publishing

TxnInv == TypeOK /\ ParityOK /\ CallOK /\ HandlesOK /\ TokensOK /\ SteadyOK

-----------------------------------------------------------------------------
(* Lemmas about files and recovery *)

\* The four files are different, and there are no others.
LEMMA FidFacts ==
  /\ \A s \in Slots : R(s) \in Fids /\ C(s) \in Fids /\ 1 - s \in Slots /\ 1 - s # s
                       /\ 1 - (1 - s) = s
  /\ \A s, t \in Slots : /\ R(s) # C(t)
                         /\ R(s) = R(t) => s = t
                         /\ C(s) = C(t) => s = t
                         /\ s = t \/ s = 1 - t
  /\ \A f \in Fids : \E s \in Slots : f = R(s) \/ f = C(s)
BY DEF Fids, R, C, Slots

\* What the records of the model are made of.
LEMMA FileFacts ==
  /\ Absent \in Files /\ Torn \in Files
  /\ Absent.kind = "absent" /\ Torn.kind = "torn"
BY ObjectTxnAssumption DEF Absent, Torn, Files, Kinds, Gens

\* file_search after one file was replaced: that file is new, the others are as they were.
LEMMA PutFile ==
  ASSUME NEW m \in [Fids -> Files], NEW f \in Fids, NEW x \in Files
  PROVE  /\ [m EXCEPT ![f] = x] \in [Fids -> Files]
         /\ [m EXCEPT ![f] = x][f] = x
         /\ \A g \in Fids : g # f => [m EXCEPT ![f] = x][g] = m[g]
OBVIOUS

\* What recovery reports when it selects slot s.
Found(m, s) == [status |-> "ok", slot |-> s, gen |-> m[C(s)].gen, val |-> m[C(s)].val]
NotFound    == [status |-> "not_found", slot |-> 0, gen |-> 0, val |-> NoVal]

\* The commits of both slots have the parity of their slots.
Parity(m) == \A s \in Slots : Committed(m, s) => m[C(s)].gen % 2 = 1 - s

\* Slot s is the object: it counts, and the other slot does not or is older.
Leads(m, s) ==
  /\ parse_commit(m, s)
  /\ parse_commit(m, 1 - s) => m[C(1 - s)].gen < m[C(s)].gen

LEMMA ParsedIsCommitted ==
  ASSUME NEW m, NEW s, parse_commit(m, s)
  PROVE  Committed(m, s)
BY DEF parse_commit, Committed

\* The next generation belongs to the other slot.
LEMMA NextParity ==
  ASSUME NEW g \in Nat, NEW s \in Slots, g % 2 = 1 - s
  PROVE  (g + 1) % 2 = 1 - (1 - s)
<1>1. CASE s = 0
  BY <1>1
<1>2. CASE s = 1
  BY <1>2
<1> QED BY <1>1, <1>2 DEF Slots

\* file_object_txn_recover: with the parities right it never meets two commits of one
\* generation, and selects the slot that leads, if one counts at all.
LEMMA RecoverFacts ==
  ASSUME NEW m \in [Fids -> Files], Parity(m)
  PROVE  /\ ~Ambiguous(m)
         /\ \/ recover(m) = NotFound /\ \A s \in Slots : ~parse_commit(m, s)
            \/ \E s \in Slots : Leads(m, s) /\ recover(m) = Found(m, s)
         /\ \A s \in Slots : Leads(m, s) => recover(m) = Found(m, s)
<1>1. \A s \in Slots : m[C(s)] \in Files /\ m[C(s)].gen \in Nat
  BY FidFacts, ObjectTxnAssumption DEF Files, Gens
<1>2. ASSUME parse_commit(m, 0), parse_commit(m, 1)
      PROVE  m[C(0)].gen # m[C(1)].gen
  <2>1. m[C(0)].gen % 2 = 1 - 0 /\ m[C(1)].gen % 2 = 1 - 1
    BY <1>2, ParsedIsCommitted DEF Parity, Slots
  <2> QED BY <2>1
<1>3. ~Ambiguous(m)
  <2> SUFFICES ASSUME Ambiguous(m) PROVE FALSE
    OBVIOUS
  <2>1. 0 \in Slots /\ 1 \in Slots
    BY DEF Slots
  <2>2. parse_commit(m, 0) /\ parse_commit(m, 1) /\ m[C(1)].gen = m[C(0)].gen
    BY <2>1, Zenon DEF Ambiguous
  <2> QED BY <1>2, <2>2
<1>4. ASSUME NEW s \in Slots, Leads(m, s)
      PROVE  recover(m) = Found(m, s)
  <2>1. s \in Valid(m)
    BY <1>4 DEF Valid, Leads
  <2>2. \A t \in Valid(m) : t \in Slots /\ m[C(t)].gen <= m[C(s)].gen
                            /\ (m[C(s)].gen <= m[C(t)].gen => t = s)
    <3> SUFFICES ASSUME NEW t \in Valid(m)
                 PROVE  t \in Slots /\ m[C(t)].gen <= m[C(s)].gen
                        /\ (m[C(s)].gen <= m[C(t)].gen => t = s)
      OBVIOUS
    <3>1. t \in Slots /\ parse_commit(m, t)
      BY DEF Valid
    <3>2. t = s \/ t = 1 - s
      BY <3>1, FidFacts
    <3>3. m[C(t)].gen \in Nat /\ m[C(s)].gen \in Nat
      BY <1>1, <3>1
    <3>4. CASE t = s
      BY <3>1, <3>3, <3>4
    <3>5. CASE t = 1 - s
      <4>1. m[C(t)].gen < m[C(s)].gen
        BY <1>4, <3>1, <3>5 DEF Leads
      <4> QED BY <3>1, <3>3, <4>1
    <3> QED BY <3>2, <3>4, <3>5
  <2>3. Selected(m) = s
    BY <2>1, <2>2, Zenon DEF Selected
  <2>4. Valid(m) # {}
    BY <2>1
  <2> QED BY <1>3, <2>3, <2>4 DEF recover, Found
<1>5. CASE \A s \in Slots : ~parse_commit(m, s)
  <2>1. Valid(m) = {}
    BY <1>5 DEF Valid
  <2>2. recover(m) = NotFound
    BY <1>3, <2>1 DEF recover, NotFound
  <2> QED BY <1>3, <1>4, <1>5, <2>2
<1>6. CASE \E s \in Slots : parse_commit(m, s)
  <2>1. \E s \in Slots : Leads(m, s)
    <3>1. CASE parse_commit(m, 0) /\ parse_commit(m, 1)
      <4>1. m[C(0)].gen < m[C(1)].gen \/ m[C(1)].gen < m[C(0)].gen
        BY <1>1, <1>2, <3>1 DEF Slots
      <4> QED BY <3>1, <4>1 DEF Leads, Slots
    <3>2. CASE ~(parse_commit(m, 0) /\ parse_commit(m, 1))
      <4>1. PICK s \in Slots : parse_commit(m, s)
        BY <1>6
      <4>2. ~parse_commit(m, 1 - s)
        BY <3>2, <4>1 DEF Slots
      <4> QED BY <4>1, <4>2 DEF Leads
    <3> QED BY <3>1, <3>2
  <2> QED BY <1>3, <1>4, <2>1
<1> QED BY <1>5, <1>6

-----------------------------------------------------------------------------
(* Lemmas about handles *)

\* Every set of natural numbers that is not empty has a least element.
LEMMA LeastNatural ==
  ASSUME NEW T, T \subseteq Nat, T # {}
  PROVE  \E x \in T : \A y \in T : x <= y
<1>1. PICK x \in T : \A y \in T : ~(<<y, x>> \in OpToRel(<, Nat))
  BY WFMin, NatLessThanWellFounded, Zenon
<1>2. \A y \in T : ~(y < x)
  BY <1>1 DEF OpToRel
<1> QED BY <1>2

\* A counter that wraps at MaxToken reaches every token.
LEMMA WrapReaches ==
  ASSUME NEW n \in 0..MaxToken, NEW t \in 0..MaxToken
  PROVE  \E k \in 0..MaxToken : (n + k) % (MaxToken + 1) = t
<1> DEFINE N == MaxToken + 1
<1>1. N \in Nat /\ N > 0 /\ n \in 0..(N - 1) /\ t \in 0..(N - 1)
  BY ObjectTxnAssumption
<1>2. CASE n <= t
  <2>1. t % N = t
    BY <1>1
  <2>2. t - n \in 0..MaxToken /\ n + (t - n) = t
    BY <1>1, <1>2, ObjectTxnAssumption
  <2> QED BY <2>1, <2>2
<1>3. CASE t < n
  <2>1. (t + N) % N = t
    BY <1>1
  <2>2. t + N - n \in 0..MaxToken /\ n + (t + N - n) = t + N
    BY <1>1, <1>3, ObjectTxnAssumption
  <2> QED BY <2>1, <2>2
<1> QED BY <1>1, <1>2, <1>3

\* There are more tokens than handles, so one is always free.
LEMMA FreeToken ==
  ASSUME TypeOK
  PROVE  \E t \in 1..MaxToken : ~InUse(t)
<1> SUFFICES ASSUME \A t \in 1..MaxToken : InUse(t)
             PROVE  FALSE
  OBVIOUS
<1> DEFINE holder == [t \in 1..MaxToken |-> CHOOSE i \in HandleSlots : handles[i].token = t]
<1>1. \A t \in 1..MaxToken : holder[t] \in HandleSlots /\ handles[holder[t]].token = t
  BY DEF InUse
<1>2. holder \in [1..MaxToken -> HandleSlots]
  BY <1>1
<1>3. IsFiniteSet(1..MaxToken) /\ Cardinality(1..MaxToken) = MaxToken
  BY FS_Interval, ObjectTxnAssumption
<1>4. IsFiniteSet(HandleSlots) /\ Cardinality(HandleSlots) = MaxHandles
  BY FS_Interval, ObjectTxnAssumption DEF HandleSlots
<1>5. Cardinality(HandleSlots) < Cardinality(1..MaxToken)
  BY <1>3, <1>4, ObjectTxnAssumption
<1> HIDE DEF holder
<1>6. PICK t, u \in 1..MaxToken : t # u /\ holder[t] = holder[u]
  BY <1>2, <1>3, <1>4, <1>5, FS_PigeonHole
<1> QED BY <1>1, <1>6

\* file_object_txn_allocate_token hands out a token that is neither 0 nor in use.
LEMMA TokenFacts ==
  ASSUME TypeOK
  PROVE  allocate_token \in 1..MaxToken /\ ~InUse(allocate_token)
<1> DEFINE ahead(k) == (next + k) % (MaxToken + 1)
           good(k)  == ahead(k) # 0 /\ ~InUse(ahead(k))
           T        == {k \in 0..MaxToken : good(k)}
<1>1. PICK t \in 1..MaxToken : ~InUse(t)
  BY FreeToken
<1>2. next \in 0..MaxToken /\ t \in 0..MaxToken /\ t # 0
  BY ObjectTxnAssumption DEF TypeOK
<1>3. PICK k \in 0..MaxToken : ahead(k) = t
  BY <1>2, WrapReaches
<1>4. k \in T
  BY <1>1, <1>2, <1>3
<1>5. \A j \in 0..MaxToken : ahead(j) \in 0..MaxToken
  BY <1>2, ObjectTxnAssumption
<1>6. allocate_token = ahead(CHOOSE i \in 0..MaxToken : good(i) /\ \A j \in 0..MaxToken : good(j) => i <= j)
  BY DEF allocate_token
<1> HIDE DEF ahead
<1>7. \E i \in 0..MaxToken : good(i) /\ \A j \in 0..MaxToken : good(j) => i <= j
  <2>1. T \subseteq Nat /\ T # {}
    BY <1>4, ObjectTxnAssumption
  <2> QED BY <2>1, LeastNatural
<1> DEFINE first == CHOOSE i \in 0..MaxToken : good(i) /\ \A j \in 0..MaxToken : good(j) => i <= j
<1>8. first \in 0..MaxToken /\ good(first)
  BY <1>7, Zenon
<1> HIDE DEF first
<1>9. ahead(first) \in 0..MaxToken /\ ahead(first) # 0 /\ ~InUse(ahead(first))
  BY <1>5, <1>8
<1>10. allocate_token = ahead(first)
  BY <1>6 DEF first
<1> QED BY <1>9, <1>10, ObjectTxnAssumption

-----------------------------------------------------------------------------
(* What the steps do, in the terms of the invariant *)

\* Whether a slot counts depends on its own two files only.
LEMMA SameSlot ==
  ASSUME NEW m, NEW n, NEW s, m[R(s)] = n[R(s)], m[C(s)] = n[C(s)]
  PROVE  (parse_commit(m, s) <=> parse_commit(n, s)) /\ (Committed(m, s) <=> Committed(n, s))
BY DEF parse_commit, validate_record, Committed

Ops == [slot : Slots, gen : Gens, val : Values \cup {NoVal}]

\* What the invariant says of the files and of the call.
LEMMA InvFacts ==
  ASSUME TxnInv
  PROVE  /\ cache \in [Fids -> Files] /\ disk \in [Fids -> Files]
         /\ Parity(cache) /\ Parity(disk)
         /\ op \in Ops /\ op.slot \in Slots /\ op.gen \in Gens
         /\ op.val \in Values \cup {NoVal}
         /\ NewRecord \in Files /\ NewCommit \in Files
         /\ \A f \in Fids : /\ cache[f] \in Files /\ cache[f].gen \in Nat
                            /\ disk[f] \in Files /\ disk[f].gen \in Nat
<1>1. cache \in [Fids -> Files] /\ disk \in [Fids -> Files] /\ op \in Ops
  BY DEF TxnInv, TypeOK, Ops
<1>2. Parity(cache) /\ Parity(disk)
  BY DEF TxnInv, ParityOK, Parity
<1>3. op.slot \in Slots /\ op.gen \in Gens /\ op.val \in Values \cup {NoVal}
  BY <1>1 DEF Ops
<1>4. NewRecord \in Files /\ NewCommit \in Files
  BY <1>3, FileFacts DEF NewRecord, NewCommit, Files, Kinds
<1>5. \A f \in Fids : /\ cache[f] \in Files /\ cache[f].gen \in Nat
                      /\ disk[f] \in Files /\ disk[f].gen \in Nat
  BY <1>1, ObjectTxnAssumption DEF Files, Gens
<1> QED BY <1>1, <1>2, <1>3, <1>4, <1>5

\* The steps that change a file of the target slot leave the other slot alone, and the target
\* slot has a genuine commit only once the new one is written.
LEMMA TargetStep ==
  ASSUME TxnInv, RemoveCommit \/ RemoveRecord \/ WriteRecord \/ WriteCommit
  PROVE  /\ pc # "idle" /\ pc # "sync_2" /\ pc # "sync_1"
         /\ cache' \in [Fids -> Files]
         /\ cache'[R(1 - op.slot)] = cache[R(1 - op.slot)]
         /\ cache'[C(1 - op.slot)] = cache[C(1 - op.slot)]
         /\ Committed(cache', op.slot) => pc' = "sync_2" /\ cache'[C(op.slot)] = NewCommit
         /\ UNCHANGED <<disk, handles, next, acked, timeouts, crashes>>
         /\ \/ pc' \in {"remove_record", "write_record", "sync_1", "sync_2"}
               /\ op' = op /\ UNCHANGED <<ret, faults>>
            \/ pc' = "idle" /\ op' = NoOp /\ ret' = "error" /\ faults' = faults + 1
               /\ faults < MaxFaults
         /\ pc' \in {"remove_record", "write_record", "sync_1"} => cache'[C(op.slot)] = Absent
         /\ pc' \in {"sync_1", "sync_2"} => cache'[R(op.slot)] = NewRecord
         /\ pc' = "sync_2" => pc = "write_commit" /\ cache'[C(op.slot)] = NewCommit
         /\ pc' = "write_record" => op.val # NoVal
<1> USE InvFacts, FileFacts
<1> DEFINE t == op.slot
           o == 1 - op.slot
<1>1. /\ t \in Slots /\ o \in Slots /\ t # o
      /\ R(t) \in Fids /\ C(t) \in Fids /\ R(o) \in Fids /\ C(o) \in Fids
      /\ R(t) # C(t) /\ R(o) # R(t) /\ R(o) # C(t) /\ C(o) # R(t) /\ C(o) # C(t)
  BY FidFacts
<1>2. CallOK
  BY DEF TxnInv
<1>3. ~(Absent.kind \in {"commit", "tombstone"}) /\ ~(Torn.kind \in {"commit", "tombstone"})
  OBVIOUS
<1> HIDE DEF t, o
<1>a. op.slot = t /\ 1 - op.slot = o
  BY DEF t, o
<1>4. CASE RemoveCommit
  BY <1>1, <1>2, <1>3, <1>4, <1>a, PutFile DEF RemoveCommit, RemoveFile, Return, Fault, Committed, CallOK
<1>5. CASE RemoveRecord
  BY <1>1, <1>2, <1>3, <1>5, <1>a, PutFile DEF RemoveRecord, RemoveFile, Return, Fault, Committed, CallOK, NewRecord
<1>6. CASE WriteRecord
  BY <1>1, <1>2, <1>3, <1>6, <1>a, PutFile DEF WriteRecord, WriteFile, Return, Fault, Committed, CallOK, NewRecord
<1>7. CASE WriteCommit
  BY <1>1, <1>2, <1>3, <1>7, <1>a, PutFile DEF WriteCommit, WriteFile, Return, Fault, Committed, CallOK, NewRecord, NewCommit
<1> QED BY <1>4, <1>5, <1>6, <1>7

\* file_object_txn_put and _delete choose the slot that does not lead, and the generation after
\* the one that does.
LEMMA BeginStep ==
  ASSUME TxnInv, (\E v \in Values : PutBegin(v)) \/ DeleteBegin
  PROVE  /\ pc = "idle"
         /\ ret' \in {"none", "wrong_data", "not_found"}
         /\ UNCHANGED <<cache, disk, handles, next, acked, faults, timeouts, crashes>>
         /\ \/ UNCHANGED <<pc, op>>
            \/ /\ pc' = "remove_commit" /\ op' \in Ops
               /\ \/ /\ op'.slot = 0 /\ op'.gen = 1
                     /\ \A s \in Slots : ~parse_commit(cache, s)
                  \/ \E s \in Slots : /\ Leads(cache, s)
                                      /\ op'.slot = 1 - s /\ op'.gen = cache[C(s)].gen + 1
<1>1. \/ recover(cache) = NotFound /\ \A s \in Slots : ~parse_commit(cache, s)
      \/ \E s \in Slots : Leads(cache, s) /\ recover(cache) = Found(cache, s)
  BY InvFacts, RecoverFacts
<1>2. \A s \in Slots : 1 - s \in Slots /\ cache[C(s)].gen \in Gens
                       /\ cache[C(s)].gen \in 0..MaxGen
                       /\ cache[C(s)].val \in Values \cup {NoVal}
  BY InvFacts, FidFacts DEF Files, Gens
<1>3. 1 \in Gens /\ 0 \in Slots
  BY ObjectTxnAssumption DEF Gens, Slots
<1>4. ASSUME NEW v \in Values, PutBegin(v)
      PROVE  /\ pc = "idle"
             /\ ret' \in {"none", "wrong_data", "not_found"}
             /\ UNCHANGED <<cache, disk, handles, next, acked, faults, timeouts, crashes>>
             /\ \/ UNCHANGED <<pc, op>>
                \/ /\ pc' = "remove_commit" /\ op' \in Ops
                   /\ \/ /\ op'.slot = 0 /\ op'.gen = 1
                         /\ \A s \in Slots : ~parse_commit(cache, s)
                      \/ \E s \in Slots : /\ Leads(cache, s)
                                          /\ op'.slot = 1 - s /\ op'.gen = cache[C(s)].gen + 1
  <2>1. CASE recover(cache) = NotFound /\ \A s \in Slots : ~parse_commit(cache, s)
    BY <1>3, <1>4, <2>1 DEF PutBegin, next_state, NotFound, Ops
  <2>2. CASE \E s \in Slots : Leads(cache, s) /\ recover(cache) = Found(cache, s)
    <3>1. PICK s \in Slots : Leads(cache, s) /\ recover(cache) = Found(cache, s)
      BY <2>2
    <3>2. /\ recover(cache).status = "ok" /\ recover(cache).slot = s
          /\ recover(cache).gen = cache[C(s)].gen
      BY <3>1 DEF Found
    <3>3. cache[C(s)].gen # MaxGen => cache[C(s)].gen + 1 \in Gens
      BY <1>2, ObjectTxnAssumption DEF Gens
    <3>4. UNCHANGED <<pc, op>> \/
          (/\ pc' = "remove_commit"
           /\ op' = [slot |-> 1 - s, gen |-> cache[C(s)].gen + 1, val |-> v]
           /\ cache[C(s)].gen # MaxGen)
      BY <1>4, <3>2 DEF PutBegin, next_state
    <3> QED BY <1>2, <1>4, <3>1, <3>3, <3>4 DEF PutBegin, Ops
  <2> QED BY <1>1, <2>1, <2>2
<1>5. CASE DeleteBegin
  <2>1. CASE recover(cache) = NotFound /\ \A s \in Slots : ~parse_commit(cache, s)
    BY <1>5, <2>1 DEF DeleteBegin, NotFound
  <2>2. CASE \E s \in Slots : Leads(cache, s) /\ recover(cache) = Found(cache, s)
    <3>1. PICK s \in Slots : Leads(cache, s) /\ recover(cache) = Found(cache, s)
      BY <2>2
    <3>2. /\ recover(cache).status = "ok" /\ recover(cache).slot = s
          /\ recover(cache).gen = cache[C(s)].gen
      BY <3>1 DEF Found
    <3>3. cache[C(s)].gen # MaxGen => cache[C(s)].gen + 1 \in Gens
      BY <1>2, ObjectTxnAssumption DEF Gens
    <3>4. UNCHANGED <<pc, op>> \/
          (/\ pc' = "remove_commit"
           /\ op' = [slot |-> 1 - s, gen |-> cache[C(s)].gen + 1, val |-> NoVal]
           /\ cache[C(s)].gen # MaxGen)
      BY <1>5, <3>2 DEF DeleteBegin
    <3> QED BY <1>2, <1>5, <3>1, <3>3, <3>4 DEF DeleteBegin, Ops
  <2> QED BY <1>1, <2>1, <2>2
<1> QED BY <1>4, <1>5

\* low_flash_task changes one file in flash, to what the firmware reads there or to a torn one.
LEMMA FlashStep ==
  ASSUME TxnInv, NEW f \in Fids, Flush(f) \/ FlushTear(f)
  PROVE  /\ disk' \in [Fids -> Files]
         /\ disk'[f] = cache[f] \/ disk'[f] = Torn
         /\ disk'[f] = Torn => disk[f].kind \in {"record", "commit", "tombstone"} \/ cache[f] = Torn
         /\ disk[f] # cache[f]
         /\ \A g \in Fids : g # f => disk'[g] = disk[g]
         /\ UNCHANGED <<cache, pc, op, ret, handles, next, acked, faults, timeouts, crashes>>
<1>1. CASE Flush(f)
  BY <1>1, InvFacts, PutFile DEF Flush
<1>2. CASE FlushTear(f)
  BY <1>2, InvFacts, FileFacts, PutFile DEF FlushTear
<1> QED BY <1>1, <1>2

\* file_object_txn_open gives a new token to the slot that leads.
LEMMA OpenStep ==
  ASSUME TxnInv, Open
  PROVE  /\ pc = "idle"
         /\ ret' \in {"wrong_data", "not_found", "no_memory", "opened"}
         /\ UNCHANGED <<cache, disk, pc, op, acked, faults, timeouts, crashes>>
         /\ \/ UNCHANGED <<handles, next>>
            \/ \E i \in HandleSlots, s \in Slots, tok \in 1..MaxToken :
                 /\ Leads(cache, s) /\ ~InUse(tok)
                 /\ handles' = [handles EXCEPT ![i] = [token |-> tok, slot |-> s,
                                  gen |-> cache[C(s)].gen, val |-> cache[C(s)].val]]
                 /\ next' = (tok + 1) % (MaxToken + 1)
<1> DEFINE free == {i \in HandleSlots : handles[i].token = 0}
<1>1. \/ recover(cache) = NotFound /\ \A s \in Slots : ~parse_commit(cache, s)
      \/ \E s \in Slots : Leads(cache, s) /\ recover(cache) = Found(cache, s)
  BY InvFacts, RecoverFacts
<1>2. allocate_token \in 1..MaxToken /\ ~InUse(allocate_token)
  BY TokenFacts DEF TxnInv
<1>3. ASSUME free # {}
      PROVE  (CHOOSE i \in free : \A j \in free : i <= j) \in HandleSlots
  <2>1. free \subseteq Nat
    BY DEF HandleSlots
  <2>2. \E i \in free : \A j \in free : i <= j
    BY <1>3, <2>1, LeastNatural
  <2>3. (CHOOSE i \in free : \A j \in free : i <= j) \in free
    BY <2>2, Zenon
  <2> QED BY <2>3
<1>4. CASE recover(cache) = NotFound
  BY <1>4 DEF Open, NotFound
<1>5. CASE \E s \in Slots : Leads(cache, s) /\ recover(cache) = Found(cache, s)
  <2>1. PICK s \in Slots : Leads(cache, s) /\ recover(cache) = Found(cache, s)
    BY <1>5
  <2>2. /\ recover(cache).status = "ok" /\ recover(cache).slot = s
        /\ recover(cache).gen = cache[C(s)].gen /\ recover(cache).val = cache[C(s)].val
    BY <2>1 DEF Found
  <2> DEFINE i == CHOOSE i \in free : \A j \in free : i <= j
             tok == allocate_token
  <2>3. \/ ret' \in {"not_found", "no_memory"} /\ UNCHANGED <<handles, next>>
        \/ /\ free # {} /\ ret' = "opened"
           /\ handles' = [handles EXCEPT ![i] = [token |-> tok, slot |-> s,
                            gen |-> cache[C(s)].gen, val |-> cache[C(s)].val]]
           /\ next' = (tok + 1) % (MaxToken + 1)
    BY <2>2 DEF Open
  <2>4. free # {} => i \in HandleSlots
    BY <1>3
  <2>5. tok \in 1..MaxToken /\ ~InUse(tok)
    BY <1>2
  <2> HIDE DEF free, i, tok
  <2>6. pc = "idle" /\ UNCHANGED <<cache, disk, pc, op, acked, faults, timeouts, crashes>>
    BY DEF Open
  <2> QED BY <2>1, <2>3, <2>4, <2>5, <2>6
<1> QED BY <1>1, <1>4, <1>5

-----------------------------------------------------------------------------
(* The invariant is inductive *)

LEMMA InitTxnInv == Init => TxnInv
<1> SUFFICES ASSUME Init PROVE TxnInv
  OBVIOUS
<1>1. \A f \in Fids : cache[f] = Absent /\ disk[f] = Absent
  BY DEF Init
<1>2. TypeOK
  BY FileFacts, ObjectTxnAssumption DEF Init, TypeOK, NoOp, NoHandle, Gens, Slots
<1>3. \A s \in Slots : ~Committed(cache, s) /\ ~Committed(disk, s)
  BY <1>1, FidFacts, FileFacts DEF Committed
<1>4. ParityOK /\ CallOK
  BY <1>3 DEF Init, ParityOK, CallOK
<1>5. HandlesOK /\ TokensOK
  BY DEF Init, HandlesOK, HandleOK, TokensOK, NoHandle
<1>6. SteadyOK
  BY <1>3 DEF Init, SteadyOK, Blank
<1> QED BY <1>2, <1>4, <1>5, <1>6 DEF TxnInv

LEMMA NextTypeOK ==
  ASSUME TxnInv, [Next]_vars
  PROVE  TypeOK'
<1> USE InvFacts
<1>1. TypeOK
  BY DEF TxnInv
<1>2. op \in Ops /\ NoOp \in Ops
  BY <1>1, ObjectTxnAssumption DEF NoOp, Ops, Gens, Slots
<1>3. CASE (\E v \in Values : PutBegin(v)) \/ DeleteBegin
  BY <1>1, <1>3, BeginStep DEF TypeOK, Ops
<1>4. CASE RemoveCommit \/ RemoveRecord \/ WriteRecord \/ WriteCommit
  <2>1. /\ pc' \in {"idle", "remove_record", "write_record", "sync_1", "sync_2"}
        /\ op' \in Ops /\ ret' \in {ret, "error"}
        /\ faults' \in 0..MaxFaults
    BY <1>1, <1>2, <1>4, TargetStep, ObjectTxnAssumption DEF TypeOK
  <2> QED BY <1>1, <1>4, <2>1, TargetStep DEF TypeOK, Ops
<1>5. CASE Sync1 \/ Sync2
  BY <1>1, <1>2, <1>5 DEF TypeOK, Ops, Sync1, Sync2, Return
<1>6. CASE SyncTimeout
  BY <1>1, <1>2, <1>6, ObjectTxnAssumption DEF TypeOK, Ops, SyncTimeout, Return
<1>7. CASE Open
  <2>1. \A s \in Slots, tok \in 1..MaxToken :
          [token |-> tok, slot |-> s, gen |-> cache[C(s)].gen, val |-> cache[C(s)].val]
            \in [token : 0..MaxToken, slot : Slots, gen : Gens, val : Values \cup {NoVal}]
    BY <1>1, FidFacts, ObjectTxnAssumption DEF Files
  <2>2. \A tok \in 1..MaxToken : (tok + 1) % (MaxToken + 1) \in 0..MaxToken
    BY ObjectTxnAssumption
  <2> QED BY <1>1, <1>7, <2>1, <2>2, OpenStep DEF TypeOK
<1>8. ASSUME NEW t \in 1..MaxToken, Close(t)
      PROVE  TypeOK'
  <2>1. NoHandle \in [token : 0..MaxToken, slot : Slots, gen : Gens, val : Values \cup {NoVal}]
    BY ObjectTxnAssumption DEF NoHandle, Slots, Gens
  <2> QED BY <1>1, <1>8, <2>1 DEF TypeOK, Close
<1>9. ASSUME NEW f \in Fids, Flush(f) \/ FlushTear(f)
      PROVE  TypeOK'
  BY <1>1, <1>9, FlashStep DEF TypeOK
<1>10. CASE Crash
  <2>1. NoHandle \in [token : 0..MaxToken, slot : Slots, gen : Gens, val : Values \cup {NoVal}]
    BY ObjectTxnAssumption DEF NoHandle, Slots, Gens
  <2>2. recover(disk).val \in Values \cup {NoVal}
    <3>1. \/ recover(disk) = NotFound
          \/ \E s \in Slots : recover(disk) = Found(disk, s)
      BY <1>1, RecoverFacts
    <3> QED BY <1>1, <3>1, FidFacts DEF NotFound, Found, Files
  <2> QED BY <1>1, <1>2, <1>10, <2>1, <2>2, ObjectTxnAssumption DEF TypeOK, Crash, Ops
<1>11. CASE UNCHANGED vars
  BY <1>1, <1>11 DEF TypeOK, vars
<1> QED BY <1>3, <1>4, <1>5, <1>6, <1>7, <1>8, <1>9, <1>10, <1>11 DEF Next

LEMMA NextParityOK ==
  ASSUME TxnInv, [Next]_vars
  PROVE  ParityOK'
<1> USE InvFacts
<1>1. ParityOK /\ CallOK
  BY DEF TxnInv
<1>2. CASE (\E v \in Values : PutBegin(v)) \/ DeleteBegin
  <2>1. CASE UNCHANGED <<pc, op>>
    BY <1>1, <1>2, <2>1, BeginStep DEF ParityOK, Committed
  <2>2. CASE ~UNCHANGED <<pc, op>>
    <3>1. op'.gen % 2 = 1 - op'.slot
      <4>1. CASE op'.slot = 0 /\ op'.gen = 1
        BY <4>1
      <4>2. ASSUME NEW s \in Slots, Leads(cache, s), op'.slot = 1 - s,
                   op'.gen = cache[C(s)].gen + 1
            PROVE  op'.gen % 2 = 1 - op'.slot
        <5>1. Committed(cache, s)
          BY <4>2, ParsedIsCommitted DEF Leads
        <5>2. cache[C(s)].gen % 2 = 1 - s /\ cache[C(s)].gen \in Nat
          BY <1>1, <5>1, FidFacts DEF ParityOK
        <5>3. (cache[C(s)].gen + 1) % 2 = 1 - (1 - s)
          BY <5>2, NextParity
        <5> QED BY <4>2, <5>3, Zenon
      <4> QED BY <1>2, <2>2, <4>1, <4>2, BeginStep
    <3> QED BY <1>1, <1>2, <3>1, BeginStep DEF ParityOK, Committed
  <2> QED BY <2>1, <2>2
<1>3. CASE RemoveCommit \/ RemoveRecord \/ WriteRecord \/ WriteCommit
  <2>1. ASSUME NEW s \in Slots
        PROVE  Committed(cache', s) => cache'[C(s)].gen % 2 = 1 - s
    <3>1. CASE s = op.slot
      BY <1>1, <1>3, <3>1, TargetStep DEF ParityOK, NewCommit
    <3>2. CASE s = 1 - op.slot
      BY <1>1, <1>3, <3>2, TargetStep DEF ParityOK, Committed
    <3> QED BY <3>1, <3>2, FidFacts
  <2> QED BY <1>1, <1>3, <2>1, TargetStep DEF ParityOK, Committed
<1>4. CASE Sync1 \/ Sync2 \/ SyncTimeout
  BY <1>1, <1>4 DEF ParityOK, Committed, Sync1, Sync2, SyncTimeout, Return
<1>5. CASE Open
  BY <1>1, <1>5, OpenStep DEF ParityOK, Committed
<1>6. ASSUME NEW t \in 1..MaxToken, Close(t)
      PROVE  ParityOK'
  BY <1>1, <1>6 DEF ParityOK, Committed, Close
<1>7. ASSUME NEW f \in Fids, Flush(f) \/ FlushTear(f)
      PROVE  ParityOK'
  <2>1. ASSUME NEW s \in Slots
        PROVE  Committed(disk', s) => disk'[C(s)].gen % 2 = 1 - s
    BY <1>1, <1>7, FlashStep, FidFacts, FileFacts DEF ParityOK, Committed
  <2> QED BY <1>1, <1>7, <2>1, FlashStep DEF ParityOK, Committed
<1>8. CASE Crash
  BY <1>1, <1>8 DEF ParityOK, Committed, Crash
<1>9. CASE UNCHANGED vars
  BY <1>1, <1>9 DEF ParityOK, Committed, vars
<1> QED BY <1>2, <1>3, <1>4, <1>5, <1>6, <1>7, <1>8, <1>9 DEF Next

LEMMA NextCallOK ==
  ASSUME TxnInv, [Next]_vars
  PROVE  CallOK'
<1> USE InvFacts
<1>1. CallOK
  BY DEF TxnInv
<1>2. CASE (\E v \in Values : PutBegin(v)) \/ DeleteBegin
  <2>1. CASE UNCHANGED <<pc, op>>
    BY <1>1, <1>2, <2>1, BeginStep DEF CallOK, NewRecord, NewCommit
  <2>2. CASE ~UNCHANGED <<pc, op>>
    <3>1. /\ pc' = "remove_commit" /\ cache' = cache
          /\ \/ /\ op'.slot = 0 /\ op'.gen = 1
                /\ \A s \in Slots : ~parse_commit(cache, s)
             \/ \E s \in Slots : /\ Leads(cache, s)
                                 /\ op'.slot = 1 - s /\ op'.gen = cache[C(s)].gen + 1
      BY <1>2, <2>2, BeginStep
    <3>2. IF parse_commit(cache', 1 - op'.slot)
          THEN op'.gen = cache'[C(1 - op'.slot)].gen + 1
          ELSE op'.gen = 1 /\ op'.slot = 0
      <4>1. CASE op'.slot = 0 /\ op'.gen = 1 /\ \A s \in Slots : ~parse_commit(cache, s)
        <5>1. 1 - op'.slot \in Slots
          BY <4>1 DEF Slots
        <5> QED BY <3>1, <4>1, <5>1
      <4>2. ASSUME NEW s \in Slots, Leads(cache, s), op'.slot = 1 - s,
                   op'.gen = cache[C(s)].gen + 1
            PROVE  /\ parse_commit(cache', 1 - op'.slot)
                   /\ op'.gen = cache'[C(1 - op'.slot)].gen + 1
        BY <3>1, <4>2, FidFacts DEF Leads
      <4> QED BY <3>1, <4>1, <4>2
    <3> QED BY <3>1, <3>2 DEF CallOK
  <2> QED BY <2>1, <2>2
<1>3. CASE RemoveCommit \/ RemoveRecord \/ WriteRecord \/ WriteCommit
  <2>1. parse_commit(cache', 1 - op.slot) <=> parse_commit(cache, 1 - op.slot)
    BY <1>3, TargetStep, SameSlot
  <2>2. op' = op => NewRecord' = NewRecord /\ NewCommit' = NewCommit
    BY DEF NewRecord, NewCommit
  <2>3. CASE pc' = "idle"
    BY <1>3, <2>3, TargetStep DEF CallOK
  <2>4. CASE pc' # "idle"
    <3>1. /\ op' = op /\ pc # "idle" /\ pc' \in {"remove_record", "write_record", "sync_1", "sync_2"}
          /\ cache'[C(1 - op.slot)] = cache[C(1 - op.slot)]
          /\ pc' \in {"remove_record", "write_record", "sync_1"} => cache'[C(op.slot)] = Absent
          /\ pc' \in {"sync_1", "sync_2"} => cache'[R(op.slot)] = NewRecord
          /\ pc' = "sync_2" => cache'[C(op.slot)] = NewCommit
          /\ pc' = "write_record" => op.val # NoVal
      BY <1>3, <2>4, TargetStep
    <3> QED BY <1>1, <2>1, <2>2, <3>1, Zenon DEF CallOK
  <2> QED BY <2>3, <2>4
<1>4. CASE Sync1 \/ Sync2 \/ SyncTimeout
  BY <1>1, <1>4 DEF CallOK, NewRecord, NewCommit, Sync1, Sync2, SyncTimeout, Return
<1>5. CASE Open
  BY <1>1, <1>5, OpenStep DEF CallOK
<1>6. ASSUME NEW t \in 1..MaxToken, Close(t)
      PROVE  CallOK'
  BY <1>1, <1>6 DEF CallOK, NewRecord, NewCommit, Close
<1>7. ASSUME NEW f \in Fids, Flush(f) \/ FlushTear(f)
      PROVE  CallOK'
  BY <1>1, <1>7, FlashStep DEF CallOK, NewRecord, NewCommit
<1>8. CASE Crash
  BY <1>8 DEF CallOK, Crash
<1>9. CASE UNCHANGED vars
  BY <1>1, <1>9 DEF CallOK, NewRecord, NewCommit, vars
<1> QED BY <1>2, <1>3, <1>4, <1>5, <1>6, <1>7, <1>8, <1>9 DEF Next

LEMMA NextHandlesOK ==
  ASSUME TxnInv, [Next]_vars
  PROVE  HandlesOK' /\ TokensOK'
<1> USE InvFacts
<1>1. CallOK /\ HandlesOK /\ TokensOK
  BY DEF TxnInv
<1>2. /\ \A i \in HandleSlots : /\ handles[i].gen \in Nat /\ handles[i].slot \in Slots
                                /\ HandleOK(handles[i])
      /\ handles \in [HandleSlots -> [token : 0..MaxToken, slot : Slots, gen : Gens,
                                      val : Values \cup {NoVal}]]
  BY <1>1, ObjectTxnAssumption DEF TxnInv, TypeOK, Gens, HandlesOK, HandleOK
<1>3. ASSUME UNCHANGED handles, \A i \in HandleSlots : HandleOK(handles[i])'
      PROVE  HandlesOK' /\ TokensOK'
  BY <1>1, <1>3 DEF HandlesOK, HandleOK, TokensOK
<1>4. CASE (\E v \in Values : PutBegin(v)) \/ DeleteBegin
  <2>1. CASE UNCHANGED <<pc, op>>
    BY <1>1, <1>4, <2>1, BeginStep DEF HandlesOK, HandleOK, TokensOK
  <2>2. CASE ~UNCHANGED <<pc, op>>
    <3> SUFFICES ASSUME NEW i \in HandleSlots, handles[i].token # 0
                 PROVE  HandleOK(handles[i])'
      BY <1>3, <1>4, BeginStep DEF HandleOK
    <3>1. PICK s \in Slots : parse_commit(cache, s) /\ handles[i].gen <= cache[C(s)].gen
      BY <1>2 DEF HandleOK
    <3>2. PICK u \in Slots : Leads(cache, u) /\ op'.slot = 1 - u
      BY <1>4, <2>2, <3>1, BeginStep
    <3>3. handles[i].gen <= cache[C(u)].gen
      <4>1. CASE s = u
        BY <3>1, <4>1
      <4>2. CASE s = 1 - u
        <5>1. cache[C(s)].gen < cache[C(u)].gen
          BY <3>1, <3>2, <4>2 DEF Leads
        <5> QED BY <1>2, <3>1, <5>1, FidFacts
      <4> QED BY <4>1, <4>2, FidFacts
    <3>4. u # op'.slot /\ parse_commit(cache, u)
      BY <3>2, FidFacts DEF Leads
    <3> QED BY <1>2, <1>4, <3>3, <3>4, BeginStep DEF HandleOK
  <2> QED BY <2>1, <2>2
<1>5. CASE RemoveCommit \/ RemoveRecord \/ WriteRecord \/ WriteCommit
  <2> DEFINE t == op.slot
             o == 1 - op.slot
  <2>1. /\ pc # "idle" /\ UNCHANGED handles
        /\ cache'[C(o)] = cache[C(o)]
        /\ parse_commit(cache', o) <=> parse_commit(cache, o)
        /\ Committed(cache', o) <=> Committed(cache, o)
        /\ Committed(cache', t) => cache'[C(t)] = NewCommit
        /\ pc' # "idle" => op' = op
        /\ t \in Slots /\ o \in Slots /\ t # o
    BY <1>5, TargetStep, SameSlot, FidFacts
  <2> SUFFICES ASSUME NEW i \in HandleSlots, handles[i].token # 0
               PROVE  HandleOK(handles[i])'
    BY <1>3, <2>1 DEF HandleOK
  <2>2. parse_commit(cache, o) /\ handles[i].gen <= cache[C(o)].gen
    BY <1>2, <2>1, FidFacts DEF HandleOK
  <2>3. op.gen = cache[C(o)].gen + 1
    BY <1>1, <2>1, <2>2 DEF CallOK
  <2>4. NewCommit.gen # handles[i].gen
    BY <1>2, <2>1, <2>2, <2>3, FidFacts DEF NewCommit
  <2>5. handles[i].slot = t \/ handles[i].slot = o
    BY <1>2, <2>1, FidFacts
  <2>6. Committed(cache', handles[i].slot) /\ cache'[C(handles[i].slot)].gen = handles[i].gen
          => cache'[C(handles[i].slot)].val = handles[i].val
    <3>1. CASE handles[i].slot = t
      BY <2>1, <2>4, <3>1
    <3>2. CASE handles[i].slot = o
      BY <1>2, <2>1, <3>2 DEF HandleOK
    <3> QED BY <2>5, <3>1, <3>2
  <2>7. handles[i].gen <= cache'[C(o)].gen /\ parse_commit(cache', o) /\ (pc' # "idle" => o # op'.slot)
    BY <2>1, <2>2
  <2> QED BY <2>1, <2>6, <2>7 DEF HandleOK
<1>6. CASE Sync1 \/ Sync2 \/ SyncTimeout
  BY <1>1, <1>6 DEF HandlesOK, HandleOK, TokensOK, Sync1, Sync2, SyncTimeout, Return
<1>7. CASE Open
  <2>1. CASE UNCHANGED handles
    BY <1>1, <1>7, <2>1, OpenStep DEF HandlesOK, HandleOK, TokensOK
  <2>2. CASE ~UNCHANGED handles
    <3>1. PICK i \in HandleSlots, s \in Slots, tok \in 1..MaxToken :
            /\ Leads(cache, s) /\ ~InUse(tok)
            /\ handles' = [handles EXCEPT ![i] = [token |-> tok, slot |-> s,
                             gen |-> cache[C(s)].gen, val |-> cache[C(s)].val]]
      BY <1>7, <2>2, OpenStep
    <3>2. UNCHANGED <<cache, pc, op>> /\ pc = "idle"
      BY <1>7, OpenStep
    <3>3. /\ handles'[i].token = tok /\ handles'[i].slot = s
          /\ handles'[i].gen = cache[C(s)].gen /\ handles'[i].val = cache[C(s)].val
          /\ \A j \in HandleSlots : j # i => handles'[j] = handles[j]
          /\ \A j \in HandleSlots : handles[j].token # tok
      BY <1>2, <3>1 DEF InUse
    <3>4. TokensOK'
      BY <1>1, <3>3 DEF TokensOK
    <3>5. ASSUME NEW j \in HandleSlots
          PROVE  HandleOK(handles[j])'
      <4>1. CASE j = i
        <5>1. parse_commit(cache, s) /\ cache[C(s)].gen <= cache[C(s)].gen
          BY <3>1, FidFacts DEF Leads
        <5> QED BY <3>2, <3>3, <4>1, <5>1 DEF HandleOK
      <4>2. CASE j # i
        BY <1>2, <3>2, <3>3, <4>2 DEF HandleOK
      <4> QED BY <4>1, <4>2
    <3> QED BY <3>4, <3>5 DEF HandlesOK, HandleOK
  <2> QED BY <2>1, <2>2
<1>8. ASSUME NEW t \in 1..MaxToken, Close(t)
      PROVE  HandlesOK' /\ TokensOK'
  <2>1. PICK i \in HandleSlots : handles' = [handles EXCEPT ![i] = NoHandle]
    BY <1>8 DEF Close
  <2>2. handles'[i].token = 0 /\ \A j \in HandleSlots : j # i => handles'[j] = handles[j]
    BY <1>2, <2>1 DEF NoHandle
  <2>3. UNCHANGED <<cache, pc, op>>
    BY <1>8 DEF Close
  <2> QED BY <1>1, <2>2, <2>3 DEF HandlesOK, HandleOK, TokensOK
<1>9. ASSUME NEW f \in Fids, Flush(f) \/ FlushTear(f)
      PROVE  HandlesOK' /\ TokensOK'
  BY <1>1, <1>9, FlashStep DEF HandlesOK, HandleOK, TokensOK
<1>10. CASE Crash
  BY <1>10 DEF HandlesOK, HandleOK, TokensOK, Crash, NoHandle
<1>11. CASE UNCHANGED vars
  BY <1>1, <1>11 DEF HandlesOK, HandleOK, TokensOK, vars
<1> QED BY <1>4, <1>5, <1>6, <1>7, <1>8, <1>9, <1>10, <1>11 DEF Next

\* While every commit sync drains, recovery after a power loss finds nothing, the acknowledged
\* payload, or the payload of the call whose commit is in flash.
LEMMA DiskFacts ==
  ASSUME TxnInv, timeouts = 0
  PROVE  \/ /\ recover(disk) = NotFound /\ acked = NoVal
            /\ \A s \in Slots : ~Committed(disk, s)
            /\ pc # "idle" => op.gen # 0
         \/ \E s \in Slots :
              /\ parse_commit(disk, s) /\ recover(disk) = Found(disk, s)
              /\ Committed(disk, 1 - s) => disk[C(1 - s)].gen < disk[C(s)].gen
              /\ \/ disk[C(s)].val = acked /\ (pc # "idle" => disk[C(s)].gen # op.gen)
                 \/ pc = "sync_2" /\ s = op.slot /\ disk[C(s)] = NewCommit
<1> USE InvFacts
<1>1. CallOK /\ SteadyOK
  BY DEF TxnInv
<1>2. pc # "idle" => op.gen # 0
  BY <1>1, FidFacts DEF CallOK
<1>3. ASSUME NEW s \in Slots, parse_commit(disk, s),
             Committed(disk, 1 - s) => disk[C(1 - s)].gen < disk[C(s)].gen
      PROVE  recover(disk) = Found(disk, s)
  BY <1>3, RecoverFacts, ParsedIsCommitted DEF Leads
<1>4. ASSUME \A s \in Slots : ~Committed(disk, s)
      PROVE  recover(disk) = NotFound
  BY <1>4, RecoverFacts, ParsedIsCommitted DEF Leads
<1>5. CASE pc # "sync_2" /\ Blank
  BY <1>2, <1>4, <1>5 DEF Blank
<1>6. ASSUME NEW s \in Slots, pc # "sync_2", Stands(s), pc # "idle" => s = 1 - op.slot
      PROVE  /\ parse_commit(disk, s) /\ recover(disk) = Found(disk, s)
             /\ Committed(disk, 1 - s) => disk[C(1 - s)].gen < disk[C(s)].gen
             /\ disk[C(s)].val = acked /\ (pc # "idle" => disk[C(s)].gen # op.gen)
  <2>1. /\ parse_commit(disk, s) /\ parse_commit(cache, s)
        /\ Committed(disk, 1 - s) => disk[C(1 - s)].gen < disk[C(s)].gen
        /\ disk[C(s)] = cache[C(s)] /\ disk[C(s)].val = acked
    BY <1>6, SameSlot DEF Stands
  <2>2. pc # "idle" => op.gen = disk[C(s)].gen + 1
    BY <1>1, <1>6, <2>1 DEF CallOK
  <2>3. disk[C(s)].gen # disk[C(s)].gen + 1
    BY FidFacts
  <2> QED BY <1>3, <2>1, <2>2, <2>3
<1>7. CASE pc = "sync_2"
  <2>1. PICK t \in Slots, o \in Slots : t = op.slot /\ o = 1 - op.slot /\ o = 1 - t /\ t = 1 - o
    BY FidFacts
  <2>2. /\ disk[R(t)] = cache[R(t)] /\ disk[R(o)] = cache[R(o)] /\ disk[C(o)] = cache[C(o)]
        /\ disk[C(t)] \in {Absent, cache[C(t)]}
        /\ \/ parse_commit(cache, o) /\ cache[C(o)].val = acked
           \/ ~Committed(cache, o) /\ acked = NoVal
        /\ cache[C(t)] = NewCommit /\ cache[R(t)] = NewRecord
        /\ parse_commit(cache, o) => op.gen = cache[C(o)].gen + 1
    BY <1>1, <1>7, <2>1 DEF SteadyOK, Publishing, CallOK
  <2>3. /\ parse_commit(disk, o) <=> parse_commit(cache, o)
        /\ Committed(disk, o) <=> Committed(cache, o)
    BY <2>2, SameSlot
  <2>4. cache[C(o)].gen \in Nat /\ op.gen \in Nat
    BY FidFacts, ObjectTxnAssumption DEF Gens
  <2>5. CASE disk[C(t)] = Absent
    <3>1. ~Committed(disk, t)
      BY <2>5, FileFacts DEF Committed
    <3>2. CASE parse_commit(cache, o) /\ cache[C(o)].val = acked
      <4>1. recover(disk) = Found(disk, o)
        BY <1>3, <2>1, <2>3, <3>1, <3>2
      <4>2. disk[C(o)].gen # op.gen
        BY <2>2, <2>4, <3>2
      <4> QED BY <2>1, <2>2, <2>3, <3>1, <3>2, <4>1, <4>2
    <3>3. CASE ~Committed(cache, o) /\ acked = NoVal
      <4>1. \A s \in Slots : ~Committed(disk, s)
        BY <2>1, <2>3, <3>1, <3>3, FidFacts
      <4> QED BY <1>2, <1>4, <3>3, <4>1
    <3> QED BY <2>2, <3>2, <3>3
  <2>6. CASE disk[C(t)] = NewCommit
    <3>1. parse_commit(disk, t)
      BY <2>2, <2>6 DEF parse_commit, validate_record, NewCommit, NewRecord
    <3>2. Committed(disk, o) => disk[C(o)].gen < disk[C(t)].gen
      BY <2>2, <2>3, <2>4, <2>6 DEF NewCommit
    <3>3. recover(disk) = Found(disk, t)
      BY <1>3, <2>1, <3>1, <3>2
    <3> QED BY <1>7, <2>1, <2>6, <3>1, <3>2, <3>3
  <2> QED BY <2>2, <2>5, <2>6
<1> QED BY <1>1, <1>5, <1>6, <1>7 DEF SteadyOK

LEMMA NextSteadyOK ==
  ASSUME TxnInv, [Next]_vars
  PROVE  SteadyOK'
<1> USE InvFacts
<1>1. CallOK /\ SteadyOK /\ ParityOK /\ timeouts \in Nat
  BY ObjectTxnAssumption DEF TxnInv, TypeOK
<1>2. CASE (\E v \in Values : PutBegin(v)) \/ DeleteBegin
  <2>1. CASE UNCHANGED <<pc, op>>
    BY <1>1, <1>2, <2>1, BeginStep DEF SteadyOK, Blank, Stands, Publishing, Committed
  <2>2. CASE ~UNCHANGED <<pc, op>>
    <3>1. pc' = "remove_commit" /\ pc = "idle" /\ UNCHANGED <<cache, disk, acked, timeouts>>
      BY <1>2, <2>2, BeginStep
    <3>2. CASE Blank
      BY <3>1, <3>2 DEF SteadyOK, Blank, Committed
    <3>3. ASSUME NEW s \in Slots, Stands(s)
          PROVE  SteadyOK'
      <4>1. Leads(cache, s)
        BY <3>3, ParsedIsCommitted DEF Leads, Stands
      <4>2. PICK u \in Slots : Leads(cache, u) /\ op'.slot = 1 - u
        BY <1>2, <2>2, <4>1, BeginStep DEF Leads
      <4>3. u = s
        <5> SUFFICES ASSUME u = 1 - s PROVE FALSE
          BY FidFacts
        <5>1. cache[C(u)].gen < cache[C(s)].gen /\ cache[C(s)].gen < cache[C(u)].gen
          BY <4>1, <4>2, FidFacts DEF Leads
        <5> QED BY <5>1, FidFacts
      <4>4. s = 1 - op'.slot
        BY <4>2, <4>3, FidFacts
      <4>5. Stands(s)'
        BY <3>1, <3>3 DEF Stands, Committed
      <4> QED BY <3>1, <4>4, <4>5 DEF SteadyOK
    <3>4. timeouts = 0 => Blank \/ \E s \in Slots : Stands(s)
      BY <1>1, <3>1 DEF SteadyOK
    <3> QED BY <3>1, <3>2, <3>3, <3>4 DEF SteadyOK
  <2> QED BY <2>1, <2>2
<1>3. CASE RemoveCommit \/ RemoveRecord \/ WriteRecord \/ WriteCommit
  <2>0. PICK t \in Slots, o \in Slots :
          /\ t = op.slot /\ o = 1 - op.slot /\ t # o /\ 1 - o = t
          /\ \A s \in Slots : s = t \/ s = o
    BY FidFacts
  <2>1. /\ pc \notin {"idle", "sync_1", "sync_2"}
        /\ UNCHANGED <<disk, acked, timeouts>>
        /\ cache'[R(o)] = cache[R(o)] /\ cache'[C(o)] = cache[C(o)]
        /\ parse_commit(cache', o) <=> parse_commit(cache, o)
        /\ Committed(cache', o) <=> Committed(cache, o)
        /\ Committed(cache', t) => pc' = "sync_2"
        /\ pc' # "idle" => op' = op
        /\ pc' # "write_commit"
        /\ pc' = "sync_2" => pc = "write_commit" /\ cache'[C(t)] = NewCommit
                             /\ cache'[R(t)] = NewRecord
    BY <1>3, <2>0, TargetStep, SameSlot
  <2> SUFFICES ASSUME timeouts = 0
               PROVE  /\ pc' # "sync_2" => Blank' \/ \E s \in Slots : Stands(s)' /\ (pc' # "idle" => s = 1 - op'.slot)
                      /\ pc' = "sync_2" => Publishing'
    BY <2>1 DEF SteadyOK
  <2>2. Blank \/ Stands(o)
    BY <1>1, <2>0, <2>1 DEF SteadyOK
  <2>3. CASE pc' # "sync_2"
    <3>1. CASE Blank
      BY <2>0, <2>1, <2>3, <3>1 DEF Blank, Committed
    <3>2. CASE Stands(o)
      <4>1. Stands(o)'
        BY <2>0, <2>1, <2>3, <3>2 DEF Stands, Committed
      <4> QED BY <2>0, <2>1, <2>3, <4>1
    <3> QED BY <2>2, <2>3, <3>1, <3>2
  <2>4. CASE pc' = "sync_2"
    <3>1. cache = disk /\ cache[C(t)] = Absent /\ cache[R(t)] = NewRecord
      BY <1>1, <2>0, <2>1, <2>4 DEF SteadyOK, CallOK
    <3>2. \/ parse_commit(cache, o) /\ cache[C(o)].val = acked
          \/ ~Committed(cache, o) /\ acked = NoVal
      BY <2>1, <2>2 DEF Blank, Stands
    <3>3. op' = op
      BY <2>1, <2>4
    <3> QED BY <2>0, <2>1, <2>4, <3>1, <3>2, <3>3 DEF Publishing
  <2> QED BY <2>3, <2>4
<1>4. CASE Sync1
  BY <1>1, <1>4 DEF SteadyOK, Blank, Stands, Committed, Sync1
<1>5. CASE Sync2
  <2>1. /\ pc = "sync_2" /\ cache = disk /\ pc' = "idle" /\ acked' = op.val
        /\ UNCHANGED <<cache, disk, timeouts>>
    BY <1>5 DEF Sync2, Return
  <2>2. PICK t \in Slots, o \in Slots : t = op.slot /\ o = 1 - op.slot /\ o = 1 - t
    BY FidFacts
  <2> SUFFICES ASSUME timeouts = 0 PROVE Stands(t)'
    BY <2>1 DEF SteadyOK
  <2>3. cache[C(t)] = NewCommit /\ cache[R(t)] = NewRecord
    BY <1>1, <2>1, <2>2 DEF CallOK
  <2>4. parse_commit(cache, t) /\ cache[C(t)].val = op.val /\ cache[C(t)].gen = op.gen
    BY <2>3 DEF parse_commit, validate_record, NewCommit, NewRecord
  <2>5. Committed(cache, o) => op.gen = cache[C(o)].gen + 1
    BY <1>1, <2>1, <2>2 DEF SteadyOK, Publishing, CallOK
  <2>6. Committed(cache, o) => cache[C(o)].gen < op.gen
    BY <2>5, FidFacts
  <2> QED BY <2>1, <2>2, <2>4, <2>6 DEF Stands, Committed
<1>6. CASE SyncTimeout
  BY <1>1, <1>6 DEF SteadyOK, SyncTimeout
<1>7. CASE Open
  BY <1>1, <1>7, OpenStep DEF SteadyOK, Blank, Stands, Publishing, Committed
<1>8. ASSUME NEW t \in 1..MaxToken, Close(t)
      PROVE  SteadyOK'
  BY <1>1, <1>8 DEF SteadyOK, Blank, Stands, Publishing, Committed, Close
<1>9. ASSUME NEW f \in Fids, Flush(f) \/ FlushTear(f)
      PROVE  SteadyOK'
  <2>1. /\ disk' \in [Fids -> Files]
        /\ disk'[f] = cache[f] \/ disk'[f] = Torn
        /\ disk'[f] = Torn => disk[f].kind \in {"record", "commit", "tombstone"} \/ cache[f] = Torn
        /\ disk[f] # cache[f]
        /\ \A g \in Fids : g # f => disk'[g] = disk[g]
        /\ UNCHANGED <<cache, pc, op, acked, timeouts>>
    BY <1>9, FlashStep
  <2>2. ASSUME NEW s \in Slots, Committed(disk', s)
        PROVE  (Committed(disk, s) /\ disk'[C(s)] = disk[C(s)])
               \/ (Committed(cache, s) /\ disk'[C(s)] = cache[C(s)])
    BY <2>1, <2>2, FidFacts, FileFacts DEF Committed
  <2>3. ASSUME Blank PROVE Blank'
    BY <2>1, <2>2, <2>3 DEF Blank, Committed
  <2>4. ASSUME NEW s \in Slots, Stands(s) PROVE Stands(s)'
    <3>1. f # R(s) /\ f # C(s)
      BY <2>1, <2>4 DEF Stands
    <3>2. disk'[R(s)] = disk[R(s)] /\ disk'[C(s)] = disk[C(s)]
      BY <2>1, <3>1, FidFacts
    <3>3. Committed(disk', 1 - s) => disk'[C(1 - s)].gen < cache[C(s)].gen
      BY <2>2, <2>4, FidFacts DEF Stands
    <3> QED BY <2>1, <2>4, <3>2, <3>3 DEF Stands, Committed
  <2>5. ASSUME pc = "sync_2", Publishing PROVE Publishing'
    <3>1. PICK t \in Slots, o \in Slots : t = op.slot /\ o = 1 - op.slot /\ o # t
      BY FidFacts
    <3>2. f = C(t) /\ disk[f] = Absent
      BY <2>1, <2>5, <3>1, FidFacts DEF Publishing
    <3>3. disk'[C(t)] = cache[C(t)]
      BY <2>1, <3>2, FileFacts
    <3>4. disk'[R(t)] = disk[R(t)] /\ disk'[R(o)] = disk[R(o)] /\ disk'[C(o)] = disk[C(o)]
      BY <2>1, <3>1, <3>2, FidFacts
    <3> QED BY <2>1, <2>5, <3>1, <3>3, <3>4 DEF Publishing, Committed
  <2>6. pc # "write_commit" \/ timeouts # 0
    BY <1>1, <2>1 DEF SteadyOK
  <2> QED BY <1>1, <2>1, <2>3, <2>4, <2>5, <2>6 DEF SteadyOK
<1>10. CASE Crash
  <2>1. /\ cache' = disk /\ disk' = disk /\ pc' = "idle" /\ timeouts' = timeouts
        /\ acked' = recover(disk).val
    BY <1>10 DEF Crash
  <2> SUFFICES ASSUME timeouts = 0
               PROVE  Blank' \/ \E s \in Slots : Stands(s)'
    BY <2>1 DEF SteadyOK
  <2>2. CASE recover(disk) = NotFound /\ \A s \in Slots : ~Committed(disk, s)
    BY <2>1, <2>2 DEF Blank, Committed, NotFound
  <2>3. CASE \E s \in Slots : /\ parse_commit(disk, s) /\ recover(disk) = Found(disk, s)
                              /\ Committed(disk, 1 - s) => disk[C(1 - s)].gen < disk[C(s)].gen
    <3>1. PICK s \in Slots : /\ parse_commit(disk, s) /\ recover(disk) = Found(disk, s)
                             /\ Committed(disk, 1 - s) => disk[C(1 - s)].gen < disk[C(s)].gen
      BY <2>3
    <3>2. acked' = disk[C(s)].val
      BY <2>1, <3>1 DEF Found
    <3>3. Stands(s)'
      BY <2>1, <3>1, <3>2 DEF Stands, Committed
    <3> QED BY <3>3
  <2> QED BY <2>2, <2>3, DiskFacts
<1>11. CASE UNCHANGED vars
  BY <1>1, <1>11 DEF SteadyOK, Blank, Stands, Publishing, Committed, vars
<1> QED BY <1>2, <1>3, <1>4, <1>5, <1>6, <1>7, <1>8, <1>9, <1>10, <1>11 DEF Next

LEMMA NextTxnInv == TxnInv /\ [Next]_vars => TxnInv'
BY NextTypeOK, NextParityOK, NextCallOK, NextHandlesOK, NextSteadyOK DEF TxnInv

-----------------------------------------------------------------------------
(* Theorems *)

\* The inductive invariant holds in every reachable state of object_store_txn.c.
THEOREM TxnInvariant == Spec => []TxnInv
BY InitTxnInv, NextTxnInv, PTL DEF Spec

\* Type correctness of the transaction state of object_store_txn.c.
THEOREM TxnTypeCorrect == Spec => []TypeOK
<1>1. TxnInv => TypeOK
  BY DEF TxnInv
<1> QED BY <1>1, TxnInvariant, PTL

\* file_object_txn_put and _delete are durable: whenever power is lost, recovery finds what was
\* last acknowledged, or what the call under way stores once its commit is on its way to flash;
\* and no sequence of failures makes it meet two commits of one generation.
THEOREM DurableHolds == Spec => []Durable
<1>1. ASSUME TxnInv PROVE Durable
  <2>1. ~Ambiguous(cache) /\ ~Ambiguous(disk)
    BY <1>1, InvFacts, RecoverFacts
  <2>2. ASSUME timeouts = 0
        PROVE  /\ recover(disk).status # "wrong_data"
               /\ recover(disk).val = acked \/ (pc = "sync_2" /\ recover(disk).val = op.val)
    BY <1>1, <2>2, DiskFacts DEF NotFound, Found, NewCommit
  <2> QED BY <2>1, <2>2 DEF Durable
<1> QED BY <1>1, TxnInvariant, PTL

\* file_object_txn_resolve, which compares generations and not payloads, never hands a reader
\* a payload other than the one its handle was opened on, and a token is never shared, across the
\* wrap of the token counter.
THEOREM HandlesHold == Spec => []HandleReadsItsVersion
<1>1. ASSUME TxnInv PROVE HandleReadsItsVersion
  <2> SUFFICES ASSUME NEW i \in HandleSlots, resolve(handles[i])
               PROVE  /\ recover(cache).val = handles[i].val
                      /\ \A j \in HandleSlots : handles[j].token = handles[i].token => i = j
    BY DEF HandleReadsItsVersion
  <2>1. /\ handles[i].token # 0 /\ recover(cache).status = "ok"
        /\ recover(cache).gen = handles[i].gen /\ recover(cache).slot = handles[i].slot
    BY DEF resolve
  <2>2. PICK s \in Slots : Leads(cache, s) /\ recover(cache) = Found(cache, s)
    BY <1>1, <2>1, InvFacts, RecoverFacts DEF NotFound
  <2>3. /\ handles[i].slot = s /\ handles[i].gen = cache[C(s)].gen
        /\ recover(cache).val = cache[C(s)].val
    BY <2>1, <2>2 DEF Found
  <2>4. Committed(cache, s)
    BY <2>2, ParsedIsCommitted DEF Leads
  <2> QED BY <1>1, <2>1, <2>3, <2>4 DEF TxnInv, HandlesOK, HandleOK, TokensOK
<1> QED BY <1>1, TxnInvariant, PTL

-----------------------------------------------------------------------------
(* Refinement of AtomicObject *)

\* What a power loss at this moment would leave: the acknowledged payload, or the payload of the
\* call whose commit is in flash.
ViewOK ==
  \/ recover(disk).val = acked /\ (pc # "idle" => recover(disk).gen # op.gen)
  \/ /\ pc = "sync_2" /\ disk[C(op.slot)] = NewCommit
     /\ recover(disk).val = op.val /\ recover(disk).gen = op.gen

LEMMA ViewHolds == TxnInv /\ timeouts = 0 => ViewOK
BY DiskFacts DEF ViewOK, NotFound, Found, NewCommit

\* Once its commit is in flash, a call has nothing left to write back.
LEMMA AppliedIsClean ==
  ASSUME TxnInv, timeouts = 0, pc = "sync_2", disk[C(op.slot)] = NewCommit
  PROVE  \A f \in Fids : disk[f] = cache[f]
<1>1. /\ \A s \in Slots : s = op.slot \/ s = 1 - op.slot
      /\ \A f \in Fids : \E s \in Slots : f = R(s) \/ f = C(s)
  BY InvFacts, FidFacts
<1>2. /\ disk[R(op.slot)] = cache[R(op.slot)]
      /\ disk[R(1 - op.slot)] = cache[R(1 - op.slot)]
      /\ disk[C(1 - op.slot)] = cache[C(1 - op.slot)]
      /\ cache[C(op.slot)] = NewCommit
  BY DEF TxnInv, SteadyOK, Publishing, CallOK
<1> QED BY <1>1, <1>2

\* When the second sync comes back, recovery selects the new commit.
LEMMA SyncedIsApplied ==
  ASSUME TxnInv, timeouts = 0, pc = "sync_2", cache = disk
  PROVE  recover(disk).gen = op.gen
<1> USE InvFacts
<1>1. PICK t \in Slots, o \in Slots : t = op.slot /\ o = 1 - op.slot /\ o = 1 - t
  BY FidFacts
<1>2. /\ disk[C(t)] = NewCommit /\ disk[R(t)] = NewRecord
      /\ parse_commit(disk, o) => op.gen = disk[C(o)].gen + 1
  BY <1>1 DEF TxnInv, CallOK
<1>3. parse_commit(disk, t) /\ disk[C(t)].gen = op.gen
  BY <1>2 DEF parse_commit, validate_record, NewCommit, NewRecord
<1>4. parse_commit(disk, o) => disk[C(o)].gen < op.gen
  BY <1>2, FidFacts
<1>5. recover(disk) = Found(disk, t)
  BY <1>1, <1>3, <1>4, RecoverFacts DEF Leads
<1> QED BY <1>3, <1>5 DEF Found

\* Every step of the store is a step of the atomic object or leaves it alone.
LEMMA AtomicStep ==
  ASSUME TxnInv, timeouts = 0, timeouts' = 0, ViewOK, ViewOK', [Next]_vars
  PROVE  [Atomic!Next]_(Atomic!vars)
<1> USE InvFacts
<1>1. CASE (\E v \in Values : PutBegin(v)) \/ DeleteBegin
  <2>1. CASE UNCHANGED <<pc, op>>
    BY <1>1, <2>1, BeginStep DEF Atomic!vars
  <2>2. CASE ~UNCHANGED <<pc, op>>
    <3>1. pc = "idle" /\ pc' = "remove_commit" /\ disk' = disk /\ op'.val \in Values \cup {NoVal}
      BY <1>1, <2>2, BeginStep DEF Ops
    <3> QED BY <3>1 DEF Atomic!Next, Atomic!Begin
  <2> QED BY <2>1, <2>2
<1>2. CASE RemoveCommit \/ RemoveRecord \/ WriteRecord \/ WriteCommit
  <2>1. pc # "idle" /\ pc # "sync_2" /\ disk' = disk /\ recover(disk).gen # op.gen
    BY <1>2, TargetStep DEF ViewOK
  <2>2. CASE pc' = "idle"
    <3>1. op'.val = NoVal
      BY <1>2, <2>2, TargetStep DEF NoOp
    <3> QED BY <2>1, <2>2, <3>1 DEF Atomic!Next, Atomic!ReturnError, Atomic!Finish
  <2>3. CASE pc' # "idle"
    <3>1. op' = op
      BY <1>2, <2>3, TargetStep
    <3> QED BY <2>1, <2>3, <3>1 DEF Atomic!vars
  <2> QED BY <2>2, <2>3
<1>3. CASE Sync1
  BY <1>3 DEF Sync1, Atomic!vars
<1>4. CASE Sync2
  <2>1. /\ pc = "sync_2" /\ cache = disk /\ pc' = "idle" /\ op' = NoOp /\ disk' = disk
    BY <1>4 DEF Sync2, Return
  <2>2. recover(disk).gen = op.gen
    BY <2>1, SyncedIsApplied
  <2> QED BY <2>1, <2>2 DEF Atomic!Next, Atomic!ReturnOk, Atomic!Finish, NoOp
<1>5. CASE SyncTimeout
  BY <1>5 DEF SyncTimeout
<1>6. CASE Open
  BY <1>6, OpenStep DEF Atomic!vars
<1>7. ASSUME NEW t \in 1..MaxToken, Close(t)
      PROVE  UNCHANGED Atomic!vars
  BY <1>7 DEF Close, Atomic!vars
<1>8. ASSUME NEW f \in Fids, Flush(f) \/ FlushTear(f)
      PROVE  [Atomic!Next]_(Atomic!vars)
  <2>1. disk[f] # cache[f] /\ UNCHANGED <<pc, op, acked>>
    BY <1>8, FlashStep
  <2>2. recover(disk).val = acked /\ (pc # "idle" => recover(disk).gen # op.gen)
    BY <2>1, AppliedIsClean DEF ViewOK
  <2>3. CASE recover(disk').val = acked /\ (pc # "idle" => recover(disk').gen # op.gen)
    BY <2>1, <2>2, <2>3 DEF Atomic!vars
  <2>4. CASE pc = "sync_2" /\ recover(disk').val = op.val /\ recover(disk').gen = op.gen
    BY <2>1, <2>2, <2>4 DEF Atomic!Next, Atomic!Apply
  <2> QED BY <2>1, <2>3, <2>4 DEF ViewOK
<1>9. CASE Crash
  <2>1. pc' = "idle" /\ op' = NoOp /\ disk' = disk
    BY <1>9 DEF Crash
  <2>2. CASE pc = "idle"
    <3>1. op = NoOp
      BY <2>2 DEF TxnInv, CallOK
    <3> QED BY <2>1, <2>2, <3>1 DEF Atomic!vars
  <2>3. CASE pc # "idle"
    BY <2>1, <2>3 DEF Atomic!Next, Atomic!PowerLoss, Atomic!Finish, NoOp
  <2> QED BY <2>2, <2>3
<1>10. CASE UNCHANGED vars
  BY <1>10 DEF vars, Atomic!vars
<1> QED BY <1>1, <1>2, <1>3, <1>4, <1>5, <1>6, <1>7, <1>8, <1>9, <1>10 DEF Next

\* As long as every commit sync drains, object_store_txn.c implements the atomic object: a put or
\* delete takes effect at one instant, an error means that nothing changed, and a power loss
\* forgets the call but never the value.
THEOREM Refinement == Spec /\ [](timeouts = 0) => ImplementsAtomicObject
<1>1. Init => Atomic!Init
  <2> SUFFICES ASSUME Init PROVE Atomic!Init
    OBVIOUS
  <2>1. TxnInv
    BY InitTxnInv
  <2>2. \A s \in Slots : ~parse_commit(disk, s)
    BY FidFacts, FileFacts, ParsedIsCommitted DEF Init, Committed
  <2>3. recover(disk) = NotFound
    BY <2>1, <2>2, InvFacts, RecoverFacts DEF Leads
  <2> QED BY <2>3 DEF Init, Atomic!Init, NotFound, NoOp
<1>2. /\ TxnInv /\ timeouts = 0 /\ (timeouts = 0)' /\ ViewOK /\ ViewOK' /\ [Next]_vars
      => [Atomic!Next]_(Atomic!vars)
  BY AtomicStep
<1> QED BY <1>1, <1>2, TxnInvariant, ViewHolds, PTL DEF Spec, ImplementsAtomicObject, Atomic!Spec

================================================================================
