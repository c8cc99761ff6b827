------------------------------- MODULE ObjectTxn -------------------------------
(***************************************************************************)
(* The transactional object of fs/object_store_txn.c: one object kept in   *)
(* two slots, each a record file and a commit file.  A commit authenticates *)
(* the record of its own slot, so a slot counts only when both agree, and  *)
(* the slot with the higher generation is the object.                      *)
(*                                                                         *)
(* Underneath is the file layer of fs/file.c and fs/low_flash.c, at the    *)
(* level object_store_txn.c uses it: `cache` is what file_search and       *)
(* file_read_at see (dirty sectors included), `disk` is what a power cycle *)
(* leaves.  Dirty files reach the flash in any order, at any time, and the *)
(* removal of a file can be cut short, leaving a file whose tag no longer  *)
(* matches.  The publication of a new file is all or nothing.              *)
(***************************************************************************)
EXTENDS Naturals, FiniteSets

CONSTANTS
  Values,       \* the payloads a caller may store
  NoVal,        \* no payload: the object is absent or deleted
  MaxGen,       \* the largest generation (UINT32_MAX in the code)
  MaxHandles,   \* FILE_OBJECT_TXN_MAX_HANDLES
  MaxToken,     \* the largest handle token before the counter wraps to 0
  MaxFaults,    \* bound on failed file operations in a behaviour
  MaxTimeouts,  \* bound on flash_commit_sync calls that give up
  MaxCrashes    \* bound on power losses

ASSUME ObjectTxnAssumption ==
  /\ NoVal \notin Values
  /\ MaxGen \in Nat \ {0}
  /\ MaxHandles \in Nat
  /\ MaxToken \in Nat \ {0} /\ MaxToken > MaxHandles
  /\ MaxFaults \in Nat /\ MaxTimeouts \in Nat /\ MaxCrashes \in Nat

VARIABLES
  cache,     \* the four files as the running firmware reads them
  disk,      \* the four files as they are in flash
  pc,        \* the step of file_object_txn_put or _delete under way
  op,        \* its locals: target slot, generation and payload (NoVal: delete)
  ret,       \* how the last call returned
  handles,   \* file_object_txn_handles
  next,      \* file_object_txn_next_handle
  acked,     \* what the last acknowledged call, or the last boot, left stored
  faults, timeouts, crashes

vars == <<cache, disk, pc, op, ret, handles, next, acked, faults, timeouts, crashes>>

-----------------------------------------------------------------------------
(* Files *)

Slots == {0, 1}
Fids  == {"record", "commit"} \X Slots
R(s)  == <<"record", s>>
C(s)  == <<"commit", s>>

\* A file is absent, torn (it fails its size, header or tag check), a record, a
\* commit of a record or a commit of a deletion.  The payload in a commit stands
\* for the record tag it carries.
Kinds  == {"absent", "torn", "record", "commit", "tombstone"}
Gens   == 0..MaxGen
Files  == [kind : Kinds, gen : Gens, val : Values \cup {NoVal}]
Absent == [kind |-> "absent", gen |-> 0, val |-> NoVal]
Torn   == [kind |-> "torn", gen |-> 0, val |-> NoVal]

-----------------------------------------------------------------------------
(* Recovery *)

\* The checks of a record against the commit that names it.
validate_record(m, s, commit) ==
  /\ m[R(s)].kind = "record"
  /\ m[R(s)].gen = commit.gen
  /\ m[R(s)].val = commit.val

\* A slot counts when its commit is genuine and, unless it is a tombstone, so is
\* the record it names.  The writer always names the record of its own slot.
parse_commit(m, s) ==
  \/ m[C(s)].kind = "tombstone"
  \/ m[C(s)].kind = "commit" /\ validate_record(m, s, m[C(s)])

Valid(m) == {s \in Slots : parse_commit(m, s)}

\* The slot recovery selects, when one slot counts or two of different generations do.
Selected(m) == CHOOSE s \in Valid(m) : \A t \in Valid(m) : m[C(t)].gen <= m[C(s)].gen

Ambiguous(m) == \A s \in Slots : parse_commit(m, s) /\ m[C(s)].gen = m[C(0)].gen

\* file_object_txn_recover: status, commit slot, generation and payload.
recover(m) ==
  LET valid == Valid(m)
      sel   == Selected(m)
  IN  CASE Ambiguous(m) -> [status |-> "wrong_data", slot |-> 0, gen |-> 0, val |-> NoVal]
        [] valid = {}   -> [status |-> "not_found", slot |-> 0, gen |-> 0, val |-> NoVal]
        [] OTHER        -> [status |-> "ok", slot |-> sel,
                            gen |-> m[C(sel)].gen, val |-> m[C(sel)].val]

-----------------------------------------------------------------------------
(* Handles *)

NoHandle    == [token |-> 0, slot |-> 0, gen |-> 0, val |-> NoVal]
HandleSlots == 1..MaxHandles
InUse(t)    == \E i \in HandleSlots : handles[i].token = t

\* Mutated form: a token still in use is handed out again.
allocate_token_InUse == IF next = 0 THEN 1 ELSE next

\* The next token that is neither the invalid handle 0 nor still in use: the counter
\* is a uint32_t and wraps.
allocate_token ==
  LET ahead(k) == (next + k) % (MaxToken + 1)
      good(k)  == ahead(k) # 0 /\ ~InUse(ahead(k))
  IN  ahead(CHOOSE k \in 0..MaxToken : good(k) /\ \A j \in 0..MaxToken : good(j) => k <= j)

\* file_object_txn_resolve: a handle is good while recovery still selects the very
\* state it was opened on (val is not part of the entry: it is what was stored then).
resolve(h) ==
  /\ h.token # 0
  /\ LET r == recover(cache) IN
       r.status = "ok" /\ r.val # NoVal /\ r.gen = h.gen /\ r.slot = h.slot

-----------------------------------------------------------------------------
NoOp == [slot |-> 0, gen |-> 0, val |-> NoVal]

Init ==
  /\ cache = [f \in Fids |-> Absent]
  /\ disk = [f \in Fids |-> Absent]
  /\ pc = "idle" /\ op = NoOp /\ ret = "none"
  /\ handles = [i \in HandleSlots |-> NoHandle] /\ next = 1
  /\ acked = NoVal
  /\ faults = 0 /\ timeouts = 0 /\ crashes = 0

Return(r) ==
  /\ pc' = "idle" /\ op' = NoOp /\ ret' = r
  /\ acked' = IF r = "ok" THEN op.val ELSE acked

Fault == faults < MaxFaults /\ faults' = faults + 1

\* Mutated form: the slot in use is overwritten.
next_state_SameSlot ==
  IF recover(cache).status = "not_found"
  THEN [slot |-> 0, gen |-> 1]
  ELSE [slot |-> recover(cache).slot, gen |-> recover(cache).gen + 1]

\* file_object_txn_next_state: where the next generation goes.
next_state ==
  IF recover(cache).status = "not_found"
  THEN [slot |-> 0, gen |-> 1]
  ELSE [slot |-> 1 - recover(cache).slot, gen |-> recover(cache).gen + 1]

\* Mutated form: the generation is not checked against its largest value.
PutBegin_NoLimit(v) ==
  /\ pc = "idle"
  /\ pc' = "remove_commit" /\ ret' = "none"
  /\ op' = [slot |-> next_state.slot, gen |-> next_state.gen, val |-> v]
  /\ UNCHANGED <<cache, disk, handles, next, acked, faults, timeouts, crashes>>

\* file_object_txn_put up to its first change to storage.
PutBegin(v) ==
  /\ pc = "idle"
  /\ IF recover(cache).status = "wrong_data" \/ recover(cache).gen = MaxGen
     THEN pc' = pc /\ op' = op /\ ret' = "wrong_data"
     ELSE /\ pc' = "remove_commit" /\ ret' = "none"
          /\ op' = [slot |-> next_state.slot, gen |-> next_state.gen, val |-> v]
  /\ UNCHANGED <<cache, disk, handles, next, acked, faults, timeouts, crashes>>

\* file_object_txn_delete up to its first change to storage.
DeleteBegin ==
  /\ pc = "idle"
  /\ LET r == recover(cache) IN
     IF r.status # "ok" \/ r.val = NoVal \/ r.gen = MaxGen
     THEN /\ pc' = pc /\ op' = op
          /\ ret' = IF r.status = "wrong_data" \/ (r.val # NoVal /\ r.gen = MaxGen)
                    THEN "wrong_data" ELSE "not_found"
     ELSE /\ pc' = "remove_commit" /\ ret' = "none"
          /\ op' = [slot |-> 1 - r.slot, gen |-> r.gen + 1, val |-> NoVal]
  /\ UNCHANGED <<cache, disk, handles, next, acked, faults, timeouts, crashes>>

\* file_object_txn_remove_file, for the commit and then the record of the target slot.
\* A removal that fails half way leaves a file that no longer authenticates.
RemoveFile(at, f, then) ==
  /\ pc = at
  /\ \/ /\ cache' = [cache EXCEPT ![f] = Absent]
        /\ pc' = then
        /\ UNCHANGED <<op, ret, acked, faults>>
     \/ /\ Fault /\ cache[f] # Absent
        /\ cache' = [cache EXCEPT ![f] = Torn]
        /\ Return("error")
  /\ UNCHANGED <<disk, handles, next, timeouts, crashes>>

RemoveCommit == RemoveFile("remove_commit", C(op.slot), "remove_record")
RemoveRecord == RemoveFile("remove_record", R(op.slot),
                           IF op.val = NoVal THEN "sync_1" ELSE "write_record")

\* file_object_txn_replace_file over a file already removed: published or, when the
\* flash is full or the cache cannot be drained, not there at all.
WriteFile(at, f, content, then) ==
  /\ pc = at
  /\ \/ /\ cache' = [cache EXCEPT ![f] = content]
        /\ pc' = then
        /\ UNCHANGED <<op, ret, acked, faults>>
     \/ /\ Fault
        /\ cache' = [cache EXCEPT ![f] = Absent]
        /\ Return("error")
  /\ UNCHANGED <<disk, handles, next, timeouts, crashes>>

\* file_object_txn_write_record.
WriteRecord ==
  WriteFile("write_record", R(op.slot),
            [kind |-> "record", gen |-> op.gen, val |-> op.val], "sync_1")

\* file_object_txn_write_commit, of a record or of a deletion.
WriteCommit ==
  WriteFile("write_commit", C(op.slot),
            [kind |-> IF op.val = NoVal THEN "tombstone" ELSE "commit",
             gen |-> op.gen, val |-> op.val], "sync_2")

\* flash_commit_sync comes back once nothing is dirty ...
Sync1 ==
  /\ pc = "sync_1" /\ cache = disk
  /\ pc' = "write_commit"
  /\ UNCHANGED <<cache, disk, op, ret, handles, next, acked, faults, timeouts, crashes>>

\* Mutated form: the call returns without waiting for the second sync.
Sync2_NoWait ==
  /\ pc = "sync_2"
  /\ Return("ok")
  /\ UNCHANGED <<cache, disk, handles, next, faults, timeouts, crashes>>

Sync2 ==
  /\ pc = "sync_2" /\ cache = disk
  /\ Return("ok")
  /\ UNCHANGED <<cache, disk, handles, next, faults, timeouts, crashes>>

\* ... or after five seconds, and what is dirty stays dirty.
SyncTimeout ==
  /\ pc \in {"sync_1", "sync_2"} /\ timeouts < MaxTimeouts
  /\ timeouts' = timeouts + 1
  /\ Return("error")
  /\ UNCHANGED <<cache, disk, handles, next, faults, crashes>>

-----------------------------------------------------------------------------
\* file_object_txn_open.
Open ==
  /\ pc = "idle"
  /\ LET r == recover(cache)
         free == {i \in HandleSlots : handles[i].token = 0}
     IN  IF r.status # "ok" \/ r.val = NoVal
         THEN ret' = (IF r.status = "wrong_data" THEN "wrong_data" ELSE "not_found")
              /\ UNCHANGED <<handles, next>>
         ELSE IF free = {}
         THEN ret' = "no_memory" /\ UNCHANGED <<handles, next>>
         ELSE /\ handles' = [handles EXCEPT ![CHOOSE i \in free : \A j \in free : i <= j] =
                     [token |-> allocate_token, slot |-> r.slot, gen |-> r.gen, val |-> r.val]]
              /\ next' = (allocate_token + 1) % (MaxToken + 1)
              /\ ret' = "opened"
  /\ UNCHANGED <<cache, disk, pc, op, acked, faults, timeouts, crashes>>

\* file_object_txn_close.
Close(t) ==
  /\ pc = "idle"
  /\ \E i \in HandleSlots : handles[i].token = t /\ handles' = [handles EXCEPT ![i] = NoHandle]
  /\ ret' = "closed"
  /\ UNCHANGED <<cache, disk, pc, op, next, acked, faults, timeouts, crashes>>

-----------------------------------------------------------------------------
\* Mutated form: a removed file is never written back.
Flush_SkipsRemoved(f) ==
  /\ disk[f] # cache[f] /\ cache[f] # Absent
  /\ disk' = [disk EXCEPT ![f] = cache[f]]
  /\ UNCHANGED <<cache, pc, op, ret, handles, next, acked, faults, timeouts, crashes>>

\* low_flash_task writes a dirty file back ...
Flush(f) ==
  /\ disk[f] # cache[f]
  /\ disk' = [disk EXCEPT ![f] = cache[f]]
  /\ UNCHANGED <<cache, pc, op, ret, handles, next, acked, faults, timeouts, crashes>>

\* ... or so far only a sector of a file that is being removed or replaced.
FlushTear(f) ==
  /\ disk[f] # cache[f] /\ disk[f].kind \in {"record", "commit", "tombstone"}
  /\ disk' = [disk EXCEPT ![f] = Torn]
  /\ UNCHANGED <<cache, pc, op, ret, handles, next, acked, faults, timeouts, crashes>>

\* Power loss and the next boot: RAM is gone, the files are those in flash.
Crash ==
  /\ crashes < MaxCrashes /\ crashes' = crashes + 1
  /\ cache' = disk
  /\ pc' = "idle" /\ op' = NoOp /\ ret' = "none"
  /\ handles' = [i \in HandleSlots |-> NoHandle] /\ next' = 1
  /\ acked' = recover(disk).val
  /\ UNCHANGED <<disk, faults, timeouts>>

Next ==
  \/ \E v \in Values : PutBegin(v)
  \/ DeleteBegin
  \/ RemoveCommit \/ RemoveRecord \/ WriteRecord \/ WriteCommit
  \/ Sync1 \/ Sync2 \/ SyncTimeout
  \/ Open \/ \E t \in 1..MaxToken : Close(t)
  \/ \E f \in Fids : Flush(f) \/ FlushTear(f)
  \/ Crash

\* Core 0 keeps calling low_flash_task, and the worker that runs the call keeps going.
Fairness ==
  /\ \A f \in Fids : WF_vars(Flush(f))
  /\ WF_vars(RemoveCommit) /\ WF_vars(RemoveRecord)
  /\ WF_vars(WriteRecord) /\ WF_vars(WriteCommit)
  /\ WF_vars(Sync1) /\ WF_vars(Sync2)

Spec == Init /\ [][Next]_vars /\ Fairness

-----------------------------------------------------------------------------
(* Properties *)

\* Type invariant of the transaction state of object_store_txn.c.
TypeOK ==
  /\ cache \in [Fids -> Files] /\ disk \in [Fids -> Files]
  /\ pc \in {"idle", "remove_commit", "remove_record", "write_record", "sync_1",
             "write_commit", "sync_2"}
  /\ op \in [slot : Slots, gen : Gens, val : Values \cup {NoVal}]
  /\ ret \in {"none", "ok", "error", "wrong_data", "not_found", "no_memory", "opened", "closed"}
  /\ handles \in [HandleSlots -> [token : 0..MaxToken, slot : Slots, gen : Gens,
                                  val : Values \cup {NoVal}]]
  /\ next \in 0..MaxToken
  /\ acked \in Values \cup {NoVal}
  /\ faults \in 0..MaxFaults /\ timeouts \in 0..MaxTimeouts /\ crashes \in 0..MaxCrashes

\* Whatever the moment power is lost, recovery finds in flash exactly what the last
\* acknowledged put or delete stored, or, from the moment its commit is being written
\* back, what the call under way stores: never nothing, never an ambiguous pair.
\* That relies on every commit sync draining.  Once one has timed out, recovery still meets no two
\* genuine commits of one generation, which it could only refuse (WRONG_DATA), neither running
\* nor after a power loss.
Durable ==
  /\ ~Ambiguous(cache) /\ ~Ambiguous(disk)
  /\ timeouts = 0 =>
       /\ recover(disk).status # "wrong_data"
       /\ recover(disk).val = acked \/ (pc = "sync_2" /\ recover(disk).val = op.val)

\* A handle that still resolves reads the payload it was opened on, whatever puts and deletes,
\* given up or not, came between (file_object_txn_resolve compares generations, not payloads),
\* and no other handle answers to its token, across the wrap of the token counter.
HandleReadsItsVersion ==
  \A i \in HandleSlots :
    resolve(handles[i]) =>
      /\ recover(cache).val = handles[i].val
      /\ \A j \in HandleSlots : handles[j].token = handles[i].token => i = j

\* What test_transaction_commit_boundaries expects of a put that fails at a commit sync:
\* what was acknowledged before it is still found after a reboot.
AckedNeverVanishes == acked # NoVal => recover(disk).status = "ok"

\* The atomic object this store implements as long as every commit sync drains: a call
\* takes effect the instant its commit reaches the flash.
Atomic == INSTANCE AtomicObject WITH
  stored <- recover(disk).val,
  phase  <- IF pc = "idle" THEN "idle"
            ELSE IF pc = "sync_2" /\ recover(disk).gen = op.gen THEN "applied" ELSE "open",
  new    <- op.val

ImplementsAtomicObject == Atomic!Spec

\* Every put and delete returns: commit syncs complete because core 0 keeps draining.
Returns == pc # "idle" ~> pc = "idle"
================================================================================
