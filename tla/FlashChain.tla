------------------------------- MODULE FlashChain -------------------------------
(***************************************************************************)
(* The file records of fs/flash.c and flash_clear_file of fs/file.c: a     *)
(* doubly linked chain that starts at end_data_pool and runs downwards     *)
(* through flash, changed in RAM copies of its sectors that reach the      *)
(* flash one by one.                                                       *)
(*                                                                         *)
(* A cell holds one record, header and payload, inside one sector.  A      *)
(* worker runs one operation at a time; each call of flash_program_block   *)
(* is a step.  An earlier flash_commit may still be pending, so a changed  *)
(* sector may be written at any moment, in any order (low_flash_task skips *)
(* a sector whose lockout times out), and power may be lost at any moment. *)
(***************************************************************************)
EXTENDS Naturals, FiniteSets

CONSTANTS
  Fids,         \* file identifiers
  NoFid,        \* what a cell that never held a record reads as its identifier
  Vals, NoVal,  \* payloads, and the empty one
  EndPool,      \* end_data_pool: cells EndPool-1, ..., 1 hold records, 0 is the null link
  PerSector,    \* cells in a sector
  Ops,          \* the operations clients use, of "create", "replace", "update", "delete"
  MaxOps, MaxCrashes, MaxGiveUps  \* bounds

ASSUME FlashChainAssumption ==
  /\ NoFid \notin Fids /\ NoVal \notin Vals
  /\ EndPool \in Nat \ {0} /\ PerSector \in Nat \ {0}
  /\ Ops \subseteq {"create", "replace", "update", "delete"}
  /\ MaxOps \in Nat /\ MaxCrashes \in Nat /\ MaxGiveUps \in Nat

VARIABLES
  ram,      \* the cells as flash_read_block returns them
  disk,     \* the cells in flash
  table,    \* file->data of each file: its cell, or 0
  pc, op,   \* the step under way, and the locals of the operation
  stored,   \* ghost: the files when they were last known to be in flash
  touched,  \* ghost: the files an operation was begun on since
  cleared,  \* ghost: a record was cleared, and not all of that is known to be in flash
  ops, crashes, giveUps

chainVars == <<ram, disk, table, pc, op, stored, touched, cleared, ops, crashes, giveUps>>

-----------------------------------------------------------------------------
Cells     == 1..EndPool
Sector(a) == a \div PerSector
Sectors   == {Sector(a) : a \in Cells}
Blank     == [next |-> 0, prev |-> 0, fid |-> NoFid, val |-> NoVal]

\* The cells a walk along the links meets: those no set that it cannot leave is without.  Links
\* that do not run downwards end it here (allocate_free_addr checks for them, scan_region does
\* not; ChainIsTheFiles says there are none).
Follows(m, S) == \A a \in S : m[a].next = 0 \/ m[a].next >= a \/ m[a].next \in S
Chain(m) ==
  {a \in Cells : \A S \in SUBSET (Cells \ {a}) : EndPool \in S => ~Follows(m, S)}

\* scan_region: where each file is found at boot.  The last record with its identifier
\* counts, which is the lowest.
scan(m) ==
  LET records == Chain(m) \ {EndPool} IN
  [f \in Fids |->
     LET found == {a \in records : m[a].fid = f}
     IN  IF found = {} THEN 0 ELSE CHOOSE a \in found : \A b \in found : a <= b]

Contents(m, t) == [f \in Fids |-> IF t[f] = 0 THEN NoVal ELSE m[t[f]].val]

\* The bases allocate_free_addr finds room below, and the one it takes: the first.
Gaps    == {a \in Chain(ram) : ram[a].next + 1 < a}
TheBase == CHOOSE a \in Gaps : \A b \in Gaps : b <= a

-----------------------------------------------------------------------------
NoOp == [kind |-> "none", fid |-> NoFid, val |-> NoVal, new |-> 0, base |-> 0,
         target |-> 0, next |-> 0, prev |-> 0]

ChainInit ==
  /\ ram = [a \in Cells |-> Blank] /\ disk = ram
  /\ table = [f \in Fids |-> 0]
  /\ pc = "idle" /\ op = NoOp
  /\ stored = [f \in Fids |-> NoVal] /\ touched = {} /\ cleared = FALSE
  /\ ops = 0 /\ crashes = 0 /\ giveUps = 0

Begin(kind, f) ==
  /\ pc = "idle" /\ kind \in Ops
  /\ ops < MaxOps /\ ops' = ops + 1
  /\ touched' = touched \cup {f} /\ cleared' = (cleared \/ kind \in {"replace", "delete"})
  /\ UNCHANGED <<disk, table, stored, crashes, giveUps>>

Step(at, then) ==
  /\ pc = at /\ pc' = then
  /\ UNCHANGED <<disk, stored, touched, cleared, ops, crashes, giveUps>>

\* flash_write_data_to_file of data that fits the record the file has.
Update(f, v) ==
  /\ Begin("update", f)
  /\ table[f] # 0 /\ ram[table[f]].val # NoVal
  /\ ram' = [ram EXCEPT ![table[f]].val = v]
  /\ UNCHANGED <<pc, op>>

\* Otherwise: allocate_free_addr takes a cell and writes its links, ...
Allocate(f, v) ==
  /\ Begin(IF table[f] = 0 THEN "create" ELSE "replace", f)
  /\ Gaps # {}
  /\ op' = [NoOp EXCEPT !.kind = "write", !.fid = f, !.val = v,
                        !.base = TheBase, !.new = TheBase - 1]
  /\ ram' = [ram EXCEPT ![TheBase - 1].next = ram[TheBase].next,
                        ![TheBase - 1].prev = TheBase]
  /\ pc' = "back_link"

\* ... then the back link of the record that will follow it, ...
BackLink ==
  /\ Step("back_link", "fill")
  /\ LET n == ram[op.new].next
     IN  ram' = IF n = 0 THEN ram ELSE [ram EXCEPT ![n].prev = op.new]
  /\ UNCHANGED <<table, op>>

\* ... and the identifier, the length and the payload are written.
Fill ==
  /\ Step("fill", IF Sector(op.base) = Sector(op.new) THEN "publish" ELSE "sync")
  /\ ram' = [ram EXCEPT ![op.new].fid = op.fid, ![op.new].val = op.val]
  /\ UNCHANGED <<table, op>>

\* Mutated form: the record is published without waiting for it to be in flash.
SyncRecord_NoWait ==
  /\ Step("sync", "publish")
  /\ UNCHANGED <<ram, table, op>>

\* A record in another sector than its predecessor must be in flash first.
SyncRecord ==
  /\ Step("sync", "publish") /\ ram = disk
  /\ UNCHANGED <<ram, table, op>>

\* That takes too long: the new record is cleared again.
SyncTimeout ==
  /\ pc = "sync" /\ pc' = "unlink"
  /\ giveUps < MaxGiveUps /\ giveUps' = giveUps + 1
  /\ op' = [op EXCEPT !.kind = "undo", !.target = op.new]
  /\ UNCHANGED <<ram, disk, table, stored, touched, cleared, ops, crashes>>

\* Mutated form: the file is recorded at its predecessor's address.
Publish_AtBase ==
  LET old == table[op.fid] IN
  /\ Step("publish", IF old = 0 THEN "idle" ELSE "unlink")
  /\ ram' = [ram EXCEPT ![op.base].next = op.new]
  /\ IF old = 0
     THEN op' = NoOp /\ table' = [table EXCEPT ![op.fid] = op.base]
     ELSE op' = [op EXCEPT !.target = old] /\ UNCHANGED table

\* The link of the predecessor publishes the record.  The old one, if any, goes next.
Publish ==
  LET old == table[op.fid] IN
  /\ Step("publish", IF old = 0 THEN "idle" ELSE "unlink")
  /\ ram' = [ram EXCEPT ![op.base].next = op.new]
  /\ IF old = 0
     THEN op' = NoOp /\ table' = [table EXCEPT ![op.fid] = op.new]
     ELSE op' = [op EXCEPT !.target = old] /\ UNCHANGED table

\* file_delete, with flash_clear_file.
Delete(f) ==
  /\ Begin("delete", f)
  /\ table[f] # 0
  /\ op' = [NoOp EXCEPT !.kind = "delete", !.fid = f, !.target = table[f]]
  /\ pc' = "unlink"
  /\ UNCHANGED ram

\* flash_clear_file: the predecessor the record names skips it, ...
Unlink ==
  LET t == ram[op.target] IN
  /\ Step("unlink", "zero")
  /\ ram' = IF t.prev = 0 THEN ram ELSE [ram EXCEPT ![t.prev].next = t.next]
  /\ op' = [op EXCEPT !.prev = t.prev, !.next = t.next]
  /\ UNCHANGED table

\* ... its length and payload are zeroed, ...
Zero ==
  /\ Step("zero", "relink")
  /\ ram' = [ram EXCEPT ![op.target].val = NoVal]
  /\ UNCHANGED <<table, op>>

\* Mutated form: the successor keeps its back link.
Relink_Skips ==
  /\ Step("relink", "wipe")
  /\ UNCHANGED <<ram, table, op>>

\* ... its successor is linked back past it, ...
Relink ==
  /\ Step("relink", "wipe")
  /\ ram' = IF op.next = 0 THEN ram ELSE [ram EXCEPT ![op.next].prev = op.prev]
  /\ UNCHANGED <<table, op>>

\* ... and its own links are zeroed.
Wipe ==
  /\ Step("wipe", "idle")
  /\ ram' = [ram EXCEPT ![op.target].next = 0, ![op.target].prev = 0]
  /\ op' = NoOp
  /\ table' = CASE op.kind = "write"  -> [table EXCEPT ![op.fid] = op.new]
                [] op.kind = "delete" -> [table EXCEPT ![op.fid] = 0]
                [] OTHER              -> table

-----------------------------------------------------------------------------
\* low_flash_task writes a changed sector.
Flush(s) ==
  /\ disk' = [a \in Cells |-> IF Sector(a) = s THEN ram[a] ELSE disk[a]]
  /\ disk' # disk
  /\ UNCHANGED <<ram, table, pc, op, stored, touched, cleared, ops, crashes, giveUps>>

\* A client's own flash_commit_sync succeeds between two operations.  What was cleared
\* is now cleared in flash as well; after a power loss there may be more amiss.
Settle ==
  /\ pc = "idle" /\ ram = disk /\ touched # {}
  /\ stored' = Contents(ram, table) /\ touched' = {}
  /\ cleared' = (cleared /\ crashes > 0)
  /\ UNCHANGED <<ram, disk, table, pc, op, ops, crashes, giveUps>>

\* Power loss, and file_scan_flash at the next boot.
Crash ==
  /\ crashes < MaxCrashes /\ crashes' = crashes + 1
  /\ ram' = disk /\ table' = scan(disk)
  /\ pc' = "idle" /\ op' = NoOp
  /\ stored' = Contents(disk, scan(disk)) /\ touched' = {}
  /\ UNCHANGED <<disk, cleared, ops, giveUps>>

ChainNext ==
  \/ \E f \in Fids : Delete(f) \/ \E v \in Vals : Update(f, v) \/ Allocate(f, v)
  \/ BackLink \/ Fill \/ SyncRecord \/ SyncTimeout \/ Publish
  \/ Unlink \/ Zero \/ Relink \/ Wipe
  \/ \E s \in Sectors : Flush(s)
  \/ Settle \/ Crash

ChainSpec == ChainInit /\ [][ChainNext]_chainVars

-----------------------------------------------------------------------------
\* Type invariant of the record chain and of the operation under way.
ChainTypeOK ==
  /\ {ram, disk} \subseteq [Cells -> [next : 0..EndPool, prev : 0..EndPool, fid : Fids \cup {NoFid},
                                      val : Vals \cup {NoVal}]]
  /\ table \in [Fids -> 0..(EndPool - 1)]
  /\ pc \in {"idle", "back_link", "fill", "sync", "publish", "unlink", "zero", "relink", "wipe"}
  /\ stored \in [Fids -> Vals \cup {NoVal}] /\ touched \subseteq Fids /\ cleared \in BOOLEAN
  /\ ops \in 0..MaxOps /\ crashes \in 0..MaxCrashes /\ giveUps \in 0..MaxGiveUps

\* As long as power stays on, the chain holds between operations exactly the records of the
\* files, each linked both ways: nothing leaks, nothing is lost, failed calls included.  In flash
\* links run down at every moment, power losses included, so that scan_region, which follows
\* them without checking, comes to an end at the next boot.
ChainIsTheFiles ==
  /\ \A a \in Chain(disk) : disk[a].next < a
  /\ pc = "idle" /\ crashes = 0 =>
       /\ Chain(ram) \ {EndPool} = {table[f] : f \in Fids} \ {0}
       /\ \A a \in Chain(ram) : ram[a].next # 0 => ram[ram[a].next].prev = a
       /\ \A f \in Fids : table[f] # 0 => ram[table[f]].fid = f

\* Whenever power is lost, the next boot finds every file nobody was changing as it was,
\* unless a record was being cleared at that power loss or after an earlier one.
UntouchedSurvive ==
  LET found == Contents(disk, scan(disk))
  IN  ~cleared => \A f \in Fids \ touched : found[f] = stored[f]

\* What allocate_free_addr says of cleared records, that they are unlinked and zeroed:
\* a record that is zeroed in flash is not on the chain the next boot walks, where it
\* would cut off every record behind it.
ClearedIsUnlinked == \A a \in Chain(disk) \ {EndPool} : disk[a].val # NoVal
=================================================================================
