------------------------------- MODULE Containers -------------------------------
(***************************************************************************)
(* A container of objects: records, one file each, and two manifest slots  *)
(* that say which records belong together (object_container_store.c, with  *)
(* the formats of object_container.c and the layouts of                    *)
(* resident_container.c, oath_container.c, otp_container.c and             *)
(* vault_container.c).  The file of a record is fixed by the object and by *)
(* the manifest slot it was written for.                                   *)
(*                                                                         *)
(* files is what the device reads, through the page cache; flash is what a *)
(* boot would find, the dirty files written back in any order.  A record   *)
(* carries the generation its descriptor must name and the number of the   *)
(* update that wrote it.  Tags and keys are sound: a record whose header   *)
(* matches its descriptor opens.                                           *)
(***************************************************************************)
EXTENDS Naturals, FiniteSets

CONSTANTS
  Objs,          \* objects of the container
  Layouts,       \* the layouts to look at
  LateTimeouts,  \* do the syncs after the manifest give up too?  What that does is shown for ObjectTxn
  MaxUpdates,    \* bound: updates, removals and deletions
  MaxLosses,     \* bound: power losses
  MaxIoErrors    \* bound: file operations and syncs that fail

ASSUME ContainersAssumption ==
  /\ {"manifest", "marker"} \cap Objs = {}
  /\ Layouts \subseteq {"oath", "resident", "vault"} /\ LateTimeouts \in BOOLEAN
  /\ MaxUpdates \in Nat /\ MaxLosses \in Nat /\ MaxIoErrors \in Nat

VARIABLES
  layout,            \* of this container
  files, flash,
  work,              \* the call under way
  confirmed,         \* ghost: the contents the last call that succeeded was to leave behind
  tried,             \* ghost: the contents that calls since then were to leave behind
  deletion,          \* ghost: "whole", "cut" short by a power loss since then, or "overwritten" after that
  calls, losses, ioErrors

storage == <<files, flash>>
ghosts  == <<confirmed, tried, deletion>>
containerVars == <<layout, storage, work, ghosts, calls, losses, ioErrors>>

-----------------------------------------------------------------------------
ManifestSlots == {0, 1}
Manifest(s)  == <<s, "manifest">>
Record(s, x) == <<s, x>>
Marker == <<0, "marker">>
RecordFiles == {Record(s, x) : s \in ManifestSlots, x \in Objs}
FileNames == RecordFiles \cup {Manifest(s) : s \in ManifestSlots} \cup {Marker}
NoFile == [gen |-> 0]
Nothing == [x \in {} |-> 0]
NoCall == [pc |-> "idle", target |-> 0, todo |-> {}, next |-> NoFile, val |-> 0, goal |-> Nothing,
           new |-> {}, file |-> Marker]

\* OATH and OTP write every object with every update, FIDO and the vault some of them.  The vault
\* takes the records of an update that failed back.
Whole    == layout = "oath"
Rollback == layout = "vault"

\* parse_slot: the manifest is there and so is every record it names, with that generation.
parse_slot(f, s) ==
  LET m == f[Manifest(s)] IN
  /\ m # NoFile
  /\ \A x \in DOMAIN m.objs : f[Record(m.objs[x].slot, x)].gen = m.objs[x].gen

\* load: the newer of the valid slots, {} when there is none or both claim one generation.
container_load(f) ==
  {s \in ManifestSlots : /\ parse_slot(f, s)
                         /\ parse_slot(f, 1 - s) => f[Manifest(s)].gen > f[Manifest(1 - s)].gen}
StoragePresent(f) == \E s \in ManifestSlots : f[Manifest(s)] # NoFile

\* read, for every object.
Reading(f) ==
  IF container_load(f) = {} THEN Nothing
  ELSE LET m == f[Manifest(CHOOSE s \in container_load(f) : TRUE)]
       IN  [x \in DOMAIN m.objs |-> f[Record(m.objs[x].slot, x)].val]

ContainersInit ==
  /\ layout \in Layouts /\ files = [f \in FileNames |-> NoFile] /\ flash = files
  /\ work = NoCall /\ confirmed = Nothing /\ tried = {} /\ deletion = "whole"
  /\ calls = 0 /\ losses = 0 /\ ioErrors = 0

-----------------------------------------------------------------------------
\* A call begins.

CallStarts(w, others) ==
  /\ work.pc = "idle" /\ calls < MaxUpdates
  /\ calls' = calls + 1
  /\ work' = [w EXCEPT !.val = calls + 1]
  /\ tried' = tried \cup {w.goal} \cup others
  /\ UNCHANGED <<flash, confirmed, losses, ioErrors>>

\* The manifest to build on, and the slot to write: the other one, or 0 in a new container.
BaseManifest == IF container_load(files) = {} THEN [gen |-> 0, objs |-> Nothing]
                ELSE files[Manifest(CHOOSE s \in container_load(files) : TRUE)]
Target_Same == IF container_load(files) = {} THEN 0 ELSE CHOOSE s \in container_load(files) : TRUE
Target == IF container_load(files) = {} THEN 0 ELSE 1 - CHOOSE s \in container_load(files) : TRUE

\* update, unless there is storage that does not load.
ContainerUpdate(xs) ==
  /\ StoragePresent(files) => container_load(files) # {}
  /\ LET goal == [x \in xs \cup DOMAIN BaseManifest.objs |-> IF x \in xs THEN calls + 1 ELSE Reading(files)[x]]
     IN  CallStarts([NoCall EXCEPT !.pc = "record", !.target = Target, !.todo = xs, !.goal = goal,
                                   !.next = [gen |-> BaseManifest.gen + 1, objs |-> BaseManifest.objs]], {})
  /\ deletion' = IF deletion = "whole" THEN "whole" ELSE "overwritten"
  /\ UNCHANGED files

\* remove, of a layout with partial updates: the last object of a container cannot be removed.
ContainerRemove(x) ==
  /\ ~Whole /\ container_load(files) # {}
  /\ x \in DOMAIN BaseManifest.objs /\ Cardinality(DOMAIN BaseManifest.objs) > 1
  /\ LET left == DOMAIN BaseManifest.objs \ {x}
         next == [gen |-> BaseManifest.gen + 1, objs |-> [y \in left |-> BaseManifest.objs[y]]]
     IN  CallStarts([NoCall EXCEPT !.pc = "clear", !.target = Target, !.next = next, !.file = Manifest(Target),
                                   !.goal = [y \in left |-> Reading(files)[y]]], {})
  /\ UNCHANGED <<files, deletion>>

\* delete: all files in one go, then a sync.  Only a container with its marker is deleted.  Until the
\* sync, an older manifest that retire has removed from the cache may be all that a boot finds.
ContainerDelete ==
  /\ container_load(files) # {} /\ files[Marker] # NoFile
  /\ CallStarts([NoCall EXCEPT !.pc = "deleted"], {Reading([flash EXCEPT ![Manifest(s)] = NoFile]) : s \in ManifestSlots})
  /\ files' = [f \in FileNames |-> NoFile]
  /\ UNCHANGED deletion

-----------------------------------------------------------------------------
\* Its steps.

StepTo(pc) == work' = [work EXCEPT !.pc = pc]
FileWritten(f, v) == files' = [files EXCEPT ![f] = v]

\* replace_file: the old file goes first.
ClearRecord ==
  /\ work.pc = "record"
  /\ \E x \in work.todo :
       LET r == Record(work.target, x) IN
       /\ FileWritten(r, NoFile)
       /\ work' = [work EXCEPT !.pc = "put", !.file = r, !.todo = @ \ {x}]
  /\ UNCHANGED <<flash, ghosts, calls, losses, ioErrors>>

\* write_record: the new record, and its descriptor in the next manifest.
PutRecord ==
  /\ work.pc = "put"
  /\ LET x == work.file[2]
         g == 1 + IF x \in DOMAIN work.next.objs THEN work.next.objs[x].gen ELSE 0
         objs == [y \in DOMAIN work.next.objs \cup {x} |->
                    IF y = x THEN [slot |-> work.target, gen |-> g] ELSE work.next.objs[y]]
     IN  /\ FileWritten(work.file, [gen |-> g, val |-> work.val])
         /\ work' = [work EXCEPT !.pc = IF work.todo = {} THEN "sync" ELSE "record",
                                 !.next.objs = objs, !.new = @ \cup {work.file}]
  /\ UNCHANGED <<flash, ghosts, calls, losses, ioErrors>>

Drained_Skip == TRUE
\* flash_commit_sync returns when nothing is dirty.
Drained == files = flash

SyncRecordFiles ==
  /\ work.pc = "sync" /\ Drained
  /\ work' = [work EXCEPT !.pc = "clear", !.file = Manifest(work.target)]
  /\ UNCHANGED <<storage, ghosts, calls, losses, ioErrors>>

ClearManifest ==
  /\ work.pc = "clear"
  /\ FileWritten(work.file, NoFile) /\ StepTo("manifest")
  /\ UNCHANGED <<flash, ghosts, calls, losses, ioErrors>>

PutManifest ==
  /\ work.pc = "manifest"
  /\ FileWritten(work.file, work.next) /\ StepTo("sync2")
  /\ UNCHANGED <<flash, ghosts, calls, losses, ioErrors>>

SyncManifest ==
  /\ work.pc = "sync2" /\ Drained
  /\ StepTo(IF work.new = {} THEN "retire" ELSE "activate")
  /\ UNCHANGED <<storage, ghosts, calls, losses, ioErrors>>

\* activate: the marker of a new container, and its sync.
Activate ==
  /\ work.pc = "activate"
  /\ IF files[Marker] # NoFile THEN StepTo("retire") /\ UNCHANGED files
     ELSE FileWritten(Marker, [gen |-> 1]) /\ StepTo("sync3")
  /\ UNCHANGED <<flash, ghosts, calls, losses, ioErrors>>

SyncMarker ==
  /\ work.pc = "sync3" /\ Drained /\ StepTo("retire")
  /\ UNCHANGED <<storage, ghosts, calls, losses, ioErrors>>

\* retire: the other manifest and the records the new one does not name go; nobody waits for it.
Referenced == {Record(work.next.objs[x].slot, x) : x \in DOMAIN work.next.objs}
Retire ==
  /\ work.pc = "retire"
  /\ files' = [f \in FileNames |-> IF f = Manifest(1 - work.target) \/ f \in RecordFiles \ Referenced
                                   THEN NoFile ELSE files[f]]
  /\ work' = NoCall
  /\ confirmed' = work.goal /\ tried' = {} /\ deletion' = "whole"
  /\ UNCHANGED <<flash, calls, losses, ioErrors>>

SyncDeleted ==
  /\ work.pc = "deleted" /\ Drained
  /\ work' = NoCall /\ confirmed' = work.goal /\ tried' = {} /\ deletion' = "whole"
  /\ UNCHANGED <<storage, calls, losses, ioErrors>>

\* A file operation or a sync fails and the call returns its error; some layouts take the records
\* they wrote back.
CallFails ==
  /\ work.pc \in {"record", "put", "sync", "manifest"} \cup (IF LateTimeouts THEN {"sync2", "sync3", "deleted"} ELSE {})
  /\ ioErrors < MaxIoErrors
  /\ ioErrors' = ioErrors + 1
  /\ files' = [f \in FileNames |-> IF Rollback /\ f \in work.new THEN NoFile ELSE files[f]]
  /\ work' = NoCall
  /\ UNCHANGED <<flash, ghosts, calls, losses>>

-----------------------------------------------------------------------------
WriteBack(f) ==
  /\ files[f] # flash[f]
  /\ flash' = [flash EXCEPT ![f] = files[f]]
  /\ UNCHANGED <<files, work, ghosts, calls, losses, ioErrors>>

LosePower ==
  /\ losses < MaxLosses
  /\ losses' = losses + 1
  /\ files' = flash /\ work' = NoCall
  /\ deletion' = IF deletion = "whole" /\ work.pc = "deleted" THEN "cut" ELSE deletion
  /\ UNCHANGED <<flash, confirmed, tried, calls, ioErrors>>

WriteSets == IF Whole THEN {Objs} ELSE SUBSET Objs \ {{}}
CallStep == \/ ClearRecord \/ PutRecord \/ SyncRecordFiles \/ ClearManifest \/ PutManifest \/ SyncManifest
            \/ Activate \/ SyncMarker \/ Retire \/ SyncDeleted \/ CallFails

ContainersNext ==
  /\ \/ \E xs \in WriteSets : ContainerUpdate(xs)
     \/ \E x \in Objs : ContainerRemove(x)
     \/ ContainerDelete
     \/ CallStep
     \/ \E f \in FileNames : WriteBack(f)
     \/ LosePower
  /\ UNCHANGED layout

ContainersSpec == ContainersInit /\ [][ContainersNext]_containerVars

-----------------------------------------------------------------------------
\* Whenever power is lost, the boot finds the container as the last successful call left it or as a
\* call since then was to leave it, and so does a reader between calls: never a mix of two updates,
\* never an unreadable container where an acknowledged one was.  Only a deletion cut short may bring
\* back an older version, whose removal had not reached the flash either; and an update of what it left,
\* a manifest without its records, may fill the gaps with records of the same generation.
BootFindsAckedOrTried ==
  deletion # "overwritten" =>
    /\ Reading(flash) \in {confirmed} \cup tried
    /\ work.pc = "idle" => Reading(files) \in {confirmed} \cup tried

\* The containers of OATH and OTP keep that promise.  The others keep it without faults, between
\* calls: alternating the slots, update after update of part of the objects, always leaves every
\* object of the manifest the record it was last given.
ContainerHolds == IF Whole THEN BootFindsAckedOrTried
                  ELSE losses = 0 /\ ioErrors = 0 /\ work.pc = "idle" => Reading(files) = confirmed
=============================================================================
