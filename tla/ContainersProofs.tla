---------------------------- MODULE ContainersProofs ----------------------------
(***************************************************************************)
(* Proofs about Containers, for any set of objects and any number of       *)
(* updates, power losses and failed file operations.                       *)
(*                                                                         *)
(* FilesInv holds for every layout: a call under way has a manifest whose  *)
(* objects, but for the pending ones, are in place with the values they    *)
(* are to have, and which outranks the manifest in the other slot.         *)
(* BootInv is about containers that are written as a whole, whose slots    *)
(* are two banks without a common file: one bank, the base, is the same in *)
(* the cache and in flash, loads, and outranks the other, until the        *)
(* manifest of the new one is in flash and makes that the base.            *)
(***************************************************************************)
EXTENDS Containers, TLAPS

-----------------------------------------------------------------------------
(* Files by what they are: a manifest is told from no file by its          *)
(* generation.                                                             *)

Tables  == UNION {[xs -> [slot : ManifestSlots, gen : Nat \ {0}]] : xs \in SUBSET Objs}
Manifests == [gen : Nat \ {0}, objs : Tables]
RecordsOf == [gen : Nat \ {0}, val : Nat]
AllBlobs == Manifests \cup RecordsOf \cup {NoFile, [gen |-> 1]}
Goals   == UNION {[xs -> Nat] : xs \in SUBSET Objs}

FilesOK(f) ==
  /\ f \in [FileNames -> AllBlobs]
  /\ \A s \in ManifestSlots : f[Manifest(s)] \in Manifests \cup {NoFile}
  /\ \A s \in ManifestSlots, x \in Objs : f[Record(s, x)] \in RecordsOf \cup {NoFile}

LEMMA NameFacts ==
  ASSUME ContainersAssumption
  PROVE  /\ \A s \in ManifestSlots : 1 - s \in ManifestSlots /\ 1 - s # s /\ 1 - (1 - s) = s
         /\ \A s, t \in ManifestSlots : t = s \/ t = 1 - s
         /\ \A s \in ManifestSlots : Manifest(s) \in FileNames /\ Manifest(s) # Marker
         /\ \A s \in ManifestSlots, x \in Objs : Record(s, x) \in FileNames /\ Record(s, x) # Marker
                                                 /\ Record(s, x) \in RecordFiles
         /\ \A s, t \in ManifestSlots : Manifest(s) = Manifest(t) => s = t
         /\ \A s, t \in ManifestSlots, x, y \in Objs : Record(s, x) = Record(t, y) => s = t /\ x = y
         /\ \A s, t \in ManifestSlots, x \in Objs : Record(s, x) # Manifest(t)
         /\ \A s \in ManifestSlots, x \in Objs : Record(s, x)[2] = x
         /\ Marker \in FileNames /\ \A s \in ManifestSlots : Manifest(s) \notin RecordFiles
         /\ Marker \notin RecordFiles
<1>1. \A s \in ManifestSlots : 1 - s \in ManifestSlots /\ 1 - s # s /\ 1 - (1 - s) = s
  BY DEF ManifestSlots
<1>2. \A s, t \in ManifestSlots : t = s \/ t = 1 - s
  BY DEF ManifestSlots
<1>3. \A x \in Objs : x # "manifest" /\ x # "marker"
  BY DEF ContainersAssumption
<1>4. \A s \in ManifestSlots : Manifest(s) \in FileNames /\ Manifest(s) # Marker
  BY DEF Manifest, Marker, FileNames
<1>5. \A s \in ManifestSlots, x \in Objs : Record(s, x) \in FileNames /\ Record(s, x) # Marker
                                           /\ Record(s, x) \in RecordFiles
  BY <1>3 DEF Record, Marker, FileNames, RecordFiles
<1>6. /\ \A s, t \in ManifestSlots : Manifest(s) = Manifest(t) => s = t
      /\ \A s, t \in ManifestSlots, x, y \in Objs : Record(s, x) = Record(t, y) => s = t /\ x = y
      /\ \A s, t \in ManifestSlots, x \in Objs : Record(s, x) # Manifest(t)
      /\ \A s \in ManifestSlots, x \in Objs : Record(s, x)[2] = x
  BY <1>3 DEF Record, Manifest
<1>7. Marker \in FileNames /\ Marker \notin RecordFiles /\ \A s \in ManifestSlots : Manifest(s) \notin RecordFiles
  BY <1>3 DEF FileNames, Marker, RecordFiles, Record, Manifest
<1> QED  BY <1>1, <1>2, <1>4, <1>5, <1>6, <1>7

LEMMA BlobFacts ==
  /\ NoFile.gen = 0
  /\ \A m \in Manifests : /\ m # NoFile /\ m.gen \in Nat \ {0} /\ m.objs \in Tables
                          /\ DOMAIN m.objs \subseteq Objs
                          /\ \A x \in DOMAIN m.objs : /\ m.objs[x] \in [slot : ManifestSlots, gen : Nat \ {0}]
                                                      /\ m.objs[x].slot \in ManifestSlots
                                                      /\ m.objs[x].gen \in Nat \ {0}
  /\ \A r \in RecordsOf : /\ r # NoFile /\ r.gen \in Nat \ {0} /\ r.val \in Nat
                          /\ r = [gen |-> r.gen, val |-> r.val]
<1>1. NoFile.gen = 0
  BY DEF NoFile
<1>2. ASSUME NEW m \in Manifests
      PROVE  /\ m # NoFile /\ m.gen \in Nat \ {0} /\ m.objs \in Tables
             /\ DOMAIN m.objs \subseteq Objs
             /\ \A x \in DOMAIN m.objs : /\ m.objs[x] \in [slot : ManifestSlots, gen : Nat \ {0}]
                                         /\ m.objs[x].slot \in ManifestSlots /\ m.objs[x].gen \in Nat \ {0}
  <2>1. m.gen \in Nat \ {0} /\ m.objs \in Tables
    BY DEF Manifests
  <2>2. PICK xs \in SUBSET Objs : m.objs \in [xs -> [slot : ManifestSlots, gen : Nat \ {0}]]
    BY <2>1 DEF Tables
  <2>3. DOMAIN m.objs = xs
    BY <2>2
  <2> QED  BY <1>1, <2>1, <2>2, <2>3
<1>3. ASSUME NEW r \in RecordsOf
      PROVE  r # NoFile /\ r.gen \in Nat \ {0} /\ r.val \in Nat /\ r = [gen |-> r.gen, val |-> r.val]
  BY <1>1 DEF RecordsOf
<1> QED  BY <1>1, <1>2, <1>3

\* What load and read find.
LEMMA LoadFacts ==
  ASSUME ContainersAssumption, NEW f, FilesOK(f)
  PROVE  /\ container_load(f) = {} \/ \E c \in ManifestSlots : container_load(f) = {c}
         /\ \A c \in ManifestSlots : container_load(f) = {c} <=>
              /\ parse_slot(f, c)
              /\ parse_slot(f, 1 - c) => f[Manifest(c)].gen > f[Manifest(1 - c)].gen
         /\ container_load(f) = {} => Reading(f) = Nothing
         /\ \A c \in ManifestSlots : container_load(f) = {c} =>
              /\ (CHOOSE s \in container_load(f) : TRUE) = c
              /\ Reading(f) = [x \in DOMAIN f[Manifest(c)].objs |-> f[Record(f[Manifest(c)].objs[x].slot, x)].val]
<1>1. \A s \in ManifestSlots : s \in container_load(f) <=>
         /\ parse_slot(f, s)
         /\ parse_slot(f, 1 - s) => f[Manifest(s)].gen > f[Manifest(1 - s)].gen
  BY DEF container_load
<1>2. container_load(f) \subseteq ManifestSlots
  BY DEF container_load
<1>3. \A s \in ManifestSlots : f[Manifest(s)].gen \in Nat
  <2>1. ASSUME NEW s \in ManifestSlots
        PROVE  f[Manifest(s)].gen \in Nat
    <3>1. f[Manifest(s)] \in Manifests \/ f[Manifest(s)] = NoFile
      BY DEF FilesOK
    <3> QED  BY <3>1, BlobFacts
  <2> QED  BY <2>1
<1>4. \A s, t \in container_load(f) : s = t
  <2>1. ASSUME NEW s \in container_load(f), 1 - s \in container_load(f)
        PROVE  FALSE
    <3>1. s \in ManifestSlots /\ 1 - s \in ManifestSlots /\ 1 - (1 - s) = s
      BY <1>2, NameFacts
    <3>2. f[Manifest(s)].gen > f[Manifest(1 - s)].gen /\ f[Manifest(1 - s)].gen > f[Manifest(s)].gen
      BY <1>1, <2>1, <3>1
    <3> QED  BY <1>3, <3>1, <3>2
  <2> QED  BY <1>2, <2>1, NameFacts
<1>5. container_load(f) = {} \/ \E c \in ManifestSlots : container_load(f) = {c}
  BY <1>2, <1>4
<1>6. \A c \in ManifestSlots : container_load(f) = {c} <=> c \in container_load(f)
  BY <1>4
<1>7. ASSUME NEW c \in ManifestSlots, container_load(f) = {c}
      PROVE  /\ (CHOOSE s \in container_load(f) : TRUE) = c
             /\ Reading(f) = [x \in DOMAIN f[Manifest(c)].objs |-> f[Record(f[Manifest(c)].objs[x].slot, x)].val]
  <2>1. (CHOOSE s \in container_load(f) : TRUE) = c
    BY <1>7
  <2> QED  BY <1>7, <2>1 DEF Reading
<1>8. container_load(f) = {} => Reading(f) = Nothing
  BY DEF Reading
<1> QED  BY <1>1, <1>5, <1>6, <1>7, <1>8

\* A slot that loads has the records it names.
LEMMA ParseFacts ==
  ASSUME ContainersAssumption, NEW f, FilesOK(f), NEW c \in ManifestSlots, parse_slot(f, c)
  PROVE  /\ f[Manifest(c)] \in Manifests
         /\ \A x \in DOMAIN f[Manifest(c)].objs :
              LET d == f[Manifest(c)].objs[x]
                  r == f[Record(d.slot, x)]
              IN  /\ x \in Objs /\ d.slot \in ManifestSlots /\ d.gen \in Nat \ {0}
                  /\ r \in RecordsOf /\ r = [gen |-> d.gen, val |-> r.val] /\ r.val \in Nat
<1>1. f[Manifest(c)] \in Manifests /\ \A x \in DOMAIN f[Manifest(c)].objs :
         f[Record(f[Manifest(c)].objs[x].slot, x)].gen = f[Manifest(c)].objs[x].gen
  BY DEF parse_slot, FilesOK
<1>2. ASSUME NEW x \in DOMAIN f[Manifest(c)].objs, NEW d, d = f[Manifest(c)].objs[x],
             NEW r, r = f[Record(d.slot, x)]
      PROVE  /\ x \in Objs /\ d.slot \in ManifestSlots /\ d.gen \in Nat \ {0}
             /\ r \in RecordsOf /\ r = [gen |-> d.gen, val |-> r.val] /\ r.val \in Nat
  <2>1. x \in Objs /\ d.slot \in ManifestSlots /\ d.gen \in Nat \ {0}
    BY <1>1, <1>2, BlobFacts
  <2>2. r \in RecordsOf \cup {NoFile} /\ r.gen = d.gen
    BY <1>1, <1>2, <2>1 DEF FilesOK
  <2>3. r \in RecordsOf
    BY <2>1, <2>2, BlobFacts
  <2> QED  BY <2>1, <2>2, <2>3, BlobFacts
<1> QED  BY <1>1, <1>2

(* A call.  What it still has to write is pending; every other object of    *)
(* the next manifest has the record it names, with the value it is to have. *)

Early   == {"record", "put", "sync", "clear", "manifest"}
Late    == {"activate", "sync3", "retire"}
Calls   == Early \cup {"sync2"} \cup Late
WorkRecs == [pc : Calls \cup {"idle", "deleted"}, target : ManifestSlots, todo : SUBSET Objs,
             next : Manifests \cup {NoFile}, val : Nat, goal : Goals, new : SUBSET FileNames, file : FileNames]

Pending(w) == CASE w.pc = "record" -> w.todo
                [] w.pc = "put"    -> w.todo \cup {w.file[2]}
                [] OTHER           -> {}

InPlace(f, next, goal, x) == f[Record(next.objs[x].slot, x)] = [gen |-> next.objs[x].gen, val |-> goal[x]]

CallOK(w, f) ==
  /\ w.next \in Manifests
  /\ DOMAIN w.goal = DOMAIN w.next.objs \cup Pending(w)
  /\ \A x \in Pending(w) : x \in Objs /\ w.goal[x] = w.val
  /\ \A x \in DOMAIN w.next.objs \ Pending(w) : InPlace(f, w.next, w.goal, x)
  /\ w.pc = "put" => w.file = Record(w.target, w.file[2]) /\ w.file[2] \in Objs \ w.todo
  /\ w.pc \in {"clear", "manifest"} => w.file = Manifest(w.target)
  /\ w.pc = "manifest" => f[Manifest(w.target)] = NoFile
  /\ w.pc \in {"sync2"} \cup Late => f[Manifest(w.target)] = w.next
  /\ f[Manifest(1 - w.target)] # NoFile => f[Manifest(1 - w.target)].gen < w.next.gen

WorkOK ==
  /\ work \in WorkRecs
  /\ work.pc \in Calls => CallOK(work, files)
  /\ work.pc = "deleted" => work.goal = Nothing /\ \A n \in FileNames : files[n] = NoFile

\* Between calls, without faults, one manifest at most, and what it names is there.
Holds(f, contents) ==
  \/ contents = Nothing /\ \A s \in ManifestSlots : f[Manifest(s)] = NoFile
  \/ \E c \in ManifestSlots :
       /\ f[Manifest(c)] \in Manifests /\ f[Manifest(1 - c)] = NoFile
       /\ contents \in Goals /\ DOMAIN contents = DOMAIN f[Manifest(c)].objs
       /\ \A x \in DOMAIN contents : InPlace(f, f[Manifest(c)], contents, x)

Counted == calls \in Nat /\ losses \in Nat /\ ioErrors \in Nat

FilesInv ==
  /\ FilesOK(files) /\ FilesOK(flash) /\ WorkOK /\ Counted
  /\ losses = 0 /\ ioErrors = 0 /\ work.pc = "idle" => Holds(files, confirmed)

LEMMA GoalFacts ==
  /\ Nothing \in Goals /\ DOMAIN Nothing = {}
  /\ \A g \in Goals : DOMAIN g \subseteq Objs /\ g = [x \in DOMAIN g |-> g[x]] /\ \A x \in DOMAIN g : g[x] \in Nat
  /\ \A xs \in SUBSET Objs : \A g \in [xs -> Nat] : g \in Goals
<1>1. \A xs \in SUBSET Objs : \A g \in [xs -> Nat] : g \in Goals
  BY DEF Goals
<1>2. Nothing \in [{} -> Nat] /\ DOMAIN Nothing = {}
  BY DEF Nothing
<1>3. ASSUME NEW g \in Goals
      PROVE  DOMAIN g \subseteq Objs /\ g = [x \in DOMAIN g |-> g[x]] /\ \A x \in DOMAIN g : g[x] \in Nat
  <2>1. PICK xs \in SUBSET Objs : g \in [xs -> Nat]
    BY DEF Goals
  <2> QED  BY <2>1
<1> QED  BY <1>1, <1>2, <1>3

LEMMA TableFacts ==
  /\ Nothing \in Tables
  /\ \A xs \in SUBSET Objs : \A o \in [xs -> [slot : ManifestSlots, gen : Nat \ {0}]] : o \in Tables
  /\ \A o \in Tables : DOMAIN o \subseteq Objs /\ o \in [DOMAIN o -> [slot : ManifestSlots, gen : Nat \ {0}]]
<1>1. \A xs \in SUBSET Objs : \A o \in [xs -> [slot : ManifestSlots, gen : Nat \ {0}]] : o \in Tables
  BY DEF Tables
<1>2. Nothing \in [{} -> [slot : ManifestSlots, gen : Nat \ {0}]]
  BY DEF Nothing
<1>3. ASSUME NEW o \in Tables
      PROVE  DOMAIN o \subseteq Objs /\ o \in [DOMAIN o -> [slot : ManifestSlots, gen : Nat \ {0}]]
  <2>1. PICK xs \in SUBSET Objs : o \in [xs -> [slot : ManifestSlots, gen : Nat \ {0}]]
    BY DEF Tables
  <2> QED  BY <2>1
<1> QED  BY <1>1, <1>2, <1>3

LEMMA NoCallFacts ==
  /\ NoCall \in WorkRecs /\ NoCall.pc = "idle" /\ NoCall.goal = Nothing
  /\ NoCall.pc \notin Calls /\ NoCall.pc # "deleted"
<1>1. NoFile \in Manifests \cup {NoFile} /\ Marker \in FileNames /\ 0 \in ManifestSlots /\ Nothing \in Goals
  BY GoalFacts DEF FileNames, ManifestSlots
<1>2. NoCall \in WorkRecs
  BY <1>1 DEF NoCall, WorkRecs
<1> QED  BY <1>2 DEF NoCall, Calls, Early, Late

LEMMA PlaceFacts ==
  ASSUME NEW f, NEW m, NEW g, NEW x, InPlace(f, m, g, x)
  PROVE  f[Record(m.objs[x].slot, x)].gen = m.objs[x].gen /\ f[Record(m.objs[x].slot, x)].val = g[x]
BY DEF InPlace

\* What holds without faults is read.
LEMMA HoldsRead ==
  ASSUME ContainersAssumption, NEW f, FilesOK(f), NEW contents, Holds(f, contents)
  PROVE  Reading(f) = contents
<1>1. CASE contents = Nothing /\ \A s \in ManifestSlots : f[Manifest(s)] = NoFile
  <2>1. \A s \in ManifestSlots : ~parse_slot(f, s)
    BY <1>1 DEF parse_slot
  <2>2. container_load(f) = {}
    BY <2>1 DEF container_load
  <2> QED  BY <1>1, <2>2, LoadFacts
<1>2. ASSUME NEW c \in ManifestSlots, f[Manifest(c)] \in Manifests, f[Manifest(1 - c)] = NoFile,
             contents \in Goals, DOMAIN contents = DOMAIN f[Manifest(c)].objs,
             \A x \in DOMAIN contents : InPlace(f, f[Manifest(c)], contents, x)
      PROVE  Reading(f) = contents
  <2>1. ~parse_slot(f, 1 - c)
    BY <1>2 DEF parse_slot
  <2>2. parse_slot(f, c)
    <3>1. f[Manifest(c)] # NoFile
      BY <1>2, BlobFacts
    <3>2. ASSUME NEW x \in DOMAIN f[Manifest(c)].objs
          PROVE  f[Record(f[Manifest(c)].objs[x].slot, x)].gen = f[Manifest(c)].objs[x].gen
      <4>1. InPlace(f, f[Manifest(c)], contents, x)
        BY <1>2
      <4> QED  BY <4>1, PlaceFacts
    <3> QED  BY <3>1, <3>2 DEF parse_slot
  <2>3. container_load(f) = {c}
    BY <2>1, <2>2, LoadFacts
  <2>4. Reading(f) = [x \in DOMAIN f[Manifest(c)].objs |-> f[Record(f[Manifest(c)].objs[x].slot, x)].val]
    BY <2>3, LoadFacts
  <2>5. ASSUME NEW x \in DOMAIN contents
        PROVE  f[Record(f[Manifest(c)].objs[x].slot, x)].val = contents[x]
    <3>1. InPlace(f, f[Manifest(c)], contents, x)
      BY <1>2
    <3> QED  BY <3>1, PlaceFacts
  <2>6. contents = [x \in DOMAIN contents |-> contents[x]]
    BY <1>2, GoalFacts
  <2> QED  BY <1>2, <2>4, <2>5, <2>6
<1> QED  BY <1>1, <1>2 DEF Holds

\* One file changes.
With(f, n, v) == [f EXCEPT ![n] = v]

LEMMA WriteFacts ==
  ASSUME ContainersAssumption, NEW f, FilesOK(f), NEW n \in FileNames, NEW v \in AllBlobs,
         \A s \in ManifestSlots : n = Manifest(s) => v \in Manifests \cup {NoFile},
         \A s \in ManifestSlots, x \in Objs : n = Record(s, x) => v \in RecordsOf \cup {NoFile}
  PROVE  /\ FilesOK(With(f, n, v))
         /\ With(f, n, v)[n] = v
         /\ \A m \in FileNames : m # n => With(f, n, v)[m] = f[m]
<1> DEFINE h == With(f, n, v)
<1>1. f \in [FileNames -> AllBlobs]
  BY DEF FilesOK
<1>2. h \in [FileNames -> AllBlobs] /\ h[n] = v /\ \A m \in FileNames : m # n => h[m] = f[m]
  BY <1>1 DEF With
<1> HIDE DEF h
<1>3. \A s \in ManifestSlots : h[Manifest(s)] \in Manifests \cup {NoFile}
  BY <1>2, NameFacts DEF FilesOK
<1>4. \A s \in ManifestSlots, x \in Objs : h[Record(s, x)] \in RecordsOf \cup {NoFile}
  BY <1>2, NameFacts DEF FilesOK
<1>5. FilesOK(h)
  BY <1>2, <1>3, <1>4 DEF FilesOK
<1> QED  BY <1>2, <1>5 DEF h

Places == Calls \cup {"idle", "deleted"}

\* The fields of a call, field by field.
LEMMA WorkFields ==
  ASSUME NEW w \in WorkRecs
  PROVE  /\ w.pc \in Places /\ w.target \in ManifestSlots /\ w.todo \in SUBSET Objs
         /\ w.next \in Manifests \cup {NoFile} /\ w.val \in Nat /\ w.goal \in Goals
         /\ w.new \in SUBSET FileNames /\ w.file \in FileNames
BY DEF WorkRecs, Places

Moved(w, pc) == [w EXCEPT !.pc = pc]
MovedTo(w, pc, n) == [w EXCEPT !.pc = pc, !.file = n]
Cleared(w, pc, n, todo) == [w EXCEPT !.pc = pc, !.file = n, !.todo = todo]
Put(w, pc, objs, new) == [w EXCEPT !.pc = pc, !.next.objs = objs, !.new = new]

LEMMA WorkMoves ==
  ASSUME NEW w \in WorkRecs, NEW pc \in Places
  PROVE  LET v == Moved(w, pc) IN
         /\ v \in WorkRecs /\ v.pc = pc /\ v.target = w.target /\ v.todo = w.todo /\ v.next = w.next
         /\ v.val = w.val /\ v.goal = w.goal /\ v.new = w.new /\ v.file = w.file
BY DEF WorkRecs, Places, Moved

LEMMA WorkMovesTo ==
  ASSUME NEW w \in WorkRecs, NEW pc \in Places, NEW n \in FileNames
  PROVE  LET v == MovedTo(w, pc, n) IN
         /\ v \in WorkRecs /\ v.pc = pc /\ v.target = w.target /\ v.todo = w.todo /\ v.next = w.next
         /\ v.val = w.val /\ v.goal = w.goal /\ v.new = w.new /\ v.file = n
BY DEF WorkRecs, Places, MovedTo

LEMMA WorkClears ==
  ASSUME NEW w \in WorkRecs, NEW pc \in Places, NEW n \in FileNames, NEW todo \in SUBSET Objs
  PROVE  LET v == Cleared(w, pc, n, todo) IN
         /\ v \in WorkRecs /\ v.pc = pc /\ v.target = w.target /\ v.todo = todo /\ v.next = w.next
         /\ v.val = w.val /\ v.goal = w.goal /\ v.new = w.new /\ v.file = n
BY DEF WorkRecs, Places, Cleared

LEMMA WorkPuts ==
  ASSUME NEW w \in WorkRecs, NEW pc \in Places, NEW objs \in Tables, NEW new \in SUBSET FileNames,
         w.next \in Manifests
  PROVE  LET v == Put(w, pc, objs, new) IN
         /\ v \in WorkRecs /\ v.pc = pc /\ v.target = w.target /\ v.todo = w.todo
         /\ v.next \in Manifests /\ v.next.gen = w.next.gen /\ v.next.objs = objs
         /\ v.val = w.val /\ v.goal = w.goal /\ v.new = new /\ v.file = w.file
<1>1. [w.next EXCEPT !.objs = objs] \in Manifests
  BY DEF Manifests
<1> DEFINE m == [w.next EXCEPT !.objs = objs]
           v == [w EXCEPT !.pc = pc, !.next = m, !.new = new]
<1>2. m.gen = w.next.gen /\ m.objs = objs
  BY DEF Manifests
<1>3. Put(w, pc, objs, new) = v
  BY DEF WorkRecs, Put
<1>4. m \in Manifests \cup {NoFile}
  BY <1>1
<1> HIDE DEF m
<1>5. v \in WorkRecs /\ v.pc = pc /\ v.target = w.target /\ v.todo = w.todo /\ v.next = m
      /\ v.val = w.val /\ v.goal = w.goal /\ v.new = new /\ v.file = w.file
  BY <1>4 DEF WorkRecs, Places
<1> HIDE DEF v
<1> QED  BY <1>1, <1>2, <1>3, <1>5 DEF m

LEMMA WorkStarts ==
  ASSUME NEW pc \in Places, NEW t \in ManifestSlots, NEW todo \in SUBSET Objs, NEW next \in Manifests,
         NEW goal \in Goals, NEW n \in FileNames, NEW k \in Nat
  PROVE  LET v == [pc |-> pc, target |-> t, todo |-> todo, next |-> next, val |-> k, goal |-> goal,
                   new |-> {}, file |-> n]
         IN  /\ v \in WorkRecs /\ v.pc = pc /\ v.target = t /\ v.todo = todo /\ v.next = next
             /\ v.val = k /\ v.goal = goal /\ v.new = {} /\ v.file = n
BY DEF WorkRecs, Places

\* What an update or a removal starts from.
LEMMA BaseFacts ==
  ASSUME ContainersAssumption, FilesOK(files), StoragePresent(files) => container_load(files) # {}
  PROVE  /\ Target \in ManifestSlots /\ BaseManifest.gen \in Nat /\ BaseManifest.objs \in Tables
         /\ DOMAIN Reading(files) = DOMAIN BaseManifest.objs /\ Reading(files) \in Goals
         /\ \A x \in DOMAIN BaseManifest.objs : InPlace(files, BaseManifest, Reading(files), x)
         /\ \A s \in ManifestSlots : container_load(files) = {} => files[Manifest(s)] = NoFile
         /\ container_load(files) # {} => /\ BaseManifest = files[Manifest(1 - Target)]
                                          /\ container_load(files) = {1 - Target}
         /\ files[Manifest(1 - Target)] # NoFile => files[Manifest(1 - Target)].gen < BaseManifest.gen + 1
<1>1. CASE container_load(files) = {}
  <2>1. Target = 0 /\ BaseManifest = [gen |-> 0, objs |-> Nothing] /\ Reading(files) = Nothing
    BY <1>1 DEF Target, BaseManifest, Reading
  <2>2. BaseManifest.gen = 0 /\ BaseManifest.objs = Nothing
    BY <2>1
  <2>3. \A s \in ManifestSlots : files[Manifest(s)] = NoFile
    BY <1>1 DEF StoragePresent
  <2>4. Target \in ManifestSlots /\ 1 - Target \in ManifestSlots
    BY <2>1 DEF ManifestSlots
  <2> QED  BY <1>1, <2>1, <2>2, <2>3, <2>4, TableFacts, GoalFacts
<1>2. ASSUME NEW c \in ManifestSlots, container_load(files) = {c}
      PROVE  /\ Target = 1 - c /\ 1 - Target = c /\ Target \in ManifestSlots
             /\ BaseManifest = files[Manifest(c)] /\ BaseManifest \in Manifests
             /\ DOMAIN Reading(files) = DOMAIN BaseManifest.objs /\ Reading(files) \in Goals
             /\ \A x \in DOMAIN BaseManifest.objs : InPlace(files, BaseManifest, Reading(files), x)
  <2>1. (CHOOSE s \in container_load(files) : TRUE) = c /\ container_load(files) # {}
    BY <1>2, LoadFacts
  <2>2. Target = 1 - c /\ BaseManifest = files[Manifest(c)]
    BY <2>1 DEF Target, BaseManifest
  <2>3. 1 - c \in ManifestSlots /\ 1 - (1 - c) = c
    BY NameFacts
  <2>4. parse_slot(files, c)
    BY <1>2, LoadFacts
  <2>5. BaseManifest \in Manifests
    BY <2>2, <2>4, ParseFacts
  <2>6. Reading(files) = [x \in DOMAIN BaseManifest.objs |-> files[Record(BaseManifest.objs[x].slot, x)].val]
    BY <1>2, <2>2, LoadFacts
  <2>7. ASSUME NEW x \in DOMAIN BaseManifest.objs
        PROVE  InPlace(files, BaseManifest, Reading(files), x) /\ Reading(files)[x] \in Nat
    <3>1. Reading(files)[x] = files[Record(BaseManifest.objs[x].slot, x)].val
      BY <2>6
    <3>2. LET d == BaseManifest.objs[x]
              r == files[Record(d.slot, x)]
          IN  r = [gen |-> d.gen, val |-> r.val] /\ r.val \in Nat
      BY <2>2, <2>4, ParseFacts
    <3> QED  BY <3>1, <3>2 DEF InPlace
  <2>8. DOMAIN Reading(files) = DOMAIN BaseManifest.objs /\ DOMAIN BaseManifest.objs \subseteq Objs
    BY <2>5, <2>6, BlobFacts
  <2>9. Reading(files) \in [DOMAIN BaseManifest.objs -> Nat]
    BY <2>6, <2>7
  <2>10. Reading(files) \in Goals
    BY <2>8, <2>9, GoalFacts
  <2> QED  BY <2>2, <2>3, <2>5, <2>7, <2>8, <2>10
<1>3. CASE \E c \in ManifestSlots : container_load(files) = {c}
  <2>1. PICK c \in ManifestSlots : container_load(files) = {c}
    BY <1>3
  <2>2. BaseManifest.gen \in Nat /\ BaseManifest.objs \in Tables
    BY <1>2, <2>1, BlobFacts
  <2> QED  BY <1>2, <2>1, <2>2
<1> QED  BY <1>1, <1>3, LoadFacts

\* Calls begin.
LEMMA UpdateFiles ==
  ASSUME ContainersAssumption, FilesInv, NEW xs \in SUBSET Objs, ContainerUpdate(xs)
  PROVE  /\ FilesInv'
         /\ work'.pc = "record" /\ work'.target = Target /\ work'.todo = xs /\ work'.val = calls + 1
         /\ work'.next.gen = BaseManifest.gen + 1 /\ work'.next.objs = BaseManifest.objs
         /\ work'.goal = [x \in xs \cup DOMAIN BaseManifest.objs |-> IF x \in xs THEN calls + 1 ELSE Reading(files)[x]]
         /\ work'.goal \in tried' /\ tried \subseteq tried' /\ confirmed' = confirmed
         /\ files' = files /\ flash' = flash
<1> DEFINE objs == BaseManifest.objs
           next == [gen |-> BaseManifest.gen + 1, objs |-> objs]
           goal == [x \in xs \cup DOMAIN objs |-> IF x \in xs THEN calls + 1 ELSE Reading(files)[x]]
           w == [pc |-> "record", target |-> Target, todo |-> xs, next |-> next, val |-> calls + 1,
                 goal |-> goal, new |-> {}, file |-> Marker]
<1>1. /\ FilesOK(files) /\ FilesOK(flash) /\ Counted
      /\ StoragePresent(files) => container_load(files) # {}
  BY DEF FilesInv, ContainerUpdate
<1>2. /\ Target \in ManifestSlots /\ BaseManifest.gen \in Nat /\ objs \in Tables
      /\ DOMAIN Reading(files) = DOMAIN objs /\ Reading(files) \in Goals
      /\ \A x \in DOMAIN objs : InPlace(files, BaseManifest, Reading(files), x)
      /\ files[Manifest(1 - Target)] # NoFile => files[Manifest(1 - Target)].gen < BaseManifest.gen + 1
  BY <1>1, BaseFacts
<1>3. next \in Manifests /\ next.gen = BaseManifest.gen + 1 /\ next.objs = objs
  BY <1>2 DEF Manifests
<1>4. DOMAIN objs \subseteq Objs /\ \A x \in DOMAIN objs : Reading(files)[x] \in Nat
  BY <1>2, TableFacts, GoalFacts
<1>5. calls \in Nat /\ calls + 1 \in Nat
  BY <1>1 DEF Counted
<1>6. goal \in [xs \cup DOMAIN objs -> Nat]
  BY <1>4, <1>5
<1>7. goal \in Goals /\ DOMAIN goal = xs \cup DOMAIN objs
  <2>1. xs \cup DOMAIN objs \in SUBSET Objs
    BY <1>4
  <2> QED  BY <1>6, <2>1, GoalFacts
<1>8. work' = w
  BY DEF ContainerUpdate, CallStarts, NoCall
<1>9. Marker \in FileNames /\ "record" \in Places
  BY NameFacts DEF Places, Calls, Early
<1> HIDE DEF next, goal
<1>10. /\ work' \in WorkRecs /\ work'.pc = "record" /\ work'.target = Target /\ work'.todo = xs
       /\ work'.next = next /\ work'.val = calls + 1 /\ work'.goal = goal /\ work'.new = {} /\ work'.file = Marker
  BY <1>2, <1>3, <1>5, <1>7, <1>8, <1>9, WorkStarts
<1>11. files' = files /\ flash' = flash /\ calls' = calls + 1 /\ losses' = losses /\ ioErrors' = ioErrors
       /\ tried' = tried \cup {goal} /\ confirmed' = confirmed
  BY DEF ContainerUpdate, CallStarts, NoCall, goal, next
<1>12. Pending(work') = xs
  BY <1>10 DEF Pending
<1>13. \A x \in xs : goal[x] = calls + 1
  BY DEF goal
<1>14. ASSUME NEW x \in DOMAIN next.objs \ xs
       PROVE  InPlace(files, next, goal, x)
  <2>1. goal[x] = Reading(files)[x] /\ InPlace(files, BaseManifest, Reading(files), x)
    BY <1>2, <1>3 DEF goal
  <2> QED  BY <1>3, <2>1 DEF InPlace
<1>15. work'.pc \notin {"put", "clear", "manifest", "sync2"} \cup Late /\ work'.pc # "deleted" /\ work'.pc # "idle"
  BY <1>10 DEF Late
<1>16. CallOK(work', files')
  BY <1>2, <1>3, <1>7, <1>10, <1>11, <1>12, <1>13, <1>14, <1>15 DEF CallOK
<1>17. WorkOK'
  BY <1>10, <1>15, <1>16 DEF WorkOK
<1>18. Counted'
  BY <1>1, <1>11 DEF Counted
<1>19. FilesInv'
  BY <1>1, <1>11, <1>15, <1>17, <1>18 DEF FilesInv
<1> QED  BY <1>3, <1>10, <1>11, <1>19 DEF goal

LEMMA RemoveFiles ==
  ASSUME ContainersAssumption, FilesInv, NEW x \in Objs, ContainerRemove(x)
  PROVE  FilesInv'
<1> DEFINE left == DOMAIN BaseManifest.objs \ {x}
           objs == [y \in left |-> BaseManifest.objs[y]]
           next == [gen |-> BaseManifest.gen + 1, objs |-> objs]
           goal == [y \in left |-> Reading(files)[y]]
           w == [pc |-> "clear", target |-> Target, todo |-> {}, next |-> next, val |-> calls + 1,
                 goal |-> goal, new |-> {}, file |-> Manifest(Target)]
<1>1. FilesOK(files) /\ FilesOK(flash) /\ Counted /\ container_load(files) # {}
  BY DEF FilesInv, ContainerRemove
<1>2. /\ Target \in ManifestSlots /\ BaseManifest.gen \in Nat /\ BaseManifest.objs \in Tables
      /\ DOMAIN Reading(files) = DOMAIN BaseManifest.objs /\ Reading(files) \in Goals
      /\ \A y \in DOMAIN BaseManifest.objs : InPlace(files, BaseManifest, Reading(files), y)
      /\ files[Manifest(1 - Target)] # NoFile => files[Manifest(1 - Target)].gen < BaseManifest.gen + 1
  BY <1>1, BaseFacts
<1>3. left \in SUBSET Objs /\ objs \in [left -> [slot : ManifestSlots, gen : Nat \ {0}]] /\ goal \in [left -> Nat]
  BY <1>2, TableFacts, GoalFacts
<1>4. objs \in Tables /\ goal \in Goals /\ DOMAIN objs = left /\ DOMAIN goal = left
  BY <1>3, TableFacts, GoalFacts
<1>5. calls \in Nat /\ calls + 1 \in Nat
  BY <1>1 DEF Counted
<1>6. work' = w
  BY DEF ContainerRemove, CallStarts, NoCall
<1>7. Manifest(Target) \in FileNames /\ "clear" \in Places /\ {} \in SUBSET Objs
  BY <1>2, NameFacts DEF Places, Calls, Early
<1>8. \A y \in left : objs[y] = BaseManifest.objs[y] /\ goal[y] = Reading(files)[y]
  OBVIOUS
<1> HIDE DEF left, objs, goal
<1>9. next \in Manifests /\ next.gen = BaseManifest.gen + 1 /\ next.objs = objs
  BY <1>2, <1>4 DEF Manifests
<1> HIDE DEF next
<1>10. /\ work' \in WorkRecs /\ work'.pc = "clear" /\ work'.target = Target /\ work'.todo = {}
       /\ work'.next = next /\ work'.val = calls + 1 /\ work'.goal = goal /\ work'.new = {}
       /\ work'.file = Manifest(Target)
  BY <1>2, <1>4, <1>5, <1>6, <1>7, <1>9, WorkStarts
<1>11. files' = files /\ flash' = flash /\ calls' = calls + 1 /\ losses' = losses /\ ioErrors' = ioErrors
  BY DEF ContainerRemove, CallStarts
<1>12. Pending(work') = {}
  BY <1>10 DEF Pending
<1>14. ASSUME NEW y \in DOMAIN next.objs
       PROVE  InPlace(files, next, goal, y)
  <2>1. y \in left /\ InPlace(files, BaseManifest, Reading(files), y)
    BY <1>2, <1>4, <1>9 DEF left
  <2> QED  BY <1>8, <1>9, <2>1 DEF InPlace
<1>15. work'.pc \notin {"put", "manifest", "sync2"} \cup Late /\ work'.pc # "deleted" /\ work'.pc # "idle"
  BY <1>10 DEF Late
<1>16. CallOK(work', files')
  BY <1>2, <1>4, <1>9, <1>10, <1>11, <1>12, <1>14, <1>15 DEF CallOK
<1>17. WorkOK'
  BY <1>10, <1>15, <1>16 DEF WorkOK
<1>18. Counted'
  BY <1>1, <1>11 DEF Counted
<1> QED  BY <1>1, <1>11, <1>15, <1>17, <1>18 DEF FilesInv

\* No files at all.
LEMMA EmptyFiles ==
  ASSUME ContainersAssumption, NEW f, f = [n \in FileNames |-> NoFile]
  PROVE  FilesOK(f) /\ \A n \in FileNames : f[n] = NoFile
<1>1. NoFile \in AllBlobs
  BY DEF AllBlobs
<1> QED  BY <1>1, NameFacts DEF FilesOK

LEMMA DeleteFiles ==
  ASSUME ContainersAssumption, FilesInv, ContainerDelete
  PROVE  /\ FilesInv' /\ work'.pc = "deleted" /\ work'.goal = Nothing /\ flash' = flash
         /\ files' = [n \in FileNames |-> NoFile] /\ confirmed' = confirmed
         /\ tried' = tried \cup {Nothing} \cup {Reading([flash EXCEPT ![Manifest(s)] = NoFile]) : s \in ManifestSlots}
<1> DEFINE w == [NoCall EXCEPT !.pc = "deleted"]
           v == [w EXCEPT !.val = calls + 1]
<1>1. FilesOK(flash) /\ Counted /\ calls + 1 \in Nat
  BY DEF FilesInv, Counted
<1>2. files' = [n \in FileNames |-> NoFile] /\ flash' = flash /\ calls' = calls + 1 /\ losses' = losses
      /\ ioErrors' = ioErrors /\ confirmed' = confirmed /\ work' = v
      /\ tried' = tried \cup {w.goal} \cup {Reading([flash EXCEPT ![Manifest(s)] = NoFile]) : s \in ManifestSlots}
  BY DEF ContainerDelete, CallStarts
<1>3. "deleted" \in Places
  BY DEF Places
<1>4. w \in WorkRecs /\ w.pc = "deleted" /\ w.goal = Nothing
  BY <1>3, NoCallFacts, WorkMoves DEF Moved
<1> HIDE DEF w
<1>5. v \in WorkRecs /\ v.pc = w.pc /\ v.goal = w.goal
  BY <1>1, <1>4 DEF WorkRecs
<1>6. work' \in WorkRecs /\ work'.pc = "deleted" /\ work'.goal = Nothing
  BY <1>2, <1>4, <1>5
<1>7. FilesOK(files') /\ \A n \in FileNames : files'[n] = NoFile
  BY <1>2, EmptyFiles
<1>8. work'.pc \notin Calls /\ work'.pc # "idle"
  BY <1>6 DEF Calls, Early, Late
<1>9. WorkOK'
  BY <1>6, <1>7, <1>8 DEF WorkOK
<1>10. Counted'
  BY <1>1, <1>2 DEF Counted
<1>11. FilesInv'
  BY <1>1, <1>2, <1>7, <1>8, <1>9, <1>10 DEF FilesInv
<1> QED  BY <1>2, <1>4, <1>6, <1>11

\* The steps of a call.
LEMMA ClearRecordFiles ==
  ASSUME ContainersAssumption, FilesInv, ClearRecord
  PROVE  /\ FilesInv' /\ flash' = flash /\ Pending(work') = Pending(work) /\ work'.pc = "put"
         /\ work'.target = work.target /\ work'.next = work.next /\ work'.goal = work.goal /\ work'.val = work.val
         /\ \A n \in FileNames : (\A y \in Objs : n # Record(work.target, y)) => files'[n] = files[n]
<1>1. PICK x \in work.todo : LET r == Record(work.target, x) IN
         files' = [files EXCEPT ![r] = NoFile] /\ work' = [work EXCEPT !.pc = "put", !.file = r, !.todo = work.todo \ {x}]
  BY DEF ClearRecord, FileWritten
<1> DEFINE r == Record(work.target, x)
<1>2. work \in WorkRecs /\ FilesOK(files) /\ FilesOK(flash) /\ Counted /\ work.pc = "record"
      /\ CallOK(work, files) /\ UNCHANGED <<flash, calls, losses, ioErrors>>
  BY DEF FilesInv, WorkOK, ClearRecord, Calls, Early
<1>3. x \in Objs /\ work.target \in ManifestSlots /\ r \in FileNames /\ r \in RecordFiles
      /\ work.todo \ {x} \in SUBSET Objs /\ "put" \in Places
  BY <1>1, <1>2, WorkFields, NameFacts DEF Places, Calls, Early
<1>4. /\ work' \in WorkRecs /\ work'.pc = "put" /\ work'.target = work.target /\ work'.todo = work.todo \ {x}
      /\ work'.next = work.next /\ work'.val = work.val /\ work'.goal = work.goal /\ work'.file = r
  <2>1. LET v == Cleared(work, "put", r, work.todo \ {x}) IN
        /\ v \in WorkRecs /\ v.pc = "put" /\ v.target = work.target /\ v.todo = work.todo \ {x}
        /\ v.next = work.next /\ v.val = work.val /\ v.goal = work.goal /\ v.new = work.new /\ v.file = r
    BY <1>2, <1>3, WorkClears
  <2> QED  BY <1>1, <2>1 DEF Cleared
<1>5. NoFile \in AllBlobs /\ NoFile \in RecordsOf \cup {NoFile} /\ NoFile \in Manifests \cup {NoFile}
  BY DEF AllBlobs
<1>6. FilesOK(files') /\ \A n \in FileNames : n # r => files'[n] = files[n]
  <2>1. files' = With(files, r, NoFile)
    BY <1>1 DEF With
  <2> QED  BY <1>2, <1>3, <1>5, <2>1, WriteFacts
<1>7. r[2] = x /\ Pending(work) = work.todo /\ Pending(work') = (work.todo \ {x}) \cup {x}
  BY <1>2, <1>3, <1>4, NameFacts DEF Pending
<1>8. Pending(work') = Pending(work)
  BY <1>1, <1>7
<1>9. ASSUME NEW y \in DOMAIN work.next.objs \ Pending(work)
      PROVE  InPlace(files', work.next, work.goal, y)
  <2>1. InPlace(files, work.next, work.goal, y) /\ y # x /\ y \in Objs /\ work.next.objs[y].slot \in ManifestSlots
    BY <1>1, <1>2, <1>7, BlobFacts DEF CallOK
  <2>2. Record(work.next.objs[y].slot, y) # r /\ Record(work.next.objs[y].slot, y) \in FileNames
    BY <1>3, <2>1, NameFacts
  <2> QED  BY <1>6, <2>1, <2>2 DEF InPlace
<1>10. \A s \in ManifestSlots : files'[Manifest(s)] = files[Manifest(s)]
  BY <1>3, <1>6, NameFacts
<1>11. 1 - work.target \in ManifestSlots
  BY <1>3, NameFacts
<1>12. work'.pc \notin {"clear", "manifest", "sync2"} \cup Late /\ work'.pc # "deleted" /\ work'.pc # "idle"
  BY <1>4 DEF Late
<1>13. work'.file = Record(work'.target, work'.file[2]) /\ work'.file[2] \in Objs \ work'.todo
  BY <1>3, <1>4, <1>7
<1>14. CallOK(work', files')
  BY <1>2, <1>4, <1>8, <1>9, <1>10, <1>11, <1>12, <1>13 DEF CallOK
<1>15. WorkOK'
  BY <1>4, <1>12, <1>14 DEF WorkOK
<1>16. Counted'
  BY <1>2 DEF Counted
<1>17. FilesInv'
  BY <1>2, <1>6, <1>12, <1>15, <1>16 DEF FilesInv
<1>18. \A n \in FileNames : (\A y \in Objs : n # Record(work.target, y)) => files'[n] = files[n]
  BY <1>3, <1>6
<1> QED  BY <1>2, <1>4, <1>8, <1>17, <1>18

LEMMA PutRecordFiles ==
  ASSUME ContainersAssumption, FilesInv, PutRecord
  PROVE  LET x == work.file[2]
             g == 1 + IF x \in DOMAIN work.next.objs THEN work.next.objs[x].gen ELSE 0
         IN
         /\ FilesInv' /\ flash' = flash /\ x \in Objs \ work.todo /\ x \in Pending(work) /\ Pending(work') = work.todo
         /\ work.file = Record(work.target, x)
         /\ work'.pc \in {"record", "sync"} /\ Pending(work) = work.todo \cup {x}
         /\ work'.target = work.target /\ work'.goal = work.goal /\ work'.val = work.val
         /\ work'.next.gen = work.next.gen
         /\ work'.next.objs = [y \in DOMAIN work.next.objs \cup {x} |->
                                 IF y = x THEN [slot |-> work.target, gen |-> g] ELSE work.next.objs[y]]
         /\ \A n \in FileNames : (\A y \in Objs : n # Record(work.target, y)) => files'[n] = files[n]
<1> DEFINE x == work.file[2]
           g == 1 + IF x \in DOMAIN work.next.objs THEN work.next.objs[x].gen ELSE 0
           objs == [y \in DOMAIN work.next.objs \cup {x} |->
                      IF y = x THEN [slot |-> work.target, gen |-> g] ELSE work.next.objs[y]]
           pc == IF work.todo = {} THEN "sync" ELSE "record"
           new == work.new \cup {work.file}
           rec == [gen |-> g, val |-> work.val]
<1>1. /\ files' = [files EXCEPT ![work.file] = rec]
      /\ work' = [work EXCEPT !.pc = pc, !.next.objs = objs, !.new = new]
  BY DEF PutRecord, FileWritten
<1>2. work \in WorkRecs /\ FilesOK(files) /\ FilesOK(flash) /\ Counted /\ work.pc = "put"
      /\ CallOK(work, files) /\ UNCHANGED <<flash, calls, losses, ioErrors>>
  BY DEF FilesInv, WorkOK, PutRecord, Calls, Early
<1>3. /\ x \in Objs \ work.todo /\ x \in Objs /\ work.file = Record(work.target, x) /\ work.next \in Manifests
      /\ Pending(work) = work.todo \cup {x}
  BY <1>2 DEF CallOK, Pending
<1>4. /\ work.target \in ManifestSlots /\ work.file \in FileNames /\ work.val \in Nat
      /\ work.todo \in SUBSET Objs /\ work.new \in SUBSET FileNames
  BY <1>2, WorkFields
<1>5. g \in Nat \ {0}
  BY <1>3, BlobFacts
<1>6. rec \in RecordsOf /\ rec.gen = g /\ rec.val = work.val
  BY <1>4, <1>5 DEF RecordsOf
<1>7. pc \in Places /\ pc \in {"record", "sync"} /\ new \in SUBSET FileNames
  BY <1>4 DEF Places, Calls, Early
<1> HIDE DEF g
<1>8. objs \in Tables
  <2>1. DOMAIN work.next.objs \cup {x} \in SUBSET Objs
    BY <1>3, BlobFacts
  <2>2. [slot |-> work.target, gen |-> g] \in [slot : ManifestSlots, gen : Nat \ {0}]
    BY <1>4, <1>5
  <2>3. objs \in [DOMAIN work.next.objs \cup {x} -> [slot : ManifestSlots, gen : Nat \ {0}]]
    BY <1>3, <2>2, BlobFacts
  <2> QED  BY <2>1, <2>3, TableFacts
<1>9. /\ DOMAIN objs = DOMAIN work.next.objs \cup {x} /\ objs[x] = [slot |-> work.target, gen |-> g]
      /\ \A y \in DOMAIN work.next.objs : y # x => objs[y] = work.next.objs[y]
  OBVIOUS
<1> HIDE DEF objs, pc, new
<1>10. /\ work' \in WorkRecs /\ work'.pc = pc /\ work'.target = work.target /\ work'.todo = work.todo
       /\ work'.next \in Manifests /\ work'.next.gen = work.next.gen /\ work'.next.objs = objs
       /\ work'.val = work.val /\ work'.goal = work.goal /\ work'.file = work.file
  <2>1. LET v == Put(work, pc, objs, new) IN
        /\ v \in WorkRecs /\ v.pc = pc /\ v.target = work.target /\ v.todo = work.todo
        /\ v.next \in Manifests /\ v.next.gen = work.next.gen /\ v.next.objs = objs
        /\ v.val = work.val /\ v.goal = work.goal /\ v.new = new /\ v.file = work.file
    BY <1>2, <1>3, <1>7, <1>8, WorkPuts
  <2> QED  BY <1>1, <2>1 DEF Put
<1>11. Pending(work') = work.todo
  BY <1>10 DEF Pending, pc
<1>12. rec \in AllBlobs /\ \A s \in ManifestSlots : work.file # Manifest(s)
  BY <1>3, <1>4, <1>6, NameFacts DEF AllBlobs
<1>13. FilesOK(files') /\ files'[work.file] = rec /\ \A n \in FileNames : n # work.file => files'[n] = files[n]
  <2> HIDE DEF rec
  <2>1. files' = With(files, work.file, rec)
    BY <1>1 DEF With
  <2> QED  BY <1>2, <1>4, <1>6, <1>12, <2>1, WriteFacts
<1>14. ASSUME NEW y \in DOMAIN objs \ work.todo
       PROVE  InPlace(files', work'.next, work.goal, y)
  <2>1. CASE y = x
    <3>1. work.goal[x] = work.val
      BY <1>2, <1>3 DEF CallOK
    <3>2. objs[x].slot = work.target /\ objs[x].gen = g
      BY <1>9
    <3> QED  BY <1>3, <1>10, <1>13, <2>1, <3>1, <3>2 DEF InPlace
  <2>2. CASE y # x
    <3>1. y \in DOMAIN work.next.objs /\ y \notin Pending(work) /\ objs[y] = work.next.objs[y]
      BY <1>3, <1>9, <2>2
    <3>2. InPlace(files, work.next, work.goal, y) /\ y \in Objs /\ work.next.objs[y].slot \in ManifestSlots
      BY <1>2, <1>3, <3>1, BlobFacts DEF CallOK
    <3>3. Record(work.next.objs[y].slot, y) # work.file /\ Record(work.next.objs[y].slot, y) \in FileNames
      BY <1>3, <1>4, <2>2, <3>2, NameFacts
    <3> QED  BY <1>10, <1>13, <3>1, <3>2, <3>3 DEF InPlace
  <2> QED  BY <2>1, <2>2
<1>15. \A s \in ManifestSlots : files'[Manifest(s)] = files[Manifest(s)]
  BY <1>12, <1>13, NameFacts
<1>16. 1 - work.target \in ManifestSlots
  BY <1>4, NameFacts
<1>17. work'.pc \notin {"put", "clear", "manifest", "sync2"} \cup Late /\ work'.pc # "deleted" /\ work'.pc # "idle"
  BY <1>10, <1>7 DEF Late
<1>18. DOMAIN work.goal = DOMAIN objs \cup work.todo
  BY <1>2, <1>3, <1>9 DEF CallOK
<1>19. \A y \in work.todo : y \in Objs /\ work.goal[y] = work.val
  BY <1>2, <1>3 DEF CallOK
<1>20. files[Manifest(1 - work.target)] # NoFile => files[Manifest(1 - work.target)].gen < work.next.gen
  BY <1>2 DEF CallOK
<1>21. CallOK(work', files')
  BY <1>10, <1>11, <1>14, <1>15, <1>16, <1>17, <1>18, <1>19, <1>20 DEF CallOK
<1>22. WorkOK'
  BY <1>10, <1>17, <1>21 DEF WorkOK
<1>23. Counted'
  BY <1>2 DEF Counted
<1>24. FilesInv'
  BY <1>2, <1>13, <1>17, <1>22, <1>23 DEF FilesInv
<1>25. \A n \in FileNames : (\A y \in Objs : n # Record(work.target, y)) => files'[n] = files[n]
  BY <1>3, <1>13
<1>26. work'.pc \in {"record", "sync"} /\ x \in Pending(work) /\ flash' = flash
  BY <1>2, <1>3, <1>7, <1>10
<1> QED  BY <1>3, <1>10, <1>11, <1>24, <1>25, <1>26 DEF objs, g

\* Once the records are written only manifests and the marker change.
Written == Calls \ {"record", "put"}

LEMMA CallMoves ==
  ASSUME ContainersAssumption, FilesInv, work.pc \in Written, NEW w \in WorkRecs, NEW f, FilesOK(f), w.pc \in Written,
         w.target = work.target, w.next = work.next, w.goal = work.goal,
         \A s \in ManifestSlots, x \in Objs : f[Record(s, x)] = files[Record(s, x)],
         f[Manifest(1 - work.target)] = files[Manifest(1 - work.target)],
         w.pc \in {"clear", "manifest"} => w.file = Manifest(w.target),
         w.pc = "manifest" => f[Manifest(w.target)] = NoFile,
         w.pc \in {"sync2"} \cup Late => f[Manifest(w.target)] = w.next
  PROVE  CallOK(w, f)
<1>1. work.pc \in Calls /\ work.pc # "record" /\ work.pc # "put" /\ w.pc # "record" /\ w.pc # "put"
  BY DEF Written
<1>2. CallOK(work, files)
  BY <1>1 DEF FilesInv, WorkOK
<1>3. Pending(work) = {} /\ Pending(w) = {}
  BY <1>1 DEF Pending
<1>4. ASSUME NEW x \in DOMAIN w.next.objs
      PROVE  InPlace(f, w.next, w.goal, x)
  <2>1. InPlace(files, work.next, work.goal, x) /\ x \in Objs /\ work.next.objs[x].slot \in ManifestSlots
    BY <1>2, <1>3, BlobFacts DEF CallOK
  <2> QED  BY <2>1 DEF InPlace
<1> QED  BY <1>1, <1>2, <1>3, <1>4 DEF CallOK

LEMMA CallMovesFiles ==
  ASSUME ContainersAssumption, FilesInv, work.pc \in Written, NEW pc \in Written, NEW n \in FileNames,
         (work' = Moved(work, pc) /\ n = work.file) \/ work' = MovedTo(work, pc, n),
         FilesOK(files'), FilesOK(flash'), UNCHANGED <<calls, losses, ioErrors>>,
         \A s \in ManifestSlots, x \in Objs : files'[Record(s, x)] = files[Record(s, x)],
         files'[Manifest(1 - work.target)] = files[Manifest(1 - work.target)],
         pc \in {"clear", "manifest"} => n = Manifest(work.target),
         pc = "manifest" => files'[Manifest(work.target)] = NoFile,
         pc \in {"sync2"} \cup Late => files'[Manifest(work.target)] = work.next
  PROVE  /\ FilesInv' /\ work'.pc = pc /\ work'.target = work.target /\ work'.next = work.next
         /\ work'.goal = work.goal /\ work'.val = work.val
<1>1. work \in WorkRecs /\ pc \in Places /\ pc \in Calls /\ pc # "idle" /\ pc # "deleted" /\ Counted
  BY DEF FilesInv, WorkOK, Written, Places, Calls, Early, Late
<1>2. /\ work' \in WorkRecs /\ work'.pc = pc /\ work'.target = work.target /\ work'.next = work.next
      /\ work'.goal = work.goal /\ work'.file = n /\ work'.val = work.val
  <2>1. CASE work' = Moved(work, pc) /\ n = work.file
    BY <1>1, <2>1, WorkMoves
  <2>2. CASE work' = MovedTo(work, pc, n)
    BY <1>1, <2>2, WorkMovesTo
  <2> QED  BY <2>1, <2>2
<1>3. CallOK(work', files')
  BY <1>2, CallMoves
<1>4. WorkOK'
  BY <1>1, <1>2, <1>3 DEF WorkOK
<1>5. Counted'
  BY <1>1 DEF Counted
<1> QED  BY <1>1, <1>2, <1>4, <1>5 DEF FilesInv

\* What those steps leave: w and f before, v and h after.
Moves(w, v, f, h, pc) ==
  /\ v.pc = pc /\ v.target = w.target /\ v.next = w.next /\ v.goal = w.goal /\ v.val = w.val
  /\ \A s \in ManifestSlots, x \in Objs : h[Record(s, x)] = f[Record(s, x)]
  /\ h[Manifest(1 - w.target)] = f[Manifest(1 - w.target)]

LEMMA WrittenFacts ==
  ASSUME ContainersAssumption, FilesInv, work.pc \in Written
  PROVE  /\ work \in WorkRecs /\ work.target \in ManifestSlots /\ 1 - work.target \in ManifestSlots
         /\ work.next \in Manifests /\ work.file \in FileNames /\ CallOK(work, files) /\ FilesOK(files) /\ FilesOK(flash)
         /\ Pending(work) = {} /\ work.next # NoFile
<1>1. work \in WorkRecs /\ CallOK(work, files) /\ FilesOK(files) /\ FilesOK(flash)
  BY DEF FilesInv, WorkOK, Written
<1>2. work.target \in ManifestSlots /\ work.next \in Manifests /\ work.file \in FileNames
  BY <1>1, WorkFields DEF CallOK
<1>3. Pending(work) = {}
  BY DEF Pending, Written
<1> QED  BY <1>1, <1>2, <1>3, NameFacts, BlobFacts

LEMMA SyncRecordsFiles ==
  ASSUME ContainersAssumption, FilesInv, SyncRecordFiles
  PROVE  FilesInv' /\ Moves(work, work', files, files', "clear")
<1>1. work.pc \in Written /\ work.pc = "sync" /\ "clear" \in Written /\ "clear" \notin {"manifest", "sync2"} \cup Late
  BY DEF SyncRecordFiles, Written, Calls, Early, Late
<1>2. work' = MovedTo(work, "clear", Manifest(work.target)) /\ UNCHANGED <<files, flash, calls, losses, ioErrors>>
  BY DEF SyncRecordFiles, MovedTo, storage
<1>3. Manifest(work.target) \in FileNames
  BY <1>1, WrittenFacts, NameFacts
<1>4. /\ FilesInv' /\ work'.pc = "clear" /\ work'.target = work.target /\ work'.next = work.next
      /\ work'.goal = work.goal /\ work'.val = work.val
  BY <1>1, <1>2, <1>3, WrittenFacts, CallMovesFiles
<1> QED  BY <1>2, <1>4 DEF Moves

\* A manifest is written or removed.
LEMMA ManifestWrites ==
  ASSUME ContainersAssumption, NEW f, FilesOK(f), NEW s \in ManifestSlots, NEW m \in Manifests \cup {NoFile}
  PROVE  LET h == With(f, Manifest(s), m) IN
         /\ FilesOK(h) /\ h[Manifest(s)] = m /\ h[Manifest(1 - s)] = f[Manifest(1 - s)]
         /\ \A t \in ManifestSlots, x \in Objs : h[Record(t, x)] = f[Record(t, x)]
<1>1. Manifest(s) \in FileNames /\ m \in AllBlobs /\ 1 - s \in ManifestSlots
  BY NameFacts DEF AllBlobs
<1>2. \A t \in ManifestSlots, x \in Objs : Manifest(s) # Record(t, x)
  BY NameFacts
<1>3. LET h == With(f, Manifest(s), m) IN
      FilesOK(h) /\ h[Manifest(s)] = m /\ \A n \in FileNames : n # Manifest(s) => h[n] = f[n]
  BY <1>1, <1>2, WriteFacts
<1>4. Manifest(1 - s) # Manifest(s) /\ Manifest(1 - s) \in FileNames
  BY <1>1, NameFacts
<1> QED  BY <1>2, <1>3, <1>4, NameFacts

LEMMA ClearManifestFiles ==
  ASSUME ContainersAssumption, FilesInv, ClearManifest
  PROVE  FilesInv' /\ Moves(work, work', files, files', "manifest") /\ files'[Manifest(work.target)] = NoFile
<1>1. work.pc \in Written /\ work.pc = "clear" /\ "manifest" \in Written /\ "manifest" \notin {"sync2"} \cup Late
  BY DEF ClearManifest, Written, Calls, Early, Late
<1>2. work' = Moved(work, "manifest") /\ files' = With(files, work.file, NoFile)
      /\ UNCHANGED <<flash, calls, losses, ioErrors>>
  BY DEF ClearManifest, Moved, StepTo, FileWritten, With
<1>3. work.file = Manifest(work.target) /\ work.target \in ManifestSlots
  BY <1>1, WrittenFacts DEF CallOK
<1>4. /\ FilesOK(files') /\ files'[Manifest(work.target)] = NoFile
      /\ files'[Manifest(1 - work.target)] = files[Manifest(1 - work.target)]
      /\ \A t \in ManifestSlots, x \in Objs : files'[Record(t, x)] = files[Record(t, x)]
  BY <1>1, <1>2, <1>3, WrittenFacts, ManifestWrites
<1>5. work.file \in FileNames /\ FilesOK(flash')
  BY <1>1, <1>2, WrittenFacts
<1>6. /\ FilesInv' /\ work'.pc = "manifest" /\ work'.target = work.target /\ work'.next = work.next
      /\ work'.goal = work.goal /\ work'.val = work.val
  BY <1>1, <1>2, <1>3, <1>4, <1>5, CallMovesFiles
<1> QED  BY <1>4, <1>6 DEF Moves

LEMMA PutManifestFiles ==
  ASSUME ContainersAssumption, FilesInv, PutManifest
  PROVE  FilesInv' /\ Moves(work, work', files, files', "sync2") /\ files'[Manifest(work.target)] = work.next
<1>1. work.pc \in Written /\ work.pc = "manifest" /\ "sync2" \in Written /\ "sync2" \notin {"clear", "manifest"}
  BY DEF PutManifest, Written, Calls, Early, Late
<1>2. work' = Moved(work, "sync2") /\ files' = With(files, work.file, work.next)
      /\ UNCHANGED <<flash, calls, losses, ioErrors>>
  BY DEF PutManifest, Moved, StepTo, FileWritten, With
<1>3. work.file = Manifest(work.target) /\ work.target \in ManifestSlots
  BY <1>1, WrittenFacts DEF CallOK
<1>4. /\ FilesOK(files') /\ files'[Manifest(work.target)] = work.next
      /\ files'[Manifest(1 - work.target)] = files[Manifest(1 - work.target)]
      /\ \A t \in ManifestSlots, x \in Objs : files'[Record(t, x)] = files[Record(t, x)]
  BY <1>1, <1>2, <1>3, WrittenFacts, ManifestWrites
<1>5. work.file \in FileNames /\ FilesOK(flash')
  BY <1>1, <1>2, WrittenFacts
<1>6. /\ FilesInv' /\ work'.pc = "sync2" /\ work'.target = work.target /\ work'.next = work.next
      /\ work'.goal = work.goal /\ work'.val = work.val
  BY <1>1, <1>2, <1>3, <1>4, <1>5, CallMovesFiles
<1> QED  BY <1>4, <1>6 DEF Moves

LEMMA SyncManifestFiles ==
  ASSUME ContainersAssumption, FilesInv, SyncManifest
  PROVE  FilesInv' /\ \E pc \in Late : Moves(work, work', files, files', pc)
<1> DEFINE pc == IF work.new = {} THEN "retire" ELSE "activate"
<1>1. work.pc \in Written /\ work.pc = "sync2" /\ pc \in Written /\ pc \in Late /\ pc \notin {"clear", "manifest"}
  BY DEF SyncManifest, Written, Calls, Early, Late
<1>2. work' = Moved(work, pc) /\ UNCHANGED <<files, flash, calls, losses, ioErrors>>
  BY DEF SyncManifest, Moved, StepTo, storage
<1> HIDE DEF pc
<1>3. work.file \in FileNames /\ FilesOK(files') /\ FilesOK(flash') /\ files'[Manifest(work.target)] = work.next
  BY <1>1, <1>2, WrittenFacts DEF CallOK
<1>4. /\ FilesInv' /\ work'.pc = pc /\ work'.target = work.target /\ work'.next = work.next
      /\ work'.goal = work.goal /\ work'.val = work.val
  BY <1>1, <1>2, <1>3, CallMovesFiles
<1>5. Moves(work, work', files, files', pc)
  BY <1>2, <1>4 DEF Moves
<1> QED  BY <1>1, <1>4, <1>5

LEMMA ActivateFiles ==
  ASSUME ContainersAssumption, FilesInv, Activate \/ SyncMarker
  PROVE  FilesInv' /\ \E pc \in Late : Moves(work, work', files, files', pc)
<1>1. PICK pc \in {"retire", "sync3"} : work' = Moved(work, pc) /\ (files' = files \/ files' = [files EXCEPT ![Marker] = [gen |-> 1]])
  BY DEF Activate, SyncMarker, Moved, StepTo, FileWritten, storage
<1>2. work.pc \in Written /\ work.pc \in Late /\ pc \in Written /\ pc \in Late /\ pc \notin {"clear", "manifest"}
  BY DEF Activate, SyncMarker, Written, Calls, Early, Late
<1>3. UNCHANGED <<flash, calls, losses, ioErrors>>
  BY DEF Activate, SyncMarker, storage
<1>4. /\ FilesOK(files') /\ \A s \in ManifestSlots : files'[Manifest(s)] = files[Manifest(s)]
      /\ \A s \in ManifestSlots, x \in Objs : files'[Record(s, x)] = files[Record(s, x)]
  <2>1. CASE files' = files
    BY <1>2, <2>1, WrittenFacts
  <2>2. CASE files' = [files EXCEPT ![Marker] = [gen |-> 1]]
    <3>1. [gen |-> 1] \in AllBlobs /\ Marker \in FileNames /\ FilesOK(files)
      BY <1>2, NameFacts, WrittenFacts DEF AllBlobs
    <3>2. PICK v \in AllBlobs : v = [gen |-> 1]
      BY <3>1
    <3>3. FilesOK(With(files, Marker, v)) /\ \A n \in FileNames : n # Marker => With(files, Marker, v)[n] = files[n]
      BY <3>1, NameFacts, WriteFacts
    <3>4. files' = With(files, Marker, v)
      BY <2>2, <3>2 DEF With
    <3> QED  BY <3>3, <3>4, NameFacts
  <2> QED  BY <1>1, <2>1, <2>2
<1>5. work.file \in FileNames /\ FilesOK(flash') /\ work.target \in ManifestSlots /\ 1 - work.target \in ManifestSlots
      /\ files'[Manifest(work.target)] = work.next
  BY <1>2, <1>3, <1>4, WrittenFacts DEF CallOK
<1>6. /\ FilesInv' /\ work'.pc = pc /\ work'.target = work.target /\ work'.next = work.next
      /\ work'.goal = work.goal /\ work'.val = work.val
  BY <1>1, <1>2, <1>3, <1>4, <1>5, CallMovesFiles
<1>7. Moves(work, work', files, files', pc)
  BY <1>4, <1>5, <1>6 DEF Moves
<1> QED  BY <1>2, <1>6, <1>7

\* Some files go.
LEMMA GoneFiles ==
  ASSUME ContainersAssumption, NEW f, FilesOK(f), NEW gone
  PROVE  LET h == [n \in FileNames |-> IF n \in gone THEN NoFile ELSE f[n]] IN
         FilesOK(h) /\ \A n \in FileNames : h[n] = IF n \in gone THEN NoFile ELSE f[n]
<1> DEFINE h == [n \in FileNames |-> IF n \in gone THEN NoFile ELSE f[n]]
<1>1. h \in [FileNames -> AllBlobs] /\ \A n \in FileNames : h[n] = IF n \in gone THEN NoFile ELSE f[n]
  BY DEF FilesOK, AllBlobs
<1> HIDE DEF h
<1>2. \A s \in ManifestSlots : h[Manifest(s)] \in Manifests \cup {NoFile}
  BY <1>1, NameFacts DEF FilesOK
<1>3. \A s \in ManifestSlots, x \in Objs : h[Record(s, x)] \in RecordsOf \cup {NoFile}
  BY <1>1, NameFacts DEF FilesOK
<1>4. FilesOK(h)
  BY <1>1, <1>2, <1>3 DEF FilesOK
<1> QED  BY <1>1, <1>4 DEF h

\* The call is over: nothing but the files of a fault-free run is left to show.
LEMMA CallEnds ==
  ASSUME FilesInv, work' = NoCall, FilesOK(files'), FilesOK(flash'), Counted',
         losses' = 0 /\ ioErrors' = 0 => Holds(files', confirmed')
  PROVE  FilesInv'
BY NoCallFacts DEF FilesInv, WorkOK

LEMMA RetireFiles ==
  ASSUME ContainersAssumption, FilesInv, Retire
  PROVE  /\ FilesInv' /\ files'[Manifest(work.target)] = work.next /\ files'[Manifest(1 - work.target)] = NoFile
         /\ \A x \in DOMAIN work.next.objs :
              files'[Record(work.next.objs[x].slot, x)] = files[Record(work.next.objs[x].slot, x)]
<1> DEFINE gone == {Manifest(1 - work.target)} \cup (RecordFiles \ Referenced)
<1>1. work.pc = "retire" /\ work.pc \in Written /\ work.pc \in Late /\ Counted
  BY DEF Retire, Written, Calls, Late, FilesInv
<1>2. /\ work.target \in ManifestSlots /\ 1 - work.target \in ManifestSlots /\ work.next \in Manifests
      /\ CallOK(work, files) /\ FilesOK(files) /\ FilesOK(flash) /\ Pending(work) = {} /\ work \in WorkRecs
  BY <1>1, WrittenFacts
<1>3. files' = [n \in FileNames |-> IF n \in gone THEN NoFile ELSE files[n]]
  BY DEF Retire
<1>4. work' = NoCall /\ confirmed' = work.goal /\ UNCHANGED <<flash, calls, losses, ioErrors>>
  BY DEF Retire
<1> HIDE DEF gone
<1>5. FilesOK(files') /\ \A n \in FileNames : files'[n] = IF n \in gone THEN NoFile ELSE files[n]
  BY <1>2, <1>3, GoneFiles
<1>6. Manifest(work.target) \notin gone /\ Manifest(1 - work.target) \in gone
  BY <1>2, NameFacts DEF gone
<1>7. ASSUME NEW x \in DOMAIN work.next.objs
      PROVE  /\ Record(work.next.objs[x].slot, x) \notin gone
             /\ Record(work.next.objs[x].slot, x) \in FileNames
  BY <1>2, NameFacts, BlobFacts DEF gone, Referenced
<1>8. /\ files'[Manifest(work.target)] = work.next /\ files'[Manifest(1 - work.target)] = NoFile
      /\ \A x \in DOMAIN work.next.objs :
           files'[Record(work.next.objs[x].slot, x)] = files[Record(work.next.objs[x].slot, x)]
  <2>1. files[Manifest(work.target)] = work.next
    BY <1>1, <1>2 DEF CallOK
  <2>2. files'[Manifest(work.target)] = files[Manifest(work.target)] /\ files'[Manifest(1 - work.target)] = NoFile
    BY <1>2, <1>5, <1>6, NameFacts
  <2> QED  BY <1>5, <1>7, <2>1, <2>2
<1>9. ASSUME NEW x \in DOMAIN work.goal
      PROVE  InPlace(files', work.next, work.goal, x)
  <2>1. x \in DOMAIN work.next.objs /\ InPlace(files, work.next, work.goal, x)
    BY <1>2 DEF CallOK
  <2> QED  BY <1>8, <2>1 DEF InPlace
<1>10. DOMAIN work.goal = DOMAIN work.next.objs /\ work.goal \in Goals
  BY <1>2, WorkFields DEF CallOK
<1>11. Holds(files', confirmed')
  BY <1>2, <1>4, <1>8, <1>9, <1>10 DEF Holds
<1>12. Counted' /\ FilesOK(flash')
  BY <1>1, <1>2, <1>4 DEF Counted
<1> QED  BY <1>4, <1>5, <1>8, <1>11, <1>12, CallEnds

LEMMA EndFiles ==
  ASSUME ContainersAssumption, FilesInv, SyncDeleted \/ CallFails \/ LosePower
  PROVE  FilesInv'
<1>1. FilesOK(files) /\ FilesOK(flash) /\ Counted /\ WorkOK
  BY DEF FilesInv
<1>2. CASE SyncDeleted
  <2>1. /\ work' = NoCall /\ confirmed' = Nothing /\ UNCHANGED <<files, flash, calls, losses, ioErrors>>
        /\ \A n \in FileNames : files[n] = NoFile
    BY <1>1, <1>2 DEF SyncDeleted, WorkOK, storage
  <2>2. Holds(files', confirmed')
    BY <2>1, NameFacts DEF Holds
  <2>3. Counted'
    BY <1>1, <2>1 DEF Counted
  <2> QED  BY <1>1, <2>1, <2>2, <2>3, CallEnds
<1>3. CASE CallFails
  <2> DEFINE gone == IF Rollback THEN work.new ELSE {}
  <2>1. files' = [n \in FileNames |-> IF n \in gone THEN NoFile ELSE files[n]]
    BY <1>3 DEF CallFails
  <2> HIDE DEF gone
  <2>2. FilesOK(files')
    BY <1>1, <2>1, GoneFiles
  <2>3. work' = NoCall /\ flash' = flash /\ Counted' /\ ioErrors' # 0
    BY <1>1, <1>3 DEF CallFails, Counted
  <2> QED  BY <1>1, <2>2, <2>3, CallEnds
<1>4. CASE LosePower
  <2>1. work' = NoCall /\ files' = flash /\ flash' = flash /\ Counted' /\ losses' # 0
    BY <1>1, <1>4 DEF LosePower, Counted
  <2> QED  BY <1>1, <2>1, CallEnds
<1> QED  BY <1>2, <1>3, <1>4

LEMMA WriteBackFiles ==
  ASSUME ContainersAssumption, FilesInv, NEW n \in FileNames, WriteBack(n)
  PROVE  /\ FilesInv' /\ UNCHANGED <<files, work, confirmed, tried, deletion>>
         /\ flash'[n] = files[n] /\ \A m \in FileNames : m # n => flash'[m] = flash[m]
<1>1. FilesOK(files) /\ FilesOK(flash)
  BY DEF FilesInv
<1>2. /\ UNCHANGED <<files, work, confirmed, tried, deletion, calls, losses, ioErrors>>
      /\ flash' = With(flash, n, files[n])
  BY DEF WriteBack, With, ghosts
<1>3. files[n] \in AllBlobs
  BY <1>1 DEF FilesOK
<1>4. FilesOK(flash') /\ flash'[n] = files[n] /\ \A m \in FileNames : m # n => flash'[m] = flash[m]
  <2>1. \A s \in ManifestSlots : n = Manifest(s) => files[n] \in Manifests \cup {NoFile}
    BY <1>1 DEF FilesOK
  <2>2. \A s \in ManifestSlots, x \in Objs : n = Record(s, x) => files[n] \in RecordsOf \cup {NoFile}
    BY <1>1 DEF FilesOK
  <2> QED  BY <1>1, <1>2, <1>3, <2>1, <2>2, WriteFacts
<1>5. WorkOK' /\ Counted'
  BY <1>2 DEF FilesInv, WorkOK, Counted
<1>6. FilesInv'
  BY <1>2, <1>4, <1>5 DEF FilesInv
<1> QED  BY <1>2, <1>4, <1>6

LEMMA FilesStep ==
  ASSUME ContainersAssumption, FilesInv, [ContainersNext]_containerVars
  PROVE  FilesInv'
<1>1. ASSUME NEW xs \in WriteSets, ContainerUpdate(xs)
      PROVE  FilesInv'
  <2>1. xs \in SUBSET Objs
    BY DEF WriteSets
  <2> QED  BY <1>1, <2>1, UpdateFiles
<1>2. CASE UNCHANGED containerVars
  BY <1>2 DEF containerVars, storage, ghosts, FilesInv, WorkOK, Counted
<1>3. ASSUME CallStep PROVE FilesInv'
  BY <1>3, ClearRecordFiles, PutRecordFiles, SyncRecordsFiles, ClearManifestFiles, PutManifestFiles,
     SyncManifestFiles, ActivateFiles, RetireFiles, EndFiles DEF CallStep
<1> QED  BY <1>1, <1>2, <1>3, RemoveFiles, DeleteFiles, EndFiles, WriteBackFiles DEF ContainersNext

LEMMA FilesInit ==
  ASSUME ContainersAssumption, ContainersInit
  PROVE  FilesInv /\ Holds(files, confirmed)
<1>1. files = [n \in FileNames |-> NoFile] /\ flash = files /\ work = NoCall /\ confirmed = Nothing
      /\ calls = 0 /\ losses = 0 /\ ioErrors = 0
  BY DEF ContainersInit
<1>2. FilesOK(files) /\ \A n \in FileNames : files[n] = NoFile
  BY <1>1, EmptyFiles
<1>3. Holds(files, confirmed)
  BY <1>1, <1>2, NameFacts DEF Holds
<1> QED  BY <1>1, <1>2, <1>3, NoCallFacts DEF FilesInv, WorkOK, Counted

(* Containers written as a whole.  A manifest names the records of its own  *)
(* slot: the two slots are two banks that do not share a file.              *)

Full(s, g) == [x \in Objs |-> [slot |-> s, gen |-> g]]
Banked(f) == \A s \in ManifestSlots : f[Manifest(s)] # NoFile => f[Manifest(s)].objs = Full(s, f[Manifest(s)].gen)
Shaped(w) ==
  /\ w.goal = [x \in Objs |-> w.val]
  /\ \A x \in DOMAIN w.next.objs : x \in Pending(w) =>
       w.next.objs[x].slot = 1 - w.target /\ w.next.objs[x].gen = w.next.gen - 1
  /\ \A x \in DOMAIN w.next.objs : x \notin Pending(w) =>
       w.next.objs[x] = [slot |-> w.target, gen |-> w.next.gen]
  /\ Pending(w) \subseteq DOMAIN w.next.objs \/ w.next.gen = 1

ShapeInv ==
  /\ Banked(files) /\ Banked(flash)
  /\ work.pc \in Calls => Shaped(work)

LEMMA BankedSame ==
  ASSUME NEW f, Banked(f), NEW h, \A s \in ManifestSlots : h[Manifest(s)] \in {f[Manifest(s)], NoFile}
  PROVE  Banked(h)
BY DEF Banked

LEMMA UpdateShape ==
  ASSUME ContainersAssumption, FilesInv, ShapeInv, ContainerUpdate(Objs)
  PROVE  ShapeInv'
<1>1. /\ FilesInv'
      /\ work'.pc = "record" /\ work'.target = Target /\ work'.todo = Objs /\ work'.val = calls + 1
      /\ work'.next.gen = BaseManifest.gen + 1 /\ work'.next.objs = BaseManifest.objs
      /\ work'.goal = [x \in Objs \cup DOMAIN BaseManifest.objs |-> IF x \in Objs THEN calls + 1 ELSE Reading(files)[x]]
      /\ files' = files /\ flash' = flash
  <2>1. Objs \in SUBSET Objs
    OBVIOUS
  <2> QED  BY <2>1, UpdateFiles
<1>2. FilesOK(files) /\ (StoragePresent(files) => container_load(files) # {})
  BY DEF FilesInv, ContainerUpdate
<1>3. /\ Target \in ManifestSlots /\ BaseManifest.gen \in Nat /\ BaseManifest.objs \in Tables
      /\ container_load(files) # {} => /\ BaseManifest = files[Manifest(1 - Target)]
                                       /\ container_load(files) = {1 - Target}
  BY <1>2, BaseFacts
<1>4. DOMAIN BaseManifest.objs \subseteq Objs /\ 1 - Target \in ManifestSlots
  BY <1>3, TableFacts, NameFacts
<1>5. work'.goal = [x \in Objs |-> work'.val]
  <2>1. Objs \cup DOMAIN BaseManifest.objs = Objs
    BY <1>4
  <2>2. work'.goal = [x \in Objs |-> IF x \in Objs THEN calls + 1 ELSE Reading(files)[x]]
    BY <1>1, <2>1
  <2>3. [x \in Objs |-> IF x \in Objs THEN calls + 1 ELSE Reading(files)[x]] = [x \in Objs |-> calls + 1]
    OBVIOUS
  <2> QED  BY <1>1, <2>2, <2>3
<1>6. Pending(work') = Objs
  BY <1>1 DEF Pending
<1>7. Shaped(work')
  <2>1. CASE container_load(files) = {}
    <3>1. BaseManifest.gen = 0 /\ BaseManifest.objs = Nothing
      BY <2>1 DEF BaseManifest
    <3>2. work'.next.gen = 1 /\ DOMAIN work'.next.objs = {}
      BY <1>1, <3>1, GoalFacts
    <3> QED  BY <1>5, <3>2 DEF Shaped
  <2>2. CASE container_load(files) # {}
    <3>1. parse_slot(files, 1 - Target)
      BY <1>2, <1>3, <1>4, <2>2, LoadFacts
    <3>2. files[Manifest(1 - Target)] # NoFile
      BY <3>1 DEF parse_slot
    <3>3. BaseManifest.objs = Full(1 - Target, BaseManifest.gen)
      BY <1>3, <1>4, <2>2, <3>2 DEF ShapeInv, Banked
    <3>4. DOMAIN BaseManifest.objs = Objs
      BY <3>3 DEF Full
    <3>5. ASSUME NEW x \in Objs
          PROVE  BaseManifest.objs[x].slot = 1 - Target /\ BaseManifest.objs[x].gen = BaseManifest.gen
      BY <3>3 DEF Full
    <3>6. BaseManifest.gen + 1 - 1 = BaseManifest.gen
      BY <1>3
    <3>7. ASSUME NEW y \in DOMAIN work'.next.objs
          PROVE  /\ y \in Pending(work')
                 /\ work'.next.objs[y].slot = 1 - work'.target
                 /\ work'.next.objs[y].gen = work'.next.gen - 1
      <4>1. y \in Objs /\ y \in Pending(work') /\ work'.next.objs[y] = BaseManifest.objs[y]
        BY <1>1, <1>6, <3>4
      <4>2. BaseManifest.objs[y].slot = 1 - Target /\ BaseManifest.objs[y].gen = BaseManifest.gen
        BY <3>5, <4>1
      <4>3. work'.target = Target /\ work'.next.gen - 1 = BaseManifest.gen
        <5>1. work'.target = Target /\ work'.next.gen = BaseManifest.gen + 1
          BY <1>1
        <5> QED  BY <1>3, <5>1
      <4> QED  BY <4>1, <4>2, <4>3
    <3>8. Pending(work') \subseteq DOMAIN work'.next.objs
      BY <1>1, <1>6, <3>4
    <3> QED  BY <1>5, <3>7, <3>8 DEF Shaped
  <2> QED  BY <2>1, <2>2
<1> QED  BY <1>1, <1>7 DEF ShapeInv

LEMMA PutShape ==
  ASSUME ContainersAssumption, FilesInv, ShapeInv, PutRecord
  PROVE  ShapeInv'
<1> DEFINE x == work.file[2]
           g == 1 + IF x \in DOMAIN work.next.objs THEN work.next.objs[x].gen ELSE 0
<1>1. /\ FilesInv' /\ flash' = flash /\ x \in Objs \ work.todo /\ x \in Pending(work) /\ Pending(work') = work.todo
      /\ work'.pc \in {"record", "sync"} /\ Pending(work) = work.todo \cup {x}
      /\ work'.target = work.target /\ work'.goal = work.goal /\ work'.val = work.val
      /\ work'.next.gen = work.next.gen
      /\ work'.next.objs = [y \in DOMAIN work.next.objs \cup {x} |->
                              IF y = x THEN [slot |-> work.target, gen |-> g] ELSE work.next.objs[y]]
      /\ \A n \in FileNames : (\A y \in Objs : n # Record(work.target, y)) => files'[n] = files[n]
  BY PutRecordFiles
<1>2. work.pc = "put" /\ Shaped(work) /\ work.target \in ManifestSlots /\ work.next \in Manifests /\ work.next.gen \in Nat \ {0}
  <2>1. work.pc = "put" /\ work.pc \in Calls
    BY DEF PutRecord, Calls, Early
  <2>2. Shaped(work) /\ work.target \in ManifestSlots /\ work.next \in Manifests
    BY <2>1, WorkFields DEF FilesInv, WorkOK, CallOK, ShapeInv
  <2> QED  BY <2>1, <2>2, BlobFacts
<1>3. g = work.next.gen
  <2>1. CASE x \in DOMAIN work.next.objs
    BY <1>1, <1>2, <2>1 DEF Shaped
  <2>2. CASE x \notin DOMAIN work.next.objs
    BY <1>1, <1>2, <2>2 DEF Shaped
  <2> QED  BY <2>1, <2>2
<1> HIDE DEF g
<1>4. /\ DOMAIN work'.next.objs = DOMAIN work.next.objs \cup {x}
      /\ work'.next.objs[x] = [slot |-> work.target, gen |-> work.next.gen]
      /\ \A y \in DOMAIN work.next.objs : y # x => work'.next.objs[y] = work.next.objs[y]
  BY <1>1, <1>3
<1>6. ASSUME NEW y \in DOMAIN work'.next.objs, y \notin work.todo
      PROVE  work'.next.objs[y] = [slot |-> work.target, gen |-> work.next.gen]
  BY <1>1, <1>2, <1>4, <1>6 DEF Shaped
<1>7. ASSUME NEW y \in DOMAIN work'.next.objs, y \in work.todo
      PROVE  work'.next.objs[y].slot = 1 - work.target /\ work'.next.objs[y].gen = work.next.gen - 1
  BY <1>1, <1>2, <1>4, <1>7 DEF Shaped
<1>8. work.todo \subseteq DOMAIN work'.next.objs \/ work.next.gen = 1
  BY <1>1, <1>2, <1>4 DEF Shaped
<1>9. work'.goal = [y \in Objs |-> work'.val]
  BY <1>1, <1>2 DEF Shaped
<1>10. Shaped(work')
  <2>1. Pending(work') = work.todo /\ work'.target = work.target /\ work'.next.gen = work.next.gen
    BY <1>1
  <2> QED  BY <1>6, <1>7, <1>8, <1>9, <2>1 DEF Shaped
<1>11. \A s \in ManifestSlots : files'[Manifest(s)] = files[Manifest(s)]
  BY <1>1, <1>2, NameFacts
<1>12. Banked(files')
  BY <1>11, BankedSame DEF ShapeInv
<1> QED  BY <1>1, <1>10, <1>12 DEF ShapeInv

\* A call whose records are written is shaped as the manifest it will write.
LEMMA ShapedMoves ==
  ASSUME NEW w, Shaped(w), Pending(w) = {}, NEW v, v.target = w.target, v.next = w.next, v.goal = w.goal,
         v.val = w.val, Pending(v) = {}
  PROVE  Shaped(v)
BY DEF Shaped

LEMMA MovesShape ==
  ASSUME ContainersAssumption, FilesInv, ShapeInv, work.pc \in Written, NEW pc \in Written,
         Moves(work, work', files, files', pc),
         files'[Manifest(work.target)] \in {files[Manifest(work.target)], NoFile, work.next}, flash' = flash
  PROVE  ShapeInv'
<1>1. work.pc \in Calls /\ Shaped(work) /\ Pending(work) = {} /\ CallOK(work, files)
      /\ work.target \in ManifestSlots /\ 1 - work.target \in ManifestSlots /\ work.next \in Manifests
  BY WrittenFacts DEF ShapeInv, Written
<1>2. /\ work'.pc = pc /\ work'.target = work.target /\ work'.next = work.next /\ work'.goal = work.goal
      /\ work'.val = work.val /\ files'[Manifest(1 - work.target)] = files[Manifest(1 - work.target)]
  BY DEF Moves
<1>3. Pending(work') = {}
  BY <1>2 DEF Pending, Written
<1>4. Shaped(work')
  BY <1>1, <1>2, <1>3, ShapedMoves
<1>5. work.next.objs = Full(work.target, work.next.gen)
  <2>1. DOMAIN work.next.objs = Objs
    <3>1. DOMAIN work.goal = DOMAIN work.next.objs
      BY <1>1 DEF CallOK
    <3>2. DOMAIN work.goal = Objs
      BY <1>1 DEF Shaped
    <3> QED  BY <3>1, <3>2
  <2>2. \A x \in Objs : work.next.objs[x] = [slot |-> work.target, gen |-> work.next.gen]
    BY <1>1, <2>1 DEF Shaped
  <2>3. work.next.objs = [x \in Objs |-> work.next.objs[x]]
    BY <1>1, <2>1, BlobFacts, TableFacts
  <2> QED  BY <2>2, <2>3 DEF Full
<1>6. \A s \in ManifestSlots : s = work.target \/ s = 1 - work.target
  BY <1>1, NameFacts
<1>7. Banked(files')
  BY <1>1, <1>2, <1>5, <1>6 DEF Banked, ShapeInv
<1> QED  BY <1>4, <1>7 DEF ShapeInv

LEMMA ShapeStep ==
  ASSUME ContainersAssumption, FilesInv, ShapeInv, Whole, [ContainersNext]_containerVars
  PROVE  ShapeInv'
<1>1. FilesOK(files) /\ Banked(files) /\ Banked(flash) /\ WorkOK
  BY DEF ShapeInv, FilesInv
<1>2. ASSUME NEW xs \in WriteSets, ContainerUpdate(xs) PROVE ShapeInv'
  <2>1. xs = Objs
    BY DEF WriteSets, Whole
  <2> QED  BY <1>2, <2>1, UpdateShape
<1>3. ASSUME NEW x \in Objs, ContainerRemove(x) PROVE ShapeInv'
  BY <1>3 DEF ContainerRemove
<1>4. CASE ContainerDelete
  <2>1. files' = [n \in FileNames |-> NoFile] /\ flash' = flash /\ work'.pc = "deleted"
    BY <1>4, DeleteFiles
  <2>2. \A s \in ManifestSlots : files'[Manifest(s)] = NoFile
    BY <2>1, NameFacts
  <2>3. work'.pc \notin Calls
    BY <2>1 DEF Calls, Early, Late
  <2> QED  BY <1>1, <2>1, <2>2, <2>3, BankedSame DEF ShapeInv
<1>5. CASE ClearRecord
  <2>1. /\ flash' = flash /\ Pending(work') = Pending(work)
        /\ work'.target = work.target /\ work'.next = work.next /\ work'.goal = work.goal /\ work'.val = work.val
        /\ \A n \in FileNames : (\A y \in Objs : n # Record(work.target, y)) => files'[n] = files[n]
    BY <1>5, ClearRecordFiles
  <2>2. work.pc \in Calls /\ work.target \in ManifestSlots
    BY <1>1, <1>5, WorkFields DEF ClearRecord, Calls, Early, WorkOK
  <2>3. \A s \in ManifestSlots : files'[Manifest(s)] = files[Manifest(s)]
    BY <2>1, <2>2, NameFacts
  <2>4. Shaped(work')
    BY <2>1, <2>2 DEF Shaped, ShapeInv
  <2> QED  BY <1>1, <2>1, <2>3, <2>4, BankedSame DEF ShapeInv
<1>6. CASE PutRecord
  BY <1>6, PutShape
<1>7. CASE SyncRecordFiles
  <2>1. work.pc \in Written /\ "clear" \in Written /\ files' = files /\ flash' = flash
    BY <1>7 DEF SyncRecordFiles, Written, Calls, Early, Late, storage
  <2>2. Moves(work, work', files, files', "clear")
    BY <1>7, SyncRecordsFiles
  <2> QED  BY <2>1, <2>2, MovesShape
<1>8. CASE ClearManifest
  <2>1. work.pc \in Written /\ "manifest" \in Written /\ flash' = flash
    BY <1>8 DEF ClearManifest, Written, Calls, Early, Late
  <2>2. Moves(work, work', files, files', "manifest") /\ files'[Manifest(work.target)] = NoFile
    BY <1>8, ClearManifestFiles
  <2> QED  BY <2>1, <2>2, MovesShape
<1>9. CASE PutManifest
  <2>1. work.pc \in Written /\ "sync2" \in Written /\ flash' = flash
    BY <1>9 DEF PutManifest, Written, Calls, Early, Late
  <2>2. Moves(work, work', files, files', "sync2") /\ files'[Manifest(work.target)] = work.next
    BY <1>9, PutManifestFiles
  <2> QED  BY <2>1, <2>2, MovesShape
<1>10. CASE SyncManifest \/ Activate \/ SyncMarker
  <2>1. work.pc \in Written /\ flash' = flash
    BY <1>10 DEF SyncManifest, Activate, SyncMarker, Written, Calls, Early, Late, storage
  <2>2. FilesInv' /\ \E pc \in Late : Moves(work, work', files, files', pc)
    BY <1>10, SyncManifestFiles, ActivateFiles
  <2>3. PICK pc \in Late : Moves(work, work', files, files', pc)
    BY <2>2
  <2>4. pc \in Written /\ pc \in Calls
    BY DEF Late, Written, Calls
  <2>5. work'.pc \in Calls /\ work'.pc \in Late /\ work'.target = work.target /\ work'.next = work.next
    BY <2>3, <2>4 DEF Moves
  <2>6. files'[Manifest(work.target)] = work.next
    BY <2>2, <2>5 DEF FilesInv, WorkOK, CallOK
  <2> QED  BY <2>1, <2>3, <2>4, <2>6, MovesShape
<1>11. CASE Retire
  <2>1. FilesInv' /\ files'[Manifest(work.target)] = work.next /\ files'[Manifest(1 - work.target)] = NoFile
    BY <1>11, RetireFiles
  <2>2. work.pc \in Written /\ work.pc \in Late /\ work' = NoCall /\ flash' = flash
    BY <1>11 DEF Retire, Written, Calls, Late
  <2>3. files[Manifest(work.target)] = work.next /\ work.target \in ManifestSlots
    BY <2>2, WrittenFacts DEF CallOK
  <2>4. \A s \in ManifestSlots : files'[Manifest(s)] \in {files[Manifest(s)], NoFile}
    BY <2>1, <2>3, NameFacts
  <2> QED  BY <1>1, <2>2, <2>4, BankedSame, NoCallFacts DEF ShapeInv
<1>12. CASE SyncDeleted \/ CallFails
  <2>1. work' = NoCall /\ flash' = flash
    BY <1>12 DEF SyncDeleted, CallFails, storage
  <2>2. \A n \in FileNames : files'[n] \in {files[n], NoFile}
    BY <1>12 DEF SyncDeleted, CallFails, storage
  <2>3. \A s \in ManifestSlots : files'[Manifest(s)] \in {files[Manifest(s)], NoFile}
    BY <2>2, NameFacts
  <2> QED  BY <1>1, <2>1, <2>3, BankedSame, NoCallFacts DEF ShapeInv
<1>13. CASE LosePower
  <2>1. work' = NoCall /\ files' = flash /\ flash' = flash
    BY <1>13 DEF LosePower
  <2> QED  BY <1>1, <2>1, NoCallFacts DEF ShapeInv
<1>14. ASSUME NEW n \in FileNames, WriteBack(n) PROVE ShapeInv'
  <2>1. /\ UNCHANGED <<files, work>> /\ flash'[n] = files[n]
        /\ \A m \in FileNames : m # n => flash'[m] = flash[m]
    BY <1>14, WriteBackFiles
  <2>2. \A s \in ManifestSlots : flash'[Manifest(s)] \in {flash[Manifest(s)], files[Manifest(s)]}
    BY <2>1, NameFacts
  <2>3. Banked(flash')
    BY <1>1, <2>2 DEF Banked
  <2> QED  BY <1>1, <2>1, <2>3 DEF ShapeInv
<1>15. CASE UNCHANGED containerVars
  BY <1>15 DEF containerVars, storage, ghosts, ShapeInv
<1>16. CASE CallStep
  BY <1>5, <1>6, <1>7, <1>8, <1>9, <1>10, <1>11, <1>12, <1>16 DEF CallStep
<1> QED  BY <1>2, <1>3, <1>4, <1>13, <1>14, <1>15, <1>16 DEF ContainersNext

(* What a boot finds.  A base bank is the same in the cache and in flash,   *)
(* loads with contents that are an answer, and outranks the other one.      *)

Content(f, s) == [x \in Objs |-> f[Record(s, x)].val]
Loaded(f, s) == f[Manifest(s)] # NoFile /\ \A x \in Objs : f[Record(s, x)].gen = f[Manifest(s)].gen
SameBank(f, d, s) ==
  /\ f[Manifest(s)] = d[Manifest(s)]
  /\ f[Manifest(s)] # NoFile => \A x \in Objs : f[Record(s, x)] = d[Record(s, x)]
Good(f, s, answers) == \/ f[Manifest(s)] = NoFile /\ Nothing \in answers
                       \/ Loaded(f, s) /\ Content(f, s) \in answers
Low(f, s, g) == f[Manifest(s)] = NoFile \/ f[Manifest(s)].gen < g
Settled(f, d, s, answers) ==
  /\ SameBank(f, d, s) /\ Good(d, s, answers)
  /\ Low(f, 1 - s, d[Manifest(s)].gen) /\ Low(d, 1 - s, d[Manifest(s)].gen)

Answers == {confirmed} \cup tried
Synced(w, f, d) == \A x \in Objs : f[Record(w.target, x)] = d[Record(w.target, x)]

\* Up to the sync of the manifest the base is the other bank; from its arrival in flash it is the new one.
EarlyOK(w, f, d, answers) ==
  /\ w.pc \in Early => Settled(f, d, 1 - w.target, answers)
  /\ w.pc = "sync2" => /\ SameBank(f, d, 1 - w.target) /\ Good(d, 1 - w.target, answers)
                       /\ d[Manifest(w.target)] = w.next \/ Low(d, w.target, d[Manifest(1 - w.target)].gen)
LateOK(w, f, d) ==
  w.pc \in Late => d[Manifest(w.target)] = w.next /\ f[Manifest(1 - w.target)] = d[Manifest(1 - w.target)]
DeletedOK(d, answers) == Nothing \in answers /\ \A s \in ManifestSlots : Loaded(d, s) => Content(d, s) \in answers

BootInv ==
  /\ ShapeInv /\ deletion \in {"whole", "cut", "overwritten"}
  /\ work.pc \in Calls => work.goal \in tried
  /\ work.pc \in {"clear", "manifest", "sync2"} \cup Late => Synced(work, files, flash)
  /\ LateOK(work, files, flash)
  /\ work.pc = "deleted" => DeletedOK(flash, Answers)
  /\ deletion = "cut" => \/ work.pc = "deleted"
                         \/ work.pc = "idle" /\ files = flash /\ Reading(flash) \in Answers
  /\ deletion = "whole" => /\ EarlyOK(work, files, flash, Answers)
                           /\ work.pc = "idle" => \E b \in ManifestSlots : Settled(files, flash, b, Answers)

LEMMA BankReads ==
  ASSUME ContainersAssumption, NEW f, FilesOK(f), Banked(f)
  PROVE  /\ \A s \in ManifestSlots : parse_slot(f, s) <=> Loaded(f, s)
         /\ \A s \in ManifestSlots : container_load(f) = {s} => Reading(f) = Content(f, s)
         /\ \A s \in ManifestSlots : f[Manifest(s)].gen \in Nat /\ (f[Manifest(s)].gen = 0 <=> f[Manifest(s)] = NoFile)
<1>1. ASSUME NEW s \in ManifestSlots, f[Manifest(s)] # NoFile
      PROVE  /\ DOMAIN f[Manifest(s)].objs = Objs
             /\ \A x \in Objs : f[Manifest(s)].objs[x].slot = s /\ f[Manifest(s)].objs[x].gen = f[Manifest(s)].gen
  <2>1. f[Manifest(s)].objs = Full(s, f[Manifest(s)].gen)
    BY <1>1 DEF Banked
  <2>2. \A g : DOMAIN Full(s, g) = Objs /\ \A x \in Objs : Full(s, g)[x].slot = s /\ Full(s, g)[x].gen = g
    BY DEF Full
  <2> QED  BY <2>1, <2>2
<1>2. ASSUME NEW s \in ManifestSlots
      PROVE  parse_slot(f, s) <=> Loaded(f, s)
  BY <1>1 DEF parse_slot, Loaded
<1>3. ASSUME NEW s \in ManifestSlots, container_load(f) = {s}
      PROVE  Reading(f) = Content(f, s)
  <2>1. parse_slot(f, s)
    BY <1>3, LoadFacts
  <2>2. f[Manifest(s)] # NoFile
    BY <2>1 DEF parse_slot
  <2>3. Reading(f) = [x \in DOMAIN f[Manifest(s)].objs |-> f[Record(f[Manifest(s)].objs[x].slot, x)].val]
    BY <1>3, LoadFacts
  <2> QED  BY <1>1, <2>2, <2>3 DEF Content
<1>4. ASSUME NEW s \in ManifestSlots
      PROVE  f[Manifest(s)].gen \in Nat /\ (f[Manifest(s)].gen = 0 <=> f[Manifest(s)] = NoFile)
  BY BlobFacts DEF FilesOK
<1> QED  BY <1>2, <1>3, <1>4

LEMMA GoodReads ==
  ASSUME ContainersAssumption, NEW f, FilesOK(f), Banked(f), NEW s \in ManifestSlots, NEW answers,
         Good(f, s, answers), Low(f, 1 - s, f[Manifest(s)].gen)
  PROVE  Reading(f) \in answers
<1>1. 1 - s \in ManifestSlots /\ 1 - (1 - s) = s /\ \A t \in ManifestSlots : t = s \/ t = 1 - s
  BY NameFacts
<1>2. CASE f[Manifest(s)] = NoFile /\ Nothing \in answers
  <2>1. f[Manifest(1 - s)] = NoFile
    BY <1>1, <1>2, BankReads, BlobFacts DEF Low
  <2>2. \A t \in ManifestSlots : ~parse_slot(f, t)
    BY <1>1, <1>2, <2>1 DEF parse_slot
  <2>3. container_load(f) = {}
    BY <2>2 DEF container_load
  <2> QED  BY <1>2, <2>3, LoadFacts
<1>3. CASE Loaded(f, s) /\ Content(f, s) \in answers
  <2>1. parse_slot(f, s)
    BY <1>3, BankReads
  <2>2. parse_slot(f, 1 - s) => f[Manifest(s)].gen > f[Manifest(1 - s)].gen
    BY <1>1, BankReads DEF Low, parse_slot
  <2>3. container_load(f) = {s}
    BY <2>1, <2>2, LoadFacts
  <2> QED  BY <1>3, <2>3, BankReads
<1> QED  BY <1>2, <1>3 DEF Good

LEMMA SettledReads ==
  ASSUME ContainersAssumption, NEW f, FilesOK(f), Banked(f), NEW d, FilesOK(d), Banked(d),
         NEW s \in ManifestSlots, NEW answers, Settled(f, d, s, answers)
  PROVE  Reading(f) \in answers /\ Reading(d) \in answers
<1>1. Reading(d) \in answers
  BY GoodReads DEF Settled
<1>2. Good(f, s, answers)
  <2>1. CASE d[Manifest(s)] = NoFile /\ Nothing \in answers
    BY <2>1 DEF Settled, SameBank, Good
  <2>2. CASE Loaded(d, s) /\ Content(d, s) \in answers
    <3>1. f[Manifest(s)] = d[Manifest(s)] /\ \A x \in Objs : f[Record(s, x)] = d[Record(s, x)]
      BY <2>2 DEF Settled, SameBank, Loaded
    <3>2. Content(f, s) = Content(d, s)
      BY <3>1 DEF Content
    <3>3. Loaded(f, s)
      BY <2>2, <3>1 DEF Loaded
    <3> QED  BY <2>2, <3>2, <3>3 DEF Good
  <2> QED  BY <2>1, <2>2 DEF Settled, Good
<1>3. Low(f, 1 - s, f[Manifest(s)].gen)
  BY DEF Settled, SameBank
<1>4. Reading(f) \in answers
  BY <1>2, <1>3, GoodReads
<1> QED  BY <1>1, <1>4

\* A base bank that nobody touches stays good.
LEMMA BankStays ==
  ASSUME NEW f, NEW d, NEW s, NEW answers, SameBank(f, d, s), Good(d, s, answers),
         NEW f2, NEW d2, NEW more, answers \subseteq more,
         f2[Manifest(s)] = f[Manifest(s)], d2[Manifest(s)] = d[Manifest(s)],
         d[Manifest(s)] # NoFile => \A x \in Objs : /\ f2[Record(s, x)] = f[Record(s, x)]
                                                    /\ d2[Record(s, x)] = d[Record(s, x)]
  PROVE  SameBank(f2, d2, s) /\ Good(d2, s, more)
<1>1. SameBank(f2, d2, s)
  BY DEF SameBank
<1>2. CASE d[Manifest(s)] = NoFile /\ Nothing \in answers
  BY <1>1, <1>2 DEF Good
<1>3. CASE Loaded(d, s) /\ Content(d, s) \in answers
  <2>1. d[Manifest(s)] # NoFile /\ \A x \in Objs : d2[Record(s, x)] = d[Record(s, x)]
    BY <1>3 DEF Loaded
  <2>2. Content(d2, s) = Content(d, s) /\ Loaded(d2, s)
    BY <1>3, <2>1 DEF Content, Loaded
  <2> QED  BY <1>1, <1>3, <2>2 DEF Good
<1> QED  BY <1>2, <1>3 DEF Good

\* A bank that is complete in flash, with contents that are an answer, is a base.
LEMMA NewBase ==
  ASSUME ContainersAssumption, FilesInv, ShapeInv, work.pc \in {"sync2"} \cup Late, Synced(work, files, flash),
         flash[Manifest(work.target)] = work.next, NEW answers, work.goal \in answers,
         files[Manifest(1 - work.target)] = flash[Manifest(1 - work.target)]
  PROVE  /\ Loaded(flash, work.target) /\ Content(flash, work.target) = work.goal
         /\ Good(flash, work.target, answers) /\ Low(flash, 1 - work.target, flash[Manifest(work.target)].gen)
<1>1. work.pc \in Written /\ work.pc \in Calls
  BY DEF Written, Calls, Late
<1>2. /\ CallOK(work, files) /\ Shaped(work) /\ Pending(work) = {} /\ work.next \in Manifests /\ work.next # NoFile
  BY <1>1, WrittenFacts DEF ShapeInv
<1>3. DOMAIN work.next.objs = Objs
  <2>1. DOMAIN work.goal = DOMAIN work.next.objs
    BY <1>2 DEF CallOK
  <2>2. DOMAIN work.goal = Objs
    BY <1>2 DEF Shaped
  <2> QED  BY <2>1, <2>2
<1>4. ASSUME NEW x \in Objs
      PROVE  flash[Record(work.target, x)].gen = work.next.gen /\ flash[Record(work.target, x)].val = work.goal[x]
  <2>1. work.next.objs[x] = [slot |-> work.target, gen |-> work.next.gen]
    BY <1>2, <1>3 DEF Shaped
  <2>2. InPlace(files, work.next, work.goal, x)
    BY <1>2, <1>3 DEF CallOK
  <2>3. files[Record(work.target, x)] = [gen |-> work.next.gen, val |-> work.goal[x]]
    BY <2>1, <2>2 DEF InPlace
  <2> QED  BY <2>3 DEF Synced
<1>5. Loaded(flash, work.target)
  BY <1>2, <1>4 DEF Loaded
<1>6. Content(flash, work.target) = work.goal
  <2>1. work.goal = [x \in Objs |-> work.goal[x]]
    BY <1>2 DEF Shaped
  <2> QED  BY <1>4, <2>1 DEF Content
<1>7. Low(flash, 1 - work.target, flash[Manifest(work.target)].gen)
  BY <1>2 DEF CallOK, Low
<1> QED  BY <1>5, <1>6, <1>7 DEF Good

LEMMA DeletedReads ==
  ASSUME ContainersAssumption, NEW d, FilesOK(d), Banked(d), NEW answers, DeletedOK(d, answers)
  PROVE  Reading(d) \in answers
<1>1. CASE container_load(d) = {}
  BY <1>1, LoadFacts DEF DeletedOK
<1>2. ASSUME NEW s \in ManifestSlots, container_load(d) = {s} PROVE Reading(d) \in answers
  <2>1. Loaded(d, s) /\ Reading(d) = Content(d, s)
    BY <1>2, LoadFacts, BankReads
  <2> QED  BY <2>1 DEF DeletedOK
<1> QED  BY <1>1, <1>2, LoadFacts

\* What flash holds during an update, and at its end: some base, in flash alone.
LEMMA CallBase ==
  ASSUME ContainersAssumption, FilesInv, BootInv, deletion = "whole", work.pc \in Calls
  PROVE  \E b \in ManifestSlots : Settled(flash, flash, b, Answers)
<1>1. /\ FilesOK(files) /\ FilesOK(flash) /\ ShapeInv /\ work.target \in ManifestSlots /\ 1 - work.target \in ManifestSlots
      /\ 1 - (1 - work.target) = work.target /\ work.goal \in Answers /\ EarlyOK(work, files, flash, Answers)
  BY WorkFields, NameFacts DEF FilesInv, BootInv, WorkOK, Answers
<1>2. ASSUME NEW b \in ManifestSlots, Good(flash, b, Answers), Low(flash, 1 - b, flash[Manifest(b)].gen)
      PROVE  \E s \in ManifestSlots : Settled(flash, flash, s, Answers)
  <2>1. SameBank(flash, flash, b)
    BY DEF SameBank
  <2> QED  BY <1>2, <2>1 DEF Settled
<1>3. CASE work.pc \in Early
  BY <1>1, <1>2, <1>3 DEF EarlyOK, Settled
<1>4. CASE work.pc = "sync2" /\ flash[Manifest(work.target)] # work.next
  BY <1>1, <1>2, <1>4 DEF EarlyOK
<1>5. CASE work.pc \in Late \/ (work.pc = "sync2" /\ flash[Manifest(work.target)] = work.next)
  <2>1. /\ work.pc \in {"sync2"} \cup Late /\ Synced(work, files, flash)
        /\ flash[Manifest(work.target)] = work.next
    BY <1>5 DEF BootInv, LateOK
  <2>2. files[Manifest(1 - work.target)] = flash[Manifest(1 - work.target)]
    BY <1>1, <1>5 DEF BootInv, LateOK, EarlyOK, SameBank
  <2> QED  BY <1>1, <1>2, <2>1, <2>2, NewBase
<1> QED  BY <1>3, <1>4, <1>5 DEF Calls

LEMMA BootHolds ==
  ASSUME ContainersAssumption, FilesInv, BootInv
  PROVE  BootFindsAckedOrTried
<1>1. /\ FilesOK(files) /\ FilesOK(flash) /\ Banked(files) /\ Banked(flash) /\ work.pc \in Calls \cup {"idle", "deleted"}
      /\ deletion \in {"whole", "cut", "overwritten"}
  BY WorkFields DEF FilesInv, BootInv, ShapeInv, WorkOK, Places
<1>2. CASE work.pc = "deleted"
  <2>1. Reading(flash) \in Answers
    BY <1>1, <1>2, DeletedReads DEF BootInv
  <2> QED  BY <1>2, <2>1 DEF BootFindsAckedOrTried, Answers
<1>3. CASE work.pc = "idle" /\ deletion = "whole"
  <2>1. PICK b \in ManifestSlots : Settled(files, flash, b, Answers)
    BY <1>3 DEF BootInv
  <2>2. Reading(files) \in Answers /\ Reading(flash) \in Answers
    BY <1>1, <2>1, SettledReads
  <2> QED  BY <2>2 DEF BootFindsAckedOrTried, Answers
<1>4. CASE work.pc = "idle" /\ deletion = "cut"
  BY <1>4 DEF BootInv, BootFindsAckedOrTried, Answers
<1>5. CASE work.pc \in Calls /\ deletion = "whole"
  <2>1. PICK b \in ManifestSlots : Settled(flash, flash, b, Answers)
    BY <1>5, CallBase
  <2>2. Reading(flash) \in Answers
    BY <1>1, <2>1, SettledReads
  <2>3. work.pc # "idle"
    BY <1>5 DEF Calls, Early, Late
  <2> QED  BY <2>2, <2>3 DEF BootFindsAckedOrTried, Answers
<1>6. CASE work.pc \in Calls /\ deletion = "cut"
  BY <1>6 DEF BootInv, Calls, Early, Late
<1>7. CASE deletion = "overwritten"
  BY <1>7 DEF BootFindsAckedOrTried
<1> QED  BY <1>1, <1>2, <1>3, <1>4, <1>5, <1>6, <1>7

\* An update finds the base: the bank it loads, or nothing anywhere.
LEMMA BaseFound ==
  ASSUME ContainersAssumption, NEW f, FilesOK(f), Banked(f), NEW d, FilesOK(d), Banked(d),
         NEW b \in ManifestSlots, NEW answers, Settled(f, d, b, answers)
  PROVE  \/ container_load(f) = {b}
         \/ /\ Nothing \in answers /\ container_load(f) = {}
            /\ \A s \in ManifestSlots : f[Manifest(s)] = NoFile /\ d[Manifest(s)] = NoFile
<1>1. 1 - b \in ManifestSlots /\ 1 - (1 - b) = b /\ \A t \in ManifestSlots : t = b \/ t = 1 - b
  BY NameFacts
<1>2. CASE d[Manifest(b)] = NoFile
  <2>1. f[Manifest(b)] = NoFile /\ Nothing \in answers
    BY <1>2 DEF Settled, SameBank, Good, Loaded
  <2>2. f[Manifest(1 - b)] = NoFile /\ d[Manifest(1 - b)] = NoFile
    BY <1>1, <1>2, BankReads, BlobFacts DEF Settled, Low
  <2>3. \A t \in ManifestSlots : ~parse_slot(f, t)
    BY <1>1, <2>1, <2>2 DEF parse_slot
  <2>4. container_load(f) = {}
    BY <2>3 DEF container_load
  <2> QED  BY <1>1, <1>2, <2>1, <2>2, <2>4
<1>3. CASE d[Manifest(b)] # NoFile
  <2>1. f[Manifest(b)] = d[Manifest(b)] /\ \A x \in Objs : f[Record(b, x)] = d[Record(b, x)]
    BY <1>3 DEF Settled, SameBank
  <2>2. Loaded(f, b)
    BY <1>3, <2>1 DEF Settled, Good, Loaded
  <2>3. parse_slot(f, b)
    BY <2>2, BankReads
  <2>4. parse_slot(f, 1 - b) => f[Manifest(b)].gen > f[Manifest(1 - b)].gen
    BY <1>1, <2>1, BankReads DEF Settled, Low, parse_slot
  <2> QED  BY <2>3, <2>4, LoadFacts
<1> QED  BY <1>2, <1>3

LEMMA UpdateBoot ==
  ASSUME ContainersAssumption, FilesInv, BootInv, ContainerUpdate(Objs)
  PROVE  BootInv'
<1>1. /\ FilesInv' /\ work'.pc = "record" /\ work'.target = Target /\ files' = files /\ flash' = flash
      /\ work'.goal \in tried' /\ tried \subseteq tried' /\ confirmed' = confirmed
  <2>1. Objs \in SUBSET Objs
    OBVIOUS
  <2> QED  BY <2>1, UpdateFiles
<1>2. ShapeInv'
  BY UpdateShape DEF BootInv
<1>3. /\ FilesOK(files) /\ FilesOK(flash) /\ Banked(files) /\ Banked(flash) /\ work.pc = "idle"
      /\ StoragePresent(files) => container_load(files) # {}
  BY DEF BootInv, ShapeInv, FilesInv, ContainerUpdate, CallStarts
<1>4. deletion' \in {"whole", "overwritten"} /\ (deletion' = "whole" => deletion = "whole")
  BY DEF ContainerUpdate
<1>5. Answers \subseteq Answers'
  BY <1>1 DEF Answers
<1>6. /\ Target \in ManifestSlots /\ 1 - Target \in ManifestSlots
      /\ container_load(files) # {} => container_load(files) = {1 - Target}
  BY <1>3, BaseFacts, NameFacts
<1>7. ASSUME deletion = "whole"
      PROVE  Settled(files, flash, 1 - Target, Answers')
  <2>1. PICK b \in ManifestSlots : Settled(files, flash, b, Answers)
    BY <1>3, <1>7 DEF BootInv
  <2>2. CASE container_load(files) = {b}
    <3>1. b = 1 - Target
      BY <1>6, <2>2
    <3>2. SameBank(files, flash, b) /\ Good(flash, b, Answers')
      BY <1>5, <2>1, BankStays DEF Settled
    <3> QED  BY <2>1, <3>1, <3>2 DEF Settled
  <2>3. CASE /\ Nothing \in Answers
             /\ \A s \in ManifestSlots : files[Manifest(s)] = NoFile /\ flash[Manifest(s)] = NoFile
    <3>1. Nothing \in Answers' /\ 1 - (1 - Target) \in ManifestSlots
      BY <1>5, <1>6, <2>3, NameFacts
    <3> QED  BY <1>6, <2>3, <3>1 DEF Settled, SameBank, Good, Low
  <2> QED  BY <1>3, <2>1, <2>2, <2>3, BaseFound
<1>8. work'.pc \notin {"clear", "manifest", "sync2"} \cup Late /\ work'.pc # "deleted" /\ work'.pc # "idle"
  BY <1>1 DEF Late
<1>9. deletion' = "whole" => EarlyOK(work', files', flash', Answers')
  BY <1>1, <1>4, <1>7, <1>8 DEF EarlyOK
<1>10. LateOK(work', files', flash')
  BY <1>8 DEF LateOK
<1> QED  BY <1>1, <1>2, <1>4, <1>8, <1>9, <1>10 DEF BootInv

LEMMA DeleteBoot ==
  ASSUME ContainersAssumption, FilesInv, BootInv, ShapeInv', ContainerDelete
  PROVE  BootInv'
<1>1. /\ work'.pc = "deleted" /\ flash' = flash /\ confirmed' = confirmed
      /\ tried' = tried \cup {Nothing} \cup {Reading([flash EXCEPT ![Manifest(s)] = NoFile]) : s \in ManifestSlots}
      /\ deletion' = deletion
  BY DeleteFiles DEF ContainerDelete
<1>2. FilesOK(flash) /\ Banked(flash)
  BY DEF FilesInv, BootInv, ShapeInv
<1>3. ASSUME NEW s \in ManifestSlots, Loaded(flash, s)
      PROVE  Content(flash, s) \in tried'
  <2> DEFINE h == With(flash, Manifest(1 - s), NoFile)
  <2>1. 1 - s \in ManifestSlots /\ 1 - (1 - s) = s /\ NoFile \in Manifests \cup {NoFile}
    BY NameFacts
  <2>2. /\ FilesOK(h) /\ h[Manifest(1 - s)] = NoFile /\ h[Manifest(s)] = flash[Manifest(s)]
        /\ \A t \in ManifestSlots, x \in Objs : h[Record(t, x)] = flash[Record(t, x)]
    BY <1>2, <2>1, ManifestWrites
  <2>3. Reading(h) \in tried'
    BY <1>1, <2>1 DEF With
  <2> HIDE DEF h
  <2>4. \A t \in ManifestSlots : h[Manifest(t)] \in {flash[Manifest(t)], NoFile}
    BY <2>2, NameFacts
  <2>5. Banked(h)
    BY <1>2, <2>4, BankedSame
  <2>6. Loaded(h, s) /\ Content(h, s) = Content(flash, s)
    BY <1>3, <2>2 DEF Loaded, Content
  <2>7. parse_slot(h, s) /\ ~parse_slot(h, 1 - s)
    BY <2>1, <2>2, <2>5, <2>6, BankReads DEF Loaded
  <2>8. container_load(h) = {s}
    BY <2>2, <2>7, LoadFacts
  <2>9. Reading(h) = Content(h, s)
    BY <2>2, <2>5, <2>8, BankReads
  <2> QED  BY <2>3, <2>6, <2>9
<1>4. Nothing \in tried'
  BY <1>1
<1>5. DeletedOK(flash', Answers')
  BY <1>1, <1>3, <1>4 DEF DeletedOK, Answers
<1>6. work'.pc \notin Calls /\ work'.pc \notin {"clear", "manifest", "sync2"} \cup Late
      /\ work'.pc \notin Early /\ work'.pc # "idle"
  BY <1>1 DEF Calls, Early, Late
<1>7. LateOK(work', files', flash') /\ EarlyOK(work', files', flash', Answers')
  BY <1>6 DEF LateOK, EarlyOK
<1> QED  BY <1>1, <1>5, <1>6, <1>7 DEF BootInv

\* A step of a call leaves flash and the ghosts alone.
LEMMA StepBoot ==
  ASSUME ContainersAssumption, FilesInv, BootInv, ShapeInv', work.pc \in Calls, work'.pc \in Calls,
         work'.target = work.target, work'.goal = work.goal, UNCHANGED <<flash, confirmed, tried, deletion>>,
         work'.pc \in {"clear", "manifest", "sync2"} \cup Late => Synced(work', files', flash'),
         LateOK(work', files', flash'),
         EarlyOK(work, files, flash, Answers) => EarlyOK(work', files', flash', Answers)
  PROVE  BootInv'
<1>1. /\ work.pc # "idle" /\ work.pc # "deleted" /\ work'.pc # "idle" /\ work'.pc # "deleted"
  BY DEF Calls, Early, Late
<1>2. Answers' = Answers /\ deletion \in {"whole", "cut", "overwritten"} /\ deletion # "cut" /\ work.goal \in tried
  BY <1>1 DEF Answers, BootInv
<1> QED  BY <1>1, <1>2 DEF BootInv

\* The records of the target bank are not the base's.
LEMMA RecordBoot ==
  ASSUME ContainersAssumption, FilesInv, BootInv, ShapeInv', ClearRecord \/ PutRecord
  PROVE  BootInv'
<1>1. /\ flash' = flash /\ work'.pc \in {"put", "record", "sync"} /\ work'.target = work.target /\ work'.goal = work.goal
      /\ \A n \in FileNames : (\A y \in Objs : n # Record(work.target, y)) => files'[n] = files[n]
  BY ClearRecordFiles, PutRecordFiles
<1>2. work.pc \in Early /\ UNCHANGED <<confirmed, tried, deletion>>
  BY DEF ClearRecord, PutRecord, Early, ghosts
<1>3. work.pc \in Calls /\ work'.pc \in Calls /\ work'.pc \in Early
      /\ work'.pc \notin {"clear", "manifest", "sync2"} \cup Late
  BY <1>1, <1>2 DEF Calls, Early, Late
<1>4. work.target \in ManifestSlots /\ 1 - work.target \in ManifestSlots /\ 1 - work.target # work.target
      /\ 1 - (1 - work.target) = work.target
  BY WorkFields, NameFacts DEF FilesInv, WorkOK
<1>5. /\ \A s \in ManifestSlots : files'[Manifest(s)] = files[Manifest(s)]
      /\ \A x \in Objs : files'[Record(1 - work.target, x)] = files[Record(1 - work.target, x)]
  BY <1>1, <1>4, NameFacts
<1>6. ASSUME EarlyOK(work, files, flash, Answers)
      PROVE  EarlyOK(work', files', flash', Answers)
  <2>1. Settled(files, flash, 1 - work.target, Answers)
    BY <1>2, <1>6 DEF EarlyOK
  <2>2. SameBank(files', flash, 1 - work.target) /\ Good(flash, 1 - work.target, Answers)
    BY <1>4, <1>5, <2>1, BankStays DEF Settled
  <2>3. Settled(files', flash, 1 - work.target, Answers)
    BY <1>4, <1>5, <2>1, <2>2 DEF Settled, Low
  <2>4. work'.pc # "sync2"
    BY <1>3
  <2> QED  BY <1>1, <2>3, <2>4 DEF EarlyOK
<1>7. LateOK(work', files', flash')
  BY <1>3 DEF LateOK
<1> QED  BY <1>1, <1>2, <1>3, <1>6, <1>7, StepBoot

LEMMA MovesKeep ==
  ASSUME ContainersAssumption, FilesInv, work.pc \in Written, NEW pc \in Written, flash' = flash,
         Moves(work, work', files, files', pc), Synced(work, files, flash)
  PROVE  /\ work.pc \in Calls /\ work'.pc \in Calls /\ work'.pc = pc /\ work'.target = work.target
         /\ work'.next = work.next /\ work'.goal = work.goal /\ Synced(work', files', flash')
<1>1. work.target \in ManifestSlots
  BY WrittenFacts
<1> QED  BY <1>1 DEF Moves, Written, Synced

LEMMA SyncRecordsBoot ==
  ASSUME ContainersAssumption, FilesInv, BootInv, ShapeInv', SyncRecordFiles
  PROVE  BootInv'
<1>1. /\ work.pc = "sync" /\ work.pc \in Written /\ work.pc \in Early /\ "clear" \in Written /\ "clear" \in Early
      /\ "clear" \notin {"sync2"} \cup Late /\ files' = files /\ files = flash
      /\ UNCHANGED <<flash, confirmed, tried, deletion>>
  BY DEF SyncRecordFiles, Written, Calls, Early, Late, storage, ghosts, Drained
<1>2. Moves(work, work', files, files', "clear")
  BY SyncRecordsFiles
<1>3. Synced(work, files, flash)
  BY <1>1 DEF Synced
<1>4. /\ work.pc \in Calls /\ work'.pc \in Calls /\ work'.pc = "clear" /\ work'.target = work.target
      /\ work'.next = work.next /\ work'.goal = work.goal /\ Synced(work', files', flash')
  BY <1>1, <1>2, <1>3, MovesKeep
<1>5. LateOK(work', files', flash')
  BY <1>1, <1>4 DEF LateOK
<1>6. EarlyOK(work, files, flash, Answers) => EarlyOK(work', files', flash', Answers)
  BY <1>1, <1>4 DEF EarlyOK
<1> QED  BY <1>1, <1>4, <1>5, <1>6, StepBoot

LEMMA ClearManifestBoot ==
  ASSUME ContainersAssumption, FilesInv, BootInv, ShapeInv', ClearManifest
  PROVE  BootInv'
<1>1. /\ work.pc = "clear" /\ work.pc \in Written /\ work.pc \in Early /\ "manifest" \in Written
      /\ "manifest" \in Early /\ "manifest" \notin {"sync2"} \cup Late
      /\ UNCHANGED <<flash, confirmed, tried, deletion>>
  BY DEF ClearManifest, Written, Calls, Early, Late, ghosts
<1>2. Moves(work, work', files, files', "manifest") /\ files'[Manifest(work.target)] = NoFile
  BY ClearManifestFiles
<1>3. Synced(work, files, flash)
  BY <1>1 DEF BootInv
<1>4. /\ work.pc \in Calls /\ work'.pc \in Calls /\ work'.pc = "manifest" /\ work'.target = work.target
      /\ work'.next = work.next /\ work'.goal = work.goal /\ Synced(work', files', flash')
  BY <1>1, <1>2, <1>3, MovesKeep
<1>5. LateOK(work', files', flash')
  BY <1>1, <1>4 DEF LateOK
<1>6. work.target \in ManifestSlots /\ 1 - work.target \in ManifestSlots /\ 1 - (1 - work.target) = work.target
  BY <1>1, WrittenFacts, NameFacts
<1>7. ASSUME EarlyOK(work, files, flash, Answers)
      PROVE  EarlyOK(work', files', flash', Answers)
  <2>1. Settled(files, flash, 1 - work.target, Answers)
    BY <1>1, <1>7 DEF EarlyOK
  <2>2. /\ files'[Manifest(1 - work.target)] = files[Manifest(1 - work.target)]
        /\ \A x \in Objs : files'[Record(1 - work.target, x)] = files[Record(1 - work.target, x)]
    BY <1>2, <1>6 DEF Moves
  <2>3. SameBank(files', flash, 1 - work.target) /\ Good(flash, 1 - work.target, Answers)
    BY <2>1, <2>2, BankStays DEF Settled
  <2>4. Settled(files', flash, 1 - work.target, Answers)
    BY <1>2, <1>6, <2>1, <2>3 DEF Settled, Low
  <2>5. work'.pc # "sync2" /\ flash' = flash
    BY <1>1, <1>4
  <2> QED  BY <1>4, <2>4, <2>5 DEF EarlyOK
<1> QED  BY <1>1, <1>4, <1>5, <1>7, StepBoot

LEMMA PutManifestBoot ==
  ASSUME ContainersAssumption, FilesInv, BootInv, ShapeInv', PutManifest
  PROVE  BootInv'
<1>1. /\ work.pc = "manifest" /\ work.pc \in Written /\ work.pc \in Early /\ "sync2" \in Written
      /\ "sync2" \notin Early \cup Late
      /\ UNCHANGED <<flash, confirmed, tried, deletion>>
  BY DEF PutManifest, Written, Calls, Early, Late, ghosts
<1>2. Moves(work, work', files, files', "sync2")
  BY PutManifestFiles
<1>3. Synced(work, files, flash)
  BY <1>1 DEF BootInv
<1>4. /\ work.pc \in Calls /\ work'.pc \in Calls /\ work'.pc = "sync2" /\ work'.target = work.target
      /\ work'.next = work.next /\ work'.goal = work.goal /\ Synced(work', files', flash')
  BY <1>1, <1>2, <1>3, MovesKeep
<1>5. LateOK(work', files', flash')
  BY <1>1, <1>4 DEF LateOK
<1>6. work.target \in ManifestSlots /\ 1 - work.target \in ManifestSlots /\ 1 - (1 - work.target) = work.target
  BY <1>1, WrittenFacts, NameFacts
<1>7. ASSUME EarlyOK(work, files, flash, Answers)
      PROVE  EarlyOK(work', files', flash', Answers)
  <2>1. Settled(files, flash, 1 - work.target, Answers)
    BY <1>1, <1>7 DEF EarlyOK
  <2>2. /\ files'[Manifest(1 - work.target)] = files[Manifest(1 - work.target)]
        /\ \A x \in Objs : files'[Record(1 - work.target, x)] = files[Record(1 - work.target, x)]
    BY <1>2, <1>6 DEF Moves
  <2>3. SameBank(files', flash, 1 - work.target) /\ Good(flash, 1 - work.target, Answers)
    BY <2>1, <2>2, BankStays DEF Settled
  <2>4. Low(flash, work.target, flash[Manifest(1 - work.target)].gen)
    BY <1>6, <2>1 DEF Settled
  <2>5. work'.pc \notin Early /\ flash' = flash
    BY <1>1, <1>4
  <2> QED  BY <1>4, <2>3, <2>4, <2>5 DEF EarlyOK
<1> QED  BY <1>1, <1>4, <1>5, <1>7, StepBoot

LEMMA LateBoot ==
  ASSUME ContainersAssumption, FilesInv, BootInv, ShapeInv', SyncManifest \/ Activate \/ SyncMarker
  PROVE  BootInv'
<1>1. /\ work.pc \in Written /\ work.pc \in {"sync2"} \cup Late /\ UNCHANGED <<flash, confirmed, tried, deletion>>
      /\ work.pc = "sync2" => files = flash
  BY DEF SyncManifest, Activate, SyncMarker, Written, Calls, Early, Late, storage, ghosts, Drained
<1>2. PICK pc \in Late : Moves(work, work', files, files', pc)
  BY SyncManifestFiles, ActivateFiles
<1>3. Synced(work, files, flash)
  BY <1>1 DEF BootInv
<1>4. pc \in Written /\ pc \notin Early \cup {"sync2"}
  BY DEF Late, Written, Calls, Early
<1>5. /\ work.pc \in Calls /\ work'.pc \in Calls /\ work'.pc = pc /\ work'.target = work.target
      /\ work'.next = work.next /\ work'.goal = work.goal /\ Synced(work', files', flash')
  BY <1>1, <1>2, <1>3, <1>4, MovesKeep
<1>6. /\ flash[Manifest(work.target)] = work.next
      /\ files[Manifest(1 - work.target)] = flash[Manifest(1 - work.target)]
  <2>1. CASE work.pc = "sync2"
    BY <1>1, <2>1, WrittenFacts DEF CallOK
  <2>2. CASE work.pc \in Late
    BY <2>2 DEF BootInv, LateOK
  <2> QED  BY <1>1, <2>1, <2>2
<1>7. LateOK(work', files', flash')
  BY <1>1, <1>2, <1>5, <1>6 DEF LateOK, Moves
<1>8. EarlyOK(work', files', flash', Answers)
  BY <1>4, <1>5 DEF EarlyOK
<1> QED  BY <1>1, <1>5, <1>7, <1>8, StepBoot

\* The call is over: the base is what matters.
LEMMA EndBoot ==
  ASSUME BootInv, ShapeInv', work' = NoCall, deletion' \in {"whole", "cut", "overwritten"},
         deletion' = "whole" => \E b \in ManifestSlots : Settled(files', flash', b, Answers'),
         deletion' = "cut" => files' = flash' /\ Reading(flash') \in Answers'
  PROVE  BootInv'
<1>1. work'.pc = "idle" /\ work'.pc \notin Calls /\ work'.pc # "deleted"
      /\ work'.pc \notin {"clear", "manifest", "sync2"} \cup Late /\ work'.pc \notin Early
  BY NoCallFacts DEF Late, Early
<1>2. LateOK(work', files', flash') /\ EarlyOK(work', files', flash', Answers')
  BY <1>1 DEF LateOK, EarlyOK
<1> QED  BY <1>1, <1>2 DEF BootInv

LEMMA RetireBoot ==
  ASSUME ContainersAssumption, FilesInv, BootInv, ShapeInv', Retire
  PROVE  BootInv'
<1>1. /\ work.pc \in Late /\ work.pc \in Calls /\ work.pc \in Written /\ work' = NoCall /\ flash' = flash
      /\ confirmed' = work.goal /\ tried' = {} /\ deletion' = "whole"
  BY DEF Retire, Late, Calls, Written
<1>2. /\ files'[Manifest(work.target)] = work.next /\ files'[Manifest(1 - work.target)] = NoFile
      /\ \A x \in DOMAIN work.next.objs :
           files'[Record(work.next.objs[x].slot, x)] = files[Record(work.next.objs[x].slot, x)]
  BY RetireFiles
<1>3. /\ CallOK(work, files) /\ Shaped(work) /\ Pending(work) = {} /\ work.target \in ManifestSlots
  BY <1>1, WrittenFacts DEF BootInv, ShapeInv
<1>4. /\ Synced(work, files, flash) /\ flash[Manifest(work.target)] = work.next
      /\ files[Manifest(1 - work.target)] = flash[Manifest(1 - work.target)]
  BY <1>1 DEF BootInv, LateOK
<1>5. Answers' = {work.goal}
  BY <1>1 DEF Answers
<1>6. /\ Good(flash, work.target, {work.goal})
      /\ Low(flash, 1 - work.target, flash[Manifest(work.target)].gen)
  BY <1>1, <1>4, NewBase DEF BootInv
<1>7. ASSUME NEW x \in Objs
      PROVE  files'[Record(work.target, x)] = flash[Record(work.target, x)]
  <2>1. DOMAIN work.goal = DOMAIN work.next.objs /\ DOMAIN work.goal = Objs
    BY <1>3 DEF CallOK, Shaped
  <2>2. x \in DOMAIN work.next.objs /\ work.next.objs[x] = [slot |-> work.target, gen |-> work.next.gen]
    BY <1>3, <2>1 DEF Shaped
  <2>3. work.next.objs[x].slot = work.target
    BY <2>2
  <2> QED  BY <1>2, <1>4, <2>2, <2>3 DEF Synced
<1>8. Settled(files', flash, work.target, {work.goal})
  BY <1>2, <1>4, <1>6, <1>7 DEF Settled, SameBank, Low
<1> QED  BY <1>1, <1>3, <1>5, <1>8, EndBoot

LEMMA SyncDeletedBoot ==
  ASSUME ContainersAssumption, FilesInv, BootInv, ShapeInv', SyncDeleted
  PROVE  BootInv'
<1>1. /\ work' = NoCall /\ deletion' = "whole" /\ files' = files /\ flash' = files /\ confirmed' = Nothing
      /\ \A n \in FileNames : files[n] = NoFile
  BY DEF SyncDeleted, storage, Drained, FilesInv, WorkOK
<1>2. 0 \in ManifestSlots /\ 1 - 0 \in ManifestSlots
  BY DEF ManifestSlots
<1>3. Nothing \in Answers'
  BY <1>1 DEF Answers
<1>4. \A s \in ManifestSlots : files[Manifest(s)] = NoFile
  BY <1>1, NameFacts
<1>5. Settled(files', flash', 0, Answers')
  BY <1>1, <1>2, <1>3, <1>4 DEF Settled, SameBank, Good, Low
<1> QED  BY <1>1, <1>2, <1>5, EndBoot

LEMMA FailBoot ==
  ASSUME ContainersAssumption, LateTimeouts = FALSE, Whole, FilesInv, BootInv, ShapeInv', CallFails
  PROVE  BootInv'
<1>1. work.pc \in Early /\ work.pc \in Calls /\ work.pc # "idle" /\ work.pc # "deleted"
  BY DEF CallFails, Early, Calls
<1>2. /\ work' = NoCall /\ UNCHANGED <<flash, confirmed, tried, deletion>>
      /\ \A n \in FileNames : files'[n] = files[n]
  BY DEF CallFails, ghosts, Rollback, Whole
<1>3. deletion # "cut" /\ deletion \in {"whole", "cut", "overwritten"} /\ Answers' = Answers
  BY <1>1, <1>2 DEF BootInv, Answers
<1>4. work.target \in ManifestSlots /\ 1 - work.target \in ManifestSlots /\ 1 - (1 - work.target) = work.target
  BY WorkFields, NameFacts DEF FilesInv, WorkOK
<1>5. ASSUME deletion = "whole"
      PROVE  Settled(files', flash', 1 - work.target, Answers')
  <2>1. Settled(files, flash, 1 - work.target, Answers)
    BY <1>1, <1>5 DEF BootInv, EarlyOK
  <2>2. /\ \A s \in ManifestSlots : files'[Manifest(s)] = files[Manifest(s)]
        /\ \A s \in ManifestSlots, x \in Objs : files'[Record(s, x)] = files[Record(s, x)]
    BY <1>2, NameFacts
  <2>3. SameBank(files', flash, 1 - work.target) /\ Good(flash, 1 - work.target, Answers)
    BY <1>4, <2>1, <2>2, BankStays DEF Settled
  <2> QED  BY <1>2, <1>3, <1>4, <2>1, <2>2, <2>3 DEF Settled, Low
<1> QED  BY <1>2, <1>3, <1>4, <1>5, EndBoot

LEMMA LossBoot ==
  ASSUME ContainersAssumption, FilesInv, BootInv, ShapeInv', LosePower
  PROVE  BootInv'
<1>1. /\ work' = NoCall /\ files' = flash /\ flash' = flash /\ UNCHANGED <<confirmed, tried>>
      /\ deletion' = IF deletion = "whole" /\ work.pc = "deleted" THEN "cut" ELSE deletion
  BY DEF LosePower
<1>2. /\ FilesOK(flash) /\ Banked(flash) /\ work.pc \in Calls \cup {"idle", "deleted"} /\ Answers' = Answers
      /\ deletion \in {"whole", "cut", "overwritten"}
  BY <1>1, WorkFields DEF FilesInv, BootInv, ShapeInv, WorkOK, Places, Answers
<1>3. CASE work.pc = "deleted"
  <2>1. Reading(flash) \in Answers
    BY <1>2, <1>3, DeletedReads DEF BootInv
  <2>2. deletion' # "whole" /\ deletion' \in {"whole", "cut", "overwritten"}
    BY <1>1, <1>2, <1>3
  <2> QED  BY <1>1, <1>2, <2>1, <2>2, EndBoot
<1>4. CASE work.pc # "deleted"
  <2>1. deletion' = deletion
    BY <1>1, <1>4
  <2>2. deletion = "cut" => Reading(flash) \in Answers
    BY <1>4 DEF BootInv
  <2>3. ASSUME deletion = "whole"
        PROVE  \E b \in ManifestSlots : Settled(flash, flash, b, Answers)
    <3>1. CASE work.pc = "idle"
      <4>1. PICK b \in ManifestSlots : Settled(files, flash, b, Answers)
        BY <2>3, <3>1 DEF BootInv
      <4>2. Settled(flash, flash, b, Answers)
        BY <4>1 DEF Settled, SameBank
      <4> QED  BY <4>2
    <3>2. CASE work.pc \in Calls
      BY <2>3, <3>2, CallBase
    <3> QED  BY <1>2, <1>4, <3>1, <3>2
  <2> QED  BY <1>1, <1>2, <2>1, <2>2, <2>3, EndBoot
<1> QED  BY <1>3, <1>4

\* The write-back moves flash towards the cache, one file at a time.
LEMMA SettledDrains ==
  ASSUME ContainersAssumption, NEW f, NEW d, NEW h, NEW s \in ManifestSlots, NEW answers,
         SameBank(f, d, s), Good(d, s, answers), \A n \in FileNames : h[n] \in {d[n], f[n]}
  PROVE  /\ SameBank(f, h, s) /\ Good(h, s, answers) /\ h[Manifest(s)] = d[Manifest(s)]
         /\ Settled(f, d, s, answers) => Settled(f, h, s, answers)
<1>1. Manifest(s) \in FileNames /\ 1 - s \in ManifestSlots /\ Manifest(1 - s) \in FileNames
      /\ \A x \in Objs : Record(s, x) \in FileNames
  BY NameFacts
<1>2. h[Manifest(s)] = d[Manifest(s)]
  BY <1>1 DEF SameBank
<1>3. d[Manifest(s)] # NoFile => \A x \in Objs : h[Record(s, x)] = d[Record(s, x)]
  BY <1>1 DEF SameBank
<1>4. SameBank(f, h, s) /\ Good(h, s, answers)
  BY <1>2, <1>3, BankStays
<1>5. h[Manifest(1 - s)] \in {d[Manifest(1 - s)], f[Manifest(1 - s)]}
  BY <1>1
<1>6. Settled(f, d, s, answers) => Settled(f, h, s, answers)
  BY <1>2, <1>4, <1>5 DEF Settled, Low
<1> QED  BY <1>2, <1>4, <1>6

LEMMA WriteBackBoot ==
  ASSUME ContainersAssumption, FilesInv, BootInv, ShapeInv', NEW n \in FileNames, WriteBack(n)
  PROVE  BootInv'
<1>1. /\ UNCHANGED <<files, work, confirmed, tried, deletion>>
      /\ flash'[n] = files[n] /\ \A m \in FileNames : m # n => flash'[m] = flash[m]
  BY WriteBackFiles
<1>2. \A m \in FileNames : flash'[m] \in {flash[m], files[m]}
  BY <1>1
<1>3. files # flash
  BY DEF WriteBack
<1>4. Answers' = Answers /\ FilesOK(files) /\ FilesOK(flash) /\ work.target \in ManifestSlots
      /\ 1 - work.target \in ManifestSlots /\ 1 - (1 - work.target) = work.target
  BY <1>1, WorkFields, NameFacts DEF Answers, FilesInv, WorkOK
<1>5. Synced(work, files, flash) => Synced(work', files', flash')
  BY <1>1, <1>2, <1>4, NameFacts DEF Synced
<1>6. LateOK(work', files', flash')
  <2>1. SUFFICES ASSUME work.pc \in Late
                 PROVE  /\ flash'[Manifest(work.target)] = work.next
                        /\ files[Manifest(1 - work.target)] = flash'[Manifest(1 - work.target)]
    BY <1>1 DEF LateOK
  <2>2. files[Manifest(work.target)] = work.next
    BY <2>1 DEF FilesInv, WorkOK, CallOK, Calls
  <2>3. /\ flash[Manifest(work.target)] = work.next
        /\ files[Manifest(1 - work.target)] = flash[Manifest(1 - work.target)]
    BY <2>1 DEF BootInv, LateOK
  <2>4. Manifest(work.target) \in FileNames /\ Manifest(1 - work.target) \in FileNames
    BY <1>4, NameFacts
  <2> QED  BY <1>2, <2>2, <2>3, <2>4
<1>7. ASSUME work.pc = "deleted"
      PROVE  DeletedOK(flash', Answers)
  <2>1. DeletedOK(flash, Answers) /\ \A m \in FileNames : files[m] = NoFile
    BY <1>7 DEF BootInv, FilesInv, WorkOK
  <2>2. ASSUME NEW s \in ManifestSlots, Loaded(flash', s)
        PROVE  Content(flash', s) \in Answers
    <3>1. Manifest(s) \in FileNames /\ \A x \in Objs : Record(s, x) \in FileNames
      BY NameFacts
    <3>2. flash'[Manifest(s)] # NoFile /\ \A x \in Objs : flash'[Record(s, x)].gen = flash'[Manifest(s)].gen
      BY <2>2 DEF Loaded
    <3>3. flash'[Manifest(s)] = flash[Manifest(s)] /\ flash[Manifest(s)].gen \in Nat \ {0}
      BY <1>2, <1>4, <2>1, <3>1, <3>2, BlobFacts DEF FilesOK
    <3>4. ASSUME NEW x \in Objs PROVE flash'[Record(s, x)] = flash[Record(s, x)]
      BY <1>2, <2>1, <3>1, <3>2, <3>3, BlobFacts
    <3>5. Loaded(flash, s) /\ Content(flash', s) = Content(flash, s)
      BY <3>2, <3>3, <3>4 DEF Loaded, Content
    <3> QED  BY <2>1, <3>5 DEF DeletedOK
  <2> QED  BY <2>1, <2>2 DEF DeletedOK
<1>8. ASSUME EarlyOK(work, files, flash, Answers)
      PROVE  EarlyOK(work, files, flash', Answers)
  <2>1. ASSUME work.pc \in Early
        PROVE  Settled(files, flash', 1 - work.target, Answers)
    <3>1. Settled(files, flash, 1 - work.target, Answers)
      BY <1>8, <2>1 DEF EarlyOK
    <3>2. SameBank(files, flash, 1 - work.target) /\ Good(flash, 1 - work.target, Answers)
      BY <3>1 DEF Settled
    <3> QED  BY <1>2, <1>4, <3>1, <3>2, SettledDrains
  <2>2. ASSUME work.pc = "sync2"
        PROVE  /\ SameBank(files, flash', 1 - work.target) /\ Good(flash', 1 - work.target, Answers)
               /\ \/ flash'[Manifest(work.target)] = work.next
                  \/ Low(flash', work.target, flash'[Manifest(1 - work.target)].gen)
    <3>1. /\ SameBank(files, flash, 1 - work.target) /\ Good(flash, 1 - work.target, Answers)
          /\ \/ flash[Manifest(work.target)] = work.next
             \/ Low(flash, work.target, flash[Manifest(1 - work.target)].gen)
      BY <1>8, <2>2 DEF EarlyOK
    <3>2. /\ SameBank(files, flash', 1 - work.target) /\ Good(flash', 1 - work.target, Answers)
          /\ flash'[Manifest(1 - work.target)] = flash[Manifest(1 - work.target)]
      BY <1>2, <1>4, <3>1, SettledDrains
    <3>3. files[Manifest(work.target)] = work.next
      BY <2>2 DEF FilesInv, WorkOK, CallOK, Calls
    <3>4. flash'[Manifest(work.target)] \in {flash[Manifest(work.target)], work.next}
      BY <1>2, <1>4, <3>3, NameFacts
    <3> QED  BY <3>1, <3>2, <3>4 DEF Low
  <2> QED  BY <2>1, <2>2 DEF EarlyOK
<1>9. ASSUME NEW b \in ManifestSlots, Settled(files, flash, b, Answers)
      PROVE  Settled(files, flash', b, Answers)
  <2>1. SameBank(files, flash, b) /\ Good(flash, b, Answers)
    BY <1>9 DEF Settled
  <2> QED  BY <1>2, <1>9, <2>1, SettledDrains
<1>10. deletion = "cut" => work.pc = "deleted"
  BY <1>3 DEF BootInv
<1> QED  BY <1>1, <1>4, <1>5, <1>6, <1>7, <1>8, <1>9, <1>10 DEF BootInv

LEMMA BootStep ==
  ASSUME ContainersAssumption, LateTimeouts = FALSE, FilesInv, Whole, BootInv, [ContainersNext]_containerVars
  PROVE  BootInv'
<1>1. ShapeInv'
  BY ShapeStep DEF BootInv
<1>2. ASSUME NEW xs \in WriteSets, ContainerUpdate(xs) PROVE BootInv'
  <2>1. xs = Objs
    BY DEF WriteSets, Whole
  <2> QED  BY <1>2, <2>1, UpdateBoot
<1>3. ASSUME NEW x \in Objs, ContainerRemove(x) PROVE BootInv'
  BY <1>3 DEF ContainerRemove
<1>4. CASE UNCHANGED containerVars
  <2>1. UNCHANGED <<files, flash, work, confirmed, tried, deletion>>
    BY <1>4 DEF containerVars, storage, ghosts
  <2>2. Answers' = Answers
    BY <2>1 DEF Answers
  <2> QED  BY <1>1, <2>1, <2>2 DEF BootInv
<1>5. CASE CallStep
  BY <1>1, <1>5, RecordBoot, SyncRecordsBoot, ClearManifestBoot, PutManifestBoot, LateBoot, RetireBoot,
     SyncDeletedBoot, FailBoot DEF CallStep
<1> QED  BY <1>1, <1>2, <1>3, <1>4, <1>5, DeleteBoot, LossBoot, WriteBackBoot DEF ContainersNext

LEMMA BootInit ==
  ASSUME ContainersAssumption, ContainersInit
  PROVE  BootInv
<1>1. files = [n \in FileNames |-> NoFile] /\ flash = files /\ work = NoCall /\ confirmed = Nothing
      /\ deletion = "whole"
  BY DEF ContainersInit
<1>2. \A s \in ManifestSlots : files[Manifest(s)] = NoFile
  BY <1>1, EmptyFiles, NameFacts
<1>3. Banked(files) /\ Banked(flash)
  BY <1>1, <1>2 DEF Banked
<1>4. 0 \in ManifestSlots /\ 1 - 0 \in ManifestSlots
  BY DEF ManifestSlots
<1>5. Settled(files, flash, 0, Answers)
  BY <1>1, <1>2, <1>4 DEF Settled, SameBank, Good, Low, Answers
<1>6. work.pc = "idle" /\ work.pc \notin Calls /\ work.pc \notin Early \cup Late \cup {"clear", "manifest", "sync2", "deleted"}
  BY <1>1, NoCallFacts DEF Calls, Early, Late
<1>7. LateOK(work, files, flash) /\ EarlyOK(work, files, flash, Answers)
  BY <1>6 DEF LateOK, EarlyOK
<1>8. ShapeInv
  BY <1>3, <1>6 DEF ShapeInv
<1> QED  BY <1>1, <1>4, <1>5, <1>6, <1>7, <1>8 DEF BootInv

ContainersInv == FilesInv /\ (Whole => BootInv)

\* A boot, and a reader between calls, find a container that is written as a whole as the last
\* successful call left it or as one since then was to leave it; without faults every container holds
\* what its last call was to leave.  For any set of objects and any number of updates, power losses
\* and failed writes; the syncs after the manifest do not give up (see ObjectTxn for what that does).
THEOREM ContainersHold ==
  ASSUME LateTimeouts = FALSE
  PROVE  ContainersSpec => []ContainerHolds
<1>1. ContainersInit => ContainersInv
  BY ContainersAssumption, FilesInit, BootInit DEF ContainersInv
<1>2. ASSUME ContainersInv, [ContainersNext]_containerVars PROVE ContainersInv'
  <2>1. FilesInv'
    BY <1>2, ContainersAssumption, FilesStep DEF ContainersInv
  <2>2. Whole' <=> Whole
    BY <1>2 DEF ContainersNext, containerVars, Whole
  <2>3. Whole => BootInv'
    BY <1>2, ContainersAssumption, BootStep DEF ContainersInv
  <2> QED  BY <2>1, <2>2, <2>3 DEF ContainersInv
<1>3. ASSUME ContainersInv PROVE ContainerHolds
  <2>1. CASE Whole
    <3>1. BootFindsAckedOrTried
      BY <1>3, <2>1, ContainersAssumption, BootHolds DEF ContainersInv
    <3> QED  BY <2>1, <3>1 DEF ContainerHolds
  <2>2. CASE ~Whole
    <3>1. losses = 0 /\ ioErrors = 0 /\ work.pc = "idle" => Reading(files) = confirmed
      BY <1>3, ContainersAssumption, HoldsRead DEF ContainersInv, FilesInv
    <3> QED  BY <2>2, <3>1 DEF ContainerHolds
  <2> QED  BY <2>1, <2>2
<1> QED  BY <1>1, <1>2, <1>3, PTL DEF ContainersSpec
=============================================================================
