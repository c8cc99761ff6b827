------------------------------ MODULE FlashProofs ------------------------------
(***************************************************************************)
(* Proofs about flash: the sector cache (PageCache), for every number of   *)
(* sectors, of offsets in them and of cache pages, and the file records    *)
(* above it (FlashChain), for every number of files, payloads, cells and   *)
(* cells in a sector; and for every bound.                                 *)
(*                                                                         *)
(* The invariant of the cache says that a sector has at most one page, that*)
(* this page, or flash where there is none, holds what was programmed      *)
(* last, that ready_pages counts the pages in use, and that a request for  *)
(* a flush is only withdrawn once flash agrees with the callers on every   *)
(* address they have not programmed since.                                 *)
(*                                                                         *)
(* The invariant of the file records has three parts that hold for as long *)
(* as each can: which records are on the chain and which of them does not  *)
(* have its back link yet, step by step of an operation, while power stays *)
(* on; and, while no record was cleared, that the walk of the next boot    *)
(* stays among records of the chain in RAM and passes over none but those  *)
(* of files an operation was begun on.                                     *)
(***************************************************************************)
EXTENDS PageCache, FlashChain, FiniteSetTheorems, WellFoundedInduction, TLAPS

-----------------------------------------------------------------------------
(* The inductive invariant *)

Words    == [Offsets -> Nat]
PageType == [ready : BOOLEAN, address : 0..NSectors, page : Words]
CoreType == [at : {"rest", "program", "drain", "sync"}, left : Seq(Addresses), word : Nat]

\* Type invariant of the sector cache of low_flash.c.
CacheTypeOK ==
  /\ sectors \in [FlashSectors -> Words]
  /\ pages \in [Pages -> PageType]
  /\ gates \in [available : BOOLEAN, lockedOut : BOOLEAN, dirty : Nat]
  /\ turn \in 0..(NPages + 1)
  /\ cores \in [CoreIds -> CoreType]
  /\ \A c \in CoreIds : cores[c].at \in {"program", "drain"} => cores[c].left # <<>>
  /\ held_ptr = NoPointer \/ held_ptr \in [page : 0..NPages, addr : Addresses]
  /\ last \in [Addresses -> Nat]
  /\ possible \in [Addresses -> SUBSET Nat]
  /\ covered \subseteq Addresses
  /\ blocks \in 0..MaxBlocks /\ cacheLosses \in 0..MaxCacheLosses

\* A page in use is the only one of its sector and holds what was programmed there last.
PagesOK ==
  \A r \in Pages :
    pages[r].ready =>
      /\ pages[r].address \in FlashSectors
      /\ \A q \in Pages : pages[q].ready /\ pages[q].address = pages[r].address => q = r
      /\ \A o \in Offsets : pages[r].page[o] = last[<<pages[r].address, o>>]

\* A sector without a page holds in flash what was programmed there last.
SectorsOK ==
  \A s \in FlashSectors :
    (\A r \in Pages : ~(pages[r].ready /\ pages[r].address = s)) =>
      \A o \in Offsets : sectors[s][o] = last[<<s, o>>]

\* What flash holds, and what it will hold once the pages are written back, is possible.
PossibleOK ==
  \A s \in FlashSectors, o \in Offsets :
    sectors[s][o] \in possible[<<s, o>>] /\ last[<<s, o>>] \in possible[<<s, o>>]

\* ready_pages counts the pages in use.
DirtyOK == gates.dirty = Cardinality({r \in Pages : pages[r].ready})

\* A pass of low_flash_task works on a request, and when there is none flash holds all that was
\* programmed before the last one.
RequestOK ==
  /\ turn # 0 => gates.available
  /\ ~gates.available =>
       \A s \in FlashSectors, o \in Offsets :
         <<s, o>> \in covered => sectors[s][o] = last[<<s, o>>]

\* A pointer that is still used shows what was programmed last.
PointerOK == held_ptr # NoPointer => Pointed(held_ptr) = last[held_ptr.addr]

CacheInv ==
  /\ CacheTypeOK /\ PagesOK /\ SectorsOK /\ PossibleOK /\ DirtyOK /\ RequestOK /\ PointerOK

-----------------------------------------------------------------------------
(* Lemmas *)

\* Every set of natural numbers that is not empty has a least element.
LEMMA LeastNumber ==
  ASSUME NEW T, T \subseteq Nat, T # {}
  PROVE  \E x \in T : \A y \in T : x <= y
<1>1. PICK x \in T : \A y \in T : ~(<<y, x>> \in OpToRel(<, Nat))
  BY WFMin, NatLessThanWellFounded, Zenon
<1>2. \A y \in T : ~(y < x)
  BY <1>1 DEF OpToRel
<1> QED BY <1>2

\* Which is the one find_free_page takes.
LEMMA LeastNatural ==
  ASSUME NEW T, T \subseteq Nat, T # {}
  PROVE  FirstOf(T) \in T
<1>1. \E x \in T : \A y \in T : x <= y
  BY LeastNumber
<1> QED BY <1>1, Zenon DEF FirstOf

\* An address is a sector and an offset in it.
LEMMA AddressFacts ==
  /\ \A a \in Addresses : a = <<a[1], a[2]>> /\ a[1] \in FlashSectors /\ a[2] \in Offsets
  /\ \A s \in FlashSectors, o \in Offsets : <<s, o>> \in Addresses
BY DEF Addresses

\* A sequence of more than one element has a tail that is not empty.
LEMMA TailFacts ==
  ASSUME NEW S, NEW q \in Seq(S), q # <<>>, Len(q) # 1
  PROVE  Tail(q) \in Seq(S) /\ Tail(q) # <<>>
<1>1. Len(q) \in Nat /\ Len(q) # 0
  OBVIOUS
<1>2. Len(Tail(q)) = Len(q) - 1 /\ Tail(q) \in Seq(S)
  OBVIOUS
<1>3. Len(Tail(q)) # Len(<<>>)
  BY <1>1, <1>2
<1> QED BY <1>2, <1>3, Zenon

\* find_free_page returns the page of the sector, or an empty one when there is none.
LEMMA FindFacts ==
  ASSUME CacheInv, NEW s \in FlashSectors, PagesOf(s) \cup FreePages # {}
  PROVE  \/ /\ find_free_page(s).r \in Pages
            /\ pages[find_free_page(s).r].ready /\ pages[find_free_page(s).r].address = s
            /\ find_free_page(s).page = pages[find_free_page(s).r].page
         \/ /\ find_free_page(s).r \in Pages
            /\ ~pages[find_free_page(s).r].ready
            /\ \A q \in Pages : ~(pages[q].ready /\ pages[q].address = s)
            /\ find_free_page(s).page = sectors[s]
<1>1. PagesOf(s) \subseteq Pages /\ FreePages \subseteq Pages /\ Pages \subseteq Nat
  BY PageCacheAssumption DEF PagesOf, FreePages, Pages
<1>2. CASE PagesOf(s) # {}
  <2>1. FirstOf(PagesOf(s)) \in PagesOf(s)
    BY <1>1, <1>2, LeastNatural
  <2>2. find_free_page(s) = [r |-> FirstOf(PagesOf(s)), page |-> pages[FirstOf(PagesOf(s))].page]
    BY <1>2 DEF find_free_page
  <2> QED BY <2>1, <2>2 DEF PagesOf
<1>3. CASE PagesOf(s) = {}
  <2>1. FirstOf(FreePages) \in FreePages
    BY <1>1, <1>3, LeastNatural
  <2>2. find_free_page(s) = [r |-> FirstOf(FreePages), page |-> sectors[s]]
    BY <1>3 DEF find_free_page
  <2> QED BY <1>3, <2>1, <2>2 DEF PagesOf, FreePages
<1> QED BY <1>2, <1>3

\* What flash_program_block does in one sector.
Chunk(s, o, r, w) ==
  /\ turn = 0
  /\ \/ pages[r].ready /\ pages[r].address = s
     \/ ~pages[r].ready /\ \A q \in Pages : ~(pages[q].ready /\ pages[q].address = s)
  /\ pages' = [pages EXCEPT ![r] =
        [ready |-> TRUE, address |-> s,
         page |-> [(IF pages[r].ready THEN pages[r].page ELSE sectors[s]) EXCEPT ![o] = w]]]
  /\ gates' = [gates EXCEPT !.dirty = IF pages[r].ready THEN @ ELSE @ + 1]
  /\ last' = [last EXCEPT ![<<s, o>>] = w]
  /\ possible' = [possible EXCEPT ![<<s, o>>] = @ \cup {w}]
  /\ covered' = covered \ {<<s, o>>} /\ held_ptr' = NoPointer
  /\ UNCHANGED <<sectors, turn, blocks, cacheLosses>>

LEMMA ChunkStep ==
  ASSUME CacheInv, NEW c \in CoreIds, ProgramChunk(c)
  PROVE  /\ \E s \in FlashSectors, o \in Offsets, r \in Pages, w \in Nat : Chunk(s, o, r, w)
         /\ cores' \in [CoreIds -> CoreType]
         /\ \A d \in CoreIds : cores'[d].at \in {"program", "drain"} => cores'[d].left # <<>>
<1>1. /\ cores \in [CoreIds -> CoreType] /\ cores[c].at = "program"
      /\ \A d \in CoreIds : cores[d].at \in {"program", "drain"} => cores[d].left # <<>>
  BY DEF CacheInv, CacheTypeOK, ProgramChunk
<1>2. cores[c].left \in Seq(Addresses) /\ cores[c].left # <<>> /\ cores[c].word \in Nat
  BY <1>1 DEF CoreType
<1>3. PICK a \in Addresses : a = Head(cores[c].left)
  BY <1>2
<1>4. PICK s \in FlashSectors, o \in Offsets : s = a[1] /\ o = a[2] /\ a = <<s, o>>
  BY AddressFacts
<1> DEFINE found == find_free_page(s)
<1>5. /\ turn = 0 /\ PagesOf(s) \cup FreePages # {}
      /\ pages' = [pages EXCEPT ![found.r] =
                    [ready |-> TRUE, address |-> s, page |-> [found.page EXCEPT ![o] = cores[c].word]]]
      /\ gates' = [gates EXCEPT !.dirty = IF pages[found.r].ready THEN @ ELSE @ + 1]
      /\ last' = [last EXCEPT ![<<s, o>>] = cores[c].word]
      /\ possible' = [possible EXCEPT ![<<s, o>>] = @ \cup {cores[c].word}]
      /\ covered' = covered \ {<<s, o>>} /\ held_ptr' = NoPointer
      /\ UNCHANGED <<sectors, turn, blocks, cacheLosses>>
  BY <1>3, <1>4 DEF ProgramChunk
<1>6. \/ /\ found.r \in Pages /\ pages[found.r].ready /\ pages[found.r].address = s
         /\ found.page = pages[found.r].page
      \/ /\ found.r \in Pages /\ ~pages[found.r].ready /\ found.page = sectors[s]
         /\ \A q \in Pages : ~(pages[q].ready /\ pages[q].address = s)
  BY <1>5, FindFacts
<1> HIDE DEF found
<1>7. Chunk(s, o, found.r, cores[c].word)
  BY <1>5, <1>6 DEF Chunk
<1>8. cores' = [cores EXCEPT ![c] = IF Len(cores[c].left) = 1 THEN AtRest
                        ELSE [cores[c] EXCEPT !.left = Tail(cores[c].left)]]
  BY DEF ProgramChunk
<1>9. AtRest \in CoreType /\ AtRest.at = "rest"
  BY PageCacheAssumption DEF AtRest, CoreType, Erased
<1>10. CASE Len(cores[c].left) = 1
  BY <1>1, <1>2, <1>6, <1>7, <1>8, <1>9, <1>10
<1>11. CASE Len(cores[c].left) # 1
  <2> DEFINE rest == [cores[c] EXCEPT !.left = Tail(@)]
  <2>1. Tail(cores[c].left) \in Seq(Addresses) /\ Tail(cores[c].left) # <<>>
    BY <1>2, <1>11, TailFacts
  <2>2. rest \in CoreType /\ rest.left # <<>>
    BY <1>1, <2>1 DEF CoreType
  <2>3. cores' = [cores EXCEPT ![c] = rest]
    <3>1. (IF Len(cores[c].left) = 1 THEN AtRest ELSE rest) = rest
      BY <1>11
    <3> QED BY <1>8, <3>1, Zenon
  <2> HIDE DEF rest
  <2>4. /\ cores' \in [CoreIds -> CoreType]
        /\ \A d \in CoreIds : cores'[d].at \in {"program", "drain"} => cores'[d].left # <<>>
    BY <1>1, <2>2, <2>3
  <2> QED BY <1>2, <1>6, <1>7, <2>4
<1> QED BY <1>10, <1>11

\* What low_flash_task does to page r of its pass: nothing, or the sector is written, and then the
\* page is freed or not.
Written(r, freed) ==
  /\ r \in Pages /\ turn = r /\ turn' = r + 1
  /\ pages[r].ready
  /\ sectors' = [sectors EXCEPT ![pages[r].address] = pages[r].page]
  /\ IF freed THEN /\ pages' = [pages EXCEPT ![r].ready = FALSE]
                   /\ gates' = [gates EXCEPT !.dirty = @ - 1]
     ELSE UNCHANGED <<pages, gates>>
  /\ UNCHANGED <<cores, held_ptr, last, possible, covered, blocks, cacheLosses>>

\* What the invariant says, for the steps below.
LEMMA InvFacts ==
  ASSUME CacheInv
  PROVE  /\ sectors \in [FlashSectors -> Words] /\ pages \in [Pages -> PageType]
         /\ gates \in [available : BOOLEAN, lockedOut : BOOLEAN, dirty : Nat]
         /\ gates.available \in BOOLEAN /\ gates.dirty \in Nat
         /\ turn \in 0..(NPages + 1) /\ cores \in [CoreIds -> CoreType]
         /\ last \in [Addresses -> Nat] /\ possible \in [Addresses -> SUBSET Nat]
         /\ covered \subseteq Addresses
         /\ NSectors \in Nat /\ NOffsets \in Nat /\ NPages \in Nat
         /\ AtRest \in CoreType /\ AtRest.at = "rest"
         /\ \A c \in CoreIds : cores[c].at \in {"program", "drain"} => cores[c].left # <<>>
         /\ IsFiniteSet({r \in Pages : pages[r].ready})
<1>1. AtRest \in CoreType /\ AtRest.at = "rest"
  BY DEF AtRest, CoreType, Erased
<1>2. IsFiniteSet({r \in Pages : pages[r].ready})
  <2>1. IsFiniteSet(Pages)
    BY FS_Interval, PageCacheAssumption DEF Pages
  <2>2. {r \in Pages : pages[r].ready} \in SUBSET Pages
    OBVIOUS
  <2> QED BY <2>1, <2>2, FS_Subset
<1> QED BY <1>1, <1>2, PageCacheAssumption DEF CacheInv, CacheTypeOK

\* Nothing is dirty: flash holds what was programmed last.
LEMMA CleanFlash ==
  ASSUME CacheInv, gates.dirty = 0
  PROVE  \A s \in FlashSectors, o \in Offsets : sectors[s][o] = last[<<s, o>>]
<1>1. {r \in Pages : pages[r].ready} = {}
  BY InvFacts, FS_EmptySet DEF CacheInv, DirtyOK
<1>2. \A r \in Pages : ~pages[r].ready
  BY <1>1
<1> QED BY <1>2 DEF CacheInv, SectorsOK

-----------------------------------------------------------------------------
(* The invariant is inductive *)

LEMMA InitCacheInv == PageCacheInit => CacheInv
<1> SUFFICES ASSUME PageCacheInit PROVE CacheInv
  OBVIOUS
<1>1. CacheTypeOK
  <2>1. [o \in Offsets |-> Erased] \in Words
    BY DEF Words, Erased
  <2>2. EmptyPage \in PageType
    BY <2>1, PageCacheAssumption DEF EmptyPage, PageType
  <2>3. AtRest \in CoreType /\ AtRest.at = "rest"
    BY DEF AtRest, CoreType, Erased
  <2> QED BY <2>1, <2>2, <2>3, PageCacheAssumption DEF PageCacheInit, CacheTypeOK, Erased
<1>2. \A r \in Pages : ~pages[r].ready
  BY DEF PageCacheInit, EmptyPage
<1>3. \A s \in FlashSectors, o \in Offsets :
        /\ sectors[s][o] = Erased /\ last[<<s, o>>] = Erased /\ possible[<<s, o>>] = {Erased}
  BY AddressFacts DEF PageCacheInit
<1>4. PagesOK /\ SectorsOK /\ PossibleOK
  BY <1>2, <1>3 DEF PagesOK, SectorsOK, PossibleOK
<1>5. DirtyOK
  <2>1. {r \in Pages : pages[r].ready} = {}
    BY <1>2
  <2> QED BY <2>1, FS_EmptySet DEF DirtyOK, PageCacheInit
<1>6. RequestOK /\ PointerOK
  BY <1>3 DEF RequestOK, PointerOK, PageCacheInit
<1> QED BY <1>1, <1>4, <1>5, <1>6 DEF CacheInv

LEMMA ChunkInv ==
  ASSUME CacheInv, NEW c \in CoreIds, ProgramChunk(c)
  PROVE  CacheInv'
<1> USE InvFacts
<1>1. PICK s \in FlashSectors, o \in Offsets, r \in Pages, w \in Nat : Chunk(s, o, r, w)
  BY ChunkStep
<1> DEFINE base == IF pages[r].ready THEN pages[r].page ELSE sectors[s]
           new  == [ready |-> TRUE, address |-> s, page |-> [base EXCEPT ![o] = w]]
<1>2. PagesOK /\ SectorsOK /\ PossibleOK /\ DirtyOK /\ RequestOK
  BY DEF CacheInv
<1>3. base \in Words /\ \A x \in Offsets : base[x] = last[<<s, x>>]
  <2>1. CASE pages[r].ready
    BY <1>1, <1>2, <2>1 DEF Chunk, PagesOK, PageType
  <2>2. CASE ~pages[r].ready
    BY <1>1, <1>2, <2>2 DEF Chunk, SectorsOK
  <2> QED BY <2>1, <2>2
<1>4. /\ pages' = [pages EXCEPT ![r] = new]
      /\ UNCHANGED <<sectors, turn, blocks, cacheLosses>> /\ turn = 0
      /\ last' = [last EXCEPT ![<<s, o>>] = w] /\ held_ptr' = NoPointer
      /\ possible' = [possible EXCEPT ![<<s, o>>] = possible[<<s, o>>] \cup {w}]
      /\ covered' = covered \ {<<s, o>>}
      /\ gates' = [gates EXCEPT !.dirty = IF pages[r].ready THEN gates.dirty ELSE gates.dirty + 1]
  BY <1>1 DEF Chunk
<1>5. /\ \A q \in Pages : q # r => pages'[q] = pages[q]
      /\ pages'[r].ready /\ pages'[r].address = s
      /\ \A x \in Offsets : pages'[r].page[x] = IF x = o THEN w ELSE base[x]
      /\ new \in PageType
  <2>1. [base EXCEPT ![o] = w] \in Words
    BY <1>3 DEF Words
  <2>2. new \in PageType
    BY <2>1 DEF PageType, FlashSectors
  <2>3. \A x \in Offsets : [base EXCEPT ![o] = w][x] = IF x = o THEN w ELSE base[x]
    BY <1>3 DEF Words
  <2>4. pages'[r] = new
    BY <1>4
  <2> HIDE DEF base
  <2> QED BY <1>4, <2>2, <2>3, <2>4
<1> HIDE DEF base, new
<1>6. /\ \A u \in FlashSectors, x \in Offsets : <<u, x>> \in Addresses
      /\ \A u \in FlashSectors, x \in Offsets :
           last'[<<u, x>>] = IF u = s /\ x = o THEN w ELSE last[<<u, x>>]
      /\ \A u \in FlashSectors, x \in Offsets :
           possible'[<<u, x>>] = IF u = s /\ x = o THEN possible[<<u, x>>] \cup {w} ELSE possible[<<u, x>>]
  BY <1>4, AddressFacts
<1>7. CacheTypeOK'
  <2>1. pages' \in [Pages -> PageType] /\ last' \in [Addresses -> Nat]
        /\ possible' \in [Addresses -> SUBSET Nat]
    BY <1>4, <1>5, <1>6
  <2>2. gates' \in [available : BOOLEAN, lockedOut : BOOLEAN, dirty : Nat]
    <3>1. gates.dirty + 1 \in Nat
      OBVIOUS
    <3>2. CASE pages[r].ready
      BY <1>4, <3>2
    <3>3. CASE ~pages[r].ready
      <4>1. gates' = [gates EXCEPT !.dirty = gates.dirty + 1]
        BY <1>4, <3>3
      <4> QED BY <3>1, <4>1
    <3> QED BY <3>2, <3>3
  <2>3. /\ cores' \in [CoreIds -> CoreType]
        /\ \A d \in CoreIds : cores'[d].at \in {"program", "drain"} => cores'[d].left # <<>>
    BY ChunkStep
  <2> QED BY <1>4, <2>1, <2>2, <2>3 DEF CacheInv, CacheTypeOK
<1>8. PagesOK'
  <2> SUFFICES ASSUME NEW p \in Pages, pages'[p].ready
               PROVE  /\ pages'[p].address \in FlashSectors
                      /\ \A q \in Pages : pages'[q].ready /\ pages'[q].address = pages'[p].address => q = p
                      /\ \A x \in Offsets : pages'[p].page[x] = last'[<<pages'[p].address, x>>]
    BY DEF PagesOK
  <2>1. CASE p = r
    <3>1. \A q \in Pages : pages'[q].ready /\ pages'[q].address = s => q = r
      BY <1>1, <1>2, <1>5 DEF Chunk, PagesOK
    <3> QED BY <1>3, <1>5, <1>6, <2>1, <3>1
  <2>2. CASE p # r
    <3>1. pages'[p] = pages[p] /\ pages[p].ready /\ pages[p].address \in FlashSectors
      BY <1>2, <1>5, <2>2 DEF PagesOK
    <3>2. pages[p].address # s
      BY <1>1, <1>2, <2>2, <3>1 DEF Chunk, PagesOK
    <3> QED BY <1>2, <1>5, <1>6, <2>2, <3>1, <3>2 DEF PagesOK
  <2> QED BY <2>1, <2>2
<1>9. SectorsOK'
  <2> SUFFICES ASSUME NEW u \in FlashSectors,
                      \A p \in Pages : ~(pages'[p].ready /\ pages'[p].address = u)
               PROVE  \A x \in Offsets : sectors'[u][x] = last'[<<u, x>>]
    BY DEF SectorsOK
  <2>1. u # s
    BY <1>5
  <2>2. \A p \in Pages : ~(pages[p].ready /\ pages[p].address = u)
    BY <1>1, <1>5, <2>1 DEF Chunk
  <2>3. \A x \in Offsets : sectors[u][x] = last[<<u, x>>]
    BY <1>2, <2>2 DEF SectorsOK
  <2> QED BY <1>2, <1>4, <1>6, <2>1, <2>3
<1>10. PossibleOK'
  BY <1>2, <1>4, <1>6 DEF PossibleOK
<1>11. DirtyOK'
  <2> DEFINE U == {p \in Pages : pages[p].ready}
  <2>1. {p \in Pages : pages'[p].ready} = U \cup {r}
    BY <1>5
  <2>2. CASE pages[r].ready
    <3>1. r \in U /\ U \cup {r} = U
      BY <2>2
    <3>2. gates'.dirty = gates.dirty
      BY <1>4, <2>2
    <3> QED BY <1>2, <2>1, <3>1, <3>2 DEF DirtyOK
  <2>3. CASE ~pages[r].ready
    <3>1. r \notin U /\ IsFiniteSet(U)
      BY <2>3
    <3>2. Cardinality(U \cup {r}) = Cardinality(U) + 1
      BY <3>1, FS_AddElement
    <3>3. gates'.dirty = gates.dirty + 1
      BY <1>4, <2>3
    <3> QED BY <1>2, <2>1, <3>2, <3>3 DEF DirtyOK
  <2> QED BY <2>2, <2>3
<1>12. RequestOK' /\ PointerOK'
  <2>1. gates'.available = gates.available
    BY <1>4
  <2> QED BY <1>2, <1>4, <1>6, <2>1 DEF RequestOK, PointerOK
<1> QED BY <1>7, <1>8, <1>9, <1>10, <1>11, <1>12 DEF CacheInv

LEMMA WrittenInv ==
  ASSUME CacheInv, NEW r \in Pages, NEW freed \in BOOLEAN, Written(r, freed)
  PROVE  CacheInv'
<1> USE InvFacts
<1>1. PagesOK /\ SectorsOK /\ PossibleOK /\ DirtyOK /\ RequestOK /\ PointerOK /\ CacheTypeOK
  BY DEF CacheInv
<1>2. PICK s : s = pages[r].address
  OBVIOUS
<1>3. /\ r \in Pages /\ pages[r].ready /\ s \in FlashSectors /\ pages[r] \in PageType
      /\ pages[r].page \in Words
      /\ \A o \in Offsets : pages[r].page[o] = last[<<s, o>>]
      /\ \A q \in Pages : pages[q].ready /\ pages[q].address = s => q = r
  BY <1>1, <1>2 DEF Written, PagesOK, PageType
<1>4. /\ sectors' = [sectors EXCEPT ![s] = pages[r].page] /\ turn = r /\ turn' = r + 1
      /\ UNCHANGED <<cores, held_ptr, last, possible, covered, blocks, cacheLosses>>
  BY <1>2 DEF Written
<1>5. \A u \in FlashSectors, o \in Offsets :
        sectors'[u][o] = IF u = s THEN last[<<u, o>>] ELSE sectors[u][o]
  BY <1>3, <1>4
<1>6. /\ \A q \in Pages : q # r => pages'[q] = pages[q]
      /\ pages'[r].address = s /\ pages'[r].page = pages[r].page
      /\ pages'[r].ready <=> ~freed
      /\ pages' \in [Pages -> PageType]
  <2>1. CASE freed
    <3>1. pages' = [pages EXCEPT ![r].ready = FALSE]
      BY <2>1 DEF Written
    <3>2. [pages[r] EXCEPT !.ready = FALSE] \in PageType
      BY <1>3 DEF PageType
    <3>3. pages'[r] = [pages[r] EXCEPT !.ready = FALSE]
      BY <3>1
    <3>4. /\ pages'[r].address = pages[r].address /\ pages'[r].page = pages[r].page
          /\ ~pages'[r].ready
      BY <1>3, <3>3 DEF PageType
    <3>5. pages' \in [Pages -> PageType] /\ \A q \in Pages : q # r => pages'[q] = pages[q]
      BY <3>1, <3>2
    <3> QED BY <1>2, <2>1, <3>4, <3>5
  <2>2. CASE ~freed
    BY <1>2, <1>3, <2>2 DEF Written
  <2> QED BY <2>1, <2>2
<1>7. DirtyOK' /\ gates' \in [available : BOOLEAN, lockedOut : BOOLEAN, dirty : Nat]
      /\ gates'.available = gates.available
  <2> DEFINE U == {p \in Pages : pages[p].ready}
  <2>1. CASE freed
    <3>1. {p \in Pages : pages'[p].ready} = U \ {r}
      BY <1>6, <2>1
    <3>2. r \in U /\ IsFiniteSet(U)
      BY <1>3
    <3>3. Cardinality(U \ {r}) = Cardinality(U) - 1 /\ Cardinality(U \ {r}) \in Nat
      <4> HIDE DEF U
      <4>1. IsFiniteSet(U \ {r}) /\ Cardinality(U \ {r}) = Cardinality(U) - 1
        BY <3>2, FS_RemoveElement
      <4> QED BY <4>1, FS_CardinalityType
    <3>4. gates' = [gates EXCEPT !.dirty = gates.dirty - 1]
      BY <2>1 DEF Written
    <3>5. gates.dirty - 1 \in Nat
      BY <1>1, <3>3 DEF DirtyOK
    <3> QED BY <1>1, <3>1, <3>3, <3>4, <3>5 DEF DirtyOK
  <2>2. CASE ~freed
    BY <1>1, <2>2 DEF Written, DirtyOK
  <2> QED BY <2>1, <2>2
<1>8. CacheTypeOK'
  <2>1. sectors' \in [FlashSectors -> Words]
    BY <1>3, <1>4
  <2>2. turn' \in 0..(NPages + 1)
    BY <1>3, <1>4 DEF Pages
  <2> QED BY <1>1, <1>4, <1>6, <1>7, <2>1, <2>2 DEF CacheTypeOK
<1>9. PagesOK'
  <2> SUFFICES ASSUME NEW p \in Pages, pages'[p].ready
               PROVE  /\ pages'[p].address \in FlashSectors
                      /\ \A q \in Pages : pages'[q].ready /\ pages'[q].address = pages'[p].address => q = p
                      /\ \A x \in Offsets : pages'[p].page[x] = last[<<pages'[p].address, x>>]
    BY <1>4 DEF PagesOK
  <2>1. \A q \in Pages : /\ pages'[q].address = pages[q].address /\ pages'[q].page = pages[q].page
                         /\ pages'[q].ready => pages[q].ready
    BY <1>2, <1>3, <1>6
  <2> QED BY <1>1, <2>1 DEF PagesOK
<1>10. SectorsOK'
  <2> SUFFICES ASSUME NEW u \in FlashSectors,
                      \A p \in Pages : ~(pages'[p].ready /\ pages'[p].address = u)
               PROVE  \A x \in Offsets : sectors'[u][x] = last[<<u, x>>]
    BY <1>4 DEF SectorsOK
  <2>1. CASE u = s
    BY <1>5, <2>1
  <2>2. CASE u # s
    <3>1. \A p \in Pages : ~(pages[p].ready /\ pages[p].address = u)
      BY <1>2, <1>6, <2>2
    <3> QED BY <1>1, <1>5, <2>2, <3>1 DEF SectorsOK
  <2> QED BY <2>1, <2>2
<1>11. PossibleOK'
  BY <1>1, <1>4, <1>5 DEF PossibleOK
<1>12. RequestOK'
  <2>1. turn # 0
    BY <1>4 DEF Pages
  <2> QED BY <1>1, <1>4, <1>5, <1>7, <2>1 DEF RequestOK
<1>13. PointerOK'
  <2> SUFFICES ASSUME held_ptr # NoPointer
               PROVE  Pointed(held_ptr)' = last[held_ptr.addr]
    BY <1>4 DEF PointerOK
  <2>1. held_ptr \in [page : 0..NPages, addr : Addresses] /\ Pointed(held_ptr) = last[held_ptr.addr]
    BY <1>1 DEF CacheTypeOK, PointerOK
  <2>2. PICK u \in FlashSectors, o \in Offsets : held_ptr.addr = <<u, o>>
    BY <2>1, AddressFacts
  <2>3. CASE held_ptr.page = 0
    BY <1>4, <1>5, <2>1, <2>2, <2>3 DEF Pointed
  <2>4. CASE held_ptr.page # 0
    <3>1. held_ptr.page \in Pages
      BY <2>1, <2>4 DEF Pages
    <3>2. pages'[held_ptr.page].page = pages[held_ptr.page].page
      BY <1>6, <3>1
    <3> QED BY <1>4, <2>1, <2>4, <3>2 DEF Pointed
  <2> QED BY <2>3, <2>4
<1> QED BY <1>7, <1>8, <1>9, <1>10, <1>11, <1>12, <1>13 DEF CacheInv

LEMMA NextCacheInv == CacheInv /\ [PageCacheNext]_cacheVars => CacheInv'
<1> SUFFICES ASSUME CacheInv, [PageCacheNext]_cacheVars
             PROVE  CacheInv'
  OBVIOUS
<1> USE InvFacts
<1>1. CacheTypeOK /\ PagesOK /\ SectorsOK /\ PossibleOK /\ DirtyOK /\ RequestOK /\ PointerOK
  BY DEF CacheInv
\* Most steps leave the pages and the sectors alone.
<1>2. ASSUME UNCHANGED <<sectors, pages, last>>, gates'.dirty = gates.dirty
      PROVE  PagesOK' /\ SectorsOK' /\ DirtyOK'
  BY <1>1, <1>2 DEF PagesOK, SectorsOK, DirtyOK
<1>3. ASSUME UNCHANGED <<sectors, pages, last, held_ptr>>
      PROVE  PointerOK'
  BY <1>1, <1>3 DEF PointerOK, Pointed
<1>4. ASSUME UNCHANGED <<sectors, last, possible>>
      PROVE  PossibleOK'
  BY <1>1, <1>4 DEF PossibleOK
<1>5. ASSUME NEW c \in CoreIds, NEW span \in Spans, ProgramBlock(c, span)
      PROVE  CacheInv'
  <2>1. span \in Seq(Addresses) /\ span # <<>>
    <3>1. CASE \E a \in Addresses : span = <<a>>
      BY <3>1
    <3>2. CASE \E s \in 1..(NSectors - 1) : span = <<<<s, NOffsets>>, <<s + 1, 1>>>>
      <4>1. PICK s \in 1..(NSectors - 1) : span = <<<<s, NOffsets>>, <<s + 1, 1>>>>
        BY <3>2
      <4>2. s \in FlashSectors /\ s + 1 \in FlashSectors /\ NOffsets \in Offsets /\ 1 \in Offsets
        BY PageCacheAssumption DEF FlashSectors, Offsets
      <4>3. <<s, NOffsets>> \in Addresses /\ <<s + 1, 1>> \in Addresses
        BY <4>2, AddressFacts
      <4> QED BY <4>1, <4>3
    <3> QED BY <3>1, <3>2 DEF Spans
  <2>2. CacheTypeOK'
    <3>1. [at |-> "program", left |-> span, word |-> blocks + 1] \in CoreType
      BY <1>1, <2>1, PageCacheAssumption DEF CoreType, CacheTypeOK
    <3>2. blocks' \in 0..MaxBlocks
      BY <1>1, <1>5, PageCacheAssumption DEF ProgramBlock, CacheTypeOK
    <3>3. /\ cores' \in [CoreIds -> CoreType]
          /\ \A d \in CoreIds : cores'[d].at \in {"program", "drain"} => cores'[d].left # <<>>
      BY <1>1, <1>5, <2>1, <3>1 DEF ProgramBlock, CacheTypeOK
    <3> QED BY <1>1, <1>5, <3>2, <3>3 DEF ProgramBlock, CacheTypeOK
  <2>3. RequestOK'
    BY <1>1, <1>5 DEF ProgramBlock, RequestOK
  <2>4. UNCHANGED <<sectors, pages, last, possible, held_ptr, gates>>
    BY <1>5 DEF ProgramBlock
  <2> QED BY <1>2, <1>3, <1>4, <2>2, <2>3, <2>4 DEF CacheInv
<1>6. ASSUME NEW c \in CoreIds, ProgramWhenFull(c) \/ CommitSync(c)
      PROVE  CacheInv'
  <2>1. PICK then \in {"drain", "sync"} :
          /\ then = "drain" => cores[c].at = "program"
          /\ AskFlush(c, then)
    BY <1>6 DEF ProgramWhenFull, CommitSync
  <2>2. /\ UNCHANGED <<sectors, pages, turn, held_ptr, last, possible, blocks, cacheLosses>>
        /\ turn = 0
    BY <2>1 DEF AskFlush
  <2>3. CASE gates' = [gates EXCEPT !.available = TRUE]
             /\ cores' = [cores EXCEPT ![c].at = then]
             /\ covered' = IF c = 1 THEN Addresses ELSE covered
    <3>1. gates' \in [available : BOOLEAN, lockedOut : BOOLEAN, dirty : Nat]
          /\ gates'.available = TRUE /\ gates'.dirty = gates.dirty
      BY <2>3
    <3>2. /\ cores' \in [CoreIds -> CoreType]
          /\ \A d \in CoreIds : cores'[d].at \in {"program", "drain"} => cores'[d].left # <<>>
      BY <1>1, <2>1, <2>3 DEF CacheTypeOK, CoreType
    <3>3. CacheTypeOK'
      BY <1>1, <2>2, <2>3, <3>1, <3>2 DEF CacheTypeOK
    <3>4. RequestOK'
      BY <3>1 DEF RequestOK
    <3> QED BY <1>2, <1>3, <1>4, <2>2, <3>1, <3>3, <3>4 DEF CacheInv
  <2>4. CASE cores' = [cores EXCEPT ![0] = AtRest] /\ UNCHANGED <<gates, covered>>
    <3>1. CacheTypeOK'
      BY <1>1, <2>2, <2>4 DEF CacheTypeOK
    <3>2. RequestOK'
      BY <1>1, <2>2, <2>4 DEF RequestOK
    <3> QED BY <1>2, <1>3, <1>4, <2>2, <2>4, <3>1, <3>2 DEF CacheInv
  <2> QED BY <2>1, <2>3, <2>4 DEF AskFlush
<1>7. ASSUME NEW c \in CoreIds, Flushed(c)
      PROVE  CacheInv'
  <2>1. /\ ~gates.available /\ UNCHANGED <<sectors, pages, gates, turn, held_ptr, last, covered, blocks, cacheLosses>>
        /\ possible' = [a \in Addresses |-> IF a \in covered THEN {last[a]} ELSE possible[a]]
    BY <1>7 DEF Flushed
  <2>2. PossibleOK'
    BY <1>1, <2>1, AddressFacts DEF PossibleOK, RequestOK
  <2>3. CacheTypeOK'
    <3>1. possible' \in [Addresses -> SUBSET Nat]
      BY <2>1
    <3>2. /\ cores' \in [CoreIds -> CoreType]
          /\ \A d \in CoreIds : cores'[d].at \in {"program", "drain"} => cores'[d].left # <<>>
      <4>1. CASE cores[c].at = "drain"
        <5>1. cores' = [cores EXCEPT ![c] = [cores[c] EXCEPT !.at = "program"]]
          BY <1>7, <4>1 DEF Flushed
        <5>2. [cores[c] EXCEPT !.at = "program"] \in CoreType
              /\ [cores[c] EXCEPT !.at = "program"].left = cores[c].left
          BY DEF CoreType
        <5> QED BY <4>1, <5>1, <5>2
      <4>2. CASE cores[c].at # "drain"
        <5>1. cores' = [cores EXCEPT ![c] = AtRest]
          BY <1>7, <4>2 DEF Flushed
        <5> QED BY <5>1
      <4> QED BY <4>1, <4>2
    <3> QED BY <1>1, <2>1, <3>1, <3>2 DEF CacheTypeOK
  <2>4. RequestOK'
    BY <1>1, <2>1 DEF RequestOK
  <2> QED BY <1>2, <1>3, <2>1, <2>2, <2>3, <2>4 DEF CacheInv
<1>8. ASSUME NEW c \in CoreIds, FlushTimeout(c)
      PROVE  CacheInv'
  <2>1. CacheTypeOK' /\ RequestOK'
    BY <1>1, <1>8 DEF FlushTimeout, CacheTypeOK, RequestOK
  <2>2. UNCHANGED <<sectors, pages, last, possible, held_ptr, gates>>
    BY <1>8 DEF FlushTimeout
  <2> QED BY <1>2, <1>3, <1>4, <2>1, <2>2 DEF CacheInv
<1>9. CASE LazyCommit \/ InitCore1
  <2>1. /\ UNCHANGED <<sectors, pages, turn, cores, held_ptr, last, possible, covered, blocks, cacheLosses>>
        /\ gates' \in [available : BOOLEAN, lockedOut : BOOLEAN, dirty : Nat]
        /\ gates'.dirty = gates.dirty
        /\ gates'.available \/ gates'.available = gates.available
        /\ turn = 0
    BY <1>9 DEF LazyCommit, InitCore1
  <2>2. CacheTypeOK' /\ RequestOK'
    BY <1>1, <2>1 DEF CacheTypeOK, RequestOK
  <2> QED BY <1>2, <1>3, <1>4, <2>1, <2>2 DEF CacheInv
<1>10. CASE TaskStarts \/ TaskEnds
  <2>1. /\ UNCHANGED <<sectors, pages, cores, held_ptr, last, possible, covered, blocks, cacheLosses>>
        /\ turn' \in {0, 1}
        /\ \/ turn' = 1 /\ gates.available /\ UNCHANGED gates
           \/ /\ turn' = 0 /\ gates.available
              /\ gates' = [gates EXCEPT !.available = (gates.available /\ gates.dirty > 0)]
    BY <1>1, <1>10, PageCacheAssumption DEF TaskStarts, TaskEnds, Withdrawn, RequestOK
  <2>2. /\ gates' \in [available : BOOLEAN, lockedOut : BOOLEAN, dirty : Nat]
        /\ gates'.dirty = gates.dirty /\ (turn' # 0 => gates'.available)
        /\ ~gates'.available => gates.dirty = 0
    <3>1. CASE turn' = 1 /\ gates.available /\ UNCHANGED gates
      BY <3>1
    <3>2. CASE /\ turn' = 0 /\ gates.available
               /\ gates' = [gates EXCEPT !.available = (gates.available /\ gates.dirty > 0)]
      <4>1. CASE gates.dirty > 0
        <5>1. gates' = [gates EXCEPT !.available = TRUE]
          BY <3>2, <4>1
        <5> QED BY <3>2, <5>1
      <4>2. CASE gates.dirty = 0
        <5>0. (gates.available /\ gates.dirty > 0) = FALSE
          BY <4>2
        <5>1. gates' = [gates EXCEPT !.available = FALSE]
          BY <3>2, <5>0, Zenon
        <5> QED BY <3>2, <4>2, <5>1
      <4> QED BY <4>1, <4>2
    <3> QED BY <2>1, <3>1, <3>2
  <2>3. CacheTypeOK'
    BY <1>1, <2>1, <2>2, PageCacheAssumption DEF CacheTypeOK
  <2>4. RequestOK'
    BY <2>1, <2>2, CleanFlash DEF RequestOK
  <2> QED BY <1>2, <1>3, <1>4, <2>1, <2>2, <2>3, <2>4 DEF CacheInv
<1>11. CASE TaskPage
  <2>1. PICK r \in Pages : r = turn
    BY <1>11 DEF TaskPage
  <2>2. CASE Written(r, TRUE) \/ Written(r, FALSE)
    BY <2>2, WrittenInv
  <2>3. CASE UNCHANGED <<sectors, pages, gates>>
    <3>1. CacheTypeOK' /\ RequestOK'
      BY <1>1, <1>11, <2>3 DEF TaskPage, CacheTypeOK, RequestOK, Pages
    <3>2. UNCHANGED <<last, possible, held_ptr>>
      BY <1>11 DEF TaskPage
    <3> QED BY <1>2, <1>3, <1>4, <2>3, <3>1, <3>2 DEF CacheInv
  <2>4. Written(r, TRUE) \/ Written(r, FALSE) \/ UNCHANGED <<sectors, pages, gates>>
    BY <1>11, <2>1 DEF TaskPage, Written
  <2> QED BY <2>2, <2>3, <2>4
<1>12. ASSUME NEW a \in Addresses, FlashRead(a)
      PROVE  CacheInv'
  <2>1. /\ UNCHANGED <<sectors, pages, gates, turn, cores, last, possible, covered, blocks, cacheLosses>>
        /\ held_ptr' = [page |-> IF PagesOf(a[1]) = {} THEN 0 ELSE FirstOf(PagesOf(a[1])), addr |-> a]
    BY <1>12 DEF FlashRead
  <2>2. PICK s \in FlashSectors, o \in Offsets : a = <<s, o>> /\ s = a[1] /\ o = a[2]
    BY AddressFacts
  <2>3. CASE PagesOf(s) = {}
    <3>1. held_ptr' = [page |-> 0, addr |-> a]
      BY <2>1, <2>2, <2>3
    <3>2. sectors[s][o] = last[a]
      BY <1>1, <2>2, <2>3 DEF SectorsOK, PagesOf
    <3>3. CacheTypeOK' /\ RequestOK'
      BY <1>1, <2>1, <3>1 DEF CacheTypeOK, RequestOK
    <3>4. PointerOK'
      BY <2>1, <2>2, <3>1, <3>2 DEF PointerOK, Pointed
    <3> QED BY <1>2, <1>4, <2>1, <3>3, <3>4 DEF CacheInv
  <2>4. CASE PagesOf(s) # {}
    <3>1. PICK r : r = FirstOf(PagesOf(s))
      OBVIOUS
    <3>2. r \in PagesOf(s)
      <4>1. PagesOf(s) \subseteq Nat
        BY DEF PagesOf, Pages
      <4> QED BY <2>4, <3>1, <4>1, LeastNatural
    <3>3. r \in Pages /\ r \in 1..NPages /\ pages[r].page[o] = last[a]
      BY <1>1, <2>2, <3>2 DEF PagesOf, PagesOK, Pages
    <3>4. held_ptr' = [page |-> r, addr |-> a]
      BY <2>1, <2>2, <2>4, <3>1
    <3>5. CacheTypeOK' /\ RequestOK'
      BY <1>1, <2>1, <3>3, <3>4 DEF CacheTypeOK, RequestOK
    <3>6. PointerOK'
      BY <2>1, <2>2, <3>3, <3>4 DEF PointerOK, Pointed
    <3> QED BY <1>2, <1>4, <2>1, <3>5, <3>6 DEF CacheInv
  <2> QED BY <2>3, <2>4
<1>13. CASE CachePowerLoss
  <2>1. sectors' \in [FlashSectors -> Words]
    <3>1. CASE UNCHANGED sectors
      BY <3>1
    <3>2. CASE ~UNCHANGED sectors
      <4>1. PICK n \in 0..(NOffsets - 1) :
              sectors' = [sectors EXCEPT ![pages[turn].address] =
                           [o \in Offsets |-> IF o <= n THEN pages[turn].page[o] ELSE Erased]]
        BY <1>13, <3>2 DEF CachePowerLoss
      <4>2. pages[turn] \in PageType
        BY <1>13, <3>2 DEF CachePowerLoss
      <4>3. [o \in Offsets |-> IF o <= n THEN pages[turn].page[o] ELSE Erased] \in Words
        BY <4>2 DEF Words, PageType, Erased
      <4> QED BY <4>1, <4>3
    <3> QED BY <3>1, <3>2
  <2>2. EmptyPage \in PageType
    BY DEF EmptyPage, PageType, Words, Erased
  <2>3. /\ pages' = [r \in Pages |-> EmptyPage]
        /\ gates' = [available |-> FALSE, lockedOut |-> FALSE, dirty |-> 0]
        /\ turn' = 0 /\ cores' = [c \in CoreIds |-> AtRest] /\ held_ptr' = NoPointer
        /\ last' = [a \in Addresses |-> sectors'[a[1]][a[2]]]
        /\ possible' = [a \in Addresses |-> {last'[a]}]
        /\ covered' = {} /\ UNCHANGED blocks
        /\ cacheLosses < MaxCacheLosses /\ cacheLosses' = cacheLosses + 1
    BY <1>13 DEF CachePowerLoss
  <2>4. last' \in [Addresses -> Nat]
    BY <2>1, <2>3, AddressFacts DEF Words
  <2>5. CacheTypeOK'
    <3>1. possible' \in [Addresses -> SUBSET Nat]
      BY <2>3, <2>4
    <3>2. cacheLosses' \in 0..MaxCacheLosses
      BY <1>1, <2>3, PageCacheAssumption DEF CacheTypeOK
    <3> QED BY <1>1, <2>1, <2>2, <2>3, <2>4, <3>1, <3>2 DEF CacheTypeOK
  <2>6. \A r \in Pages : ~pages'[r].ready
    BY <2>3 DEF EmptyPage
  <2>7. \A s \in FlashSectors, o \in Offsets :
          last'[<<s, o>>] = sectors'[s][o] /\ possible'[<<s, o>>] = {sectors'[s][o]}
    BY <2>3, AddressFacts
  <2>8. PagesOK' /\ SectorsOK' /\ PossibleOK'
    BY <2>6, <2>7 DEF PagesOK, SectorsOK, PossibleOK
  <2>9. DirtyOK'
    <3>1. {r \in Pages : pages'[r].ready} = {}
      BY <2>6
    <3> QED BY <2>3, <3>1, FS_EmptySet DEF DirtyOK
  <2>10. RequestOK' /\ PointerOK'
    BY <2>3 DEF RequestOK, PointerOK
  <2> QED BY <2>5, <2>8, <2>9, <2>10 DEF CacheInv
<1>14. CASE UNCHANGED cacheVars
  <2>1. CacheTypeOK' /\ RequestOK'
    BY <1>1, <1>14 DEF cacheVars, CacheTypeOK, RequestOK
  <2> QED BY <1>2, <1>3, <1>4, <1>14, <2>1 DEF cacheVars, CacheInv
<1> QED BY <1>5, <1>6, <1>7, <1>8, <1>9, <1>10, <1>11, <1>12, <1>13, <1>14, ChunkInv DEF PageCacheNext

-----------------------------------------------------------------------------
(* Theorems *)

\* The inductive invariant holds in every reachable state of low_flash.c.
THEOREM CacheInvariant == PageCacheSpec => []CacheInv
BY InitCacheInv, NextCacheInv, PTL DEF PageCacheSpec

\* flash_commit_sync keeps its word: what it confirmed is in flash at every moment after.
THEOREM SyncedHolds == PageCacheSpec => []SyncedIsInFlash
<1>1. ASSUME CacheInv PROVE SyncedIsInFlash
  BY <1>1, AddressFacts DEF CacheInv, PossibleOK, SyncedIsInFlash
<1> QED BY <1>1, CacheInvariant, PTL

\* flash_read and flash_read_block show what was programmed last, wherever the sector is.
THEOREM ReadersHold == PageCacheSpec => []ReadersSeeLastWrite
<1>1. ASSUME CacheInv PROVE ReadersSeeLastWrite
  <2>1. ASSUME NEW a \in Addresses PROVE ReadAt(a) = last[a]
    <3>1. PICK s \in FlashSectors, o \in Offsets : a = <<s, o>> /\ s = a[1] /\ o = a[2]
      BY AddressFacts
    <3>2. CASE PagesOf(s) = {}
      BY <1>1, <3>1, <3>2 DEF ReadAt, CacheInv, SectorsOK, PagesOf
    <3>3. CASE PagesOf(s) # {}
      <4>1. PagesOf(s) \subseteq Nat
        BY <1>1, InvFacts DEF PagesOf, Pages
      <4>2. FirstOf(PagesOf(s)) \in PagesOf(s)
        BY <3>3, <4>1, LeastNatural
      <4> QED BY <1>1, <3>1, <3>3, <4>2 DEF ReadAt, CacheInv, PagesOK, PagesOf
    <3> QED BY <3>2, <3>3
  <2> QED BY <1>1, <2>1 DEF CacheInv, PointerOK, ReadersSeeLastWrite
<1> QED BY <1>1, CacheInvariant, PTL

-----------------------------------------------------------------------------
(* The file records: the inductive invariant *)

\* Cells, and the locals of an operation.
CellType == [next : 0..EndPool, prev : 0..EndPool, fid : Fids \cup {NoFid}, val : Vals \cup {NoVal}]
ChainOpType ==
  [kind : {"none", "write", "undo", "delete"}, fid : Fids \cup {NoFid}, val : Vals \cup {NoVal},
   new : 0..EndPool, base : 0..EndPool, target : 0..EndPool, next : 0..EndPool, prev : 0..EndPool]

\* Links run down and back links run up, in every cell there is.
Downward(m) == \A a \in Cells : m[a].next < a /\ (m[a].prev = 0 \/ m[a].prev > a)

\* Types, and the direction of all links.
ChainTypes ==
  /\ ram \in [Cells -> CellType] /\ disk \in [Cells -> CellType]
  /\ Downward(ram) /\ Downward(disk)
  /\ table \in [Fids -> 0..(EndPool - 1)]
  /\ op \in ChainOpType
  /\ stored \in [Fids -> Vals \cup {NoVal}] /\ touched \subseteq Fids /\ cleared \in BOOLEAN
  /\ ops \in 0..MaxOps /\ crashes \in 0..MaxCrashes /\ giveUps \in 0..MaxGiveUps

\* A record is being written, cleared, or cleared and off the chain.
Writing  == pc \in {"back_link", "fill", "sync", "publish"}
Clearing == pc \in {"unlink", "zero", "relink", "wipe"}
Unlinked == pc \in {"zero", "relink", "wipe"}

\* A new record waits below its base, in room that the chain passes over.
Waits(m, base, new) ==
  /\ base \in Chain(m) /\ new = base - 1 /\ new \in Cells
  /\ m[new].next = m[base].next /\ m[base].next < new /\ m[new].prev = base

\* The locals of the operation under way.
OpOK ==
  /\ pc \in {"idle"} \cup {"back_link", "fill", "sync", "publish"} \cup {"unlink", "zero", "relink", "wipe"}
  /\ pc = "idle" <=> op.kind = "none"
  /\ pc # "idle" => op.fid \in Fids
  /\ Writing => op.kind = "write" /\ op.val \in Vals
  /\ (Writing \/ op.kind = "undo") => Waits(ram, op.base, op.new)
  /\ op.kind = "undo" => op.target = op.new
  /\ Clearing => op.target \in Cells /\ op.target < EndPool
  /\ Clearing /\ op.kind = "write" => op.new \in Cells /\ op.new < EndPool
  /\ Unlinked => op.next < op.target /\ (op.prev = 0 \/ op.prev > op.target)
  /\ Unlinked /\ op.kind = "undo" => op.prev = op.base /\ op.next = ram[op.new].next
  /\ pc = "publish" /\ Sector(op.base) # Sector(op.new) => ram = disk

\* The cells of the files.
TableCells(t) == {t[f] : f \in Fids} \ {0}

\* What is on the chain besides its head: the cells of the files, until the old record of
\* an operation is unlinked and besides the new one once that is published.
OnChain ==
  LET files == TableCells(table) IN
  CASE op.kind = "write" /\ pc = "unlink"  -> files \cup {op.new}
    [] op.kind = "write" /\ Unlinked       -> (files \ {op.target}) \cup {op.new}
    [] op.kind = "delete" /\ Unlinked      -> files \ {op.target}
    [] OTHER                               -> files

\* The chain holds the records it should, and each says whose it is.
FilesOK ==
  /\ \A f \in Fids : table[f] # 0 => ram[table[f]].fid = f
  /\ Chain(ram) \ {EndPool} = OnChain
  /\ Clearing /\ op.kind # "undo" => op.target = table[op.fid]
  /\ Clearing /\ op.kind = "write" => op.new # op.target
  /\ pc \in {"sync", "publish"} \/ (Clearing /\ op.kind = "write") => ram[op.new].fid = op.fid

\* The cell whose successor does not name it, and the one it names instead.
OddCell == IF pc \in {"fill", "sync", "publish"} \/ (pc = "unlink" /\ op.kind = "undo") THEN op.base
           ELSE IF pc \in {"zero", "relink"} THEN op.prev ELSE 0
OddBack == IF pc \in {"zero", "relink"} THEN op.target ELSE op.new

\* The chain is linked both ways but for that cell.
LinksOK ==
  /\ \A a \in Chain(ram) : ram[a].next # 0 =>
       ram[ram[a].next].prev = IF a = OddCell THEN OddBack ELSE a
  /\ pc \in {"zero", "relink"} => op.prev \in Chain(ram) /\ ram[op.prev].next = op.next

\* A cell whose copy d[a] in flash can take its place: it links to a later record and passes over
\* none but those of touched files.
Kept(m, d, changed, a) ==
  /\ d[a].fid = m[a].fid
  /\ d[a].next \in Chain(m) \cup {0} /\ d[a].next <= m[a].next
  /\ \A b \in Chain(m) : d[a].next < b /\ b < a => m[b].fid \in changed
  /\ m[a].fid \in Fids \ changed => d[a].val = m[a].val

\* A boot walks within the set S of such cells: their copies lead to none but themselves, and so
\* do the links that may reach flash without the record they lead to.
Backed(m, d, changed, S) ==
  /\ S \subseteq Chain(m) /\ EndPool \in S
  /\ \A a \in S : Kept(m, d, changed, a) /\ (d[a].next # 0 => d[a].next \in S)
  /\ \A a \in Chain(m) : m[a].next \in Chain(m) \ S => Sector(a) = Sector(m[a].next)

\* What flash holds will do, and files that are not touched are as they were stored.
DiskOK ==
  /\ \E S \in SUBSET Cells : Backed(ram, disk, touched, S)
  /\ \A f \in Fids \ touched : stored[f] = Contents(ram, table)[f]
  /\ pc # "idle" => op.fid \in touched
  /\ op.kind # "delete" /\ (Clearing => op.kind = "undo")
  /\ op.kind = "write" => table[op.fid] = 0

\* After a power loss back links may be stale, which matters once a record is cleared.
ChainInv ==
  /\ ChainTypes /\ OpOK
  /\ crashes = 0 \/ ~cleared => FilesOK
  /\ crashes = 0 => LinksOK
  /\ ~cleared => DiskOK

-----------------------------------------------------------------------------
(* The chain *)

\* Every set of cells that is not empty has a highest one.
LEMMA HighestCell ==
  ASSUME NEW T, T \subseteq Cells, T # {}
  PROVE  \E x \in T : \A y \in T : y <= x
<1> DEFINE U == {EndPool - y : y \in T}
<1>0. PICK z \in T : TRUE
  OBVIOUS
<1>a. EndPool - z \in U
  OBVIOUS
<1>b. \A y \in T : EndPool - y \in Nat
  BY FlashChainAssumption DEF Cells
<1>1. U \subseteq Nat /\ U # {}
  BY <1>a, <1>b
<1>2. PICK u \in U : \A v \in U : u <= v
  BY <1>1, LeastNumber
<1>3. PICK x \in T : u = EndPool - x
  BY <1>2
<1>4. \A y \in T : EndPool - x <= EndPool - y
  BY <1>2, <1>3
<1> QED BY <1>3, <1>4, FlashChainAssumption DEF Cells

\* Cells with all links in the right direction.
Links(m) == m \in [Cells -> CellType] /\ Downward(m)

\* What types and directions say of one cell.
LEMMA LinkFacts ==
  ASSUME NEW m, Links(m), NEW a \in Cells
  PROVE  /\ a \in Nat /\ a # 0 /\ a <= EndPool /\ EndPool \in Nat /\ EndPool \in Cells
         /\ m[a].next \in Nat /\ m[a].next < a
         /\ m[a].next # 0 => m[a].next \in Cells
         /\ m[a].prev \in Nat /\ (m[a].prev = 0 \/ m[a].prev > a)
         /\ m[a].prev # 0 => m[a].prev \in Cells
         /\ m[a].fid \in Fids \cup {NoFid} /\ m[a].val \in Vals \cup {NoVal}
BY FlashChainAssumption DEF Links, Downward, Cells, CellType

\* The chain is closed under the links, ...
LEMMA ChainCloses ==
  ASSUME NEW m, Links(m)
  PROVE  /\ Chain(m) \subseteq Cells /\ EndPool \in Chain(m)
         /\ \A a \in Chain(m) : m[a].next # 0 => m[a].next \in Chain(m)
<1>1. Chain(m) \subseteq Cells
  BY DEF Chain
<1>2. EndPool \in Cells
  BY FlashChainAssumption DEF Cells
<1>3. EndPool \in Chain(m)
  BY <1>2 DEF Chain
<1>4. ASSUME NEW a \in Chain(m), m[a].next # 0
      PROVE  m[a].next \in Chain(m)
  <2> DEFINE n == m[a].next
  <2>1. a \in Cells /\ n \in Cells /\ n < a /\ n \in Nat /\ a \in Nat
    BY <1>1, <1>4, LinkFacts
  <2>2. ASSUME NEW S \in SUBSET (Cells \ {n}), EndPool \in S, Follows(m, S)
        PROVE  FALSE
    <3>1. a \notin S
      BY <2>1, <2>2, <1>4 DEF Follows
    <3>2. S \in SUBSET (Cells \ {a})
      BY <3>1
    <3> QED BY <3>2, <2>2, <1>4 DEF Chain
  <2> QED BY <2>1, <2>2 DEF Chain
<1> QED BY <1>1, <1>3, <1>4

\* ... and it is the smallest set with its head that is.
LEMMA ChainLeast ==
  ASSUME NEW m, Links(m), NEW S, S \subseteq Cells, EndPool \in S,
         \A a \in S : m[a].next # 0 => m[a].next \in S
  PROVE  Chain(m) \subseteq S
<1>1. Follows(m, S)
  BY DEF Follows
<1> SUFFICES ASSUME NEW a \in Chain(m), a \notin S PROVE FALSE
  OBVIOUS
<1>2. S \in SUBSET (Cells \ {a})
  OBVIOUS
<1> QED BY <1>1, <1>2 DEF Chain

\* Every record on the chain has a predecessor there.
LEMMA ChainPred ==
  ASSUME NEW m, Links(m), NEW c \in Chain(m), c # EndPool
  PROVE  \E p \in Chain(m) : m[p].next = c
<1> SUFFICES ASSUME \A p \in Chain(m) : m[p].next # c PROVE FALSE
  OBVIOUS
<1> DEFINE S == Chain(m) \ {c}
<1>1. S \subseteq Cells /\ EndPool \in S
  BY ChainCloses
<1>2. \A a \in S : m[a].next # 0 => m[a].next \in S
  BY ChainCloses
<1>3. Chain(m) \subseteq S
  BY <1>1, <1>2, ChainLeast, Zenon
<1> QED BY <1>3

\* No record of the chain lies between one and its successor.
LEMMA ChainGap ==
  ASSUME NEW m, Links(m), NEW a \in Chain(m), NEW c \in Chain(m), m[a].next < c, c < a
  PROVE  FALSE
<1> DEFINE T == {x \in Chain(m) : \E y \in Chain(m) : m[y].next < x /\ x < y}
<1>1. T \subseteq Cells /\ T # {}
  BY ChainCloses
<1> HIDE DEF T
<1>2. PICK x \in T : \A z \in T : z <= x
  BY <1>1, HighestCell
<1>3. x \in Chain(m)
  BY <1>2 DEF T
<1>4. PICK y \in Chain(m) : m[y].next < x /\ x < y
  BY <1>2 DEF T
<1>5. x \in Cells /\ y \in Cells
  BY <1>3, <1>4, ChainCloses
<1>6. x \in Nat /\ y \in Nat /\ y <= EndPool /\ m[y].next \in Nat /\ EndPool \in Nat
  BY <1>5, LinkFacts
<1>7. x # EndPool
  BY <1>4, <1>6
<1>8. PICK p \in Chain(m) : m[p].next = x
  BY <1>3, <1>7, ChainPred
<1>9. p \in Cells
  BY <1>8, ChainCloses
<1>10. p \in Nat /\ x < p
  BY <1>8, <1>9, LinkFacts
<1>11. CASE p = y
  BY <1>11, <1>4, <1>8, <1>6
<1>12. CASE p < y
  <2>1. m[y].next < p
    BY <1>4, <1>6, <1>10
  <2>2. p \in T
    BY <2>1, <1>12, <1>8, <1>4 DEF T
  <2> QED BY <2>2, <1>2, <1>10, <1>6
<1>13. CASE y < p
  <2>1. m[p].next < y
    BY <1>4, <1>8
  <2>2. y \in T
    BY <2>1, <1>13, <1>8, <1>4 DEF T
  <2> QED BY <2>2, <1>2, <1>4, <1>6
<1> QED BY <1>11, <1>12, <1>13, <1>10, <1>6

\* A record has one predecessor.
LEMMA ChainPredUnique ==
  ASSUME NEW m, Links(m), NEW p \in Chain(m), NEW q \in Chain(m),
         m[p].next = m[q].next, m[p].next # 0
  PROVE  p = q
<1>1. p \in Cells /\ q \in Cells
  BY ChainCloses
<1>2. p \in Nat /\ q \in Nat /\ m[p].next < p /\ m[q].next < q /\ m[p].next \in Nat
  BY <1>1, LinkFacts
<1>3. ~(p < q) /\ ~(q < p)
  BY <1>2, ChainGap
<1> QED BY <1>2, <1>3

\* Cells that are not on the chain, and what is not a link, do not matter to it.
LEMMA ChainSame ==
  ASSUME NEW m, Links(m), NEW k, Links(k), \A a \in Chain(m) : k[a].next = m[a].next
  PROVE  Chain(k) = Chain(m)
<1>1. Chain(m) \subseteq Cells /\ EndPool \in Chain(m)
      /\ \A a \in Chain(m) : k[a].next # 0 => k[a].next \in Chain(m)
  BY ChainCloses
<1>2. Chain(k) \subseteq Chain(m)
  BY <1>1, ChainLeast
<1>3. Chain(k) \subseteq Cells /\ EndPool \in Chain(k)
      /\ \A a \in Chain(k) : k[a].next # 0 => k[a].next \in Chain(k)
  BY ChainCloses
<1>4. \A a \in Chain(k) : m[a].next # 0 => m[a].next \in Chain(k)
  BY <1>2, <1>3
<1>5. Chain(m) \subseteq Chain(k)
  BY <1>3, <1>4, ChainLeast
<1> QED BY <1>2, <1>5

\* A record that takes over the link of its predecessor joins the chain.
LEMMA ChainInsert ==
  ASSUME NEW m, Links(m), NEW k, Links(k), NEW b \in Chain(m), NEW n \in Cells, n \notin Chain(m),
         k[b].next = n, k[n].next = m[b].next,
         \A a \in Chain(m) \ {b} : k[a].next = m[a].next
  PROVE  Chain(k) = Chain(m) \cup {n}
<1>1. /\ Chain(m) \subseteq Cells /\ EndPool \in Chain(m)
      /\ \A a \in Chain(m) : m[a].next # 0 => m[a].next \in Chain(m)
  BY ChainCloses
<1>2. /\ Chain(k) \subseteq Cells /\ EndPool \in Chain(k)
      /\ \A a \in Chain(k) : k[a].next # 0 => k[a].next \in Chain(k)
  BY ChainCloses
<1>3. \A a \in Chain(m) \cup {n} : k[a].next # 0 => k[a].next \in Chain(m) \cup {n}
  BY <1>1
<1>4. Chain(k) \subseteq Chain(m) \cup {n}
  <2>1. Chain(m) \cup {n} \subseteq Cells /\ EndPool \in Chain(m) \cup {n}
    BY <1>1
  <2> QED BY <2>1, <1>3, ChainLeast
<1> DEFINE S == Chain(k) \ {n}
<1>5. n # 0
  BY FlashChainAssumption DEF Cells
<1>6. ASSUME NEW a \in S, m[a].next # 0
      PROVE  m[a].next \in S
  <2>1. a \in Chain(m) /\ a \in Chain(k)
    BY <1>4
  <2>2. m[a].next \in Chain(m)
    BY <2>1, <1>6, <1>1
  <2>3. m[a].next # n
    BY <2>2
  <2>4. CASE a = b
    <3>1. n \in Chain(k)
      BY <2>1, <2>4, <1>2, <1>5
    <3>2. m[b].next \in Chain(k)
      BY <3>1, <2>4, <1>6, <1>2
    <3> QED BY <3>2, <2>3, <2>4
  <2>5. CASE a # b
    BY <2>1, <2>3, <2>5, <1>2, <1>6
  <2> QED BY <2>4, <2>5
<1>7. S \subseteq Cells /\ EndPool \in S
  BY <1>1, <1>2
<1>8. Chain(m) \subseteq S
  BY <1>6, <1>7, ChainLeast, Zenon
<1>9. n \in Chain(k)
  BY <1>8, <1>2, <1>5
<1> QED BY <1>4, <1>8, <1>9

\* A record whose predecessor takes over its link leaves the chain.
LEMMA ChainRemove ==
  ASSUME NEW m, Links(m), NEW k, Links(k), NEW p \in Chain(m), NEW t,
         m[p].next = t, t # 0, k[p].next = m[t].next,
         \A a \in Chain(m) \ {p, t} : k[a].next = m[a].next
  PROVE  Chain(k) = Chain(m) \ {t}
<1>1. /\ Chain(m) \subseteq Cells /\ EndPool \in Chain(m)
      /\ \A a \in Chain(m) : m[a].next # 0 => m[a].next \in Chain(m)
  BY ChainCloses
<1>2. /\ Chain(k) \subseteq Cells /\ EndPool \in Chain(k)
      /\ \A a \in Chain(k) : k[a].next # 0 => k[a].next \in Chain(k)
  BY ChainCloses
<1>3. t \in Chain(m) /\ t \in Cells /\ p \in Cells
  BY <1>1
<1>4. t < p /\ m[t].next < t /\ t \in Nat /\ p \in Nat /\ p <= EndPool /\ EndPool \in Nat
      /\ m[t].next \in Nat
  BY <1>3, LinkFacts
<1> DEFINE R == Chain(m) \ {t}
<1>5. R \subseteq Cells /\ EndPool \in R /\ p \in R
  BY <1>1, <1>4
<1>6. ASSUME NEW a \in R, k[a].next # 0
      PROVE  k[a].next \in R
  <2>1. CASE a = p
    BY <2>1, <1>6, <1>1, <1>3, <1>4
  <2>2. CASE a # p
    <3>1. k[a].next = m[a].next /\ a \in Chain(m)
      BY <2>2
    <3>2. m[a].next # t
      BY <3>1, <2>2, ChainPredUnique
    <3> QED BY <3>1, <3>2, <1>6, <1>1
  <2> QED BY <2>1, <2>2
<1>7. Chain(k) \subseteq R
  BY <1>5, <1>6, ChainLeast, Zenon
<1> DEFINE S == Chain(k) \cup {x \in {t} : p \in Chain(k)}
<1>8. S \subseteq Cells /\ EndPool \in S
  BY <1>2, <1>3
<1>9. ASSUME NEW a \in S, m[a].next # 0
      PROVE  m[a].next \in S
  <2>1. CASE a = p /\ p \in Chain(k)
    BY <2>1
  <2>2. CASE a = t /\ p \in Chain(k)
    BY <2>2, <1>2, <1>9
  <2>3. CASE a \in Chain(k) /\ a # p
    <3>1. a \in R
      BY <2>3, <1>7
    <3>2. k[a].next = m[a].next
      BY <3>1, <2>3
    <3> QED BY <3>2, <2>3, <1>2, <1>9
  <2> QED BY <2>1, <2>2, <2>3
<1>10. Chain(m) \subseteq S
  BY <1>8, <1>9, ChainLeast, Zenon
<1> QED BY <1>7, <1>10

\* A walk that never passes over c meets c.
LEMMA ChainMeets ==
  ASSUME NEW d, Links(d), NEW c \in Cells, \A a \in Chain(d) : a > c => d[a].next >= c
  PROVE  c \in Chain(d)
<1> SUFFICES ASSUME c \notin Chain(d) PROVE FALSE
  OBVIOUS
<1>1. /\ Chain(d) \subseteq Cells /\ EndPool \in Chain(d)
      /\ \A a \in Chain(d) : d[a].next # 0 => d[a].next \in Chain(d)
  BY ChainCloses
<1> DEFINE T == {a \in Chain(d) : a > c}
<1>2. EndPool \in T
  BY <1>1, LinkFacts
<1>3. T \subseteq Nat /\ T # {}
  BY <1>1, <1>2 DEF Cells
<1> HIDE DEF T
<1>4. PICK x \in T : \A y \in T : x <= y
  BY <1>3, LeastNumber
<1>5. x \in Chain(d) /\ x > c /\ x \in Cells
  BY <1>4, <1>1 DEF T
<1>6. d[x].next \in Nat /\ d[x].next < x /\ c \in Nat /\ c # 0 /\ d[x].next >= c /\ x \in Nat
  BY <1>5, LinkFacts
<1>7. d[x].next \in Chain(d)
  BY <1>5, <1>6, <1>1
<1>8. d[x].next > c
  BY <1>6, <1>7
<1>9. d[x].next \in T
  BY <1>7, <1>8 DEF T
<1> QED BY <1>9, <1>4, <1>6

\* Boot finds a record of the file on the chain, if there is one.
LEMMA ScanFacts ==
  ASSUME NEW d, Links(d)
  PROVE  /\ scan(d) \in [Fids -> 0..(EndPool - 1)]
         /\ \A f \in Fids : scan(d)[f] # 0 =>
              scan(d)[f] \in Chain(d) \ {EndPool} /\ d[scan(d)[f]].fid = f
         /\ \A f \in Fids : \A a \in Chain(d) \ {EndPool} : d[a].fid = f => scan(d)[f] # 0
<1> DEFINE found(f) == {a \in Chain(d) \ {EndPool} : d[a].fid = f}
<1>1. scan(d) = [f \in Fids |-> IF found(f) = {} THEN 0
                                ELSE CHOOSE a \in found(f) : \A b \in found(f) : a <= b]
  BY DEF scan
<1>2. Chain(d) \subseteq Cells
  BY ChainCloses
<1>3. \A a \in Chain(d) \ {EndPool} : a \in 1..(EndPool - 1) /\ a # 0
  BY <1>2, FlashChainAssumption DEF Cells
<1>4. ASSUME NEW f \in Fids, found(f) # {}
      PROVE  scan(d)[f] \in found(f)
  <2>1. found(f) \subseteq Nat
    BY <1>3
  <2>2. \E x \in found(f) : \A y \in found(f) : x <= y
    BY <2>1, <1>4, LeastNumber
  <2>3. scan(d)[f] = CHOOSE a \in found(f) : \A b \in found(f) : a <= b
    BY <1>1, <1>4
  <2> HIDE DEF found
  <2> QED BY <2>2, <2>3, Zenon
<1>5. \A f \in Fids : found(f) = {} => scan(d)[f] = 0
  BY <1>1
<1>6. ASSUME NEW f \in Fids
      PROVE  /\ scan(d)[f] \in 0..(EndPool - 1)
             /\ scan(d)[f] # 0 => scan(d)[f] \in Chain(d) \ {EndPool} /\ d[scan(d)[f]].fid = f
             /\ \A a \in Chain(d) \ {EndPool} : d[a].fid = f => scan(d)[f] # 0
  <2>1. CASE found(f) = {}
    BY <2>1, <1>5, FlashChainAssumption
  <2>2. CASE found(f) # {}
    BY <2>2, <1>4, <1>3, FlashChainAssumption
  <2> QED BY <2>1, <2>2
<1>7. scan(d) = [f \in Fids |-> scan(d)[f]]
  BY <1>1
<1> HIDE DEF found
<1> QED BY <1>6, <1>7

\* Sectors follow each other.
LEMMA SectorBetween ==
  ASSUME NEW a \in Cells, NEW b \in Cells, NEW c \in Cells, a <= b, b <= c, Sector(a) = Sector(c)
  PROVE  Sector(a) = Sector(b)
<1> DEFINE P == PerSector
<1>1. P \in Nat /\ P > 0 /\ a \in Nat /\ b \in Nat /\ c \in Nat
  BY FlashChainAssumption DEF Cells
<1>2. \A x \in Nat : /\ x \div P \in Nat /\ x % P \in Nat /\ x % P < P
                     /\ x = P * (x \div P) + (x % P)
  BY <1>1
<1> QED BY <1>1, <1>2 DEF Sector

\* allocate_free_addr takes a base with room below it.
LEMMA BaseFacts ==
  ASSUME Links(ram), Gaps # {}
  PROVE  /\ TheBase \in Chain(ram) /\ TheBase \in Cells /\ TheBase - 1 \in Cells
         /\ TheBase - 1 < EndPool /\ ram[TheBase].next < TheBase - 1
         /\ TheBase - 1 \notin Chain(ram)
<1>1. Gaps \subseteq Cells
  BY ChainCloses DEF Gaps
<1>2. \E x \in Gaps : \A y \in Gaps : y <= x
  BY <1>1, HighestCell
<1>3. TheBase \in Gaps
  BY <1>2, Zenon DEF TheBase
<1>4. TheBase \in Chain(ram) /\ TheBase \in Cells /\ ram[TheBase].next + 1 < TheBase
  BY <1>1, <1>3 DEF Gaps
<1>5. ram[TheBase].next \in Nat /\ TheBase \in Nat /\ TheBase <= EndPool /\ EndPool \in Nat
  BY <1>4, LinkFacts
<1>6. TheBase - 1 \in Cells /\ TheBase - 1 < EndPool /\ ram[TheBase].next < TheBase - 1
  BY <1>4, <1>5 DEF Cells
<1>7. TheBase - 1 < TheBase
  BY <1>5
<1>8. TheBase - 1 \notin Chain(ram)
  BY <1>4, <1>6, <1>7, ChainGap
<1> QED BY <1>4, <1>6, <1>8

\* A new record that waits is not on the chain yet.
LEMMA WaitsOff ==
  ASSUME NEW m, Links(m), NEW b, NEW n, Waits(m, b, n)
  PROVE  /\ n \notin Chain(m) /\ b \in Cells /\ n \in Cells /\ n < b /\ n < EndPool
         /\ n \in Nat /\ b \in Nat /\ EndPool \in Nat
<1>1. b \in Chain(m) /\ b \in Cells /\ n = b - 1 /\ n \in Cells /\ m[b].next < n
  BY ChainCloses DEF Waits
<1>2. b \in Nat /\ b <= EndPool /\ EndPool \in Nat /\ n \in Nat
  BY <1>1, LinkFacts
<1>3. n < b /\ n < EndPool
  BY <1>1, <1>2
<1>4. n \notin Chain(m)
  BY <1>1, <1>3, ChainGap
<1> QED BY <1>1, <1>2, <1>3, <1>4

-----------------------------------------------------------------------------
(* Cells as they are written. *)

PutVal(m, n, v)        == [m EXCEPT ![n].val = v]
PutLinks(m, n, x, y)   == [m EXCEPT ![n].next = x, ![n].prev = y]
PutPrev(m, n, y)       == [m EXCEPT ![n].prev = y]
PutNext(m, n, x)       == [m EXCEPT ![n].next = x]
PutRecord(m, n, f, v)  == [m EXCEPT ![n].fid = f, ![n].val = v]

\* Writing a payload leaves links and identifiers alone, ...
LEMMA PutValFacts ==
  ASSUME NEW m, Links(m), NEW n \in Cells, NEW v \in Vals \cup {NoVal}
  PROVE  /\ Links(PutVal(m, n, v))
         /\ \A a \in Cells : /\ PutVal(m, n, v)[a].next = m[a].next
                             /\ PutVal(m, n, v)[a].prev = m[a].prev
                             /\ PutVal(m, n, v)[a].fid = m[a].fid
                             /\ a # n => PutVal(m, n, v)[a] = m[a]
BY DEF Links, CellType, Downward, PutVal

\* ... writing a record leaves its links alone, ...
LEMMA PutRecordFacts ==
  ASSUME NEW m, Links(m), NEW n \in Cells, NEW v \in Vals \cup {NoVal}, NEW f \in Fids
  PROVE  /\ Links(PutRecord(m, n, f, v))
         /\ PutRecord(m, n, f, v)[n].fid = f
         /\ \A a \in Cells : /\ PutRecord(m, n, f, v)[a].next = m[a].next
                             /\ PutRecord(m, n, f, v)[a].prev = m[a].prev
                             /\ a # n => PutRecord(m, n, f, v)[a] = m[a]
BY DEF Links, CellType, Downward, PutRecord

\* ... a back link, everything but itself, ...
LEMMA PutPrevFacts ==
  ASSUME NEW m, Links(m), NEW n \in Cells, NEW y \in 0..EndPool, y = 0 \/ y > n
  PROVE  /\ Links(PutPrev(m, n, y))
         /\ PutPrev(m, n, y)[n].prev = y
         /\ \A a \in Cells : /\ PutPrev(m, n, y)[a].next = m[a].next
                             /\ PutPrev(m, n, y)[a].fid = m[a].fid
                             /\ PutPrev(m, n, y)[a].val = m[a].val
                             /\ a # n => PutPrev(m, n, y)[a] = m[a]
BY DEF Links, CellType, Downward, PutPrev

\* ... and so does a link, ...
LEMMA PutNextFacts ==
  ASSUME NEW m, Links(m), NEW n \in Cells, NEW x \in 0..EndPool, x < n
  PROVE  /\ Links(PutNext(m, n, x))
         /\ PutNext(m, n, x)[n].next = x
         /\ \A a \in Cells : /\ PutNext(m, n, x)[a].prev = m[a].prev
                             /\ PutNext(m, n, x)[a].fid = m[a].fid
                             /\ PutNext(m, n, x)[a].val = m[a].val
                             /\ a # n => PutNext(m, n, x)[a] = m[a]
BY DEF Links, CellType, Downward, PutNext

\* ... or both of them.
LEMMA PutLinksFacts ==
  ASSUME NEW m, Links(m), NEW n \in Cells, NEW x \in 0..EndPool, x < n,
         NEW y \in 0..EndPool, y = 0 \/ y > n
  PROVE  /\ Links(PutLinks(m, n, x, y))
         /\ PutLinks(m, n, x, y)[n].next = x /\ PutLinks(m, n, x, y)[n].prev = y
         /\ \A a \in Cells : /\ PutLinks(m, n, x, y)[a].fid = m[a].fid
                             /\ PutLinks(m, n, x, y)[a].val = m[a].val
                             /\ a # n => PutLinks(m, n, x, y)[a] = m[a]
BY DEF Links, CellType, Downward, PutLinks

-----------------------------------------------------------------------------
(* What a boot would find. *)

\* A step that leaves the links and the identifiers on the chain alone, and the payloads there of
\* all files but those it touches.
Quiet(m, k, changed) ==
  \A a \in Chain(m) : /\ k[a].next = m[a].next /\ k[a].fid = m[a].fid
                      /\ m[a].fid \in Fids \ changed => k[a].val = m[a].val

\* A quiet step leaves a boot the same set to walk within.
LEMMA BackedQuiet ==
  ASSUME NEW m, Links(m), NEW k, Links(k), NEW d, NEW S, NEW T, NEW U, T \subseteq U,
         Quiet(m, k, U), Backed(m, d, T, S)
  PROVE  Backed(k, d, U, S)
<1>1. Chain(k) = Chain(m)
  BY ChainSame DEF Quiet
<1>2. ASSUME NEW a \in S
      PROVE  Kept(k, d, U, a)
  <2>1. Kept(m, d, T, a) /\ a \in Chain(m)
    BY DEF Backed
  <2> QED BY <2>1, <1>1 DEF Kept, Quiet
<1> QED BY <1>1, <1>2 DEF Backed, Quiet

\* What is in flash as it is in RAM is walked as it is in RAM.
LEMMA BackedSelf ==
  ASSUME NEW m, Links(m), NEW T
  PROVE  Backed(m, m, T, Chain(m))
<1>1. ASSUME NEW a \in Chain(m)
      PROVE  Kept(m, m, T, a) /\ (m[a].next # 0 => m[a].next \in Chain(m))
  <2>1. a \in Cells
    BY ChainCloses
  <2>2. m[a].next # 0 => m[a].next \in Chain(m)
    BY ChainCloses
  <2>3. m[a].next \in Nat
    BY <2>1, LinkFacts
  <2>4. \A b \in Chain(m) : ~(m[a].next < b /\ b < a)
    BY ChainGap
  <2> QED BY <2>2, <2>3, <2>4 DEF Kept
<1>2. EndPool \in Chain(m)
  BY ChainCloses
<1> QED BY <1>1, <1>2 DEF Backed

\* A sector is written.
SectorWritten(m, d, s) == [a \in Cells |-> IF Sector(a) = s THEN m[a] ELSE d[a]]

\* A sector that is written joins its records to that set.
LEMMA BackedFlush ==
  ASSUME NEW m, Links(m), NEW d, Links(d), NEW T, NEW S, NEW s, Backed(m, d, T, S)
  PROVE  /\ Links(SectorWritten(m, d, s))
         /\ \E U \in SUBSET Cells : Backed(m, SectorWritten(m, d, s), T, U)
<1> DEFINE k == SectorWritten(m, d, s)
<1> DEFINE U == S \cup {a \in Chain(m) : Sector(a) = s}
<1>1. \A a \in Cells : k[a] = IF Sector(a) = s THEN m[a] ELSE d[a]
  BY DEF SectorWritten
<1>2. Links(k)
  BY DEF Links, SectorWritten, Downward
<1>3. /\ Chain(m) \subseteq Cells
      /\ \A a \in Chain(m) : m[a].next # 0 => m[a].next \in Chain(m)
  BY ChainCloses
<1>4. S \subseteq Chain(m) /\ EndPool \in S
  BY DEF Backed
<1>5. ASSUME NEW a \in U
      PROVE  Kept(m, k, T, a) /\ (k[a].next # 0 => k[a].next \in U)
  <2>1. a \in Chain(m) /\ a \in Cells
    BY <1>3, <1>4
  <2>2. CASE Sector(a) = s
    <3>1. k[a] = m[a]
      BY <2>1, <2>2, <1>1
    <3>2. Kept(m, m, T, a)
      BY <2>1, BackedSelf DEF Backed
    <3>3. Kept(m, k, T, a)
      BY <3>1, <3>2 DEF Kept
    <3>4. m[a].next \in Chain(m) \ S => Sector(m[a].next) = s
      BY <2>1, <2>2 DEF Backed
    <3> QED BY <3>1, <3>3, <3>4, <2>1, <1>3
  <2>3. CASE Sector(a) # s
    <3>1. k[a] = d[a] /\ a \in S
      BY <2>1, <2>3, <1>1
    <3>2. Kept(m, d, T, a) /\ (d[a].next # 0 => d[a].next \in S)
      BY <3>1 DEF Backed
    <3> QED BY <3>1, <3>2 DEF Kept
  <2> QED BY <2>2, <2>3
<1>6. \A a \in Chain(m) : m[a].next \in Chain(m) \ U => Sector(a) = Sector(m[a].next)
  BY DEF Backed
<1>7. U \subseteq Chain(m) /\ EndPool \in U /\ U \in SUBSET Cells
  BY <1>3, <1>4
<1> HIDE DEF k, U
<1>8. Backed(m, k, T, U)
  BY <1>5, <1>6, <1>7 DEF Backed
<1> QED BY <1>2, <1>7, <1>8 DEF k

\* A record of a touched file is published, next to its predecessor or in flash before.
LEMMA BackedInsert ==
  ASSUME NEW m, Links(m), NEW k, Links(k), NEW d, Links(d), NEW T, NEW S, Backed(m, d, T, S),
         NEW b, NEW n, Waits(m, b, n), k = PutNext(m, b, n), m[n].fid \in T,
         Sector(b) = Sector(n) \/ d = m
  PROVE  \E U \in SUBSET Cells : Backed(k, d, T, U)
<1>1. /\ b \in Chain(m) /\ n = b - 1 /\ n \in Cells /\ n \notin Chain(m) /\ b \in Cells
      /\ m[n].next = m[b].next /\ m[b].next < n /\ n < b /\ n \in Nat /\ b \in Nat
      /\ m[n].prev = b
  BY WaitsOff DEF Waits
<1>2. n \in 0..EndPool /\ n < b /\ n # 0
  BY <1>1, FlashChainAssumption DEF Cells
<1>3. /\ k[b].next = n /\ k[b].fid = m[b].fid /\ k[b].val = m[b].val
      /\ \A a \in Cells : a # b => k[a] = m[a]
      /\ \A a \in Cells : k[a].fid = m[a].fid /\ k[a].val = m[a].val
  BY <1>1, <1>2, PutNextFacts
<1>4. /\ Chain(m) \subseteq Cells
      /\ \A a \in Chain(m) : m[a].next # 0 => m[a].next \in Chain(m)
  BY ChainCloses
<1>5. Chain(k) = Chain(m) \cup {n}
  BY <1>1, <1>3, <1>4, ChainInsert
<1>6. S \subseteq Chain(m) /\ EndPool \in S
  BY DEF Backed
<1>7. ASSUME NEW a \in S
      PROVE  Kept(k, d, T, a)
  <2>1. Kept(m, d, T, a) /\ a \in Chain(m) /\ a \in Cells
    BY <1>4, <1>6 DEF Backed
  <2>2. d[a].next <= k[a].next
    <3>1. d[a].next <= m[a].next /\ d[a].next \in Nat /\ m[a].next \in Nat
      BY <2>1, LinkFacts DEF Kept
    <3> QED BY <3>1, <1>1, <1>3, <2>1
  <2>3. k[a].fid = m[a].fid /\ k[a].val = m[a].val /\ k[n].fid \in T
    BY <2>1, <1>1, <1>3
  <2>4. \A x \in Chain(k) : d[a].next < x /\ x < a => k[x].fid \in T
    BY <2>1, <2>3, <1>3, <1>4, <1>5 DEF Kept
  <2> QED BY <2>1, <2>2, <2>3, <2>4, <1>5 DEF Kept
<1>8. CASE Sector(b) = Sector(n)
  <2>1. ASSUME NEW a \in Chain(k), k[a].next \in Chain(k) \ S
        PROVE  Sector(a) = Sector(k[a].next)
    <3>1. CASE a = b
      BY <3>1, <1>3, <1>8
    <3>2. CASE a = n
      <4>1. k[n].next = m[b].next
        BY <1>1, <1>3
      <4>2. m[b].next # n /\ m[b].next \in Nat
        BY <1>1, LinkFacts
      <4>3. m[b].next \in Chain(m) \ S
        BY <4>1, <4>2, <2>1, <3>2, <1>5
      <4>4. Sector(b) = Sector(m[b].next)
        BY <4>3, <1>1 DEF Backed
      <4> QED BY <4>1, <4>4, <1>8, <3>2
    <3>3. CASE a \in Chain(m) /\ a # b
      <4>1. k[a].next = m[a].next
        BY <3>3, <1>3, <1>4
      <4>2. m[a].next # n
        BY <3>3, <1>1, <1>2, <1>4
      <4> QED BY <4>1, <4>2, <2>1, <3>3, <1>5 DEF Backed
    <3> QED BY <3>1, <3>2, <3>3, <1>5
  <2>2. S \in SUBSET Cells /\ S \subseteq Chain(k)
    BY <1>4, <1>5, <1>6
  <2>3. Backed(k, d, T, S)
    BY <2>1, <2>2, <1>6, <1>7 DEF Backed
  <2> QED BY <2>2, <2>3
<1>9. CASE d = m
  <2> DEFINE U == Chain(m) \cup {n}
  <2>1. Backed(m, d, T, Chain(m))
    BY <1>9, BackedSelf
  <2>2. ASSUME NEW a \in U
        PROVE  Kept(k, d, T, a) /\ (d[a].next # 0 => d[a].next \in U)
    <3>1. CASE a \in Chain(m)
      <4>1. a \in Cells
        BY <3>1, <1>4
      <4>2. d[a].next <= k[a].next
        <5>1. m[a].next \in Nat
          BY <4>1, LinkFacts
        <5> QED BY <5>1, <1>1, <1>3, <1>9, <4>1
      <4>3. \A x \in Chain(k) : d[a].next < x /\ x < a => k[x].fid \in T
        BY <3>1, <1>9, <1>1, <1>3, <1>5, ChainGap
      <4>4. d[a].next # 0 => d[a].next \in Chain(m)
        BY <3>1, <1>4, <1>9
      <4>5. d[a].next \in Chain(k) \cup {0}
        BY <4>4, <1>5
      <4> QED BY <4>1, <4>2, <4>3, <4>4, <4>5, <1>3, <1>9 DEF Kept
    <3>2. CASE a = n
      <4>1. d[a] = m[n] /\ k[a] = m[n] /\ k[a].next = m[b].next
        BY <3>2, <1>9, <1>1, <1>3
      <4>2. m[b].next \in Nat /\ (m[b].next # 0 => m[b].next \in Chain(m))
        BY <1>1, <1>4, LinkFacts
      <4>3. ASSUME NEW x \in Chain(k), d[a].next < x, x < a
            PROVE  FALSE
        <5>1. x # n /\ x \in Chain(m)
          BY <4>3, <3>2, <1>5, <1>1
        <5>2. x \in Cells /\ m[b].next < x /\ x < b
          BY <5>1, <4>1, <4>3, <3>2, <1>1, <1>4 DEF Cells
        <5> QED BY <5>1, <5>2, <1>1, ChainGap
      <4> QED BY <4>1, <4>2, <4>3, <1>5 DEF Kept
    <3> QED BY <3>1, <3>2
  <2>3. U \in SUBSET Cells /\ U = Chain(k) /\ EndPool \in U
    BY <1>1, <1>4, <1>5, <1>6
  <2> HIDE DEF U
  <2>4. Backed(k, d, T, U)
    BY <2>2, <2>3 DEF Backed
  <2> QED BY <2>3, <2>4
<1> QED BY <1>8, <1>9

\* A boot finds the file f as table has it: its record, or none.
LEMMA BackedFinds ==
  ASSUME NEW m, Links(m), NEW d, Links(d), NEW T, NEW S, Backed(m, d, T, S),
         NEW t \in [Fids -> 0..(EndPool - 1)],
         Chain(m) \ {EndPool} = TableCells(t), \A g \in Fids : t[g] # 0 => m[t[g]].fid = g
  PROVE  /\ Chain(d) \subseteq Chain(m)
         /\ \A a \in Chain(d) \ {EndPool} : d[a].fid \in Fids /\ t[d[a].fid] = a
         /\ \A f \in Fids \ T : Contents(d, scan(d))[f] = Contents(m, t)[f]
<1>1. S \subseteq Chain(m) /\ EndPool \in S /\ Chain(m) \subseteq Cells
  BY ChainCloses DEF Backed
<1>2. \A a \in S : d[a].next # 0 => d[a].next \in S
  BY DEF Backed
<1>3. Chain(d) \subseteq S
  BY <1>1, <1>2, ChainLeast
<1>4. ASSUME NEW a \in Chain(d) \ {EndPool}
      PROVE  d[a].fid \in Fids /\ t[d[a].fid] = a
  <2>1. a \in S /\ a \in TableCells(t)
    BY <1>1, <1>3
  <2>2. d[a].fid = m[a].fid
    BY <2>1 DEF Backed, Kept
  <2>3. PICK g \in Fids : t[g] = a /\ a # 0
    BY <2>1 DEF TableCells
  <2> QED BY <2>2, <2>3
<1>5. ASSUME NEW f \in Fids \ T
      PROVE  Contents(d, scan(d))[f] = Contents(m, t)[f]
  <2>1. /\ Contents(d, scan(d))[f] = IF scan(d)[f] = 0 THEN NoVal ELSE d[scan(d)[f]].val
        /\ Contents(m, t)[f] = IF t[f] = 0 THEN NoVal ELSE m[t[f]].val
    BY DEF Contents
  <2>2. scan(d)[f] # 0 => scan(d)[f] = t[f]
    <3>1. scan(d)[f] # 0 => scan(d)[f] \in Chain(d) \ {EndPool} /\ d[scan(d)[f]].fid = f
      BY ScanFacts
    <3> QED BY <3>1, <1>4
  <2>3. CASE t[f] = 0
    BY <2>1, <2>2, <2>3
  <2>4. CASE t[f] # 0
    <3> DEFINE c == t[f]
    <3>1. c \in TableCells(t) /\ m[c].fid = f
      BY <2>4 DEF TableCells
    <3>2. c \in Chain(m) /\ c # EndPool /\ c \in Cells
      BY <3>1, <1>1
    <3>3. ASSUME NEW a \in Chain(d), a > c
          PROVE  d[a].next >= c
      <4>1. a \in S /\ a \in Cells
        BY <1>1, <1>3
      <4>2. d[a].next \in Nat /\ c \in Nat
        BY <4>1, <3>2, LinkFacts
      <4>3. d[a].next < c /\ c < a => m[c].fid \in T
        BY <4>1, <3>2 DEF Backed, Kept
      <4> QED BY <4>2, <4>3, <3>1, <3>3
    <3>4. c \in Chain(d)
      BY <3>2, <3>3, ChainMeets
    <3>5. c \in S
      BY <3>4, <1>3
    <3>6. d[c].fid = f /\ d[c].val = m[c].val
      BY <3>5, <3>1 DEF Backed, Kept
    <3>7. scan(d)[f] # 0
      BY <3>2, <3>4, <3>6, ScanFacts
    <3> QED BY <2>1, <2>2, <2>4, <3>6, <3>7
  <2> QED BY <2>3, <2>4
<1> QED BY <1>1, <1>3, <1>4, <1>5

\* Facts about the state that most steps need.
LEMMA ChainFacts ==
  ASSUME ChainInv
  PROVE  /\ Links(ram) /\ Links(disk)
         /\ Chain(ram) \subseteq Cells /\ EndPool \in Chain(ram)
         /\ table \in [Fids -> 0..(EndPool - 1)]
         /\ op \in ChainOpType
         /\ EndPool \in Nat /\ EndPool \in Cells
<1>1. Links(ram) /\ Links(disk)
  BY DEF ChainInv, ChainTypes, Links
<1> QED BY <1>1, ChainCloses, FlashChainAssumption DEF ChainInv, ChainTypes, Cells

\* The invariant yields the properties.
LEMMA ChainInvImplies == ChainInv => ChainTypeOK /\ ChainIsTheFiles /\ UntouchedSurvive
<1> SUFFICES ASSUME ChainInv PROVE ChainTypeOK /\ ChainIsTheFiles /\ UntouchedSurvive
  OBVIOUS
<1>1. Links(ram) /\ Links(disk) /\ table \in [Fids -> 0..(EndPool - 1)]
  BY ChainFacts
<1>2. ChainTypeOK
  BY DEF ChainInv, ChainTypes, OpOK, ChainTypeOK, CellType
<1>3. ChainIsTheFiles
  <2>1. \A a \in Chain(disk) : disk[a].next < a
    BY <1>1, ChainCloses, LinkFacts
  <2>2. ASSUME pc = "idle", crashes = 0
        PROVE  /\ Chain(ram) \ {EndPool} = {table[f] : f \in Fids} \ {0}
               /\ \A a \in Chain(ram) : ram[a].next # 0 => ram[ram[a].next].prev = a
               /\ \A f \in Fids : table[f] # 0 => ram[table[f]].fid = f
    <3>1. FilesOK /\ LinksOK /\ op.kind = "none"
      BY <2>2 DEF ChainInv, OpOK
    <3>2. OnChain = TableCells(table)
      BY <3>1, <2>2 DEF OnChain
    <3>3. OddCell = 0
      BY <2>2 DEF OddCell
    <3>4. \A a \in Chain(ram) : a # 0
      BY <1>1, ChainCloses, LinkFacts
    <3> QED BY <3>1, <3>2, <3>3, <3>4 DEF FilesOK, LinksOK, TableCells
  <2> QED BY <2>1, <2>2 DEF ChainIsTheFiles
<1>4. UntouchedSurvive
  <2> SUFFICES ASSUME ~cleared, NEW f \in Fids \ touched
               PROVE  Contents(disk, scan(disk))[f] = stored[f]
    BY DEF UntouchedSurvive
  <2>1. FilesOK /\ DiskOK
    BY DEF ChainInv
  <2>2. Chain(ram) \ {EndPool} = TableCells(table)
    BY <2>1 DEF FilesOK, DiskOK, OnChain, Clearing, Unlinked
  <2>3. \A g \in Fids : table[g] # 0 => ram[table[g]].fid = g
    BY <2>1 DEF FilesOK
  <2>4. PICK S \in SUBSET Cells : Backed(ram, disk, touched, S)
    BY <2>1 DEF DiskOK
  <2>5. Contents(disk, scan(disk))[f] = Contents(ram, table)[f]
    BY <1>1, <2>2, <2>3, <2>4, BackedFinds
  <2>6. stored[f] = Contents(ram, table)[f]
    BY <2>1 DEF DiskOK
  <2> QED BY <2>5, <2>6
<1> QED BY <1>2, <1>3, <1>4

\* It holds of an empty chain.
LEMMA InitChainInv == ChainInit => ChainInv
<1> SUFFICES ASSUME ChainInit PROVE ChainInv
  OBVIOUS
<1>1. ram = [a \in Cells |-> Blank] /\ disk = ram /\ table = [f \in Fids |-> 0]
  BY DEF ChainInit
<1>2. ram \in [Cells -> CellType] /\ \A a \in Cells : ram[a] = Blank
  BY <1>1, FlashChainAssumption DEF Blank, CellType
<1>3. Downward(ram)
  BY <1>2, FlashChainAssumption DEF Downward, Blank, Cells
<1>4. Links(ram) /\ Links(disk)
  BY <1>1, <1>2, <1>3 DEF Links
<1>5. ChainTypes
  <2>1. NoOp \in ChainOpType
    BY FlashChainAssumption DEF NoOp, ChainOpType
  <2>2. table \in [Fids -> 0..(EndPool - 1)]
    BY <1>1, FlashChainAssumption
  <2>3. op \in ChainOpType /\ touched \subseteq Fids /\ cleared \in BOOLEAN
    BY <2>1 DEF ChainInit
  <2>4. stored \in [Fids -> Vals \cup {NoVal}]
    BY DEF ChainInit
  <2>5. ops \in 0..MaxOps /\ crashes \in 0..MaxCrashes /\ giveUps \in 0..MaxGiveUps
    BY FlashChainAssumption DEF ChainInit
  <2>6. disk \in [Cells -> CellType] /\ Downward(disk)
    BY <1>1, <1>2, <1>3
  <2> QED BY <1>2, <1>3, <2>2, <2>3, <2>4, <2>5, <2>6, Zenon DEF ChainTypes
<1>6. op = NoOp /\ op.kind = "none" /\ pc = "idle"
  BY DEF ChainInit, NoOp
<1>7. OpOK
  BY <1>6 DEF OpOK, Writing, Clearing, Unlinked
<1>8. Chain(ram) = {EndPool}
  <2>1. EndPool \in Cells /\ ram[EndPool].next = 0
    BY <1>2, FlashChainAssumption DEF Cells, Blank
  <2> DEFINE S == {EndPool}
  <2>2. S \subseteq Cells /\ EndPool \in S /\ \A a \in S : ram[a].next # 0 => ram[a].next \in S
    BY <2>1
  <2> HIDE DEF S
  <2>3. Chain(ram) \subseteq S
    BY <1>4, <2>2, ChainLeast
  <2> QED BY <1>4, <2>3, ChainCloses DEF S
<1>9. FilesOK
  <2>1. OnChain = TableCells(table) /\ TableCells(table) = {}
    BY <1>1, <1>6 DEF OnChain, TableCells
  <2> QED BY <1>1, <1>6, <1>8, <2>1 DEF FilesOK, Clearing
<1>10. LinksOK
  <2>1. ram[EndPool].next = 0
    BY <1>2, FlashChainAssumption DEF Cells, Blank
  <2> QED BY <1>6, <1>8, <2>1 DEF LinksOK
<1>11. DiskOK
  <2>1. Backed(ram, disk, touched, Chain(ram)) /\ Chain(ram) \in SUBSET Cells
    BY <1>1, <1>4, BackedSelf, ChainCloses
  <2>2. \A f \in Fids : stored[f] = Contents(ram, table)[f]
    BY <1>1 DEF ChainInit, Contents
  <2> QED BY <2>1, <2>2, <1>6 DEF DiskOK, Clearing
<1> QED BY <1>5, <1>7, <1>9, <1>10, <1>11 DEF ChainInv

-----------------------------------------------------------------------------
(* The steps of an operation. *)

\* The types hold on, whatever a step writes into RAM.
LEMMA TypesStep ==
  ASSUME ChainInv, Links(ram'), UNCHANGED <<disk, stored, crashes>>,
         table' \in [Fids -> 0..(EndPool - 1)], op' \in ChainOpType,
         touched' \subseteq Fids, cleared' \in BOOLEAN, ops' \in 0..MaxOps, giveUps' \in 0..MaxGiveUps
  PROVE  ChainTypes'
<1>1. ram' \in [Cells -> CellType] /\ Downward(ram')
  BY DEF Links
<1>2. disk' \in [Cells -> CellType] /\ Downward(disk')
  BY DEF ChainInv, ChainTypes
<1>3. stored' \in [Fids -> Vals \cup {NoVal}] /\ crashes' \in 0..MaxCrashes
  BY DEF ChainInv, ChainTypes
<1> QED BY <1>1, <1>2, <1>3, Zenon DEF ChainTypes

\* A record of a file is on the chain while no file is being cleared.
LEMMA FilesOnChain ==
  ASSUME ChainInv, FilesOK, ~Clearing \/ op.kind = "undo", NEW f \in Fids, table[f] # 0
  PROVE  table[f] \in Chain(ram) /\ table[f] # EndPool /\ table[f] \in Cells
<1>1. OnChain = TableCells(table)
  BY DEF OnChain, Clearing, Unlinked
<1>2. table[f] \in Chain(ram) \ {EndPool}
  BY <1>1 DEF FilesOK, TableCells
<1> QED BY <1>2, ChainFacts

\* The part about flash outlives a step that is quiet on the chain.
LEMMA DiskQuiet ==
  ASSUME ChainInv, DiskOK, Links(ram'), touched \subseteq touched', disk' = disk,
         Quiet(ram, ram', touched')
  PROVE  \E S \in SUBSET Cells : Backed(ram', disk', touched', S)
<1>1. PICK S \in SUBSET Cells : Backed(ram, disk, touched, S)
  BY DEF DiskOK
<1>2. Links(ram)
  BY ChainFacts
<1>3. Backed(ram', disk, touched', S)
  BY <1>1, <1>2, BackedQuiet
<1> QED BY <1>3

\* flash_write_data_to_file over the record the file has keeps the invariant, ...
LEMMA UpdateInv ==
  ASSUME ChainInv, NEW f \in Fids, NEW v \in Vals, Update(f, v)
  PROVE  ChainInv'
<1> DEFINE c == table[f]
<1>1. /\ pc = "idle" /\ pc' = pc /\ op' = op /\ table' = table /\ c # 0
      /\ touched' = touched \cup {f} /\ cleared' = cleared
      /\ ops < MaxOps /\ ops' = ops + 1
      /\ UNCHANGED <<disk, table, stored, crashes, giveUps>>
      /\ ram' = PutVal(ram, c, v)
  BY DEF Update, Begin, PutVal, ChainInv, ChainTypes
<1>2. /\ Links(ram) /\ Links(disk) /\ Chain(ram) \subseteq Cells /\ table \in [Fids -> 0..(EndPool - 1)]
      /\ op \in ChainOpType /\ EndPool \in Nat
  BY ChainFacts
<1>3. c \in Cells
  BY <1>1, <1>2 DEF Cells
<1>4. /\ Links(ram')
      /\ \A a \in Cells : /\ ram'[a].next = ram[a].next /\ ram'[a].prev = ram[a].prev
                          /\ ram'[a].fid = ram[a].fid
                          /\ a # c => ram'[a] = ram[a]
  BY <1>1, <1>2, <1>3, PutValFacts
<1>5. Chain(ram') = Chain(ram)
  BY <1>2, <1>4, ChainSame
<1>6. ChainTypes'
  <2>1. touched' \subseteq Fids /\ cleared' \in BOOLEAN /\ giveUps' \in 0..MaxGiveUps
    BY <1>1 DEF ChainInv, ChainTypes
  <2>2. ops' \in 0..MaxOps
    BY <1>1, FlashChainAssumption DEF ChainInv, ChainTypes
  <2> QED BY <2>1, <2>2, <1>1, <1>2, <1>4, TypesStep
<1>7. OpOK' /\ op.kind = "none"
  BY <1>1 DEF ChainInv, OpOK, Writing, Clearing, Unlinked
<1>8. ASSUME crashes = 0 \/ ~cleared
      PROVE  FilesOK /\ FilesOK'
  <2>1. FilesOK
    BY <1>8 DEF ChainInv
  <2>2. \A g \in Fids : table[g] # 0 => table[g] \in Cells
    BY <1>2 DEF Cells
  <2>3. OnChain' = OnChain
    BY <1>1 DEF OnChain, Unlinked
  <2> QED BY <1>1, <1>4, <1>5, <1>7, <2>1, <2>2, <2>3 DEF FilesOK, Clearing
<1>9. ASSUME crashes = 0
      PROVE  LinksOK'
  <2>1. LinksOK
    BY <1>9 DEF ChainInv
  <2>2. \A a \in Chain(ram) : ram[a].next # 0 => ram[a].next \in Cells
    BY <1>2, LinkFacts
  <2>3. OddCell' = OddCell /\ OddBack' = OddBack
    BY <1>1 DEF OddCell, OddBack
  <2> QED BY <1>1, <1>2, <1>4, <1>5, <2>1, <2>2, <2>3 DEF LinksOK
<1>10. ASSUME ~cleared
       PROVE  DiskOK'
  <2>1. DiskOK /\ FilesOK
    BY <1>8, <1>10 DEF ChainInv
  <2>2. ram[c].fid = f
    BY <2>1, <1>1 DEF FilesOK
  <2>3. Quiet(ram, ram', touched')
    BY <1>1, <1>2, <1>4, <2>2 DEF Quiet
  <2>4. \E S \in SUBSET Cells : Backed(ram', disk', touched', S)
    BY <2>1, <2>3, <1>1, <1>4, DiskQuiet
  <2>5. ASSUME NEW g \in Fids \ touched'
        PROVE  stored'[g] = Contents(ram', table')[g]
    <3>1. stored[g] = Contents(ram, table)[g]
      BY <2>1, <1>1 DEF DiskOK
    <3>2. g # f
      BY <1>1
    <3>3. table[g] # 0 => table[g] # c /\ table[g] \in Cells
      BY <3>2, <2>1, <2>2, <1>2 DEF FilesOK, Cells
    <3> QED BY <3>1, <3>3, <1>1, <1>4 DEF Contents
  <2> QED BY <2>1, <2>4, <2>5, <1>1, <1>7 DEF DiskOK, Clearing
<1> QED BY <1>1, <1>6, <1>7, <1>8, <1>9, <1>10 DEF ChainInv

\* ... and so does each step of one that needs a new record: its links, ...
LEMMA AllocateInv ==
  ASSUME ChainInv, NEW f \in Fids, NEW v \in Vals, Allocate(f, v)
  PROVE  ChainInv'
<1> DEFINE b == TheBase
<1> DEFINE n == TheBase - 1
<1>1. /\ pc = "idle" /\ pc' = "back_link" /\ table' = table /\ Gaps # {}
      /\ touched' = touched \cup {f} /\ (~cleared' => ~cleared /\ table[f] = 0)
      /\ cleared' \in BOOLEAN
      /\ ops < MaxOps /\ ops' = ops + 1
      /\ UNCHANGED <<disk, table, stored, crashes, giveUps>>
  BY DEF Allocate, Begin, ChainInv, ChainTypes
<1>2. ram' = PutLinks(ram, n, ram[b].next, b)
  BY DEF Allocate, PutLinks
<1>3. /\ op'.kind = "write" /\ op'.fid = f /\ op'.val = v /\ op'.base = b /\ op'.new = n
      /\ op'.target = 0 /\ op'.next = 0 /\ op'.prev = 0
      /\ op' = [kind |-> op'.kind, fid |-> op'.fid, val |-> op'.val, new |-> op'.new, base |-> op'.base,
                target |-> op'.target, next |-> op'.next, prev |-> op'.prev]
  BY DEF Allocate, NoOp
<1>4. /\ Links(ram) /\ Links(disk) /\ Chain(ram) \subseteq Cells /\ table \in [Fids -> 0..(EndPool - 1)]
      /\ op \in ChainOpType /\ EndPool \in Nat
  BY ChainFacts
<1>5. /\ b \in Chain(ram) /\ b \in Cells /\ n \in Cells /\ n < EndPool /\ ram[b].next < n
      /\ n \notin Chain(ram)
  BY <1>1, <1>4, BaseFacts
<1>6. b \in 0..EndPool /\ n \in 0..EndPool /\ b > n /\ ram[b].next \in 0..EndPool
  BY <1>4, <1>5, LinkFacts DEF Cells
<1> HIDE DEF b, n
<1>7. /\ Links(ram') /\ ram'[n].next = ram[b].next /\ ram'[n].prev = b
      /\ \A a \in Cells : /\ ram'[a].fid = ram[a].fid /\ ram'[a].val = ram[a].val
                          /\ a # n => ram'[a] = ram[a]
  <2> DEFINE x == ram[b].next
  <2>1. x \in 0..EndPool /\ x < n /\ b > n /\ b \in 0..EndPool /\ n \in Cells /\ Links(ram)
    BY <1>4, <1>5, <1>6
  <2> HIDE DEF x
  <2>2. /\ Links(PutLinks(ram, n, x, b))
        /\ PutLinks(ram, n, x, b)[n].next = x /\ PutLinks(ram, n, x, b)[n].prev = b
        /\ \A a \in Cells : /\ PutLinks(ram, n, x, b)[a].fid = ram[a].fid
                            /\ PutLinks(ram, n, x, b)[a].val = ram[a].val
                            /\ a # n => PutLinks(ram, n, x, b)[a] = ram[a]
    BY <2>1, PutLinksFacts
  <2>3. ram' = PutLinks(ram, n, x, b)
    BY <1>2 DEF x
  <2> QED BY <2>2, <2>3 DEF x
<1>8. \A a \in Chain(ram) : ram'[a] = ram[a]
  BY <1>4, <1>5, <1>7
<1>9. Chain(ram') = Chain(ram)
  BY <1>4, <1>7, <1>8, ChainSame
<1>10. ChainTypes'
  <2>1. touched' \subseteq Fids /\ cleared' \in BOOLEAN /\ giveUps' \in 0..MaxGiveUps
    BY <1>1 DEF ChainInv, ChainTypes
  <2>2. ops' \in 0..MaxOps
    BY <1>1, FlashChainAssumption DEF ChainInv, ChainTypes
  <2>3. op' \in ChainOpType
    BY <1>3, <1>4, <1>6 DEF ChainOpType
  <2> QED BY <2>1, <2>2, <2>3, <1>1, <1>4, <1>7, TypesStep
<1>11. OpOK' /\ op.kind = "none"
  <2>1. Waits(ram', op'.base, op'.new)
    BY <1>3, <1>5, <1>7, <1>8, <1>9 DEF Waits, n, b
  <2> QED BY <2>1, <1>1, <1>3 DEF ChainInv, OpOK, Writing, Clearing, Unlinked
<1>12. ASSUME crashes = 0 \/ ~cleared
       PROVE  FilesOK /\ FilesOK'
  <2>1. FilesOK
    BY <1>12 DEF ChainInv
  <2>2. \A g \in Fids : table[g] # 0 => table[g] \in Cells
    BY <1>4 DEF Cells
  <2>3. OnChain' = OnChain
    BY <1>1, <1>3, <1>11 DEF OnChain, Unlinked
  <2> QED BY <1>1, <1>3, <1>7, <1>9, <2>1, <2>2, <2>3 DEF FilesOK, Clearing
<1>13. ASSUME crashes = 0
       PROVE  LinksOK'
  <2>1. LinksOK
    BY <1>13 DEF ChainInv
  <2>2. \A a \in Chain(ram) : ram[a].next # 0 => ram[a].next \in Chain(ram)
    BY <1>4, ChainCloses
  <2>3. OddCell' = 0 /\ OddCell = 0
    BY <1>1 DEF OddCell
  <2>4. \A a \in Chain(ram) : a # 0
    BY <1>4, LinkFacts
  <2>5. \A a \in Chain(ram) : ram[a].next # 0 => ram[ram[a].next].prev = a
    BY <2>1, <2>3, <2>4 DEF LinksOK
  <2>6. \A a \in Chain(ram') : ram'[a].next # 0 => ram'[ram'[a].next].prev = a
    BY <2>2, <2>5, <1>8, <1>9
  <2> QED BY <1>1, <2>3, <2>4, <2>6, <1>9 DEF LinksOK
<1>14. ASSUME ~cleared'
       PROVE  DiskOK'
  <2>1. DiskOK
    BY <1>1, <1>14 DEF ChainInv
  <2>2. Quiet(ram, ram', touched')
    BY <1>8 DEF Quiet
  <2>3. \E S \in SUBSET Cells : Backed(ram', disk', touched', S)
    BY <2>1, <2>2, <1>1, <1>7, DiskQuiet
  <2>4. ASSUME NEW g \in Fids \ touched'
        PROVE  stored'[g] = Contents(ram', table')[g]
    <3>1. stored[g] = Contents(ram, table)[g]
      BY <2>1, <1>1 DEF DiskOK
    <3>2. table[g] # 0 => table[g] \in Cells
      BY <1>4 DEF Cells
    <3> QED BY <3>1, <3>2, <1>1, <1>7 DEF Contents
  <2> QED BY <2>3, <2>4, <1>1, <1>3, <1>14 DEF DiskOK, Clearing
<1> QED BY <1>1, <1>10, <1>11, <1>12, <1>13, <1>14 DEF ChainInv

\* Nothing but steps of the operation under way follow a pending one.
LEMMA StepTypes ==
  ASSUME ChainInv, Links(ram'), UNCHANGED <<disk, stored, touched, cleared, ops, crashes>>,
         giveUps' \in 0..MaxGiveUps, table' = table, op' \in ChainOpType
  PROVE  ChainTypes'
<1>1. touched' \subseteq Fids /\ cleared' \in BOOLEAN /\ ops' \in 0..MaxOps
  BY DEF ChainInv, ChainTypes
<1> QED BY <1>1, ChainFacts, TypesStep

\* ... the back link to it, ...
LEMMA BackLinkInv ==
  ASSUME ChainInv, BackLink
  PROVE  ChainInv'
<1> DEFINE n == ram[op.new].next
<1>1. /\ pc = "back_link" /\ pc' = "fill"
      /\ UNCHANGED <<disk, stored, touched, cleared, ops, crashes, giveUps, table, op>>
      /\ ram' = IF n = 0 THEN ram ELSE PutPrev(ram, n, op.new)
  BY DEF BackLink, Step, PutPrev
<1>2. /\ Links(ram) /\ Chain(ram) \subseteq Cells /\ table \in [Fids -> 0..(EndPool - 1)]
      /\ op \in ChainOpType /\ EndPool \in Nat
  BY ChainFacts
<1>3. Waits(ram, op.base, op.new) /\ op.kind = "write" /\ op.fid \in Fids /\ op.val \in Vals
  BY <1>1 DEF ChainInv, OpOK, Writing
<1>4. /\ op.new \in Cells /\ op.base \in Chain(ram) /\ n = ram[op.base].next /\ n < op.new
      /\ op.new \notin Chain(ram) /\ op.base \in Cells /\ ram[op.new].prev = op.base
      /\ op.new \in 0..EndPool
  BY <1>2, <1>3, WaitsOff DEF Waits, Cells
<1>5. n # 0 => n \in Cells /\ n \in Chain(ram)
  BY <1>2, <1>4, ChainCloses
<1>6. /\ Links(ram')
      /\ \A a \in Cells : /\ ram'[a].next = ram[a].next /\ ram'[a].fid = ram[a].fid
                          /\ ram'[a].val = ram[a].val /\ (a # n => ram'[a] = ram[a])
      /\ n # 0 => ram'[n].prev = op.new
  <2>1. CASE n = 0
    BY <2>1, <1>1, <1>2
  <2>2. CASE n # 0
    <3> HIDE DEF n
    <3>1. n \in Cells /\ op.new \in 0..EndPool /\ op.new > n /\ ram' = PutPrev(ram, n, op.new)
      BY <2>2, <1>1, <1>4, <1>5 DEF Cells
    <3> QED BY <3>1, <1>2, PutPrevFacts
  <2> QED BY <2>1, <2>2
<1> HIDE DEF n
<1>7. Chain(ram') = Chain(ram)
  BY <1>2, <1>6, ChainSame
<1>8. ChainTypes'
  BY <1>1, <1>2, <1>6, StepTypes DEF ChainInv, ChainTypes
<1>9. OpOK'
  <2>1. op.new # n
    BY <1>4, <1>5
  <2>2. Waits(ram', op.base, op.new)
    BY <2>1, <1>3, <1>4, <1>6, <1>7 DEF Waits
  <2> QED BY <2>2, <1>1, <1>3 DEF OpOK, Writing, Clearing, Unlinked
<1>10. ASSUME crashes = 0 \/ ~cleared
       PROVE  FilesOK'
  <2>1. FilesOK
    BY <1>10 DEF ChainInv
  <2>2. \A g \in Fids : table[g] # 0 => table[g] \in Cells
    BY <1>2 DEF Cells
  <2>3. OnChain' = OnChain
    BY <1>1 DEF OnChain, Unlinked
  <2> QED BY <1>1, <1>6, <1>7, <2>1, <2>2, <2>3 DEF FilesOK, Clearing
<1>11. ASSUME crashes = 0
       PROVE  LinksOK'
  <2>1. LinksOK
    BY <1>11 DEF ChainInv
  <2>2. OddCell' = op.base /\ OddCell = 0 /\ OddBack' = op.new
    BY <1>1 DEF OddCell, OddBack
  <2>3. ASSUME NEW a \in Chain(ram), ram[a].next # 0
        PROVE  ram'[ram'[a].next].prev = IF a = op.base THEN op.new ELSE a
    <3>1. a \in Cells /\ a # 0 /\ ram[a].next \in Cells
      BY <2>3, <1>2, LinkFacts
    <3>2. ram[ram[a].next].prev = a
      BY <2>1, <2>2, <2>3, <3>1 DEF LinksOK
    <3>3. CASE a = op.base
      BY <3>3, <3>1, <2>3, <1>4, <1>6
    <3>4. CASE a # op.base
      <4>1. ram[a].next # n
        BY <3>4, <2>3, <1>2, <1>4, ChainPredUnique
      <4> QED BY <3>1, <3>2, <3>4, <4>1, <1>6
    <3> QED BY <3>3, <3>4
  <2>4. \A a \in Chain(ram') : ram'[a].next = ram[a].next /\ a \in Chain(ram)
    BY <1>2, <1>6, <1>7
  <2> QED BY <1>1, <1>7, <2>2, <2>3, <2>4 DEF LinksOK
<1>12. ASSUME ~cleared
       PROVE  DiskOK'
  <2>1. DiskOK
    BY <1>12 DEF ChainInv
  <2>2. Quiet(ram, ram', touched')
    BY <1>2, <1>6 DEF Quiet
  <2>3. \E S \in SUBSET Cells : Backed(ram', disk', touched', S)
    BY <2>1, <2>2, <1>1, <1>6, DiskQuiet
  <2>4. ASSUME NEW g \in Fids \ touched'
        PROVE  stored'[g] = Contents(ram', table')[g]
    <3>1. stored[g] = Contents(ram, table)[g]
      BY <2>1, <1>1 DEF DiskOK
    <3>2. table[g] # 0 => table[g] \in Cells
      BY <1>2 DEF Cells
    <3> QED BY <3>1, <3>2, <1>1, <1>6 DEF Contents
  <2> QED BY <2>1, <2>3, <2>4, <1>1 DEF DiskOK, Clearing
<1> QED BY <1>1, <1>8, <1>9, <1>10, <1>11, <1>12 DEF ChainInv

\* ... its payload, ...
LEMMA FillInv ==
  ASSUME ChainInv, Fill
  PROVE  ChainInv'
<1>1. /\ pc = "fill" /\ pc' \in {"publish", "sync"}
      /\ pc' = "publish" => Sector(op.base) = Sector(op.new)
      /\ UNCHANGED <<disk, stored, touched, cleared, ops, crashes, giveUps, table, op>>
      /\ ram' = PutRecord(ram, op.new, op.fid, op.val)
  BY DEF Fill, Step, PutRecord
<1>2. /\ Links(ram) /\ Chain(ram) \subseteq Cells /\ table \in [Fids -> 0..(EndPool - 1)]
      /\ op \in ChainOpType /\ EndPool \in Nat
  BY ChainFacts
<1>3. Waits(ram, op.base, op.new) /\ op.kind = "write" /\ op.fid \in Fids /\ op.val \in Vals
  BY <1>1 DEF ChainInv, OpOK, Writing
<1>4. op.new \in Cells /\ op.new \notin Chain(ram) /\ op.base \in Cells
  BY <1>2, <1>3, WaitsOff
<1>5. /\ Links(ram') /\ ram'[op.new].fid = op.fid
      /\ \A a \in Cells : /\ ram'[a].next = ram[a].next /\ ram'[a].prev = ram[a].prev
                          /\ a # op.new => ram'[a] = ram[a]
  BY <1>1, <1>2, <1>3, <1>4, PutRecordFacts
<1>6. \A a \in Chain(ram) : ram'[a] = ram[a]
  BY <1>2, <1>4, <1>5
<1>7. Chain(ram') = Chain(ram)
  BY <1>2, <1>5, <1>6, ChainSame
<1>8. ChainTypes'
  BY <1>1, <1>2, <1>5, StepTypes DEF ChainInv, ChainTypes
<1>9. OpOK'
  <2>1. Waits(ram', op.base, op.new)
    BY <1>3, <1>4, <1>5, <1>7 DEF Waits
  <2> QED BY <2>1, <1>1, <1>3 DEF OpOK, Writing, Clearing, Unlinked
<1>10. ASSUME crashes = 0 \/ ~cleared
       PROVE  FilesOK' /\ \A g \in Fids : table[g] # 0 => ram'[table[g]] = ram[table[g]]
  <2>1. FilesOK
    BY <1>10 DEF ChainInv
  <2>2. \A g \in Fids : table[g] # 0 => table[g] \in Chain(ram)
    BY <2>1, <1>1, FilesOnChain DEF Clearing
  <2>3. OnChain' = OnChain
    BY <1>1 DEF OnChain, Unlinked
  <2> QED BY <1>1, <1>5, <1>6, <1>7, <2>1, <2>2, <2>3 DEF FilesOK, Clearing
<1>11. ASSUME crashes = 0
       PROVE  LinksOK'
  <2>1. LinksOK
    BY <1>11 DEF ChainInv
  <2>2. OddCell' = OddCell /\ OddBack' = OddBack
    BY <1>1 DEF OddCell, OddBack
  <2>3. \A a \in Chain(ram) : ram[a].next # 0 => ram[a].next \in Cells
    BY <1>2, LinkFacts
  <2> QED BY <1>1, <1>2, <1>5, <1>7, <2>1, <2>2, <2>3 DEF LinksOK
<1>12. ASSUME ~cleared
       PROVE  DiskOK'
  <2>1. DiskOK
    BY <1>12 DEF ChainInv
  <2>2. Quiet(ram, ram', touched')
    BY <1>6 DEF Quiet
  <2>3. \E S \in SUBSET Cells : Backed(ram', disk', touched', S)
    BY <2>1, <2>2, <1>1, <1>5, DiskQuiet
  <2>4. ASSUME NEW g \in Fids \ touched'
        PROVE  stored'[g] = Contents(ram', table')[g]
    <3>1. stored[g] = Contents(ram, table)[g]
      BY <2>1, <1>1 DEF DiskOK
    <3> QED BY <3>1, <1>10, <1>12, <1>1 DEF Contents
  <2> QED BY <2>1, <2>3, <2>4, <1>1 DEF DiskOK, Clearing
<1> QED BY <1>1, <1>8, <1>9, <1>10, <1>11, <1>12 DEF ChainInv

\* ... the wait for it to be in flash, ...
LEMMA SyncRecordInv ==
  ASSUME ChainInv, SyncRecord
  PROVE  ChainInv'
<1>1. /\ pc = "sync" /\ pc' = "publish" /\ ram = disk
      /\ UNCHANGED <<ram, disk, stored, touched, cleared, ops, crashes, giveUps, table, op>>
  BY DEF SyncRecord, Step
<1>2. ChainTypes'
  BY <1>1 DEF ChainInv, ChainTypes
<1>3. OpOK'
  BY <1>1 DEF ChainInv, OpOK, Writing, Clearing, Unlinked
<1>4. FilesOK => FilesOK'
  BY <1>1 DEF FilesOK, OnChain, Clearing, Unlinked
<1>5. LinksOK => LinksOK'
  BY <1>1 DEF LinksOK, OddCell, OddBack
<1>6. DiskOK => DiskOK'
  BY <1>1 DEF DiskOK, Clearing
<1> QED BY <1>1, <1>2, <1>3, <1>4, <1>5, <1>6 DEF ChainInv

\* ... giving up on that, ...
LEMMA SyncTimeoutInv ==
  ASSUME ChainInv, SyncTimeout
  PROVE  ChainInv'
<1>1. /\ pc = "sync" /\ pc' = "unlink"
      /\ UNCHANGED <<ram, disk, stored, touched, cleared, ops, crashes, table>>
      /\ giveUps < MaxGiveUps /\ giveUps' = giveUps + 1
      /\ op' = [op EXCEPT !.kind = "undo", !.target = op.new]
  BY DEF SyncTimeout
<1>2. op \in ChainOpType /\ Links(ram)
  BY ChainFacts
<1>3. /\ op'.kind = "undo" /\ op'.fid = op.fid /\ op'.base = op.base /\ op'.new = op.new
      /\ op'.target = op.new /\ op' \in ChainOpType
  BY <1>1, <1>2 DEF ChainOpType
<1>4. Waits(ram, op.base, op.new) /\ op.kind = "write" /\ op.fid \in Fids
  BY <1>1 DEF ChainInv, OpOK, Writing
<1>5. op.new \in Cells /\ op.new < EndPool
  BY <1>2, <1>4, WaitsOff
<1>6. ChainTypes'
  <2>1. giveUps' \in 0..MaxGiveUps
    BY <1>1, FlashChainAssumption DEF ChainInv, ChainTypes
  <2> QED BY <2>1, <1>1, <1>2, <1>3, StepTypes
<1>7. OpOK'
  BY <1>1, <1>3, <1>4, <1>5 DEF OpOK, Writing, Clearing, Unlinked
<1>8. FilesOK => FilesOK'
  BY <1>1, <1>3 DEF FilesOK, OnChain, Clearing, Unlinked
<1>9. LinksOK => LinksOK'
  BY <1>1, <1>3 DEF LinksOK, OddCell, OddBack
<1>10. DiskOK => DiskOK'
  BY <1>1, <1>3 DEF DiskOK, Clearing
<1> QED BY <1>1, <1>6, <1>7, <1>8, <1>9, <1>10 DEF ChainInv

\* file_delete begins.
LEMMA DeleteInv ==
  ASSUME ChainInv, NEW f \in Fids, Delete(f)
  PROVE  ChainInv'
<1>1. /\ pc = "idle" /\ pc' = "unlink" /\ cleared' /\ table[f] # 0
      /\ touched' = touched \cup {f} /\ ops < MaxOps /\ ops' = ops + 1
      /\ UNCHANGED <<ram, disk, stored, crashes, table, giveUps>>
      /\ cleared' \in BOOLEAN
  BY DEF Delete, Begin, ChainInv, ChainTypes
<1>2. /\ op'.kind = "delete" /\ op'.fid = f /\ op'.target = table[f] /\ op'.val = NoVal
      /\ op'.base = 0 /\ op'.new = 0 /\ op'.next = 0 /\ op'.prev = 0
      /\ op' = [kind |-> op'.kind, fid |-> op'.fid, val |-> op'.val, new |-> op'.new, base |-> op'.base,
                target |-> op'.target, next |-> op'.next, prev |-> op'.prev]
  BY DEF Delete, NoOp
<1>3. op \in ChainOpType /\ Links(ram) /\ table \in [Fids -> 0..(EndPool - 1)] /\ EndPool \in Nat
  BY ChainFacts
<1>4. table[f] \in Cells /\ table[f] < EndPool /\ table[f] \in 0..EndPool
  BY <1>1, <1>3 DEF Cells
<1>5. op' \in ChainOpType
  BY <1>2, <1>3, <1>4 DEF ChainOpType
<1>6. ChainTypes'
  <2>1. touched' \subseteq Fids /\ giveUps' \in 0..MaxGiveUps
    BY <1>1 DEF ChainInv, ChainTypes
  <2>2. ops' \in 0..MaxOps
    BY <1>1, FlashChainAssumption DEF ChainInv, ChainTypes
  <2> QED BY <2>1, <2>2, <1>1, <1>3, <1>5, TypesStep
<1>7. OpOK'
  BY <1>1, <1>2, <1>4 DEF OpOK, Writing, Clearing, Unlinked
<1>8. op.kind = "none"
  BY <1>1 DEF ChainInv, OpOK
<1>9. FilesOK => FilesOK'
  BY <1>1, <1>2, <1>8 DEF FilesOK, OnChain, Clearing, Unlinked
<1>10. LinksOK => LinksOK'
  <2>1. OddCell = 0 /\ OddCell' = 0
    BY <1>1, <1>2 DEF OddCell
  <2>2. \A a \in Chain(ram) : a # 0
    BY <1>3, ChainCloses, LinkFacts
  <2> QED BY <2>1, <2>2, <1>1 DEF LinksOK
<1> QED BY <1>1, <1>6, <1>7, <1>9, <1>10 DEF ChainInv

\* ... and its publication, next to its predecessor or in flash before.
LEMMA PublishInv ==
  ASSUME ChainInv, Publish
  PROVE  ChainInv'
<1> DEFINE old == table[op.fid]
<1> DEFINE b == op.base
<1> DEFINE n == op.new
<1>1. /\ pc = "publish" /\ pc' = IF old = 0 THEN "idle" ELSE "unlink"
      /\ UNCHANGED <<disk, stored, touched, cleared, ops, crashes, giveUps>>
      /\ ram' = PutNext(ram, b, n)
      /\ old = 0 => op' = NoOp /\ table' = [table EXCEPT ![op.fid] = n]
      /\ old # 0 => op' = [op EXCEPT !.target = old] /\ table' = table
  BY DEF Publish, Step, PutNext
<1>2. /\ Links(ram) /\ Links(disk) /\ Chain(ram) \subseteq Cells /\ table \in [Fids -> 0..(EndPool - 1)]
      /\ op \in ChainOpType /\ EndPool \in Nat
  BY ChainFacts
<1>3. /\ Waits(ram, b, n) /\ op.kind = "write" /\ op.fid \in Fids
      /\ Sector(b) = Sector(n) \/ disk = ram
  BY <1>1 DEF ChainInv, OpOK, Writing
<1>4. /\ n \in Cells /\ n \notin Chain(ram) /\ b \in Cells /\ n < b /\ n < EndPool /\ n \in 0..EndPool
      /\ b \in Chain(ram) /\ ram[n].prev = b /\ ram[n].next = ram[b].next /\ ram[b].next < n /\ n # 0
      /\ n \in 0..(EndPool - 1)
  BY <1>2, <1>3, WaitsOff DEF Waits, Cells
<1>5. op.new \in 0..EndPool /\ op.base \in 0..EndPool /\ old \in 0..(EndPool - 1)
  BY <1>2, <1>3 DEF ChainOpType
<1> HIDE DEF old, b, n
<1>6. /\ Links(ram') /\ ram'[b].next = n
      /\ \A a \in Cells : /\ ram'[a].prev = ram[a].prev /\ ram'[a].fid = ram[a].fid
                          /\ ram'[a].val = ram[a].val /\ (a # b => ram'[a] = ram[a])
  BY <1>1, <1>2, <1>4, PutNextFacts
<1>7. Chain(ram') = Chain(ram) \cup {n}
  BY <1>2, <1>4, <1>6, ChainInsert
<1>8. /\ old = 0 => /\ op'.kind = "none" /\ pc' = "idle" /\ op' \in ChainOpType
                    /\ table' \in [Fids -> 0..(EndPool - 1)]
      /\ old # 0 => /\ op'.kind = "write" /\ pc' = "unlink" /\ op'.target = old /\ op'.new = n
                    /\ op'.fid = op.fid /\ op' \in ChainOpType
                    /\ table' \in [Fids -> 0..(EndPool - 1)]
  <2>1. NoOp \in ChainOpType /\ NoOp.kind = "none"
    BY FlashChainAssumption DEF NoOp, ChainOpType
  <2>2. ASSUME old = 0 PROVE table' \in [Fids -> 0..(EndPool - 1)]
    BY <2>2, <1>1, <1>2, <1>4
  <2>3. ASSUME old # 0
        PROVE  op'.kind = op.kind /\ op'.target = old /\ op'.new = n /\ op'.fid = op.fid /\ op' \in ChainOpType
    <3>1. old \in 0..EndPool
      BY <1>2, <1>5
    <3> QED BY <2>3, <3>1, <1>1, <1>2 DEF ChainOpType, n
  <2> QED BY <2>1, <2>2, <2>3, <1>1, <1>2, <1>3
<1>9. ChainTypes'
  <2>1. op' \in ChainOpType /\ table' \in [Fids -> 0..(EndPool - 1)]
    BY <1>8
  <2>2. touched' \subseteq Fids /\ cleared' \in BOOLEAN /\ ops' \in 0..MaxOps /\ giveUps' \in 0..MaxGiveUps
    BY <1>1 DEF ChainInv, ChainTypes
  <2> QED BY <2>1, <2>2, <1>1, <1>6, TypesStep
<1>10. OpOK'
  <2>1. CASE old = 0
    BY <2>1, <1>8 DEF OpOK, Writing, Clearing, Unlinked
  <2>2. CASE old # 0
    <3>1. old \in Cells /\ old < EndPool
      BY <2>2, <1>2, <1>5 DEF Cells
    <3> QED BY <2>2, <3>1, <1>3, <1>4, <1>8 DEF OpOK, Writing, Clearing, Unlinked
  <2> QED BY <2>1, <2>2
<1>11. ASSUME FilesOK
       PROVE  FilesOK' /\ \A g \in Fids : table[g] # 0 => table[g] # n
  <2>1. \A g \in Fids : table[g] # 0 => table[g] \in Chain(ram) /\ table[g] \in Cells
    BY <1>11, <1>1, FilesOnChain DEF Clearing
  <2>2. \A g \in Fids : table[g] # 0 => table[g] # n
    BY <2>1, <1>4
  <2>3. ram'[n].fid = op.fid
    BY <1>1, <1>4, <1>6, <1>11 DEF FilesOK, n
  <2>4. Chain(ram) \ {EndPool} = TableCells(table)
    BY <1>1, <1>11 DEF FilesOK, OnChain, Unlinked
  <2>5. Chain(ram') \ {EndPool} = TableCells(table) \cup {n}
    BY <2>4, <1>4, <1>7
  <2>6. \A g \in Fids : table'[g] # 0 => ram'[table'[g]].fid = g
    BY <2>1, <2>3, <1>1, <1>2, <1>3, <1>6, <1>11 DEF FilesOK
  <2>7. CASE old = 0
    <3>1. \A g \in Fids : table'[g] = IF g = op.fid THEN n ELSE table[g]
      BY <2>7, <1>1, <1>2
    <3>2. TableCells(table') = TableCells(table) \cup {n}
      BY <3>1, <2>7, <1>3, <1>4 DEF TableCells, old
    <3>3. OnChain' = TableCells(table')
      BY <2>7, <1>8 DEF OnChain
    <3> QED BY <2>2, <2>5, <2>6, <2>7, <3>2, <3>3, <1>8 DEF FilesOK, Clearing
  <2>8. CASE old # 0
    <3>1. OnChain' = TableCells(table) \cup {n} /\ table' = table
      BY <2>8, <1>1, <1>8 DEF OnChain, Unlinked
    <3>2. op'.target = table'[op'.fid] /\ op'.new # op'.target /\ ram'[op'.new].fid = op'.fid
      BY <2>2, <2>3, <2>8, <3>1, <1>3, <1>8 DEF old
    <3> QED BY <2>2, <2>5, <2>6, <2>8, <3>1, <3>2, <1>8 DEF FilesOK
  <2> QED BY <2>7, <2>8
<1>12. ASSUME LinksOK
       PROVE  LinksOK'
  <2>1. OddCell = b /\ OddBack = n /\ OddCell' = 0 /\ pc' \notin {"zero", "relink"}
    BY <1>1, <1>8 DEF OddCell, OddBack, b, n
  <2>2. ASSUME NEW a \in Chain(ram'), ram'[a].next # 0
        PROVE  ram'[ram'[a].next].prev = a /\ a # 0
    <3>1. a \in Cells /\ a # 0
      BY <1>2, <1>4, <1>7, LinkFacts
    <3>2. CASE a = b
      BY <3>1, <3>2, <1>4, <1>6
    <3>3. CASE a = n
      <4>1. ram'[n].next = ram[b].next /\ ram[b].next # 0
        BY <3>3, <2>2, <1>4, <1>6
      <4>2. ram[ram[b].next].prev = n /\ ram[b].next \in Cells
        BY <4>1, <2>1, <1>2, <1>4, <1>12, LinkFacts DEF LinksOK
      <4> QED BY <3>1, <3>3, <4>1, <4>2, <1>6
    <3>4. CASE a \in Chain(ram) /\ a # b
      <4>1. ram'[a].next = ram[a].next
        BY <3>1, <3>4, <1>6
      <4>2. ram[ram[a].next].prev = a /\ ram[a].next \in Cells
        BY <4>1, <3>1, <3>4, <2>1, <2>2, <1>2, <1>12, LinkFacts DEF LinksOK
      <4> QED BY <3>1, <4>1, <4>2, <1>6
    <3> QED BY <3>2, <3>3, <3>4, <1>7
  <2> QED BY <2>1, <2>2 DEF LinksOK
<1>13. ASSUME ~cleared
       PROVE  DiskOK'
  <2>1. DiskOK /\ FilesOK /\ old = 0
    BY <1>3, <1>13 DEF ChainInv, DiskOK, old
  <2>2. op.fid \in touched /\ ram[n].fid = op.fid
    BY <2>1, <1>1 DEF DiskOK, FilesOK, n
  <2>3. PICK S \in SUBSET Cells : Backed(ram, disk, touched, S)
    BY <2>1 DEF DiskOK
  <2>4. \E U \in SUBSET Cells : Backed(ram', disk, touched, U)
    BY <2>2, <2>3, <1>1, <1>2, <1>3, <1>6, BackedInsert
  <2>5. ASSUME NEW g \in Fids \ touched'
        PROVE  stored'[g] = Contents(ram', table')[g]
    <3>1. stored[g] = Contents(ram, table)[g] /\ g # op.fid
      BY <2>1, <2>2, <1>1 DEF DiskOK
    <3>2. table'[g] = table[g]
      BY <3>1, <2>1, <1>1, <1>2
    <3>3. table[g] # 0 => table[g] \in Cells
      BY <1>2 DEF Cells
    <3> QED BY <3>1, <3>2, <3>3, <1>1, <1>6 DEF Contents
  <2> QED BY <2>1, <2>4, <2>5, <1>1, <1>8 DEF DiskOK, Clearing
<1>14. FilesOK \/ ~(crashes = 0 \/ ~cleared)
  BY DEF ChainInv
<1>15. LinksOK \/ crashes # 0
  BY DEF ChainInv
<1> QED BY <1>1, <1>9, <1>10, <1>11, <1>12, <1>13, <1>14, <1>15 DEF ChainInv

\* The record that is unlinked is where the chain says, and knows its predecessor.
LEMMA TargetFacts ==
  ASSUME ChainInv, FilesOK, LinksOK, pc = "unlink", op.kind # "undo"
  PROVE  LET p == ram[op.target].prev IN
         /\ op.target \in Chain(ram) /\ p \in Chain(ram) /\ p # 0 /\ ram[p].next = op.target
         /\ \A a \in Chain(ram) : ram[a].next # 0 => ram[ram[a].next].prev = a
<1>1. /\ Links(ram) /\ Chain(ram) \subseteq Cells /\ table \in [Fids -> 0..(EndPool - 1)]
  BY ChainFacts
<1>2. op.target \in Cells /\ op.kind \in {"write", "delete"} /\ op.fid \in Fids
  BY DEF ChainInv, ChainTypes, ChainOpType, OpOK, Clearing
<1>3. op.target = table[op.fid] /\ op.target # 0
  BY <1>1, <1>2, FlashChainAssumption DEF FilesOK, Clearing, Cells
<1>4. TableCells(table) \subseteq OnChain
  BY <1>2 DEF OnChain, Unlinked
<1>5. op.target \in Chain(ram) /\ op.target # EndPool
  BY <1>2, <1>3, <1>4 DEF FilesOK, TableCells
<1>6. PICK q \in Chain(ram) : ram[q].next = op.target
  BY <1>1, <1>5, ChainPred
<1>7. OddCell = 0
  BY DEF OddCell
<1>8. \A a \in Chain(ram) : a # 0
  BY <1>1, LinkFacts
<1>9. \A a \in Chain(ram) : ram[a].next # 0 => ram[ram[a].next].prev = a
  BY <1>7, <1>8 DEF LinksOK
<1>10. ram[op.target].prev = q
  BY <1>3, <1>6, <1>9
<1> QED BY <1>5, <1>6, <1>8, <1>9, <1>10

\* flash_clear_file: the predecessor skips the record, which may be one that was never published, ...
LEMMA UnlinkInv ==
  ASSUME ChainInv, Unlink
  PROVE  ChainInv'
<1> DEFINE t == op.target
<1> DEFINE p == ram[t].prev
<1> DEFINE n == ram[t].next
<1>1. /\ pc = "unlink" /\ pc' = "zero"
      /\ UNCHANGED <<disk, stored, touched, cleared, ops, crashes, giveUps, table>>
      /\ ram' = IF p = 0 THEN ram ELSE PutNext(ram, p, n)
      /\ op' = [op EXCEPT !.prev = p, !.next = n]
  BY DEF Unlink, Step, PutNext
<1>2. /\ Links(ram) /\ Chain(ram) \subseteq Cells /\ table \in [Fids -> 0..(EndPool - 1)]
      /\ op \in ChainOpType /\ EndPool \in Nat
  BY ChainFacts
<1>3. t \in Cells /\ t < EndPool /\ op.kind \in {"write", "undo", "delete"} /\ op.fid \in Fids
  BY <1>1, <1>2 DEF ChainInv, OpOK, Clearing, ChainOpType
<1>4. /\ n < t /\ (p = 0 \/ p > t) /\ n \in 0..EndPool /\ p \in 0..EndPool /\ t \in Nat
      /\ p # 0 => p \in Cells /\ n < p
  BY <1>2, <1>3, LinkFacts DEF Cells
<1>5. /\ op'.kind = op.kind /\ op'.fid = op.fid /\ op'.base = op.base /\ op'.new = op.new
      /\ op'.target = t /\ op'.prev = p /\ op'.next = n /\ op' \in ChainOpType
  BY <1>1, <1>2, <1>4 DEF ChainOpType
<1>6. op.kind = "undo" => /\ Waits(ram, op.base, op.new) /\ t = op.new /\ p = op.base
                          /\ n = ram[op.base].next /\ t \notin Chain(ram) /\ op.base \in Chain(ram)
                          /\ op.base \in Cells
  BY <1>1, <1>2, WaitsOff DEF ChainInv, OpOK, Waits
<1>7. op.kind = "write" => op.new \in Cells /\ op.new < EndPool
  BY <1>1 DEF ChainInv, OpOK, Clearing
<1>8. /\ Links(ram') /\ (p # 0 => ram'[p].next = n)
      /\ \A a \in Cells : /\ ram'[a].prev = ram[a].prev /\ ram'[a].fid = ram[a].fid
                          /\ ram'[a].val = ram[a].val /\ (a # p => ram'[a] = ram[a])
  <2>1. CASE p = 0
    BY <2>1, <1>1, <1>2
  <2>2. CASE p # 0
    <3>1. ram' = PutNext(ram, p, n) /\ p \in Cells /\ n \in 0..EndPool /\ n < p
      BY <2>2, <1>1, <1>4
    <3> HIDE DEF p, n
    <3> QED BY <3>1, <1>2, PutNextFacts
  <2> QED BY <2>1, <2>2
<1>9. ChainTypes'
  BY <1>1, <1>2, <1>5, <1>8, StepTypes DEF ChainInv, ChainTypes
<1> HIDE DEF t, p, n
<1>10. CASE op.kind = "undo"
  <2>1. \A a \in Cells : ram'[a].next = ram[a].next
    <3>1. p # 0 /\ ram'[p].next = ram[p].next
      BY <1>6, <1>8, <1>10, FlashChainAssumption DEF Cells
    <3> QED BY <3>1, <1>8
  <2>2. Chain(ram') = Chain(ram)
    BY <2>1, <1>2, <1>8, ChainSame
  <2>3. OpOK'
    <3>1. Waits(ram', op.base, op.new)
      BY <2>1, <2>2, <1>6, <1>8, <1>10 DEF Waits
    <3>2. op'.next = ram'[op'.new].next
      BY <2>1, <1>3, <1>5, <1>6, <1>10 DEF n
    <3> QED BY <3>1, <3>2, <1>1, <1>3, <1>4, <1>5, <1>6, <1>10 DEF OpOK, Writing, Clearing, Unlinked
  <2>4. ASSUME FilesOK PROVE FilesOK'
    <3>1. \A g \in Fids : table[g] # 0 => table[g] \in Cells
      BY <1>2 DEF Cells
    <3>2. OnChain' = OnChain
      BY <1>1, <1>5, <1>10 DEF OnChain, Unlinked
    <3> QED BY <2>2, <2>4, <3>1, <3>2, <1>1, <1>5, <1>8, <1>10 DEF FilesOK, Clearing
  <2>5. ASSUME LinksOK PROVE LinksOK'
    <3>1. OddCell = op.base /\ OddBack = op.new /\ OddCell' = op.base /\ OddBack' = op.new
      BY <1>1, <1>5, <1>6, <1>10 DEF OddCell, OddBack
    <3>2. \A a \in Chain(ram) : ram[a].next # 0 => ram[a].next \in Cells
      BY <1>2, LinkFacts
    <3>3. op'.prev \in Chain(ram') /\ ram'[op'.prev].next = op'.next
      BY <2>1, <2>2, <1>5, <1>6, <1>10
    <3> QED BY <2>1, <2>2, <2>5, <3>1, <3>2, <3>3, <1>2, <1>8 DEF LinksOK
  <2>6. ASSUME DiskOK PROVE DiskOK'
    <3>1. Quiet(ram, ram', touched')
      BY <2>1, <1>2, <1>8 DEF Quiet
    <3>2. \E S \in SUBSET Cells : Backed(ram', disk', touched', S)
      BY <2>6, <3>1, <1>1, <1>8, DiskQuiet
    <3>3. ASSUME NEW g \in Fids \ touched'
          PROVE  stored'[g] = Contents(ram', table')[g]
      <4>1. stored[g] = Contents(ram, table)[g]
        BY <2>6, <1>1 DEF DiskOK
      <4>2. table[g] # 0 => table[g] \in Cells
        BY <1>2 DEF Cells
      <4> QED BY <4>1, <4>2, <1>1, <1>8 DEF Contents
    <3> QED BY <2>6, <3>2, <3>3, <1>1, <1>5, <1>10 DEF DiskOK
  <2> QED BY <2>3, <2>4, <2>5, <2>6, <1>1, <1>9 DEF ChainInv
<1>11. CASE op.kind # "undo"
  <2>1. OpOK'
    BY <1>1, <1>3, <1>4, <1>5, <1>7, <1>11 DEF OpOK, Writing, Clearing, Unlinked
  <2>2. cleared
    BY <1>1, <1>11 DEF ChainInv, DiskOK, Clearing
  <2>3. ASSUME FilesOK, LinksOK PROVE FilesOK' /\ LinksOK'
    <3>1. /\ t \in Chain(ram) /\ p \in Chain(ram) /\ p # 0 /\ ram[p].next = t
          /\ \A a \in Chain(ram) : ram[a].next # 0 => ram[ram[a].next].prev = a
      BY <2>3, <1>1, <1>11, TargetFacts DEF t, p
    <3>2. t # 0 /\ p \in Cells /\ p # t
      BY <1>3, <1>4, <3>1, FlashChainAssumption DEF Cells
    <3>3. ram'[p].next = ram[t].next /\ \A a \in Chain(ram) \ {p, t} : ram'[a].next = ram[a].next
      BY <3>1, <1>2, <1>8 DEF n
    <3>4. Chain(ram') = Chain(ram) \ {t}
      BY <3>1, <3>2, <3>3, <1>2, <1>8, ChainRemove
    <3>5. FilesOK'
      <4>1. \A g \in Fids : table[g] # 0 => table[g] \in Cells
        BY <1>2 DEF Cells
      <4>2. op.kind = "write" => op.new # t /\ ram[op.new].fid = op.fid
        BY <2>3, <1>1 DEF FilesOK, Clearing, t
      <4>3. OnChain' = OnChain \ {t}
        BY <4>2, <1>1, <1>3, <1>5, <1>11 DEF OnChain, Unlinked
      <4>4. Chain(ram') \ {EndPool} = OnChain'
        BY <4>3, <3>4, <2>3 DEF FilesOK
      <4>5. op.target = table[op.fid]
        BY <2>3, <1>1, <1>11 DEF FilesOK, Clearing
      <4>6. \A g \in Fids : table'[g] # 0 => ram'[table'[g]].fid = g
        BY <4>1, <2>3, <1>1, <1>8 DEF FilesOK
      <4> QED BY <4>2, <4>4, <4>5, <4>6, <1>1, <1>5, <1>7, <1>8 DEF FilesOK, Clearing, t
    <3>6. LinksOK'
      <4>1. OddCell' = p /\ OddBack' = t /\ op'.prev \in Chain(ram') /\ ram'[op'.prev].next = op'.next
        BY <3>1, <3>2, <3>4, <1>1, <1>5, <1>8 DEF OddCell, OddBack
      <4>2. ASSUME NEW a \in Chain(ram'), ram'[a].next # 0
            PROVE  ram'[ram'[a].next].prev = IF a = p THEN t ELSE a
        <5>1. a \in Chain(ram) /\ a # t /\ a \in Cells
          BY <3>4, <1>2
        <5>2. CASE a = p
          <6>1. ram'[a].next = n /\ n # 0
            BY <5>2, <4>2, <1>8, <3>1
          <6>2. ram[n].prev = t /\ n \in Cells
            BY <6>1, <3>1, <1>2, <1>3, LinkFacts DEF n
          <6> QED BY <5>2, <6>1, <6>2, <1>8
        <5>3. CASE a # p
          <6>1. ram'[a].next = ram[a].next
            BY <5>1, <5>3, <1>8
          <6>2. ram[a].next \in Cells /\ ram[ram[a].next].prev = a
            BY <6>1, <5>1, <4>2, <3>1, <1>2, LinkFacts
          <6> QED BY <5>3, <6>1, <6>2, <1>8
        <5> QED BY <5>2, <5>3
      <4> QED BY <4>1, <4>2 DEF LinksOK
    <3> QED BY <3>5, <3>6
  <2> QED BY <2>1, <2>2, <2>3, <1>1, <1>9 DEF ChainInv
<1> QED BY <1>10, <1>11

\* ... its payload is zeroed, ...
LEMMA ZeroInv ==
  ASSUME ChainInv, Zero
  PROVE  ChainInv'
<1> DEFINE t == op.target
<1>1. /\ pc = "zero" /\ pc' = "relink"
      /\ UNCHANGED <<disk, stored, touched, cleared, ops, crashes, giveUps, table, op>>
      /\ ram' = PutVal(ram, t, NoVal)
  BY DEF Zero, Step, PutVal
<1>2. /\ Links(ram) /\ Chain(ram) \subseteq Cells /\ table \in [Fids -> 0..(EndPool - 1)]
      /\ op \in ChainOpType /\ EndPool \in Nat
  BY ChainFacts
<1>3. t \in Cells
  BY <1>1 DEF ChainInv, OpOK, Clearing
<1>4. /\ Links(ram')
      /\ \A a \in Cells : /\ ram'[a].next = ram[a].next /\ ram'[a].prev = ram[a].prev
                          /\ ram'[a].fid = ram[a].fid
                          /\ a # t => ram'[a] = ram[a]
  BY <1>1, <1>2, <1>3, PutValFacts
<1>5. Chain(ram') = Chain(ram)
  BY <1>2, <1>4, ChainSame
<1>6. ChainTypes'
  BY <1>1, <1>2, <1>4, StepTypes DEF ChainInv, ChainTypes
<1>7. op.kind = "undo" => /\ Waits(ram, op.base, op.new) /\ t = op.new /\ t \notin Chain(ram)
                          /\ op.base \in Cells
  BY <1>1, <1>2, WaitsOff DEF ChainInv, OpOK
<1>8. OpOK'
  <2>1. op.kind = "undo" => Waits(ram', op.base, op.new)
    BY <1>3, <1>4, <1>5, <1>7 DEF Waits
  <2>2. op.kind = "undo" => ram'[op.new].next = ram[op.new].next
    BY <1>3, <1>4, <1>7
  <2> QED BY <2>1, <2>2, <1>1 DEF ChainInv, OpOK, Writing, Clearing, Unlinked
<1>9. FilesOK => FilesOK'
  <2>1. \A g \in Fids : table[g] # 0 => table[g] \in Cells
    BY <1>2 DEF Cells
  <2>2. OnChain' = OnChain
    BY <1>1 DEF OnChain, Unlinked
  <2>3. op.kind = "write" => op.new \in Cells
    BY <1>1 DEF ChainInv, OpOK, Clearing
  <2> QED BY <2>1, <2>2, <2>3, <1>1, <1>4, <1>5 DEF FilesOK, Clearing
<1>10. LinksOK => LinksOK'
  <2>1. \A a \in Chain(ram) : ram[a].next # 0 => ram[a].next \in Cells
    BY <1>2, LinkFacts
  <2>2. OddCell' = OddCell /\ OddBack' = OddBack
    BY <1>1 DEF OddCell, OddBack
  <2> QED BY <2>1, <2>2, <1>1, <1>2, <1>4, <1>5 DEF LinksOK
<1>11. ASSUME DiskOK, FilesOK PROVE DiskOK'
  <2>1. op.kind = "undo"
    BY <1>1, <1>11 DEF DiskOK, Clearing
  <2>2. Quiet(ram, ram', touched')
    BY <2>1, <1>2, <1>4, <1>7 DEF Quiet
  <2>3. \E S \in SUBSET Cells : Backed(ram', disk', touched', S)
    BY <2>2, <1>1, <1>4, <1>11, DiskQuiet
  <2>4. ASSUME NEW g \in Fids \ touched'
        PROVE  stored'[g] = Contents(ram', table')[g]
    <3>1. stored[g] = Contents(ram, table)[g]
      BY <1>1, <1>11 DEF DiskOK
    <3>2. table[g] # 0 => table[g] \in Cells /\ table[g] # t
      BY <2>1, <1>7, <1>11, FilesOnChain
    <3> QED BY <3>1, <3>2, <1>1, <1>4 DEF Contents
  <2> QED BY <2>1, <2>3, <2>4, <1>1, <1>11 DEF DiskOK
<1> QED BY <1>1, <1>6, <1>8, <1>9, <1>10, <1>11 DEF ChainInv

\* ... its successor is linked back, ...
LEMMA RelinkInv ==
  ASSUME ChainInv, Relink
  PROVE  ChainInv'
<1> DEFINE n == op.next
<1> DEFINE p == op.prev
<1>1. /\ pc = "relink" /\ pc' = "wipe"
      /\ UNCHANGED <<disk, stored, touched, cleared, ops, crashes, giveUps, table, op>>
      /\ ram' = IF n = 0 THEN ram ELSE PutPrev(ram, n, p)
  BY DEF Relink, Step, PutPrev
<1>2. /\ Links(ram) /\ Chain(ram) \subseteq Cells /\ table \in [Fids -> 0..(EndPool - 1)]
      /\ op \in ChainOpType /\ EndPool \in Nat
  BY ChainFacts
<1>3. /\ op.target \in Cells /\ n < op.target /\ (p = 0 \/ p > op.target)
      /\ n \in 0..EndPool /\ p \in 0..EndPool
  BY <1>1, <1>2 DEF ChainInv, OpOK, Clearing, Unlinked, ChainOpType
<1>4. n # 0 => n \in Cells /\ (p = 0 \/ p > n)
  BY <1>2, <1>3 DEF Cells
<1>5. op.kind = "undo" => /\ Waits(ram, op.base, op.new) /\ op.target = op.new /\ op.new \in Cells
                          /\ op.base \in Cells
  BY <1>1, <1>2, WaitsOff DEF ChainInv, OpOK
<1>6. n # op.target
  BY <1>3 DEF Cells
<1> HIDE DEF n, p
<1>7. /\ Links(ram')
      /\ \A a \in Cells : /\ ram'[a].next = ram[a].next /\ ram'[a].fid = ram[a].fid
                          /\ ram'[a].val = ram[a].val /\ (a # n => ram'[a] = ram[a])
      /\ n # 0 => ram'[n].prev = p
  <2>1. CASE n = 0
    BY <2>1, <1>1, <1>2
  <2>2. CASE n # 0
    BY <2>2, <1>1, <1>2, <1>3, <1>4, PutPrevFacts
  <2> QED BY <2>1, <2>2
<1>8. Chain(ram') = Chain(ram)
  BY <1>2, <1>7, ChainSame
<1>9. ChainTypes'
  BY <1>1, <1>2, <1>7, StepTypes DEF ChainInv, ChainTypes
<1>10. OpOK'
  <2>1. op.kind = "undo" => Waits(ram', op.base, op.new)
    BY <1>5, <1>6, <1>7, <1>8 DEF Waits
  <2>2. op.kind = "undo" => ram'[op.new].next = ram[op.new].next
    BY <1>5, <1>7
  <2> QED BY <2>1, <2>2, <1>1 DEF ChainInv, OpOK, Writing, Clearing, Unlinked
<1>11. FilesOK => FilesOK'
  <2>1. \A g \in Fids : table[g] # 0 => table[g] \in Cells
    BY <1>2 DEF Cells
  <2>2. OnChain' = OnChain
    BY <1>1 DEF OnChain, Unlinked
  <2>3. op.kind = "write" => op.new \in Cells
    BY <1>1 DEF ChainInv, OpOK, Clearing
  <2> QED BY <2>1, <2>2, <2>3, <1>1, <1>7, <1>8 DEF FilesOK, Clearing
<1>12. ASSUME LinksOK PROVE LinksOK'
  <2>1. p \in Chain(ram) /\ ram[p].next = n /\ OddCell = p /\ OddCell' = 0
    BY <1>1, <1>12 DEF LinksOK, OddCell, n, p
  <2>2. ASSUME NEW a \in Chain(ram), ram[a].next # 0
        PROVE  ram'[ram[a].next].prev = a /\ a # 0
    <3>1. a \in Cells /\ a # 0 /\ ram[a].next \in Cells
      BY <2>2, <1>2, LinkFacts
    <3>2. CASE a = p
      BY <3>1, <3>2, <2>1, <2>2, <1>7
    <3>3. CASE a # p
      <4>1. ram[ram[a].next].prev = a
        BY <3>3, <2>1, <2>2, <1>12 DEF LinksOK
      <4>2. ram[a].next # n
        BY <3>3, <2>1, <2>2, <1>2, ChainPredUnique
      <4> QED BY <3>1, <4>1, <4>2, <1>7
    <3> QED BY <3>2, <3>3
  <2>3. \A a \in Chain(ram') : a \in Chain(ram) /\ ram'[a].next = ram[a].next
    BY <1>2, <1>7, <1>8
  <2> QED BY <2>1, <2>2, <2>3, <1>1 DEF LinksOK
<1>13. ASSUME DiskOK PROVE DiskOK'
  <2>1. Quiet(ram, ram', touched')
    BY <1>2, <1>7 DEF Quiet
  <2>2. \E S \in SUBSET Cells : Backed(ram', disk', touched', S)
    BY <2>1, <1>1, <1>7, <1>13, DiskQuiet
  <2>3. ASSUME NEW g \in Fids \ touched'
        PROVE  stored'[g] = Contents(ram', table')[g]
    <3>1. stored[g] = Contents(ram, table)[g]
      BY <1>1, <1>13 DEF DiskOK
    <3>2. table[g] # 0 => table[g] \in Cells
      BY <1>2 DEF Cells
    <3> QED BY <3>1, <3>2, <1>1, <1>7 DEF Contents
  <2> QED BY <2>2, <2>3, <1>1, <1>13 DEF DiskOK, Clearing
<1> QED BY <1>1, <1>9, <1>10, <1>11, <1>12, <1>13 DEF ChainInv

\* ... and it is wiped.
LEMMA WipeInv ==
  ASSUME ChainInv, Wipe
  PROVE  ChainInv'
<1> DEFINE t == op.target
<1>1. /\ pc = "wipe" /\ pc' = "idle"
      /\ UNCHANGED <<disk, stored, touched, cleared, ops, crashes, giveUps>>
      /\ op' = NoOp
      /\ ram' = PutLinks(ram, t, 0, 0)
  BY DEF Wipe, Step, PutLinks
<1>2. /\ Links(ram) /\ Chain(ram) \subseteq Cells /\ table \in [Fids -> 0..(EndPool - 1)]
      /\ op \in ChainOpType /\ EndPool \in Nat
  BY ChainFacts
<1>3. /\ t \in Cells /\ op.kind \in {"write", "undo", "delete"} /\ op.fid \in Fids
      /\ op.kind = "write" => op.new \in Cells /\ op.new < EndPool
  BY <1>1, <1>2 DEF ChainInv, OpOK, Clearing, ChainOpType
<1>4. /\ op.kind = "write" => table' = [table EXCEPT ![op.fid] = op.new]
      /\ op.kind = "delete" => table' = [table EXCEPT ![op.fid] = 0]
      /\ op.kind = "undo" => table' = table
  BY <1>3 DEF Wipe
<1>5. table' \in [Fids -> 0..(EndPool - 1)]
  <2>1. 0 \in 0..(EndPool - 1) /\ (op.kind = "write" => op.new \in 0..(EndPool - 1))
    BY <1>2, <1>3, FlashChainAssumption DEF Cells
  <2> QED BY <2>1, <1>2, <1>3, <1>4
<1>6. op'.kind = "none" /\ op' \in ChainOpType
  BY <1>1, FlashChainAssumption DEF NoOp, ChainOpType
<1>7. /\ Links(ram')
      /\ \A a \in Cells : /\ ram'[a].fid = ram[a].fid
                          /\ ram'[a].val = ram[a].val /\ (a # t => ram'[a] = ram[a])
  <2>1. \E z \in 0..EndPool : z = 0 /\ z < t
    BY <1>3, FlashChainAssumption DEF Cells
  <2>2. PICK z \in 0..EndPool : z = 0 /\ z < t
    BY <2>1
  <2>3. ram' = PutLinks(ram, t, z, z)
    BY <2>2, <1>1
  <2> HIDE DEF t
  <2> QED BY <2>2, <2>3, <1>2, <1>3, PutLinksFacts
<1>8. ChainTypes'
  <2>1. touched' \subseteq Fids /\ cleared' \in BOOLEAN /\ ops' \in 0..MaxOps /\ giveUps' \in 0..MaxGiveUps
    BY <1>1 DEF ChainInv, ChainTypes
  <2> QED BY <2>1, <1>1, <1>5, <1>6, <1>7, TypesStep
<1>9. OpOK'
  BY <1>1, <1>6 DEF OpOK, Writing, Clearing, Unlinked
<1>10. ASSUME FilesOK
       PROVE  t \notin Chain(ram) /\ Chain(ram') = Chain(ram) /\ FilesOK'
  <2>1. op.kind = "undo" => t \notin Chain(ram)
    BY <1>1, <1>2, WaitsOff DEF ChainInv, OpOK
  <2>2. op.kind # "undo" => t = table[op.fid] /\ (op.kind = "write" => op.new # t /\ ram[op.new].fid = op.fid)
    BY <1>1, <1>10 DEF FilesOK, Clearing
  <2>3. /\ op.kind = "write" => OnChain = (TableCells(table) \ {t}) \cup {op.new}
        /\ op.kind = "delete" => OnChain = TableCells(table) \ {t}
        /\ op.kind = "undo" => OnChain = TableCells(table)
    BY <1>1, <1>3 DEF OnChain, Unlinked
  <2>4. t # EndPool
    BY <1>1, <1>2 DEF ChainInv, OpOK, Clearing, Cells
  <2>5. t \notin Chain(ram)
    BY <2>1, <2>2, <2>3, <2>4, <1>3, <1>10 DEF FilesOK
  <2>6. Chain(ram') = Chain(ram)
    BY <2>5, <1>2, <1>7, ChainSame
  <2>7. \A g \in Fids : table[g] # 0 => ram[table[g]].fid = g /\ table[g] \in Cells
    BY <1>2, <1>10 DEF FilesOK, Cells
  <2>8. \A g \in Fids : g # op.fid => table'[g] = table[g]
    BY <1>2, <1>3, <1>4
  <2>9. /\ op.kind = "write" => table'[op.fid] = op.new
        /\ op.kind = "delete" => table'[op.fid] = 0
    BY <1>2, <1>3, <1>4
  <2>10. \A g \in Fids : table'[g] # 0 => ram'[table'[g]].fid = g
    BY <2>2, <2>7, <2>8, <2>9, <1>3, <1>4, <1>7
  <2>11. TableCells(table') = OnChain
    <3>1. t # 0 /\ (op.kind = "write" => op.new # 0)
      BY <1>3, FlashChainAssumption DEF Cells
    <3>2. op.kind # "undo" => \A g \in Fids : table[g] = t => g = op.fid
      BY <2>2, <2>7, <3>1, <1>3
    <3>3. CASE op.kind = "write"
      BY <3>1, <3>2, <3>3, <2>2, <2>3, <2>8, <2>9, <1>3 DEF TableCells
    <3>4. CASE op.kind = "delete"
      BY <3>1, <3>2, <3>4, <2>2, <2>3, <2>8, <2>9, <1>3 DEF TableCells
    <3>5. CASE op.kind = "undo"
      BY <3>5, <2>3, <1>4
    <3> QED BY <3>3, <3>4, <3>5, <1>3
  <2>12. OnChain' = TableCells(table')
    BY <1>1, <1>6 DEF OnChain
  <2> QED BY <2>5, <2>6, <2>10, <2>11, <2>12, <1>1, <1>6, <1>10 DEF FilesOK, Clearing
<1>11. ASSUME FilesOK, LinksOK PROVE LinksOK'
  <2>1. OddCell' = 0 /\ OddCell = 0
    BY <1>1 DEF OddCell
  <2>2. \A a \in Chain(ram) : a # 0 /\ a # t /\ ram'[a] = ram[a]
    BY <1>2, <1>7, <1>10, <1>11, LinkFacts
  <2>3. \A a \in Chain(ram) : ram[a].next # 0 => ram[a].next \in Chain(ram)
    BY <1>2, ChainCloses
  <2>4. \A a \in Chain(ram) : ram[a].next # 0 => ram[ram[a].next].prev = a
    BY <2>1, <2>2, <1>11 DEF LinksOK
  <2>5. \A a \in Chain(ram') : ram'[a].next # 0 => ram'[ram'[a].next].prev = a
    BY <2>2, <2>3, <2>4, <1>10, <1>11
  <2> QED BY <2>1, <2>2, <2>5, <1>1, <1>10, <1>11 DEF LinksOK
<1>12. ASSUME FilesOK, DiskOK PROVE DiskOK'
  <2>1. op.kind = "undo" /\ table' = table
    BY <1>1, <1>4, <1>12 DEF DiskOK, Clearing
  <2>2. Quiet(ram, ram', touched')
    BY <1>2, <1>7, <1>10, <1>12 DEF Quiet
  <2>3. \E S \in SUBSET Cells : Backed(ram', disk', touched', S)
    BY <2>2, <1>1, <1>7, <1>12, DiskQuiet
  <2>4. ASSUME NEW g \in Fids \ touched'
        PROVE  stored'[g] = Contents(ram', table')[g]
    <3>1. stored[g] = Contents(ram, table)[g]
      BY <1>1, <1>12 DEF DiskOK
    <3>2. table[g] # 0 => table[g] \in Cells
      BY <1>2 DEF Cells
    <3> QED BY <2>1, <3>1, <3>2, <1>1, <1>7 DEF Contents
  <2> QED BY <2>3, <2>4, <1>1, <1>6 DEF DiskOK, Clearing
<1> QED BY <1>1, <1>8, <1>9, <1>10, <1>11, <1>12 DEF ChainInv

-----------------------------------------------------------------------------
(* Flash, and losses of power. *)

\* A sector reaches flash at any moment.
LEMMA FlushInv ==
  ASSUME ChainInv, NEW s \in Sectors, Flush(s)
  PROVE  ChainInv'
<1>1. /\ disk' = SectorWritten(ram, disk, s) /\ disk' # disk
      /\ UNCHANGED <<ram, table, pc, op, stored, touched, cleared, ops, crashes, giveUps>>
  BY DEF Flush, SectorWritten
<1>2. Links(ram) /\ Links(disk)
  BY ChainFacts
<1>3. Links(disk')
  BY <1>1, <1>2 DEF Links, SectorWritten, Downward
<1>4. ChainTypes'
  BY <1>1, <1>3 DEF ChainInv, ChainTypes, Links
<1>5. ram = disk => disk' = disk
  BY <1>1, <1>2 DEF SectorWritten, Links
<1>6. OpOK'
  BY <1>1, <1>5 DEF ChainInv, OpOK, Writing, Clearing, Unlinked
<1>7. FilesOK => FilesOK'
  BY <1>1 DEF FilesOK, OnChain, Clearing, Unlinked
<1>8. LinksOK => LinksOK'
  BY <1>1 DEF LinksOK, OddCell, OddBack
<1>9. ASSUME DiskOK PROVE DiskOK'
  <2>1. PICK S \in SUBSET Cells : Backed(ram, disk, touched, S)
    BY <1>9 DEF DiskOK
  <2>2. \E U \in SUBSET Cells : Backed(ram, disk', touched, U)
    BY <2>1, <1>1, <1>2, BackedFlush
  <2> QED BY <2>2, <1>1, <1>9 DEF DiskOK, Clearing
<1> QED BY <1>1, <1>4, <1>6, <1>7, <1>8, <1>9 DEF ChainInv

\* All of them are in flash.
LEMMA SettleInv ==
  ASSUME ChainInv, Settle
  PROVE  ChainInv'
<1>1. /\ pc = "idle" /\ ram = disk /\ stored' = Contents(ram, table) /\ touched' = {}
      /\ cleared' = (cleared /\ crashes > 0)
      /\ UNCHANGED <<ram, disk, table, pc, op, ops, crashes, giveUps>>
  BY DEF Settle
<1>2. Links(ram) /\ Links(disk) /\ table \in [Fids -> 0..(EndPool - 1)] /\ op.kind = "none"
  BY <1>1, ChainFacts DEF ChainInv, OpOK
<1>3. stored' \in [Fids -> Vals \cup {NoVal}]
  <2>1. ASSUME NEW g \in Fids, table[g] # 0 PROVE ram[table[g]].val \in Vals \cup {NoVal}
    <3>1. table[g] \in Cells
      BY <2>1, <1>2, FlashChainAssumption DEF Cells
    <3> QED BY <3>1, <1>2, LinkFacts
  <2> QED BY <2>1, <1>1 DEF Contents
<1>4. ChainTypes'
  <2>1. touched' \subseteq Fids /\ cleared' \in BOOLEAN
    BY <1>1
  <2>2. /\ ram' \in [Cells -> CellType] /\ disk' \in [Cells -> CellType]
        /\ Downward(ram') /\ Downward(disk')
        /\ table' \in [Fids -> 0..(EndPool - 1)] /\ op' \in ChainOpType
        /\ ops' \in 0..MaxOps /\ crashes' \in 0..MaxCrashes /\ giveUps' \in 0..MaxGiveUps
    BY <1>1 DEF ChainInv, ChainTypes
  <2> QED BY <1>3, <2>1, <2>2, Zenon DEF ChainTypes
<1>5. OpOK'
  BY <1>1, <1>2 DEF ChainInv, OpOK, Writing, Clearing, Unlinked
<1>6. FilesOK => FilesOK'
  BY <1>1 DEF FilesOK, OnChain, Clearing, Unlinked
<1>7. LinksOK => LinksOK'
  BY <1>1 DEF LinksOK, OddCell, OddBack
<1>8. ~cleared' => crashes = 0 \/ ~cleared
  BY <1>1, FlashChainAssumption DEF ChainInv, ChainTypes
<1>9. DiskOK'
  <2>1. Backed(ram', disk', touched', Chain(ram)) /\ Chain(ram) \in SUBSET Cells
    BY <1>1, <1>2, BackedSelf, ChainCloses
  <2> QED BY <2>1, <1>1, <1>2 DEF DiskOK, Clearing
<1> QED BY <1>1, <1>4, <1>5, <1>6, <1>7, <1>8, <1>9 DEF ChainInv

\* Power is lost, and the next boot scans what is in flash.
LEMMA CrashInv ==
  ASSUME ChainInv, Crash
  PROVE  ChainInv'
<1>1. /\ crashes < MaxCrashes /\ crashes' = crashes + 1 /\ ram' = disk /\ table' = scan(disk)
      /\ pc' = "idle" /\ op' = NoOp /\ stored' = Contents(disk, scan(disk)) /\ touched' = {}
      /\ UNCHANGED <<disk, cleared, ops, giveUps>>
  BY DEF Crash
<1>2. Links(ram) /\ Links(disk) /\ table \in [Fids -> 0..(EndPool - 1)]
  BY ChainFacts
<1>3. table' \in [Fids -> 0..(EndPool - 1)]
  BY <1>1, <1>2, ScanFacts
<1>4. op'.kind = "none" /\ op' \in ChainOpType
  BY <1>1, FlashChainAssumption DEF NoOp, ChainOpType
<1>5. crashes' \in 0..MaxCrashes /\ crashes' # 0
  BY <1>1, FlashChainAssumption DEF ChainInv, ChainTypes
<1>6. stored' \in [Fids -> Vals \cup {NoVal}]
  <2>1. ASSUME NEW g \in Fids, table'[g] # 0 PROVE disk[table'[g]].val \in Vals \cup {NoVal}
    <3>1. table'[g] \in Cells
      BY <2>1, <1>3, FlashChainAssumption DEF Cells
    <3> QED BY <3>1, <1>2, LinkFacts
  <2> QED BY <2>1, <1>1 DEF Contents
<1>7. ChainTypes'
  <2>1. touched' \subseteq Fids
    BY <1>1
  <2>2. /\ ram' \in [Cells -> CellType] /\ disk' \in [Cells -> CellType]
        /\ Downward(ram') /\ Downward(disk') /\ cleared' \in BOOLEAN
        /\ ops' \in 0..MaxOps /\ giveUps' \in 0..MaxGiveUps
    BY <1>1 DEF ChainInv, ChainTypes
  <2> QED BY <1>3, <1>4, <1>5, <1>6, <2>1, <2>2, Zenon DEF ChainTypes
<1>8. OpOK'
  BY <1>1, <1>4 DEF OpOK, Writing, Clearing, Unlinked
<1>9. ASSUME ~cleared PROVE FilesOK'
  <2>1. FilesOK /\ DiskOK
    BY <1>9 DEF ChainInv
  <2>2. Chain(ram) \ {EndPool} = TableCells(table)
    BY <2>1 DEF FilesOK, DiskOK, OnChain, Clearing, Unlinked
  <2>3. \A g \in Fids : table[g] # 0 => ram[table[g]].fid = g
    BY <2>1 DEF FilesOK
  <2>4. PICK S \in SUBSET Cells : Backed(ram, disk, touched, S)
    BY <2>1 DEF DiskOK
  <2>5. \A a \in Chain(disk) \ {EndPool} : disk[a].fid \in Fids /\ table[disk[a].fid] = a
    BY <1>2, <2>2, <2>3, <2>4, BackedFinds
  <2>6. /\ \A f \in Fids : scan(disk)[f] # 0 =>
             scan(disk)[f] \in Chain(disk) \ {EndPool} /\ disk[scan(disk)[f]].fid = f
        /\ \A f \in Fids : \A a \in Chain(disk) \ {EndPool} : disk[a].fid = f => scan(disk)[f] # 0
    BY <1>2, ScanFacts
  <2>7. \A a \in Chain(disk) \ {EndPool} : scan(disk)[disk[a].fid] = a /\ a # 0
    BY <2>5, <2>6
  <2>8. TableCells(scan(disk)) = Chain(disk) \ {EndPool}
    BY <2>5, <2>6, <2>7 DEF TableCells
  <2>9. OnChain' = TableCells(table')
    BY <1>1, <1>4 DEF OnChain
  <2> QED BY <2>6, <2>8, <2>9, <1>1, <1>4 DEF FilesOK, Clearing
<1>10. DiskOK'
  <2>1. Backed(ram', disk', touched', Chain(disk)) /\ Chain(disk) \in SUBSET Cells
    BY <1>1, <1>2, BackedSelf, ChainCloses
  <2> QED BY <2>1, <1>1, <1>4 DEF DiskOK, Clearing
<1> QED BY <1>1, <1>5, <1>7, <1>8, <1>9, <1>10 DEF ChainInv

\* Every step of the file records keeps the invariant.
LEMMA NextChainInv == ChainInv /\ [ChainNext]_chainVars => ChainInv'
<1> SUFFICES ASSUME ChainInv, [ChainNext]_chainVars PROVE ChainInv'
  OBVIOUS
<1>1. CASE UNCHANGED chainVars
  BY <1>1 DEF chainVars, ChainInv, ChainTypes, OpOK, FilesOK, OnChain, LinksOK, OddCell, OddBack, DiskOK,
     Writing, Clearing, Unlinked
<1>2. CASE \E f \in Fids : Delete(f) \/ \E v \in Vals : Update(f, v) \/ Allocate(f, v)
  BY <1>2, DeleteInv, UpdateInv, AllocateInv
<1>3. CASE BackLink \/ Fill \/ SyncRecord \/ SyncTimeout \/ Publish
  BY <1>3, BackLinkInv, FillInv, SyncRecordInv, SyncTimeoutInv, PublishInv
<1>4. CASE Unlink \/ Zero \/ Relink \/ Wipe
  BY <1>4, UnlinkInv, ZeroInv, RelinkInv, WipeInv
<1>5. CASE (\E s \in Sectors : Flush(s)) \/ Settle \/ Crash
  BY <1>5, FlushInv, SettleInv, CrashInv
<1> QED BY <1>1, <1>2, <1>3, <1>4, <1>5 DEF ChainNext

\* The strengthened invariant of the file records, in RAM and in flash.
THEOREM ChainInvariant == ChainSpec => []ChainInv
<1>1. ChainInit => ChainInv
  BY InitChainInv
<1>2. ChainInv /\ [ChainNext]_chainVars => ChainInv'
  BY NextChainInv
<1> QED BY <1>1, <1>2, PTL DEF ChainSpec

\* For every number of files, payloads and cells, and every size of sectors: as long as power stays
\* on the chain holds, between operations, exactly the records of the files, linked both ways; and
\* in flash links run down at every moment, so that scan_region comes to an end at the next boot.
THEOREM ChainHolds == ChainSpec => [](ChainTypeOK /\ ChainIsTheFiles)
<1>1. ChainInv => ChainTypeOK /\ ChainIsTheFiles
  BY ChainInvImplies
<1> QED BY <1>1, ChainInvariant, PTL

\* Files that nobody was changing are found again after a power loss at any moment, however much of
\* the changed sectors had reached flash, and in whichever order.
THEOREM UntouchedHold == ChainSpec => []UntouchedSurvive
<1>1. ChainInv => UntouchedSurvive
  BY ChainInvImplies
<1> QED BY <1>1, ChainInvariant, PTL
================================================================================
