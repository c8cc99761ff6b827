------------------------------- MODULE PageCache -------------------------------
(***************************************************************************)
(* The sector cache of fs/low_flash.c.  Both cores program blocks into RAM *)
(* copies of flash sectors; low_flash_task, on core 0's loop, writes the   *)
(* copies back once a commit has asked for it; flash_commit_sync waits on  *)
(* core 1 until the request is withdrawn, which says that nothing is left  *)
(* to write.                                                               *)
(*                                                                         *)
(* mtx_flash is held by the task for a whole pass, page by page, and by    *)
(* every other operation for one step.  An address is a sector and an      *)
(* offset in it.  flash_erase_page, which nothing in the repository calls, *)
(* is left out, and with it the erase mark of a page.                      *)
(***************************************************************************)
EXTENDS Naturals, Sequences, FiniteSets

CONSTANTS
  NSectors,    \* sectors 1..NSectors
  NOffsets,    \* offsets 1..NOffsets in each
  NPages,      \* TOTAL_FLASH_PAGES
  MaxBlocks, MaxCacheLosses  \* bounds: blocks programmed, power losses

ASSUME PageCacheAssumption ==
  /\ NSectors \in Nat \ {0} /\ NOffsets \in Nat \ {0} /\ NPages \in Nat \ {0}
  /\ MaxBlocks \in Nat /\ MaxCacheLosses \in Nat

VARIABLES
  sectors,    \* the sectors in flash
  pages,      \* flash_pages
  gates,      \* [available, lockedOut, dirty]: flash_available, locked_out, ready_pages
  turn,       \* the page low_flash_task is at, 0 when it does not hold mtx_flash
  cores,      \* what each core is doing: [at, left, word]
  held_ptr,   \* a pointer flash_read returned, which the caller still uses
  last,       \* ghost: what was last programmed at each address
  possible,   \* ghost: what flash may hold at each address, as far as the callers know
  covered,    \* ghost: the addresses nobody has programmed since core 1 last asked for a flush
  blocks, cacheLosses

cacheVars == <<sectors, pages, gates, turn, cores, held_ptr, last, possible, covered, blocks,
               cacheLosses>>

-----------------------------------------------------------------------------
FlashSectors == 1..NSectors
Offsets   == 1..NOffsets
Addresses == FlashSectors \X Offsets
Pages     == 1..NPages
CoreIds   == {0, 1}
Erased    == 0   \* what an erased offset reads as; a block programs its own number

\* A zeroed page, and a core that is in none of these functions.
EmptyPage == [ready |-> FALSE, address |-> 0, page |-> [o \in Offsets |-> Erased]]
AtRest    == [at |-> "rest", left |-> <<>>, word |-> Erased]
NoPointer == [page |-> 0, addr |-> <<0, 0>>]

\* The blocks clients program: one that fits its sector, or one that runs into the next.
Spans == {<<a>> : a \in Addresses}
           \cup {<<<<s, NOffsets>>, <<s + 1, 1>>>> : s \in 1..(NSectors - 1)}

PagesOf(s) == {r \in Pages : pages[r].ready /\ pages[r].address = s}
FreePages  == {r \in Pages : ~pages[r].ready}
FirstOf(R) == CHOOSE r \in R : \A q \in R : r <= q

PageCacheInit ==
  /\ sectors = [s \in FlashSectors |-> [o \in Offsets |-> Erased]]
  /\ pages = [r \in Pages |-> EmptyPage]
  /\ gates = [available |-> FALSE, lockedOut |-> FALSE, dirty |-> 0]
  /\ turn = 0 /\ cores = [c \in CoreIds |-> AtRest] /\ held_ptr = NoPointer
  /\ last = [a \in Addresses |-> Erased] /\ possible = [a \in Addresses |-> {Erased}]
  /\ covered = {} /\ blocks = 0 /\ cacheLosses = 0

\* Core c calls flash_program_block.  Core 1 runs only once it has been started.
ProgramBlock(c, span) ==
  /\ cores[c].at = "rest" /\ (c = 1 => gates.lockedOut) /\ (c = 0 => turn = 0)
  /\ blocks < MaxBlocks /\ blocks' = blocks + 1
  /\ cores' = [cores EXCEPT ![c] = [at |-> "program", left |-> span, word |-> blocks + 1]]
  /\ UNCHANGED <<sectors, pages, gates, turn, held_ptr, last, possible, covered, cacheLosses>>

\* Mutated form: an empty page is taken as it is, without the sector's contents.
find_free_page_NoCopy(s) ==
  IF PagesOf(s) # {} THEN [r |-> FirstOf(PagesOf(s)), page |-> pages[FirstOf(PagesOf(s))].page]
  ELSE [r |-> FirstOf(FreePages), page |-> pages[FirstOf(FreePages)].page]

\* find_free_page: the page that already holds the sector, or the first empty one, into which
\* the sector is copied.
find_free_page(s) ==
  IF PagesOf(s) # {} THEN [r |-> FirstOf(PagesOf(s)), page |-> pages[FirstOf(PagesOf(s))].page]
  ELSE [r |-> FirstOf(FreePages), page |-> sectors[s]]

\* One turn of its loop with a page for the sector: what lies in this sector is programmed.
ProgramChunk(c) ==
  LET addr == Head(cores[c].left) IN
  /\ turn = 0 /\ cores[c].at = "program" /\ PagesOf(addr[1]) \cup FreePages # {}
  /\ LET found == find_free_page(addr[1]) IN
     /\ pages' = [pages EXCEPT ![found.r] =
                    [ready |-> TRUE, address |-> addr[1],
                     page |-> [found.page EXCEPT ![addr[2]] = cores[c].word]]]
     /\ gates' = [gates EXCEPT !.dirty = IF pages[found.r].ready THEN @ ELSE @ + 1]
  /\ cores' = [cores EXCEPT ![c] = IF Len(cores[c].left) = 1 THEN AtRest
                                   ELSE [cores[c] EXCEPT !.left = Tail(cores[c].left)]]
  /\ last' = [last EXCEPT ![addr] = cores[c].word]
  /\ possible' = [possible EXCEPT ![addr] = @ \cup {cores[c].word}]
  /\ covered' = covered \ {addr} /\ held_ptr' = NoPointer
  /\ UNCHANGED <<sectors, turn, blocks, cacheLosses>>

\* low_flash_commit_sync begins.  Core 0, which would wait for itself, either is refused at once
\* or (where the core is not asked for) waits as long as it may.
AskFlush(c, then) ==
  /\ turn = 0
  /\ \/ /\ gates' = [gates EXCEPT !.available = TRUE]
        /\ cores' = [cores EXCEPT ![c].at = then]
        /\ covered' = IF c = 1 THEN Addresses ELSE covered
     \/ c = 0 /\ cores' = [cores EXCEPT ![0] = AtRest] /\ UNCHANGED <<gates, covered>>
  /\ UNCHANGED <<sectors, pages, turn, held_ptr, last, possible, blocks, cacheLosses>>

\* Every page is dirty: flash_program_block asks for a drain, ...
ProgramWhenFull(c) ==
  /\ cores[c].at = "program" /\ PagesOf(Head(cores[c].left)[1]) \cup FreePages = {}
  /\ AskFlush(c, "drain")

\* ... and a client asks for all it has programmed to be in flash.
CommitSync(c) ==
  /\ cores[c].at = "rest" /\ (c = 1 => gates.lockedOut) /\ (c = 0 => turn = 0)
  /\ AskFlush(c, "sync")

\* low_flash_commit, which does not wait.
LazyCommit ==
  /\ turn = 0 /\ ~gates.available /\ gates' = [gates EXCEPT !.available = TRUE]
  /\ UNCHANGED <<sectors, pages, turn, cores, held_ptr, last, possible, covered, blocks, cacheLosses>>

\* The wait ends well when the request has been withdrawn.  A client may count on what was
\* programmed before it asked.
Flushed(c) ==
  /\ turn = 0 /\ cores[c].at \in {"drain", "sync"} /\ ~gates.available
  /\ cores' = [cores EXCEPT ![c] = IF cores[c].at = "drain"
                                   THEN [cores[c] EXCEPT !.at = "program"] ELSE AtRest]
  /\ possible' = [a \in Addresses |-> IF a \in covered THEN {last[a]} ELSE possible[a]]
  /\ UNCHANGED <<sectors, pages, gates, turn, held_ptr, last, covered, blocks, cacheLosses>>

\* It ends badly when it takes too long, and what a block still had to program is not programmed.
FlushTimeout(c) ==
  /\ cores[c].at \in {"drain", "sync"} /\ cores' = [cores EXCEPT ![c] = AtRest]
  /\ UNCHANGED <<sectors, pages, gates, turn, held_ptr, last, possible, covered, blocks, cacheLosses>>

-----------------------------------------------------------------------------
\* low_flash_init_core1, when the worker of the first request starts.
InitCore1 ==
  /\ turn = 0 /\ ~gates.lockedOut /\ gates' = [gates EXCEPT !.lockedOut = TRUE]
  /\ UNCHANGED <<sectors, pages, turn, cores, held_ptr, last, possible, covered, blocks, cacheLosses>>

\* Mutated form: one pass withdraws the request, whatever it left behind.
Withdrawn_Always(g) == FALSE

\* The request is withdrawn once nothing is left to write.
Withdrawn(g) == g.available /\ g.dirty > 0

\* low_flash_task, between two turns of core 0's loop.
TaskStarts ==
  /\ turn = 0 /\ cores[0].at = "rest"
  /\ IF gates.lockedOut /\ gates.available /\ gates.dirty > 0
     THEN turn' = 1 /\ UNCHANGED gates
     ELSE gates.available /\ gates' = [gates EXCEPT !.available = Withdrawn(gates)] /\ UNCHANGED turn
  /\ UNCHANGED <<sectors, pages, cores, held_ptr, last, possible, covered, blocks, cacheLosses>>

\* A page: the other core does not stop in time and the page is left for the next pass; or the
\* sector is written, and unless the other core is late to resume the page is free again.
TaskPage ==
  /\ turn \in Pages /\ turn' = turn + 1
  /\ \/ UNCHANGED <<sectors, pages, gates>>
     \/ /\ pages[turn].ready
        /\ sectors' = [sectors EXCEPT ![pages[turn].address] = pages[turn].page]
        /\ \/ UNCHANGED <<pages, gates>>
           \/ /\ pages' = [pages EXCEPT ![turn].ready = FALSE]
              /\ gates' = [gates EXCEPT !.dirty = @ - 1]
  /\ UNCHANGED <<cores, held_ptr, last, possible, covered, blocks, cacheLosses>>

TaskEnds ==
  /\ turn = NPages + 1 /\ turn' = 0
  /\ gates' = [gates EXCEPT !.available = Withdrawn(gates)]
  /\ UNCHANGED <<sectors, pages, cores, held_ptr, last, possible, covered, blocks, cacheLosses>>

\* flash_read: a pointer into the page that holds the sector, or into flash (page 0).
FlashRead(a) ==
  /\ turn = 0 /\ cores[1].at = "rest" /\ held_ptr = NoPointer /\ last[a] # Erased
  /\ held_ptr' = [page |-> IF PagesOf(a[1]) = {} THEN 0 ELSE FirstOf(PagesOf(a[1])), addr |-> a]
  /\ UNCHANGED <<sectors, pages, gates, turn, cores, last, possible, covered, blocks, cacheLosses>>

\* Power is lost, low_flash_init starts anew.  The sector that was being written is left erased
\* or half written.
CachePowerLoss ==
  /\ cacheLosses < MaxCacheLosses /\ cacheLosses' = cacheLosses + 1
  /\ \/ UNCHANGED sectors
     \/ /\ turn \in Pages /\ pages[turn].ready
        /\ \E n \in 0..(NOffsets - 1) :
             sectors' = [sectors EXCEPT ![pages[turn].address] =
                         [o \in Offsets |-> IF o <= n THEN pages[turn].page[o] ELSE Erased]]
  /\ pages' = [r \in Pages |-> EmptyPage]
  /\ gates' = [available |-> FALSE, lockedOut |-> FALSE, dirty |-> 0]
  /\ turn' = 0 /\ cores' = [c \in CoreIds |-> AtRest] /\ held_ptr' = NoPointer
  /\ last' = [a \in Addresses |-> sectors'[a[1]][a[2]]]
  /\ possible' = [a \in Addresses |-> {last'[a]}]
  /\ covered' = {} /\ UNCHANGED blocks

PageCacheNext ==
  \/ \E c \in CoreIds : \/ \E span \in Spans : ProgramBlock(c, span)
                        \/ ProgramChunk(c) \/ ProgramWhenFull(c) \/ CommitSync(c)
                        \/ Flushed(c) \/ FlushTimeout(c)
  \/ LazyCommit \/ InitCore1
  \/ TaskStarts \/ TaskPage \/ TaskEnds
  \/ \E a \in Addresses : FlashRead(a)
  \/ CachePowerLoss

PageCacheSpec == PageCacheInit /\ [][PageCacheNext]_cacheVars

-----------------------------------------------------------------------------
\* What flash_read_block copies out of an address, and what a pointer points at.
ReadAt(a)  == IF PagesOf(a[1]) = {} THEN sectors[a[1]][a[2]]
              ELSE pages[FirstOf(PagesOf(a[1]))].page[a[2]]
Pointed(p) == IF p.page = 0 THEN sectors[p.addr[1]][p.addr[2]] ELSE pages[p.page].page[p.addr[2]]

\* What flash_commit_sync confirmed is in flash: at every moment, in the middle of a pass and
\* between the sectors of a block too, flash holds at an address what was programmed there before
\* the last confirmed commit or something programmed since, so that a loss of power takes back
\* nothing older.  (The sector being rewritten at the loss of power itself may be lost whole.)
SyncedIsInFlash ==
  \A a \in Addresses : sectors[a[1]][a[2]] \in possible[a]

\* Wherever a sector is (in its page, in flash, or in both after a pass that was held up), readers
\* see what was programmed last; and a pointer from flash_read keeps showing it, across the passes
\* that write its page back, until something is programmed.
ReadersSeeLastWrite ==
  /\ \A a \in Addresses : ReadAt(a) = last[a]
  /\ held_ptr # NoPointer => Pointed(held_ptr) = last[held_ptr.addr]
=================================================================================
