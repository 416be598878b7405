--------------------------- MODULE VirtualMemory ----------------------------
(***************************************************************************)
(* Project-Ex4: a virtual memory of hierarchical page tables that live in  *)
(* the frames of the RAM beside the pages, with a swap file.               *)
(*                                                                         *)
(* A call is one step for each level of the tables (findFrame's loop, with *)
(* createFrame when the entry is empty) and one for the access itself. The *)
(* code is sequential, so the steps do not interleave; they are there for  *)
(* what must hold between two levels.                                      *)
(*                                                                         *)
(* The recursive walks of the tree (getUnusedOrMaxFrame, findFrameToEvict) *)
(* visit pages in ascending order, so their result is written as a choice  *)
(* among the tables and pages that a walk from the root reaches.           *)
(***************************************************************************)
EXTENDS Integers, FiniteSets, Functions, FiniteSetsExt

CONSTANTS
  OFFSET_WIDTH, VIRTUAL_ADDRESS_WIDTH, NUM_FRAMES,  \* MemoryConstants.h
  Addresses,   \* the virtual addresses the program uses, in range or not
  Writes,      \* what it writes: pairs of an address and a word
  Unwritten

ASSUME WidthsAssumption ==
  /\ OFFSET_WIDTH \in Nat \ {0}
  /\ VIRTUAL_ADDRESS_WIDTH \in Nat /\ VIRTUAL_ADDRESS_WIDTH >= OFFSET_WIDTH
  /\ NUM_FRAMES \in Nat \ {0}
ASSUME ProgramAssumption ==
  Addresses \subseteq Nat /\ Writes \subseteq Addresses \X Int /\ Unwritten \notin Int

VARIABLES
  RAM,        \* frame -> its words: a table's entries or a page's data
  swapFile,   \* page -> its words, for the pages evicted
  call,       \* the call that runs, and how far its walk has come
  written,    \* history: the addresses written since VMinitialize
  result,     \* what the last call returned
  process     \* "up", or "aborted" after a failed assert

vars == <<RAM, swapFile, call, written, result, process>>

PAGE_SIZE == 2 ^ OFFSET_WIDTH
NUM_PAGES == 2 ^ (VIRTUAL_ADDRESS_WIDTH - OFFSET_WIDTH)
VIRTUAL_MEMORY_SIZE == 2 ^ VIRTUAL_ADDRESS_WIDTH
TABLES_DEPTH == (VIRTUAL_ADDRESS_WIDTH - 1) \div OFFSET_WIDTH

\* Otherwise the way to a page could take every frame, and leave no page to evict.
ASSUME FramesAssumption == NUM_FRAMES > TABLES_DEPTH

Frames == 0 .. NUM_FRAMES - 1
Rows == 0 .. PAGE_SIZE - 1
Pages == 0 .. NUM_PAGES - 1
Words == [Rows -> Int]
Zeros == [row \in Rows |-> 0]

fetchOffset(virtualAddress) == virtualAddress % PAGE_SIZE
fetchPageAddress(virtualAddress) == virtualAddress \div PAGE_SIZE
fetchDepthOffset(page, depth) ==
  (page \div 2 ^ ((TABLES_DEPTH - depth - 1) * OFFSET_WIDTH)) % PAGE_SIZE

Idle == [op |-> "none"]
Busy == call # Idle

NoResult == [returned |-> -1]
Refused == [returned |-> 0]
Returned(a, v) == [returned |-> 1, address |-> a, value |-> v]

Init ==
  /\ RAM = [frame \in Frames |-> Zeros]
  /\ swapFile = [page \in {} |-> Zeros]
  /\ call = Idle
  /\ written = {}
  /\ result = NoResult
  /\ process = "up"
-----------------------------------------------------------------------------
(* The tree of tables and pages *)

\* The frames met on the way to a page, 0 from the first empty entry on.
pathIn(ram, page) ==
  LET frame[depth \in 0 .. TABLES_DEPTH] ==
        IF depth = 0 THEN 0
        ELSE LET table == frame[depth - 1]
             IN IF depth > 1 /\ table = 0 THEN 0 ELSE ram[table][fetchDepthOffset(page, depth - 1)]
  IN frame
walk(page) == pathIn(RAM, page)

Mapped == {page \in Pages : walk(page)[TABLES_DEPTH] # 0}
Tables == {walk(page)[depth] : page \in Pages, depth \in 0 .. TABLES_DEPTH - 1}
maxFrame == Max({0} \union {walk(page)[depth] : page \in Pages, depth \in 1 .. TABLES_DEPTH})

\* Mistake: the table just reached by the walk may be taken away from it.
UnusedTablesEvenCurrent(usedEmptyFrame) == {table \in Tables \ {0} : RAM[table] = Zeros}

\* The tables without children, but for the one the current walk has reached.
UnusedTables(usedEmptyFrame) == {table \in Tables \ {0, usedEmptyFrame} : RAM[table] = Zeros}

\* The recursion keeps the table it meets last: the one with the largest pages.
LastUnused(usedEmptyFrame) ==
  LET unused == UnusedTables(usedEmptyFrame)
      page == Max({p \in Pages : \E d \in 1 .. TABLES_DEPTH - 1 : walk(p)[d] \in unused})
  IN CHOOSE place \in {page} \X (1 .. TABLES_DEPTH - 1) : walk(page)[place[2]] \in unused

cyclicDistance(p, q) ==
  LET delta == IF p > q THEN p - q ELSE q - p
  IN Min({delta, NUM_PAGES - delta})

\* The mapped page farthest from the wanted one, the first of them, with its
\* frame and the entry that leads to it. When no page is mapped the variables of
\* evictFrame keep their zeros.
pageToEvict(wanted) ==
  LET pages == Mapped
      far == {p \in pages : /\ cyclicDistance(wanted, p) > 0
                            /\ \A q \in pages : cyclicDistance(wanted, q) <= cyclicDistance(wanted, p)}
      page == Min(far)
  IN IF far = {} THEN [page |-> 0, frame |-> 0, table |-> 0, row |-> 0]
     ELSE [page |-> page, frame |-> walk(page)[TABLES_DEPTH],
           table |-> walk(page)[TABLES_DEPTH - 1], row |-> fetchDepthOffset(page, TABLES_DEPTH - 1)]
-----------------------------------------------------------------------------
(* One level of findFrame *)

thePage == fetchPageAddress(call.address)
theRow == fetchDepthOffset(thePage, call.depth)
walking == Busy /\ process = "up" /\ call.depth < TABLES_DEPTH
missing == walking /\ RAM[call.frame][theRow] = 0

descendTo(frame) == call' = [call EXCEPT !.depth = @ + 1, !.frame = frame]

followEntry ==
  /\ walking /\ ~missing
  /\ descendTo(RAM[call.frame][theRow])
  /\ UNCHANGED <<RAM, swapFile, written, result, process>>

\* Mistake: the entry that pointed to the table is left in place.
moveUnusedTableKeepsEntry ==
  /\ missing
  /\ UnusedTables(call.frame) # {}
  /\ LET place == LastUnused(call.frame)
         table == walk(place[1])[place[2]]
     IN RAM' = [RAM EXCEPT ![call.frame][theRow] = table] /\ descendTo(table)
  /\ UNCHANGED <<swapFile, written, result, process>>

\* createFrame, first choice: an empty table leaves its place for this one.
moveUnusedTable ==
  /\ missing
  /\ UnusedTables(call.frame) # {}
  /\ LET place == LastUnused(call.frame)
         table == walk(place[1])[place[2]]
         parent == walk(place[1])[place[2] - 1]
     IN /\ RAM' = [RAM EXCEPT ![parent][fetchDepthOffset(place[1], place[2] - 1)] = 0,
                              ![call.frame][theRow] = table]
        /\ descendTo(table)
  /\ UNCHANGED <<swapFile, written, result, process>>

\* Mistake: one frame past the end of the RAM.
hasFreeFrameOffByOne == maxFrame < NUM_FRAMES
hasFreeFrame == maxFrame < NUM_FRAMES - 1

\* Second choice: the frame after the largest in use. It is not cleared.
takeFreeFrame ==
  /\ missing
  /\ UnusedTables(call.frame) = {} /\ hasFreeFrame
  /\ RAM' = [RAM EXCEPT ![call.frame][theRow] = maxFrame + 1]
  /\ descendTo(maxFrame + 1)
  /\ UNCHANGED <<swapFile, written, result, process>>

\* Last choice: the page farthest away goes to the swap file, which asserts
\* that it is not there; its frame is cleared when it becomes a table.
evictFrame ==
  /\ missing
  /\ UnusedTables(call.frame) = {} /\ ~hasFreeFrame
  /\ LET victim == pageToEvict(thePage)
     IN /\ swapFile' = [page \in {victim.page} \union DOMAIN swapFile |->
                          IF page = victim.page THEN RAM[victim.frame] ELSE swapFile[page]]
        /\ RAM' = [RAM EXCEPT ![victim.table][victim.row] = 0,
                              ![victim.frame] = IF call.depth < TABLES_DEPTH - 1 THEN Zeros
                                                 ELSE RAM[victim.frame],
                              ![call.frame][theRow] = victim.frame]
        /\ descendTo(victim.frame)
        /\ process' = IF victim.page \in DOMAIN swapFile THEN "aborted" ELSE process
  /\ UNCHANGED <<written, result>>
-----------------------------------------------------------------------------
(* The calls *)

\* Mistakes: the swapped page is not read back; the swap file keeps it as well.
restoredNever == RAM[call.frame]
notRestoredNobody == DOMAIN swapFile

\* PMrestore: the page's words, from the swap file when it is there.
restored == IF thePage \in DOMAIN swapFile THEN swapFile[thePage] ELSE RAM[call.frame]
notRestored == DOMAIN swapFile \ {thePage}

access ==
  /\ Busy /\ process = "up" /\ call.depth = TABLES_DEPTH
  /\ LET offset == fetchOffset(call.address)
         words == IF call.op = "write" THEN [restored EXCEPT ![offset] = call.value] ELSE restored
     IN /\ RAM' = [RAM EXCEPT ![call.frame] = words]
        /\ result' = Returned(call.address, words[offset])
  /\ swapFile' = Restrict(swapFile, notRestored)
  /\ written' = IF call.op = "write" THEN written \union {call.address} ELSE written
  /\ call' = Idle
  /\ UNCHANGED process

begin(request) ==
  /\ ~Busy /\ process = "up"
  /\ IF request.address >= VIRTUAL_MEMORY_SIZE
     THEN result' = Refused /\ UNCHANGED call
     ELSE result' = NoResult /\ call' = request
  /\ UNCHANGED <<RAM, swapFile, written, process>>

VMread(address) == begin([op |-> "read", address |-> address, value |-> 0, depth |-> 0, frame |-> 0])
VMwrite(address, value) ==
  begin([op |-> "write", address |-> address, value |-> value, depth |-> 0, frame |-> 0])

\* Mistake: only the root table is cleared.
VMinitializeRoot ==
  /\ ~Busy /\ process = "up"
  /\ RAM' = [RAM EXCEPT ![0] = Zeros]
  /\ written' = {}
  /\ result' = NoResult
  /\ UNCHANGED <<swapFile, call, process>>

\* Clears the RAM; the pages in the swap file stay there.
VMinitialize ==
  /\ ~Busy /\ process = "up"
  /\ RAM' = [frame \in Frames |-> Zeros]
  /\ written' = {}
  /\ result' = NoResult
  /\ UNCHANGED <<swapFile, call, process>>

findFrame == followEntry \/ moveUnusedTable \/ takeFreeFrame \/ evictFrame

Next ==
  \/ VMinitialize
  \/ \E a \in Addresses : VMread(a)
  \/ \E w \in Writes : VMwrite(w[1], w[2])
  \/ findFrame \/ access

Spec == Init /\ [][Next]_vars
-----------------------------------------------------------------------------
(* Properties *)

Values == {w[2] : w \in Writes}
Calls == [op : {"read", "write"}, address : Addresses, value : Values \union {0},
          depth : 0 .. TABLES_DEPTH, frame : Frames]

TypeOK ==
  /\ RAM \in [Frames -> Words]
  /\ DOMAIN swapFile \subseteq Pages /\ Range(swapFile) \subseteq Words
  /\ call \in {Idle} \union Calls
  /\ written \subseteq Addresses
  /\ process \in {"up", "aborted"}

\* However a frame is found for the next level, the tables the walk has come
\* through stay linked: none of them is taken for an unused table, and the
\* eviction empties none of them.
PathStaysLinked == Busy => walk(thePage)[call.depth] = call.frame

\* The frames in use form a tree: no two entries of the tables lead to the same
\* frame, none leads back to the root, and they are the frames 0 .. maxFrame.
Entries == {entry \in Tables \X Rows : RAM[entry[1]][entry[2]] # 0}
FramesFormATree ==
  /\ \A e, f \in Entries : RAM[e[1]][e[2]] = RAM[f[1]][f[2]] => e = f
  /\ {RAM[e[1]][e[2]] : e \in Entries} = 1 .. maxFrame

\* takeFreeFrame need not clear the frame: frames beyond the largest in use
\* have never been anything since VMinitialize.
FreeFramesAreClear == \A frame \in maxFrame + 1 .. NUM_FRAMES - 1 : RAM[frame] = Zeros

\* A page is in the RAM or in the swap file, never in both, except for the page
\* that the current call is about to restore. So the assert of PMevict holds: a
\* page that is evicted is not in the swap file already.
PageInOnePlace ==
  /\ process = "up"
  /\ \A page \in Mapped \intersect DOMAIN swapFile :
       Busy /\ call.depth = TABLES_DEPTH /\ page = thePage

\* The calls implement a flat memory: every read returns the last write, however
\* often the page has been to the swap file and back in the meantime.
contentOf(address) ==
  LET page == fetchPageAddress(address)
  IN IF page \in DOMAIN swapFile THEN swapFile[page][fetchOffset(address)]
     ELSE RAM[walk(page)[TABLES_DEPTH]][fetchOffset(address)]

M == INSTANCE Memory WITH
  mem <- [a \in Addresses |-> IF a \in written THEN contentOf(a) ELSE Unwritten]

ImplementsMemory == M!Spec
=============================================================================
