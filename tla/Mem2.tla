-------------------------------- MODULE Mem2 --------------------------------
(***************************************************************************)
(* The areas of the second memory and their blocks                         *)
(* (utils/mem2_manager.c).  An area is cut from the top of what is free of *)
(* the arena; libogc's heap places the blocks in it.  The memory holds one *)
(* mark a cell, and an owner knows what it left in its blocks.             *)
(***************************************************************************)
EXTENDS Naturals, Sequences, FiniteSets, FiniteSetsExt

CONSTANTS
  Areas, MEM2_OTHER,   \* MEM2_OTHER makes itself on its first use
  OtherSize,      \* 15 MiB
  Bottom, Top,    \* the arena when the program starts
  Granule,        \* 32
  Sizes,          \* sizes asked for, of areas and blocks
  Counts,         \* first arguments of calloc
  MaxU32,         \* the greatest u32
  Owners, Marks

\* The sizes are u32, the arena is not empty, and MEM2_OTHER is an area.
MemoryAssumption ==
  /\ MEM2_OTHER \in Areas /\ OtherSize \in Nat \ {0}
  /\ Bottom \in Nat /\ Top \in Nat /\ Bottom <= Top
  /\ Granule \in Nat \ {0} /\ Sizes \subseteq Nat /\ Counts \subseteq Nat

VARIABLES
  mem2_areas,     \* size (0: none), heap_ptr, old_arena2hi
  Arena2Hi,
  blocks,         \* owner -> area, first cell, length asked for, size; or None
  mem,            \* cell -> mark
  left            \* owner -> what it wrote into its block

vars == <<mem2_areas, Arena2Hi, blocks, mem, left>>

NoArea == [size |-> 0, heap_ptr |-> 0, old_arena2hi |-> 0]
None == [area |-> MEM2_OTHER, at |-> 0, len |-> 0, size |-> 0]
Cells(b) == b.at..(b.at + b.size - 1)
RoundUp(n) == ((n + Granule - 1) \div Granule) * Granule
ROUNDDOWN32(v) == ((v - (Granule - 1)) \div Granule) * Granule

Init ==
  /\ mem2_areas = [a \in Areas |-> NoArea] /\ Arena2Hi = Top
  /\ blocks = [o \in Owners |-> None] /\ left = [o \in Owners |-> <<>>]
  /\ mem = [c \in Bottom..(Top - 1) |-> 0]

Live == {o \in Owners : blocks[o].len > 0}
In(a) == {o \in Live : blocks[o].area = a}

\* What was in an area that is taken away or cleared is nobody's any more.
Forget(a) ==
  /\ blocks' = [o \in Owners |-> IF o \in In(a) THEN None ELSE blocks[o]]
  /\ left' = [o \in Owners |-> IF o \in In(a) THEN <<>> ELSE left[o]]

-----------------------------------------------------------------------------
(* The areas.  Interrupts are off, so each is one step.                    *)

\* A lower area keeps this one where it is.
Removable(a) ==
  /\ mem2_areas[a].size # 0
  /\ \A i \in Areas \ {a} :
       mem2_areas[i].old_arena2hi # 0 => mem2_areas[i].old_arena2hi >= mem2_areas[a].old_arena2hi

RemoveMem2Area(a) ==
  /\ Removable(a)
  /\ Arena2Hi' = mem2_areas[a].old_arena2hi
  /\ mem2_areas' = [mem2_areas EXCEPT ![a] = NoArea]
  /\ Forget(a) /\ UNCHANGED mem

Place(hi, size) == ROUNDDOWN32(hi - size)
Fits(hi, size) == hi >= size + Granule - 1 /\ Place(hi, size) >= Bottom
Made(areas, a, hi, size) ==
  [areas EXCEPT ![a] = [size |-> size, heap_ptr |-> Place(hi, size), old_arena2hi |-> hi]]

\* An area of another size is removed first, and is gone if the new one does
\* not fit.
AddMem2Area(a, size) ==
  /\ size > 0 /\ mem2_areas[a].size # size
  /\ mem2_areas[a].size > 0 => Removable(a)
  /\ LET hi == IF mem2_areas[a].size > 0 THEN mem2_areas[a].old_arena2hi ELSE Arena2Hi
         without == [mem2_areas EXCEPT ![a] = NoArea]
     IN IF Fits(hi, size)
        THEN mem2_areas' = Made(without, a, hi, size) /\ Arena2Hi' = Place(hi, size)
        ELSE mem2_areas' = without /\ Arena2Hi' = hi
  /\ Forget(a) /\ UNCHANGED mem

ClearMem2Area(a) ==
  /\ mem2_areas[a].size # 0
  /\ LET area == mem2_areas[a]
     IN mem' = [c \in DOMAIN mem |->
                  IF c \in area.heap_ptr..(area.heap_ptr + area.size - 1) THEN 0 ELSE mem[c]]
  /\ Forget(a) /\ UNCHANGED <<mem2_areas, Arena2Hi>>

-----------------------------------------------------------------------------
(* The blocks.                                                             *)

Free(a, areas, size) ==
  {at \in Bottom..Top :
     /\ (at - areas[a].heap_ptr) % Granule = 0 /\ at >= areas[a].heap_ptr
     /\ at + RoundUp(size) <= areas[a].heap_ptr + areas[a].size
     /\ \A o \in In(a) : at..(at + RoundUp(size) - 1) \cap Cells(blocks[o]) = {}}

\* The areas after the look for area `a`: MEM2_OTHER makes itself.
Created(a) ==
  IF mem2_areas[a].size = 0 /\ a = MEM2_OTHER /\ Fits(Arena2Hi, OtherSize)
  THEN Made(mem2_areas, a, Arena2Hi, OtherSize)
  ELSE mem2_areas

\* memalign: what it gives to owner `o`, or NULL; alignments above 32 only make
\* the block larger, and are left to the size.
Given(a, size) ==
  IF Created(a)[a].size = 0 THEN {}
  ELSE {[area |-> a, at |-> at, len |-> size, size |-> RoundUp(size)] : at \in Free(a, Created(a), size)}
Create(a) ==
  /\ mem2_areas' = Created(a)
  /\ Arena2Hi' = IF Created(a) = mem2_areas THEN Arena2Hi ELSE Created(a)[a].heap_ptr

Contents(m, at, len) == [i \in 1..len |-> m[at + i - 1]]
Filled(m, at, len, mark) == [c \in DOMAIN m |-> IF c \in at..(at + len - 1) THEN mark ELSE m[c]]

\* malloc, and what its caller then writes.
malloc(o, a, size, mark) ==
  /\ o \notin Live /\ size > 0 /\ Create(a)
  /\ IF Given(a, size) = {} THEN UNCHANGED <<blocks, mem, left>>
     ELSE \E b \in Given(a, size) :
            /\ blocks' = [blocks EXCEPT ![o] = b]
            /\ mem' = Filled(mem, b.at, size, mark)
            /\ left' = [left EXCEPT ![o] = [i \in 1..size |-> mark]]

\* calloc: a product beyond 32 bits is refused, and the block is cleared.
calloc(o, a, num, size) ==
  /\ o \notin Live /\ num > 0 /\ size > 0 /\ size <= MaxU32 \div num /\ Create(a)
  /\ IF Given(a, num * size) = {} THEN UNCHANGED <<blocks, mem, left>>
     ELSE \E b \in Given(a, num * size) :
            /\ blocks' = [blocks EXCEPT ![o] = b]
            /\ mem' = Filled(mem, b.at, num * size, 0)
            /\ left' = [left EXCEPT ![o] = [i \in 1..(num * size) |-> 0]]

\* strdup and strndup: the first n characters and their end, in a cleared block.
strndup(o, a, p, n) ==
  /\ o \notin Live /\ p \in Live /\ Create(a)
  /\ LET slen == IF blocks[p].len < n THEN blocks[p].len ELSE n
     IN IF Given(a, slen + 1) = {} THEN UNCHANGED <<blocks, mem, left>>
        ELSE \E b \in Given(a, slen + 1) :
               LET text == Contents(mem, blocks[p].at, slen) \o <<0>>
               IN /\ blocks' = [blocks EXCEPT ![o] = b]
                  /\ mem' = [c \in DOMAIN mem |->
                               IF c \in b.at..(b.at + slen) THEN text[c - b.at + 1] ELSE mem[c]]
                  /\ left' = [left EXCEPT ![o] = Contents(mem, blocks[p].at, slen) \o <<0>>]

free(o) ==
  /\ o \in Live
  /\ blocks' = [blocks EXCEPT ![o] = None] /\ left' = [left EXCEPT ![o] = <<>>]
  /\ UNCHANGED <<mem2_areas, Arena2Hi, mem>>

\* What realloc copies: the old block, with what its size was rounded up by.
Copied(o, newsize) == IF blocks[o].size > newsize THEN newsize ELSE blocks[o].size

\* A new block, the copy, the old one freed; the old one stays if there is no
\* room for both.  The caller counts on what both lengths hold.
realloc(o, newsize) ==
  /\ o \in Live /\ newsize > 0
  /\ LET where == blocks[o].area  n == Copied(o, newsize)  old == blocks[o]
         kept == IF old.len < newsize THEN old.len ELSE newsize
     IN IF Given(where, newsize) = {} THEN UNCHANGED <<blocks, mem, left>>
        ELSE \E b \in Given(where, newsize) :
               /\ blocks' = [blocks EXCEPT ![o] = [b EXCEPT !.len = kept]]
               /\ mem' = [c \in DOMAIN mem |->
                            IF c \in b.at..(b.at + n - 1) THEN mem[old.at + c - b.at] ELSE mem[c]]
               /\ left' = [left EXCEPT ![o] = SubSeq(@, 1, kept)]
  /\ UNCHANGED <<mem2_areas, Arena2Hi>>

Next ==
  \/ \E a \in Areas : RemoveMem2Area(a) \/ ClearMem2Area(a)
  \/ \E a \in Areas, size \in Sizes : AddMem2Area(a, size)
  \/ \E o \in Owners, a \in Areas, size \in Sizes, mark \in Marks : malloc(o, a, size, mark)
  \/ \E o \in Owners, a \in Areas, num \in Counts, size \in Sizes : calloc(o, a, num, size)
  \/ \E o, p \in Owners, a \in Areas, n \in Sizes : strndup(o, a, p, n)
  \/ \E o \in Owners : free(o)
  \/ \E o \in Owners, newsize \in Sizes : realloc(o, newsize)

Spec == Init /\ [][Next]_vars

-----------------------------------------------------------------------------
(* Properties.                                                             *)

\* The areas lie one below the other in the arena, from its top to what is
\* still free, each ending where the one above begins; every block lies in its
\* area and nobody else's cells; and what an owner left in its block is there,
\* however often it was moved (mem2_manager.c:102-215, 218-402).
BlocksHold ==
  LET made == {a \in Areas : mem2_areas[a].size > 0}
  IN /\ Arena2Hi = Min({Top} \cup {mem2_areas[a].heap_ptr : a \in made})
     /\ \A a \in made :
          /\ mem2_areas[a].heap_ptr >= Bottom
          /\ mem2_areas[a].heap_ptr + mem2_areas[a].size <= mem2_areas[a].old_arena2hi
          /\ mem2_areas[a].old_arena2hi \in {Top} \cup {mem2_areas[i].heap_ptr : i \in made}
     /\ \A a, i \in made : a # i => mem2_areas[a].old_arena2hi # mem2_areas[i].old_arena2hi
     /\ \A o \in Live :
          LET area == mem2_areas[blocks[o].area]
          IN /\ Cells(blocks[o]) \subseteq area.heap_ptr..(area.heap_ptr + area.size - 1)
             /\ \A p \in Live \ {o} : Cells(blocks[o]) \cap Cells(blocks[p]) = {}
             /\ Contents(mem, blocks[o].at, blocks[o].len) = left[o]
=============================================================================
