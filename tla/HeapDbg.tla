------------------------------- MODULE HeapDbg -------------------------------
(***************************************************************************)
(* The heap as base/heap_dbg.c sees it in a debug build: the macros of     *)
(* heap_dbg.h note every new and every delete in a table. Beside the table *)
(* the memory has the blocks that are really there.                        *)
(***************************************************************************)
EXTENDS Integers, Sequences, SequencesExt, FiniteSetsExt

CONSTANT HEAP_DBG_MAX_OBJECTS

ASSUME HeapDbgAssumption == HEAP_DBG_MAX_OBJECTS \in Nat

DATATYPE_OBJECT == 1
DATATYPE_ARRAY == 2

EmptyMemory ==
    [live |-> {},             \* blocks: [ptr, type]
     heap |-> <<>>,           \* the table
     overflowed |-> FALSE,    \* "overflow" was printed
     complained |-> FALSE,    \* "can't free unknown memory" or "released as type" was
     wrong |-> FALSE]         \* something was released that was not there

\* Each block takes the next entry, until there is none.
heap_dbg_alloc(memory, blocks) ==
    LET left == HEAP_DBG_MAX_OBJECTS - Len(memory.heap) IN
    [memory EXCEPT !.heap = @ \o SubSeq(blocks, 1, Min({left, Len(blocks)})),
                   !.overflowed = @ \/ Len(blocks) > left]

\* The first entry of the pointer, 0 if there is none.
get_id(memory, ptr) == SelectInSeq(memory.heap, LAMBDA entry : entry.ptr = ptr)

\* Faulty variant of Without: drops the last entry, whichever was meant.
WithoutLast(heap, i) == Front(heap)

\* The last entry takes the place of the one that goes.
Without(heap, i) == Front([heap EXCEPT ![i] = Last(heap)])

heap_dbg_free(memory, block) ==
    LET i == get_id(memory, block.ptr) IN
    IF i = 0 THEN [memory EXCEPT !.complained = TRUE]
    ELSE [memory EXCEPT !.heap = Without(@, i),
                        !.complained = @ \/ memory.heap[i].type # block.type]

\* NEW_OBJ or NEW_ARR, for each of the types: here above all that is live, so
\* that addresses are used again.
New(memory, types) ==
    LET top == Max({0} \cup {b.ptr : b \in memory.live})
        blocks == [k \in DOMAIN types |-> [ptr |-> top + k, type |-> types[k]]]
    IN  [memory |-> heap_dbg_alloc([memory EXCEPT !.live = @ \cup Range(blocks)], blocks),
         blocks |-> blocks]

\* DELETE_OBJ or DELETE_ARR, for each of the blocks.
Released(memory, block) ==
    heap_dbg_free([memory EXCEPT !.live = @ \ {block}, !.wrong = @ \/ block \notin memory.live],
                  block)

Delete(memory, blocks) ==
    LET after[k \in 0 .. Len(blocks)] ==
            IF k = 0 THEN memory ELSE Released(after[k - 1], blocks[k])
    IN  after[Len(blocks)]

\* A list is an array of pointers and the objects they point to, each the
\* sequence of its blocks.
NoList == [array |-> <<>>, items |-> <<>>]

BlocksOf(list) == FlattenSeq(list.items) \o list.array

FreeList(memory, list) == Delete(memory, BlocksOf(list))

\* A message has four lists, and so has the configuration.
FreeLists(memory, lists) ==
    FreeList(FreeList(FreeList(FreeList(memory, lists[1]), lists[2]), lists[3]), lists[4])

=============================================================================
