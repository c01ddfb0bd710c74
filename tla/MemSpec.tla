------------------------------ MODULE MemSpec -------------------------------
(***************************************************************************)
(* What the calls that give memory promise a program, those of DOS         *)
(* (_dos_allocmem, _dos_setblock, _dos_freemem) and those of the C library *)
(* (malloc, realloc, free) alike: a block is given at an address no block  *)
(* of the program has and takes memory none of them takes; one call gives, *)
(* resizes or takes back one block, and leaves the others as they are; and *)
(* a call that does not succeed leaves them all.                           *)
(***************************************************************************)

VARIABLE blocks  \* the blocks the program has: address and units of memory

(* Neither the address nor the memory of the block is another's.           *)
Apart(block, others) ==
  \A b \in others : b.address # block.address /\ b.units \cap block.units = {}

Others(address) == { b \in blocks : b.address # address }

Init == blocks = {}

Allocate(block) ==
  /\ Apart(block, blocks)
  /\ blocks' = blocks \cup {block}

(* The block may be moved.                                                 *)
Resize(address, block) ==
  /\ Apart(block, Others(address))
  /\ blocks' = Others(address) \cup {block}

Free(address) == blocks' = Others(address)

(* What is given is a block of the state that follows.                     *)
Next ==
  \/ \E block \in blocks' : Allocate(block)
  \/ \E old \in blocks, block \in blocks' : Resize(old.address, block)
  \/ \E old \in blocks : Free(old.address)

Spec == Init /\ [][Next]_blocks

=============================================================================
