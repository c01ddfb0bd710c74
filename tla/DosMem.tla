------------------------------- MODULE DosMem -------------------------------
(***************************************************************************)
(* The memory arena of libc/dos.c: _dos_allocmem, _dos_setblock and        *)
(* _dos_freemem (INT 21h AH=48h, 4Ah, 49h).  A block is a mapping of its   *)
(* own; its record, from malloc, is kept in a search tree ordered by a     *)
(* comparison that truncates the difference of two addresses to an int.    *)
(*                                                                         *)
(* Addresses are page numbers, from the first page mmap gives, and lengths *)
(* count paragraphs (16 bytes), so that 16 * size in a size_t is the size  *)
(* modulo Word.                                                            *)
(*                                                                         *)
(* LengthNotWrapped, CmpShort, RefusedButStored, ResizedForgotten and      *)
(* RemovedForgotten are plausible mistakes in the definition that follows  *)
(* each; Next does not use them.                                           *)
(***************************************************************************)
EXTENDS Integers, Sequences, SequencesExt

CONSTANTS
  NPages,    \* pages of the address space
  PageSize,  \* paragraphs in a page
  Word,      \* SIZE_MAX + 1, in paragraphs
  Half,      \* half the range of an int, in pages
  Sizes,     \* the sizes the program asks for, in paragraphs
  MaxBlocks  \* bound on the blocks in the tree

ASSUME SpaceAssumption == NPages \in Nat /\ PageSize \in Nat \ {0} /\ Word \in Nat \ {0}
ASSUME HalfAssumption == Half \in Nat \ {0}
ASSUME SizesAssumption == Sizes \subseteq Nat
ASSUME BlocksAssumption == MaxBlocks \in Nat

VARIABLES
  tree,    \* the records of the tree, in order
  mapped,  \* the pages mapped for blocks
  lost,    \* those of them no record knows
  pc,      \* "run", or how the program ended
  ret,     \* what the last call returned
  \* Observations:
  held,    \* the blocks the program has, and the size it asked for
  far      \* an address looked for was ever too far from one in the tree

vars == <<tree, mapped, lost, pc, ret, held, far>>

Pages == 0..NPages-1
Records == [address : Pages, length : 1..Word-1]
Results == { "none", "ok", "failed" }
Ends == { "aborted", "null", "crashed", "corrupted" }

LengthNotWrapped(size) == size
Length(size) == size % Word

PagesOf(address, length) == address..(address + (length + PageSize - 1) \div PageSize - 1)
BlockPages(r) == PagesOf(r.address, r.length)

Init ==
  /\ tree = <<>>
  /\ mapped = {}
  /\ lost = {}
  /\ pc = "run"
  /\ ret = "none"
  /\ held = {}
  /\ far = FALSE

-----------------------------------------------------------------------------
(* allocmem_cmp, and the searches of the tree.                             *)

CmpShort(a, b) == ((a - b + Half \div 2) % Half) - Half \div 2
Cmp(a, b) == ((a - b + Half) % (2 * Half)) - Half

Tree == INSTANCE SearchTree

(* Where the search for an address may end.                                *)
Places(address) == Tree!Places([i \in DOMAIN tree |-> tree[i].address], address)

Compared(address) ==
  far' = (far \/ \E i \in DOMAIN tree : address - tree[i].address \notin 1-Half..Half-1)

Fails ==
  /\ ret' = "failed"
  /\ UNCHANGED <<tree, mapped, lost, pc, held>>

Stops(end) ==
  /\ pc' = end
  /\ ret' = "none"

(* An assertion fails.                                                     *)
Aborts ==
  /\ Stops("aborted")
  /\ UNCHANGED <<tree, lost, held>>

(* A size of 0: success, and nothing is done.                              *)
Nothing ==
  /\ pc = "run"
  /\ ret' = "ok"
  /\ UNCHANGED <<tree, mapped, lost, pc, held, far>>

-----------------------------------------------------------------------------
(* _dos_allocmem.                                                          *)

(* malloc or mmap fails.                                                   *)
AllocFails(size) ==
  /\ pc = "run" /\ size # 0
  /\ Fails
  /\ UNCHANGED far

(* mmap gives the pages from address on, and the record goes into the tree *)
(* or, without memory for a node, is freed, the pages staying mapped.      *)
Alloc(size, address) ==
  LET r == [address |-> address, length |-> Length(size)]
  IN  /\ pc = "run" /\ size # 0 /\ Len(tree) < MaxBlocks
      /\ r.length # 0 /\ BlockPages(r) \subseteq Pages \ mapped
      /\ Compared(address)
      /\ mapped' = mapped \cup BlockPages(r)
      /\ \E place \in Places(address) :
           \/ place.found /\ Aborts
           \/ /\ ~ place.found
              /\ tree' = InsertAt(tree, place.at, r)
              /\ held' = held \cup {[address |-> address, size |-> size]}
              /\ ret' = "ok"
              /\ UNCHANGED <<lost, pc>>
           \/ /\ ~ place.found
              /\ lost' = lost \cup BlockPages(r)
              /\ ret' = "failed"
              /\ UNCHANGED <<tree, pc, held>>

-----------------------------------------------------------------------------
(* _dos_setblock and _dos_freemem: the search for the block at address.    *)

(* No node compares equal to the address.                                  *)
NotFound(address) ==
  /\ pc = "run"
  /\ Compared(address)
  /\ \E place \in Places(address) : ~ place.found
  /\ Fails

(* The assertion on the node found fails: it is another block's.           *)
WrongNode(address) ==
  /\ pc = "run"
  /\ Compared(address)
  /\ \E place \in Places(address) : place.found /\ tree[place.at].address # address
  /\ Aborts
  /\ UNCHANGED mapped

Finds(address, i) ==
  /\ pc = "run"
  /\ Compared(address)
  /\ [found |-> TRUE, at |-> i] \in Places(address)
  /\ tree[i].address = address

(* mremap resizes the mapping where it is; it fails if the pages after it  *)
(* are not free, for a length of 0, or for want of memory.                 *)
Resizable(r, length) ==
  /\ length # 0
  /\ PagesOf(r.address, length) \subseteq Pages
  /\ (PagesOf(r.address, length) \ BlockPages(r)) \cap mapped = {}

ResizedForgotten(r, length) == r
Resized(r, length) == [r EXCEPT !.length = length]

RefusedButStored(r, length) == [r EXCEPT !.length = length]
Refused(r, length) == r

SetBlock(size, address, i) ==
  /\ size # 0 /\ Finds(address, i)
  /\ Resizable(tree[i], Length(size))
  /\ mapped' = (mapped \ BlockPages(tree[i])) \cup PagesOf(address, Length(size))
  /\ tree' = [tree EXCEPT ![i] = Resized(@, Length(size))]
  /\ held' = { b \in held : b.address # address } \cup {[address |-> address, size |-> size]}
  /\ ret' = "ok"
  /\ UNCHANGED <<lost, pc>>

SetBlockRefused(size, address, i) ==
  /\ size # 0 /\ Finds(address, i)
  /\ tree' = [tree EXCEPT ![i] = Refused(@, Length(size))]
  /\ ret' = "failed"
  /\ UNCHANGED <<mapped, lost, pc, held>>

(* tdelete takes the record out of the tree.                               *)
RemovedForgotten(i) == tree
Removed(i) == RemoveAt(tree, i)

(* The pages go, and then the record, whose address is read from its node  *)
(* after tdelete.  A node that lacks a subtree has been freed by then:     *)
(* what is read there may still be the record, may be null, or stops the   *)
(* program.  One with two subtrees holds the record next in order by then, *)
(* and that one, still in the tree, is freed.                              *)
FreeMem(address, i) ==
  /\ Finds(address, i)
  /\ mapped' = mapped \ BlockPages(tree[i])
  /\ tree' = Removed(i)
  /\ held' = { b \in held : b.address # address }
  /\ \/ Tree!MayHaveBoth(tree, i) /\ Stops("corrupted")
     \/ Tree!MayLackOne(tree, i) /\ Stops("crashed")
     \/ Tree!MayLackOne(tree, i) /\ ret' = "ok" /\ UNCHANGED pc
  /\ UNCHANGED lost

(* munmap fails.                                                           *)
FreeMemRefused(address, i) ==
  /\ Finds(address, i)
  /\ Fails

(* The assertion that the address is not null fails.                       *)
FreeNull ==
  /\ pc = "run"
  /\ Stops("null")
  /\ UNCHANGED <<tree, mapped, lost, held, far>>

Next ==
  \/ Nothing \/ FreeNull
  \/ \E size \in Sizes : AllocFails(size) \/ \E address \in Pages : Alloc(size, address)
  \/ \E address \in Pages :
       \/ NotFound(address) \/ WrongNode(address)
       \/ \E i \in DOMAIN tree :
            \/ \E size \in Sizes : SetBlock(size, address, i) \/ SetBlockRefused(size, address, i)
            \/ FreeMem(address, i) \/ FreeMemRefused(address, i)

Spec == Init /\ [][Next]_vars

-----------------------------------------------------------------------------
(* Properties.                                                             *)

TypeOK ==
  /\ tree \in Seq(Records)
  /\ mapped \subseteq Pages /\ lost \subseteq Pages
  /\ pc \in {"run"} \cup Ends
  /\ ret \in Results
  /\ held \subseteq [address : Pages, size : Sizes]
  /\ far \in BOOLEAN

(* Every page mapped belongs to exactly one block of the tree, with the    *)
(* length its record says, or was lost when a node could not be had: no    *)
(* other call leaks pages or gives them to two blocks.                     *)
PagesAccounted ==
  /\ pc # "aborted" => mapped = lost \cup UNION { BlockPages(tree[i]) : i \in DOMAIN tree }
  /\ \A i \in DOMAIN tree :
       /\ BlockPages(tree[i]) \cap lost = {}
       /\ \A j \in DOMAIN tree : i # j => BlockPages(tree[i]) \cap BlockPages(tree[j]) = {}

(* A block the program has is mapped for the whole size it asked for last, *)
(* unless 16 times that size overflowed, whatever it did with others.      *)
SizeHeld ==
  \A b \in held : b.size < Word => PagesOf(b.address, b.size) \subseteq mapped

(* As long as no address looked for was 2 GiB from a block, the comparison *)
(* is an order: every block the program has is found under its own record, *)
(* however the tree is built, and no assertion on a node found fails.      *)
BlocksFindable ==
  ~ far => /\ pc # "aborted"
           /\ \A b \in held : \A place \in Places(b.address) :
                place.found /\ tree[place.at].address = b.address

(* A call that fails leaves the tree and the program's blocks as they      *)
(* were.                                                                   *)
FailureChangesNothing ==
  [][ret' = "failed" => UNCHANGED <<tree, held>> /\ mapped \subseteq mapped']_vars

(* The blocks the program has never share a page, and no call touches one  *)
(* but the one it is for, however searches of the tree end: the arena is   *)
(* as MemSpec has it, where a size whose 16-fold overflows promises none.  *)
Promised(b) ==
  [address |-> b.address, units |-> IF b.size < Word THEN PagesOf(b.address, b.size) ELSE {}]
Memory == INSTANCE MemSpec WITH blocks <- { Promised(b) : b \in held }
ImplementsMemSpec == Memory!Spec

(* Freeing a block does not stop the program (test dalocmem.c frees one    *)
(* and goes on to say whether that failed).                                *)
FreeReturns == pc # "crashed"

=============================================================================
