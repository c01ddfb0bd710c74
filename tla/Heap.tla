-------------------------------- MODULE Heap --------------------------------
(***************************************************************************)
(* The heap of libc/malloc.c: malloc, realloc, free, _msize and their      *)
(* near, far and based forms, and _strdup.  A block is a chunk of the C    *)
(* library's heap that begins with a header (_HEAPINFO) giving its address *)
(* and size; the program's pointer is the byte after the header.  A tree   *)
(* holds the chunks' addresses, and the comparison reads the header of     *)
(* each chunk it meets.                                                    *)
(*                                                                         *)
(* Addresses and sizes count units of 16 bytes, the alignment of chunks,   *)
(* and a header takes one.  A block is named by its chunk's address.       *)
(*                                                                         *)
(* The comparison subtracts two _HEAPINFO pointers.  The chunks are not a  *)
(* multiple of 24 bytes apart, so this is undefined; the builds for x86-64 *)
(* multiply the difference by the inverse of 3 modulo a power of 2.  Of    *)
(* any two near blocks one is then less than the other, but of three whose *)
(* addresses differ modulo 3 each is less than the next.                   *)
(*                                                                         *)
(* TotalNotWrapped, TotalOfBlock, GivenBackForgotten, KeyForgotten,        *)
(* HeaderForgotten and RefusedButStored are plausible mistakes in the      *)
(* definition that follows each; Next does not use them.                   *)
(***************************************************************************)
EXTENDS Integers, Sequences, SequencesExt

CONSTANTS
  NSlots,    \* units of the address space
  SizeWord,  \* SIZE_MAX + 1, in units
  CmpWord,   \* the range of an int, as a distance of addresses
  Third,     \* the inverse of 3 modulo CmpWord
  Sizes,     \* the sizes the program asks for
  MaxBlocks  \* bound on the blocks in the tree

ASSUME SlotsAssumption == NSlots \in Nat /\ SizeWord \in Nat \ {0, 1}
ASSUME ThirdAssumption ==
  /\ CmpWord \in Nat \ {0} /\ CmpWord % 2 = 0
  /\ Third \in Nat /\ (3 * Third) % CmpWord = 1
ASSUME SizesAssumption == Sizes \subseteq 0..SizeWord-1
ASSUME BlocksAssumption == MaxBlocks \in Nat

VARIABLES
  chunks,  \* the chunks the C library has given: header and length
  tree,    \* the addresses in the tree, in order
  pc,      \* "run", or how the program ended
  ret,     \* what the last call returned
  \* Observations:
  held,    \* the blocks the program has, and the size it asked for
  leaked,  \* chunks out of the tree that were never freed
  disordered  \* a chunk was given where the comparison is no order

vars == <<chunks, tree, pc, ret, held, leaked, disordered>>

Slots == 0..NSlots-1
Header == 1
Results == { "none", "ok", "failed" }
Ends == { "aborted", "crashed", "corrupted" }

(* The size asked of the C library.                                        *)
TotalNotWrapped(size) == Header + size
TotalOfBlock(size) == size % SizeWord
Total(size) == (Header + size) % SizeWord

(* The units a chunk takes, with the C library's own word; the shortest    *)
(* one holds a header.                                                     *)
Units(address, total) == address..address + (IF total < Header THEN Header ELSE total)
InUse(given) == UNION { Units(a, given[a].length) : a \in DOMAIN given }
Fits(address, total, given) == Units(address, total) \subseteq Slots \ InUse(given)

Chunk(address, total) == [pentry |-> address, size |-> total, length |-> total]

Without(f, a) == [x \in DOMAIN f \ {a} |-> f[x]]
With(f, a, v) == [x \in DOMAIN f \cup {a} |-> IF x = a THEN v ELSE f[x]]

Dropped(address) == { b \in held : b.address # address }

Init ==
  /\ chunks = [a \in {} |-> Chunk(0, 0)]
  /\ tree = <<>>
  /\ pc = "run"
  /\ ret = "none"
  /\ held = {}
  /\ leaked = {}
  /\ disordered = FALSE

-----------------------------------------------------------------------------
(* heap_entryinfo_cmp, and the searches of the tree.                       *)

Cmp(a, b) == (((a - b) * Third + CmpWord \div 2) % CmpWord) - CmpWord \div 2

Tree == INSTANCE SearchTree

(* The keys of the tree are the addresses the headers give.                *)
KeysOf(t, given) == [i \in DOMAIN t |-> given[t[i]].pentry]
Places(address) == Tree!Places(KeysOf(tree, chunks), address)

(* A search finds the address at node i, and not by comparing equal to     *)
(* another's.                                                              *)
Finds(address, i) ==
  /\ pc = "run"
  /\ [found |-> TRUE, at |-> i] \in Places(address)
  /\ chunks[tree[i]].pentry = address

Fails ==
  /\ pc = "run"
  /\ ret' = "failed"
  /\ UNCHANGED <<chunks, tree, pc, leaked, disordered>>

Stops(end) ==
  /\ pc' = end
  /\ ret' = "none"

-----------------------------------------------------------------------------
(* malloc, and realloc of a null pointer.                                  *)

Disorders(t, given) == disordered' = (disordered \/ ~ Tree!Sorted(KeysOf(t, given)))

MallocFails ==
  /\ Fails
  /\ UNCHANGED held

(* Without memory for the tree's node the chunk is given back.             *)
GivenBackForgotten(address, total) == With(chunks, address, Chunk(address, total))
GivenBack(address, total) == chunks

Malloc(size, address) ==
  LET total == Total(size)
      given == With(chunks, address, Chunk(address, total))
  IN  /\ pc = "run" /\ Len(tree) < MaxBlocks
      /\ Fits(address, total, chunks)
      /\ \E place \in Places(address) :
           \/ /\ place.found
              /\ Stops("aborted")
              /\ chunks' = given
              /\ UNCHANGED <<tree, held, disordered>>
           \/ /\ ~ place.found
              /\ chunks' = given
              /\ tree' = InsertAt(tree, place.at, address)
              /\ Disorders(tree', given)
              /\ held' = held \cup {[address |-> address, size |-> size]}
              /\ ret' = "ok"
              /\ UNCHANGED pc
           \/ /\ ~ place.found
              /\ chunks' = GivenBack(address, total)
              /\ ret' = "failed"
              /\ UNCHANGED <<tree, pc, held, disordered>>
      /\ UNCHANGED leaked

(* _strdup passes what malloc returned to strcpy, which asserts that it is *)
(* not null; otherwise it is a malloc.                                     *)
StrdupFails ==
  /\ pc = "run"
  /\ Stops("aborted")
  /\ UNCHANGED <<chunks, tree, held, leaked, disordered>>

-----------------------------------------------------------------------------
(* The other calls search the tree for the block they are given.           *)

(* realloc and _msize warn of an invalid pointer and fail.                 *)
ReallocNotFound(address) ==
  /\ Fails
  /\ \E place \in Places(address) : ~ place.found
  /\ UNCHANGED held

(* So does free: the program has given up the block, which stays as it is. *)
FreeNotFound(address) ==
  /\ Fails
  /\ \E place \in Places(address) : ~ place.found
  /\ held' = Dropped(address)

(* The assertion that the node found is the block's fails.                 *)
WrongNode(address) ==
  /\ pc = "run"
  /\ \E place \in Places(address) : place.found /\ chunks[tree[place.at]].pentry # address
  /\ Stops("aborted")
  /\ UNCHANGED <<chunks, tree, held, leaked, disordered>>

(* The C library has resized the chunk, and perhaps moved it with its      *)
(* header as it was; the new address goes into the node where it is, and   *)
(* the new header into the chunk.                                          *)
KeyForgotten(i, to) == tree
KeyRewritten(i, to) == [tree EXCEPT ![i] = to]

HeaderForgotten(from, to, total) == [chunks[from] EXCEPT !.length = total]
HeaderRewritten(from, to, total) == Chunk(to, total)

Realloc(size, address, i, to) ==
  LET total == Total(size)
      rest == Without(chunks, address)
  IN  /\ size # 0 /\ total # 0 /\ Finds(address, i)
      /\ Fits(to, total, IF to = address THEN rest ELSE chunks)
      /\ chunks' = With(rest, to, HeaderRewritten(address, to, total))
      /\ tree' = KeyRewritten(i, to)
      /\ disordered' = (disordered \/ ~ Tree!Sorted([KeysOf(tree, chunks) EXCEPT ![i] = to]))
      /\ held' = Dropped(address) \cup {[address |-> to, size |-> size]}
      /\ ret' = "ok"
      /\ UNCHANGED <<pc, leaked>>

(* The C library has no memory for it.                                     *)
RefusedButStored(address, total) == [chunks EXCEPT ![address].size = total]
Refused(address, total) == chunks

ReallocRefused(size, address, i) ==
  /\ size # 0 /\ Finds(address, i)
  /\ chunks' = Refused(address, Total(size))
  /\ ret' = "failed"
  /\ UNCHANGED <<tree, pc, held, leaked, disordered>>

(* The size asked of the C library wraps to 0: it frees the chunk and      *)
(* returns null, and the tree keeps the address of freed memory.           *)
ReallocToNothing(size, address, i) ==
  /\ size # 0 /\ Total(size) = 0 /\ Finds(address, i)
  /\ Stops("corrupted")
  /\ chunks' = Without(chunks, address)
  /\ UNCHANGED <<tree, held, leaked, disordered>>

(* free, and realloc to a size of 0: the node goes, and then the chunk     *)
(* whose address the node gives after tdelete.  A node with two subtrees   *)
(* has the next chunk's by then, which the tree still holds.  Another one  *)
(* has been freed: what is read there may still be the address, may be     *)
(* null, or stops the program.                                             *)
Removed(i) == RemoveAt(tree, i)

Free(address, i) ==
  /\ Finds(address, i)
  /\ tree' = Removed(i)
  /\ held' = Dropped(address)
  /\ \/ /\ Tree!MayHaveBoth(tree, i)
        /\ Stops("corrupted")
        /\ chunks' = Without(chunks, tree[i + 1])
        /\ UNCHANGED leaked
     \/ /\ Tree!MayLackOne(tree, i)
        /\ \/ /\ Stops("crashed")
              /\ UNCHANGED <<chunks, leaked>>
           \/ /\ ret' = "ok"
              /\ chunks' = Without(chunks, address)
              /\ UNCHANGED <<pc, leaked>>
           \/ /\ ret' = "ok"
              /\ leaked' = leaked \cup {address}
              /\ UNCHANGED <<chunks, pc>>
  /\ UNCHANGED disordered

Next ==
  \/ MallocFails \/ StrdupFails
  \/ \E address \in Slots :
       \/ \E size \in Sizes : Malloc(size, address)
       \/ ReallocNotFound(address) \/ FreeNotFound(address) \/ WrongNode(address)
       \/ \E i \in DOMAIN tree :
            \/ Free(address, i)
            \/ \E size \in Sizes :
                 \/ ReallocRefused(size, address, i) \/ ReallocToNothing(size, address, i)
                 \/ \E to \in Slots : Realloc(size, address, i, to)

Spec == Init /\ [][Next]_vars

-----------------------------------------------------------------------------
(* Properties.                                                             *)

TypeOK ==
  /\ DOMAIN chunks \subseteq Slots
  /\ \A a \in DOMAIN chunks :
       chunks[a] \in [pentry : Slots, size : 0..SizeWord-1, length : 0..SizeWord-1]
  /\ tree \in Seq(Slots)
  /\ pc \in {"run"} \cup Ends
  /\ ret \in Results
  /\ held \subseteq [address : Slots, size : Sizes]
  /\ leaked \subseteq Slots
  /\ disordered \in BOOLEAN

(* Every chunk the C library has given is in the tree, once, or was leaked *)
(* by a free that read null from a freed node: no other call loses one,    *)
(* and none is in the tree after it was given back.                        *)
ChunksAccounted ==
  pc = "run" => /\ DOMAIN chunks = leaked \cup { tree[i] : i \in DOMAIN tree }
                /\ \A i, j \in DOMAIN tree : i # j => tree[i] # tree[j]
                /\ \A i \in DOMAIN tree : tree[i] \notin leaked

(* The header of every chunk in the tree gives its own address and length, *)
(* however it was resized and moved: comparisons and _msize rely on it.    *)
HeadersTrue ==
  pc = "run" => \A i \in DOMAIN tree :
    LET c == chunks[tree[i]] IN c.pentry = tree[i] /\ c.size = c.length

(* A block the program has is in memory for the whole size it asked for    *)
(* last, unless the sum with the header overflowed.                        *)
SizeHeld ==
  pc \in {"run", "aborted"} => \A b \in held :
    /\ b.address \in DOMAIN chunks
    /\ Header + b.size < SizeWord => chunks[b.address].length >= Header + b.size

(* As long as malloc was given no chunk for which the comparison is not an *)
(* order, and realloc moved none past its neighbours in the tree, every    *)
(* block the program has is found, however the tree is built: free,        *)
(* realloc and _msize call none of its pointers invalid.                   *)
BlocksFindable ==
  pc = "run" /\ ~ disordered => \A b \in held : \A place \in Places(b.address) :
    place.found /\ tree[place.at] = b.address

(* The blocks the program has, with their headers and the C library's      *)
(* words, never overlap, and no call touches one but the one it is for: as *)
(* MemSpec has it, where a sum with the header that overflows promises     *)
(* none.                                                                   *)
Promised(b) ==
  [address |-> b.address,
   units |-> IF Header + b.size < SizeWord THEN Units(b.address, Header + b.size) ELSE {}]
Memory == INSTANCE MemSpec WITH blocks <- { Promised(b) : b \in held }
ImplementsMemSpec == Memory!Spec

=============================================================================
