----------------------------- MODULE HeapProofs -----------------------------
(***************************************************************************)
(* Proofs about the heap (Heap), for every address space, width of a       *)
(* size_t and of an int, and all sizes asked for.                          *)
(***************************************************************************)
EXTENDS Heap, TLAPS

ChunkRecords == [pentry : Slots, size : 0..SizeWord-1, length : 0..SizeWord-1]

(* A block the program has is in the tree (a chunk leaked is no block's).  *)
HeldInTree ==
  pc = "run" => \A b \in held : \E i \in DOMAIN tree : tree[i] = b.address

(* Until chunks come where the comparison is no order, the tree is sorted. *)
InOrder == pc = "run" /\ ~ disordered => Tree!Sorted(tree)

IInv ==
  /\ TypeOK /\ Len(tree) <= MaxBlocks
  /\ ChunksAccounted /\ HeadersTrue /\ SizeHeld /\ HeldInTree /\ InOrder

-----------------------------------------------------------------------------
(* Where a search of a tree may end (SearchTree).                          *)
Comparable(keys, key) ==
  /\ Len(keys) \in Nat
  /\ \A i \in 1..Len(keys) : Cmp(key, keys[i]) \in Int

(* The comparison with key agrees with the order of the keys.              *)
Agrees(keys, key) ==
  \A i, j \in 1..Len(keys) : i < j /\ Cmp(key, keys[i]) <= 0 => Cmp(key, keys[j]) < 0

(* A search ends at a node that compares equal, or between two nodes.      *)
LEMMA SearchEnds ==
  ASSUME NEW keys, NEW key, Comparable(keys, key), NEW place \in Tree!Places(keys, key)
  PROVE  \/ /\ place.found = TRUE /\ place.at \in 1..Len(keys)
            /\ Cmp(key, keys[place.at]) = 0
         \/ place.found = FALSE /\ place.at \in 1..Len(keys)+1
<1>1. /\ place.found \in BOOLEAN /\ place.at \in 1..Len(keys)+1
      /\ Tree!Ends(keys, key, place)
  BY DEF Tree!Places
<1> QED
  BY <1>1 DEF Tree!Ends, Comparable

(* If the comparison agrees with the order of the keys, a key not found is *)
(* greater than all before the place it belongs at, and less than all from *)
(* there on.                                                               *)
LEMMA SearchSeparates ==
  ASSUME NEW keys, NEW key, Comparable(keys, key), Agrees(keys, key),
         NEW place \in Tree!Places(keys, key), ~ place.found
  PROVE  \A j \in 1..Len(keys) : /\ j < place.at => Cmp(key, keys[j]) > 0
                                 /\ j >= place.at => Cmp(key, keys[j]) < 0
<1>1. PICK n \in Nat : n = Len(keys)
  BY DEF Comparable
<1>2. PICK at \in 1..n+1 : at = place.at
  BY <1>1 DEF Tree!Places
<1>3. (at > 1 => Cmp(key, keys[at - 1]) > 0) /\ (at <= n => Cmp(key, keys[at]) < 0)
  BY <1>1, <1>2 DEF Tree!Places, Tree!Ends
<1>4. \A j \in 1..n : Cmp(key, keys[j]) \in Int
  BY <1>1 DEF Comparable
<1>5. \A i, j \in 1..n : i < j /\ Cmp(key, keys[i]) <= 0 => Cmp(key, keys[j]) < 0
  BY <1>1 DEF Agrees
<1>6. ASSUME NEW j \in 1..n, j < at PROVE Cmp(key, keys[j]) > 0
  <2>1. at - 1 \in 1..n /\ at > 1 /\ (j = at - 1 \/ j < at - 1)
    BY <1>6
  <2> QED
    BY <1>3, <1>4, <1>5, <2>1
<1>7. ASSUME NEW j \in 1..n, j >= at PROVE Cmp(key, keys[j]) < 0
  <2>1. at \in 1..n /\ (j = at \/ at < j)
    BY <1>7
  <2> QED
    BY <1>3, <1>4, <1>5, <2>1
<1> QED
  BY <1>1, <1>2, <1>6, <1>7

(* Then a key that compares equal to a node is found there by every search *)
(* for it, whatever the shape of the tree.                                 *)
LEMMA SearchFinds ==
  ASSUME NEW keys, NEW key, Comparable(keys, key), Agrees(keys, key),
         NEW place \in Tree!Places(keys, key)
  PROVE  \A i \in 1..Len(keys) : Cmp(key, keys[i]) = 0 => place.found = TRUE /\ place.at = i
<1> SUFFICES ASSUME NEW i \in 1..Len(keys), Cmp(key, keys[i]) = 0
             PROVE  place.found = TRUE /\ place.at = i
  OBVIOUS
<1>1. Len(keys) \in Nat
  BY DEF Comparable
<1>2. ASSUME ~ place.found PROVE FALSE
  <2>1. place.at \in 1..Len(keys)+1
    BY <1>2, SearchEnds
  <2>2. Cmp(key, keys[i]) > 0 \/ Cmp(key, keys[i]) < 0
    BY <1>1, <1>2, <2>1, SearchSeparates
  <2> QED
    BY <2>2
<1>3. CASE place.found = TRUE /\ place.at \in 1..Len(keys) /\ Cmp(key, keys[place.at]) = 0
  BY <1>1, <1>3 DEF Agrees
<1> QED
  BY <1>2, <1>3, SearchEnds

-----------------------------------------------------------------------------
(* The sequence of the keys after tsearch and tdelete, item by item.       *)
HasInserted(t, s, at, e) ==
  /\ Len(t) = Len(s) + 1
  /\ \A i \in 1..Len(s)+1 : t[i] = IF i < at THEN s[i] ELSE IF i = at THEN e ELSE s[i - 1]
HasRemoved(t, s, at) ==
  /\ Len(t) = Len(s) - 1
  /\ \A i \in 1..Len(s)-1 : t[i] = IF i < at THEN s[i] ELSE s[i + 1]

LEMMA Insertion ==
  ASSUME NEW S, NEW s \in Seq(S), NEW e \in S, NEW at \in 1..Len(s)+1
  PROVE  InsertAt(s, at, e) \in Seq(S) /\ HasInserted(InsertAt(s, at, e), s, at, e)
<1> DEFINE before == SubSeq(s, 1, at - 1)
           after == SubSeq(s, at, Len(s))
           first == before \o <<e>>
<1>1. Len(s) \in Nat /\ at \in Nat /\ 1 <= at /\ at <= Len(s) + 1
  OBVIOUS
<1>2. /\ before \in Seq(S) /\ Len(before) = at - 1
      /\ \A i \in 1..at-1 : before[i] = s[i]
  OBVIOUS
<1>3. /\ after \in Seq(S) /\ Len(after) = Len(s) - at + 1
      /\ \A i \in 1..Len(s)-at+1 : after[i] = s[at + i - 1]
  OBVIOUS
<1> HIDE DEF before, after
<1>4. /\ first \in Seq(S) /\ Len(first) = at
      /\ \A i \in 1..at : first[i] = IF i < at THEN s[i] ELSE e
  BY <1>2
<1>5. InsertAt(s, at, e) = first \o after
  BY DEF InsertAt, before, after
<1> HIDE DEF first
<1>6. /\ first \o after \in Seq(S) /\ Len(first \o after) = Len(s) + 1
  BY <1>1, <1>3, <1>4
<1>7. ASSUME NEW i \in 1..Len(s)+1
      PROVE  (first \o after)[i] = IF i < at THEN s[i] ELSE IF i = at THEN e ELSE s[i - 1]
  <2>1. CASE i <= at
    BY <1>3, <1>4, <2>1
  <2>2. CASE i > at
    <3>1. (first \o after)[i] = after[i - at]
      BY <1>3, <1>4, <2>2, SMTT(30)
    <3>2. i - at \in 1..Len(s)-at+1 /\ at + (i - at) - 1 = i - 1
      BY <2>2
    <3> QED
      BY <1>3, <2>2, <3>1, <3>2
  <2>3. i <= at \/ i > at
    BY <1>1
  <2> QED
    BY <2>1, <2>2, <2>3
<1> QED
  BY <1>5, <1>6, <1>7 DEF HasInserted

LEMMA Removal ==
  ASSUME NEW S, NEW s \in Seq(S), NEW at \in 1..Len(s)
  PROVE  RemoveAt(s, at) \in Seq(S) /\ HasRemoved(RemoveAt(s, at), s, at)
<1> DEFINE before == SubSeq(s, 1, at - 1)
           after == SubSeq(s, at + 1, Len(s))
<1>1. Len(s) \in Nat /\ at \in Nat /\ 1 <= at /\ at <= Len(s)
  OBVIOUS
<1>2. /\ before \in Seq(S) /\ Len(before) = at - 1
      /\ \A i \in 1..at-1 : before[i] = s[i]
  OBVIOUS
<1>3. /\ after \in Seq(S) /\ Len(after) = Len(s) - at
      /\ \A i \in 1..Len(s)-at : after[i] = s[at + i]
  OBVIOUS
<1>4. RemoveAt(s, at) = before \o after
  BY DEF RemoveAt
<1> HIDE DEF before, after
<1>5. before \o after \in Seq(S) /\ Len(before \o after) = Len(s) - 1
  BY <1>2, <1>3
<1>6. ASSUME NEW i \in 1..Len(s)-1
      PROVE  (before \o after)[i] = IF i < at THEN s[i] ELSE s[i + 1]
  <2>1. CASE i < at
    BY <1>2, <1>3, <2>1
  <2>2. CASE i >= at
    <3>1. (before \o after)[i] = after[i - (at - 1)]
      BY <1>2, <1>3, <2>2
    <3>2. i - (at - 1) \in 1..Len(s)-at /\ at + (i - (at - 1)) = i + 1
      BY <2>2
    <3> QED
      BY <1>3, <2>2, <3>1, <3>2
  <2>3. i < at \/ i >= at
    BY <1>1
  <2> QED
    BY <2>1, <2>2, <2>3
<1> QED
  BY <1>4, <1>5, <1>6 DEF HasRemoved

-----------------------------------------------------------------------------
LEMMA PutIn ==
  ASSUME NEW s \in Seq(Slots), NEW at \in 1..Len(s)+1, NEW e \in Slots,
         NEW t, t = InsertAt(s, at, e)
  PROVE  /\ t \in Seq(Slots) /\ Len(t) = Len(s) + 1
         /\ \A i \in 1..Len(s)+1 :
              t[i] = IF i < at THEN s[i] ELSE IF i = at THEN e ELSE s[i - 1]
<1>1. /\ InsertAt(s, at, e) \in Seq(Slots)
      /\ HasInserted(InsertAt(s, at, e), s, at, e)
  BY Insertion, Zenon
<1>2. t \in Seq(Slots) /\ HasInserted(t, s, at, e)
  BY <1>1, Zenon
<1> QED
  BY <1>2 DEF HasInserted

LEMMA TakenOut ==
  ASSUME NEW s \in Seq(Slots), NEW at \in 1..Len(s), NEW t, t = RemoveAt(s, at)
  PROVE  /\ t \in Seq(Slots) /\ Len(t) = Len(s) - 1
         /\ \A i \in 1..Len(s)-1 : t[i] = IF i < at THEN s[i] ELSE s[i + 1]
<1>1. /\ RemoveAt(s, at) \in Seq(Slots)
      /\ HasRemoved(RemoveAt(s, at), s, at)
  BY Removal, Zenon
<1>2. t \in Seq(Slots) /\ HasRemoved(t, s, at)
  BY <1>1, Zenon
<1> QED
  BY <1>2 DEF HasRemoved

(* The comparison yields integers, and zero for an address and itself.     *)
LEMMA CmpType ==
  ASSUME NEW a \in Int, NEW b \in Int
  PROVE  Cmp(a, b) \in Int /\ Cmp(a, a) = 0
<1>1. CmpWord \in Nat /\ CmpWord > 0 /\ Third \in Nat
  BY ThirdAssumption
<1>2. PICK h \in Nat : h = CmpWord \div 2 /\ h < CmpWord
  BY <1>1
<1>3. ASSUME NEW m \in Nat, m > 0, NEW x \in Int
      PROVE  x % m \in Int /\ (x >= 0 /\ x < m => x % m = x)
  BY <1>3
<1>4. PICK x \in Int : x = (a - b) * Third
  BY <1>1
<1>5. (x + h) % CmpWord \in Int
  BY <1>1, <1>2, <1>3
<1>6. (a - a) * Third = 0
  BY <1>1
<1>7. (0 + h) % CmpWord = h
  BY <1>1, <1>2, <1>3
<1> QED
  BY <1>2, <1>4, <1>5, <1>6, <1>7 DEF Cmp

-----------------------------------------------------------------------------
(* Chunks.                                                                 *)

LEMMA TotalType ==
  ASSUME NEW size \in Sizes
  PROVE  /\ Total(size) \in 0..SizeWord-1 /\ size \in Nat
         /\ Header + size < SizeWord => Total(size) = Header + size
<1>1. SizeWord \in Nat /\ SizeWord > 0 /\ size \in Nat
  BY SizesAssumption, SlotsAssumption
<1>2. ASSUME NEW m \in Nat, m > 0, NEW x \in Nat
      PROVE  x % m \in 0..m-1 /\ (x < m => x % m = x)
  BY <1>2
<1>3. Header + size \in Nat
  BY <1>1 DEF Header
<1> QED
  BY <1>1, <1>2, <1>3 DEF Total

LEMMA ChunkType ==
  ASSUME NEW address \in Slots, NEW total \in 0..SizeWord-1
  PROVE  /\ Chunk(address, total) \in ChunkRecords
         /\ Chunk(address, total).pentry = address
         /\ Chunk(address, total).size = total /\ Chunk(address, total).length = total
  BY DEF Chunk, ChunkRecords

LEMMA ChunksType ==
  ASSUME TypeOK
  PROVE  DOMAIN chunks \subseteq Slots /\ \A a \in DOMAIN chunks : chunks[a] \in ChunkRecords
  BY DEF TypeOK, ChunkRecords

(* Where a chunk fits there is none.                                       *)
LEMMA FitsNew ==
  ASSUME NEW given, DOMAIN given \subseteq Slots, \A a \in DOMAIN given : given[a] \in ChunkRecords,
         NEW address \in Slots, NEW total \in 0..SizeWord-1, Fits(address, total, given)
  PROVE  address \notin DOMAIN given
<1>1. SUFFICES ASSUME address \in DOMAIN given PROVE FALSE
  OBVIOUS
<1>2. address \in Int /\ SizeWord \in Nat
  BY SlotsAssumption DEF Slots
<1>3. ASSUME NEW n \in 0..SizeWord-1 PROVE address \in Units(address, n)
  BY <1>2, <1>3 DEF Units, Header
<1>4. address \in InUse(given)
  <2>1. given[address].length \in 0..SizeWord-1
    BY <1>1 DEF ChunkRecords
  <2>2. address \in Units(address, given[address].length)
    BY <1>3, <2>1
  <2> QED
    BY <1>1, <2>2 DEF InUse
<1>5. address \in Units(address, total)
  BY <1>3
<1> QED
  BY <1>4, <1>5 DEF Fits

LEMMA WithoutChunk ==
  ASSUME NEW f, NEW a
  PROVE  /\ DOMAIN Without(f, a) = DOMAIN f \ {a}
         /\ \A x \in DOMAIN f \ {a} : Without(f, a)[x] = f[x]
  BY DEF Without

-----------------------------------------------------------------------------
(* The tree.                                                               *)

LEMMA TreeType ==
  ASSUME TypeOK, Len(tree) <= MaxBlocks
  PROVE  /\ tree \in Seq(Slots) /\ Len(tree) \in Nat /\ DOMAIN tree = 1..Len(tree)
         /\ \A i \in 1..Len(tree) : tree[i] \in Slots /\ tree[i] \in Int
<1>1. tree \in Seq(Slots) /\ Slots \subseteq Int
  BY SlotsAssumption DEF TypeOK, Slots
<1>2. Len(tree) \in Nat /\ DOMAIN tree = 1..Len(tree)
  BY <1>1
<1>3. PICK n \in Nat : n = Len(tree)
  BY <1>2, BlocksAssumption
<1>4. \A i \in 1..n : tree[i] \in Slots
  BY <1>1, <1>2, <1>3
<1> QED
  BY <1>1, <1>2, <1>3, <1>4

(* Where the headers are true, the keys of the tree are its addresses.     *)
LEMMA KeysAreAddresses ==
  ASSUME NEW t \in Seq(Slots), NEW given, \A i \in DOMAIN t : given[t[i]].pentry = t[i]
  PROVE  KeysOf(t, given) = t
<1>1. PICK n \in Nat : t \in [1..n -> Slots] /\ DOMAIN t = 1..n
  <2>1. Len(t) \in Nat /\ DOMAIN t = 1..Len(t) /\ t \in [1..Len(t) -> Slots]
    OBVIOUS
  <2> QED
    BY <2>1
<1>2. KeysOf(t, given) = [i \in 1..n |-> t[i]]
  BY <1>1 DEF KeysOf
<1> QED
  BY <1>1, <1>2

LEMMA AddressesComparable ==
  ASSUME IInv, pc = "run", NEW address \in Slots
  PROVE  /\ KeysOf(tree, chunks) = tree
         /\ Places(address) = Tree!Places(tree, address)
         /\ Comparable(tree, address)
<1>1. /\ tree \in Seq(Slots) /\ Len(tree) \in Nat /\ DOMAIN tree = 1..Len(tree)
      /\ \A i \in 1..Len(tree) : tree[i] \in Int
  BY TreeType DEF IInv
<1>2. KeysOf(tree, chunks) = tree
  <2>1. \A i \in DOMAIN tree : chunks[tree[i]].pentry = tree[i]
    BY DEF IInv, HeadersTrue
  <2> QED
    BY <1>1, <2>1, KeysAreAddresses
<1>3. address \in Int
  BY SlotsAssumption DEF Slots
<1>4. \A i \in 1..Len(tree) : Cmp(address, tree[i]) \in Int
  BY <1>1, <1>3, CmpType
<1>5. Comparable(tree, address)
  BY <1>1, <1>4 DEF Comparable
<1> QED
  BY <1>2, <1>5 DEF Places

(* A search not ending at a node ends at a place for one more.             *)
LEMMA PlaceInTree ==
  ASSUME IInv, pc = "run", NEW address \in Slots, NEW place \in Places(address), ~ place.found
  PROVE  place.at \in 1..Len(tree)+1
  BY AddressesComparable, SearchEnds

(* The node found is the one whose address is looked for.                  *)
LEMMA FoundHere ==
  ASSUME IInv, NEW address \in Slots, NEW i \in DOMAIN tree, Finds(address, i)
  PROVE  pc = "run" /\ tree[i] = address /\ address \in DOMAIN chunks
<1>1. pc = "run" /\ chunks[tree[i]].pentry = address
  BY DEF Finds
<1>2. chunks[tree[i]].pentry = tree[i] /\ tree[i] \in DOMAIN chunks
  BY <1>1 DEF IInv, HeadersTrue, ChunksAccounted
<1> QED
  BY <1>1, <1>2

(* Cutting an address out of a sorted tree leaves it sorted.               *)
LEMMA SortedWithout ==
  ASSUME NEW t \in Seq(Slots), NEW at \in 1..Len(t), Tree!Sorted(t)
  PROVE  Tree!Sorted(RemoveAt(t, at))
<1>1. PICK n \in Nat : n = Len(t) /\ DOMAIN t = 1..n /\ n >= 1
  <2>1. Len(t) \in Nat /\ DOMAIN t = 1..Len(t)
    OBVIOUS
  <2>2. PICK n \in Nat : n = Len(t)
    BY <2>1
  <2>3. n >= 1
    BY <2>2
  <2> QED
    BY <2>1, <2>2, <2>3
<1>2. PICK u : u = RemoveAt(t, at)
  OBVIOUS
<1>3. /\ u \in Seq(Slots) /\ Len(u) = n - 1
      /\ \A i \in 1..n-1 : u[i] = IF i < at THEN t[i] ELSE t[i + 1]
  BY <1>1, <1>2, TakenOut
<1>4. DOMAIN u = 1..n-1
  BY <1>1, <1>3
<1>5. ASSUME NEW i \in DOMAIN u, NEW j \in DOMAIN u, i < j
      PROVE  Cmp(u[i], u[j]) < 0 /\ Cmp(u[j], u[i]) > 0
  <2>1. \E k, l \in 1..n : k < l /\ u[i] = t[k] /\ u[j] = t[l]
    <3>1. CASE j < at
      BY <1>1, <1>3, <1>4, <1>5, <3>1
    <3>2. CASE i < at /\ ~ (j < at)
      <4>1. i \in 1..n /\ j + 1 \in 1..n /\ i < j + 1 /\ u[i] = t[i] /\ u[j] = t[j + 1]
        BY <1>1, <1>3, <1>4, <1>5, <3>2
      <4> QED
        BY <4>1
    <3>3. CASE ~ (i < at)
      <4>1. /\ i + 1 \in 1..n /\ j + 1 \in 1..n /\ i + 1 < j + 1
            /\ u[i] = t[i + 1] /\ u[j] = t[j + 1]
        BY <1>1, <1>3, <1>4, <1>5, <3>3
      <4> QED
        BY <4>1
    <3> QED
      BY <1>4, <1>5, <3>1, <3>2, <3>3
  <2> QED
    BY <1>1, <2>1 DEF Tree!Sorted
<1> QED
  BY <1>2, <1>5 DEF Tree!Sorted

(* In a sorted tree of addresses the comparison with one of them agrees    *)
(* with the order of the tree.                                             *)
LEMMA SortedAgrees ==
  ASSUME IInv, pc = "run", ~ disordered, NEW i \in DOMAIN tree
  PROVE  Agrees(tree, tree[i]) /\ Cmp(tree[i], tree[i]) = 0
<1>1. /\ DOMAIN tree = 1..Len(tree) /\ Len(tree) \in Nat
      /\ \A k \in 1..Len(tree) : tree[k] \in Int
  BY TreeType DEF IInv
<1>2. Cmp(tree[i], tree[i]) = 0 /\ \A k \in 1..Len(tree) : Cmp(tree[i], tree[k]) \in Int
  BY <1>1, CmpType
<1>3. \A k, l \in 1..Len(tree) : k < l => Cmp(tree[k], tree[l]) < 0 /\ Cmp(tree[l], tree[k]) > 0
  BY <1>1 DEF IInv, InOrder, Tree!Sorted
<1>4. ASSUME NEW k \in 1..Len(tree), NEW l \in 1..Len(tree), k < l, Cmp(tree[i], tree[k]) <= 0
      PROVE  Cmp(tree[i], tree[l]) < 0
  <2>1. i \in Int /\ k \in Int /\ l \in Int
    BY <1>1
  <2>2. ~ (k < i)
    BY <1>1, <1>2, <1>3, <1>4
  <2>3. i < l
    BY <1>4, <2>1, <2>2
  <2> QED
    BY <1>1, <1>3, <2>3
<1> QED
  BY <1>2, <1>4 DEF Agrees


-----------------------------------------------------------------------------
(* The invariant, initially.                                               *)

LEMMA InitIInv == Init => IInv
<1> SUFFICES ASSUME Init PROVE IInv
  OBVIOUS
<1>1. DOMAIN chunks = {} /\ tree = <<>> /\ held = {} /\ leaked = {} /\ pc = "run"
  BY DEF Init
<1>2. Len(tree) = 0 /\ DOMAIN tree = {} /\ tree \in Seq(Slots)
  BY <1>1
<1>3. TypeOK
  BY <1>1, <1>2 DEF Init, TypeOK, Results
<1>4. Len(tree) <= MaxBlocks
  BY <1>2, BlocksAssumption
<1>5. ChunksAccounted /\ HeadersTrue /\ SizeHeld /\ HeldInTree
  BY <1>1, <1>2 DEF ChunksAccounted, HeadersTrue, SizeHeld, HeldInTree
<1>6. InOrder
  BY <1>2 DEF InOrder, Tree!Sorted
<1> QED
  BY <1>3, <1>4, <1>5, <1>6 DEF IInv

-----------------------------------------------------------------------------
(* Steps that end the program, and those that change nothing but perhaps   *)
(* give up blocks.                                                         *)

LEMMA Ending ==
  ASSUME IInv, pc' \in Ends, TypeOK', (Len(tree) <= MaxBlocks)', pc' = "aborted" => SizeHeld'
  PROVE  IInv'
<1>1. pc' # "run"
  BY DEF Ends
<1>2. SizeHeld'
  <2>1. CASE pc' = "aborted"
    BY <2>1
  <2>2. CASE pc' # "aborted"
    BY <1>1, <2>2 DEF SizeHeld
  <2> QED
    BY <2>1, <2>2
<1>3. ChunksAccounted' /\ HeadersTrue' /\ HeldInTree' /\ InOrder'
  BY <1>1 DEF ChunksAccounted, HeadersTrue, HeldInTree, InOrder
<1> QED
  BY <1>2, <1>3 DEF IInv

LEMMA QuietStep ==
  ASSUME IInv, ret' \in Results, held' \subseteq held,
         UNCHANGED <<chunks, tree, pc, leaked, disordered>>
  PROVE  IInv'
<1>1. TypeOK'
  BY DEF IInv, TypeOK
<1>2. (Len(tree) <= MaxBlocks)' /\ ChunksAccounted' /\ HeadersTrue'
  BY DEF IInv, ChunksAccounted, HeadersTrue
<1>3. SizeHeld' /\ HeldInTree'
  BY DEF IInv, SizeHeld, HeldInTree
<1>4. InOrder'
  BY DEF IInv, InOrder
<1> QED
  BY <1>1, <1>2, <1>3, <1>4 DEF IInv

(* A failed assertion ends the program and changes nothing.                *)
LEMMA AbortStep ==
  ASSUME IInv, pc = "run", Stops("aborted"), UNCHANGED <<chunks, tree, held, leaked, disordered>>
  PROVE  IInv'
<1>1. TypeOK'
  BY DEF IInv, TypeOK, Stops, Ends, Results
<1>2. (Len(tree) <= MaxBlocks)' /\ SizeHeld'
  BY DEF IInv, SizeHeld
<1>3. pc' \in Ends
  BY DEF Stops, Ends
<1> QED
  BY <1>1, <1>2, <1>3, Ending

LEMMA DroppedHeld ==
  ASSUME NEW address
  PROVE  Dropped(address) \subseteq held /\ \A b \in Dropped(address) : b.address # address
  BY DEF Dropped

(* The calls that fail.                                                    *)
LEMMA FailingSteps ==
  ASSUME IInv, NEW address,
         \/ MallocFails \/ ReallocNotFound(address) \/ FreeNotFound(address)
  PROVE  IInv'
<1>1. ret' \in Results /\ UNCHANGED <<chunks, tree, pc, leaked, disordered>>
  BY DEF MallocFails, ReallocNotFound, FreeNotFound, Fails, Results
<1>2. held' \subseteq held
  BY DroppedHeld DEF MallocFails, ReallocNotFound, FreeNotFound
<1> QED
  BY <1>1, <1>2, QuietStep

LEMMA RefusedStep ==
  ASSUME IInv, NEW size, NEW address, NEW i, ReallocRefused(size, address, i)
  PROVE  IInv'
<1>1. ret' \in Results /\ held' \subseteq held /\ UNCHANGED <<chunks, tree, pc, leaked, disordered>>
  BY DEF ReallocRefused, Refused, Results
<1> QED
  BY <1>1, QuietStep

LEMMA WrongNodeStep ==
  ASSUME IInv, NEW address, WrongNode(address)
  PROVE  IInv'
  BY AbortStep DEF WrongNode

LEMMA StrdupStep ==
  ASSUME IInv, StrdupFails
  PROVE  IInv'
  BY AbortStep DEF StrdupFails

-----------------------------------------------------------------------------
(* malloc.                                                                 *)

(* The chunk the C library gives is a new one, and its header is true.     *)
LEMMA GivenChunk ==
  ASSUME IInv, NEW size \in Sizes, NEW address \in Slots, Fits(address, Total(size), chunks),
         chunks' = With(chunks, address, Chunk(address, Total(size)))
  PROVE  /\ DOMAIN chunks' = DOMAIN chunks \cup {address} /\ address \notin DOMAIN chunks
         /\ \A a \in DOMAIN chunks' : chunks'[a] \in ChunkRecords
         /\ \A a \in DOMAIN chunks : chunks'[a] = chunks[a]
         /\ chunks'[address] = Chunk(address, Total(size))
<1>1. Total(size) \in 0..SizeWord-1
  BY TotalType
<1>2. DOMAIN chunks \subseteq Slots /\ \A a \in DOMAIN chunks : chunks[a] \in ChunkRecords
  BY ChunksType DEF IInv
<1>3. address \notin DOMAIN chunks
  BY <1>1, <1>2, FitsNew
<1>4. /\ DOMAIN chunks' = DOMAIN chunks \cup {address}
      /\ chunks'[address] = Chunk(address, Total(size))
      /\ \A a \in DOMAIN chunks \ {address} : chunks'[a] = chunks[a]
  <2>1. PICK c : c = Chunk(address, Total(size))
    OBVIOUS
  <2>2. chunks' = With(chunks, address, c)
    BY <2>1
  <2>3. /\ DOMAIN chunks' = DOMAIN chunks \cup {address}
        /\ chunks'[address] = c
        /\ \A a \in DOMAIN chunks \ {address} : chunks'[a] = chunks[a]
    BY <2>2 DEF With
  <2> QED
    BY <2>1, <2>3
<1>5. Chunk(address, Total(size)) \in ChunkRecords
  BY <1>1, ChunkType
<1> QED
  BY <1>2, <1>3, <1>4, <1>5

LEMMA NodeAdded ==
  ASSUME tree \in Seq(Slots), NEW address \in Slots, NEW at \in 1..Len(tree)+1,
         tree' = InsertAt(tree, at, address)
  PROVE  /\ tree' \in Seq(Slots) /\ Len(tree') = Len(tree) + 1
         /\ \A i \in 1..Len(tree)+1 :
              tree'[i] = IF i < at THEN tree[i] ELSE IF i = at THEN address ELSE tree[i - 1]
<1>1. PICK t : t = InsertAt(tree, at, address)
  OBVIOUS
<1>2. tree' = t
  BY <1>1
<1>3. /\ t \in Seq(Slots) /\ Len(t) = Len(tree) + 1
      /\ \A i \in 1..Len(tree)+1 :
           t[i] = IF i < at THEN tree[i] ELSE IF i = at THEN address ELSE tree[i - 1]
  BY <1>1, PutIn, SMTT(30)
<1> QED
  BY <1>2, <1>3

(* Found before it was put in, by comparing equal to another: an assertion *)
(* fails.                                                                  *)
LEMMA MallocAborted ==
  ASSUME IInv, pc = "run", NEW size \in Sizes, NEW address \in Slots,
         Fits(address, Total(size), chunks), Stops("aborted"),
         chunks' = With(chunks, address, Chunk(address, Total(size))),
         UNCHANGED <<tree, held, leaked, disordered>>
  PROVE  IInv'
<1>1. /\ DOMAIN chunks' = DOMAIN chunks \cup {address} /\ address \notin DOMAIN chunks
      /\ \A a \in DOMAIN chunks' : chunks'[a] \in ChunkRecords
      /\ \A a \in DOMAIN chunks : chunks'[a] = chunks[a]
  BY GivenChunk, Zenon
<1>2. TypeOK'
  BY <1>1 DEF IInv, TypeOK, Stops, Ends, Results, ChunkRecords
<1>3. SizeHeld'
  BY <1>1 DEF IInv, SizeHeld
<1>4. (Len(tree) <= MaxBlocks)' /\ pc' \in Ends
  BY DEF IInv, Stops, Ends
<1> QED
  BY <1>2, <1>3, <1>4, Ending

LEMMA MallocDone ==
  ASSUME IInv, pc = "run", NEW size \in Sizes, NEW address \in Slots,
         Len(tree) < MaxBlocks, Fits(address, Total(size), chunks),
         NEW place \in Places(address), ~ place.found,
         chunks' = With(chunks, address, Chunk(address, Total(size))),
         tree' = InsertAt(tree, place.at, address),
         Disorders(tree', chunks'),
         held' = held \cup {[address |-> address, size |-> size]},
         ret' = "ok", UNCHANGED <<pc, leaked>>
  PROVE  IInv'
<1>1. /\ DOMAIN chunks' = DOMAIN chunks \cup {address} /\ address \notin DOMAIN chunks
      /\ \A a \in DOMAIN chunks' : chunks'[a] \in ChunkRecords
      /\ \A a \in DOMAIN chunks : chunks'[a] = chunks[a]
      /\ chunks'[address] = Chunk(address, Total(size))
  BY GivenChunk, Zenon
<1>2. PICK n \in Nat : n = Len(tree) /\ DOMAIN tree = 1..n
  BY TreeType DEF IInv
<1>3. PICK at \in 1..n+1 : at = place.at
  BY <1>2, PlaceInTree
<1>4. tree \in Seq(Slots) /\ \A i \in 1..n : tree[i] \in Slots
  BY <1>2, TreeType DEF IInv
<1>5. /\ tree' \in Seq(Slots) /\ Len(tree') = n + 1
      /\ \A i \in 1..n+1 : tree'[i] = IF i < at THEN tree[i] ELSE IF i = at THEN address
                                      ELSE tree[i - 1]
  <2>1. at \in 1..Len(tree)+1 /\ Len(tree) = n
    BY <1>2, <1>3
  <2>2. /\ tree' \in Seq(Slots) /\ Len(tree') = Len(tree) + 1
        /\ \A i \in 1..Len(tree)+1 :
             tree'[i] = IF i < at THEN tree[i] ELSE IF i = at THEN address ELSE tree[i - 1]
    BY <1>3, <1>4, <2>1, NodeAdded
  <2> QED
    BY <2>1, <2>2
<1>6. DOMAIN tree' = 1..n+1
  <2>1. DOMAIN tree' = 1..Len(tree')
    BY <1>5
  <2> QED
    BY <1>5, <2>1
<1>7. /\ \A i \in 1..n : tree[i] \in DOMAIN chunks /\ tree[i] # address
      /\ DOMAIN chunks = leaked \cup { tree[i] : i \in 1..n } /\ address \notin leaked
  <2>1. DOMAIN chunks = leaked \cup { tree[i] : i \in 1..n }
    BY <1>2 DEF IInv, ChunksAccounted
  <2> QED
    BY <1>1, <2>1
<1>8. \A i \in 1..n+1 : tree'[i] = address \/ \E j \in 1..n : tree'[i] = tree[j]
  <2>1. SUFFICES ASSUME NEW i \in 1..n+1
                 PROVE  tree'[i] = address \/ \E j \in 1..n : tree'[i] = tree[j]
    OBVIOUS
  <2>2. CASE i < at
    <3>1. i \in 1..n /\ tree'[i] = tree[i]
      BY <1>5, <2>2
    <3> QED
      BY <3>1
  <2>3. CASE i = at
    BY <1>5, <2>3
  <2>4. CASE i > at
    <3>1. i - 1 \in 1..n /\ tree'[i] = tree[i - 1]
      BY <1>5, <2>4
    <3> QED
      BY <3>1
  <2> QED
    BY <2>2, <2>3, <2>4
<1>9. /\ at \in 1..n+1 /\ tree'[at] = address
      /\ \A j \in 1..n : \E i \in 1..n+1 : tree'[i] = tree[j]
  <2>1. tree'[at] = address
    BY <1>5
  <2>2. ASSUME NEW j \in 1..n PROVE \E i \in 1..n+1 : tree'[i] = tree[j]
    <3>1. CASE j < at
      <4>1. j \in 1..n+1 /\ tree'[j] = tree[j]
        BY <1>5, <3>1
      <4> QED
        BY <4>1
    <3>2. CASE j >= at
      <4>1. j + 1 \in 1..n+1 /\ j + 1 > at /\ (j + 1) - 1 = j
        BY <3>2
      <4>2. tree'[j + 1] = tree[j]
        BY <1>5, <4>1
      <4> QED
        BY <4>1, <4>2
    <3> QED
      BY <3>1, <3>2
  <2> QED
    BY <2>1, <2>2
<1>10. TypeOK'
  <2>1. held' \subseteq [address : Slots, size : Sizes]
    BY DEF IInv, TypeOK
  <2>2. disordered' \in BOOLEAN
    BY DEF IInv, TypeOK, Disorders
  <2>3. DOMAIN chunks' \subseteq Slots
    BY <1>1 DEF IInv, TypeOK
  <2>4. \A a \in DOMAIN chunks' :
          chunks'[a] \in [pentry : Slots, size : 0..SizeWord-1, length : 0..SizeWord-1]
    BY <1>1 DEF ChunkRecords
  <2>5. ret' \in Results
    BY DEF Results
  <2> QED
    BY <1>5, <2>1, <2>2, <2>3, <2>4, <2>5 DEF IInv, TypeOK
<1>11. (Len(tree) <= MaxBlocks)'
  BY <1>2, <1>5, BlocksAssumption
<1>12. ChunksAccounted'
  <2>1. DOMAIN chunks' = leaked' \cup { tree'[i] : i \in 1..n+1 }
    <3>1. ASSUME NEW a \in DOMAIN chunks' PROVE a \in leaked \/ \E i \in 1..n+1 : a = tree'[i]
      BY <1>1, <1>7, <1>9
    <3>2. ASSUME NEW i \in 1..n+1 PROVE tree'[i] \in DOMAIN chunks'
      BY <1>1, <1>7, <1>8
    <3>3. leaked \subseteq DOMAIN chunks' /\ leaked' = leaked
      BY <1>1, <1>7
    <3>4. PICK all : all = { tree'[i] : i \in 1..n+1 }
      OBVIOUS
    <3>5. \A a : a \in all <=> \E i \in 1..n+1 : a = tree'[i]
      BY <3>4
    <3>6. PICK d : d = DOMAIN chunks'
      OBVIOUS
    <3>7. (\A a \in d : a \in leaked \/ a \in all) /\ (\A a \in all : a \in d) /\ leaked \subseteq d
      BY <3>1, <3>2, <3>3, <3>5, <3>6
    <3>8. d = leaked \cup all
      BY <3>7
    <3> QED
      BY <3>3, <3>4, <3>6, <3>8
  <2>2. \A i, j \in 1..n : i # j => tree[i] # tree[j]
    BY <1>2 DEF IInv, ChunksAccounted
  <2>3. ASSUME NEW i \in 1..n+1, NEW j \in 1..n+1, i < j PROVE tree'[i] # tree'[j]
    <3>1. CASE j < at
      BY <1>5, <2>2, <2>3, <3>1
    <3>2. CASE j = at
      <4>1. i \in 1..n /\ tree'[i] = tree[i] /\ tree'[j] = address
        BY <1>5, <2>3, <3>2
      <4> QED
        BY <1>7, <4>1
    <3>3. CASE j > at /\ i = at
      <4>1. j - 1 \in 1..n /\ tree'[j] = tree[j - 1] /\ tree'[i] = address
        BY <1>5, <2>3, <3>3
      <4> QED
        BY <1>7, <4>1
    <3>4. CASE j > at /\ i < at
      <4>1. i \in 1..n /\ j - 1 \in 1..n /\ i # j - 1
        BY <2>3, <3>4
      <4>2. tree'[j] = tree[j - 1] /\ tree'[i] = tree[i]
        BY <1>5, <2>3, <3>4
      <4> QED
        BY <2>2, <4>1, <4>2
    <3>5. CASE i > at
      <4>1. i - 1 \in 1..n /\ j - 1 \in 1..n /\ i - 1 # j - 1
        BY <2>3, <3>5
      <4>2. tree'[j] = tree[j - 1] /\ tree'[i] = tree[i - 1]
        BY <1>5, <2>3, <3>5
      <4> QED
        BY <2>2, <4>1, <4>2
    <3> QED
      BY <2>3, <3>1, <3>2, <3>3, <3>4, <3>5
  <2>4. \A i, j \in 1..n+1 : i # j => tree'[i] # tree'[j]
    <3>1. \A i, j \in 1..n+1 : i # j => i < j \/ j < i
      OBVIOUS
    <3> QED
      BY <2>3, <3>1
  <2>5. \A i \in 1..n : tree[i] \notin leaked
    BY <1>2 DEF IInv, ChunksAccounted
  <2>6. \A i \in 1..n+1 : tree'[i] \notin leaked'
    BY <1>7, <1>8, <2>5
  <2> QED
    BY <1>6, <2>1, <2>4, <2>6 DEF ChunksAccounted
<1>13. \A i \in 1..n+1 : chunks'[tree'[i]].pentry = tree'[i]
                         /\ chunks'[tree'[i]].size = chunks'[tree'[i]].length
  <2>1. \A i \in 1..n : chunks[tree[i]].pentry = tree[i]
                        /\ chunks[tree[i]].size = chunks[tree[i]].length
    BY <1>2 DEF IInv, HeadersTrue
  <2>2. \A i \in 1..n : chunks'[tree[i]] = chunks[tree[i]]
    BY <1>1, <1>7
  <2>3. chunks'[address].pentry = address /\ chunks'[address].size = chunks'[address].length
    BY <1>1 DEF Chunk
  <2> QED
    BY <1>8, <2>1, <2>2, <2>3
<1>14. HeadersTrue'
  BY <1>6, <1>13 DEF HeadersTrue
<1>15. SizeHeld'
  <2>1. ASSUME NEW b \in held
        PROVE  /\ b.address \in DOMAIN chunks'
               /\ Header + b.size < SizeWord => chunks'[b.address].length >= Header + b.size
    BY <1>1 DEF IInv, SizeHeld
  <2>2. Header + size < SizeWord => chunks'[address].length >= Header + size
    <3>1. Header + size < SizeWord => Total(size) = Header + size
      BY TotalType
    <3>2. Header + size \in Int
      BY TotalType DEF Header
    <3> QED
      BY <1>1, <3>1, <3>2 DEF Chunk
  <2> QED
    BY <1>1, <2>1, <2>2 DEF SizeHeld
<1>16. HeldInTree'
  <2>1. ASSUME NEW b \in held PROVE \E i \in 1..n+1 : tree'[i] = b.address
    <3>1. PICK j \in 1..n : tree[j] = b.address
      BY <1>2, <2>1 DEF IInv, HeldInTree
    <3> QED
      BY <1>9, <3>1
  <2>2. ASSUME NEW b \in held' PROVE \E i \in DOMAIN tree' : tree'[i] = b.address
    <3>1. b \in held \/ b.address = address
      BY <2>2
    <3>2. \E i \in 1..n+1 : tree'[i] = b.address
      BY <1>9, <2>1, <3>1
    <3> QED
      BY <1>6, <3>2
  <2> QED
    BY <2>2 DEF HeldInTree
<1>17. InOrder'
  <2>1. ~ disordered' => Tree!Sorted(KeysOf(tree', chunks'))
    BY DEF Disorders
  <2>2. KeysOf(tree', chunks') = tree'
    BY <1>5, <1>6, <1>13, KeysAreAddresses
  <2>3. ~ disordered' => Tree!Sorted(tree')
    BY <2>1, <2>2
  <2> QED
    BY <2>3 DEF InOrder, Tree!Sorted
<1> QED
  BY <1>10, <1>11, <1>12, <1>14, <1>15, <1>16, <1>17 DEF IInv

LEMMA MallocStep ==
  ASSUME IInv, NEW size \in Sizes, NEW address \in Slots, Malloc(size, address)
  PROVE  IInv'
<1>1. /\ pc = "run" /\ Len(tree) < MaxBlocks /\ Fits(address, Total(size), chunks)
      /\ UNCHANGED leaked
  BY DEF Malloc
<1>2. PICK place \in Places(address) :
        \/ /\ Stops("aborted")
           /\ chunks' = With(chunks, address, Chunk(address, Total(size)))
           /\ UNCHANGED <<tree, held, disordered>>
        \/ /\ ~ place.found
           /\ chunks' = With(chunks, address, Chunk(address, Total(size)))
           /\ tree' = InsertAt(tree, place.at, address)
           /\ Disorders(tree', With(chunks, address, Chunk(address, Total(size))))
           /\ held' = held \cup {[address |-> address, size |-> size]}
           /\ ret' = "ok"
           /\ UNCHANGED pc
        \/ /\ chunks' = chunks
           /\ ret' = "failed"
           /\ UNCHANGED <<tree, pc, held, disordered>>
  BY DEF Malloc, GivenBack
<1>3. CASE /\ Stops("aborted")
           /\ chunks' = With(chunks, address, Chunk(address, Total(size)))
           /\ UNCHANGED <<tree, held, disordered>>
  BY <1>1, <1>3, MallocAborted
<1>4. CASE /\ ~ place.found
           /\ chunks' = With(chunks, address, Chunk(address, Total(size)))
           /\ tree' = InsertAt(tree, place.at, address)
           /\ Disorders(tree', With(chunks, address, Chunk(address, Total(size))))
           /\ held' = held \cup {[address |-> address, size |-> size]}
           /\ ret' = "ok"
           /\ UNCHANGED pc
  <2>1. Disorders(tree', chunks')
    BY <1>4
  <2> QED
    BY <1>1, <1>4, <2>1, MallocDone
<1>5. CASE /\ chunks' = chunks
           /\ ret' = "failed"
           /\ UNCHANGED <<tree, pc, held, disordered>>
  <2>1. ret' \in Results /\ held' \subseteq held
    BY <1>5 DEF Results
  <2> QED
    BY <1>1, <1>5, <2>1, QuietStep
<1> QED
  BY <1>2, <1>3, <1>4, <1>5

-----------------------------------------------------------------------------
(* realloc.                                                                *)

(* No chunk but the one moved is disturbed.                                *)
OthersKept(address, to) ==
  \A a \in DOMAIN chunks : a # address => a # to /\ chunks'[a] = chunks[a]

(* The chunk is out of the place it was at, and in the place it is at now. *)
LEMMA MovedChunk ==
  ASSUME IInv, NEW size \in Sizes, NEW address \in Slots, NEW i \in DOMAIN tree,
         NEW to \in Slots, address \in DOMAIN chunks, Realloc(size, address, i, to)
  PROVE  /\ DOMAIN chunks' = (DOMAIN chunks \ {address}) \cup {to}
         /\ OthersKept(address, to)
         /\ \A a \in DOMAIN chunks' : chunks'[a] \in ChunkRecords
         /\ chunks'[to] = Chunk(to, Total(size))
<1>1. Total(size) \in 0..SizeWord-1
  BY TotalType
<1>2. DOMAIN chunks \subseteq Slots /\ \A a \in DOMAIN chunks : chunks[a] \in ChunkRecords
  BY ChunksType DEF IInv
<1>3. PICK rest : rest = Without(chunks, address)
  OBVIOUS
<1>4. DOMAIN rest = DOMAIN chunks \ {address} /\ \A a \in DOMAIN rest : rest[a] = chunks[a]
  BY <1>3 DEF Without
<1>5. to \notin DOMAIN rest
  <2>1. CASE to = address
    BY <1>4, <2>1
  <2>2. CASE to # address
    <3>1. Fits(to, Total(size), chunks)
      BY <2>2 DEF Realloc
    <3>2. to \notin DOMAIN chunks
      BY <1>1, <1>2, <3>1, FitsNew
    <3> QED
      BY <1>4, <3>2
  <2> QED
    BY <2>1, <2>2
<1>6. PICK c : c = Chunk(to, Total(size))
  OBVIOUS
<1>7. PICK moved : moved = With(rest, to, c) /\ chunks' = moved
  BY <1>3, <1>6 DEF Realloc, HeaderRewritten
<1>8. /\ DOMAIN moved = DOMAIN rest \cup {to} /\ moved[to] = c
      /\ \A a \in DOMAIN rest \ {to} : moved[a] = rest[a]
  BY <1>7 DEF With
<1>9. c \in ChunkRecords
  BY <1>1, <1>6, ChunkType
<1>10. /\ DOMAIN moved = (DOMAIN chunks \ {address}) \cup {to}
       /\ \A a \in DOMAIN chunks : a # address => a # to /\ moved[a] = chunks[a]
       /\ \A a \in DOMAIN moved : moved[a] \in ChunkRecords
  BY <1>2, <1>4, <1>5, <1>8, <1>9
<1>11. OthersKept(address, to)
  BY <1>7, <1>10 DEF OthersKept
<1> QED
  BY <1>6, <1>7, <1>8, <1>10, <1>11

LEMMA ReallocStep ==
  ASSUME IInv, NEW size \in Sizes, NEW address \in Slots, NEW i \in DOMAIN tree, NEW to \in Slots,
         Realloc(size, address, i, to)
  PROVE  IInv'
<1>1. pc = "run" /\ tree[i] = address /\ address \in DOMAIN chunks
  BY FoundHere DEF Realloc
<1>2. PICK n \in Nat : n = Len(tree) /\ DOMAIN tree = 1..n
  BY TreeType DEF IInv
<1>3. /\ tree' = [tree EXCEPT ![i] = to] /\ i \in 1..n
      /\ UNCHANGED <<pc, leaked>> /\ ret' = "ok"
      /\ held' = Dropped(address) \cup {[address |-> to, size |-> size]}
  BY <1>2 DEF Realloc, KeyRewritten
<1>4. /\ DOMAIN chunks' = (DOMAIN chunks \ {address}) \cup {to}
      /\ \A a \in DOMAIN chunks : a # address => a # to /\ chunks'[a] = chunks[a]
      /\ \A a \in DOMAIN chunks' : chunks'[a] \in ChunkRecords
      /\ chunks'[to] = Chunk(to, Total(size))
  <2>1. DOMAIN chunks' = (DOMAIN chunks \ {address}) \cup {to}
    BY <1>1, MovedChunk, Zenon
  <2>2. OthersKept(address, to)
    BY <1>1, MovedChunk, Zenon
  <2>3. \A a \in DOMAIN chunks' : chunks'[a] \in ChunkRecords
    BY <1>1, MovedChunk, Zenon
  <2>4. chunks'[to] = Chunk(to, Total(size))
    BY <1>1, MovedChunk, Zenon
  <2> QED
    BY <2>1, <2>2, <2>3, <2>4, Zenon DEF OthersKept
<1>5. tree \in Seq(Slots)
  BY TreeType DEF IInv
<1>6. /\ tree' \in Seq(Slots) /\ Len(tree') = n /\ DOMAIN tree' = 1..n
      /\ tree'[i] = to /\ \A j \in 1..n : j # i => tree'[j] = tree[j]
  BY <1>2, <1>3, <1>5
<1>7. /\ DOMAIN chunks = leaked \cup { tree[j] : j \in 1..n }
      /\ \A j, k \in 1..n : j # k => tree[j] # tree[k]
      /\ \A j \in 1..n : tree[j] \notin leaked
  BY <1>1, <1>2 DEF IInv, ChunksAccounted
<1>8. \A j \in 1..n : j # i => tree[j] \in DOMAIN chunks /\ tree[j] # address /\ tree[j] # to
  <2>1. ASSUME NEW j \in 1..n, j # i PROVE tree[j] \in DOMAIN chunks /\ tree[j] # address
    BY <1>1, <1>3, <1>7, <2>1
  <2> QED
    BY <1>4, <2>1
<1>9. \A a \in leaked : a \in DOMAIN chunks /\ a # address /\ a # to
  <2>1. ASSUME NEW a \in leaked PROVE a \in DOMAIN chunks /\ a # address
    BY <1>1, <1>3, <1>7, <2>1
  <2> QED
    BY <1>4, <2>1
<1>10. TypeOK'
  <2>1. held' \subseteq [address : Slots, size : Sizes]
    BY <1>3, DroppedHeld DEF IInv, TypeOK
  <2>2. disordered' \in BOOLEAN
    BY DEF IInv, TypeOK, Realloc
  <2>3. DOMAIN chunks' \subseteq Slots
    BY <1>4 DEF IInv, TypeOK
  <2>4. \A a \in DOMAIN chunks' :
          chunks'[a] \in [pentry : Slots, size : 0..SizeWord-1, length : 0..SizeWord-1]
    BY <1>4 DEF ChunkRecords
  <2>5. ret' \in Results
    BY <1>3 DEF Results
  <2> QED
    BY <1>3, <1>6, <2>1, <2>2, <2>3, <2>4, <2>5 DEF IInv, TypeOK
<1>11. (Len(tree) <= MaxBlocks)'
  BY <1>2, <1>6 DEF IInv
<1>12. ChunksAccounted'
  <2>1. PICK all : all = { tree'[j] : j \in 1..n }
    OBVIOUS
  <2>2. ASSUME NEW a \in DOMAIN chunks' PROVE a \in leaked \/ a \in all
    <3>1. CASE a = to
      BY <1>3, <1>6, <2>1, <3>1
    <3>2. CASE a \in DOMAIN chunks /\ a # address
      <4>1. CASE a \in leaked
        BY <4>1
      <4>2. CASE a \notin leaked
        <5>1. PICK j \in 1..n : a = tree[j]
          BY <1>7, <3>2, <4>2
        <5>2. j # i
          BY <1>1, <3>2, <5>1
        <5> QED
          BY <1>6, <2>1, <5>1, <5>2
      <4> QED
        BY <4>1, <4>2
    <3> QED
      BY <1>4, <2>2, <3>1, <3>2
  <2>3. ASSUME NEW a \in all PROVE a \in DOMAIN chunks'
    <3>1. PICK j \in 1..n : a = tree'[j]
      BY <2>1, <2>3
    <3>2. CASE j = i
      BY <1>4, <1>6, <3>1, <3>2
    <3>3. CASE j # i
      <4>1. a = tree[j] /\ tree[j] \in DOMAIN chunks /\ tree[j] # address
        BY <1>6, <1>8, <3>1, <3>3
      <4> QED
        BY <1>4, <4>1
    <3> QED
      BY <3>2, <3>3
  <2>4. leaked \subseteq DOMAIN chunks'
    BY <1>4, <1>9
  <2>5. PICK d : d = DOMAIN chunks'
    OBVIOUS
  <2>6. d = leaked \cup all
    <3>1. (\A a \in d : a \in leaked \/ a \in all) /\ (\A a \in all : a \in d) /\ leaked \subseteq d
      BY <2>2, <2>3, <2>4, <2>5
    <3> QED
      BY <3>1
  <2>7. DOMAIN chunks' = leaked' \cup { tree'[j] : j \in 1..n }
    BY <1>3, <2>1, <2>5, <2>6
  <2>8. \A j, k \in 1..n : j # k => tree'[j] # tree'[k]
    <3>1. SUFFICES ASSUME NEW j \in 1..n, NEW k \in 1..n, j # k PROVE tree'[j] # tree'[k]
      OBVIOUS
    <3>2. CASE j = i
      BY <1>6, <1>8, <3>1, <3>2
    <3>3. CASE k = i
      BY <1>6, <1>8, <3>1, <3>3
    <3>4. CASE j # i /\ k # i
      BY <1>6, <1>7, <3>1, <3>4
    <3> QED
      BY <3>2, <3>3, <3>4
  <2>9. \A j \in 1..n : tree'[j] \notin leaked'
    <3>1. SUFFICES ASSUME NEW j \in 1..n PROVE tree'[j] \notin leaked
      BY <1>3
    <3>2. CASE j = i
      BY <1>6, <1>9, <3>2
    <3>3. CASE j # i
      BY <1>6, <1>7, <3>3
    <3> QED
      BY <3>2, <3>3
  <2> QED
    BY <1>6, <2>7, <2>8, <2>9 DEF ChunksAccounted
<1>13. \A j \in 1..n : chunks'[tree'[j]].pentry = tree'[j]
                       /\ chunks'[tree'[j]].size = chunks'[tree'[j]].length
  <2>1. SUFFICES ASSUME NEW j \in 1..n
                 PROVE  chunks'[tree'[j]].pentry = tree'[j]
                        /\ chunks'[tree'[j]].size = chunks'[tree'[j]].length
    OBVIOUS
  <2>2. CASE j = i
    <3>1. chunks'[to].pentry = to /\ chunks'[to].size = chunks'[to].length
      BY <1>4 DEF Chunk
    <3> QED
      BY <1>6, <2>2, <3>1
  <2>3. CASE j # i
    <3>1. chunks[tree[j]].pentry = tree[j] /\ chunks[tree[j]].size = chunks[tree[j]].length
      BY <1>1, <1>2 DEF IInv, HeadersTrue
    <3>2. chunks'[tree[j]] = chunks[tree[j]]
      BY <1>4, <1>8, <2>3
    <3> QED
      BY <1>6, <2>3, <3>1, <3>2
  <2> QED
    BY <2>2, <2>3
<1>14. HeadersTrue'
  BY <1>6, <1>13 DEF HeadersTrue
<1>15. SizeHeld'
  <2>1. ASSUME NEW b \in Dropped(address)
        PROVE  /\ b.address \in DOMAIN chunks'
               /\ Header + b.size < SizeWord => chunks'[b.address].length >= Header + b.size
    <3>1. b \in held /\ b.address # address
      BY <2>1, DroppedHeld
    <3>2. /\ b.address \in DOMAIN chunks
          /\ Header + b.size < SizeWord => chunks[b.address].length >= Header + b.size
      BY <1>1, <3>1 DEF IInv, SizeHeld
    <3> QED
      BY <1>4, <3>1, <3>2
  <2>2. Header + size < SizeWord => chunks'[to].length >= Header + size
    <3>1. Header + size < SizeWord => Total(size) = Header + size
      BY TotalType
    <3>2. Header + size \in Int
      BY TotalType DEF Header
    <3> QED
      BY <1>4, <3>1, <3>2 DEF Chunk
  <2> QED
    BY <1>3, <1>4, <2>1, <2>2 DEF SizeHeld
<1>16. HeldInTree'
  <2>1. ASSUME NEW b \in Dropped(address) PROVE \E j \in 1..n : tree'[j] = b.address
    <3>1. b \in held /\ b.address # address
      BY <2>1, DroppedHeld
    <3>2. PICK j \in 1..n : tree[j] = b.address
      BY <1>1, <1>2, <3>1 DEF IInv, HeldInTree
    <3>3. tree'[j] = b.address
      BY <1>1, <1>6, <3>1, <3>2
    <3> QED
      BY <3>3
  <2> QED
    BY <1>3, <1>6, <2>1 DEF HeldInTree
<1>17. InOrder'
  <2>1. KeysOf(tree, chunks) = tree
    BY <1>1, AddressesComparable
  <2>2. disordered' = (disordered \/ ~ Tree!Sorted([KeysOf(tree, chunks) EXCEPT ![i] = to]))
    BY DEF Realloc
  <2>3. PICK t : t = [tree EXCEPT ![i] = to]
    OBVIOUS
  <2>4. ~ disordered' => Tree!Sorted(t)
    BY <2>1, <2>2, <2>3
  <2>5. tree' = t
    BY <1>3, <2>3
  <2> QED
    BY <2>4, <2>5 DEF InOrder, Tree!Sorted
<1> QED
  BY <1>10, <1>11, <1>12, <1>14, <1>15, <1>16, <1>17 DEF IInv

LEMMA ReallocToNothingStep ==
  ASSUME IInv, NEW size, NEW address \in Slots, NEW i, ReallocToNothing(size, address, i)
  PROVE  IInv'
<1>1. DOMAIN chunks' = DOMAIN chunks \ {address} /\ \A a \in DOMAIN chunks' : chunks'[a] = chunks[a]
  BY WithoutChunk DEF ReallocToNothing
<1>2. /\ pc' = "corrupted" /\ ret' = "none"
      /\ UNCHANGED <<tree, held, leaked, disordered>>
  BY DEF ReallocToNothing, Stops
<1>3. TypeOK'
  BY <1>1, <1>2 DEF IInv, TypeOK, Ends, Results
<1>4. (Len(tree) <= MaxBlocks)'
  BY <1>2 DEF IInv
<1> QED
  BY <1>2, <1>3, <1>4, Ending DEF Ends

-----------------------------------------------------------------------------
(* free.                                                                   *)

LEMMA FreeStep ==
  ASSUME IInv, NEW address \in Slots, NEW i \in DOMAIN tree, Free(address, i)
  PROVE  IInv'
<1>1. pc = "run" /\ tree[i] = address /\ address \in DOMAIN chunks
  BY FoundHere DEF Free
<1>2. PICK n \in Nat : n = Len(tree) /\ DOMAIN tree = 1..n
  BY TreeType DEF IInv
<1>3. /\ tree' = RemoveAt(tree, i) /\ i \in 1..n /\ n >= 1
      /\ held' = Dropped(address) /\ UNCHANGED disordered
  BY <1>2 DEF Free, Removed
<1>4. tree \in Seq(Slots)
  BY TreeType DEF IInv
<1>5. /\ tree' \in Seq(Slots) /\ Len(tree') = n - 1 /\ DOMAIN tree' = 1..n-1
      /\ \A j \in 1..n-1 : tree'[j] = IF j < i THEN tree[j] ELSE tree[j + 1]
  <2>1. PICK t : t = RemoveAt(tree, i)
    OBVIOUS
  <2>2. i \in 1..Len(tree)
    BY <1>2, <1>3
  <2>3. /\ t \in Seq(Slots) /\ Len(t) = Len(tree) - 1
        /\ \A j \in 1..Len(tree)-1 : t[j] = IF j < i THEN tree[j] ELSE tree[j + 1]
    BY <1>4, <2>1, <2>2, TakenOut
  <2>4. /\ t \in Seq(Slots) /\ Len(t) = n - 1
        /\ \A j \in 1..n-1 : t[j] = IF j < i THEN tree[j] ELSE tree[j + 1]
    BY <1>2, <2>3
  <2>5. DOMAIN t = 1..n-1
    BY <2>4
  <2>6. tree' = t
    BY <1>3, <2>1
  <2> QED
    BY <2>4, <2>5, <2>6
<1>6. held' \subseteq held /\ \A b \in held' : b.address # address
  BY <1>3, DroppedHeld
<1>7. (Len(tree) <= MaxBlocks)'
  <2>1. n <= MaxBlocks /\ MaxBlocks \in Nat
    BY <1>2, BlocksAssumption DEF IInv
  <2>2. n - 1 <= MaxBlocks
    BY <2>1
  <2> QED
    BY <1>5, <2>2
<1>8. /\ tree' \in Seq(Slots) /\ held' \subseteq [address : Slots, size : Sizes]
      /\ disordered' \in BOOLEAN
  BY <1>3, <1>5, <1>6 DEF IInv, TypeOK
<1>9. ASSUME NEW a, chunks' = Without(chunks, a)
      PROVE  /\ DOMAIN chunks' = DOMAIN chunks \ {a}
             /\ \A x \in DOMAIN chunks' : chunks'[x] = chunks[x]
  BY <1>9, WithoutChunk
<1>10. ASSUME NEW a, chunks' = Without(chunks, a) \/ chunks' = chunks,
              ret' \in Results, pc' \in {"run"} \cup Ends, leaked' \subseteq Slots
       PROVE  TypeOK'
  <2>1. DOMAIN chunks' \subseteq DOMAIN chunks /\ \A x \in DOMAIN chunks' : chunks'[x] = chunks[x]
    BY <1>9, <1>10
  <2> QED
    BY <1>8, <1>10, <2>1 DEF IInv, TypeOK
<1>11. CASE Stops("corrupted") /\ chunks' = Without(chunks, tree[i + 1]) /\ UNCHANGED leaked
  <2>1. pc' \in Ends /\ pc' # "aborted" /\ ret' \in Results /\ leaked' \subseteq Slots
    BY <1>11 DEF Stops, Ends, Results, IInv, TypeOK
  <2>2. TypeOK'
    BY <1>10, <1>11, <2>1
  <2> QED
    BY <1>7, <2>1, <2>2, Ending
<1>12. CASE Stops("crashed") /\ UNCHANGED <<chunks, leaked>>
  <2>1. pc' \in Ends /\ pc' # "aborted" /\ ret' \in Results /\ leaked' \subseteq Slots
    BY <1>12 DEF Stops, Ends, Results, IInv, TypeOK
  <2>2. TypeOK'
    BY <1>10, <1>12, <2>1
  <2> QED
    BY <1>7, <2>1, <2>2, Ending
<1>13. CASE /\ ret' = "ok" /\ UNCHANGED pc
            /\ \/ chunks' = Without(chunks, address) /\ UNCHANGED leaked
               \/ leaked' = leaked \cup {address} /\ UNCHANGED chunks
  <2>1. TypeOK'
    <3>1. ret' \in Results /\ pc' \in {"run"} \cup Ends /\ leaked' \subseteq Slots
      BY <1>13 DEF IInv, TypeOK, Results
    <3> QED
      BY <1>10, <1>13, <3>1
  <2>2. /\ DOMAIN chunks = leaked \cup { tree[j] : j \in 1..n }
        /\ \A j, k \in 1..n : j # k => tree[j] # tree[k]
        /\ \A j \in 1..n : tree[j] \notin leaked
    BY <1>1, <1>2 DEF IInv, ChunksAccounted
  <2>3. /\ \A x \in DOMAIN chunks' : chunks'[x] = chunks[x]
        /\ \A x \in DOMAIN chunks : x # address => x \in DOMAIN chunks'
        /\ DOMAIN chunks' \subseteq DOMAIN chunks
    BY <1>9, <1>13
  <2>4. \A j \in 1..n : j # i => tree[j] # address /\ tree[j] \in DOMAIN chunks'
    <3>1. ASSUME NEW j \in 1..n, j # i PROVE tree[j] # address /\ tree[j] \in DOMAIN chunks
      BY <1>1, <1>3, <2>2, <3>1
    <3> QED
      BY <2>3, <3>1
  <2>5. \A j \in 1..n-1 : \E k \in 1..n : k # i /\ tree'[j] = tree[k]
                                          /\ k = IF j < i THEN j ELSE j + 1
    <3>1. SUFFICES ASSUME NEW j \in 1..n-1
                   PROVE  \E k \in 1..n : k # i /\ tree'[j] = tree[k]
                                          /\ k = IF j < i THEN j ELSE j + 1
      OBVIOUS
    <3>2. CASE j < i
      <4>1. j \in 1..n /\ j # i /\ tree'[j] = tree[j]
        BY <1>5, <3>2
      <4> QED
        BY <3>2, <4>1
    <3>3. CASE ~ (j < i)
      <4>1. j + 1 \in 1..n /\ j + 1 # i /\ tree'[j] = tree[j + 1]
        BY <1>3, <1>5, <3>3
      <4> QED
        BY <3>3, <4>1
    <3> QED
      BY <3>2, <3>3
  <2>6. \A k \in 1..n : k # i => \E j \in 1..n-1 : tree'[j] = tree[k]
    <3>1. SUFFICES ASSUME NEW k \in 1..n, k # i PROVE \E j \in 1..n-1 : tree'[j] = tree[k]
      OBVIOUS
    <3>2. CASE k < i
      <4>1. k \in 1..n-1 /\ tree'[k] = tree[k]
        BY <1>3, <1>5, <3>2
      <4> QED
        BY <4>1
    <3>3. CASE k > i
      <4>1. k - 1 \in 1..n-1 /\ ~ (k - 1 < i) /\ (k - 1) + 1 = k
        BY <1>3, <3>3
      <4>2. tree'[k - 1] = tree[k]
        BY <1>5, <4>1
      <4> QED
        BY <4>1, <4>2
    <3> QED
      BY <1>3, <3>1, <3>2, <3>3
  <2>7. ChunksAccounted'
    <3>1. PICK all : all = { tree'[j] : j \in 1..n-1 }
      OBVIOUS
    <3>2. \A a : a \in all <=> \E k \in 1..n : k # i /\ a = tree[k]
      BY <2>5, <2>6, <3>1
    <3>3. PICK d : d = DOMAIN chunks
      OBVIOUS
    <3>4. d = leaked \cup all \cup {address} /\ address \notin leaked /\ address \notin all
      <4>1. \A a : a \in d <=> a \in leaked \/ \E k \in 1..n : a = tree[k]
        BY <2>2, <3>3
      <4>2. \A a : (\E k \in 1..n : a = tree[k]) <=> a = address \/ a \in all
        BY <1>1, <1>3, <3>2
      <4>3. d = leaked \cup all \cup {address}
        BY <4>1, <4>2
      <4>4. address \notin leaked
        BY <1>1, <1>3, <2>2
      <4>5. address \notin all
        BY <2>4, <3>2
      <4> QED
        BY <4>3, <4>4, <4>5
    <3>5. DOMAIN chunks' = leaked' \cup all
      <4>1. CASE chunks' = Without(chunks, address) /\ UNCHANGED leaked
        <5>1. DOMAIN chunks' = d \ {address}
          BY <1>9, <3>3, <4>1
        <5>2. d \ {address} = leaked \cup all
          BY <3>4
        <5> QED
          BY <4>1, <5>1, <5>2
      <4>2. CASE leaked' = leaked \cup {address} /\ UNCHANGED chunks
        <5>1. DOMAIN chunks' = d
          BY <3>3, <4>2
        <5>2. d = (leaked \cup {address}) \cup all
          BY <3>4
        <5> QED
          BY <4>2, <5>1, <5>2
      <4> QED
        BY <1>13, <4>1, <4>2
    <3>6. \A j, k \in 1..n-1 : j # k => tree'[j] # tree'[k]
      <4>1. SUFFICES ASSUME NEW j \in 1..n-1, NEW k \in 1..n-1, j # k PROVE tree'[j] # tree'[k]
        OBVIOUS
      <4>2. PICK x \in 1..n : x # i /\ tree'[j] = tree[x] /\ x = IF j < i THEN j ELSE j + 1
        BY <2>5
      <4>3. PICK y \in 1..n : y # i /\ tree'[k] = tree[y] /\ y = IF k < i THEN k ELSE k + 1
        BY <2>5
      <4>4. x # y
        BY <1>3, <4>1, <4>2, <4>3
      <4> QED
        BY <2>2, <4>2, <4>3, <4>4
    <3>7. \A j \in 1..n-1 : tree'[j] \notin leaked'
      <4>1. \A a \in all : a \notin leaked /\ a # address
        BY <2>2, <2>4, <3>2
      <4>2. \A j \in 1..n-1 : tree'[j] \in all
        BY <3>1
      <4> QED
        BY <1>13, <4>1, <4>2
    <3> QED
      BY <1>5, <3>1, <3>5, <3>6, <3>7 DEF ChunksAccounted
  <2>8. HeadersTrue'
    <3>1. ASSUME NEW j \in 1..n-1
          PROVE  chunks'[tree'[j]].pentry = tree'[j]
                 /\ chunks'[tree'[j]].size = chunks'[tree'[j]].length
      <4>1. PICK k \in 1..n : k # i /\ tree'[j] = tree[k]
        BY <2>5
      <4>2. chunks[tree[k]].pentry = tree[k] /\ chunks[tree[k]].size = chunks[tree[k]].length
        BY <1>1, <1>2 DEF IInv, HeadersTrue
      <4>3. chunks'[tree[k]] = chunks[tree[k]]
        BY <2>3, <2>4, <4>1
      <4> QED
        BY <4>1, <4>2, <4>3
    <3> QED
      BY <1>5, <3>1 DEF HeadersTrue
  <2>9. SizeHeld'
    <3>1. ASSUME NEW b \in held'
          PROVE  /\ b.address \in DOMAIN chunks'
                 /\ Header + b.size < SizeWord => chunks'[b.address].length >= Header + b.size
      <4>1. b \in held /\ b.address # address
        BY <1>6
      <4>2. /\ b.address \in DOMAIN chunks
            /\ Header + b.size < SizeWord => chunks[b.address].length >= Header + b.size
        BY <1>1, <4>1 DEF IInv, SizeHeld
      <4> QED
        BY <2>3, <4>1, <4>2
    <3> QED
      BY <3>1 DEF SizeHeld
  <2>10. HeldInTree'
    <3>1. ASSUME NEW b \in held' PROVE \E j \in 1..n-1 : tree'[j] = b.address
      <4>1. b \in held /\ b.address # address
        BY <1>6
      <4>2. PICK k \in 1..n : tree[k] = b.address
        BY <1>1, <1>2, <4>1 DEF IInv, HeldInTree
      <4>3. k # i
        BY <1>1, <4>1, <4>2
      <4> QED
        BY <2>6, <4>2, <4>3
    <3> QED
      BY <1>5, <3>1 DEF HeldInTree
  <2>11. InOrder'
    <3>1. ASSUME ~ disordered PROVE Tree!Sorted(RemoveAt(tree, i))
      <4>1. Tree!Sorted(tree) /\ i \in 1..Len(tree)
        BY <1>1, <1>2, <1>3, <3>1 DEF IInv, InOrder
      <4> QED
        BY <1>4, <4>1, SortedWithout
    <3>2. PICK t : t = RemoveAt(tree, i) /\ t = tree'
      BY <1>3
    <3>3. ~ disordered' => Tree!Sorted(t)
      BY <1>3, <3>1, <3>2
    <3> QED
      BY <3>2, <3>3 DEF InOrder, Tree!Sorted
  <2> QED
    BY <1>7, <2>1, <2>7, <2>8, <2>9, <2>10, <2>11 DEF IInv
<1> QED
  BY <1>11, <1>12, <1>13 DEF Free

-----------------------------------------------------------------------------
(* The theorems.                                                           *)

LEMMA NextIInv == IInv /\ [Next]_vars => IInv'
<1> SUFFICES ASSUME IInv, [Next]_vars PROVE IInv'
  OBVIOUS
<1>1. CASE UNCHANGED vars
  <2>1. /\ ret' \in Results /\ held' \subseteq held
        /\ UNCHANGED <<chunks, tree, pc, leaked, disordered>>
    BY <1>1 DEF vars, IInv, TypeOK
  <2> QED
    BY <2>1, QuietStep
<1>2. CASE MallocFails
  BY <1>2, FailingSteps
<1>3. CASE StrdupFails
  BY <1>3, StrdupStep
<1>4. ASSUME NEW address \in Slots, NEW size \in Sizes, Malloc(size, address) PROVE IInv'
  BY <1>4, MallocStep
<1>5. ASSUME NEW address \in Slots, ReallocNotFound(address) \/ FreeNotFound(address) PROVE IInv'
  BY <1>5, FailingSteps
<1>6. ASSUME NEW address \in Slots, WrongNode(address) PROVE IInv'
  BY <1>6, WrongNodeStep
<1>7. ASSUME NEW address \in Slots, NEW i \in DOMAIN tree, Free(address, i) PROVE IInv'
  BY <1>7, FreeStep
<1>8. ASSUME NEW address \in Slots, NEW i \in DOMAIN tree, NEW size \in Sizes,
             ReallocRefused(size, address, i) \/ ReallocToNothing(size, address, i)
      PROVE  IInv'
  BY <1>8, RefusedStep, ReallocToNothingStep
<1>9. ASSUME NEW address \in Slots, NEW i \in DOMAIN tree, NEW size \in Sizes, NEW to \in Slots,
             Realloc(size, address, i, to)
      PROVE  IInv'
  BY <1>9, ReallocStep
<1> QED
  BY <1>1, <1>2, <1>3, <1>4, <1>5, <1>6, <1>7, <1>8, <1>9 DEF Next

(* The inductive invariant holds of the heap.                              *)
THEOREM Invariant == Spec => []IInv
  BY InitIInv, NextIInv, PTL DEF Spec

(* Every call leaves the heap in a state of the declared types.            *)
THEOREM TypeCorrect == Spec => []TypeOK
<1>1. IInv => TypeOK
  BY DEF IInv
<1> QED
  BY <1>1, Invariant, PTL

(* No call loses a chunk but the free that reads null from a freed node,   *)
(* and none leaves one in the tree that was given back, whatever the       *)
(* comparison made of the tree.                                            *)
THEOREM ChunksAreAccounted == Spec => []ChunksAccounted
<1>1. IInv => ChunksAccounted
  BY DEF IInv
<1> QED
  BY <1>1, Invariant, PTL

(* The header of every chunk in the tree gives its address and length.     *)
THEOREM HeadersAreTrue == Spec => []HeadersTrue
<1>1. IInv => HeadersTrue
  BY DEF IInv
<1> QED
  BY <1>1, Invariant, PTL

(* Every block the program has is in memory, for the size it asked for.    *)
THEOREM SizesAreHeld == Spec => []SizeHeld
<1>1. IInv => SizeHeld
  BY DEF IInv
<1> QED
  BY <1>1, Invariant, PTL

(* As long as the comparison was an order of the chunks it met, no call    *)
(* says a block of the program is none, or takes another for it.           *)
THEOREM BlocksAreFound == Spec => []BlocksFindable
<1>1. IInv => BlocksFindable
  <2> SUFFICES ASSUME IInv, pc = "run", ~ disordered, NEW b \in held,
                      NEW place \in Places(b.address)
               PROVE  place.found /\ tree[place.at] = b.address
    BY DEF BlocksFindable
  <2>1. PICK i \in DOMAIN tree : tree[i] = b.address
    BY DEF IInv, HeldInTree
  <2>2. b.address \in Slots /\ i \in 1..Len(tree)
    BY TreeType DEF IInv, TypeOK
  <2>3. PICK key \in Slots : key = b.address /\ key = tree[i]
    BY <2>1, <2>2
  <2>4. Places(key) = Tree!Places(tree, key) /\ Comparable(tree, key)
    BY AddressesComparable
  <2>5. Agrees(tree, key) /\ Cmp(key, tree[i]) = 0
    BY <2>1, <2>3, SortedAgrees
  <2>6. place \in Tree!Places(tree, key)
    BY <2>3, <2>4
  <2>7. \A j \in 1..Len(tree) : Cmp(key, tree[j]) = 0 => place.found = TRUE /\ place.at = j
    BY <2>4, <2>5, <2>6, SearchFinds
  <2> QED
    BY <2>1, <2>2, <2>3, <2>5, <2>7
<1> QED
  BY <1>1, Invariant, PTL

-----------------------------------------------------------------------------
(* The blocks of the program, and what they are to MemSpec.                *)
blocks == { Promised(b) : b \in held }

LEMMA OthersPromised ==
  ASSUME NEW address
  PROVE  Memory!Others(address) = { Promised(b) : b \in { c \in held : c.address # address } }
<1>1. \A b \in held : Promised(b).address = b.address
  BY DEF Promised
<1> QED
  BY <1>1 DEF Memory!Others

LEMMA BlockGiven ==
  ASSUME NEW new, held' = held \cup {new}, Memory!Apart(Promised(new), blocks)
  PROVE  Memory!Next
<1>1. blocks' = blocks \cup {Promised(new)}
  BY DEF blocks, Promised
<1>2. Memory!Allocate(Promised(new)) /\ Promised(new) \in blocks'
  BY <1>1 DEF Memory!Allocate, blocks
<1> QED
  BY <1>2 DEF Memory!Next, blocks

(* A block in place of that at an address, which the program may not have. *)
LEMMA BlockReplaced ==
  ASSUME NEW address, NEW new,
         held' = { c \in held : c.address # address } \cup {new},
         Memory!Apart(Promised(new), { Promised(b) : b \in { c \in held : c.address # address } })
  PROVE  Memory!Next
<1>1. blocks' = Memory!Others(address) \cup {Promised(new)}
  BY OthersPromised DEF blocks, Promised
<1>2. CASE \E b \in held : b.address = address
  <2>1. PICK old \in blocks : old.address = address
    <3>1. PICK b \in held : b.address = address
      BY <1>2
    <3>2. Promised(b) \in blocks /\ Promised(b).address = address
      BY <3>1 DEF blocks, Promised
    <3> QED
      BY <3>2
  <2>2. Memory!Resize(old.address, Promised(new)) /\ Promised(new) \in blocks'
    BY <1>1, <2>1, OthersPromised DEF Memory!Resize, blocks
  <2> QED
    BY <2>2 DEF Memory!Next, blocks
<1>3. CASE \A b \in held : b.address # address
  <2>1. { c \in held : c.address # address } = held
    BY <1>3
  <2> QED
    BY <2>1, BlockGiven DEF blocks
<1> QED
  BY <1>2, <1>3

LEMMA BlockTaken ==
  ASSUME NEW address, held' = { c \in held : c.address # address }
  PROVE  Memory!Next \/ UNCHANGED blocks
<1>1. blocks' = Memory!Others(address)
  BY OthersPromised DEF blocks, Promised
<1>2. CASE \E b \in held : b.address = address
  <2>1. PICK old \in blocks : old.address = address
    <3>1. PICK b \in held : b.address = address
      BY <1>2
    <3>2. Promised(b) \in blocks /\ Promised(b).address = address
      BY <3>1 DEF blocks, Promised
    <3> QED
      BY <3>2
  <2>2. Memory!Free(old.address)
    BY <1>1, <2>1 DEF Memory!Free, blocks
  <2> QED
    BY <2>2 DEF Memory!Next, blocks
<1>3. CASE \A b \in held : b.address # address
  <2>1. held' = held
    BY <1>3
  <2> QED
    BY <2>1 DEF blocks, Promised
<1> QED
  BY <1>2, <1>3

(* What is promised of a block is within its chunk, if the chunk is as     *)
(* long as the C library was asked for.                                    *)
LEMMA PromisedUnits ==
  ASSUME NEW b \in [address : Slots, size : Sizes], NEW length \in Nat,
         Header + b.size < SizeWord => length >= Header + b.size
  PROVE  Promised(b).units \subseteq Units(b.address, length)
<1>1. PICK address \in Int, size \in Nat : address = b.address /\ size = b.size
  <2>1. Slots \subseteq Int /\ Sizes \subseteq Nat
    BY SlotsAssumption, SizesAssumption DEF Slots
  <2> QED
    BY <2>1
<1>2. ASSUME length >= Header + size
      PROVE  Units(address, Header + size) \subseteq Units(address, length)
  BY <1>1, <1>2 DEF Units, Header
<1> QED
  BY <1>1, <1>2 DEF Promised

LEMMA HeldInUse ==
  ASSUME IInv, pc = "run", NEW b \in held
  PROVE  b.address \in DOMAIN chunks /\ Promised(b).units \subseteq Units(b.address, chunks[b.address].length)
<1>1. b \in [address : Slots, size : Sizes] /\ b.address \in DOMAIN chunks
  BY DEF IInv, TypeOK, SizeHeld
<1>2. chunks[b.address].length \in Nat
  BY <1>1, ChunksType DEF IInv, ChunkRecords
<1>3. Header + b.size < SizeWord => chunks[b.address].length >= Header + b.size
  BY DEF IInv, SizeHeld
<1> QED
  BY <1>1, <1>2, <1>3, PromisedUnits

(* A block in a new chunk is apart from the blocks in other chunks.        *)
LEMMA NewApart ==
  ASSUME IInv, pc = "run", NEW size \in Sizes, NEW to \in Slots, NEW others \in SUBSET held,
         NEW given, DOMAIN given \subseteq DOMAIN chunks, \A a \in DOMAIN given : given[a] = chunks[a],
         \A b \in others : b.address \in DOMAIN given, Fits(to, Total(size), given)
  PROVE  Memory!Apart(Promised([address |-> to, size |-> size]), { Promised(b) : b \in others })
<1> DEFINE new == [address |-> to, size |-> size]
<1>1. Total(size) \in 0..SizeWord-1 /\ (Header + size < SizeWord => Total(size) = Header + size)
  BY TotalType
<1>2. Promised(new).units \subseteq Units(to, Total(size))
  <2>1. new \in [address : Slots, size : Sizes] /\ new.address = to /\ new.size = size
    OBVIOUS
  <2>2. Total(size) \in Nat /\ (Header + size < SizeWord => Total(size) >= Header + size)
    BY <1>1, SlotsAssumption
  <2> QED
    BY <2>1, <2>2, PromisedUnits
<1>3. to \notin DOMAIN given
  <2>1. DOMAIN given \subseteq Slots /\ \A a \in DOMAIN given : given[a] \in ChunkRecords
    BY ChunksType DEF IInv
  <2> QED
    BY <1>1, <2>1, FitsNew
<1>4. ASSUME NEW b \in others
      PROVE  /\ Promised(b).address # Promised(new).address
             /\ Promised(b).units \cap Promised(new).units = {}
  <2>1. b.address \in DOMAIN given /\ Promised(b).units \subseteq Units(b.address, given[b.address].length)
    BY HeldInUse
  <2>2. Promised(b).units \subseteq InUse(given)
    BY <2>1 DEF InUse
  <2>3. Units(to, Total(size)) \cap InUse(given) = {}
    BY DEF Fits
  <2>4. Promised(b).address = b.address /\ Promised(new).address = to
    BY DEF Promised
  <2> QED
    BY <1>2, <1>3, <2>1, <2>2, <2>3, <2>4
<1> QED
  BY <1>4 DEF Memory!Apart

LEMMA MallocPromised ==
  ASSUME IInv, NEW size \in Sizes, NEW address \in Slots, Malloc(size, address)
  PROVE  Memory!Next \/ UNCHANGED blocks
<1> DEFINE new == [address |-> address, size |-> size]
<1>1. pc = "run" /\ Fits(address, Total(size), chunks)
  BY DEF Malloc
<1>2. held' = held \/ held' = held \cup {new}
  BY DEF Malloc
<1>3. \A b \in held : b.address \in DOMAIN chunks
  BY <1>1, HeldInUse
<1>4. Memory!Apart(Promised(new), blocks)
  BY <1>1, <1>3, NewApart DEF blocks
<1>5. CASE held' = held
  BY <1>5 DEF blocks, Promised
<1>6. CASE held' = held \cup {new}
  BY <1>4, <1>6, BlockGiven
<1> QED
  BY <1>2, <1>5, <1>6

LEMMA ReallocPromised ==
  ASSUME IInv, NEW size \in Sizes, NEW address \in Slots, NEW i \in DOMAIN tree, NEW to \in Slots,
         Realloc(size, address, i, to)
  PROVE  Memory!Next
<1> DEFINE new == [address |-> to, size |-> size]
           others == { c \in held : c.address # address }
           rest == Without(chunks, address)
<1>1. /\ pc = "run" /\ held' = others \cup {new}
      /\ Fits(to, Total(size), IF to = address THEN rest ELSE chunks)
  BY DEF Realloc, Finds, Dropped
<1>2. /\ DOMAIN rest = DOMAIN chunks \ {address}
      /\ \A a \in DOMAIN rest : rest[a] = chunks[a]
  BY WithoutChunk
<1>3. \A b \in others : b.address \in DOMAIN chunks /\ b.address # address
  BY <1>1, HeldInUse
<1> HIDE DEF rest
<1>4. Memory!Apart(Promised(new), { Promised(b) : b \in others })
  <2>1. CASE to = address
    BY <1>1, <1>2, <1>3, <2>1, NewApart
  <2>2. CASE to # address
    BY <1>1, <1>3, <2>2, NewApart
  <2> QED
    BY <2>1, <2>2
<1> QED
  BY <1>1, <1>4, BlockReplaced

(* The heap gives a program blocks as MemSpec promises them, whatever the  *)
(* comparison makes of the tree.                                           *)
THEOREM HeapImplementsMemSpec == Spec => ImplementsMemSpec
<1>1. Init => Memory!Init
  BY DEF Init, Memory!Init
<1>2. IInv /\ [Next]_vars => [Memory!Next]_blocks
  <2> SUFFICES ASSUME IInv, [Next]_vars PROVE Memory!Next \/ UNCHANGED blocks
    OBVIOUS
  <2>1. CASE UNCHANGED held
    BY <2>1 DEF blocks, Promised
  <2>2. ASSUME NEW size \in Sizes, NEW address \in Slots, Malloc(size, address)
        PROVE  Memory!Next \/ UNCHANGED blocks
    BY <2>2, MallocPromised
  <2>3. ASSUME NEW size \in Sizes, NEW address \in Slots, NEW i \in DOMAIN tree, NEW to \in Slots,
               Realloc(size, address, i, to)
        PROVE  Memory!Next \/ UNCHANGED blocks
    BY <2>3, ReallocPromised
  <2>4. ASSUME NEW address \in Slots,
               FreeNotFound(address) \/ \E i \in DOMAIN tree : Free(address, i)
        PROVE  Memory!Next \/ UNCHANGED blocks
    <3>1. held' = { c \in held : c.address # address }
      BY <2>4 DEF FreeNotFound, Free, Dropped
    <3> QED
      BY <3>1, BlockTaken
  <2>5. UNCHANGED vars => UNCHANGED held
    BY DEF vars
  <2>6. MallocFails \/ StrdupFails => UNCHANGED held
    BY DEF MallocFails, StrdupFails
  <2>7. ASSUME NEW address \in Slots, ReallocNotFound(address) \/ WrongNode(address)
        PROVE  UNCHANGED held
    BY <2>7 DEF ReallocNotFound, WrongNode
  <2>8. ASSUME NEW address \in Slots, NEW i \in DOMAIN tree, NEW size \in Sizes,
               ReallocRefused(size, address, i) \/ ReallocToNothing(size, address, i)
        PROVE  UNCHANGED held
    BY <2>8 DEF ReallocRefused, ReallocToNothing
  <2> QED
    BY <2>1, <2>2, <2>3, <2>4, <2>5, <2>6, <2>7, <2>8 DEF Next
<1> QED
  BY <1>1, <1>2, Invariant, PTL DEF Spec, ImplementsMemSpec, Memory!Spec, blocks

=============================================================================
