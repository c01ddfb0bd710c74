---------------------------- MODULE DosMemProofs ----------------------------
(***************************************************************************)
(* Proofs about the memory arena (DosMem), for every address space, page   *)
(* size, width of a size_t and of an int, and all sizes asked for.         *)
(***************************************************************************)
EXTENDS DosMem, TLAPS

(* The pages of the records, and those lost, are mapped however the        *)
(* program ended, no page twice; until an assertion fails no other is.     *)
AllMapped ==
  /\ lost \subseteq mapped
  /\ \A i \in DOMAIN tree : BlockPages(tree[i]) \subseteq mapped
NoOtherMapped ==
  pc # "aborted" =>
    \A x \in mapped : x \in lost \/ \E i \in DOMAIN tree : x \in BlockPages(tree[i])
Disjoint ==
  \A i \in DOMAIN tree :
    /\ BlockPages(tree[i]) \cap lost = {}
    /\ \A j \in DOMAIN tree : i # j => BlockPages(tree[i]) \cap BlockPages(tree[j]) = {}

(* Every block the program has is that of a record, with the length that   *)
(* its size came to.                                                       *)
Recorded ==
  \A b \in held : \E i \in DOMAIN tree :
    tree[i].address = b.address /\ tree[i].length = Length(b.size)

(* As long as no address was too far from a block, the tree is in order of *)
(* addresses, no two of them too far from each other, and no assertion on  *)
(* a node found has failed.                                                *)
InOrder ==
  ~ far => /\ pc # "aborted"
           /\ \A i, j \in DOMAIN tree :
                i < j => /\ tree[i].address < tree[j].address
                         /\ tree[j].address - tree[i].address < Half

IInv ==
  /\ TypeOK /\ Len(tree) <= MaxBlocks
  /\ AllMapped /\ NoOtherMapped /\ Disjoint /\ Recorded /\ InOrder

-----------------------------------------------------------------------------
(* Where a search of a tree may end (SearchTree).                          *)
Comparable(keys, key) ==
  /\ Len(keys) \in Nat
  /\ \A i \in 1..Len(keys) : Cmp(key, keys[i]) \in Int

(* The comparison with key agrees with the order of the keys.              *)
Agrees(keys, key) ==
  \A i, j \in 1..Len(keys) : i < j /\ Cmp(key, keys[i]) <= 0 => Cmp(key, keys[j]) < 0

(* A search ends at a node that compares equal, or between two nodes.      *)
LEMMA SearchEnds ==
  ASSUME NEW keys, NEW key, Comparable(keys, key), NEW place \in Tree!Places(keys, key)
  PROVE  \/ /\ place.found = TRUE /\ place.at \in 1..Len(keys)
            /\ Cmp(key, keys[place.at]) = 0
         \/ place.found = FALSE /\ place.at \in 1..Len(keys)+1
<1>1. /\ place.found \in BOOLEAN /\ place.at \in 1..Len(keys)+1
      /\ Tree!Ends(keys, key, place)
  BY DEF Tree!Places
<1> QED
  BY <1>1 DEF Tree!Ends, Comparable

(* If the comparison agrees with the order of the keys, a key not found is *)
(* greater than all before the place it belongs at, and less than all from *)
(* there on.                                                               *)
LEMMA SearchSeparates ==
  ASSUME NEW keys, NEW key, Comparable(keys, key), Agrees(keys, key),
         NEW place \in Tree!Places(keys, key), ~ place.found
  PROVE  \A j \in 1..Len(keys) : /\ j < place.at => Cmp(key, keys[j]) > 0
                                 /\ j >= place.at => Cmp(key, keys[j]) < 0
<1>1. PICK n \in Nat : n = Len(keys)
  BY DEF Comparable
<1>2. PICK at \in 1..n+1 : at = place.at
  BY <1>1 DEF Tree!Places
<1>3. (at > 1 => Cmp(key, keys[at - 1]) > 0) /\ (at <= n => Cmp(key, keys[at]) < 0)
  BY <1>1, <1>2 DEF Tree!Places, Tree!Ends
<1>4. \A j \in 1..n : Cmp(key, keys[j]) \in Int
  BY <1>1 DEF Comparable
<1>5. \A i, j \in 1..n : i < j /\ Cmp(key, keys[i]) <= 0 => Cmp(key, keys[j]) < 0
  BY <1>1 DEF Agrees
<1>6. ASSUME NEW j \in 1..n, j < at PROVE Cmp(key, keys[j]) > 0
  <2>1. at - 1 \in 1..n /\ at > 1 /\ (j = at - 1 \/ j < at - 1)
    BY <1>6
  <2> QED
    BY <1>3, <1>4, <1>5, <2>1
<1>7. ASSUME NEW j \in 1..n, j >= at PROVE Cmp(key, keys[j]) < 0
  <2>1. at \in 1..n /\ (j = at \/ at < j)
    BY <1>7
  <2> QED
    BY <1>3, <1>4, <1>5, <2>1
<1> QED
  BY <1>1, <1>2, <1>6, <1>7

(* Then a key that compares equal to a node is found there by every search *)
(* for it, whatever the shape of the tree.                                 *)
LEMMA SearchFinds ==
  ASSUME NEW keys, NEW key, Comparable(keys, key), Agrees(keys, key),
         NEW place \in Tree!Places(keys, key)
  PROVE  \A i \in 1..Len(keys) : Cmp(key, keys[i]) = 0 => place.found = TRUE /\ place.at = i
<1> SUFFICES ASSUME NEW i \in 1..Len(keys), Cmp(key, keys[i]) = 0
             PROVE  place.found = TRUE /\ place.at = i
  OBVIOUS
<1>1. Len(keys) \in Nat
  BY DEF Comparable
<1>2. ASSUME ~ place.found PROVE FALSE
  <2>1. place.at \in 1..Len(keys)+1
    BY <1>2, SearchEnds
  <2>2. Cmp(key, keys[i]) > 0 \/ Cmp(key, keys[i]) < 0
    BY <1>1, <1>2, <2>1, SearchSeparates
  <2> QED
    BY <2>2
<1>3. CASE place.found = TRUE /\ place.at \in 1..Len(keys) /\ Cmp(key, keys[place.at]) = 0
  BY <1>1, <1>3 DEF Agrees
<1> QED
  BY <1>2, <1>3, SearchEnds

-----------------------------------------------------------------------------
(* The sequence of the keys after tsearch and tdelete, item by item.       *)
HasInserted(t, s, at, e) ==
  /\ Len(t) = Len(s) + 1
  /\ \A i \in 1..Len(s)+1 : t[i] = IF i < at THEN s[i] ELSE IF i = at THEN e ELSE s[i - 1]
HasRemoved(t, s, at) ==
  /\ Len(t) = Len(s) - 1
  /\ \A i \in 1..Len(s)-1 : t[i] = IF i < at THEN s[i] ELSE s[i + 1]

LEMMA Insertion ==
  ASSUME NEW S, NEW s \in Seq(S), NEW e \in S, NEW at \in 1..Len(s)+1
  PROVE  InsertAt(s, at, e) \in Seq(S) /\ HasInserted(InsertAt(s, at, e), s, at, e)
<1> DEFINE before == SubSeq(s, 1, at - 1)
           after == SubSeq(s, at, Len(s))
           first == before \o <<e>>
<1>1. Len(s) \in Nat /\ at \in Nat /\ 1 <= at /\ at <= Len(s) + 1
  OBVIOUS
<1>2. /\ before \in Seq(S) /\ Len(before) = at - 1
      /\ \A i \in 1..at-1 : before[i] = s[i]
  OBVIOUS
<1>3. /\ after \in Seq(S) /\ Len(after) = Len(s) - at + 1
      /\ \A i \in 1..Len(s)-at+1 : after[i] = s[at + i - 1]
  OBVIOUS
<1> HIDE DEF before, after
<1>4. /\ first \in Seq(S) /\ Len(first) = at
      /\ \A i \in 1..at : first[i] = IF i < at THEN s[i] ELSE e
  BY <1>2
<1>5. InsertAt(s, at, e) = first \o after
  BY DEF InsertAt, before, after
<1> HIDE DEF first
<1>6. /\ first \o after \in Seq(S) /\ Len(first \o after) = Len(s) + 1
  BY <1>1, <1>3, <1>4
<1>7. ASSUME NEW i \in 1..Len(s)+1
      PROVE  (first \o after)[i] = IF i < at THEN s[i] ELSE IF i = at THEN e ELSE s[i - 1]
  <2>1. CASE i <= at
    BY <1>3, <1>4, <2>1
  <2>2. CASE i > at
    <3>1. (first \o after)[i] = after[i - at]
      BY <1>3, <1>4, <2>2, SMTT(30)
    <3>2. i - at \in 1..Len(s)-at+1 /\ at + (i - at) - 1 = i - 1
      BY <2>2
    <3> QED
      BY <1>3, <2>2, <3>1, <3>2
  <2>3. i <= at \/ i > at
    BY <1>1
  <2> QED
    BY <2>1, <2>2, <2>3
<1> QED
  BY <1>5, <1>6, <1>7 DEF HasInserted

LEMMA Removal ==
  ASSUME NEW S, NEW s \in Seq(S), NEW at \in 1..Len(s)
  PROVE  RemoveAt(s, at) \in Seq(S) /\ HasRemoved(RemoveAt(s, at), s, at)
<1> DEFINE before == SubSeq(s, 1, at - 1)
           after == SubSeq(s, at + 1, Len(s))
<1>1. Len(s) \in Nat /\ at \in Nat /\ 1 <= at /\ at <= Len(s)
  OBVIOUS
<1>2. /\ before \in Seq(S) /\ Len(before) = at - 1
      /\ \A i \in 1..at-1 : before[i] = s[i]
  OBVIOUS
<1>3. /\ after \in Seq(S) /\ Len(after) = Len(s) - at
      /\ \A i \in 1..Len(s)-at : after[i] = s[at + i]
  OBVIOUS
<1>4. RemoveAt(s, at) = before \o after
  BY DEF RemoveAt
<1> HIDE DEF before, after
<1>5. before \o after \in Seq(S) /\ Len(before \o after) = Len(s) - 1
  BY <1>2, <1>3
<1>6. ASSUME NEW i \in 1..Len(s)-1
      PROVE  (before \o after)[i] = IF i < at THEN s[i] ELSE s[i + 1]
  <2>1. CASE i < at
    BY <1>2, <1>3, <2>1
  <2>2. CASE i >= at
    <3>1. (before \o after)[i] = after[i - (at - 1)]
      BY <1>2, <1>3, <2>2
    <3>2. i - (at - 1) \in 1..Len(s)-at /\ at + (i - (at - 1)) = i + 1
      BY <2>2
    <3> QED
      BY <1>3, <2>2, <3>1, <3>2
  <2>3. i < at \/ i >= at
    BY <1>1
  <2> QED
    BY <2>1, <2>2, <2>3
<1> QED
  BY <1>4, <1>5, <1>6 DEF HasRemoved

-----------------------------------------------------------------------------
(* The difference of addresses, unless it is too far for an int.           *)
LEMMA CmpIsDifference ==
  ASSUME NEW a \in Int, NEW b \in Int
  PROVE  /\ Cmp(a, b) \in Int
         /\ a - b \in 1-Half..Half-1 => Cmp(a, b) = a - b
<1>1. Half \in Nat /\ Half > 0
  BY HalfAssumption
<1>2. ASSUME NEW m \in Nat, m > 0, NEW x \in Int
      PROVE  x % m \in Int /\ (x >= 0 /\ x < m => x % m = x)
  BY <1>2
<1>3. (a - b + Half) % (2 * Half) \in Int
  BY <1>1, <1>2
<1>4. a - b \in 1-Half..Half-1 => (a - b + Half) % (2 * Half) = a - b + Half
  BY <1>1, <1>2
<1> QED
  BY <1>1, <1>3, <1>4 DEF Cmp

(* A block has pages, from its address on.                                 *)
LEMMA BlockHasPages ==
  ASSUME NEW address \in Nat, NEW length \in Nat, length # 0
  PROVE  address \in PagesOf(address, length)
<1>1. PageSize \in Nat /\ PageSize > 0
  BY SpaceAssumption
<1>2. length + PageSize - 1 >= PageSize /\ length + PageSize - 1 \in Nat
  BY <1>1
<1>3. (length + PageSize - 1) \div PageSize >= 1
  BY <1>1, <1>2
<1>4. (length + PageSize - 1) \div PageSize \in Int
  BY <1>1, <1>2
<1> QED
  BY <1>3, <1>4 DEF PagesOf

LEMMA LengthType == ASSUME NEW size \in Nat PROVE Length(size) \in 0..Word-1
  BY SpaceAssumption DEF Length

-----------------------------------------------------------------------------
(* The searches of the tree for an address.                                *)
Addresses == [i \in DOMAIN tree |-> tree[i].address]

LEMMA AddressesComparable ==
  ASSUME TypeOK, Len(tree) <= MaxBlocks, NEW address \in Pages
  PROVE  /\ Places(address) = Tree!Places(Addresses, address)
         /\ Len(Addresses) = Len(tree) /\ DOMAIN tree = 1..Len(tree)
         /\ \A i \in 1..Len(tree) : Addresses[i] = tree[i].address /\ tree[i].address \in Int
         /\ Comparable(Addresses, address)
<1>1. tree \in Seq(Records) /\ Pages \subseteq Int
  BY SpaceAssumption DEF TypeOK, Pages
<1>2. PICK n \in Nat : n = Len(tree) /\ DOMAIN tree = 1..n
  BY <1>1
<1>3. \A i \in 1..n : Addresses[i] = tree[i].address /\ tree[i].address \in Int
  <2>1. \A i \in 1..n : tree[i] \in Records
    BY <1>1, <1>2
  <2>2. \A i \in 1..n : tree[i].address \in Int
    BY <1>1, <2>1 DEF Records
  <2> QED
    BY <1>2, <2>2 DEF Addresses
<1>4. Len(Addresses) = n
  <2>1. Addresses = [i \in 1..n |-> tree[i].address]
    BY <1>2 DEF Addresses
  <2> QED
    BY <2>1
<1>5. \A i \in 1..n : Cmp(address, Addresses[i]) \in Int
  BY <1>1, <1>3, CmpIsDifference
<1>6. Comparable(Addresses, address)
  BY <1>4, <1>5 DEF Comparable
<1>7. Places(address) = Tree!Places(Addresses, address)
  BY DEF Places, Addresses
<1> QED
  BY <1>2, <1>3, <1>4, <1>6, <1>7

LEMMA PlacesInTree ==
  ASSUME TypeOK, Len(tree) <= MaxBlocks, NEW address \in Pages, NEW place \in Places(address)
  PROVE  \/ /\ place.found = TRUE /\ place.at \in 1..Len(tree)
            /\ Cmp(address, tree[place.at].address) = 0
         \/ place.found = FALSE /\ place.at \in 1..Len(tree)+1
<1>1. place \in Tree!Places(Addresses, address) /\ Comparable(Addresses, address)
  BY AddressesComparable, Zenon
<1>2. \/ /\ place.found = TRUE /\ place.at \in 1..Len(Addresses)
         /\ Cmp(address, Addresses[place.at]) = 0
      \/ place.found = FALSE /\ place.at \in 1..Len(Addresses)+1
  BY <1>1, SearchEnds
<1> QED
  BY <1>2, AddressesComparable

(* An address near all blocks is that of the node found.                   *)
LEMMA FoundRight ==
  ASSUME TypeOK, Len(tree) <= MaxBlocks, NEW address \in Pages, NEW place \in Places(address),
         Compared(address), ~ far', place.found
  PROVE  tree[place.at].address = address
<1>1. place.at \in 1..Len(tree) /\ Cmp(address, tree[place.at].address) = 0
  BY PlacesInTree
<1>2. DOMAIN tree = 1..Len(tree) /\ tree[place.at].address \in Int /\ address \in Int
  BY <1>1, AddressesComparable, SpaceAssumption DEF Pages
<1>3. address - tree[place.at].address \in 1-Half..Half-1
  BY <1>1, <1>2 DEF Compared
<1>4. Cmp(address, tree[place.at].address) = address - tree[place.at].address
  BY <1>2, <1>3, CmpIsDifference
<1> QED
  BY <1>1, <1>2, <1>4

(* The comparison with such an address agrees with the order of the tree.  *)
LEMMA AddressAgrees ==
  ASSUME TypeOK, Len(tree) <= MaxBlocks, InOrder, ~ far, NEW address \in Pages,
         \A i \in DOMAIN tree : address - tree[i].address \in 1-Half..Half-1
  PROVE  Agrees(Addresses, address)
<1>1. address \in Int
  BY SpaceAssumption DEF Pages
<1>2. \A i \in 1..Len(tree) : /\ Addresses[i] \in Int
                              /\ Cmp(address, Addresses[i]) = address - Addresses[i]
  BY <1>1, AddressesComparable, CmpIsDifference
<1>3. \A i, j \in 1..Len(tree) : i < j => Addresses[i] < Addresses[j]
  BY AddressesComparable DEF InOrder
<1> QED
  BY <1>1, <1>2, <1>3, AddressesComparable DEF Agrees

-----------------------------------------------------------------------------
(* The tree with a record more, and with one less.                         *)
LEMMA RecordAdded ==
  ASSUME TypeOK, NEW at \in 1..Len(tree)+1, NEW r \in Records, tree' = InsertAt(tree, at, r)
  PROVE  /\ tree' \in Seq(Records) /\ Len(tree') = Len(tree) + 1
         /\ DOMAIN tree' = 1..Len(tree)+1 /\ tree'[at] = r
         /\ \A i \in DOMAIN tree' :
              /\ i < at => i \in DOMAIN tree /\ tree'[i] = tree[i]
              /\ i > at => i - 1 \in DOMAIN tree /\ tree'[i] = tree[i - 1]
         /\ \A j \in DOMAIN tree :
              LET i == IF j < at THEN j ELSE j + 1
              IN  i \in DOMAIN tree' /\ i # at /\ tree'[i] = tree[j]
<1>1. tree \in Seq(Records) /\ Len(tree) \in Nat /\ DOMAIN tree = 1..Len(tree)
  BY DEF TypeOK
<1>2. /\ tree' \in Seq(Records) /\ Len(tree') = Len(tree) + 1
      /\ \A i \in 1..Len(tree)+1 :
           tree'[i] = IF i < at THEN tree[i] ELSE IF i = at THEN r ELSE tree[i - 1]
  <2>1. /\ InsertAt(tree, at, r) \in Seq(Records)
        /\ HasInserted(InsertAt(tree, at, r), tree, at, r)
    BY <1>1, Insertion, Zenon
  <2>2. tree' \in Seq(Records) /\ HasInserted(tree', tree, at, r)
    BY <2>1, Zenon
  <2> QED
    BY <2>2 DEF HasInserted
<1>3. DOMAIN tree' = 1..Len(tree)+1
  BY <1>2
<1> QED
  BY <1>1, <1>2, <1>3

LEMMA RecordRemoved ==
  ASSUME TypeOK, NEW at \in DOMAIN tree, tree' = RemoveAt(tree, at)
  PROVE  /\ tree' \in Seq(Records) /\ Len(tree') = Len(tree) - 1
         /\ DOMAIN tree' = 1..Len(tree)-1
         /\ \A i \in DOMAIN tree' :
              LET j == IF i < at THEN i ELSE i + 1
              IN  j \in DOMAIN tree /\ j # at /\ tree'[i] = tree[j]
         /\ \A j \in DOMAIN tree :
              /\ j < at => j \in DOMAIN tree' /\ tree'[j] = tree[j]
              /\ j > at => j - 1 \in DOMAIN tree' /\ tree'[j - 1] = tree[j]
<1>1. tree \in Seq(Records) /\ Len(tree) \in Nat /\ DOMAIN tree = 1..Len(tree)
  BY DEF TypeOK
<1>2. /\ tree' \in Seq(Records) /\ Len(tree') = Len(tree) - 1
      /\ \A i \in 1..Len(tree)-1 : tree'[i] = IF i < at THEN tree[i] ELSE tree[i + 1]
  <2>1. at \in 1..Len(tree)
    BY <1>1
  <2>2. /\ RemoveAt(tree, at) \in Seq(Records)
        /\ HasRemoved(RemoveAt(tree, at), tree, at)
    BY <1>1, <2>1, Removal, Zenon
  <2>3. tree' \in Seq(Records) /\ HasRemoved(tree', tree, at)
    BY <2>2, Zenon
  <2> QED
    BY <2>3 DEF HasRemoved
<1>3. DOMAIN tree' = 1..Len(tree)-1
  BY <1>1, <1>2
<1>4. ASSUME NEW i \in DOMAIN tree'
      PROVE  LET j == IF i < at THEN i ELSE i + 1
             IN  j \in DOMAIN tree /\ j # at /\ tree'[i] = tree[j]
  <2>1. i \in 1..Len(tree)-1 /\ at \in 1..Len(tree)
    BY <1>1, <1>3, Zenon
  <2> QED
    BY <1>1, <1>2, <2>1
<1>5. ASSUME NEW j \in DOMAIN tree
      PROVE  /\ j < at => j \in DOMAIN tree' /\ tree'[j] = tree[j]
             /\ j > at => j - 1 \in DOMAIN tree' /\ tree'[j - 1] = tree[j]
  <2>1. j \in 1..Len(tree) /\ at \in 1..Len(tree)
    BY <1>1
  <2> QED
    BY <1>1, <1>2, <1>3, <2>1
<1> QED
  BY <1>2, <1>3, <1>4, <1>5

-----------------------------------------------------------------------------
LEMMA InitIInv == Init => IInv
<1> SUFFICES ASSUME Init PROVE IInv
  OBVIOUS
<1>1. DOMAIN tree = {} /\ Len(tree) = 0 /\ tree \in Seq(Records)
  BY DEF Init
<1>2. TypeOK
  BY <1>1 DEF Init, TypeOK, Results
<1> QED
  BY <1>1, <1>2, BlocksAssumption
     DEF Init, IInv, AllMapped, NoOtherMapped, Disjoint, Recorded, InOrder

(* A call that leaves the arena alone, whatever it looked for.             *)
LEMMA ArenaKept ==
  ASSUME IInv, UNCHANGED <<tree, mapped, lost, pc, held>>, ret' \in Results,
         far' \in BOOLEAN, far => far'
  PROVE  IInv'
  BY DEF IInv, TypeOK, AllMapped, NoOtherMapped, Disjoint, Recorded, InOrder, BlockPages

LEMMA ComparedType ==
  ASSUME TypeOK, NEW address, Compared(address)
  PROVE  /\ far' \in BOOLEAN /\ (far => far')
         /\ ~ far' => \A i \in DOMAIN tree : address - tree[i].address \in 1-Half..Half-1
  BY DEF TypeOK, Compared

LEMMA QuietStep ==
  ASSUME IInv,
         \/ Nothing
         \/ \E size \in Sizes : AllocFails(size)
         \/ \E address \in Pages : NotFound(address)
         \/ \E address \in Pages : \E i \in DOMAIN tree : FreeMemRefused(address, i)
  PROVE  IInv'
<1>1. UNCHANGED <<tree, mapped, lost, pc, held>> /\ ret' \in Results
  BY DEF Nothing, AllocFails, NotFound, FreeMemRefused, Fails, Results
<1>2. far' \in BOOLEAN /\ (far => far')
  <2>1. TypeOK
    BY DEF IInv
  <2> QED
    BY <2>1, ComparedType DEF Nothing, AllocFails, NotFound, FreeMemRefused, Finds, TypeOK
<1> QED
  BY <1>1, <1>2, ArenaKept

LEMMA FreeNullStep ==
  ASSUME IInv, FreeNull
  PROVE  IInv'
<1>1. UNCHANGED <<tree, mapped, lost, held, far>> /\ pc = "run" /\ pc' = "null"
  BY DEF FreeNull, Stops
<1>2. TypeOK'
  BY <1>1 DEF FreeNull, Stops, IInv, TypeOK, Results, Ends
<1> QED
  BY <1>1, <1>2
     DEF IInv, AllMapped, NoOtherMapped, Disjoint, Recorded, InOrder, BlockPages

(* No assertion on a node found fails unless an address was too far.       *)
LEMMA WrongNodeStep ==
  ASSUME IInv, NEW address \in Pages, WrongNode(address)
  PROVE  IInv'
<1>1. far'
  <2>1. TypeOK /\ Len(tree) <= MaxBlocks
    BY DEF IInv
  <2>2. PICK place \in Places(address) : place.found /\ tree[place.at].address # address
    BY DEF WrongNode
  <2> QED
    BY <2>1, <2>2, FoundRight DEF WrongNode
<1>2. TypeOK'
  <2>1. far' \in BOOLEAN
    BY ComparedType DEF WrongNode, IInv
  <2> QED
    BY <2>1 DEF WrongNode, Aborts, Stops, IInv, TypeOK, Results, Ends
<1>3. UNCHANGED <<tree, mapped, lost, held>> /\ pc' = "aborted"
  BY DEF WrongNode, Aborts, Stops
<1> QED
  BY <1>1, <1>2, <1>3
     DEF IInv, AllMapped, NoOtherMapped, Disjoint, Recorded, InOrder, BlockPages

(* Alloc, which splits on where its search ends and what it leads to.      *)
LEMMA AllocStep ==
  ASSUME IInv, NEW size \in Sizes, NEW address \in Pages, Alloc(size, address)
  PROVE  IInv'
<1> DEFINE r == [address |-> address, length |-> Length(size)]
<1>1. /\ pc = "run" /\ Len(tree) < MaxBlocks /\ r.length # 0
      /\ BlockPages(r) \subseteq Pages /\ BlockPages(r) \cap mapped = {}
      /\ Compared(address) /\ mapped' = mapped \cup BlockPages(r)
  BY DEF Alloc
<1>2. TypeOK /\ Len(tree) <= MaxBlocks /\ Len(tree) \in Nat /\ DOMAIN tree = 1..Len(tree)
  BY DEF IInv, TypeOK
<1>3. r \in Records
  BY <1>1, LengthType, SizesAssumption, SpaceAssumption DEF Records
<1>4. far' \in BOOLEAN /\ (far => far') /\ address \in Nat /\ MaxBlocks \in Int
  BY <1>1, <1>2, ComparedType, SpaceAssumption, BlocksAssumption DEF Pages
<1>5. PICK place \in Places(address) :
        \/ place.found /\ Aborts
        \/ /\ ~ place.found
           /\ tree' = InsertAt(tree, place.at, r)
           /\ held' = held \cup {[address |-> address, size |-> size]}
           /\ ret' = "ok"
           /\ UNCHANGED <<lost, pc>>
        \/ /\ ~ place.found
           /\ lost' = lost \cup BlockPages(r)
           /\ ret' = "failed"
           /\ UNCHANGED <<tree, pc, held>>
  BY DEF Alloc
<1>6. CASE place.found /\ Aborts
  <2>1. UNCHANGED <<tree, lost, held>> /\ pc' = "aborted" /\ ret' = "none"
    BY <1>6 DEF Aborts, Stops
  <2>2. TypeOK'
    BY <1>1, <1>2, <1>4, <2>1 DEF TypeOK, Results, Ends
  <2>3. far'
    <3>1. SUFFICES ASSUME ~ far' PROVE FALSE
      OBVIOUS
    <3>2. place.at \in DOMAIN tree /\ tree[place.at].address = address
      BY <1>1, <1>2, <1>6, <3>1, PlacesInTree, FoundRight
    <3>3. tree[place.at] \in Records
      BY <1>2, <3>2 DEF TypeOK
    <3>4. tree[place.at].length \in Nat \ {0}
      BY <3>3, SpaceAssumption DEF Records
    <3>5. address \in BlockPages(tree[place.at]) /\ address \in BlockPages(r)
      BY <1>1, <1>3, <1>4, <3>2, <3>4, BlockHasPages, SpaceAssumption DEF BlockPages, Records
    <3> QED
      BY <1>1, <3>2, <3>5 DEF IInv, AllMapped
  <2> QED
    BY <1>1, <2>1, <2>2, <2>3
       DEF IInv, AllMapped, NoOtherMapped, Disjoint, Recorded, InOrder, BlockPages
<1>7. CASE /\ ~ place.found
           /\ tree' = InsertAt(tree, place.at, r)
           /\ held' = held \cup {[address |-> address, size |-> size]}
           /\ ret' = "ok"
           /\ UNCHANGED <<lost, pc>>
  <2> DEFINE at == place.at
  <2>1. at \in 1..Len(tree)+1
    BY <1>2, <1>7, PlacesInTree
  <2>2. /\ tree' \in Seq(Records) /\ Len(tree') = Len(tree) + 1
        /\ DOMAIN tree' = 1..Len(tree)+1 /\ tree'[at] = r
        /\ \A i \in DOMAIN tree' :
             /\ i < at => i \in DOMAIN tree /\ tree'[i] = tree[i]
             /\ i > at => i - 1 \in DOMAIN tree /\ tree'[i] = tree[i - 1]
        /\ \A j \in DOMAIN tree :
             LET i == IF j < at THEN j ELSE j + 1
             IN  i \in DOMAIN tree' /\ i # at /\ tree'[i] = tree[j]
    BY <1>2, <1>3, <1>7, <2>1, RecordAdded
  <2> HIDE DEF r, at
  <2>3. \A i \in DOMAIN tree' : i # at => \E j \in DOMAIN tree : tree'[i] = tree[j]
    BY <1>2, <2>1, <2>2
  <2>4. ASSUME NEW i \in DOMAIN tree', NEW j \in DOMAIN tree', i < j, i # at, j # at
        PROVE  \E k, l \in DOMAIN tree : k < l /\ tree'[i] = tree[k] /\ tree'[j] = tree[l]
    <3> DEFINE from(n) == IF n < at THEN n ELSE n - 1
    <3>1. \A n \in DOMAIN tree' : n # at => from(n) \in DOMAIN tree /\ tree'[n] = tree[from(n)]
      BY <1>2, <2>1, <2>2
    <3>2. from(i) < from(j)
      BY <1>2, <2>1, <2>2, <2>4
    <3> QED
      BY <2>4, <3>1, <3>2
  <2>5. TypeOK'
    <3>1. [address |-> address, size |-> size] \in [address : Pages, size : Sizes]
      OBVIOUS
    <3> QED
      BY <1>1, <1>2, <1>4, <1>7, <2>2, <3>1 DEF TypeOK, Results
  <2>6. Len(tree') <= MaxBlocks
    BY <1>1, <1>2, <1>4, <2>2
  <2>7. AllMapped'
    BY <1>1, <1>7, <2>2, <2>3 DEF IInv, AllMapped, BlockPages
  <2>8. NoOtherMapped'
    <3> SUFFICES ASSUME NEW x \in mapped', ~ x \in lost, pc # "aborted"
                 PROVE  \E i \in DOMAIN tree' : x \in BlockPages(tree'[i])
      BY <1>7 DEF NoOtherMapped, BlockPages
    <3>1. CASE x \in BlockPages(r)
      BY <1>2, <2>1, <2>2, <3>1
    <3>2. CASE x \in mapped
      <4>1. PICK j \in DOMAIN tree : x \in BlockPages(tree[j])
        BY <1>1, <3>2 DEF IInv, NoOtherMapped
      <4> QED
        BY <2>2, <4>1
    <3> QED
      BY <1>1, <3>1, <3>2
  <2>9. Disjoint'
    <3>1. \A i \in DOMAIN tree' : BlockPages(tree'[i]) \cap lost = {}
      BY <1>1, <2>2, <2>3 DEF IInv, Disjoint, AllMapped
    <3>2. ASSUME NEW i \in DOMAIN tree', NEW j \in DOMAIN tree', i < j
          PROVE  BlockPages(tree'[i]) \cap BlockPages(tree'[j]) = {}
      <4>1. CASE i = at \/ j = at
        <5>1. \A k \in DOMAIN tree : BlockPages(r) \cap BlockPages(tree[k]) = {}
          BY <1>1 DEF IInv, AllMapped
        <5> QED
          BY <2>2, <2>3, <3>2, <4>1, <5>1
      <4>2. CASE i # at /\ j # at
        <5>1. \E k, l \in DOMAIN tree : k < l /\ tree'[i] = tree[k] /\ tree'[j] = tree[l]
          BY <2>4, <3>2, <4>2
        <5> QED
          BY <1>2, <5>1 DEF IInv, Disjoint
      <4> QED
        BY <4>1, <4>2
    <3>3. \A i, j \in DOMAIN tree' : i < j \/ j < i \/ i = j
      BY <1>2, <2>2
    <3>4. \A i, j \in DOMAIN tree' : i # j => BlockPages(tree'[i]) \cap BlockPages(tree'[j]) = {}
      BY <3>2, <3>3
    <3> QED
      BY <1>7, <3>1, <3>4 DEF Disjoint, BlockPages
  <2>10. Recorded'
    <3>1. ASSUME NEW b \in held
          PROVE  \E i \in DOMAIN tree' :
                   tree'[i].address = b.address /\ tree'[i].length = Length(b.size)
      <4>1. PICK j \in DOMAIN tree : tree[j].address = b.address /\ tree[j].length = Length(b.size)
        BY DEF IInv, Recorded
      <4> QED
        BY <2>2, <4>1
    <3>2. at \in DOMAIN tree' /\ tree'[at].address = address /\ tree'[at].length = Length(size)
      BY <2>1, <2>2 DEF r
    <3> QED
      BY <1>7, <3>1, <3>2 DEF Recorded, Length
  <2>11. InOrder'
    <3> SUFFICES ASSUME ~ far', NEW i \in DOMAIN tree', NEW j \in DOMAIN tree', i < j
                 PROVE  /\ tree'[i].address < tree'[j].address
                        /\ tree'[j].address - tree'[i].address < Half
      BY <1>1, <1>7 DEF InOrder
    <3>1. ~ far /\ \A k \in DOMAIN tree : address - tree[k].address \in 1-Half..Half-1
      BY <1>1, <1>2, <1>4, ComparedType
    <3>2. \A k \in 1..Len(tree) : tree[k].address \in Int
      BY <1>2, AddressesComparable
    <3>3. Half \in Nat
      BY HalfAssumption
    <3>4. \A k \in 1..Len(tree) : /\ k < at => address > tree[k].address
                                  /\ k >= at => address < tree[k].address
      <4>1. InOrder
        BY DEF IInv
      <4>2. Agrees(Addresses, address)
        BY <1>2, <3>1, <4>1, AddressAgrees
      <4>3. \A k \in 1..Len(tree) : /\ k < at => Cmp(address, Addresses[k]) > 0
                                    /\ k >= at => Cmp(address, Addresses[k]) < 0
        BY <1>2, <1>7, <4>2, AddressesComparable, SearchSeparates DEF at
      <4>4. \A k \in 1..Len(tree) : Cmp(address, Addresses[k]) = address - tree[k].address
        <5> SUFFICES ASSUME NEW k \in 1..Len(tree)
                     PROVE  Cmp(address, Addresses[k]) = address - tree[k].address
          OBVIOUS
        <5>1. Addresses[k] = tree[k].address /\ tree[k].address \in Int
          BY <1>2, AddressesComparable
        <5>2. address - tree[k].address \in 1-Half..Half-1
          BY <1>2, <3>1
        <5>3. Cmp(address, tree[k].address) = address - tree[k].address
          <6>1. address \in Int
            BY <1>4
          <6> QED
            BY <5>1, <5>2, <6>1, CmpIsDifference
        <5> QED
          BY <5>1, <5>3
      <4> QED
        BY <1>4, <3>2, <4>3, <4>4
    <3>5. CASE i = at
      <4>1. j - 1 \in 1..Len(tree) /\ j - 1 >= at /\ tree'[j] = tree[j - 1]
        BY <1>2, <2>1, <2>2, <3>5
      <4>2. tree'[i].address = address
        BY <2>2, <3>5 DEF r
      <4> QED
        BY <1>2, <1>4, <3>1, <3>2, <3>3, <3>4, <4>1, <4>2
    <3>6. CASE j = at
      <4>1. i \in 1..Len(tree) /\ i < at /\ tree'[i] = tree[i]
        BY <1>2, <2>1, <2>2, <3>6
      <4>2. tree'[j].address = address
        BY <2>2, <3>6 DEF r
      <4> QED
        BY <1>2, <1>4, <3>1, <3>2, <3>3, <3>4, <4>1, <4>2
    <3>7. CASE i # at /\ j # at
      <4>1. \E k, l \in DOMAIN tree : k < l /\ tree'[i] = tree[k] /\ tree'[j] = tree[l]
        BY <2>4, <3>7
      <4> QED
        BY <3>1, <4>1 DEF IInv, InOrder
    <3> QED
      BY <3>5, <3>6, <3>7
  <2> QED
    BY <2>5, <2>6, <2>7, <2>8, <2>9, <2>10, <2>11 DEF IInv
<1>8. CASE /\ ~ place.found
           /\ lost' = lost \cup BlockPages(r)
           /\ ret' = "failed"
           /\ UNCHANGED <<tree, pc, held>>
  <2>1. TypeOK'
    BY <1>1, <1>2, <1>4, <1>8 DEF TypeOK, Results
  <2>2. AllMapped' /\ NoOtherMapped' /\ Disjoint'
    BY <1>1, <1>8 DEF IInv, AllMapped, NoOtherMapped, Disjoint, BlockPages
  <2> QED
    BY <1>2, <1>4, <1>8, <2>1, <2>2 DEF IInv, Recorded, InOrder
<1> QED
  BY <1>5, <1>6, <1>7, <1>8

(* SetBlock: the block found has other pages now, in place of its own.     *)
LEMMA SetBlockStep ==
  ASSUME IInv, NEW size \in Sizes, NEW address \in Pages, NEW i \in DOMAIN tree,
         SetBlock(size, address, i)
  PROVE  IInv'
<1> DEFINE r == [address |-> address, length |-> Length(size)]
<1>1. /\ tree[i].address = address /\ Compared(address) /\ pc = "run"
      /\ Length(size) # 0 /\ BlockPages(r) \subseteq Pages
      /\ (BlockPages(r) \ BlockPages(tree[i])) \cap mapped = {}
      /\ mapped' = (mapped \ BlockPages(tree[i])) \cup BlockPages(r)
      /\ tree' = [tree EXCEPT ![i] = Resized(@, Length(size))]
      /\ held' = { b \in held : b.address # address } \cup {[address |-> address, size |-> size]}
      /\ ret' = "ok" /\ UNCHANGED <<lost, pc>>
  BY DEF SetBlock, Finds, Resizable, BlockPages
<1>2. /\ TypeOK /\ Len(tree) <= MaxBlocks /\ tree \in Seq(Records)
      /\ Len(tree) \in Nat /\ DOMAIN tree = 1..Len(tree) /\ tree[i] \in Records
  BY DEF IInv, TypeOK
<1>3. r \in Records
  BY <1>1, LengthType, SizesAssumption, SpaceAssumption DEF Records
<1>4. tree' = [tree EXCEPT ![i] = r]
  <2>1. Resized(tree[i], Length(size)) = r
    BY <1>1, <1>2 DEF Resized, Records
  <2> QED
    BY <1>1, <2>1
<1>5. /\ tree' \in Seq(Records) /\ Len(tree') = Len(tree) /\ DOMAIN tree' = DOMAIN tree
      /\ tree'[i] = r
      /\ \A j \in DOMAIN tree : j # i => tree'[j] = tree[j]
  BY <1>2, <1>3, <1>4
<1>6. /\ far' \in BOOLEAN /\ (far => far')
  BY <1>1, <1>2, ComparedType
<1> HIDE DEF r
<1>7. TypeOK'
  <2>1. [address |-> address, size |-> size] \in [address : Pages, size : Sizes]
    OBVIOUS
  <2> QED
    BY <1>1, <1>2, <1>5, <1>6, <2>1 DEF TypeOK, Results
<1>8. \A j \in DOMAIN tree : j # i => /\ BlockPages(tree[j]) \cap BlockPages(tree[i]) = {}
                                     /\ BlockPages(tree[j]) \cap BlockPages(r) = {}
  BY <1>1 DEF IInv, Disjoint, AllMapped
<1>9. lost \cap BlockPages(tree[i]) = {} /\ lost \cap BlockPages(r) = {}
  BY <1>1 DEF IInv, Disjoint, AllMapped
<1>10. AllMapped'
  <2>1. \A j \in DOMAIN tree' : BlockPages(tree'[j]) \subseteq mapped'
    BY <1>1, <1>5, <1>8 DEF IInv, AllMapped
  <2> QED
    BY <1>1, <1>9, <2>1 DEF IInv, AllMapped, BlockPages
<1>11. NoOtherMapped'
  <2>1. ASSUME NEW x \in mapped' PROVE x \in lost \/ \E j \in DOMAIN tree' : x \in BlockPages(tree'[j])
    BY <1>1, <1>5 DEF IInv, NoOtherMapped
  <2> QED
    BY <1>1, <2>1 DEF NoOtherMapped, BlockPages
<1>12. Disjoint'
  <2>1. \A j \in DOMAIN tree' :
          /\ BlockPages(tree'[j]) \cap lost = {}
          /\ \A k \in DOMAIN tree' : j # k => BlockPages(tree'[j]) \cap BlockPages(tree'[k]) = {}
    BY <1>5, <1>8, <1>9 DEF IInv, Disjoint
  <2> QED
    BY <1>1, <2>1 DEF Disjoint, BlockPages
<1>13. Recorded'
  <2>1. ASSUME NEW b \in held, b.address # address
        PROVE  \E j \in DOMAIN tree' :
                 tree'[j].address = b.address /\ tree'[j].length = Length(b.size)
    <3>1. PICK j \in DOMAIN tree : tree[j].address = b.address /\ tree[j].length = Length(b.size)
      BY DEF IInv, Recorded
    <3> QED
      BY <1>1, <1>5, <2>1, <3>1
  <2>2. tree'[i].address = address /\ tree'[i].length = Length(size)
    BY <1>5 DEF r
  <2> QED
    BY <1>1, <1>5, <2>1, <2>2 DEF Recorded, Length
<1>14. InOrder'
  <2>1. \A j \in DOMAIN tree' : tree'[j].address = tree[j].address
    BY <1>1, <1>5 DEF r
  <2> QED
    BY <1>1, <1>5, <1>6, <2>1 DEF IInv, InOrder
<1> QED
  BY <1>2, <1>5, <1>7, <1>10, <1>11, <1>12, <1>13, <1>14 DEF IInv

LEMMA SetBlockRefusedStep ==
  ASSUME IInv, NEW size \in Sizes, NEW address \in Pages, NEW i \in DOMAIN tree,
         SetBlockRefused(size, address, i)
  PROVE  IInv'
<1>1. Compared(address) /\ ret' \in Results /\ UNCHANGED <<mapped, lost, pc, held>>
  BY DEF SetBlockRefused, Finds, Results
<1>2. tree' = tree
  BY DEF SetBlockRefused, Refused, IInv, TypeOK
<1>3. far' \in BOOLEAN /\ (far => far')
  BY <1>1, ComparedType DEF IInv
<1> QED
  BY <1>1, <1>2, <1>3, ArenaKept

(* FreeMem: the record found and its pages are gone.                       *)
LEMMA FreeMemStep ==
  ASSUME IInv, NEW address \in Pages, NEW i \in DOMAIN tree, FreeMem(address, i)
  PROVE  IInv'
<1>1. /\ tree[i].address = address /\ Compared(address) /\ pc = "run"
      /\ mapped' = mapped \ BlockPages(tree[i])
      /\ tree' = RemoveAt(tree, i)
      /\ held' = { b \in held : b.address # address }
      /\ pc' \in {"run", "crashed", "corrupted"} /\ ret' \in Results /\ lost' = lost
  BY DEF FreeMem, Finds, Removed, Stops, Results
<1>2. /\ TypeOK /\ Len(tree) <= MaxBlocks /\ MaxBlocks \in Int
      /\ Len(tree) \in Nat /\ DOMAIN tree = 1..Len(tree)
  BY BlocksAssumption DEF IInv, TypeOK
<1>3. far' \in BOOLEAN /\ (far => far')
  BY <1>1, <1>2, ComparedType
<1>4. /\ tree' \in Seq(Records) /\ Len(tree') = Len(tree) - 1
      /\ DOMAIN tree' = 1..Len(tree)-1
      /\ \A k \in DOMAIN tree' :
           LET j == IF k < i THEN k ELSE k + 1
           IN  j \in DOMAIN tree /\ j # i /\ tree'[k] = tree[j]
      /\ \A j \in DOMAIN tree :
           /\ j < i => j \in DOMAIN tree' /\ tree'[j] = tree[j]
           /\ j > i => j - 1 \in DOMAIN tree' /\ tree'[j - 1] = tree[j]
  BY <1>1, <1>2, RecordRemoved
<1>5. \A j \in DOMAIN tree : j # i => \E k \in DOMAIN tree' : tree'[k] = tree[j]
  BY <1>2, <1>4
<1>6. \A k, l \in DOMAIN tree' :
        k < l => \E m, n \in DOMAIN tree :
                   m < n /\ m # i /\ n # i /\ tree'[k] = tree[m] /\ tree'[l] = tree[n]
  <2> SUFFICES ASSUME NEW k \in DOMAIN tree', NEW l \in DOMAIN tree', k < l
               PROVE  \E m, n \in DOMAIN tree :
                        m < n /\ m # i /\ n # i /\ tree'[k] = tree[m] /\ tree'[l] = tree[n]
    OBVIOUS
  <2> DEFINE from(n) == IF n < i THEN n ELSE n + 1
  <2>1. \A n \in DOMAIN tree' : from(n) \in DOMAIN tree /\ from(n) # i /\ tree'[n] = tree[from(n)]
    BY <1>4
  <2>2. from(k) < from(l)
    BY <1>2, <1>4
  <2> QED
    BY <2>1, <2>2
<1>7. \A k \in DOMAIN tree' : \E j \in DOMAIN tree : j # i /\ tree'[k] = tree[j]
  BY <1>4
<1>8. TypeOK'
  BY <1>1, <1>2, <1>3, <1>4 DEF TypeOK, Ends
<1>9. AllMapped'
  <2>1. \A k \in DOMAIN tree' : BlockPages(tree'[k]) \subseteq mapped'
    BY <1>1, <1>7 DEF IInv, AllMapped, Disjoint
  <2> QED
    BY <1>1, <2>1 DEF IInv, AllMapped, Disjoint, BlockPages
<1>10. NoOtherMapped'
  <2>1. ASSUME NEW x \in mapped' PROVE x \in lost \/ \E k \in DOMAIN tree' : x \in BlockPages(tree'[k])
    <3>1. CASE x \in lost
      BY <3>1
    <3>2. ASSUME NEW j \in DOMAIN tree, x \in BlockPages(tree[j])
          PROVE  \E k \in DOMAIN tree' : x \in BlockPages(tree'[k])
      BY <1>1, <1>5, <3>2
    <3> QED
      BY <1>1, <3>1, <3>2 DEF IInv, NoOtherMapped
  <2> QED
    BY <1>1, <2>1 DEF NoOtherMapped, BlockPages
<1>11. Disjoint'
  <2>1. \A k \in DOMAIN tree' : BlockPages(tree'[k]) \cap lost = {}
    BY <1>7 DEF IInv, Disjoint
  <2>2. \A k, l \in DOMAIN tree' : k < l => BlockPages(tree'[k]) \cap BlockPages(tree'[l]) = {}
    <3>1. \A m, n \in DOMAIN tree : m < n => BlockPages(tree[m]) \cap BlockPages(tree[n]) = {}
      BY <1>2 DEF IInv, Disjoint
    <3> QED
      BY <1>6, <3>1
  <2>3. \A k, l \in DOMAIN tree' : k < l \/ l < k \/ k = l
    BY <1>2, <1>4
  <2>4. \A k, l \in DOMAIN tree' : k # l => BlockPages(tree'[k]) \cap BlockPages(tree'[l]) = {}
    BY <2>2, <2>3
  <2> QED
    BY <1>1, <2>1, <2>4 DEF Disjoint, BlockPages
<1>12. Recorded'
  <2>1. ASSUME NEW b \in held, b.address # address
        PROVE  \E k \in DOMAIN tree' :
                 tree'[k].address = b.address /\ tree'[k].length = Length(b.size)
    <3>1. PICK j \in DOMAIN tree : tree[j].address = b.address /\ tree[j].length = Length(b.size)
      BY DEF IInv, Recorded
    <3> QED
      BY <1>1, <1>5, <2>1, <3>1
  <2> QED
    BY <1>1, <2>1 DEF Recorded, Length
<1>13. InOrder'
  <2> SUFFICES ASSUME ~ far', NEW k \in DOMAIN tree', NEW l \in DOMAIN tree', k < l
               PROVE  /\ tree'[k].address < tree'[l].address
                      /\ tree'[l].address - tree'[k].address < Half
    BY <1>1 DEF InOrder
  <2> QED
    BY <1>3, <1>6 DEF IInv, InOrder
<1> QED
  BY <1>2, <1>4, <1>8, <1>9, <1>10, <1>11, <1>12, <1>13 DEF IInv

LEMMA NextIInv == IInv /\ [Next]_vars => IInv'
<1> SUFFICES ASSUME IInv, [Next]_vars PROVE IInv'
  OBVIOUS
<1>1. CASE UNCHANGED vars
  <2>1. UNCHANGED <<tree, mapped, lost, pc, held>> /\ ret' \in Results /\ far' = far /\ far \in BOOLEAN
    BY <1>1 DEF vars, IInv, TypeOK
  <2> QED
    BY <2>1, ArenaKept
<1>2. CASE Next
  BY <1>2, QuietStep, FreeNullStep, WrongNodeStep, AllocStep, SetBlockStep, SetBlockRefusedStep,
     FreeMemStep DEF Next
<1> QED
  BY <1>1, <1>2

(* The inductive invariant holds of the memory arena.                      *)
THEOREM Invariance == Spec => []IInv
  BY InitIInv, NextIInv, PTL DEF Spec

-----------------------------------------------------------------------------
(* Every variable keeps to its type; the lengths of blocks are neither     *)
(* zero nor as long as a size_t reaches.                                   *)
THEOREM TypeCorrect == Spec => []TypeOK
<1>1. IInv => TypeOK
  BY DEF IInv
<1> QED
  BY <1>1, Invariance, PTL

(* _dos_allocmem, _dos_setblock and _dos_freemem neither leak a page nor   *)
(* give one to two blocks, whatever sizes wrap around and however searches *)
(* of the tree end, except for the pages of a block that no node could be  *)
(* had for.                                                                *)
THEOREM PagesAreAccounted == Spec => []PagesAccounted
<1>1. IInv => PagesAccounted
  BY DEF IInv, PagesAccounted, AllMapped, NoOtherMapped, Disjoint
<1> QED
  BY <1>1, Invariance, PTL

(* The program's blocks are mapped for the sizes it asked for last.        *)
THEOREM SizesAreHeld == Spec => []SizeHeld
<1>1. IInv => SizeHeld
  <2> SUFFICES ASSUME IInv, NEW b \in held, b.size < Word
               PROVE  PagesOf(b.address, b.size) \subseteq mapped
    BY DEF SizeHeld
  <2>1. PICK i \in DOMAIN tree : tree[i].address = b.address /\ tree[i].length = Length(b.size)
    BY DEF IInv, Recorded
  <2>2. b.size \in Nat
    BY SizesAssumption DEF IInv, TypeOK
  <2>3. Length(b.size) = b.size
    BY <2>2, SpaceAssumption DEF Length
  <2> QED
    BY <2>1, <2>3 DEF IInv, AllMapped, BlockPages
<1> QED
  BY <1>1, Invariance, PTL

(* As long as the comparison does not overflow it finds every block of the *)
(* program, in a tree of any shape.                                        *)
THEOREM BlocksAreFound == Spec => []BlocksFindable
<1>1. IInv => BlocksFindable
  <2> SUFFICES ASSUME IInv, ~ far, NEW b \in held, NEW place \in Places(b.address)
               PROVE  place.found /\ tree[place.at].address = b.address
    BY DEF BlocksFindable, IInv, InOrder
  <2>1. TypeOK /\ Len(tree) <= MaxBlocks /\ InOrder /\ b.address \in Pages
    BY DEF IInv, TypeOK
  <2>2. PICK i \in DOMAIN tree : tree[i].address = b.address
    BY DEF IInv, Recorded
  <2>3. /\ DOMAIN tree = 1..Len(tree) /\ Len(tree) \in Nat
        /\ \A j \in 1..Len(tree) : Addresses[j] = tree[j].address /\ tree[j].address \in Int
    BY <2>1, AddressesComparable DEF TypeOK
  <2>4. Half \in Nat \ {0}
    BY HalfAssumption
  <2>5. ASSUME NEW j \in DOMAIN tree PROVE b.address - tree[j].address \in 1-Half..Half-1
    <3>1. CASE i < j
      <4>1. tree[i].address < tree[j].address /\ tree[j].address - tree[i].address < Half
        BY <2>1, <3>1 DEF InOrder
      <4> QED
        BY <2>2, <2>3, <2>4, <4>1
    <3>2. CASE j < i
      <4>1. tree[j].address < tree[i].address /\ tree[i].address - tree[j].address < Half
        BY <2>1, <3>2 DEF InOrder
      <4> QED
        BY <2>2, <2>3, <2>4, <4>1
    <3>3. CASE i = j
      BY <2>2, <2>3, <2>4, <3>3
    <3> QED
      BY <2>3, <3>1, <3>2, <3>3
  <2>6. Agrees(Addresses, b.address)
    BY <2>1, <2>5, AddressAgrees
  <2>7. Cmp(b.address, Addresses[i]) = 0
    <3>1. b.address \in Int /\ b.address - b.address = 0 /\ 0 \in 1-Half..Half-1
      BY <2>2, <2>3, <2>4
    <3>2. Cmp(b.address, b.address) = 0
      BY <3>1, CmpIsDifference
    <3> QED
      BY <2>2, <2>3, <3>2
  <2>8. place.found = TRUE /\ place.at = i
    <3>1. /\ Comparable(Addresses, b.address) /\ i \in 1..Len(Addresses)
          /\ place \in Tree!Places(Addresses, b.address)
      BY <2>1, AddressesComparable
    <3>2. \A n \in 1..Len(Addresses) :
            Cmp(b.address, Addresses[n]) = 0 => place.found = TRUE /\ place.at = n
      BY <2>6, <3>1, SearchFinds
    <3> QED
      BY <2>7, <3>1, <3>2
  <2> QED
    BY <2>2, <2>8
<1> QED
  BY <1>1, Invariance, PTL

(* A call that fails has not touched the records, and has unmapped nothing.*)
THEOREM FailuresChangeNothing == Spec => FailureChangesNothing
<1>1. IInv /\ [Next]_vars => [ret' = "failed" => UNCHANGED <<tree, held>> /\ mapped \subseteq mapped']_vars
  <2> SUFFICES ASSUME IInv, Next, ret' = "failed"
               PROVE  UNCHANGED <<tree, held>> /\ mapped \subseteq mapped'
    OBVIOUS
  <2>1. ASSUME NEW size \in Sizes, NEW address \in Pages, Alloc(size, address)
        PROVE  UNCHANGED <<tree, held>> /\ mapped \subseteq mapped'
    BY <2>1 DEF Alloc, Aborts, Stops
  <2>2. ASSUME NEW size \in Sizes, NEW address \in Pages, NEW i \in DOMAIN tree,
               SetBlockRefused(size, address, i)
        PROVE  UNCHANGED <<tree, held>> /\ mapped \subseteq mapped'
    BY <2>2 DEF SetBlockRefused, Refused, IInv, TypeOK
  <2>3. \A address \in Pages :
          /\ ~ WrongNode(address)
          /\ \A j \in DOMAIN tree : ~ FreeMem(address, j)
          /\ \A size \in Sizes, j \in DOMAIN tree : ~ SetBlock(size, address, j)
    BY DEF WrongNode, FreeMem, SetBlock, Aborts, Stops
  <2>4. ~ Nothing /\ ~ FreeNull
    BY DEF Nothing, FreeNull, Stops
  <2> QED
    BY <2>1, <2>2, <2>3, <2>4 DEF Next, AllocFails, NotFound, FreeMemRefused, Fails
<1> QED
  BY <1>1, Invariance, PTL DEF Spec, FailureChangesNothing

-----------------------------------------------------------------------------
(* The blocks of the program, and what they are to MemSpec.                *)
blocks == { Promised(b) : b \in held }

LEMMA OthersPromised ==
  ASSUME NEW address
  PROVE  Memory!Others(address) = { Promised(b) : b \in { c \in held : c.address # address } }
<1>1. \A b \in held : Promised(b).address = b.address
  BY DEF Promised
<1> QED
  BY <1>1 DEF Memory!Others

LEMMA BlockGiven ==
  ASSUME NEW new, held' = held \cup {new}, Memory!Apart(Promised(new), blocks)
  PROVE  Memory!Next
<1>1. blocks' = blocks \cup {Promised(new)}
  BY DEF blocks, Promised
<1>2. Memory!Allocate(Promised(new)) /\ Promised(new) \in blocks'
  BY <1>1 DEF Memory!Allocate, blocks
<1> QED
  BY <1>2 DEF Memory!Next, blocks

(* A block in place of that at an address, which the program may not have. *)
LEMMA BlockReplaced ==
  ASSUME NEW address, NEW new,
         held' = { c \in held : c.address # address } \cup {new},
         Memory!Apart(Promised(new), { Promised(b) : b \in { c \in held : c.address # address } })
  PROVE  Memory!Next
<1>1. blocks' = Memory!Others(address) \cup {Promised(new)}
  BY OthersPromised DEF blocks, Promised
<1>2. CASE \E b \in held : b.address = address
  <2>1. PICK old \in blocks : old.address = address
    <3>1. PICK b \in held : b.address = address
      BY <1>2
    <3>2. Promised(b) \in blocks /\ Promised(b).address = address
      BY <3>1 DEF blocks, Promised
    <3> QED
      BY <3>2
  <2>2. Memory!Resize(old.address, Promised(new)) /\ Promised(new) \in blocks'
    BY <1>1, <2>1, OthersPromised DEF Memory!Resize, blocks
  <2> QED
    BY <2>2 DEF Memory!Next, blocks
<1>3. CASE \A b \in held : b.address # address
  <2>1. { c \in held : c.address # address } = held
    BY <1>3
  <2> QED
    BY <2>1, BlockGiven DEF blocks
<1> QED
  BY <1>2, <1>3

LEMMA BlockTaken ==
  ASSUME NEW address, held' = { c \in held : c.address # address }
  PROVE  Memory!Next \/ UNCHANGED blocks
<1>1. blocks' = Memory!Others(address)
  BY OthersPromised DEF blocks, Promised
<1>2. CASE \E b \in held : b.address = address
  <2>1. PICK old \in blocks : old.address = address
    <3>1. PICK b \in held : b.address = address
      BY <1>2
    <3>2. Promised(b) \in blocks /\ Promised(b).address = address
      BY <3>1 DEF blocks, Promised
    <3> QED
      BY <3>2
  <2>2. Memory!Free(old.address)
    BY <1>1, <2>1 DEF Memory!Free, blocks
  <2> QED
    BY <2>2 DEF Memory!Next, blocks
<1>3. CASE \A b \in held : b.address # address
  <2>1. held' = held
    BY <1>3
  <2> QED
    BY <2>1 DEF blocks, Promised
<1> QED
  BY <1>2, <1>3

(* What is promised of a block is within the pages of its record.          *)
LEMMA PromisedPages ==
  ASSUME NEW size \in Sizes, NEW address \in Pages
  PROVE  Promised([address |-> address, size |-> size]).units \subseteq PagesOf(address, Length(size))
<1>1. size \in Nat /\ Word \in Nat \ {0}
  BY SizesAssumption, SpaceAssumption
<1>2. size < Word => Length(size) = size
  BY <1>1 DEF Length
<1> QED
  BY <1>2 DEF Promised

LEMMA HeldMapped ==
  ASSUME IInv, NEW b \in held
  PROVE  \E i \in DOMAIN tree :
           /\ tree[i].address = b.address /\ b.address \in BlockPages(tree[i])
           /\ Promised(b).units \subseteq BlockPages(tree[i]) /\ BlockPages(tree[i]) \subseteq mapped
<1>1. PICK address \in Pages, size \in Sizes : b = [address |-> address, size |-> size]
  BY DEF IInv, TypeOK
<1>2. PICK i \in DOMAIN tree : tree[i].address = address /\ tree[i].length = Length(size)
  BY <1>1 DEF IInv, Recorded
<1>3. tree[i] \in Records /\ address \in Nat /\ Word \in Nat
  BY SpaceAssumption DEF IInv, TypeOK, Pages
<1>4. Length(size) \in Nat /\ Length(size) # 0
  BY <1>2, <1>3 DEF Records
<1>5. BlockPages(tree[i]) = PagesOf(address, Length(size))
  BY <1>2 DEF BlockPages
<1>6. address \in BlockPages(tree[i])
  BY <1>3, <1>4, <1>5, BlockHasPages
<1>7. BlockPages(tree[i]) \subseteq mapped
  BY DEF IInv, AllMapped
<1> QED
  BY <1>1, <1>2, <1>5, <1>6, <1>7, PromisedPages

LEMMA AllocPromised ==
  ASSUME IInv, NEW size \in Sizes, NEW address \in Pages, Alloc(size, address)
  PROVE  Memory!Next \/ UNCHANGED blocks
<1> DEFINE new == [address |-> address, size |-> size]
<1>1. Length(size) # 0 /\ PagesOf(address, Length(size)) \cap mapped = {}
  BY DEF Alloc, BlockPages
<1>2. held' = held \/ held' = held \cup {new}
  BY DEF Alloc, Aborts
<1>3. address \in PagesOf(address, Length(size))
  <2>1. address \in Nat /\ Length(size) \in Nat
    BY LengthType, SizesAssumption, SpaceAssumption DEF Pages
  <2> QED
    BY <1>1, <2>1, BlockHasPages
<1>4. ASSUME NEW b \in held
      PROVE  /\ Promised(b).address # Promised(new).address
             /\ Promised(b).units \cap Promised(new).units = {}
  <2>1. b.address \in mapped /\ Promised(b).units \subseteq mapped
    BY HeldMapped
  <2>2. Promised(new).units \subseteq PagesOf(address, Length(size))
    BY PromisedPages
  <2>3. Promised(b).address = b.address /\ Promised(new).address = address
    BY DEF Promised
  <2> QED
    BY <1>1, <1>3, <2>1, <2>2, <2>3
<1>5. Memory!Apart(Promised(new), blocks)
  BY <1>4 DEF Memory!Apart, blocks
<1>6. CASE held' = held
  BY <1>6 DEF blocks, Promised
<1>7. CASE held' = held \cup {new}
  BY <1>5, <1>7, BlockGiven
<1> QED
  BY <1>2, <1>6, <1>7

LEMMA SetBlockPromised ==
  ASSUME IInv, NEW size \in Sizes, NEW address \in Pages, NEW i \in DOMAIN tree,
         SetBlock(size, address, i)
  PROVE  Memory!Next
<1> DEFINE new == [address |-> address, size |-> size]
           others == { c \in held : c.address # address }
<1>1. /\ tree[i].address = address
      /\ (PagesOf(address, Length(size)) \ BlockPages(tree[i])) \cap mapped = {}
      /\ held' = others \cup {new}
  BY DEF SetBlock, Finds, Resizable
<1>2. ASSUME NEW b \in others
      PROVE  /\ Promised(b).address # Promised(new).address
             /\ Promised(b).units \cap Promised(new).units = {}
  <2>1. PICK j \in DOMAIN tree :
          /\ tree[j].address = b.address
          /\ Promised(b).units \subseteq BlockPages(tree[j]) /\ BlockPages(tree[j]) \subseteq mapped
    BY HeldMapped
  <2>2. BlockPages(tree[i]) \cap BlockPages(tree[j]) = {}
    BY <1>1, <2>1 DEF IInv, Disjoint
  <2>3. Promised(new).units \subseteq PagesOf(address, Length(size))
    BY PromisedPages
  <2>4. Promised(b).address = b.address /\ Promised(new).address = address
    BY DEF Promised
  <2> QED
    BY <1>1, <2>1, <2>2, <2>3, <2>4
<1>3. Memory!Apart(Promised(new), { Promised(b) : b \in others })
  BY <1>2 DEF Memory!Apart
<1> QED
  BY <1>1, <1>3, BlockReplaced

(* The arena gives a program blocks as MemSpec promises them, whatever the *)
(* searches of the tree come to.                                           *)
THEOREM ArenaImplementsMemSpec == Spec => ImplementsMemSpec
<1>1. Init => Memory!Init
  BY DEF Init, Memory!Init
<1>2. IInv /\ [Next]_vars => [Memory!Next]_blocks
  <2> SUFFICES ASSUME IInv, [Next]_vars PROVE Memory!Next \/ UNCHANGED blocks
    OBVIOUS
  <2>1. CASE UNCHANGED held
    BY <2>1 DEF blocks, Promised
  <2>2. ASSUME NEW size \in Sizes, NEW address \in Pages, Alloc(size, address)
        PROVE  Memory!Next \/ UNCHANGED blocks
    BY <2>2, AllocPromised
  <2>3. ASSUME NEW size \in Sizes, NEW address \in Pages, NEW i \in DOMAIN tree,
               SetBlock(size, address, i)
        PROVE  Memory!Next \/ UNCHANGED blocks
    BY <2>3, SetBlockPromised
  <2>4. ASSUME NEW address \in Pages, NEW i \in DOMAIN tree, FreeMem(address, i)
        PROVE  Memory!Next \/ UNCHANGED blocks
    <3>1. held' = { c \in held : c.address # address }
      BY <2>4 DEF FreeMem
    <3> QED
      BY <3>1, BlockTaken
  <2>5. UNCHANGED vars => UNCHANGED held
    BY DEF vars
  <2>6. Nothing \/ FreeNull \/ (\E size \in Sizes : AllocFails(size)) => UNCHANGED held
    BY DEF Nothing, FreeNull, AllocFails, Fails
  <2>7. ASSUME NEW address \in Pages, NotFound(address) \/ WrongNode(address)
        PROVE  UNCHANGED held
    BY <2>7 DEF NotFound, WrongNode, Fails, Aborts
  <2>8. ASSUME NEW address \in Pages, NEW i \in DOMAIN tree,
               FreeMemRefused(address, i) \/ \E size \in Sizes : SetBlockRefused(size, address, i)
        PROVE  UNCHANGED held
    BY <2>8 DEF FreeMemRefused, SetBlockRefused, Fails
  <2> QED
    BY <2>1, <2>2, <2>3, <2>4, <2>5, <2>6, <2>7, <2>8 DEF Next
<1> QED
  BY <1>1, <1>2, Invariance, PTL DEF Spec, ImplementsMemSpec, Memory!Spec, blocks

=============================================================================
