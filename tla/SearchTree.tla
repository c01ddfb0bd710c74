----------------------------- MODULE SearchTree -----------------------------
(***************************************************************************)
(* The search trees of the C library (tsearch, tfind, tdelete), as the     *)
(* callers in libc/ use them: red-black trees whose comparison need not be *)
(* an order.  What a caller sees of a tree is the in-order sequence of its *)
(* keys and, where the comparison is not an order, which of them a search  *)
(* meets.  A tree of n nodes has here any shape with a node on either side *)
(* of its root, once n is 3: for up to three nodes these are the shapes of *)
(* red-black trees, for more they are among them.                          *)
(***************************************************************************)
EXTENDS Integers, Sequences

CONSTANT Cmp(_, _)  \* the comparison: negative, zero or positive

(* The nodes that may be the root.                                         *)
Roots(n) == IF n < 3 THEN 1..n ELSE 2..n-1

(* A search ends at a node the key compares equal to, or between two nodes *)
(* (`at' is the place of the second), having met both of them.             *)
Ends(keys, key, place) ==
  IF place.found
  THEN place.at <= Len(keys) /\ Cmp(key, keys[place.at]) = 0
  ELSE /\ place.at > 1 => Cmp(key, keys[place.at - 1]) > 0
       /\ place.at <= Len(keys) => Cmp(key, keys[place.at]) < 0

(* The root it met first leads to the place.                               *)
Leads(keys, key, root, place) ==
  IF place.at = root /\ place.found THEN TRUE
  ELSE IF place.at <= root THEN Cmp(key, keys[root]) < 0
  ELSE Cmp(key, keys[root]) > 0

(* Where the search for a key may end.                                     *)
Places(keys, key) ==
  { place \in [found : BOOLEAN, at : 1..Len(keys)+1] :
      /\ Ends(keys, key, place)
      /\ keys # <<>> => \E root \in Roots(Len(keys)) : Leads(keys, key, root, place) }

(* tdelete may find a node with both subtrees, or without one of them: the *)
(* first and the last lack one, the second of three has both.              *)
MayHaveBoth(keys, i) == i \notin {1, Len(keys)}
MayLackOne(keys, i) == i \in {1, Len(keys)} \/ Len(keys) > 3

(* Every key stands where the comparison puts it among the others.         *)
Sorted(keys) ==
  \A i, j \in DOMAIN keys : i < j => Cmp(keys[i], keys[j]) < 0 /\ Cmp(keys[j], keys[i]) > 0

=============================================================================
