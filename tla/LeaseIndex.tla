---------------------------- MODULE LeaseIndex -----------------------------
(***************************************************************************)
(* An ordered unique index of the memfile lease storage, for at most three *)
(* leases: the red-black tree of boost::multi_index (external), exact for  *)
(* that size.  A tree has a root and at most two children.  The index      *)
(* holds pointers: a lease whose fields change stays where it was put, and *)
(* later searches compare the new key.                                     *)
(*                                                                         *)
(* A key is a pair <<identifier, subnet id>>; key is the function from     *)
(* nodes to their present keys.                                            *)
(***************************************************************************)
EXTENDS Integers

CONSTANT NoLease

EmptyIndex == [left |-> NoLease, root |-> NoLease, right |-> NoLease]

Members(index) == {index.left, index.root, index.right} \ {NoLease}

\* boost composite keys compare the identifier first.
Less(k, l) == k[1] < l[1] \/ (k[1] = l[1] /\ k[2] < l[2])

\* The nodes a search or an insertion that turns `side' at the root visits.
Visited(index, side) == {index.root, index[side]} \ {NoLease}

\* Mutant: the search turns away from an equal key.
FindSidePast(index, key, k) ==
    IF Less(k, key[index.root]) THEN "left" ELSE "right"

FindSide(index, key, k) ==
    IF Less(key[index.root], k) THEN "right" ELSE "left"

\* ordered_index_find: the lower bound, if its key is not greater.
Find(index, key, k) ==
    LET side  == FindSide(index, key, k)
        child == index[side]
        bound == IF child # NoLease /\ ~Less(key[child], k) THEN child
                 ELSE IF side = "left" THEN index.root ELSE NoLease
    IN  IF index.root = NoLease \/ bound = NoLease \/ Less(k, key[bound])
          THEN NoLease
          ELSE bound

InsertSide(index, key, k) ==
    IF Less(k, key[index.root]) THEN "left" ELSE "right"

\* ordered_index::link_point: the node before the place reached has a smaller
\* key.
Accepts(index, key, k) ==
    LET side  == InsertSide(index, key, k)
        child == index[side]
        pred  == IF child # NoLease /\ ~Less(k, key[child]) THEN child
                 ELSE IF side = "right" THEN index.root ELSE NoLease
    IN  index.root = NoLease \/ pred = NoLease \/ Less(key[pred], k)

\* Link a new node; the third node of a path is rotated into place.
Insert(index, key, k, new) ==
    LET side  == InsertSide(index, key, k)
        child == index[side]
        low   == Less(k, key[child])
    IN  IF index.root = NoLease THEN [index EXCEPT !.root = new]
        ELSE IF child = NoLease THEN [index EXCEPT ![side] = new]
        ELSE IF side = "left"
          THEN [left |-> IF low THEN new ELSE child,
                root |-> IF low THEN child ELSE new,
                right |-> index.root]
          ELSE [left |-> index.root,
                root |-> IF low THEN new ELSE child,
                right |-> IF low THEN child ELSE new]

\* Unlink a node; a root is replaced by its right child if it has one.
Erase(index, old) ==
    IF index.left = old THEN [index EXCEPT !.left = NoLease]
    ELSE IF index.right = old THEN [index EXCEPT !.right = NoLease]
    ELSE IF index.right # NoLease
      THEN [index EXCEPT !.root = index.right, !.right = NoLease]
      ELSE [index EXCEPT !.root = index.left, !.left = NoLease]
=============================================================================
