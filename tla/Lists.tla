-------------------------------- MODULE Lists --------------------------------
(***************************************************************************)
(* What iterators do with lists: filter, flat_map and sort.  Recursive     *)
(* functions take the place of the community modules' folds, so that the   *)
(* proofs can reason about them.  An Option is a value or None.            *)
(***************************************************************************)
EXTENDS Integers, Sequences, FiniteSets, Functions

CONSTANT None

(* The elements of a list that are in a set.                               *)
Selected(list, chosen) ==
    LET kept[n \in 0 .. Len(list)] ==
            IF n = 0 THEN <<>>
            ELSE IF list[n] \in chosen THEN Append(kept[n - 1], list[n]) ELSE kept[n - 1]
    IN  kept[Len(list)]

(* Lists one after the other.                                              *)
Flatten(lists) ==
    LET flat[n \in 0 .. Len(lists)] ==
            IF n = 0 THEN <<>> ELSE flat[n - 1] \o lists[n]
    IN  flat[Len(lists)]

(* One step of a stable sort: before what it is less than.                 *)
Insertion(list, e, Less) ==
    LET after == {x \in Range(list) : <<e, x>> \in Less}
    IN  Selected(list, Range(list) \ after) \o <<e>> \o Selected(list, after)

(* Sorted by a relation, what is equal in the order of the list.           *)
StableSort(list, Less) ==
    LET sorted[n \in 0 .. Len(list)] ==
            IF n = 0 THEN <<>> ELSE Insertion(sorted[n - 1], list[n], Less)
    IN  sorted[Len(list)]
=============================================================================
