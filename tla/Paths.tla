-------------------------------- MODULE Paths --------------------------------
(***************************************************************************)
(* Paths as the router sees them.  A path as configured (router::Path) is  *)
(* a sequence of segments; a path as requested is split at each separator  *)
(* and may have empty segments: "//a/" is <<Empty, Empty, a, Empty>>.      *)
(* Segments are numbers, which stand for byte strings and their order.     *)
(***************************************************************************)
EXTENDS Lists

(* None is not a path.                                                     *)
ASSUME NonePathAssumption == None \notin Seq(Nat)

Empty == 0

(* Paths of requests: they begin with a separator.  A target like "*" is   *)
(* left out.                                                               *)
AbsolutePaths == {p \in Seq(Nat) : Len(p) > 1 /\ Head(p) = Empty}

(* make_key: empty segments do not count.                                  *)
Segments(path) ==
    LET kept[n \in 0 .. Len(path)] ==
            IF n = 0 THEN <<>>
            ELSE IF path[n] = Empty THEN kept[n - 1] ELSE Append(kept[n - 1], path[n])
    IN  kept[Len(path)]

(* common_prefix_length, as the path that both have in common.             *)
CommonPath(p, q) ==
    LET common == {n \in 0 .. Len(p) : n <= Len(q) /\ SubSeq(p, 1, n) = SubSeq(q, 1, n)}
    IN  SubSeq(p, 1, CHOOSE n \in common : \A m \in common : m <= n)

(* Path::is_prefix_of                                                      *)
IsPrefix(path, below) ==
    Len(path) <= Len(below) /\ SubSeq(below, 1, Len(path)) = path
IsStrictPrefix(path, below) == IsPrefix(path, below) /\ path # below

(* The order of byte strings: a path stands before the paths below it.     *)
PathBefore(p, q) ==
    \/ IsStrictPrefix(p, q)
    \/ \E i \in DOMAIN p \intersect DOMAIN q :
           p[i] < q[i] /\ \A j \in 1 .. i - 1 : p[j] = q[j]

(* The closest of some paths that all are prefixes of the same path.       *)
Closest(above) == CHOOSE p \in above : \A q \in above : IsPrefix(q, p)

(* A path without the separators it starts with.                           *)
SkipSeparators(path) ==
    LET start == CHOOSE i \in DOMAIN path :
                    /\ path[i] # Empty \/ i = Len(path)
                    /\ \A j \in 1 .. i - 1 : path[j] = Empty
    IN  SubSeq(path, start, Len(path))

(* Mutant: the prefix is cut off the path without further separators only. *)
RemoveSegmentExactly(path, segment) ==
    IF path # None /\ Len(path) > 1 /\ path[2] = segment
    THEN <<Empty>> \o SubSeq(path, 3, Len(path)) ELSE None

(* One segment of the prefix taken off; what is left begins with its       *)
(* separator, if it has one.                                               *)
RemoveSegment(path, segment) ==
    IF path # None /\ Head(SkipSeparators(path)) = segment
    THEN <<Empty>> \o Tail(SkipSeparators(path)) ELSE None

(* Path::remove_prefix_from: None for an empty prefix, "/" if nothing is   *)
(* left.                                                                   *)
RemovePrefix(prefix, path) ==
    LET left[n \in 0 .. Len(prefix)] ==
            IF n = 0 THEN path ELSE RemoveSegment(left[n - 1], prefix[n])
        rest == left[Len(prefix)]
    IN  IF prefix = <<>> THEN None
        ELSE IF rest = <<Empty>> THEN <<Empty, Empty>> ELSE rest
=============================================================================
