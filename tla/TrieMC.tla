-------------------------------- MODULE TrieMC --------------------------------
(* Labels that share no, one and two segments, and prefixes of each other.  *)
EXTENDS Trie

CONSTANTS v, w

Labels == {<<>>, <<1>>, <<1, 1>>, <<1, 2>>, <<1, 2, 1>>, <<1, 2, 2>>, <<2>>}
=============================================================================
