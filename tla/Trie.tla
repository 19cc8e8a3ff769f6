--------------------------------- MODULE Trie ---------------------------------
(***************************************************************************)
(* The trie behind the router: a builder tree that labels are pushed to,   *)
(* its translation into the vectors nodes, labels and values, and the      *)
(* lookup in these vectors, each a step of its loop or recursion at a time.*)
(*                                                                         *)
(* A label is a sequence of segments, a segment a byte.  A node of the     *)
(* builder tree is named by its path from the root, its label is what that *)
(* path adds to its parent's.                                              *)
(***************************************************************************)
EXTENDS Paths

CONSTANTS
    Keys,       \* labels pushed and looked up
    Values,     \* their values
    MaxPushes   \* bound: calls of push

ASSUME KeysAssumption == Keys \subseteq Seq(Nat)
ASSUME NoneAssumption == None \notin Values \union Nat \union Keys
ASSUME BoundAssumption == MaxPushes \in Nat

VARIABLES
    op,        \* what is being done
    pushes,    \* calls of push so far
    tree,      \* BuilderNodes: path to [exact, prefix]
    count,     \* TrieBuilder.nodes
    size,      \* TrieBuilder.labels
    label,     \* argument of push or lookup
    pair,      \* the other arguments of push
    cur,       \* find_insertion_point: current
    nodes,     \* Trie.nodes, each with its label
    values,    \* Trie.values
    todo,      \* into_trie_node: calls still to be made
    at,        \* lookup: index of current
    rest,      \* lookup: segments not yet matched
    best,      \* lookup: result_prefix
    answer     \* key and value of the last lookup

builder == <<pushes, tree, count, size>>
trie == <<nodes, values>>
search == <<at, rest, best>>
vars == <<op, label, pair, cur, todo, answer, builder, trie, search>>

Rule == [exact : Values \union {None}, prefix : Values \union {None}]
NoRule == [exact |-> None, prefix |-> None]

(* Bytes of a label: its segments and the separators between them.         *)
Size(s) == IF s = <<>> THEN 0 ELSE 2 * Len(s) - 1
From(n, s) == SubSeq(s, n + 1, Len(s))

NewNode == [label |-> <<>>, exact |-> None, prefix |-> None, children |-> {}]

Init ==
    /\ op = "idle" /\ pushes = 0
    /\ tree = [p \in {<<>>} |-> NoRule] /\ count = 1 /\ size = 0
    /\ label = <<>> /\ pair = NoRule /\ cur = <<>>
    /\ nodes = <<>> /\ values = <<>> /\ todo = <<>>
    /\ at = 1 /\ rest = <<>> /\ best = None /\ answer = None

(* The tree with a node added or its values replaced.                      *)
WithRule(path, rule) ==
    [p \in DOMAIN tree \union {path} |-> IF p = path THEN rule ELSE tree[p]]

Below(p) == {n \in DOMAIN tree : IsStrictPrefix(p, n)}
Children(p) == {n \in Below(p) : \A m \in Below(p) : ~IsStrictPrefix(m, n)}

-----------------------------------------------------------------------------
(* TrieBuilder::push with find_insertion_point                             *)

Push(key, rule) ==
    /\ op = "idle" /\ pushes < MaxPushes
    /\ op' = "push" /\ pushes' = pushes + 1
    /\ label' = key /\ pair' = rule /\ cur' = <<>>
    /\ UNCHANGED <<tree, count, size, todo, answer, trie, rest, at, best>>

(* The path that both labels lead to.                                      *)
Common(node) == CommonPath(node, label)

(* The child of the current node that has a first segment in common with   *)
(* what is left of the label.                                              *)
Match(node) == node \in Children(cur) /\ Len(Common(node)) > Len(cur)

Descend ==
    /\ op = "push"
    /\ \E node \in DOMAIN tree : Match(node) /\ Common(node) = node /\ cur' = node
    /\ UNCHANGED <<op, builder, label, pair, todo, answer, trie, search>>

(* Mutant: the tail of the label is still counted with its separator.      *)
SplitKeepsSize ==
    /\ op = "push"
    /\ \E node \in DOMAIN tree :
        /\ Match(node) /\ Common(node) # node
        /\ tree' = WithRule(Common(node), NoRule)
        /\ cur' = Common(node)
    /\ count' = count + 1
    /\ UNCHANGED <<op, pushes, size, label, pair, todo, answer, trie, search>>

(* Mutant: splits after the first segment.                                 *)
SplitFirst ==
    /\ op = "push"
    /\ \E node \in DOMAIN tree :
        /\ Match(node) /\ Common(node) # node
        /\ cur' = SubSeq(node, 1, Len(cur) + 1)
    /\ tree' = WithRule(cur', NoRule)
    /\ count' = count + 1 /\ size' = size - 1
    /\ UNCHANGED <<op, pushes, label, pair, todo, answer, trie, search>>

(* A partial match becomes a node of its own: one separator less.          *)
Split ==
    /\ op = "push"
    /\ \E node \in DOMAIN tree :
        /\ Match(node) /\ Common(node) # node
        /\ tree' = WithRule(Common(node), NoRule)
        /\ cur' = Common(node)
    /\ count' = count + 1 /\ size' = size - 1
    /\ UNCHANGED <<op, pushes, label, pair, todo, answer, trie, search>>

Store ==
    /\ op = "push" /\ \A node \in DOMAIN tree : ~Match(node)
    /\ tree' = WithRule(label, pair)
    /\ IF label = cur THEN UNCHANGED <<count, size>>
       ELSE count' = count + 1 /\ size' = size + Size(From(Len(cur), label))
    /\ op' = "idle" /\ label' = <<>> /\ pair' = NoRule /\ cur' = <<>>
    /\ UNCHANGED <<pushes, todo, answer, trie, search>>

-----------------------------------------------------------------------------
(* TrieBuilder::build with into_trie_node                                  *)

Build ==
    /\ op = "idle" /\ op' = "build"
    /\ nodes' = <<NewNode>>
    /\ todo' = <<[path |-> <<>>, label |-> <<>>, index |-> 1]>>
    /\ UNCHANGED <<builder, label, pair, cur, values, answer, search>>

(* add_value: an equal value is stored once.                               *)
AddValue(v, vs) == IF v = None \/ v \in Range(vs) THEN vs ELSE Append(vs, v)
IndexOf(v, vs) == IF v = None THEN None ELSE CHOOSE i \in DOMAIN vs : vs[i] = v

(* The children of a node, in the order of their labels.                   *)
SortedChildren(p) ==
    {s \in [1 .. Cardinality(Children(p)) -> Children(p)] :
        /\ Range(s) = Children(p)
        /\ \A i, j \in DOMAIN s : i < j => s[i][Len(p) + 1] < s[j][Len(p) + 1]}

(* The node's data, then room for all of its children, then the children.  *)
Transfer ==
    /\ op = "build" /\ todo # <<>>
    /\ LET call == Head(todo)
           rule == tree[call.path]
       IN  /\ values' = AddValue(rule.prefix, AddValue(rule.exact, values))
           /\ \E kids \in SortedChildren(call.path) :
                /\ nodes' = [nodes EXCEPT ![call.index] =
                       [label |-> call.label,
                        exact |-> IndexOf(rule.exact, values'),
                        prefix |-> IndexOf(rule.prefix, values'),
                        children |-> Len(nodes) + 1 .. Len(nodes) + Len(kids)]]
                      \o [i \in DOMAIN kids |-> NewNode]
                /\ todo' = [i \in DOMAIN kids |->
                       [path |-> kids[i], index |-> Len(nodes) + i,
                        label |-> From(Len(call.path), kids[i])]] \o Tail(todo)
    /\ UNCHANGED <<op, builder, label, pair, cur, answer, search>>

Built ==
    /\ op = "build" /\ todo = <<>>
    /\ op' = "ready"
    /\ UNCHANGED <<builder, label, pair, cur, todo, answer, trie, search>>

-----------------------------------------------------------------------------
(* Trie::lookup                                                            *)

(* Mutant: only the last node counts.                                      *)
PrefixHere(i, before) == nodes[i].prefix

(* result_prefix at a node: kept unless the node has a value of its own.   *)
PrefixAt(i, before) == IF nodes[i].prefix = None THEN before ELSE nodes[i].prefix

ValueAt(i) == IF i = None THEN None ELSE values[i]
Answer(i) ==
    /\ answer' = [key |-> label, value |-> ValueAt(i)]
    /\ op' = "ready"
    /\ label' = <<>> /\ at' = 1 /\ rest' = <<>> /\ best' = None
    /\ UNCHANGED <<builder, pair, cur, todo, trie>>

Lookup(key) ==
    /\ op = "ready" /\ op' = "lookup"
    /\ label' = key /\ answer' = None
    /\ at' = 1 /\ rest' = key /\ best' = PrefixAt(1, None)
    /\ UNCHANGED <<builder, pair, cur, todo, trie>>

(* The first child whose label starts with the next segment: the only one  *)
(* that is looked at further.                                              *)
Candidates == {c \in nodes[at].children : rest # <<>> /\ nodes[c].label[1] = rest[1]}
Candidate(c) == c \in Candidates /\ \A d \in Candidates : c <= d

EnterChild ==
    /\ op = "lookup"
    /\ \E c \in nodes[at].children :
        /\ Candidate(c) /\ IsPrefix(nodes[c].label, rest)
        /\ at' = c
        /\ rest' = From(Len(nodes[c].label), rest)
        /\ best' = PrefixAt(c, best)
    /\ UNCHANGED <<op, builder, label, pair, cur, todo, answer, trie>>

EndOfLabel ==
    /\ op = "lookup" /\ rest = <<>>
    /\ Answer(IF nodes[at].exact = None THEN best ELSE nodes[at].exact)

(* No child, or only a part of its label, or the label is a part of it.    *)
NoMatch ==
    /\ op = "lookup" /\ rest # <<>>
    /\ \A c \in nodes[at].children : Candidate(c) => ~IsPrefix(nodes[c].label, rest)
    /\ Answer(best)

-----------------------------------------------------------------------------
Next ==
    \/ \E key \in Keys, e \in Values, p \in Values \union {None} :
           Push(key, [exact |-> e, prefix |-> p])
    \/ Descend \/ Split \/ Store
    \/ Build \/ Transfer \/ Built
    \/ \E key \in Keys : Lookup(key)
    \/ EnterChild \/ EndOfLabel \/ NoMatch

Spec == Init /\ [][Next]_vars

-----------------------------------------------------------------------------
(* Properties                                                              *)

(* The assertions in build(): the builder's count of nodes and of label    *)
(* bytes is what the translation produces, through every split.            *)
Bytes ==
    LET sum[n \in 0 .. Len(nodes)] ==
            IF n = 0 THEN 0 ELSE sum[n - 1] + Size(nodes[n].label)
    IN  sum[Len(nodes)]
CountersExact ==
    op = "build" /\ todo = <<>> => Len(nodes) = count /\ Bytes = size

(* The nodes depend on the set of the labels pushed only, not on their     *)
(* order: the labels and the points where two of them part.  The router    *)
(* pushes hosts in the random order of a hash map, and handlers with equal *)
(* configurations compare equal.                                           *)
Pushed == {p \in DOMAIN tree : tree[p].exact # None}
NodesCanonical ==
    op # "push" =>
        DOMAIN tree = {<<>>} \union {CommonPath(p, q) : p, q \in Pushed}

(* Builder, vectors and lookup together are a routing table.               *)
Table == INSTANCE RouteTable
    WITH table <- [p \in Pushed |-> tree[p]], open <- op \in {"idle", "push"},
         asked <- IF op = "lookup" THEN label ELSE None
IsRouteTable == Table!Spec
=============================================================================
