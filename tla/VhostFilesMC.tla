----------------------------- MODULE VhostFilesMC -----------------------------
(* Two virtual hosts, one of them with some rules for nested paths, and two *)
(* small directories, one below the root of the server and one elsewhere.   *)
EXTENDS VhostFiles, TLC

CONSTANTS one, two  \* entries of the configuration

a == 1
b == 2
ab == 3
index == 4
start == 5
private == 6
encoded == 11   \* decodes to b
spaced == 7     \* a name that is encoded as
escaped == 17
up == 18
here == 19
queried == 8    \* a name with a "?" in it, where clients cut it
escapedQuery == 9
both == 12      \* decodes to a/b
elsewhere == 13 \* decodes to the path of files/b
inside == 14    \* decodes to the path of www/a

RulePaths == {<<>>, <<a>>, <<a, b>>}
SomeRules == [path : RulePaths, exact : BOOLEAN]
AllSubpaths == UNION {[rules -> BOOLEAN] : rules \in SUBSET SomeRules}
OneSubpath == [rule \in {[path |-> <<b>>, exact |-> FALSE]} |-> TRUE]

NestedSubpaths ==
    [rule \in {[path |-> <<a>>, exact |-> FALSE], [path |-> <<a, b>>, exact |-> TRUE]} |-> TRUE]

Entry(ns, d, s) == [names |-> ns, default |-> d, subpaths |-> s]

(* Every host has one entry and at most one entry is the default, or both  *)
(* entries name the same host and are the default.                         *)
SomeConfigurations ==
    {(one :> Entry({"h", "alias"}, d = one, s)) @@
     (two :> Entry({"other", ""}, d = two, OneSubpath)) :
        d \in {one, None}, s \in AllSubpaths}
        \union
    {(one :> Entry({"h"}, FALSE, OneSubpath)) @@ (two :> Entry({"other"}, TRUE, s)) :
        s \in {t \in AllSubpaths : Cardinality(DOMAIN t) <= 2}}
        \union
    {(one :> Entry({"h"}, TRUE, s)) @@ (two :> Entry({"h", "other"}, TRUE, t)) :
        s \in {u \in AllSubpaths : Cardinality(DOMAIN u) = 2}, t \in {OneSubpath, NestedSubpaths}}

Hosts == {"h", "other", "unknown", ""}
SomePaths == {<<Empty, Empty>>, <<Empty, a>>, <<Empty, a, Empty>>,
              <<Empty, Empty, a, Empty, Empty, encoded>>, <<Empty, both>>,
              <<Empty, a, b, ab, Empty>>, <<Empty, b, escaped>>, <<Empty, b, private, a>>,
              <<Empty, a, spaced>>, <<Empty, a, here, start, Empty>>,
              <<Empty, a, elsewhere, start>>, <<Empty, b, inside, b>>,
              <<Empty, a, b, ab, Empty, index>>, <<Empty, a, up, up, ab>>,
              <<Empty, a, escapedQuery>>, <<Empty, b, a, Empty>>}

(* www/ holds a/ with index files in b/, a locked directory and a file; a  *)
(* link leads from www/a/ab to a directory of the other root, and one of   *)
(* the index files there is a link, too.                                   *)
www == 20
files == 21
SomeKinds ==
    [p \in {<<>>, <<www>>, <<www, a>>, <<www, a, b>>, <<files>>, <<files, b>>, <<files, a>>} |-> "dir"]
    @@ [p \in {<<www, a, b, index>>, <<www, a, b, start>>, <<www, a, start>>, <<files, spaced>>,
               <<www, a, spaced>>, <<www, a, queried>>, <<files, b, start>>, <<www, index>>, <<www, a, b, ab>>} |-> "file"]
    @@ (<<files, private>> :> "locked") @@ (<<files, index>> :> "other")
SomeLinks == (<<www, a, ab>> :> <<files, b>>) @@ (<<files, ab>> :> <<files, b>>)
                 @@ (<<www, b>> :> <<www, a>>) @@ (<<files, a, start>> :> <<www, index>>)
SomeNames ==
    (encoded :> <<b>>) @@ (escaped :> <<spaced>>) @@ (up :> <<DotDot>>) @@ (here :> <<Dot>>)
        @@ (escapedQuery :> <<queried>>) @@ (both :> <<a, b>>)
        @@ (elsewhere :> <<Empty, files, b>>) @@ (inside :> <<Empty, www, a>>)
SomeCuts == queried :> a
SomeEncoded == spaced :> escaped
SomeIndex == <<start, index>>
NotFound == <<Empty, index>>
Www == <<www>>
Files == <<files>>
=============================================================================
