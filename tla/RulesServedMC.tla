---------------------------- MODULE RulesServedMC ----------------------------
(* Header rules with a rewrite rule or two, rewrite rules with one header   *)
(* rule.                                                                    *)
EXTENDS RulesServed, HeaderRulesMC

RewriteRule(p, e, r) ==
    [path |-> p, exact |-> e, restricted |-> r,
     type |-> IF e THEN "redirect" ELSE "internal",
     to |-> <<Empty, 3>>, tail |-> ~e]

RewritePaths == {<<>>, <<1>>, <<1, 2>>}
SomeRewrites == {RewriteRule(p, e, r) : p \in RewritePaths, e \in BOOLEAN, r \in BOOLEAN}
(* The third one is for all requests that the others leave.                *)
ThreeRewrites ==
    {<<r, s, RewriteRule(<<>>, FALSE, FALSE)>> : r \in SomeRewrites, s \in SomeRewrites}
OneRedirect == <<RewriteRule(<<1>>, TRUE, FALSE)>>

OneHeader == Filled(<<<<Rule(<<Matcher("", <<1>>, FALSE)>>, <<>>)>>, <<>>, <<>>>>)

SomeSetups ==
    {<<c, OneRedirect>> : c \in SomeConfigurations}
        \union {<<OneHeader, r>> : r \in ThreeRewrites}
HeaderSetups == {setup[1] : setup \in SomeSetups}
RewriteSetups == {setup[2] : setup \in SomeSetups}

SomePaths == {<<Empty, Empty>>, <<Empty, 1>>, <<Empty, 1, Empty>>,
              <<Empty, Empty, 1, Empty, 2>>, <<Empty, 1, 1, 1>>, <<Empty, 2>>}

(* A file with a Cache-Control header of its own.                          *)
FileHeaders == {("Cache-Control" :> <<"own" :> 0>>) @@ ("Last-Modified" :> <<"own" :> 0>>)}
=============================================================================
