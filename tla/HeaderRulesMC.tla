---------------------------- MODULE HeaderRulesMC ----------------------------
(* Rules for a generic and one or two particular hosts and nested paths.    *)
EXTENDS HeaderRules, TLC

Pieces == {<<>>, <<1>>, <<1, 1>>}
PrefixMatchers == {Matcher(h, p, FALSE) : h \in {"", "h"}, p \in Pieces}
ExactMatchers == {Matcher(h, p, TRUE) : h \in {"", "h"}, p \in Pieces \ {<<>>}}

AtMostOne(matchers) == {<<>>} \union {<<m>> : m \in matchers}
(* A rule sets something of each type an option may have: the index tells  *)
(* the rules of a configuration apart.                                     *)
Rule(include, exclude) == [include |-> include, exclude |-> exclude]
SetsOf(s, index) ==
    CASE s = 1 -> ("max-age" :> index)
      [] s = 2 -> ("script-src" :> <<index>>) @@ ("report-uri" :> index)
      [] s = 3 -> ("X-Custom" :> index) @@ ("Cache-Control" :> index)
Filled(configuration) ==
    [s \in DOMAIN configuration |-> [r \in DOMAIN configuration[s] |->
        [include |-> configuration[s][r].include,
         exclude |-> configuration[s][r].exclude, sets |-> SetsOf(s, r)]]]
Lists == {"script-src"}
RulesWith(includes, excludes) == {Rule(i, e) : i \in includes, e \in excludes}

(* Rules with prefixes, or for one exact location.                         *)
ProperRules ==
    {Rule(<<>>, <<>>)}
        \union RulesWith({<<m>> : m \in PrefixMatchers \union ExactMatchers}, AtMostOne(PrefixMatchers))
SimpleRules ==
    RulesWith({<<Fallback>>, <<Matcher("h", <<1>>, FALSE)>>, <<Matcher("", <<1>>, TRUE)>>,
               <<Matcher("", <<1>>, FALSE), Matcher("h", <<1, 1>>, FALSE)>>},
              AtMostOne({Matcher("h", <<>>, FALSE), Matcher("", <<1>>, FALSE)}))

(* One setting with two rules; a setting may have none.                    *)
OneSetting ==
    {<<<<>>, <<r, s>>, <<>>>> : r \in ProperRules, s \in SimpleRules}
        \union {<<<<s, r>>, <<>>, <<>>>> : r \in ProperRules, s \in SimpleRules}

(* Three settings, of which the first names all hosts.                     *)
Everywhere(path) ==
    Rule(<<Matcher("", path, FALSE), Matcher("h", path, FALSE)>>, <<>>)
ThreeSettings ==
    {<<<<Everywhere(p)>>, <<r>>, <<s>>>> :
        p \in {<<>>, <<1>>}, r \in ProperRules,
        s \in {rule \in SimpleRules : rule.exclude # <<Matcher("", <<1>>, FALSE)>>}}

(* A setting names a host that those before it do not name.                *)
NewHost ==
    {Filled(<<<<Rule(<<Matcher("", p, FALSE)>>, <<>>)>>,
              <<>>,
              <<Rule(<<Matcher("h", q, FALSE)>>, <<>>)>>>>) : p, q \in Pieces}

(* Any rule, in two settings.                                              *)
AnyRules ==
    RulesWith(AtMostOne(PrefixMatchers \union ExactMatchers) \union
                  {<<Matcher("", <<1>>, TRUE), Fallback>>},
              AtMostOne({Matcher("h", <<1>>, TRUE), Matcher("", <<1>>, FALSE),
                         Matcher("", <<1, 1>>, TRUE)}))
TwoSettings ==
    {<<<<r>>, <<s>>, <<>>>> :
        r \in AnyRules, s \in {rule \in AnyRules : Head(rule.exclude \o <<Fallback>>).exact}}

SomeConfigurations ==
    {Filled(c) : c \in OneSetting \union ThreeSettings \union TwoSettings}

Hosts == {"", "h", "k"}
Keys == {<<>>, <<1>>, <<2>>, <<1, 1>>, <<1, 2>>, <<1, 1, 1>>}
=============================================================================
