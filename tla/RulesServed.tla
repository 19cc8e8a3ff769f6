----------------------------- MODULE RulesServed -----------------------------
(***************************************************************************)
(* The header rules and the rewrite rules of a server together.  Their     *)
(* handlers are created in the order of the server's list of handlers, the *)
(* headers before the rewriting, and called in this order for a request:   *)
(* headers go by the path that was requested, and a redirect has them too. *)
(* The request is then answered by whatever follows, and the response      *)
(* passes the header filter on its way to the client.                      *)
(***************************************************************************)
EXTENDS HeaderRules

CONSTANTS
    Setups,                 \* pairs of header rules and rewrite rules
    RewriteConfigurations,  \* the rewrite rules of these
    RequestPaths,           \* split paths of requests
    OwnHeaders              \* headers of the responses of later handlers

VARIABLES
    rewrites, todo, hosts, rewriteRouter,      \* RewriteRules
    path, matching, list, applied, target, outcome,
    own,       \* headers of the response before the header filter
    answer     \* its headers afterwards, None before there is a response

ASSUME RequestPathsAssumption == RequestPaths \subseteq AbsolutePaths

(* A rule's path has no empty segments (router::Path).                     *)
RewriteRuleType ==
    [path : Seq(Nat \ {Empty}), exact : BOOLEAN, restricted : BOOLEAN,
     type : {"internal", "redirect", "permanent"}, to : Seq(Nat), tail : BOOLEAN]
ASSUME RewriteRulesAssumption == RewriteConfigurations \subseteq Seq(RewriteRuleType)

R == INSTANCE RewriteRules WITH conf <- rewrites, router <- rewriteRouter,
                                Configurations <- RewriteConfigurations

rewriting == <<rewrites, todo, hosts, rewriteRouter, path, matching, list, applied,
               target, outcome>>
response == <<own, answer>>
servedVars == <<vars, rewriting, response>>

ServedInit ==
    /\ \E setup \in Setups : conf = setup[1] /\ rewrites = setup[2]
    /\ Init /\ R!Init
    /\ own = Nothing /\ answer = None

CreateHeaders ==
    /\ \/ PushRule \/ FinishSetting \/ TakeMerger
       \/ AlignOther \/ TurnAround \/ AlignSelf \/ Combine \/ BuildRouter
    /\ UNCHANGED <<rewriting, response>>

CreateRewrite ==
    /\ router # None
    /\ R!SortRules \/ R!PushRule \/ R!BuildRouter
    /\ UNCHANGED <<vars, response>>

(* The headers handler does its part, the rewrite handler looks its rules  *)
(* up.                                                                     *)
FilterRequest(host, p, ms) ==
    /\ request = None \/ answer # None \/ outcome = "failed"
    /\ RequestFilter(host, R!Segments(p))
    /\ R!RequestFilter(p, ms)
    /\ own' = Nothing /\ answer' = None

Rewrite ==
    /\ R!NoRule \/ R!SkipRule \/ R!ApplyRule
    /\ UNCHANGED <<vars, response>>

(* redirect_response, or the response of a later handler.                  *)
Respond(headersOfIt) ==
    /\ outcome \notin {None, "failed"} /\ answer = None
    /\ own' = IF outcome = "redirected" THEN [name \in {"Location"} |-> <<target>>] ELSE headersOfIt
    /\ answer' = ResponseHeaders(own')
    /\ UNCHANGED <<vars, rewriting>>

ServedNext ==
    \/ CreateHeaders \/ CreateRewrite \/ Rewrite
    \/ \E host \in RequestHosts, p \in RequestPaths, ms \in R!Matchings :
           FilterRequest(host, p, ms)
    \/ \E headersOfIt \in OwnHeaders : Respond(headersOfIt)

ServedSpec == ServedInit /\ [][ServedNext]_servedVars

-----------------------------------------------------------------------------
(* Properties                                                              *)

(* The most specific rewrite rule that matches is applied to a request,    *)
(* and its tail is what the rule's path leaves of the requested one.       *)
RewrittenAsDocumented == R!PrecedenceKept /\ R!TailBelowRule

(* The rules of a setting that apply and set something for this header.    *)
Setting(s, name) ==
    {n \in Documented(request) :
        n[1] = s /\ \E o \in DOMAIN RuleOf(n).sets : HeaderFor(s, o) = name}

(* Options of these rules for this header.                                 *)
OptionsOf(numbers, name) ==
    UNION {{o \in DOMAIN RuleOf(n).sets : HeaderFor(n[1], o) = name} : n \in numbers}

(* What is sent for an option: the value of the most specific rule that    *)
(* sets it, or the values of all these rules.                              *)
ValueAsDocumented(value, option, numbers) ==
    LET setters == {n \in numbers : option \in DOMAIN RuleOf(n).sets}
        Value(n) == RuleOf(n).sets[option]
    IN  IF option \in ListOptions
        THEN Range(value) = UNION {Range(Value(n)) : n \in setters}
        ELSE \E n \in setters :
                /\ value = Value(n)
                /\ \A m \in setters : ~MoreSpecific(Specificity(m), Specificity(n))

LineAsDocumented(line, name) ==
    LET settings == {s \in DOMAIN conf : Setting(s, name) # {}}
    IN  /\ Len(line) = Cardinality(settings)
        /\ \A s \in settings : \E i \in DOMAIN line :
            /\ DOMAIN line[i] = OptionsOf(Setting(s, name), name)
            /\ \A o \in DOMAIN line[i] :
                   ValueAsDocumented(line[i][o], o, Setting(s, name))

(* A response, a redirect included, has its own headers except those that  *)
(* some rule for the requested path sets: these have one part for each     *)
(* setting with such a rule, of which the more specific rules prevail.     *)
AnsweredAsDocumented ==
    HostsKnown /\ Regular /\ answer # None =>
        LET named == UNION {{HeaderFor(n[1], o) : o \in DOMAIN RuleOf(n).sets} :
                               n \in Documented(request)}
        IN  /\ DOMAIN answer = named \union DOMAIN own
            /\ \A name \in named : LineAsDocumented(answer[name], name)
            /\ \A name \in DOMAIN own \ named : answer[name] = own[name]
=============================================================================
