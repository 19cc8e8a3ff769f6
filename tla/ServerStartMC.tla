---------------------------- MODULE ServerStartMC ----------------------------
(* Small configuration files that meet in every kind of setting.            *)
EXTENDS ServerStart

S(x) == [scalar |-> x]
L(x) == [list |-> x]
M(x) == [map |-> x]
CertKey(c, k) == M([cert_path |-> S(c), key_path |-> S(k)])

Main1 == M(
    [listen |-> S("[::]:80"),
     index_file |-> S("one"),
     auth_credentials |-> M([ann |-> S("h1")]),
     threads |-> S("2"),
     tls |-> M([cert_path |-> S("main.pem"), key_path |-> S("main.key"),
                server_names |-> M(<<"x", "y">> :> CertKey("xy.pem", "xy.key"))]),
     vhosts |-> M(<<"host">> :> M(
        [index_file |-> S("i1"),
         subpaths |-> M("/s" :> M([strip_prefix |-> S("true")]))]))])

Main2 == M(
    [listen |-> L(<<M([addr |-> S("[::]:443"), tls |-> S("true"), ipv6_only |-> S("false")]), S("[::]:81")>>),
     index_file |-> L(<<S("two"), S("three")>>),
     auth_credentials |-> M([ann |-> S("h2"), bob |-> S("h3")]),
     response_headers |-> M(
        [custom |-> M("X-Me" :> S("1") @@ "include" :> S("/a")),
         cache_control |-> L(<<M("max-age" :> S("9"))>>)]),
     tls |-> M([redirector |-> M(
                  [listen |-> S("[::]:82"), redirect_to |-> S("main"),
                   redirect_by_name |-> M(<<"x">> :> S("tox") @@ <<"x", "y">> :> S("toxy"))]),
                server_names |-> M(<<"y">> :> CertKey("y.pem", "y.key"))]),
     vhosts |-> M(
        <<"host">> :> M([index_file |-> L(<<S("i2")>>), default |-> S("true"),
                         subpaths |-> M("/s" :> M([index_file |-> S("i3")]))])
        @@ <<"host", "other">> :> M([index_file |-> S("i4")]))])

(* Later ones: the redirector without a target, a certificate nobody has,  *)
(* and fields and values there are not.                                    *)
NoTarget == M([tls |-> M([redirector |-> M([redirect_to |-> S("")])]), threads |-> S("3")])
NoKey == M([tls |-> M([server_names |-> M(<<"z">> :> M([cert_path |-> S("xy.pem")]))]),
            listen |-> M([addr |-> S("[::]:444"), tls |-> S("true")])])
UnknownField == M([aliases |-> S("host"), threads |-> S("1")])
BadValue == M([listen |-> M([tls |-> S("true")]), canonicalize_uri |-> S("false")])

NoOptions ==
    [listen |-> None, test |-> FALSE, anonymization |-> <<>>, compression |-> <<>>, auth |-> <<>>,
     credentials |-> <<>>, staticFiles |-> <<>>]
SomeOptions == {
    NoOptions,
    [NoOptions EXCEPT !.listen = <<AddressFrom("[::]:90")>>, !.test = FALSE,
        !.anonymization = [anonymization_enabled |-> "true"],
        !.auth = [auth_realm |-> "mine"], !.compression = [compression_level_gzip |-> "3"],
        !.credentials = <<[user |-> "ann", hash |-> "h4"], [user |-> "", hash |-> "h5"],
                          [user |-> "ann", hash |-> "h6"]>>,
        !.staticFiles = [index_file |-> <<"given">>, root |-> "directory"]],
    [NoOptions EXCEPT !.staticFiles = [root |-> "nowhere"]],
    [NoOptions EXCEPT !.test = TRUE]}

On(a, b) == (1 :> a) @@ (2 :> b)
SomeStarts ==
    {[patterns |-> <<{2, 3}, {1}, Invalid>>, disk |-> On(Main1, Main2)],
     [patterns |-> <<{2}, {1, 2}>>, disk |-> On(Main1, Main2)],
     [patterns |-> <<{1, 2, 3}>>, disk |-> (3 :> NoKey) @@ On(Main2, Main1)],
     [patterns |-> <<{1, 2}>>, disk |-> On(Main1, UnknownField)],
     [patterns |-> <<{1, 2}>>, disk |-> On(NoTarget, BadValue)],
     [patterns |-> <<>>, disk |-> <<>>]}
SomeDocuments == {NoTarget, UnknownField, Broken}
SomeContents ==
    [p \in {"main.pem", "xy.pem", "y.pem"} |-> "chain"] @@ [p \in {"main.key", "xy.key", "y.key"} |-> "key"]
SomeRequests ==
    {[host |-> <<"x">>, uriHost |-> None], [host |-> <<"y", "82">>, uriHost |-> "x"],
     [host |-> None, uriHost |-> "x"], [host |-> None, uriHost |-> None],
     [host |-> <<"z", "82">>, uriHost |-> None]}
=============================================================================
