----------------------------- MODULE ServerStart -----------------------------
(***************************************************************************)
(* The server binary from its command line to the running server: the      *)
(* configuration files are merged (ConfigFiles), the options are applied,  *)
(* the handlers are created and the server is set up (Startup).  The build *)
(* has no log and the other handlers with options at the top level, and    *)
(* static files per virtual host as well.                                  *)
(***************************************************************************)
EXTENDS ConfigFiles, Startup

CONSTANTS
    Starts,        \* patterns of --conf and files there are
    Directories    \* directories that can be the root of static files

vars == <<configVars, startupVars>>

-----------------------------------------------------------------------------
(* The configuration of the build                                          *)

Text(default) == Value(default, STRING)
Flag(default) == Value(default, {"true", "false"})

CertKeyConf == Plain([cert_path |-> Text("none"), key_path |-> Text("none")])
TlsRedirectorConf ==
    Plain([listen |-> ListOf(Address), redirect_to |-> Text(""),
           redirect_by_name |-> MapTo(Text(""))])
TlsConf ==
    Struct([server_names |-> "server_names", redirector |-> "redirector"],
           [server_names |-> EntriesOf(CertKeyConf), redirector |-> TlsRedirectorConf],
           <<"default">>, [default |-> CertKeyConf])
ServerConf == Plain([daemon |-> Flag("false"), threads |-> Value("1", {"1", "2", "3"})])
StartupConf ==
    Struct([listen |-> "listen", tls |-> "tls"], [listen |-> ListOf(Address), tls |-> TlsConf],
           <<"server">>, [server |-> ServerConf])

(* Of the settings of a module, those that differ in type.                 *)
AnonymizationConf == Plain([anonymization_enabled |-> Flag("false")])
CompressionConf ==
    Plain([compression_level_gzip |-> Value("none", {"1", "2", "3"}),
           decompress_upstream |-> Flag("false")])
AuthConf == Plain([auth_credentials |-> MapTo(Text("")), auth_realm |-> Text("Server authentication")])
StaticFilesConf ==
    Plain([root |-> Text("none"), canonicalize_uri |-> Flag("true"),
           index_file |-> ListOf(Text(""))])

(* WithMatchRules: the rules come before what takes any field.             *)
MatchRules == Plain([include |-> ListOf(Text("")), exclude |-> ListOf(Text(""))])
CacheControlConf == Struct("max-age" :> "max_age", [max_age |-> Text("none")], <<>>, <<>>)
WithMatchRules(s) == Flattened(<<"match_rules", "conf">>, [match_rules |-> MatchRules, conf |-> s])
HeadersConf ==
    Plain([response_headers |->
        Plain([cache_control |-> ListOf(WithMatchRules(CacheControlConf)),
               custom |-> ListOf(WithMatchRules(
                   Headers("X-Me" :> "x-me" @@ "Server" :> "server")))])])

SubPathConf ==
    Struct([strip_prefix |-> "strip_prefix"], [strip_prefix |-> Flag("false")],
           <<"config">>, [config |-> StaticFilesConf])
VirtualHostConf ==
    Struct([default |-> "default", subpaths |-> "subpaths"],
           [default |-> Flag("false"), subpaths |-> EntriesOf(SubPathConf)],
           <<"config">>, [config |-> StaticFilesConf])
VirtualHostsConf == Plain([vhosts |-> EntriesOf(VirtualHostConf)])

HandlerConf ==
    Flattened(<<"anonymization", "compression", "headers", "auth", "static_files", "virtual_hosts">>,
              [anonymization |-> AnonymizationConf, compression |-> CompressionConf,
               headers |-> HeadersConf, auth |-> AuthConf, static_files |-> StaticFilesConf,
               virtual_hosts |-> VirtualHostsConf])
Conf == Flattened(<<"startup", "handler">>, [startup |-> StartupConf, handler |-> HandlerConf])

-----------------------------------------------------------------------------
(* Command line options                                                    *)

(* Mutant: credentials of the command line replace the configured ones.    *)
CredentialsOnly(own, entries) ==
    FoldLeft(LAMBDA m, e : IF e.user = "" THEN m ELSE (e.user :> e.hash) @@ m, <<>>, entries)

(* The entries user:hash of --auth-credentials are inserted one by one;    *)
(* one without a colon (no user here) is only logged.                      *)
WithCredentials(own, entries) ==
    FoldLeft(LAMBDA m, e : IF e.user = "" THEN m ELSE (e.user :> e.hash) @@ m, own, entries)

(* merge_with_opt of the modules: an option that is given replaces the     *)
(* setting, a flag can only set it.                                        *)
AnonymizationWith(own) == opt.anonymization @@ own
CompressionWith(own) == opt.compression @@ own
AuthWith(own) ==
    [auth_credentials |-> WithCredentials(own.auth_credentials, opt.credentials)] @@ opt.auth @@ own
StaticFilesWith(own) == opt.staticFiles @@ own

WithOptions(handler) ==
    [handler EXCEPT
        !.flat.anonymization.own = AnonymizationWith(@),
        !.flat.compression.own = CompressionWith(@),
        !.flat.auth.own = AuthWith(@),
        !.flat.static_files.own = StaticFilesWith(@)]

TlsOf(c) ==
    [default |-> c.flat.default.own,
     server_names |-> [names \in DOMAIN c.own.server_names |-> c.own.server_names[names].own],
     redirector |-> c.own.redirector.own]
StartupOf(c) ==
    [listen |-> c.flat.startup.own.listen, tls |-> TlsOf(c.flat.startup.own.tls)]

(* main(), between loading the configuration and creating the handlers     *)
ApplyOptions ==
    /\ phase = "loaded" /\ stage = "loading"
    /\ conf' = [conf EXCEPT !.flat.handler = WithOptions(@)]
    /\ settings' = StartupOf(conf)
    /\ phase' = "configured" /\ stage' = "configured"
    /\ UNCHANGED <<patterns, disk, edits, todo, document, rest, read, failed,
                   opt, listeners, redirectors, certificates, answer>>

-----------------------------------------------------------------------------
(* Setting up the server                                                   *)

(* The static files handler wants a directory for its root.                *)
Accepted(c) ==
    LET root == c.flat.handler.flat.static_files.own.root
    IN  root = "none" \/ root \in Directories

Main ==
    \/ Loading /\ UNCHANGED startupVars
    \/ ApplyOptions
    \/ IntoServer(Accepted(conf)) /\ UNCHANGED configVars

Init ==
    /\ ConfigInit /\ StartupInit
    /\ \E s \in Starts : patterns = s.patterns /\ disk = s.disk

(* Nothing is left to be done for main().                                  *)
Done == stage \in {"running", "exited"} /\ UNCHANGED vars

Next ==
    \/ Main \/ Done
    \/ Editing /\ UNCHANGED startupVars
    \/ Clients /\ UNCHANGED configVars

Spec == Init /\ [][Next]_vars

-----------------------------------------------------------------------------
(* Properties                                                              *)

Docs == [i \in DOMAIN read |-> read[i].document]
AllSound == \A i \in DOMAIN Docs : IsDocument(Docs[i]) /\ Valid(Conf, Docs[i])

(* What the files say, each setting on its own; or the defaults.           *)
Documented == IF AllSound THEN Setting(Conf, Docs, {}) ELSE Default(Conf)

Prevailing(given, own) == [f \in DOMAIN own |-> IF f \in DOMAIN given THEN given[f] ELSE own[f]]
GivenHashes(user) == {i \in DOMAIN opt.credentials : opt.credentials[i].user = user}
Credentials(configured) ==
    [user \in (DOMAIN configured \union {opt.credentials[i].user : i \in DOMAIN opt.credentials}) \ {""} |->
        IF GivenHashes(user) = {} THEN configured[user]
        ELSE opt.credentials[CHOOSE i \in GivenHashes(user) : \A j \in GivenHashes(user) : j <= i].hash]

(* Lists, maps and other settings of all files end up in the configuration *)
(* as docs/server-configuration.md tells, file by file in alphabetical     *)
(* order whatever the order of the patterns; options prevail; and one      *)
(* broken or missing file among them leaves the defaults of all settings.  *)
(* The server is set up with these settings, which have the types that     *)
(* StartupSpec requires.                                                   *)
ConfiguredAsDocumented ==
    /\ \A i, j \in DOMAIN read : i < j => read[i].path <= read[j].path
    /\ phase = "loaded" => conf = Documented /\ (failed <=> ~AllSound)
    /\ phase = "configured" =>
          LET documented == Documented
              h == conf.flat.handler.flat
              d == documented.flat.handler.flat
          IN  /\ conf.flat.startup = documented.flat.startup
              /\ settings = StartupOf(documented) /\ AreSettings(settings)
              /\ h.virtual_hosts = d.virtual_hosts /\ h.headers = d.headers
              /\ h.anonymization.own = Prevailing(opt.anonymization, d.anonymization.own)
              /\ h.compression.own = Prevailing(opt.compression, d.compression.own)
              /\ h.static_files.own = Prevailing(opt.staticFiles, d.static_files.own)
              /\ h.auth.own.auth_realm = Prevailing(opt.auth, d.auth.own).auth_realm
              /\ h.auth.own.auth_credentials = Credentials(d.auth.own.auth_credentials)
=============================================================================
