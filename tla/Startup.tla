------------------------------- MODULE Startup -------------------------------
(***************************************************************************)
(* The startup module: into_server() sets up the listeners of the server,  *)
(* the certificates for its TLS addresses and the redirector from plain    *)
(* HTTP, or fails, and then the process ends without serving anything.     *)
(* The running server picks certificates by server name and redirects.     *)
(*                                                                         *)
(* Where the settings come from, files and the command line, is in         *)
(* ServerStart.                                                            *)
(***************************************************************************)
EXTENDS Lists

CONSTANTS
    Contents,      \* of the files with certificates and keys, by path
    Options,       \* command lines
    ServerNames,   \* what TLS clients ask for
    PlainRequests  \* to the redirector: Host header, split at colons, and host of the URI

VARIABLES
    settings,     \* StartupConf
    opt,          \* the command line
    stage,        \* of the process
    listeners,    \* addresses of the main service
    redirectors,  \* the services that redirect, one at most
    certificates, \* TlsAcceptCallbacks, once there are any
    answer        \* auxiliary: what the last client got

startupVars == <<settings, opt, stage, listeners, redirectors, certificates, answer>>

StartupInit ==
    /\ settings = None /\ opt \in Options
    /\ stage = "loading"
    /\ listeners = {} /\ redirectors = {} /\ certificates = <<>>
    /\ answer = <<>>

-----------------------------------------------------------------------------
(* Addresses                                                               *)

(* From<String> for ListenAddr                                             *)
AddressFrom(string) == [addr |-> string, tls |-> "false", ipv6_only |-> "none"]
DefaultListen == <<AddressFrom("127.0.0.1:8080"), AddressFrom("[::1]:8080")>>

(* Mutant: addresses of the command line are added to the configured ones. *)
JoinedListen ==
    LET given == (IF opt.listen = None THEN <<>> ELSE opt.listen) \o settings.listen
    IN  IF given = <<>> THEN DefaultListen ELSE given

(* Addresses of the command line replace those of the configuration.       *)
ListenOn ==
    LET given == IF opt.listen = None THEN settings.listen ELSE opt.listen
    IN  IF given = <<>> THEN DefaultListen ELSE given

IsTls(address) == address.tls = "true"

(* What --listen can be: addresses without TLS, one at least.              *)
ASSUME OptionsAssumption ==
    \A o \in Options : o.listen = None \/
        /\ o.listen \in Seq(Range(o.listen)) /\ o.listen # <<>>
        /\ \A a \in Range(o.listen) : a = AddressFrom(a.addr)

-----------------------------------------------------------------------------
(* Maps whose keys are lists of names                                      *)

NamesOf(lists) == UNION {Range(names) : names \in lists}

Orders(map) == Bijection(1 .. Cardinality(DOMAIN map), DOMAIN map)

(* One entry for each name; HashMap yields the lists in any order, and the *)
(* last one that has the name counts.                                      *)
ByName(map, order) ==
    [n \in NamesOf(DOMAIN map) |->
        map[order[CHOOSE i \in DOMAIN order :
                    /\ n \in Range(order[i])
                    /\ \A j \in i + 1 .. Len(order) : n \notin Range(order[j])]]]

-----------------------------------------------------------------------------
(* Certificates                                                            *)

ContentOf(path) == IF path \in DOMAIN Contents THEN Contents[path] ELSE "missing"

(* Both paths are set, the first file is a chain of certificates that is   *)
(* not empty, the other one a private key.                                 *)
IsCertificate(c) ==
    /\ c.cert_path # "none" /\ c.key_path # "none"
    /\ ContentOf(c.cert_path) = "chain" /\ ContentOf(c.key_path) = "key"

(* The certificate for no name is the default one.                         *)
CertificatesBy(tls, order) ==
    [n \in NamesOf(DOMAIN tls.server_names) \union {""} |->
        IF n = "" THEN tls.default ELSE ByName(tls.server_names, order)[n]]

(* Mutant: a client that asks for an unknown name gets no certificate.     *)
KnownNamesOnly(name) ==
    LET key == IF name = None THEN "" ELSE name
    IN  IF key \in DOMAIN certificates THEN certificates[key] ELSE None

(* certificate_callback                                                    *)
CertificateFor(name) ==
    IF name # None /\ name \in DOMAIN certificates THEN certificates[name] ELSE certificates[""]

-----------------------------------------------------------------------------
(* The redirector                                                          *)

(* Mutant: the port is taken for a part of the name.                       *)
NameWithPort(request) ==
    IF request.host = None THEN request.uriHost
    ELSE IF Len(request.host) > 1 THEN "host:port" ELSE Head(request.host)

(* What is before the first colon in the Host header, split at its colons. *)
ServerName(request) ==
    IF request.host = None THEN request.uriHost ELSE Head(request.host)

RedirectedTo(redirector, request) ==
    LET name == ServerName(request)
    IN  IF name # None /\ name \in DOMAIN redirector.byName
        THEN redirector.byName[name] ELSE redirector.redirectTo

-----------------------------------------------------------------------------
(* into_server                                                             *)

Configured == <<settings, opt>>

(* The configuration is rejected: the error is logged, the process ends.   *)
Exit ==
    /\ stage' = "exited"
    /\ listeners' = {} /\ redirectors' = {} /\ certificates' = <<>>

(* DefaultApp::from_conf() and, with --test, the end of the process in     *)
(* Server::bootstrap().                                                    *)
CreateApp(accepted) ==
    /\ stage = "configured"
    /\ IF accepted /\ ~opt.test
       THEN stage' = "plain" /\ UNCHANGED <<listeners, redirectors, certificates>>
       ELSE Exit
    /\ UNCHANGED <<Configured, answer>>

AddPlain ==
    /\ stage = "plain"
    /\ listeners' = {a \in Range(ListenOn) : ~IsTls(a)}
    /\ stage' = IF \E a \in Range(ListenOn) : IsTls(a) THEN "redirector" ELSE "running"
    /\ UNCHANGED <<Configured, redirectors, certificates, answer>>

(* There is none without an address for it.                                *)
SkipRedirector ==
    /\ stage = "redirector" /\ settings.tls.redirector.listen = <<>>
    /\ stage' = "certificates"
    /\ UNCHANGED <<Configured, listeners, redirectors, certificates, answer>>

CreateRedirector ==
    LET redirection == settings.tls.redirector IN
    /\ stage = "redirector" /\ redirection.listen # <<>>
    /\ IF redirection.redirect_to = "" \/ \E a \in Range(redirection.listen) : IsTls(a)
       THEN Exit
       ELSE /\ stage' = "certificates"
            /\ \E order \in Orders(redirection.redirect_by_name) :
                  redirectors' = {[listen |-> Range(redirection.listen), redirectTo |-> redirection.redirect_to,
                                   byName |-> ByName(redirection.redirect_by_name, order)]}
            /\ UNCHANGED <<listeners, certificates>>
    /\ UNCHANGED <<Configured, answer>>

AddTls ==
    LET tls == settings.tls IN
    /\ stage = "certificates"
    /\ IF /\ IsCertificate(tls.default)
          /\ \A names \in DOMAIN tls.server_names : IsCertificate(tls.server_names[names])
       THEN /\ \E order \in Orders(tls.server_names) : certificates' = CertificatesBy(tls, order)
            /\ listeners' = listeners \union {a \in Range(ListenOn) : IsTls(a)}
            /\ stage' = "running"
            /\ UNCHANGED redirectors
       ELSE Exit
    /\ UNCHANGED <<Configured, answer>>

-----------------------------------------------------------------------------
(* The running server                                                      *)

Handshake(name) ==
    /\ stage = "running" /\ \E a \in listeners : IsTls(a)
    /\ answer' = [name |-> name, certificate |-> CertificateFor(name)]
    /\ UNCHANGED <<Configured, stage, listeners, redirectors, certificates>>

Redirect(request) ==
    /\ stage = "running"
    /\ \E redirector \in redirectors :
          answer' = [request |-> request, location |-> RedirectedTo(redirector, request)]
    /\ UNCHANGED <<Configured, stage, listeners, redirectors, certificates>>

ASSUME ClientsAssumption ==
    /\ None \notin STRING /\ "" \notin ServerNames \union {None}
    /\ \A request \in PlainRequests :
          /\ request.host = None \/ request.host \in Seq(STRING) \ {<<>>}
          /\ request.uriHost \in STRING \union {None}

-----------------------------------------------------------------------------
(* The module on its own, with any settings of the right types             *)

ListenAddr ==
    [addr : STRING, tls : {"true", "false"}, ipv6_only : {"true", "false", "none"}]
IsByNames(map) == IsFiniteSet(DOMAIN map) /\ DOMAIN map \subseteq Seq(STRING)
AreSettings(c) ==
    /\ c.listen \in Seq(ListenAddr) /\ c.tls.redirector.listen \in Seq(ListenAddr)
    /\ IsByNames(c.tls.server_names) /\ IsByNames(c.tls.redirector.redirect_by_name)

Configure ==
    /\ stage = "loading" /\ stage' = "configured"
    /\ AreSettings(settings')
    /\ UNCHANGED <<opt, listeners, redirectors, certificates, answer>>

IntoServer(accepted) ==
    CreateApp(accepted) \/ AddPlain \/ SkipRedirector \/ CreateRedirector \/ AddTls

Clients ==
    \/ \E name \in ServerNames \union {None} : Handshake(name)
    \/ \E request \in PlainRequests : Redirect(request)

StartupNext == Configure \/ (\E accepted \in BOOLEAN : IntoServer(accepted)) \/ Clients

(* The server is configured with settings of the right types, once, and    *)
(* set up and serving clients from then on.                                *)
StartupSpec == StartupInit /\ [][StartupNext]_startupVars

-----------------------------------------------------------------------------
(* Properties                                                              *)

(* A running server listens on the addresses of --listen, without TLS, or  *)
(* else on the configured ones, or else on the default ones; it redirects  *)
(* from the addresses the redirector has, if anything uses TLS; there is a *)
(* certificate for each name then; and if the server could not do all of   *)
(* that it does not run and listens nowhere.                               *)
ListensAsConfigured ==
    /\ stage = "running" =>
          LET expected == IF opt.listen # None THEN {AddressFrom(a.addr) : a \in Range(opt.listen)}
                          ELSE IF settings.listen = <<>> THEN Range(DefaultListen)
                          ELSE Range(settings.listen)
              tls == \E a \in expected : IsTls(a)
          IN  /\ listeners = expected
              /\ UNION {redirector.listen : redirector \in redirectors} =
                    IF tls THEN Range(settings.tls.redirector.listen) ELSE {}
              /\ tls => /\ IsCertificate(certificates[""])
                        /\ \A n \in NamesOf(DOMAIN settings.tls.server_names) :
                              n \in DOMAIN certificates /\ IsCertificate(certificates[n])
    /\ stage = "exited" => listeners = {} /\ redirectors = {}

(* A client is shown a certificate that is configured for the name it asks *)
(* for, and the default one if there is none for this name.                *)
CertificateShown ==
    "certificate" \in DOMAIN answer =>
        LET own == {names \in DOMAIN settings.tls.server_names : answer.name \in Range(names)}
        IN  IF answer.name = None \/ own = {}
            THEN answer.certificate = settings.tls.default
            ELSE \E names \in own : answer.certificate = settings.tls.server_names[names]

(* A plain request is redirected to the target of its server name, with or *)
(* without a port, and to the default target if that name has none.        *)
RedirectedByName ==
    "location" \in DOMAIN answer =>
        LET redirection == settings.tls.redirector
            request == answer.request
            name == IF request.host = None THEN request.uriHost ELSE request.host[1]
            own == {names \in DOMAIN redirection.redirect_by_name : name \in Range(names)}
        IN  IF own = {}
            THEN answer.location = redirection.redirect_to
            ELSE \E names \in own : answer.location = redirection.redirect_by_name[names]
=============================================================================
