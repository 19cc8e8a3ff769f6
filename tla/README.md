# Verification of the Pandora Web Server

TLA+ specifications of Pandora Web Server from its command line and configuration
files to the answers to its requests, their model checking with TLC and proofs
about them checked by TLAPS. Line numbers refer to
the repository as of this commit.

## The system

Pandora Web Server is a server built on pingora from modules. Each module is a
`RequestFilter` (`pandora-module-utils/src/lib.rs`); `#[derive(RequestFilter)]`
combines the fields of a struct into one handler that runs them in turn;
`startup-module` makes this handler the `ProxyHttp` application that pingora
calls. A request goes through four phases: `early_request_filter`,
`request_filter`, `upstream_peer` (if nobody has sent a response) and `logging`.

| Component | State it keeps | Operations | Interacts with |
|---|---|---|---|
| Pipeline (`startup-module/src/lib.rs`, `derive_request_filter.rs`) | per request: contexts of all modules, extensions | the phases, with early return on an answer or an error | pingora calls it, it calls every module |
| Session wrapper (`pingora.rs`) | request URI, original URI, client address, remote user | `set_uri`, `original_uri`, `set_client_addr`, `set_remote_user` | shared state of the modules of one request |
| Virtual hosts (`virtual-hosts-module`) | routing table; per request an index into it | building the table; the phases delegated to a host's handler | router, all per-host modules |
| Router and trie (`router.rs`, `trie.rs`) | two packed tries | `push`, `merge_value`, `build`, `lookup`, `retrieve` | virtual hosts, merger |
| Merger (`merger.rs`) | rules per host and path | `push`, `merge`, `merge_into_merger`, `extend` | rewrite and headers modules, router |
| Common log (`common-log-module`) | per request saved tokens; one channel, one writer with open files, two signal listeners | saving tokens, logging, reopening files | all requests share the channel; operating system signals |
| Authentication (`auth-module`) | credentials, secret; one rate limiter for the process; cookies that clients keep | basic authentication, login page and session cookies | changes URI and user for later modules; wall clock, restarts |
| Response headers, rewrite (`headers-module`, `rewrite-module`) | a router of merged rules | merging at startup, lookup per request | merger, router, session wrapper |
| Static files (`static-files-module`) | none; reads the file system several times per request | resolution of the path, canonical redirects, choice of a file, preconditions, ranges, sending | file system, virtual hosts (stripped prefixes), clients that keep copies |
| IP anonymization, compression, upstream, response | configuration only (upstream: the peer in its context) | one or two phases each | session wrapper |
| Configuration files (`deserialize.rs`, `derive_deserialize_map.rs`, `merge_conf.rs`, `FromYaml`) | the configuration read so far | resolving patterns, merging the fields of file after file | file system, every module's configuration |
| Startup, HTTPS redirector (`startup-module`) | listeners, certificates, redirector | `into_server`, choice of a certificate, redirects | configuration, command line, TLS clients |
| Server binary (`pandora-web-server`) | - | `main` | all of the above |

What is hard here:

* a request meets up to eighteen module instances on two levels, any of which
  can end a phase early; what one phase saved another expects to find;
* the handler of a virtual host is looked up in one phase and found again by
  index in the others;
* hosts and rules are processed in the random order of hash maps, and rules
  are merged with those that happen to be there already;
* one rate limiter counts the attempts of all handlers, users and addresses; a
  session is a signed time stamp that outlives the clock, the process and the
  configuration it comes from;
* configuration structures are flattened into each other by macros, each field of
  a file has to find the right one, and the files may change meanwhile;
* a file may change between any two of the four moments at which a request looks
  at it, while clients resume and revalidate on the strength of its validators;
* lines of concurrent requests, Reopen messages of two listeners, rotation of
  the files and failures to open them interleave around a bounded channel
  that comes into being with the first request.

What makes each component correct:

* pipeline: a module behind an authentication module answers authorized
  requests only; every request is logged once by each responsible log module,
  with the data it came with; it is answered at most once and ends; all phases
  run the same virtual host;
* routing: every request reaches the handler configured for its host and path
  in whatever order the rules were added, and the handler sees the right path;
* rules of headers and rewriting: those that apply to a request are the ones that
  its configuration says, and the more specific one prevails;
* static files: what is asked for lies below the root, what is served is what the URI names, a
  canonical redirect leads there and is not repeated; a body is as long as
  announced, it is the part of the file that was asked for, and no outdated
  copy is confirmed;
* authentication: limits hold however attempts interleave; a session comes from
  a login that still counts, and is recognized until it expires; its cookie
  stays on secure connections;
* start: the configuration is what the files and options say or the defaults;
  a server listens where it should, with the right certificates, or does not run;
* log: no line is lost, duplicated or overtaken while the process runs, none
  goes to a file that was to be released, and nobody waits for ever.

## The modules

| Module | Models | Checked by | Proved in |
|---|---|---|---|
| `RequestPipeline` | one request on its way through the phases | `RequestPipelineMC` | `ServerProof` |
| `CommonLog` | senders, channel, writer, listeners, environment | `CommonLogMC` | `CommonLogProof` |
| `AccessLog` | abstract: what the log promises | refined by `CommonLog` | with `CommonLog` |
| `Trie` | builder, packed trie, lookup | `TrieMC` | `TrieProof` |
| `Paths` | splitting and comparing of paths, removal of a prefix | with the modules that extend it | `SequenceLemmas` |
| `Lists` | the loops of the code over a list: selecting, joining, sorting | with the modules that extend it | `SequenceLemmas` |
| `RouteTable`, `Routing` | abstract: what a routing table answers | refined by `Trie`, used by `VirtualHosts` | |
| `VirtualHosts` | configuration to routing table to handler and path | with `VhostFiles` | `VhostFilesProof` |
| `StaticPath` | path of a request to file, redirect or error | with `VhostFiles` | with `VhostFiles` |
| `VhostFiles` | composition: virtual hosts, static files, a client that follows redirects | `VhostFilesMC` | `VhostFilesProof` |
| `Merger` | rules collected per host and path, for any kind of rule | instantiated by the next two | `RulesServedProof` |
| `HeaderRules` | rules of one or several header settings, merged, looked up and turned into header lines | `HeaderRulesMC`, with `RulesServed` | `RulesServedProof` |
| `RewriteRules` | order and choice of rewrite rules, the tail of a path | with `RulesServed` | `RulesServedProof` |
| `RulesServed` | composition: headers and rewriting of one server, up to the response | `RulesServedMC` | `RulesServedProof` |
| `FileResponse` | one file served while it changes, a client with its copy | `FileResponseMC` | `FileResponseProof` |
| `AuthSessions` | logins, sessions, cookies and the rate limiter | `AuthSessionsMC` | `AuthSessionsProof` |
| `ConfigFiles` | patterns, files, types of settings and their merging | with `ServerStart` | |
| `Startup` | listeners, certificates, redirector | with `ServerStart` | `ServerProof` |
| `ServerStart` | composition: `main`, the configuration of a build, options | `ServerStartMC` | |

`SequenceLemmas` has what the proofs need of sequences, lists and paths and is used by most of them. `Lists` and `Paths` define their operators with
recursive functions, one step per iteration of the code's loop, since nothing can be proved
about the library's folds: they take an operator as a parameter. `PROJECT.json` ("map") names the source lines of every definition.

### RequestPipeline

The two structs of `pandora-web-server/src/main.rs` are the constants
`TopChain` and `HostChain`, sequences of kinds of modules; their concatenation
is the order in which every phase visits them, a position in it stands for a
module. `conf` says which modules are switched on in `Handler` and in each
`HostHandler`. One action is one module's part in a phase, or a phase's end;
what the module decides by looking at the request - a valid cookie, a rule that
matches, a file that exists - is a nondeterministic choice, and so is every
failure that the code passes on with `?`. `Main` and `Fallback` are the vectors
of values of the router's two tries: `LookupHost` finds an index in either,
later phases go through `Retrieve`. The auxiliary variables `called` and
`handled` remember what was found and promised. One request is enough, as the
pipeline shares no state between requests; the channel they share is
`CommonLog`. `UpstreamRetry` is pingora's: a connection that was kept open turns
out to be broken, and `upstream_peer` is called again.

Abstractions: a URI is what it derives from (the client's, stripped of a prefix,
the login page) and whether a rule rewrote it; the log's format has at least one
field that is saved by `request_filter`, as the default format has; clients have
an IP address, as Unix sockets have none to anonymize. The kind `custom` stands
for a module that is not part of the server, as in `examples/custom-module`: it may answer or
fail in every phase, in `early_request_filter` too, wherever it is switched on.

`LoggedOnce` is about every way a request ends: by an answer, by an error of any phase, or by the
panic in `logging()` that `PipelineMixed` shows. Then the log module it happens at and those
behind it have no line (`Responsible`), and something is switched on that could answer or
fail ahead of that module (`CutOff`).

### CommonLog

Requests are tasks that come to `logging()` in any order. `StartLogging` is the
code up to `send().await` including the lazy start of everything else, `Send`
the moment the channel has room. A listener first registers with tokio, then
waits, takes a signal and sends `Reopen`. The writer takes a message
and works on it in two actions, so that rotation, signals and sends fall
between. Rotation is a counter, `rotation`: the generation of files that the
paths name at present; `files` records the generation each open file had when
it was opened. Messages carry, as auxiliary data, the generation that the last
`Reopen` before them promised. Opening may fail (standard output instead) and so
may writing (ignored). Signals have their default effect, the end of the
process, until the listener has registered.

### Trie, RouteTable, Routing

`Trie` keeps the recursion of the code in steps: `Push`, `Descend`, `Split`,
`Store` for `TrieBuilder::push`, `Build`, `Transfer`, `Built` for the
translation into vectors, `Lookup`, `EnterChild`, `EndOfLabel`, `NoMatch` for
`Trie::lookup`. A label is a sequence of numbers, one per segment. It implements
`RouteTable`: rules are added, the table is closed, and a lookup answers with
`BestMatch`, the definition of `Routing`.

### VirtualHosts, StaticPath, VhostFiles

Entries of the configuration are taken in any order (`TakeEntry`), their rules
pushed one by one (`PushSubpath`, rules of equal rank in any order), each with
the merging of `RouterBuilder::merge_value`; then requests are looked up and
their paths stripped (`EarlyRequestFilter`). Here the tries are the routing
table that `Trie` is shown to implement. Paths are split at their separators
and may have empty segments, as requests do.

`StaticPath` has no state of its own: `ResolveUri` decodes the components of a path and pushes
them one after another, as `PathBuf::push` does: a component that decodes to a slash inside is several names,
one that decodes to a slash at its beginning takes the place of the root and all before it. `Canonical`
enters the names the way `Path::canonicalize` does, through links, dots and
directories that cannot be searched, and the result is compared with the root; `PathToUri` goes back, `Location` puts a
stripped prefix in front, `FilesAnswer` is `request_filter` up to the metadata,
where `FileResponse` goes on. Index files are looked for with `is_file()`, which follows a link
(`Target`), and are not compared with the root any more. A name and its encoded form are two numbers.
`VhostFiles` gives each request that `VirtualHosts` has routed to it, and lets the
client follow a redirect back through the virtual hosts. A client takes the path of a location to end
at a `?` or `#`, which `path_to_uri` does not encode (`Cut`, `Parsed`). The root of a handler
depends on whether it strips a prefix, so that the two see different directories.

### Merger, HeaderRules, RewriteRules, RulesServed

`Merger` has the functions of `merger.rs` on tables of hosts, paths and rules. What
a rule is differs between its users, so that the module has three
operators as parameters: the locations a rule mentions, whether it matches and which of
two prevails - the trait `PathMatch` and its order. `HeaderRules` instantiates
it twice, with `MatchRules` for the collection of one setting's rules and with
`StrictHostPathMatcher` for the second pass; `RewriteRules` once, with `PathMatcher`.

`HeaderRules` takes its steps where the code's loops do: one rule is pushed at a time,
settings are finished one after another, and the hosts of two mergers are
aligned in any order, as they are iterated over in the order of a hash map. The
outcome is compared with the wording of `headers-module/src/configuration.rs:33-44`.
A rule sets options - of Cache-Control, of Content-Security-Policy, or headers of
one's own - and `HeaderLines` is what `into_headers` and `try_from` make of those
that were merged: options of one setting are overridden or, for lists, joined,
and the values of several settings for one header are joined into one line.
`RewriteRules` sorts its rules, builds the router and looks for the first one that
applies; regular expressions match or do not.

`RulesServed` creates both handlers and calls them in the order of `main.rs`; then the
response - the redirect of a rewrite rule or that of a later handler - passes the
header filter, which replaces headers of the same name.

### FileResponse

`request_filter` looks at the file system when it resolves the path (`Resolve`),
looks for precompressed variants (`Choose`), reads metadata (`ReadMetadata`) and opens
the file (`Open`); in between and between chunks files may be replaced (a new
file takes the name), overwritten in place or removed. A byte of a body is a
pair of the version it belongs to and its offset, so that a body or a copy tells
where it came from. Validators have the resolution of the code, one second: two
versions may share a second, and a size. Numbers wrap at `Word`, as in a release
build; for an empty file a build with overflow checks panics instead at
`handler.rs:239`.

The client keeps what it gets and sends the validators it was given. `calm`
distinguishes behaviours in which files change between requests only. Which variant is chosen
follows the client's order of qualities (`RewritePath`). Neither the quality of `identity`
nor one of 0 means anything to the code: the original is sent when no variant exists that the header
mentions, and a variant mentioned with quality 0 is sent if there is none with a higher one. A copy is
what an HTTP client makes of 200, 206 and 304; lists of tags and `*` are left out.

### AuthSessions

Several requests at several handlers of one process. What happens without an
`await` is one action; a request in page mode yields where its body is read
(`PagePost`, `ReadChunk`, `PageLogin` or `BadBody`), so that others come in
between. `RATE_LIMITER` is the function `counts`: observing a key counts it and
tells the new value in one step, and a key is observed although another one has
rejected the attempt. `NextInterval` may come at any moment. A cookie carries
what its token says - name, user, signing key, second of the login - and, as auxiliary
data, where and when that was; `jar` has all cookies of all clients, who may send
any selection of them, in any order, that browsers would send on this
connection. The `Cookie` header of a request may have a byte that is not visible ASCII, in any cookie of it; `page_auth`
sees no cookie then (`Readable`, `page.rs:207`), so that `LoginSticks` is about readable ones. `Clock` sets the clock to anything; `Restart` ends all requests and
starts the server with any configuration, cookies staying. Time is counted in
half seconds, because tokens are cut to full ones.

Abstractions: a password is right or wrong, a signature is the key it was made with;
the login form has a user name and may have been asked for as JSON; whether a
`Basic` header can be decoded is a choice. Whatever the module does to the URI
and the user of a request is in `RequestPipeline`.

### ConfigFiles, Startup, ServerStart

A Rust type is a schema: a value, a list (`OneOrMany`), a map, a map of structures,
a structure with the names of its fields and the structures flattened into it.
`Valid` and `Merge` are what the derived `DeserializeMap`, `MapVisitor` and
`DeserializeSeed` do with them; `Conf` in `ServerStart` is the configuration type of
the server with all its nesting, with one or two settings for each type that a module
uses. Loading is a sequence of steps: patterns are resolved (`ResolvePatterns`), a
file is opened (`OpenFile`), its fields are visited in any order (`Visit`); files may
be written or removed in between. An error leads to the default configuration, as
`main` logs it and goes on.

`Startup` is `into_server` in steps - handlers, plain listeners, redirector,
certificates - each of which may end the process, followed by what the running
server does for a TLS handshake and for a plain request. Maps with lists of names as
keys are iterated over in any order. A certificate file holds a chain, a key or is missing.
On its own, as `StartupSpec`, the module is given any settings of the right types (`AreSettings`).
`ServerStart` puts the two together and applies the command line in between. `ConfiguredAsDocumented`
includes that its settings are such ones; as its other steps are those of `Startup`, it implements
`StartupSpec`.

## Model checking

| Run | Bounds | Shows |
|---|---|---|
| `PipelineLayered` | authentication, rewriting, logs and modules of one's own on both levels, two named hosts, 15 configurations | logs are complete, but for those behind a panic, and anonymized; both gates; the client's URI is kept; the announced peer at every attempt; nothing after an answer; every request ends |
| `CommonLogReopen` | 3 requests, 2 files, 1 signal kind, capacity 1, 2 rotations, 2 signals | no line in a released file; implements `AccessLog`; senders proceed; files are released |
| `TrieBuild` | 7 labels, 2 values, 3 pushes | counters, shape, answers |
| `VhostFiles` | every set of exact and prefix rules on 3 nested paths with and without stripping, 2 entries, 4 hosts, names given to both entries and two that are both the default, 16 paths, two roots with links, one of them to a file of the other root and among the index files, a locked directory, encoded names, components that decode to two names or to a path from the root of the file system, a name with `?` | right handler, right path; redirects that are not cut short lead to the same thing once; the right file is served |
| `RulesServed` | rules with a prefix or one exact path on 3 nested paths of hosts h, k and any; two rules of one setting, one each of up to three, with a redirect; any two rewrite rules on nested paths, with and without regular expressions, and one for all paths | the rules that apply are applied, no others; the specific one prevails; headers of every response; the rewrite rule that takes precedence, and its tail |
| `FilesServed` | a file and two variants at first, clients that name encodings, `identity` or `*`, a page for missing files, sizes 0 and 3, chunks of 2, one write and any number of removals and requests | length of bodies, their bytes, fresh copies, resumed downloads, the best variant |
| `AuthSessions` | 2 requests, 2 handlers, 2 configurations, clock 0 to 2, 2 starts, 2 cookies, 2 attempts for each key in an interval | limits, sessions, cookies, bodies |
| `ServerStart` | 6 sets of files and patterns, two of them with an error, 4 command lines, 1 change of any file, 5 requests | configuration, listeners, certificates, redirects |
| `PipelineMixed`, `PipelineDefaultHost`, `HeadersNewHost`, `FilesMissing` | as above | disagreements, see below |

Why the bounds are enough: the pipeline runs have no bound at all for a given
chain of modules; two hosts are the least with which one can be mistaken for
another. The features of the published binaries have no run of their own: their
chains, but for compression, are contained in that of `PipelineLayered`, and `AuthGateHolds`,
`LogFirstNeverPanics` and `HandledReachesPeer` are proved for every chain. Three
senders with a channel of one message make it full with
a sender waiting while the writer works; two rotations distinguish a file
released too late from one opened too early; two files are needed for a Reopen
that releases only one. Listeners of both signals do the same with the channel as
two signals of one kind; `NoLineToRotatedFile` is proved for any set of kinds. Three
pushes are the least that split a node, then
descend into the new one, and seven labels include prefixes of each other,
common beginnings of one and two segments and none. Three nested paths let a
rule stand between another and the prefix rule it inherits from, or between two
that would otherwise be redundant. A third setting is combined with what became
of two. Two versions of a file, in the same second or not, and several files are
enough to confuse a version with another, a variant with its original, or a page with
a missing file; sizes 0 and 3 with chunks of two meet an empty file, a
chunk that is not full, and a file that ends early in between. Three writes to an
empty directory were checked once (1.9 million states), with one size and one
value of `Accept-Encoding`.

Paths of `VhostFiles` include empty, encoded and dotted components, some that decode to `a/b`, to the other
root or into their own one, a link into the other root, one that stays in its own, an entry below a file and one below a locked
directory. In `AuthSessions` two requests let one be in the middle of its
login while the other is counted; two configurations differ in the kind of secret,
in modes, limits, login page, expiration and Secure flag; a session lasts one or two
seconds, which the clock can pass; the proofs have no bounds. The files of
`ServerStart` meet in a list, a map, a map of structures and two levels of flattened
ones, one of them twice, and contain an unknown field, a value of the wrong type, names
in two lists, a missing key and a redirector without a target.

`RegularRulesApplied` names what it excludes: rules of a later setting for a
host new to it (`HostsKnown`, see `HeadersNewHost`) and the rules listed below that
the code does not treat as documented (`Regular`). `NothingExtra` has no such exception.

Deadlock checking is off for the pipeline (a request ends), the log (requests,
rotations and signals are bounded, the process may stop), `VhostFiles` (one request
and what follows from it) and `AuthSessions` (logins are bounded). It is on
everywhere else: routers always accept another lookup, the file server another
request, and a start ends in a server that runs or a process that has ended (`Done`).

Fairness: `RequestPipeline` assumes weak fairness of its next-state relation: the
executor polls a request's task until it completes; and strong fairness of the
end of an upstream attempt, as pingora limits their number. `CommonLog` assumes it of
each sender, each listener and the writer, all of them tokio tasks that are
woken when they can proceed; the channel's semaphore serves waiting senders in
turn. Nothing is assumed of rotation, signals, shutdown or of requests coming
in. The other modules have safety properties only: building tables, looking
up and starting are loops over finite collections, and a login waits for nothing but
its client.

Every property of a passing run has a mutant: an operator next to the
definition it replaces, marked `Mutant`, that changes it as a bug in the code
would; the property fails with it.

## Proofs

TLAPS checks every proof for all values of the constants that satisfy the named
assumptions. Each property was an invariant of a TLC run before it was
proved, and so were the parts of the inductive invariants that TLC can evaluate (some speak of all paths there are).

`ServerProof`, its first part about `RequestPipeline`, for all chains, hosts and configurations:

* `TypeCorrect`: `TypeOK` is inductive by itself.
* `AuthGateHolds`: `AuthGate` speaks about the moment an answer exists; the
  invariant `GateInv` adds what holds on the way there: each authentication module
  that `request_filter` has passed, and each that precedes a module with a peer,
  has set the user or replaced the URI. That no later step takes either away
  is what makes it inductive. The proof needs no assumption on the order of the
  modules.
* `LogFirstNeverPanics`: under the assumption `LogFirst` - every log module
  stands before all modules that can answer, and there are no foreign modules - the
  tokens that `logging()` unwraps are there. `CaptureInv` says in each phase for which log
  modules they are, unless something may cut them off (`Safe`). All default features satisfy the assumption;
  `PipelineMixed` shows that it cannot be dropped.
* `HandledReachesPeer`: with `HandledInv` (a context is set by the module that
  returned `Handled`, and by no other, and its host is still found by
  `as_inner`), `upstream_peer` finds the announced peer.
* `AnswersAreFinal` follows from `GateInv`, one action at a time: those that follow an
  answer are not enabled in its phases.
* `OriginalUriIsKept`: `UriInv` extends the property to what is on its way into a
  line, the saved tokens, and to the moment before the first `set_uri`.
* `LoggedExactlyOnce`: `OnceInv` relates the lines written to the position that
  `logging()` has reached: the modules before it that are responsible have their one line,
  those behind it have none. A position is never visited twice, and whoever is
  skipped was not selected. Of a panic `CaptureInv` says what it takes: a log module that has
  no tokens was cut off (`CutOff`) by what is switched on ahead of it, or by one's own module.
* `AnonymizedAddresses`: `MaskInv` says that the address is replaced once the
  anonymization modules in question have been passed, and that no token is saved with the full one
  afterwards. Its hypothesis is `WellIndexed` - an index means the same in both tries, which the code
  takes for granted and `PipelineDefaultHost` shows a router without - or `AnonymizationAtTop`: if a
  host's handler gets lost, so does its anonymization module, but no module of the
  top level does.

`ServerProof`, its second part about `Startup`, for any settings, command lines, certificate files,
names and requests:

* `StartupInvariance`: the invariant says for each stage what is listened on so far
  (`ListenersInv`), that there is a redirector once it had to be created, for TLS and with an address
  (`RedirectorInv`), and that a server with TLS has all its certificates (`CertificatesInv`).
* `AlwaysListensAsConfigured` follows; `OptionsAssumption` is what `--listen` can be.
* `CertificateAlwaysShown`, `AlwaysRedirectedByName`: whatever order a map of lists of names is iterated over in,
  each of the names in it has the value of one of its lists (`SomeEntry`), as the last one inserted
  exists. `ClientsAssumption`: nobody asks for the empty name, under which the default certificate is kept.

`CommonLogProof`, for any number of requests, files, rotations and signals and
any capacity:

* `TypeCorrect`.
* `NoLineToRotatedFile`: `NoStaleFile` relates lines written long after the
  Reopen message to the state when it was sent. `PromiseInv` carries the relation
  through the channel: generations in it never decrease, those of the lines are the ones of
  the last Reopen before them, and no open file is older than the last Reopen
  that the writer has processed.
* `ImplementsAccessLog`: initial states map to initial states of `AccessLog` and each step to a
  step of it or to none. The mapping takes the lines out of the channel and adds the one
  that the writer works on; `SentInv` says that what it works on is a line only
  while it writes one, and that nobody sends before the channel exists. Fairness, the rest of
  `AccessLogSpec`, stays with the run.

`AuthSessionsProof`, for any handlers, requests, users, addresses and configurations,
any clock and any number of restarts:

* `Invariance`: the inductive invariant `IInv` has five parts. `ProcessInv`: the secret of each handler is
  the one that its configuration or this start determines. `RequestsInv`: what each phase
  of a request may rely on - its handler, cookies that were sendable on its
  connection, and the length of what was read. `CountersInv`: whatever was
  verified, by one handler or by all, was also counted. `CookiesInv`: the key and
  second in a cookie are those of the login it remembers, at a start that has
  been, and its Secure flag follows from the connection and the configuration.
  `LimitsHold` is the fifth.
* `LimitsAlwaysHold`: an attempt is verified only if the new count is within the
  handler's own limit; as the count covers the verified ones (`CountersInv`), so
  are they, and the last handler that verified one witnesses the limit for all.
* `BodyAlwaysBounded`, `SecureAlwaysKept`, `TypeCorrect`: from `RequestsInv` and `CookiesInv`.
* `SessionsAlwaysFromLogin`, `LoginAlwaysSticks`: a key that equals the handler's
  secret was drawn by this handler at this start or is configured now - here
  `SecretsAssumption` is needed: nobody configures a secret that was drawn at random -
  and the second in a token is at most a half before the login. The second theorem is about the cookies that
  arrive readable: one byte that is not visible ASCII hides them all.

`FileResponseProof`, for any files, sizes, ranges, encodings and chunks and any
number of changes to the files. The invariant `IInv` follows the request: `FilesInv` (what is on
disk are versions, time does not go back), `RequestInv`, `MetaInv` (what is
opened is not older than the metadata that were read, and is the same version if nothing
changed), `ResponseInv` (start, end and Content-Length belong together, what was
sent so far is the next part, and continues the client's copy), `CopyInv` (a copy has
no gap and nothing older than its validators) and `FreshInv`.
`LengthAlwaysKept`, `BytesAlwaysExact`, `NotModifiedAlwaysFresh` and
`CopyAlwaysConsistent` follow from it. The arithmetic is the code's, modulo `Word`:
`SizesAssumption` has sizes that leave room for one more number, as a u64 does for every file, and
`RangesAssumption` has what `u64::from_str` can return.
`EncodingAlwaysPreferred` needs `RequestInv` at the step `Choose` only: the sorted list has the entries
of the header, each behind those of higher quality, and what is selected from it keeps that order
(`SortedList` and its neighbours in `SequenceLemmas`). `EncodingsAssumption` is
that no algorithm is called `identity` and that a quality is a number.

`VhostFilesProof`, its first part about `VirtualHosts`, for any configuration, in any order of its entries and rules:

* `EveryRequestRouted`: the invariant `TableInv` describes the table of each host while it is
  built, by the entries that have been pushed to it so far (`HostTable`): every path has the
  rule that an entry set last, and a prefix value that was copied from a
  parent is still the one the closest parent has. The second is true because exact rules, which
  copy, are pushed last (`EntryInv`). Nothing is assumed about names: if two
  entries have the same one, the request goes to one of them as it is configured.
* `PathsAreStripped`: `remove_prefix_from` walks over segments and separators at a
  time; by induction on the segments of the prefix (`Recursion` and `Induction` in
  `SequenceLemmas`) what remains is what `StrippedPath` says. The
  assumptions on paths are what `Path::new` and HTTP guarantee: no empty segments in
  a rule, and a request's path begins with a separator.

`TrieProof`, for any labels and values:

* `NodesAlwaysCanonical`: the nodes are closed under the
  parting of labels (`Closure`), which does not depend on the order. The invariant's part `Passed` is
  about the node that a push has got to: it is where the label parts from one
  that was pushed before, and as long as it is not one of the others, it was just split off and
  has no child to go on with. A split adds one point at most (`Fork`).
* `TrieIsRouteTable`: `VectorInv` says that the vectors represent the tree (`Represents`):
  there is a map from the nodes of the vector to paths of the tree such that each node is
  either still to be set up by one of the calls in `todo` or has the label, the values and the children
  of its path. During a lookup the label begins with the path of the current node, `rest` is what
  remains, and `best` is the value the path inherits (`Searching`). Where a lookup
  stops no other node is a prefix of the label (`NothingBelow`), although it looks at the first
  child with the next segment only: as the nodes are closed under parting, no two children begin with the
  same segment (`ChildrenPart`).
* `CountersAlwaysExact`: a byte of a label is a segment, named by the path that ends in it, or the
  separator behind one. `CountInv` counts them as sets, so that a split
  turns a separator into a node and nothing else. In the vector every such path belongs to one node
  (`OwnOnce`, `SpelledOwned`), by induction over the vector its labels' sizes add up to the same number.

`VhostFilesProof`, its second part, for any file system, links and names and for all configurations,
resting on the first. `FilesInv` adds to its invariant what the handler sees (`HandlerInv`), where a
redirect leads to (`Leads`, in `AnswerInv`, and in `FollowedInv` for the one being
followed) and `ServesWhatIsThere`:

* `FilesServed`: what `canonicalize` returns has no links, dots or empty names left (`CanonicalFacts`),
  whatever names were pushed; it is below the root or an error, and a directory's first index file is below it
  unless that is a link. Where a link among the index files leads is not compared with the root: the
  property says that this is the only way elsewhere. That `request_filter` answers anything else with an error
  of the right status is the definition `StatusFor`, not the theorem.
* `RedirectsRouted`: a redirect's target is an absolute path and so routed and stripped like others.
* `RedirectsLeadThere`: the location is the stripped prefix followed by the
  canonical path of what was found. Whoever follows it and reaches the same handler
  gets the prefix stripped off again (`PrefixCut`), and resolving the canonical path finds the same thing, so that
  no other redirect follows. The hypothesis `NamesDecodeBack` - decoding an encoded name
  gives the name - is violated by names with a percent sign, see below; without it TLC finds the
  redirect that leads elsewhere. That both roots are directories is the other hypothesis: a root that is a
  file can be asked for by an absolute path (`%2F`) only, not by the `/` that its canonical location is. The property speaks of clients that request the location they were
  sent, which is not so if a name in it has a `?` or `#`.

`RulesServedProof`, for any number of settings and rules, any hosts and paths, and
in whatever order the hash maps are iterated over:

* `NoOtherRules`, `SpecificRulesLast`, `RegularRulesSent`, and the three of them for the
  headers module alone in `RulesAlone`. The proof follows the rules through the code's
  passes. What is said of a list is said of the pairs of elements one of which is ahead of the other
  (`Ahead`), so that selecting from a list and joining lists preserves it.
  `GrowInv` is about the merger of one setting while rules are pushed: its entry for a path gathers
  the rules pushed so far that apply there, in their order (`Gathers`), also when the entry was
  created late and started with a copy of its closest parent's. `MergerInv` is about mergers of
  strict matchers: the entry which is the closest one for a key (`Decides`)
  has one value of each setting whose rules apply to that key and no value of others (`Good`).
  Every location of a rule has an entry (`Covering`), so that below an entry nothing changes.
  Redundant entries that the merger drops have the value of the closest one that it keeps.
  `OtherInv` and `SelfInv` hold while two mergers are aligned. The conditions
  `HostsKnown` and `Regular` (`FullIn`) are needed for completeness only: without the
  first one a host is added to a merger without entries for the paths of the other one,
  which is what `HeadersNewHost` shows. The first two properties hold without them.
* `AnswersAsDocumented`: from the rules of a value come the options of its setting, a later
  rule overriding or extending an earlier one (`IsMerged`, `OptionsFrom`), from
  the options the lines of a header, one part per setting (`IsLines`, `LinesFrom`), and `AnswerInv` says
  that a response carries those of the values found before its path was rewritten.
* `RewritesAsDocumented`: `RewriteBuild` says that the rules pushed so far come before all others in
  the order of their matchers, and that the entry for a path has exactly those of them
  that match it (`RewriteEntry`), whether they were pushed there or copied from above. Where a list
  is merged, what is found for a request is therefore the list of all rules that match its path,
  the one to prefer last (`RewriteList`). `RewriteSearch` is about the search, which
  takes the list from its end: no rule that matches entirely was passed over, and the
  one that is applied precedes all others of these.

Assumptions are those of the constants named in the modules, all of them
evaluated by TLC, and the hypotheses `LogFirst`, `WellIndexed`, `AnonymizationAtTop`,
`NamesDecodeBack` and that roots are directories where stated. Most of them are about the modelling: `None` is
none of the values, a bound is a number, keys of two kinds differ. The others say
what the code or the system guarantees: `KindAssumption` that whatever exists is in
directories, `NamesAssumption` that the separator is part of no name and is not made by encoding one,
`SizesAssumption` and `RangesAssumption` that numbers are u64, `RewriteRulesAssumption` and
`RequestPathsAssumption` that the path of a rule has no empty segments and that of a request begins with a
separator. `ConfigurationsAssumption` of `HeaderRules` only says that settings, rules and the values of
list options are sequences.

Only model-checked:

* liveness (`EveryRequestEnds`, `SendersProceed`, `FilesReleased`) and the fairness
  part of `AccessLogSpec`;
* `ConfiguredAsDocumented`: `ConfigFiles` recurses
  over the nesting of types with RECURSIVE operators, which the provers do not support.

## Where code and documentation disagree

* **A request answered above the virtual hosts makes their log panic**
  (`PipelineMixed`). With the features `default-vhosts` and `response-top-level`
  a top-level response ends `request_filter` before the virtual host's log module has saved its
  tokens; `logging()` of the host found earlier unwraps an empty list
  (`common-log-module/src/handler.rs:195`). The comment there calls this "a bug
  that needs investigating". Other top-level modules that answer have the
  same effect.
* **The default virtual host loses its requests** (`PipelineDefaultHost`).
  `Router::lookup` returns an index of either trie, `Router::retrieve`
  (`router.rs:189`) looks it up in the trie of named hosts.
* **Rules get lost when a later setting names a new host** (`HeadersNewHost`).
  `push_merger` combines the entries of a host by position after making both
  lists equal (`merger.rs:657-683`); for a host that only one side has, the
  copy of the fallback's entries makes them different again, and `zip` pairs other
  paths. The rules that end up at a path they do not match are dropped.
* **The page for missing files is a file like any other** (`FilesMissing`).
  Preconditions and ranges meant for the missing file are evaluated against
  `page_404`: the answer may be 304, 412, 416 or a part of the page with status 404,
  where `docs/static-files-module.md:41` has the page displayed.

Seen on the way, without a run of their own:

* HUP and USR1 end the process until the first request is logged, as only that
  registers the listeners (action `Signal` of `CommonLog`);
  `docs/common-log-module.md:18` has no such exception.
* The comment at `virtual-hosts-module/src/handler.rs:219-221` says that exact rules are
  merged with the right prefix rule because all prefix rules have been added; if two
  entries name the same host this holds within one entry only.
* `path_to_uri` does not escape percent signs (`path.rs:22`): the canonical path of a file
  named `%62` comes out as `/%62`, which `resolve_uri` decodes to `b`. The request
  `/%2562`, which finds the file, is redirected to another one or to none. The
  constants of `VhostFilesMC` have no such name (`NamesDecodeBack`). Nor does it escape `?` and `#`: the
  location for a file `a?b` is `/a?b`, of which a client requests `/a` with a query. `VhostFilesMC` has such a
  name, and `RedirectsOnce` leaves out the requests for a path that was cut.
* An index file that is a link is served although it leads out of the root (`handler.rs:153-160`), while a
  link in the path of a request is refused. A precompressed variant is not compared with the root either.
* A `Cookie` header with a byte that is not visible ASCII is ignored as a whole (`page.rs:207`): who has logged in and
  carries such a cookie from elsewhere on the same site is sent to the login page again and again.
* `exclude: h/q` also excludes what is below `h/q`, and `include: [/a, /*]` loses `/a/x`
  (`docs/headers-module.md:138,141`); a rule with nothing but `exclude` applies
  nowhere (`docs/headers-module.md:137`).
* `${tail}` begins with a separator, so that a rule like the one in
  `rewrite-module/src/configuration.rs:244-247` gives `/another//file.txt`.
* An encoding with `q=0` is served all the same, and `*` brings in encodings
  that are named with a lower quality.
* A file replaced after its metadata was read is sent with the length and the
  validators of the other version; a download resumed by date may be continued with a
  precompressed variant that has the same modification time.
* A configuration file that is broken or missing does not end the start: all settings
  become the defaults (`pandora-web-server/src/main.rs:107-113`). `--test` goes through
  `Server::bootstrap`, which ends the process, before certificates and redirector
  have been looked at, and after such a file was replaced by defaults.
* A file that two patterns match is read twice, its lists are there twice.
* The keys of `server_names`, `redirect_by_name` and `vhosts` are whole lists of
  names: lists that overlap in a name are not merged, and which one counts depends on
  the order of a hash map.
* `docs/startup-module.md` has `tls` ignored for the redirector's addresses, the
  code rejects it (`redirector.rs:117`). The example of merging in
  `docs/server-configuration.md` has a field `aliases`, which the code does not know.
* Three features in `Opt` of `main.rs:78-91` are exchanged: options of the
  compression depend on the feature `auth-top-level`, and so on in a circle.
* The host name of a request ends at its first colon, which an IPv6 literal has inside.
* The canonical redirect loses a stripped prefix if a rewrite rule or the login page
  has replaced the URI in between, and a stripped prefix itself is not redirected
  to its form with a slash. A path below a regular file is answered with 500.
* A login page's cookie is not accepted by a handler of the same server in mode `http`.

## Plan

Written in this order, the most important behaviour first:

1. `RequestPipeline` with its proofs - done.
2. `AccessLog`, `CommonLog`, `CommonLogProof` - done.
3. `Routing`, `RouteTable`, `Trie`, `VirtualHosts` - done; composition through
   `Routing`.
4. `Merger`, `HeaderRules`, `RewriteRules` - done; composed in `RulesServed`.
5. `FileResponse` - done.
6. `AuthSessions`, `AuthSessionsProof` - done.
7. `StaticPath`, composed with the virtual hosts in `VhostFiles` - done.
8. `ConfigFiles`, `Startup`, composed in `ServerStart` - done.
9. Proofs of the pipeline's, the log's, the authentication's, the file server's and the
   virtual hosts' properties - done.
10. Proofs that `Trie` implements `RouteTable` and of its counters - done.
11. Proofs of the header and rewrite rules' properties, of the preferred encoding and of
    `Startup` - done.

Only the properties under "Only model-checked" have no proof.

## Not modelled, and why

The YAML parser and the TLS library are external, and so are sockets. The
attributes that the macros parse run at compile time; an error there is a compiler
error. The cookie jar belongs to the tests. Formatting
and escaping of log lines and the parsing of their format, HTML and JSON bodies,
MIME types, password hashing, signatures, masking of
address bits, compression algorithms, regular expressions and variables other than
the tail of a path are data that no property tells apart.
The exchange of data with an upstream server is pingora's.
Lines still in the channel when the server stops are lost; the code makes no
promise about them, and neither does `AccessLog`.
