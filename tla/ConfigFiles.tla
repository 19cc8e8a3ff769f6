----------------------------- MODULE ConfigFiles -----------------------------
(***************************************************************************)
(* Configuration files: patterns on the command line are resolved to       *)
(* files, the files are read one after another, and the fields of each are *)
(* merged into the configuration read so far, the way the derived          *)
(* DeserializeMap and DeserializeSeed implementations do.  Somebody may    *)
(* change the files in the meantime.                                       *)
(*                                                                         *)
(* A YAML value is [scalar |-> a string], [list |-> a sequence of values]  *)
(* or [map |-> a function from keys to values].  The Rust types are        *)
(* schemas, built by the constructors below.  A configuration structure is *)
(* a record of its own fields and of the structures flattened into it.     *)
(***************************************************************************)
EXTENDS Naturals, Sequences, FiniteSets, TLC, SequencesExt

CONSTANTS
    Schema,      \* of the whole configuration
    Paths,       \* numbers, in the alphabetical order of the file names
    Documents,   \* what a file can contain: a YAML value or Broken
    Broken,      \* no YAML
    Invalid,     \* a pattern that is no glob pattern
    MaxEdits     \* bound for TLC

VARIABLES
    phase,     \* "starting", "reading", "loaded"; later ones elsewhere
    patterns,  \* --conf: a sequence of sets of paths
    disk,      \* the configuration files there are
    edits,     \* how often they were changed while they were read
    todo,      \* files to be read
    document,  \* of the file being read
    rest,      \* its fields still to be visited
    conf,      \* the configuration
    read,      \* auxiliary: paths and documents of the files opened so far
    failed     \* auxiliary: load_from_files() returned an error

configVars == <<phase, patterns, disk, edits, todo, document, rest, conf, read, failed>>

-----------------------------------------------------------------------------
(* Types                                                                   *)

Value(default, accepted) == [type |-> "value", default |-> default, accepted |-> accepted]
Address == [type |-> "address"]
ListOf(s) == [type |-> "list", of |-> s]         \* OneOrMany<T>
MapTo(s) == [type |-> "map", of |-> s]           \* HashMap<_, String>
EntriesOf(s) == [type |-> "entries", of |-> s]   \* HashMap<_, structure>
Headers(names) == [type |-> "headers", names |-> names]   \* CustomHeadersConf

(* names: the fields by their names in a file; order: the flattened fields *)
(* as they are declared.                                                   *)
Struct(names, fields, order, flat) ==
    [type |-> "struct", names |-> names, fields |-> fields, order |-> order, flat |-> flat]
Plain(fields) == Struct([f \in DOMAIN fields |-> f], fields, <<>>, <<>>)
Flattened(order, flat) == Struct(<<>>, <<>>, order, flat)   \* merge_conf

(* Lists and maps are empty by default.                                    *)
RECURSIVE Default(_)
Default(s) ==
    CASE s.type = "value" -> s.default
      [] s.type = "struct" -> [own |-> [f \in DOMAIN s.fields |-> Default(s.fields[f])],
                               flat |-> [g \in DOMAIN s.flat |-> Default(s.flat[g])]]
      [] OTHER -> <<>>

(* MapVisitor::accepts_field of the derived and of the custom visitors     *)
RECURSIVE Accepts(_, _)
Accepts(s, name) ==
    \/ s.type = "headers"
    \/ /\ s.type = "struct"
       /\ \/ name \in DOMAIN s.names
          \/ \E g \in DOMAIN s.flat : Accepts(s.flat[g], name)

(* The flattened structures are asked in the order of their declaration.   *)
FirstAccepting(s, name) ==
    s.order[CHOOSE i \in DOMAIN s.order :
              /\ Accepts(s.flat[s.order[i]], name)
              /\ \A j \in 1 .. i - 1 : ~Accepts(s.flat[s.order[j]], name)]

-----------------------------------------------------------------------------
(* Which values can be deserialized                                        *)

IsScalar(v) == "scalar" \in DOMAIN v
IsList(v) == "list" \in DOMAIN v
IsMap(v) == "map" \in DOMAIN v

(* OneOrMany: a string or a map stands for a list of one.                  *)
AsMany(v) == IF IsList(v) THEN v.list ELSE <<v>>

ValidAddress(v) ==
    \/ IsScalar(v)
    \/ /\ IsMap(v)
       /\ DOMAIN v.map \subseteq {"addr", "tls", "ipv6_only"}
       /\ "addr" \in DOMAIN v.map
       /\ \A f \in DOMAIN v.map : IsScalar(v.map[f])
       /\ \A f \in DOMAIN v.map \ {"addr"} : v.map[f].scalar \in {"true", "false"}

RECURSIVE Valid(_, _), ValidField(_, _, _)
Valid(s, v) ==
    CASE s.type = "value" -> IsScalar(v) /\ v.scalar \in s.accepted
      [] s.type = "address" -> ValidAddress(v)
      [] s.type = "list" -> \A i \in DOMAIN AsMany(v) : Valid(s.of, AsMany(v)[i])
      [] s.type \in {"map", "entries"} ->
             IsMap(v) /\ \A k \in DOMAIN v.map : Valid(s.of, v.map[k])
      [] OTHER -> IsMap(v) /\ \A name \in DOMAIN v.map : ValidField(s, name, v.map[name])

(* A field nothing accepts is an error.                                    *)
ValidField(s, name, v) ==
    CASE s.type = "headers" -> name \in DOMAIN s.names /\ IsScalar(v)
      [] name \in DOMAIN s.names -> Valid(s.fields[s.names[name]], v)
      [] Accepts(s, name) -> ValidField(s.flat[FirstAccepting(s, name)], name, v)
      [] OTHER -> FALSE

-----------------------------------------------------------------------------
(* deserialize_merge: what becomes of the old value                        *)

(* Mutant: a list in a later file replaces the one read before.            *)
ReplacesList(s, old, v) == v

(* The entries of a list are appended to those there are.                  *)
Extended(s, old, v) == old \o v

(* Mutant: tls is optional, and nothing is put in its place.               *)
AddressAsGiven(v) ==
    LET field(f) == IF IsMap(v) /\ f \in DOMAIN v.map THEN v.map[f].scalar ELSE "none"
    IN  [addr |-> IF IsScalar(v) THEN v.scalar ELSE v.map["addr"].scalar,
         tls |-> field("tls"), ipv6_only |-> field("ipv6_only")]

AddressOf(v) ==
    LET field(f, default) ==
            IF IsMap(v) /\ f \in DOMAIN v.map THEN v.map[f].scalar ELSE default
    IN  [addr |-> IF IsScalar(v) THEN v.scalar ELSE v.map["addr"].scalar,
         tls |-> field("tls", "false"), ipv6_only |-> field("ipv6_only", "none")]

RECURSIVE Merge(_, _, _), VisitField(_, _, _, _)
Merge(s, old, v) ==
    CASE s.type = "value" -> v.scalar
      [] s.type = "address" -> AddressOf(v)
      [] s.type = "list" ->
             Extended(s, old, [i \in DOMAIN AsMany(v) |->
                                 Merge(s.of, Default(s.of), AsMany(v)[i])])
      [] s.type = "map" -> [k \in DOMAIN v.map |-> v.map[k].scalar] @@ old
      [] s.type = "entries" ->
             [k \in DOMAIN v.map |->
                Merge(s.of, IF k \in DOMAIN old THEN old[k] ELSE Default(s.of), v.map[k])] @@ old
      [] OTHER -> FoldSet(LAMBDA name, c : VisitField(s, c, name, v.map[name]),
                          old, DOMAIN v.map)

(* MapVisitor::visit_field                                                 *)
VisitField(s, c, name, v) ==
    CASE s.type = "headers" -> (s.names[name] :> v.scalar) @@ c
      [] name \in DOMAIN s.names ->
             [c EXCEPT !.own[s.names[name]] = Merge(s.fields[s.names[name]], @, v)]
      [] OTHER ->
             LET g == FirstAccepting(s, name)
             IN  [c EXCEPT !.flat[g] = VisitField(s.flat[g], @, name, v)]

-----------------------------------------------------------------------------
(* load_from_files                                                         *)

Ascending(S) == SetToSortSeq(S, <)
IsDocument(d) == d # Broken /\ IsMap(d)

(* Starting with an empty command line and the given files.                *)
ConfigInit ==
    /\ phase = "starting"
    /\ edits = 0 /\ todo = <<>> /\ document = Broken /\ rest = {}
    /\ conf = Default(Schema)
    /\ read = <<>> /\ failed = FALSE

(* Mutant: files are read in the order of the command line.                *)
AsGiven(files) == files

(* A file that two patterns match is there twice.                          *)
Sorted(files) == SortSeq(files, <)

(* A pattern yields the paths that match and exist; others are logged.     *)
Resolved(pattern) ==
    IF pattern = Invalid THEN <<>> ELSE Ascending(pattern \cap DOMAIN disk)

ResolvePatterns ==
    /\ phase = "starting"
    /\ todo' = Sorted(FlattenSeq([i \in DOMAIN patterns |-> Resolved(patterns[i])]))
    /\ phase' = "reading"
    /\ UNCHANGED <<patterns, disk, edits, document, rest, conf, read, failed>>

(* main() logs the error and goes on with the default configuration.       *)
Fail ==
    /\ phase' = "loaded" /\ conf' = Default(Schema) /\ failed' = TRUE
    /\ todo' = <<>> /\ rest' = {}

OpenFile ==
    /\ phase = "reading" /\ rest = {} /\ todo # <<>>
    /\ LET path == Head(todo) IN
       /\ path \in DOMAIN disk
       /\ document' = disk[path]
       /\ read' = Append(read, [path |-> path, document |-> disk[path]])
       /\ IF IsDocument(disk[path])
          THEN /\ rest' = DOMAIN disk[path].map
               /\ todo' = Tail(todo)
               /\ UNCHANGED <<phase, conf, failed>>
          ELSE Fail
    /\ UNCHANGED <<patterns, disk, edits>>

(* The file was removed after its name had been found.                     *)
FileMissing ==
    /\ phase = "reading" /\ rest = {} /\ todo # <<>>
    /\ Head(todo) \notin DOMAIN disk
    /\ Fail
    /\ read' = Append(read, [path |-> Head(todo), document |-> Broken])
    /\ UNCHANGED <<patterns, disk, edits, document>>

(* The fields of a file come in any order.                                 *)
Visit(name) ==
    /\ phase = "reading" /\ name \in rest
    /\ IF ValidField(Schema, name, document.map[name])
       THEN /\ conf' = VisitField(Schema, conf, name, document.map[name])
            /\ rest' = rest \ {name}
            /\ UNCHANGED <<phase, todo, failed>>
       ELSE Fail
    /\ UNCHANGED <<patterns, disk, edits, document, read>>

FilesRead ==
    /\ phase = "reading" /\ rest = {} /\ todo = <<>>
    /\ phase' = "loaded"
    /\ UNCHANGED <<patterns, disk, edits, todo, document, rest, conf, read, failed>>

(* Somebody removes a configuration file or writes one.                    *)
RemoveFile(path) ==
    /\ phase = "reading" /\ edits < MaxEdits /\ path \in DOMAIN disk
    /\ edits' = edits + 1
    /\ disk' = [p \in DOMAIN disk \ {path} |-> disk[p]]
    /\ UNCHANGED <<phase, patterns, todo, document, rest, conf, read, failed>>

WriteFile(path, d) ==
    /\ phase = "reading" /\ edits < MaxEdits
    /\ edits' = edits + 1
    /\ disk' = (path :> d) @@ disk
    /\ UNCHANGED <<phase, patterns, todo, document, rest, conf, read, failed>>

Loading ==
    \/ ResolvePatterns \/ OpenFile \/ FileMissing \/ FilesRead
    \/ \E name \in rest : Visit(name)

Editing ==
    \E path \in Paths : RemoveFile(path) \/ \E d \in Documents : WriteFile(path, d)

-----------------------------------------------------------------------------
(* What the files mean, setting by setting                                 *)

RECURSIVE Handles(_, _)
Handles(s, name) ==
    s.type = "headers" \/ name \in DOMAIN s.names \/ \E g \in DOMAIN s.flat : Handles(s.flat[g], name)

(* The names a structure has itself, and those of what is flattened at i.  *)
(* Names in taken belong to somebody else.                                 *)
OwnNames(s, f) == {n \in DOMAIN s.names : s.names[n] = f}
TakenBefore(s, i, names) ==
    {n \in names : \/ n \in DOMAIN s.names
                   \/ \E j \in 1 .. i - 1 : Handles(s.flat[s.order[j]], n)}

(* What a sequence of maps says about some keys, in the order of the maps. *)
Given(maps, keys) ==
    LET found == SelectSeq(maps, LAMBDA m : keys \cap DOMAIN m.map # {})
    IN  [i \in DOMAIN found |-> found[i].map[CHOOSE k \in keys : k \in DOMAIN found[i].map]]

(* The setting of type s that the values given for it in one file after    *)
(* another make: the last one, or all entries joined, or key by key.       *)
RECURSIVE Setting(_, _, _)
Setting(s, values, taken) ==
    LET keys == UNION {DOMAIN values[i].map : i \in DOMAIN values} \ taken
        flattened(g) == CHOOSE i \in DOMAIN s.order : s.order[i] = g
    IN  CASE s.type = "value" -> IF values = <<>> THEN s.default ELSE Last(values).scalar
          [] s.type = "address" -> AddressOf(Last(values))
          [] s.type = "list" ->
                 FlattenSeq([i \in DOMAIN values |->
                     [j \in DOMAIN AsMany(values[i]) |->
                         Setting(s.of, <<AsMany(values[i])[j]>>, {})]])
          [] s.type \in {"map", "entries"} -> [k \in keys |-> Setting(s.of, Given(values, {k}), {})]
          [] s.type = "headers" ->
                 [h \in {s.names[k] : k \in keys} |->
                    Last(Given(values, {k \in keys : s.names[k] = h})).scalar]
          [] OTHER ->
                 [own |-> [f \in DOMAIN s.fields |->
                             Setting(s.fields[f], Given(values, OwnNames(s, f) \ taken), {})],
                  flat |-> [g \in DOMAIN s.flat |->
                              Setting(s.flat[g], values,
                                      taken \union TakenBefore(s, flattened(g), keys))]]
=============================================================================
