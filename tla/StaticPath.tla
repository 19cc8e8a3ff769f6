------------------------------ MODULE StaticPath ------------------------------
(***************************************************************************)
(* How the static files module gets from the path of a request to a file,  *)
(* to a redirect or to an error: resolve_uri, path_to_uri and the part of  *)
(* the handler around them.  Paths of requests are split as in module      *)
(* Paths; a component of them is a number that stands for its characters,  *)
(* and so are the names between the slashes that it decodes to.  Names     *)
(* that no file can have, too long or with a NUL, are left out.            *)
(***************************************************************************)
EXTENDS Paths

CONSTANTS
    Decode,       \* component -> names between the slashes in what
                  \* percent_decode_str makes of it, where that changes it
    Encode,       \* name -> component: percent_encode, where it changes one
    Dot, DotDot,  \* the names "." and ".."
    Kind,         \* what there is at a path of names: "dir", "file", "locked"
                  \* (a directory that cannot be searched) or "other"
    Links,        \* symbolic links: where their targets really are
    IndexFiles,   \* index_file, names without a slash
    Page404,      \* page_404, a path as in a request, or None
    Canonicalize  \* canonicalize_uri

DecodedNames(c) == IF c \in DOMAIN Decode THEN Decode[c] ELSE <<c>>
EncodedName(n) == IF n \in DOMAIN Encode THEN Encode[n] ELSE n

Errors == {"invalid input", "invalid data", "not a directory", "permission denied", "not found"}
ASSUME ErrorsAssumption == None \notin Errors

Found(p) == [path |-> p, error |-> None]
Failed(e) == [path |-> None, error |-> e]

(* is_file() and opening a file follow a link; is_dir() is asked only of   *)
(* paths that have none.                                                   *)
Target(p) == IF p \in DOMAIN Links THEN Links[p] ELSE p
IsFile(p) == Target(p) \in DOMAIN Kind /\ Kind[Target(p)] = "file"
IsDir(p) == p \in DOMAIN Kind /\ Kind[p] \in {"dir", "locked"}

(* Whatever there is, is in directories that can be searched; what is a    *)
(* link is nothing else, and nothing is called "." or "..".                *)
ASSUME KindAssumption ==
    /\ <<>> \in DOMAIN Kind /\ Kind[<<>>] = "dir" /\ DOMAIN Kind \intersect DOMAIN Links = {}
    /\ \A p \in DOMAIN Kind \union DOMAIN Links :
        /\ p \in Seq(Nat \ {Empty, Dot, DotDot})
        /\ \A n \in 0 .. Len(p) - 1 :
               SubSeq(p, 1, n) \in DOMAIN Kind /\ Kind[SubSeq(p, 1, n)] = "dir"
ASSUME NamesAssumption ==
    /\ IndexFiles \in Seq(Nat) /\ Page404 \in Seq(Nat) \union {None}
    /\ Empty \notin DOMAIN Decode /\ \A c \in DOMAIN Decode : Decode[c] \in Seq(Nat)
    /\ \A n \in DOMAIN Encode : Encode[n] \in Nat \ {Empty}

(* Decoding what was encoded gives the names back that are there: those of *)
(* them which have a percent sign, that is not encoded, in the wrong place *)
(* are other names then.                                                   *)
NamesDecodeBack ==
    \A p \in DOMAIN Kind : \A i \in DOMAIN p : DecodedNames(EncodedName(p[i])) = <<p[i]>>

-----------------------------------------------------------------------------
(* resolve_uri                                                             *)

(* PathBuf::push: what begins with a slash takes the place of the path.    *)
Push(path, names) ==
    IF Len(names) > 1 /\ Head(names) = Empty THEN names ELSE path \o names

Pushed(root, components) ==
    LET pushed[n \in 0 .. Len(components)] ==
            IF n = 0 THEN root ELSE Push(pushed[n - 1], DecodedNames(components[n]))
    IN  pushed[Len(components)]

(* One more name for Path::canonicalize(); even no name at all makes it    *)
(* fail behind a file.                                                     *)
Entered(p, name) ==
    LET target == Target(Append(p, name))
    IN  IF ~IsDir(p) THEN Failed("not a directory")
        ELSE IF name \in {Empty, Dot} THEN Found(p)
        ELSE IF Kind[p] = "locked" THEN Failed("permission denied")
        ELSE IF name = DotDot THEN Found(IF p = <<>> THEN p ELSE SubSeq(p, 1, Len(p) - 1))
        ELSE IF target \in DOMAIN Kind THEN Found(target) ELSE Failed("not found")

Enter(result, name) ==
    IF result.error # None THEN result ELSE Entered(result.path, name)

Canonical(path) ==
    LET entered[n \in 0 .. Len(path)] ==
            IF n = 0 THEN Found(<<>>) ELSE Enter(entered[n - 1], path[n])
    IN  entered[Len(path)]

(* The components between the slash a path starts with, which it needs,    *)
(* and one at its end.                                                     *)
Components(uri) ==
    LET names == Tail(uri)
    IN  IF Len(uri) > 2 /\ uri[Len(uri)] = Empty THEN SubSeq(names, 1, Len(names) - 1)
        ELSE names

ResolveUri(uri, root) ==
    IF Len(uri) < 2 \/ Head(uri) # Empty THEN Failed("invalid input")
    ELSE LET result == Canonical(Pushed(root, Components(uri)))
         IN  IF result.error = None /\ ~IsPrefix(root, result.path)
             THEN Failed("invalid data") ELSE result

(* path_to_uri: ends with a slash for directories.                         *)
PathToUri(path, root) ==
    LET below == SubSeq(path, Len(root) + 1, Len(path))
    IN  <<Empty>> \o [i \in DOMAIN below |-> EncodedName(below[i])]
        \o (IF IsDir(path) \/ below = <<>> THEN <<Empty>> ELSE <<>>)

-----------------------------------------------------------------------------
(* StaticFilesHandler::request_filter                                      *)

StatusFor(error) ==
    CASE error \in {"invalid input", "invalid data"} -> 400
      [] error = "permission denied" -> 403
      [] error = "not found" -> 404
      [] OTHER -> 500

(* Mutant: the prefix that virtual hosts removed is lost.                  *)
LocationBelow(canonical, uri, original) == canonical

(* What was removed from the original URI in front of this one comes back. *)
Location(canonical, uri, original) ==
    LET removed == Len(original) - Len(Tail(uri))
    IN  IF Len(original) > Len(uri)
           /\ SubSeq(original, removed + 1, Len(original)) = Tail(uri)
        THEN SubSeq(original, 1, removed) \o Tail(canonical)
        ELSE canonical

(* Mutant: the last of the index files there are.                          *)
LastIndex(path) ==
    LET there == {i \in DOMAIN IndexFiles : IsFile(Append(path, IndexFiles[i]))}
    IN  IF ~IsDir(path) \/ there = {} THEN path
        ELSE Append(path, IndexFiles[CHOOSE i \in there : \A j \in there : j <= i])

(* The loop goes on with the path of the file it has found, below which    *)
(* there is nothing.  A link among the index files is not resolved, and so *)
(* not compared with the root.                                             *)
WithIndex(path) ==
    LET found[n \in 0 .. Len(IndexFiles)] ==
            IF n = 0 THEN path
            ELSE LET next == Append(found[n - 1], IndexFiles[n])
                 IN  IF IsFile(next) THEN next ELSE found[n - 1]
    IN  IF IsDir(path) THEN found[Len(IndexFiles)] ELSE path

ErrorAnswer(status) == [kind |-> "error", status |-> status]

(* The file of a path that was resolved: a regular one, or a link to one.  *)
FileAnswer(path, method, status) ==
    IF method \notin {"GET", "HEAD"} THEN ErrorAnswer(405)
    ELSE IF IsFile(WithIndex(path))
    THEN [kind |-> "file", status |-> status, file |-> Target(WithIndex(path))]
    ELSE ErrorAnswer(403)

(* The answer to a request for uri, original before virtual hosts changed  *)
(* it.  The query is copied to a location and nothing else.                *)
FilesAnswer(method, uri, original, root) ==
    LET result == ResolveUri(uri, root)
        page == IF Page404 = None THEN result ELSE ResolveUri(Page404, root)
        canonical == PathToUri(result.path, root)
    IN  IF result.error = "not found" /\ page.error = None THEN FileAnswer(page.path, method, 404)
        ELSE IF result.error # None THEN ErrorAnswer(StatusFor(result.error))
        ELSE IF Canonicalize /\ canonical # uri
        THEN [kind |-> "redirect", status |-> 308, location |-> Location(canonical, uri, original)]
        ELSE FileAnswer(result.path, method, 200)
=============================================================================
