------------------------------ MODULE VhostFiles ------------------------------
(***************************************************************************)
(* Static files in virtual hosts: VirtualHosts finds the handler of a      *)
(* request and may strip a prefix off its path, StaticPath answers for     *)
(* this handler, and the client follows a redirect it gets.                *)
(***************************************************************************)
EXTENDS VirtualHosts, StaticPath

CONSTANTS
    SiteRoot,      \* root of the handlers that see the whole path
    StrippedRoot,  \* root of those that see what is below their own one
    Methods,
    Cut            \* encoded component -> what a client takes of it, where it
                   \* has a "?" or "#", which path_to_uri does not encode

(* StaticFilesHandler::try_from: roots are paths of what there is.         *)
ASSUME RootsAssumption == SiteRoot \in DOMAIN Kind /\ StrippedRoot \in DOMAIN Kind
ASSUME CutAssumption ==
    Empty \notin DOMAIN Cut /\ \A component \in DOMAIN Cut : Cut[component] \in Nat

VARIABLES
    answer,    \* to the request, None before it was handled
    redirected \* the redirect that the client follows: the path it was sent
               \* for, the handler, and the location

filesVars == <<vars, answer, redirected>>

RootOf(h) == IF h.strip = None THEN SiteRoot ELSE StrippedRoot

FilesInit == Init /\ answer = None /\ redirected = None

Configure ==
    /\ TakeEntry \/ PushSubpath \/ FinishEntry
    /\ UNCHANGED <<answer, redirected>>

(* One request: the handlers keep nothing from one to the next.            *)
Receive(host, path) ==
    /\ request = None
    /\ EarlyRequestFilter(host, path)
    /\ answer' = None /\ redirected' = None

(* Requests without a virtual host are not handled at all.                 *)
RequestFilter(method) ==
    /\ handler # None /\ answer = None
    /\ answer' = FilesAnswer(method, uri, request.path, RootOf(handler))
    /\ UNCHANGED <<vars, redirected>>

(* A client takes the path of a location to end where a query or fragment  *)
(* seems to begin.                                                         *)
Parsed(location) ==
    LET cuts == {i \in DOMAIN location : location[i] \in DOMAIN Cut}
        first == CHOOSE i \in cuts : \A j \in cuts : i <= j
    IN  IF cuts = {} THEN location
        ELSE Append(SubSeq(location, 1, first - 1), Cut[location[first]])

Follow ==
    /\ answer # None /\ redirected = None /\ answer.kind = "redirect"
    /\ EarlyRequestFilter(request.host, Parsed(answer.location))
    /\ answer' = None
    /\ redirected' = [path |-> uri, handler |-> handler, location |-> answer.location]

FilesNext ==
    \/ Configure
    \/ \E host \in RequestHosts, path \in RequestPaths : Receive(host, path)
    \/ \E method \in Methods : RequestFilter(method)
    \/ Follow

FilesSpec == FilesInit /\ [][FilesNext]_filesVars

-----------------------------------------------------------------------------
(* A path as the handler h sees it; nothing if it is not for h.            *)
SeenBy(h, path) ==
    IF h.strip = None \/ h.strip = <<>> THEN path
    ELSE LET below == RemovePrefix(h.strip, path) IN IF below = None THEN <<>> ELSE below

(* A redirect leads to what was asked for, below the prefix that was       *)
(* stripped for the handler; and if the location is for the same handler,  *)
(* that does not redirect again.  This is not so where a name in the       *)
(* location has a "?" or "#" that a client takes for the end of the path.  *)
RedirectsOnce ==
    (answer # None /\ redirected # None /\ request.path = redirected.location) =>
        LET h == redirected.handler
        IN  /\ ResolveUri(SeenBy(h, request.path), RootOf(h)).path =
                    ResolveUri(redirected.path, RootOf(h)).path
            /\ handler = h => answer.kind # "redirect"

(* What was asked for, or the page for 404, is below the root of the       *)
(* handler.  Of a directory the first index file that exists is served,    *)
(* anything else is served itself; an index file that is a link is the     *)
(* only way to a file elsewhere, its target is not compared with the root. *)
ServesWhatIsThere ==
    (answer # None /\ answer.kind = "file") =>
        LET root == RootOf(handler)
            asked == ResolveUri(IF answer.status = 404 THEN Page404 ELSE uri, root).path
            candidate(i) == Append(asked, IndexFiles[i])
            first(i) == IsFile(candidate(i)) /\ \A j \in 1 .. i - 1 : ~IsFile(candidate(j))
        IN  /\ IsPrefix(root, asked)
            /\ IF IsDir(asked)
               THEN \E i \in DOMAIN IndexFiles :
                        /\ first(i) /\ answer.file = Target(candidate(i))
                        /\ candidate(i) \in DOMAIN Links \/ IsPrefix(root, answer.file)
               ELSE answer.file = asked
=============================================================================
