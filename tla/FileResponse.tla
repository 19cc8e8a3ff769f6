----------------------------- MODULE FileResponse -----------------------------
(***************************************************************************)
(* The second half of StaticFilesHandler::request_filter: a file is chosen *)
(* (possibly a precompressed one), its metadata read, preconditions and    *)
(* ranges are evaluated, a header is written, then the file is opened and  *)
(* sent in chunks.  Meanwhile files may be replaced, overwritten or        *)
(* removed, and the client may go away.  The client keeps what it gets of  *)
(* a file and uses it for conditional requests and to resume a download.   *)
(*                                                                         *)
(* A byte is a pair of the version it belongs to and its offset.           *)
(***************************************************************************)
EXTENDS Lists, FiniteSetsExt

CONSTANTS
    OutOfBounds,
    Precompressed,  \* the algorithms that are looked for, in this order
    Files,          \* files that may exist: pairs of name and encoding
    Sizes,          \* sizes they may have
    AtStart,        \* the files that exist at first, in the order of writing
    StartSize,      \* their size
    MaxVersions,    \* bound on the number of versions
    BufferSize,     \* BUFFER_SIZE
    Word,           \* number of values of u64
    Accepts,        \* values of Accept-Encoding: sequences of [name, quality]
    Ranges          \* values of Range: [first, last], one may be None

ASSUME FilesAssumption == AtStart \in Seq(Files) /\ IsInjective(AtStart)
ASSUME SizesAssumption ==
    /\ Sizes \subseteq Nat /\ StartSize \in Sizes /\ MaxVersions \in Nat /\ BufferSize \in Nat \ {0}
    /\ Word \in Nat /\ \A size \in Sizes : size + 1 < Word
(* What Range::parse makes of the text: u64 values, of which "-" has none. *)
MaybeNumbers == (0 .. Word - 1) \union {None}
Plain == "identity"
ASSUME EncodingsAssumption ==
    /\ Precompressed \in Seq(Range(Precompressed)) /\ Plain \notin Range(Precompressed)
    /\ Accepts \ {None} \subseteq Seq([name : STRING, quality : Nat])
ASSUME RangesAssumption ==
    /\ Ranges \subseteq [first : MaybeNumbers, last : MaybeNumbers]
    /\ \A range \in Ranges : range.first # None \/ range.last # None
(* None and OutOfBounds are no times, entity tags, If-Range values, ranges.*)
ASSUME NoneAssumption ==
    /\ None \notin Nat \union (Nat \X Nat)
    /\ None \notin {"etag", "date"} \X (Nat \union (Nat \X Nat))
    /\ {None, OutOfBounds} \cap [first : Nat \union {None}, last : Nat \union {None}] = {}

VARIABLES
    disk,      \* current version of each file, None if there is none
    versions,  \* every version there was: when it was written and its size
    calm,      \* files do not change while a request is processed
    phase,     \* what request_filter does next
    request,   \* method, Accept-Encoding and the conditional headers
    path,      \* the file that will be sent
    missing,   \* not_found
    meta,      \* Metadata
    status,    \* of the response, None before there is one
    start, end,  \* first and last byte to be sent
    length,    \* Content-Length
    handle,    \* the open file
    sent,      \* the bytes of the body so far
    copy       \* what the client has of the file, and its validators

files == <<disk, versions, calm>>
choice == <<path, missing, meta>>
response == <<status, start, end, length>>
vars == <<files, phase, request, choice, response, handle, sent, copy>>

Existing == {f \in Files : disk[f] # None}

-----------------------------------------------------------------------------
(* Precompressed files                                                     *)

(* Mutant: the worst encoding comes first.                                 *)
ByQualityAscending(accept) ==
    StableSort(accept, {pair \in Range(accept) \X Range(accept) : pair[1].quality < pair[2].quality})

(* The best encoding comes first.                                          *)
ByQuality(accept) ==
    StableSort(accept, {pair \in Range(accept) \X Range(accept) : pair[1].quality > pair[2].quality})

(* What find_matches has for an entry, of which rewrite_path finds a file. *)
Candidates(name, entry) ==
    Selected(Precompressed, {a \in Range(Precompressed) :
                                entry.name \in {"*", a} /\ <<name, a>> \in Existing})

(* Compression::rewrite_path: the first of them in the client's order.     *)
RewritePath(name, accept) ==
    LET wanted == IF accept = None THEN <<>> ELSE ByQuality(accept)
        found == Selected(wanted, {entry \in Range(wanted) : Candidates(name, entry) # <<>>})
    IN  <<name, IF found = <<>> THEN Plain ELSE Head(Candidates(name, Head(found)))>>

-----------------------------------------------------------------------------
(* Metadata and its validators; times have a resolution of one second      *)

(* Mutant: only the size counts.                                           *)
ETagOfSize(v) == v.size
ETag(v) == <<v.second, v.size>>
Modified(v) == v.second

HasFailedPrecondition ==
    IF request.ifMatch # None THEN request.ifMatch # ETag(meta)
    ELSE request.ifUnmodifiedSince \notin {None, Modified(meta)}

IsNotModified ==
    IF request.ifNoneMatch # None THEN request.ifNoneMatch = ETag(meta)
    ELSE request.ifModifiedSince = Modified(meta)

Minus(a, b) == (a - b) % Word

(* Range::parse                                                            *)
ParseRange(range, size) ==
    LET first == IF range.first = None THEN Minus(size, range.last) ELSE range.first
        last == IF None \in {range.first, range.last} THEN Minus(size, 1) ELSE range.last
    IN  IF \/ range.first = None /\ range.last > size
           \/ last >= size \/ first > last
        THEN OutOfBounds ELSE [first |-> first, last |-> last]

(* Mutant: If-Range is ignored.                                            *)
ExtractRangeAlways ==
    IF request.range = None THEN None ELSE ParseRange(request.range, meta.size)

ExtractRange ==
    IF \/ request.range = None
       \/ request.ifRange \notin {None, <<"etag", ETag(meta)>>, <<"date", Modified(meta)>>}
    THEN None ELSE ParseRange(request.range, meta.size)

-----------------------------------------------------------------------------
(* The files.  One written to its place is a new file; one overwritten     *)
(* where it is also changes for those who have it open.                    *)

Ended == phase \in {"idle", "done", "aborted"}
Now == IF versions = <<>> THEN 0 ELSE versions[Len(versions)].second

Write(f, size, second, inPlace) ==
    /\ Len(versions) < MaxVersions
    /\ calm => Ended
    /\ inPlace => disk[f] # None
    /\ LET number == Len(versions) + 1
           new == [number |-> number, second |-> second, size |-> size,
                   inode |-> IF inPlace THEN disk[f].inode ELSE number]
       IN  /\ disk' = [disk EXCEPT ![f] = new]
           /\ handle' = IF handle # None /\ handle.inode = new.inode THEN new ELSE handle
    /\ versions' = Append(versions, [second |-> second, size |-> size])
    /\ UNCHANGED <<calm, phase, request, choice, response, sent, copy>>

Delete(f) ==
    /\ f \in Existing
    /\ calm => Ended
    /\ disk' = [disk EXCEPT ![f] = None]
    /\ UNCHANGED <<versions, calm, phase, request, choice, response, handle, sent, copy>>

-----------------------------------------------------------------------------
(* The client                                                              *)

Complete == copy # None /\ Len(copy.body) = copy.size

Get(accept) ==
    [method |-> "GET", accept |-> accept, range |-> None, ifRange |-> None,
     ifMatch |-> None, ifUnmodifiedSince |-> None,
     ifNoneMatch |-> None, ifModifiedSince |-> None]

(* Whether the complete copy is still current.                             *)
Revalidations(get) ==
    {[get EXCEPT !.ifModifiedSince = copy.modified],
     [get EXCEPT !.ifNoneMatch = copy.etag, !.ifModifiedSince = copy.modified]}

(* The rest of an incomplete one, provided that the file is the same.      *)
Resumptions(get) ==
    LET rest == [get EXCEPT !.range = [first |-> Len(copy.body), last |-> None]]
    IN  {[rest EXCEPT !.ifRange = <<"etag", copy.etag>>],
         [rest EXCEPT !.ifRange = <<"date", copy.modified>>],
         [rest EXCEPT !.ifMatch = copy.etag, !.ifUnmodifiedSince = copy.modified]}

Requests ==
    UNION {LET get == Get(accept)
           IN  {get, [get EXCEPT !.method = "HEAD"], [get EXCEPT !.method = "POST"]}
               \union {[get EXCEPT !.range = range] : range \in Ranges}
               \union (IF Complete THEN Revalidations(get) ELSE {})
               \union (IF copy # None /\ ~Complete THEN Resumptions(get) ELSE {})
           : accept \in Accepts}

Resuming ==
    request.range # None /\ {request.ifRange, request.ifMatch} # {None}

(* What the client has after this response header.                         *)
CopyAfter(code) ==
    IF request.method # "GET" \/ code = 304 \/ code = 206 THEN copy
    ELSE IF code # 200 THEN None
    ELSE [etag |-> ETag(meta), modified |-> Modified(meta), size |-> meta.size,
          body |-> <<>>]

(* Whether it keeps the body.                                              *)
Kept == status = 200 \/ (status = 206 /\ Resuming)

-----------------------------------------------------------------------------
(* request_filter                                                          *)

Init ==
    /\ versions = [n \in DOMAIN AtStart |-> [second |-> 0, size |-> StartSize]]
    /\ disk = [f \in Files |->
            IF f \notin Range(AtStart) THEN None
            ELSE LET n == CHOOSE n \in DOMAIN AtStart : AtStart[n] = f
                 IN  [number |-> n, second |-> 0, size |-> StartSize, inode |-> n]]
    /\ calm \in BOOLEAN
    /\ phase = "idle" /\ request = None
    /\ path = None /\ missing = FALSE /\ meta = None
    /\ status = None /\ start = 0 /\ end = 0 /\ length = 0
    /\ handle = None /\ sent = <<>> /\ copy = None

NewRequest(r) ==
    /\ Ended
    /\ request' = r /\ phase' = "resolve"
    /\ path' = None /\ missing' = FALSE /\ meta' = None
    /\ status' = None /\ start' = 0 /\ end' = 0 /\ length' = 0
    /\ handle' = None /\ sent' = <<>>
    /\ UNCHANGED <<files, copy>>

(* A response without a body from a file.                                  *)
Answer(code) ==
    /\ phase' = "done" /\ status' = code /\ copy' = CopyAfter(code)
    /\ UNCHANGED <<files, request, choice, start, end, length, handle, sent>>

(* resolve_uri for the file, then for page_404.                            *)
Resolve ==
    /\ phase = "resolve"
    /\ missing' = (<<"file", Plain>> \notin Existing)
    /\ LET name == IF missing' THEN "page" ELSE "file"
       IN  /\ <<name, Plain>> \in Existing
           /\ path' = <<name, Plain>>
    /\ phase' = "choose"
    /\ UNCHANGED <<files, request, meta, response, handle, sent, copy>>

NotFound ==
    /\ phase = "resolve" /\ {<<"file", Plain>>, <<"page", Plain>>} \cap Existing = {}
    /\ Answer(404)

DenyMethod ==
    /\ phase = "choose" /\ request.method \notin {"GET", "HEAD"}
    /\ Answer(405)

Choose ==
    /\ phase = "choose" /\ request.method \in {"GET", "HEAD"}
    /\ path' = RewritePath(path[1], request.accept)
    /\ phase' = "metadata"
    /\ UNCHANGED <<files, request, missing, meta, response, handle, sent, copy>>

ReadMetadata ==
    /\ phase = "metadata" /\ path \in Existing
    /\ meta' = disk[path] /\ phase' = "respond"
    /\ UNCHANGED <<files, request, path, missing, response, handle, sent, copy>>

MetadataError ==
    /\ phase = "metadata" /\ path \notin Existing
    /\ Answer(500)

PreconditionFailed ==
    /\ phase = "respond" /\ HasFailedPrecondition
    /\ Answer(412)

NotModified ==
    /\ phase = "respond" /\ ~HasFailedPrecondition /\ IsNotModified
    /\ Answer(304)

Proceeding == phase = "respond" /\ ~HasFailedPrecondition /\ ~IsNotModified

RangeNotSatisfiable ==
    /\ Proceeding /\ ExtractRange = OutOfBounds
    /\ Answer(416)

(* The status is that of a missing file, even for a part of its page.      *)
WriteHeader(code, first, last, len) ==
    /\ status' = IF missing THEN 404 ELSE code
    /\ start' = first /\ end' = last /\ length' = len
    /\ copy' = CopyAfter(status')
    /\ phase' = IF request.method = "HEAD" THEN "done" ELSE "open"
    /\ UNCHANGED <<files, request, choice, handle, sent>>

PartialContent ==
    /\ Proceeding /\ ExtractRange \notin {None, OutOfBounds}
    /\ LET range == ExtractRange
       IN  WriteHeader(206, range.first, range.last, range.last - range.first + 1)

WholeFile ==
    /\ Proceeding /\ ExtractRange = None
    /\ WriteHeader(200, 0, Minus(meta.size, 1), meta.size)

-----------------------------------------------------------------------------
(* file_response                                                           *)

Abort ==
    /\ phase' = "aborted"
    /\ UNCHANGED <<files, request, choice, response, handle, sent, copy>>

Open ==
    /\ phase = "open" /\ path \in Existing
    /\ handle' = disk[path] /\ phase' = "body"
    /\ UNCHANGED <<files, request, choice, response, sent, copy>>

OpenError == phase = "open" /\ path \notin Existing /\ Abort

Remaining == (Minus(end, start) + 1 - Len(sent)) % Word
(* Mutant: the file is not positioned.                                     *)
PositionUnsought == Len(sent)
Position == start + Len(sent)

SendChunk ==
    /\ phase = "body" /\ Remaining > 0 /\ Position < handle.size
    /\ LET len == Min({Remaining, BufferSize, handle.size - Position})
           chunk == [i \in 1..len |-> <<handle.number, Position + i - 1>>]
       IN  /\ sent' = sent \o chunk
           /\ copy' = IF Kept THEN [copy EXCEPT !.body = @ \o chunk] ELSE copy
    /\ UNCHANGED <<files, phase, request, choice, response, handle>>

FileEnded == phase = "body" /\ Remaining > 0 /\ Position >= handle.size /\ Abort

(* Mutant: the end of the file ends the response as well.                  *)
EndBodyWithFile ==
    /\ phase = "body" /\ (Remaining = 0 \/ Position >= handle.size)
    /\ phase' = "done"
    /\ UNCHANGED <<files, request, choice, response, handle, sent, copy>>

EndBody ==
    /\ phase = "body" /\ Remaining = 0
    /\ phase' = "done"
    /\ UNCHANGED <<files, request, choice, response, handle, sent, copy>>

(* The header or a part of the body cannot be written.                     *)
ClientGone == phase \in {"respond", "body"} /\ Abort

-----------------------------------------------------------------------------
Serve ==
    \/ Resolve \/ NotFound \/ DenyMethod \/ Choose
    \/ ReadMetadata \/ MetadataError
    \/ PreconditionFailed \/ NotModified \/ RangeNotSatisfiable
    \/ PartialContent \/ WholeFile
    \/ Open \/ OpenError \/ SendChunk \/ FileEnded \/ EndBody

Next ==
    \/ \E f \in Files, size \in Sizes, second \in {Now, Now + 1}, inPlace \in BOOLEAN :
            Write(f, size, second, inPlace)
    \/ \E f \in Files : Delete(f)
    \/ \E r \in Requests : NewRequest(r)
    \/ Serve \/ ClientGone

Spec == Init /\ [][Next]_vars

-----------------------------------------------------------------------------
(* A response that is ended normally has as many bytes as its header       *)
(* promised, whatever happened to the file in between; otherwise the       *)
(* connection is torn down (file_response reports an error).               *)
HasBody == status \in {200, 206} \/ (status = 404 /\ meta # None)
LengthKept ==
    phase = "done" /\ HasBody /\ request.method = "GET" => Len(sent) = length

(* As long as files do not change meanwhile, the body is exactly the       *)
(* requested part of the file that the header describes: the bytes from    *)
(* start to end of one version, within its bounds.                         *)
ExactBytes ==
    calm /\ phase = "done" /\ HasBody /\ request.method = "GET" =>
        /\ sent = [i \in 1..length |-> <<meta.number, start + i - 1>>]
        /\ start + length <= meta.size
        /\ status = 200 => length = meta.size
        /\ status = 206 /\ request.range.first # None => start = request.range.first
        /\ status = 206 /\ request.range.first = None => start + request.range.last = meta.size

(* A client that is told that its complete copy is current has no byte     *)
(* older than the second in which the file was last written, files         *)
(* changing during requests or not: the metadata is read before the file   *)
(* is opened.                                                              *)
NotModifiedIsFresh ==
    phase = "done" /\ status = 304 /\ ~missing =>
        \A b \in Range(copy.body) : Modified(versions[b[1]]) >= Modified(meta)

(* A download put together from several responses does not mix versions    *)
(* which the validators can tell apart, and it has no gap.                 *)
CopyConsistent ==
    calm /\ Complete =>
        \A i \in DOMAIN copy.body :
            /\ copy.body[i][2] = i - 1
            /\ Modified(versions[copy.body[i][1]]) = copy.modified

(* A precompressed file is sent only if the client names its encoding, in  *)
(* whatever quality, always if there is such a file, and none that exists  *)
(* has a higher quality.  That of the original is ignored.                 *)
Preferred(encoding, accept) ==
    /\ encoding # Plain =>
            /\ <<path[1], encoding>> \in Existing
            /\ \E i \in DOMAIN accept : accept[i].name \in {encoding, "*"}
    /\ \A a \in Range(Precompressed) : \A i \in DOMAIN accept :
            <<path[1], a>> \in Existing /\ accept[i].name \in {a, "*"} =>
                /\ encoding # Plain
                /\ \E j \in DOMAIN accept : /\ accept[j].name \in {encoding, "*"}
                                            /\ accept[j].quality >= accept[i].quality
PreferredEncoding ==
    [][phase = "choose" /\ phase' = "metadata" /\ request.accept # None
         => Preferred(path'[2], request.accept)]_vars

(* What docs/static-files-module.md says about page_404: the page is       *)
(* displayed if the file is missing.                                       *)
MissingPageShown ==
    calm /\ phase = "done" /\ missing /\ request.method = "GET" =>
        status = 404 /\ Len(sent) = meta.size
=============================================================================
