--------------------------- MODULE FileResponseProof ---------------------------
(***************************************************************************)
(* Proofs about FileResponse: what is sent of a file, what the client is   *)
(* told about its copy and what it can put together from several answers,  *)
(* for any files, sizes, ranges and encodings, any number of changes to    *)
(* the files and any size of the buffer.                                   *)
(***************************************************************************)
EXTENDS FileResponse, SequenceLemmas

-----------------------------------------------------------------------------
(* Arithmetic of u64, and sequences                                        *)

LEMMA Modulo ==
    ASSUME NEW x \in Int, 0 <= x, x < Word
    PROVE  x % Word = x
BY SizesAssumption

LEMMA WholeWord == Word % Word = 0
BY SizesAssumption

LEMMA MinusBelow ==
    ASSUME NEW a \in Nat, NEW b \in Nat, b <= a, a < Word
    PROVE  Minus(a, b) = a - b
BY Modulo, SizesAssumption DEF Minus

LEMMA MinusOne == Minus(0, 1) = Word - 1
BY SizesAssumption DEF Minus

LEMMA MinOf ==
    \A a, b, c \in Int :
        /\ Min({a, b, c}) \in {a, b, c}
        /\ Min({a, b, c}) <= a /\ Min({a, b, c}) <= b /\ Min({a, b, c}) <= c
BY DEF Min

Positions == Nat \X Nat

LEMMA Joined ==
    \A s, t \in Seq(Positions) :
        /\ s \o t \in Seq(Positions)
        /\ Len(s \o t) = Len(s) + Len(t)
        /\ \A i \in 1 .. Len(s \o t) :
                (s \o t)[i] = IF i <= Len(s) THEN s[i] ELSE t[i - Len(s)]
OBVIOUS

(* A chunk of n bytes of one version, from the given offset on.            *)
Chunk(n, number, offset) == [i \in 1 .. n |-> <<number, offset + i - 1>>]

LEMMA ChunkIsSequence ==
    \A n, number, offset \in Nat :
        /\ Chunk(n, number, offset) \in Seq(Positions)
        /\ Len(Chunk(n, number, offset)) = n
        /\ \A i \in 1 .. n : Chunk(n, number, offset)[i] = <<number, offset + i - 1>>
BY DEF Chunk, Positions

LEMMA Appended ==
    ASSUME NEW S, NEW s \in Seq(S), NEW x \in S
    PROVE  /\ Append(s, x) \in Seq(S)
           /\ Len(Append(s, x)) = Len(s) + 1
           /\ \A i \in 1 .. Len(s) : Append(s, x)[i] = s[i]
           /\ Append(s, x)[Len(s) + 1] = x
OBVIOUS

-----------------------------------------------------------------------------
(***************************************************************************)
(* The inductive invariant                                                 *)
(***************************************************************************)
Versions == [second : Nat, size : Sizes]
Numbers == 1 .. Len(versions)
Second(n) == versions[n].second

OfVersion(v) ==
    /\ v.number \in Numbers
    /\ v.second = Second(v.number) /\ v.size = versions[v.number].size

(* What is on disk are versions, and time does not go back.                *)
FilesInv ==
    /\ versions \in Seq(Versions)
    /\ \A m, n \in Numbers : m <= n => Second(m) <= Second(n)
    /\ DOMAIN disk = Files
    /\ \A f \in Existing : OfVersion(disk[f])

(* A byte at this offset, not older than that second.                      *)
ByteAt(b, offset, second) ==
    b[1] \in Numbers /\ b[2] = offset /\ Second(b[1]) >= second

(* The client's copy has no gap and nothing older than its validators.     *)
CopyOK ==
    /\ copy \in [etag : Nat \X Nat, modified : Nat, size : Sizes, body : Seq(Positions)]
    /\ copy.etag = <<copy.modified, copy.size>>
    /\ \A i \in 1 .. Len(copy.body) :
        /\ ByteAt(copy.body[i], i - 1, copy.modified)
        /\ calm => Second(copy.body[i][1]) = copy.modified

CopyInv == copy # None => CopyOK

(* Until it is answered, a request is what the client would still send.    *)
RequestInv ==
    /\ phase \in {"resolve", "choose", "metadata"} => meta = None
    /\ phase \in {"resolve", "choose", "metadata", "respond"} =>
            request \in Requests /\ sent = <<>>
    /\ phase \in {"metadata", "respond"} => request.method \in {"GET", "HEAD"}

(* The file is at least as new as the metadata read before it is opened.   *)
MetaInv ==
    /\ phase \in {"respond", "open", "body"} => OfVersion(meta)
    /\ phase \in {"respond", "open"} =>
            /\ path \in Existing => disk[path].second >= meta.second
            /\ calm => path \in Existing /\ disk[path] = meta
    /\ phase = "body" =>
            OfVersion(handle) /\ handle.second >= meta.second /\ (calm => handle = meta)

(* start, end and Content-Length belong together, also for an empty file,  *)
(* and are what was requested of the file that meta describes.             *)
Extent ==
    /\ start \in Nat /\ length \in Nat
    /\ IF length = 0 THEN start = 0 /\ end = Word - 1 ELSE end = start + length - 1
    /\ start + length <= meta.size
    /\ status = 200 => start = 0 /\ length = meta.size
    /\ status = 206 /\ request.range.first # None => start = request.range.first
    /\ status = 206 /\ request.range.first = None => start + request.range.last = meta.size

Body ==
    /\ sent \in Seq(Positions) /\ Len(sent) <= length
    /\ \A i \in 1 .. Len(sent) :
        /\ ByteAt(sent[i], start + i - 1, meta.second)
        /\ calm => sent[i][1] = meta.number

Responding ==
    phase \in {"open", "body"} \/ (phase = "done" /\ HasBody /\ request.method = "GET")

ResponseInv ==
    /\ Responding => OfVersion(meta) /\ Extent /\ Body
    /\ phase = "open" => sent = <<>>
    /\ phase = "done" /\ Responding => Len(sent) = length
    /\ phase \in {"open", "body"} =>
           /\ request.method = "GET" /\ status \in {200, 206, 404}
           /\ Kept => /\ CopyOK /\ copy.modified = meta.second
                      /\ Len(copy.body) = start + Len(sent)

FreshInv == phase = "done" /\ status = 304 => copy # None /\ copy.modified = meta.second

IInv == FilesInv /\ CopyInv /\ RequestInv /\ MetaInv /\ ResponseInv /\ FreshInv

-----------------------------------------------------------------------------
LEMMA InitInv == Init => IInv
<1> SUFFICES ASSUME Init PROVE IInv
    OBVIOUS
<1> DEFINE N == Len(AtStart)
<1>1. /\ N \in Nat /\ DOMAIN AtStart = 1 .. N
      /\ versions \in Seq(Versions) /\ Len(versions) = N
      /\ \A n \in 1 .. N : versions[n] = [second |-> 0, size |-> StartSize]
  <2> DEFINE first == [second |-> 0, size |-> StartSize]
  <2>1. N \in Nat /\ DOMAIN AtStart = 1 .. N
    BY FilesAssumption
  <2>2. versions = [n \in 1 .. N |-> first]
    BY <2>1 DEF Init
  <2>3. first \in Versions
    BY SizesAssumption DEF Versions
  <2> HIDE DEF first, N
  <2>4. versions \in Seq(Versions) /\ Len(versions) = N /\ \A n \in 1 .. N : versions[n] = first
    BY <2>1, <2>2, <2>3
  <2> QED
    BY <2>1, <2>4 DEF first
<1>2. \A m, n \in Numbers : m <= n => Second(m) <= Second(n)
    BY <1>1 DEF Numbers, Second
<1>3. ASSUME NEW f \in Existing
      PROVE  OfVersion(disk[f])
  <2>1. f \in Files /\ f \in Range(AtStart)
    BY <1>3 DEF Existing, Init
  <2>2. PICK k \in DOMAIN AtStart : AtStart[k] = f
    BY <2>1 DEF Range
  <2> DEFINE m == CHOOSE n \in DOMAIN AtStart : AtStart[n] = f
  <2>3. m \in 1 .. N
    BY <1>1, <2>2
  <2>4. disk[f] = [number |-> m, second |-> 0, size |-> StartSize, inode |-> m]
    BY <2>1 DEF Init
  <2> HIDE DEF m
  <2> QED
    BY <1>1, <2>3, <2>4 DEF OfVersion, Numbers, Second
<1>4. FilesInv
    BY <1>1, <1>2, <1>3 DEF FilesInv, Init
<1> QED
    BY <1>4 DEF Init, IInv, CopyInv, RequestInv, MetaInv, ResponseInv, Responding, FreshInv

-----------------------------------------------------------------------------
(***************************************************************************)
(* Files change.                                                           *)
(***************************************************************************)
LEMMA RequestsKept == copy' = copy => Requests' = Requests
<1> SUFFICES ASSUME copy' = copy PROVE Requests' = Requests
    OBVIOUS
<1>1. Complete' <=> Complete
    BY DEF Complete
<1>2. \A get : Revalidations(get)' = Revalidations(get)
    BY DEF Revalidations
<1>3. \A get : Resumptions(get)' = Resumptions(get)
    BY DEF Resumptions
<1> QED
    BY <1>1, <1>2, <1>3 DEF Requests

LEMMA VersionsGrow ==
    ASSUME FilesInv, NEW size \in Sizes, NEW second \in {Now, Now + 1},
           versions' = Append(versions, [second |-> second, size |-> size])
    PROVE  /\ versions' \in Seq(Versions) /\ Len(versions') = Len(versions) + 1
           /\ \A n \in Numbers : versions'[n] = versions[n]
           /\ versions'[Len(versions) + 1] = [second |-> second, size |-> size]
           /\ second \in Nat /\ \A n \in Numbers : Second(n) <= second
           /\ Len(versions) \in Nat /\ \A n \in Numbers : Second(n) \in Nat
<1> DEFINE new == [second |-> second, size |-> size]
<1>1. versions \in Seq(Versions) /\ Len(versions) \in Nat
    BY DEF FilesInv
<1>2. \A n \in Numbers : versions[n] \in Versions
    BY <1>1 DEF Numbers
<1>3. \A n \in Numbers : Second(n) \in Nat
    BY <1>2 DEF Second, Versions
<1>4. Now \in Nat /\ \A n \in Numbers : Second(n) <= Now
  <2>1. CASE versions = <<>>
    BY <2>1 DEF Now, Numbers
  <2>2. CASE versions # <<>>
    <3>1. Len(versions) \in Numbers
      BY <1>1, <2>2 DEF Numbers
    <3>2. Now = Second(Len(versions))
      BY <2>2 DEF Now, Second
    <3> QED
      BY <1>3, <3>1, <3>2 DEF FilesInv, Numbers
  <2> QED
    BY <2>1, <2>2
<1>5. second \in Nat /\ \A n \in Numbers : Second(n) <= second
    BY <1>3, <1>4
<1>6. new \in Versions
    BY <1>5 DEF Versions
<1> HIDE DEF new
<1>7. /\ versions' \in Seq(Versions) /\ Len(versions') = Len(versions) + 1
      /\ \A n \in Numbers : versions'[n] = versions[n]
      /\ versions'[Len(versions) + 1] = new
    BY <1>1, <1>6, Appended DEF new, Numbers
<1> QED
    BY <1>1, <1>3, <1>5, <1>7 DEF new

LEMMA WriteInv ==
    ASSUME IInv, NEW f \in Files, NEW size \in Sizes, NEW second \in {Now, Now + 1},
           NEW inPlace \in BOOLEAN, Write(f, size, second, inPlace)
    PROVE  IInv'
<1> DEFINE number == Len(versions) + 1
           new == [number |-> number, second |-> second, size |-> size,
                   inode |-> IF inPlace THEN disk[f].inode ELSE number]
<1>1. versions' = Append(versions, [second |-> second, size |-> size])
    BY DEF Write
<1>2. /\ versions' \in Seq(Versions) /\ Len(versions') = number
      /\ \A n \in Numbers : versions'[n] = versions[n]
      /\ versions'[number] = [second |-> second, size |-> size]
      /\ second \in Nat /\ \A n \in Numbers : Second(n) <= second
      /\ Len(versions) \in Nat /\ \A n \in Numbers : Second(n) \in Nat
    BY <1>1, VersionsGrow DEF IInv
<1>3. disk' = [disk EXCEPT ![f] = new] /\ handle' \in {handle, new}
    BY DEF Write
<1>4. UNCHANGED <<calm, phase, request, path, missing, meta, status, start, end,
                  length, sent, copy>>
    BY DEF Write, choice, response
<1>5. calm => phase \in {"idle", "done", "aborted"}
    BY DEF Write, Ended
<1>6. Numbers' = 1 .. number /\ Numbers \subseteq Numbers' /\ number \in Numbers'
    BY <1>2 DEF Numbers
<1>7. /\ new.number = number /\ new.second = second /\ new.size = size
      /\ versions'[new.number].second = new.second
      /\ versions'[new.number].size = new.size
    BY <1>2
<1> HIDE DEF number, new
<1>8. \A n \in Numbers : n \in Numbers' /\ versions'[n].second = Second(n)
                         /\ versions'[n].size = versions[n].size
    BY <1>2, <1>6 DEF Second
<1>9. \A g \in Files : disk'[g] = IF g = f THEN new ELSE disk[g]
    BY <1>3 DEF IInv, FilesInv
<1>10. FilesInv'
  <2>1. \A m, n \in Numbers' : m <= n => Second(m)' <= Second(n)'
    BY <1>2, <1>6, <1>8 DEF IInv, FilesInv, Numbers, Second, number
  <2>2. DOMAIN disk' = Files
    BY <1>3 DEF IInv, FilesInv
  <2>3. ASSUME NEW g \in Existing'
        PROVE  OfVersion(disk[g])'
    BY <1>6, <1>7, <1>8, <1>9 DEF IInv, FilesInv, Existing, OfVersion, Second
  <2> QED
    BY <1>2, <2>1, <2>2, <2>3 DEF FilesInv
<1>11. CopyOK => CopyOK'
    BY <1>4, <1>8 DEF CopyOK, ByteAt, Second
<1>12. RequestInv'
    BY <1>4, RequestsKept DEF IInv, RequestInv
<1>13. MetaInv'
  <2>1. OfVersion(meta) => OfVersion(meta)' /\ meta.second <= second
    BY <1>2, <1>4, <1>8 DEF OfVersion, Second
  <2>2. OfVersion(handle) => OfVersion(handle)'
    BY <1>3, <1>6, <1>7, <1>8 DEF OfVersion, Second
  <2>3. ASSUME phase \in {"respond", "open"}, path \in Existing'
        PROVE  disk'[path].second >= meta.second
    <3>1. path \in Files
      BY <1>4, <2>3 DEF Existing
    <3>2. CASE path = f
      BY <1>7, <1>9, <2>1, <2>3, <3>1, <3>2, <1>2 DEF IInv, MetaInv, OfVersion, Second
    <3>3. CASE path # f
      BY <1>9, <2>3, <3>1, <3>3 DEF IInv, MetaInv, Existing
    <3> QED
      BY <3>2, <3>3
  <2>4. phase = "body" => handle'.second >= meta.second
    BY <1>2, <1>3, <1>7, <2>1 DEF IInv, MetaInv, OfVersion, Second
  <2> QED
    BY <1>4, <1>5, <2>1, <2>2, <2>3, <2>4 DEF IInv, MetaInv
<1>14. ResponseInv'
  <2>1. OfVersion(meta) => OfVersion(meta)'
    BY <1>4, <1>8 DEF OfVersion, Second
  <2>2. Extent => Extent'
    BY <1>4 DEF Extent
  <2>3. Body => Body'
    BY <1>4, <1>8 DEF Body, ByteAt, Second
  <2>4. (Responding' <=> Responding) /\ (Kept' <=> Kept)
    BY <1>4 DEF Responding, HasBody, Kept, Resuming
  <2> QED
    BY <1>4, <1>11, <2>1, <2>2, <2>3, <2>4 DEF IInv, ResponseInv
<1>15. FreshInv'
    BY <1>4 DEF IInv, FreshInv
<1> QED
    BY <1>4, <1>10, <1>11, <1>12, <1>13, <1>14, <1>15 DEF IInv, CopyInv

LEMMA DeleteInv ==
    ASSUME IInv, NEW f \in Files, Delete(f)
    PROVE  IInv'
<1>1. /\ disk' = [disk EXCEPT ![f] = None]
      /\ UNCHANGED <<versions, calm, phase, request, path, missing, meta, status, start,
                     end, length, handle, sent, copy>>
    BY DEF Delete, choice, response
<1>2. calm => phase \in {"idle", "done", "aborted"}
    BY DEF Delete, Ended
<1>3. Existing' \subseteq Existing /\ \A g \in Existing' : disk'[g] = disk[g]
    BY <1>1 DEF IInv, FilesInv, Existing
<1>4. FilesInv'
    BY <1>1, <1>3 DEF IInv, FilesInv, Numbers, Second, OfVersion
<1>5. (CopyOK' <=> CopyOK) /\ (CopyInv' <=> CopyInv)
    BY <1>1 DEF CopyInv, CopyOK, ByteAt, Numbers, Second
<1>6. RequestInv'
    BY <1>1, RequestsKept DEF IInv, RequestInv
<1>7. MetaInv'
    BY <1>1, <1>2, <1>3 DEF IInv, MetaInv, OfVersion, Numbers, Second
<1>8. ResponseInv'
  <2>1. OfVersion(meta)' <=> OfVersion(meta)
    BY <1>1 DEF OfVersion, Numbers, Second
  <2>2. (Extent' <=> Extent) /\ (Body' <=> Body)
    BY <1>1 DEF Extent, Body, ByteAt, Numbers, Second
  <2>3. (Responding' <=> Responding) /\ (Kept' <=> Kept)
    BY <1>1 DEF Responding, HasBody, Kept, Resuming
  <2> QED
    BY <1>1, <1>5, <2>1, <2>2, <2>3 DEF IInv, ResponseInv
<1>9. FreshInv'
    BY <1>1 DEF IInv, FreshInv
<1> QED
    BY <1>4, <1>5, <1>6, <1>7, <1>8, <1>9 DEF IInv

-----------------------------------------------------------------------------
(***************************************************************************)
(* Requests, and answers without a part of a file.                         *)
(***************************************************************************)
(* What a state keeps while the files are the same.                        *)
LEMMA SameFiles ==
    ASSUME IInv, UNCHANGED <<versions, disk, calm>>
    PROVE  /\ FilesInv' /\ Numbers' = Numbers /\ Existing' = Existing
           /\ copy' \in {copy, None} => CopyInv'
BY DEF IInv, FilesInv, Existing, OfVersion, CopyInv, CopyOK, ByteAt, Numbers, Second

LEMMA SameCopy ==
    ASSUME UNCHANGED <<versions, calm, copy>>
    PROVE  CopyOK' <=> CopyOK
<1>1. \A i : copy'.body[i] = copy.body[i] /\ (calm' <=> calm) /\ copy'.modified = copy.modified
    OBVIOUS
<1>2. \A b, o, s : ByteAt(b, o, s)' <=> ByteAt(b, o, s)
    BY DEF ByteAt, Numbers, Second
<1>3. \A n : Second(n)' = Second(n)
    BY DEF Second
<1> QED
    BY <1>1, <1>2, <1>3 DEF CopyOK

LEMMA NewRequestInv ==
    ASSUME IInv, NEW r \in Requests, NewRequest(r)
    PROVE  IInv'
<1>1. FilesInv' /\ CopyInv'
    BY SameFiles DEF NewRequest, files
<1>2. RequestInv'
    BY RequestsKept DEF NewRequest, RequestInv
<1>3. MetaInv' /\ ResponseInv' /\ FreshInv'
    BY DEF NewRequest, MetaInv, ResponseInv, Responding, FreshInv
<1> QED
    BY <1>1, <1>2, <1>3 DEF IInv

LEMMA AnswerInv ==
    ASSUME IInv, NEW code \in {304, 404, 405, 412, 416, 500}, Answer(code),
           code = 404 => meta = None,
           code = 304 => copy # None /\ copy.modified = meta.second
    PROVE  IInv'
<1>1. copy' \in {copy, None} /\ (code = 304 => copy' = copy)
    BY DEF Answer, CopyAfter
<1>2. FilesInv' /\ CopyInv'
    BY <1>1, SameFiles DEF Answer, files
<1>3. RequestInv' /\ MetaInv' /\ FreshInv'
    BY <1>1 DEF Answer, choice, RequestInv, MetaInv, FreshInv
<1>4. ResponseInv'
    BY DEF Answer, choice, ResponseInv, Responding, HasBody
<1> QED
    BY <1>2, <1>3, <1>4 DEF IInv

LEMMA ChoiceInv ==
    ASSUME IInv, Resolve \/ Choose
    PROVE  IInv'
<1>1. FilesInv' /\ CopyInv'
    BY SameFiles DEF Resolve, Choose, files
<1>2. RequestInv'
    BY RequestsKept DEF IInv, RequestInv, Resolve, Choose
<1>3. MetaInv' /\ ResponseInv' /\ FreshInv'
    BY DEF Resolve, Choose, MetaInv, ResponseInv, Responding, FreshInv
<1> QED
    BY <1>1, <1>2, <1>3 DEF IInv

LEMMA VersionFacts ==
    ASSUME FilesInv, NEW v, OfVersion(v)
    PROVE  /\ v.number \in Numbers /\ v.number \in Nat /\ v.second \in Nat
           /\ v.size \in Sizes /\ v.size \in Nat /\ v.size + 1 < Word
<1>1. versions \in Seq(Versions) /\ v.number \in 1 .. Len(versions) /\ Len(versions) \in Nat
    BY DEF FilesInv, OfVersion, Numbers
<1>2. versions[v.number] \in Versions
    BY <1>1
<1>3. versions[v.number].second \in Nat /\ versions[v.number].size \in Sizes
    BY <1>2 DEF Versions
<1>4. v.second \in Nat /\ v.size \in Sizes /\ v.number \in Numbers /\ v.number \in Nat
    BY <1>1, <1>3 DEF OfVersion, Second
<1> QED
    BY <1>4, SizesAssumption

LEMMA ReadMetadataInv ==
    ASSUME IInv, ReadMetadata
    PROVE  IInv'
<1>1. FilesInv' /\ CopyInv'
    BY SameFiles DEF ReadMetadata, files
<1>2. RequestInv'
    BY RequestsKept DEF IInv, RequestInv, ReadMetadata
<1>3. OfVersion(disk[path]) /\ disk[path].second \in Nat
    BY VersionFacts DEF IInv, FilesInv, ReadMetadata
<1>4. MetaInv'
    BY <1>3 DEF ReadMetadata, MetaInv, files, OfVersion, Numbers, Second, Existing
<1>5. ResponseInv' /\ FreshInv'
    BY DEF ReadMetadata, ResponseInv, Responding, FreshInv
<1> QED
    BY <1>1, <1>2, <1>4, <1>5 DEF IInv

(* What the client may ask for with regard to its copy.                    *)
LEMMA RequestKinds ==
    ASSUME NEW r \in Requests
    PROVE  /\ r.accept \in Accepts
           /\ r.range # None =>
                 \/ r.range \in Ranges
                 \/ r.range = [first |-> Len(copy.body), last |-> None] /\ copy # None
           /\ {r.ifRange, r.ifMatch} # {None} =>
                 /\ copy # None /\ r.range = [first |-> Len(copy.body), last |-> None]
                 /\ \/ r.ifRange \in {<<"etag", copy.etag>>, <<"date", copy.modified>>}
                    \/ r.ifMatch = copy.etag /\ r.ifUnmodifiedSince = copy.modified
           /\ {r.ifNoneMatch, r.ifModifiedSince} # {None} =>
                 /\ copy # None /\ r.ifModifiedSince = copy.modified
                 /\ r.ifNoneMatch \in {None, copy.etag}
<1>1. PICK accept \in Accepts :
         \/ r \in {Get(accept), [Get(accept) EXCEPT !.method = "HEAD"],
                   [Get(accept) EXCEPT !.method = "POST"]}
         \/ \E range \in Ranges : r = [Get(accept) EXCEPT !.range = range]
         \/ copy # None /\ r \in Revalidations(Get(accept))
         \/ copy # None /\ r \in Resumptions(Get(accept))
    BY DEF Requests, Complete
<1>2. CASE r \in {Get(accept), [Get(accept) EXCEPT !.method = "HEAD"],
                 [Get(accept) EXCEPT !.method = "POST"]}
    BY <1>2 DEF Get
<1>3. CASE \E range \in Ranges : r = [Get(accept) EXCEPT !.range = range]
    BY <1>3 DEF Get
<1>4. CASE copy # None /\ r \in Revalidations(Get(accept))
    BY <1>4 DEF Get, Revalidations
<1>5. CASE copy # None /\ r \in Resumptions(Get(accept))
    BY <1>5 DEF Get, Resumptions
<1> QED
    BY <1>1, <1>2, <1>3, <1>4, <1>5

(* Who is told that the copy is current has one with these validators.     *)
LEMMA NotModifiedMatches ==
    ASSUME IInv, phase = "respond", IsNotModified
    PROVE  copy # None /\ copy.modified = meta.second
<1>1. meta.second \in Nat /\ ETag(meta) = <<meta.second, meta.size>>
    BY VersionFacts DEF IInv, MetaInv, ETag
<1>2. request \in Requests
    BY DEF IInv, RequestInv
<1>3. {request.ifNoneMatch, request.ifModifiedSince} # {None}
    BY <1>1, NoneAssumption DEF IsNotModified, Modified
<1>4. /\ copy # None /\ request.ifModifiedSince = copy.modified
      /\ request.ifNoneMatch \in {None, copy.etag}
    BY <1>2, <1>3, RequestKinds
<1>5. copy.etag = <<copy.modified, copy.size>>
    BY <1>4 DEF IInv, CopyInv, CopyOK
<1> QED
    BY <1>1, <1>4, <1>5 DEF IsNotModified, Modified

(* Who is sent the rest of a copy has one with these validators.           *)
LEMMA ResumedMatches ==
    ASSUME IInv, phase = "respond", ~HasFailedPrecondition,
           ExtractRange # None, Resuming
    PROVE  /\ CopyOK /\ copy.modified = meta.second
           /\ request.range = [first |-> Len(copy.body), last |-> None]
<1>1. meta.second \in Nat /\ meta.size \in Nat /\ ETag(meta) = <<meta.second, meta.size>>
    BY VersionFacts DEF IInv, MetaInv, ETag
<1>2. request \in Requests /\ {request.ifRange, request.ifMatch} # {None}
    BY DEF IInv, RequestInv, Resuming
<1>3. /\ copy # None /\ request.range = [first |-> Len(copy.body), last |-> None]
      /\ \/ request.ifRange \in {<<"etag", copy.etag>>, <<"date", copy.modified>>}
         \/ request.ifMatch = copy.etag /\ request.ifUnmodifiedSince = copy.modified
    BY <1>2, RequestKinds
<1>4. CopyOK /\ copy.modified \in Nat /\ copy.etag \in Nat \X Nat
         /\ copy.etag = <<copy.modified, copy.size>>
    BY <1>3 DEF IInv, CopyInv, CopyOK
<1>5. request.ifRange \in {None, <<"etag", ETag(meta)>>, <<"date", meta.second>>}
    BY DEF ExtractRange, Modified
<1>6. CASE request.ifRange = <<"etag", copy.etag>>
  <2>1. request.ifRange # None
    BY <1>4, <1>6, NoneAssumption
  <2> QED
    BY <1>1, <1>3, <1>4, <1>5, <1>6, <2>1
<1>7. CASE request.ifRange = <<"date", copy.modified>>
  <2>1. request.ifRange # None
    BY <1>4, <1>7, NoneAssumption
  <2> QED
    BY <1>1, <1>3, <1>4, <1>5, <1>7, <2>1
<1>8. CASE request.ifMatch = copy.etag
  <2>1. request.ifMatch # None
    BY <1>4, <1>8, NoneAssumption
  <2>2. request.ifMatch = ETag(meta)
    BY <2>1 DEF HasFailedPrecondition
  <2> QED
    BY <1>1, <1>3, <1>4, <1>8, <2>2
<1> QED
    BY <1>3, <1>6, <1>7, <1>8

-----------------------------------------------------------------------------
(***************************************************************************)
(* Ranges and the header of a response.                                    *)
(***************************************************************************)
(* Range::parse finds what was asked for within the file, or nothing: the  *)
(* subtractions that wrap around for an empty file are caught afterwards.  *)
LEMMA ParsedRange ==
    ASSUME NEW r, r.first \in Nat \union {None}, r.last \in Nat \union {None},
           r.first # None \/ r.last # None,
           NEW size \in Nat, size < Word, NEW p, p = ParseRange(r, size), p # OutOfBounds
    PROVE  /\ p.first \in Nat /\ p.last \in Nat /\ p.first <= p.last /\ p.last < size
           /\ r.first # None => p.first = r.first
           /\ r.first = None => p.first + r.last = size
<1> DEFINE first == IF r.first = None THEN Minus(size, r.last) ELSE r.first
           last == IF None \in {r.first, r.last} THEN Minus(size, 1) ELSE r.last
<1>1. /\ ~(r.first = None /\ r.last > size)
      /\ ~(last >= size) /\ ~(first > last) /\ p = [first |-> first, last |-> last]
    BY DEF ParseRange
<1>2. Minus(size, 1) = IF size = 0 THEN Word - 1 ELSE size - 1
  <2>1. CASE size = 0
    BY <2>1, MinusOne
  <2>2. CASE size >= 1
    BY <2>2, MinusBelow
  <2> QED
    BY <2>1, <2>2
<1>3. last \in Nat
    BY <1>2, SizesAssumption, NoneAssumption
<1>4. CASE r.first = None
  <2>1. r.last \in Nat /\ r.last <= size
    BY <1>1, <1>4
  <2>2. first = size - r.last
    BY <1>4, <2>1, MinusBelow
  <2> QED
    BY <1>1, <1>3, <1>4, <2>1, <2>2
<1>5. CASE r.first # None
  <2>1. first = r.first /\ first \in Nat
    BY <1>5
  <2> QED
    BY <1>1, <1>3, <1>5, <2>1
<1> QED
    BY <1>4, <1>5

LEMMA ExtractedRange ==
    ASSUME IInv, phase = "respond", ExtractRange \notin {None, OutOfBounds}
    PROVE  LET range == ExtractRange
           IN  /\ range.first \in Nat /\ range.last \in Nat
               /\ range.first <= range.last /\ range.last < meta.size
               /\ request.range.first # None => range.first = request.range.first
               /\ request.range.first = None =>
                      range.first + request.range.last = meta.size
<1>1. request.range # None /\ ExtractRange = ParseRange(request.range, meta.size)
    BY DEF ExtractRange
<1>2. meta.size \in Nat /\ meta.size < Word
    BY VersionFacts, SizesAssumption DEF IInv, MetaInv
<1>3. \/ request.range \in Ranges
      \/ request.range = [first |-> Len(copy.body), last |-> None] /\ copy # None
    BY <1>1, RequestKinds DEF IInv, RequestInv
<1>4. /\ request.range.first \in Nat \union {None}
      /\ request.range.last \in Nat \union {None}
      /\ request.range.first # None \/ request.range.last # None
  <2>1. CASE request.range \in Ranges
    BY <2>1, RangesAssumption DEF MaybeNumbers
  <2>2. CASE request.range = [first |-> Len(copy.body), last |-> None] /\ copy # None
    <3>1. Len(copy.body) \in Nat
      BY <2>2 DEF IInv, CopyInv, CopyOK
    <3> QED
      BY <2>2, <3>1, NoneAssumption
  <2> QED
    BY <1>3, <2>1, <2>2
<1> QED
    BY <1>1, <1>2, <1>4, ParsedRange

LEMMA HeaderInv ==
    ASSUME IInv, phase = "respond", NEW code \in {200, 206},
           NEW first \in Nat, NEW last, NEW len \in Nat,
           WriteHeader(code, first, last, len),
           IF len = 0 THEN first = 0 /\ last = Word - 1 ELSE last = first + len - 1,
           first + len <= meta.size,
           code = 200 => first = 0 /\ len = meta.size,
           code = 206 /\ request.range.first # None => first = request.range.first,
           code = 206 /\ request.range.first = None =>
               first + request.range.last = meta.size,
           code = 206 /\ Resuming =>
               CopyOK /\ copy.modified = meta.second /\ Len(copy.body) = first
    PROVE  IInv'
<1>1. /\ status' = IF missing THEN 404 ELSE code
      /\ start' = first /\ end' = last /\ length' = len
      /\ copy' = CopyAfter(status')
      /\ phase' = IF request.method = "HEAD" THEN "done" ELSE "open"
      /\ UNCHANGED <<disk, versions, calm, request, path, missing, meta, handle, sent>>
    BY DEF WriteHeader, files, choice
<1>2. /\ meta.number \in Numbers /\ meta.second \in Nat
      /\ meta.size \in Sizes /\ meta.size \in Nat
      /\ ETag(meta) = <<meta.second, meta.size>> /\ Modified(meta) = meta.second
    BY VersionFacts DEF IInv, MetaInv, ETag, Modified
<1>3. sent = <<>> /\ request.method \in {"GET", "HEAD"}
    BY DEF IInv, RequestInv
<1>4. status' \in {404, code}
    BY <1>1
<1>5. \/ copy' \in {copy, None} /\ (status' = 206 => copy' = copy)
                               /\ (status' = 200 => request.method = "HEAD")
      \/ /\ status' = 200 /\ request.method = "GET"
         /\ copy' = [etag |-> ETag(meta), modified |-> Modified(meta),
                     size |-> meta.size, body |-> <<>>]
    BY <1>1, <1>3 DEF CopyAfter
<1>6. FilesInv' /\ Numbers' = Numbers /\ (copy' \in {copy, None} => CopyInv')
    BY <1>1, SameFiles
<1>7. status' = 200 /\ request.method = "GET" =>
          CopyOK' /\ copy'.modified = meta.second /\ Len(copy'.body) = 0
  <2>1. SUFFICES ASSUME status' = 200, request.method = "GET"
                 PROVE  CopyOK' /\ copy'.modified = meta.second /\ Len(copy'.body) = 0
    OBVIOUS
  <2>2. copy' = [etag |-> <<meta.second, meta.size>>, modified |-> meta.second,
                 size |-> meta.size, body |-> <<>>]
    BY <1>2, <1>5, <2>1
  <2>3. <<meta.second, meta.size>> \in Nat \X Nat /\ <<>> \in Seq(Positions)
    BY <1>2
  <2>4. copy' \in [etag : Nat \X Nat, modified : Nat, size : Sizes, body : Seq(Positions)]
    BY <1>2, <2>2, <2>3
  <2> QED
    BY <2>2, <2>4 DEF CopyOK
<1>8. CopyInv'
    BY <1>5, <1>6, <1>7 DEF CopyInv
<1>9. MetaInv'
  <2>1. path \in Existing' => path \in Existing
    BY <1>1 DEF Existing
  <2>2. path \in Existing => path \in Existing'
    BY <1>1 DEF Existing
  <2> QED
    BY <1>1, <2>1, <2>2 DEF IInv, MetaInv, OfVersion, Numbers, Second
<1>10. Extent'
    BY <1>1, <1>4 DEF Extent
<1>11. Body'
    BY <1>1, <1>3 DEF Body
<1>12. OfVersion(meta)'
    BY <1>1 DEF IInv, MetaInv, OfVersion, Numbers, Second
<1>13. phase' = "open" /\ Kept' =>
          CopyOK' /\ copy'.modified = meta.second /\ Len(copy'.body) = first
  <2>1. SUFFICES ASSUME phase' = "open", Kept'
                 PROVE  CopyOK' /\ copy'.modified = meta.second /\ Len(copy'.body) = first
    OBVIOUS
  <2>2. request.method = "GET"
    BY <1>1, <1>3, <2>1
  <2>3. CASE status' = 200
    BY <1>4, <1>7, <2>2, <2>3
  <2>4. CASE status' = 206 /\ Resuming'
    <3>1. Resuming
      BY <1>1, <2>4 DEF Resuming
    <3>2. code = 206 /\ copy' = copy
      BY <1>4, <1>5, <2>4
    <3>3. CopyOK' <=> CopyOK
      BY <1>1, <3>2, SameCopy
    <3> QED
      BY <3>1, <3>2, <3>3
  <2> QED
    BY <2>1, <2>3, <2>4 DEF Kept
<1>14. ResponseInv'
    BY <1>1, <1>3, <1>4, <1>10, <1>11, <1>12, <1>13 DEF ResponseInv, Responding
<1>15. RequestInv' /\ FreshInv'
    BY <1>1, <1>4 DEF RequestInv, FreshInv
<1> QED
    BY <1>6, <1>8, <1>9, <1>14, <1>15 DEF IInv

LEMMA RespondInv ==
    ASSUME IInv, PartialContent \/ WholeFile
    PROVE  IInv'
<1>1. phase = "respond" /\ ~HasFailedPrecondition
    BY DEF PartialContent, WholeFile, Proceeding
<1>2. meta.size \in Nat /\ meta.size < Word
    BY <1>1, VersionFacts, SizesAssumption DEF IInv, MetaInv
<1>3. CASE WholeFile
  <2>1. WriteHeader(200, 0, Minus(meta.size, 1), meta.size)
    BY <1>3 DEF WholeFile
  <2>2. Minus(meta.size, 1) = IF meta.size = 0 THEN Word - 1 ELSE meta.size - 1
    BY <1>2, MinusBelow, MinusOne
  <2> QED
    BY <1>1, <1>2, <2>1, <2>2, HeaderInv
<1>4. CASE PartialContent
  <2> DEFINE range == ExtractRange
             len == range.last - range.first + 1
  <2>1. range \notin {None, OutOfBounds} /\ WriteHeader(206, range.first, range.last, len)
    BY <1>4 DEF PartialContent
  <2>2. /\ range.first \in Nat /\ range.last \in Nat
        /\ range.first <= range.last /\ range.last < meta.size
        /\ request.range.first # None => range.first = request.range.first
        /\ request.range.first = None => range.first + request.range.last = meta.size
    BY <1>1, <2>1, ExtractedRange
  <2>3. Resuming => /\ CopyOK /\ copy.modified = meta.second
                    /\ Len(copy.body) = range.first
    <3>1. SUFFICES ASSUME Resuming
                   PROVE  /\ CopyOK /\ copy.modified = meta.second
                        /\ Len(copy.body) = range.first
      OBVIOUS
    <3>2. /\ CopyOK /\ copy.modified = meta.second
          /\ request.range = [first |-> Len(copy.body), last |-> None]
      BY <1>1, <2>1, <3>1, ResumedMatches
    <3>3. Len(copy.body) \in Nat
      BY <3>2 DEF CopyOK
    <3> QED
      BY <2>2, <3>2, <3>3, NoneAssumption
  <2>4. len \in Nat /\ len # 0 /\ range.last = range.first + len - 1
           /\ range.first + len <= meta.size
    BY <1>2, <2>2
  <2> HIDE DEF range, len
  <2> QED
    BY <1>1, <2>1, <2>2, <2>3, <2>4, HeaderInv
<1> QED
    BY <1>3, <1>4

-----------------------------------------------------------------------------
(***************************************************************************)
(* The body.                                                               *)
(***************************************************************************)
LEMMA AbortInv ==
    ASSUME IInv, Abort
    PROVE  IInv'
<1>1. FilesInv' /\ CopyInv'
    BY SameFiles DEF Abort, files
<1>2. RequestInv' /\ MetaInv' /\ ResponseInv' /\ FreshInv'
    BY DEF Abort, RequestInv, MetaInv, ResponseInv, Responding, FreshInv
<1> QED
    BY <1>1, <1>2 DEF IInv

(* What is known of a response while its body is sent.                     *)
LEMMA Unaltered ==
    ASSUME UNCHANGED <<versions, calm, request, meta, status, start, end, length>>
    PROVE  /\ OfVersion(meta)' <=> OfVersion(meta)
           /\ Extent' <=> Extent
           /\ Kept' <=> Kept
           /\ \A b, o, s : ByteAt(b, o, s)' <=> ByteAt(b, o, s)
           /\ Numbers' = Numbers /\ \A n : Second(n)' = Second(n)
BY DEF OfVersion, Extent, Kept, Resuming, ByteAt, Numbers, Second

LEMMA OpenInv ==
    ASSUME IInv, Open
    PROVE  IInv'
<1>1. /\ phase = "open" /\ path \in Existing /\ handle' = disk[path] /\ phase' = "body"
      /\ UNCHANGED <<disk, versions, calm, request, path, missing, meta, status, start, end,
                     length, sent, copy>>
    BY DEF Open, files, choice, response
<1>2. FilesInv' /\ CopyInv'
    BY <1>1, SameFiles
<1>3. RequestInv' /\ FreshInv'
    BY <1>1 DEF RequestInv, FreshInv
<1>4. OfVersion(disk[path]) /\ (OfVersion(disk[path]) => OfVersion(handle)')
    BY <1>1 DEF IInv, FilesInv, OfVersion, Numbers, Second
<1>5. MetaInv'
    BY <1>1, <1>4, Unaltered DEF IInv, MetaInv
<1>6. ResponseInv'
  <2>1. Body' <=> Body
    BY <1>1, Unaltered DEF Body
  <2>2. Responding /\ Responding'
    BY <1>1 DEF Responding
  <2>3. (OfVersion(meta)' <=> OfVersion(meta)) /\ (Extent' <=> Extent) /\ (Kept' <=> Kept)
    BY <1>1, Unaltered
  <2>4. CopyOK' <=> CopyOK
    BY <1>1, SameCopy
  <2> QED
    BY <1>1, <2>1, <2>2, <2>3, <2>4 DEF IInv, ResponseInv
<1> QED
    BY <1>2, <1>3, <1>5, <1>6 DEF IInv

(* The subtractions of file_response do not wrap around, except for an     *)
(* empty file, where the sum does so again.                                *)
LEMMA RemainingIs ==
    ASSUME Extent, sent \in Seq(Positions), Len(sent) <= length,
           meta.size \in Nat, meta.size < Word
    PROVE  Remaining = length - Len(sent)
<1>1. /\ start \in Nat /\ length \in Nat /\ length < Word /\ Len(sent) \in Nat
      /\ IF length = 0 THEN start = 0 /\ end = Word - 1 ELSE end = start + length - 1
      /\ start + length <= meta.size
    BY SizesAssumption DEF Extent
<1>2. CASE length = 0
  <2>1. Minus(end, start) = Word - 1
    BY <1>1, <1>2, MinusBelow, SizesAssumption
  <2>2. Minus(end, start) + 1 - Len(sent) = Word
    BY <1>1, <1>2, <2>1, SizesAssumption
  <2> QED
    BY <1>1, <1>2, <2>2, WholeWord DEF Remaining
<1>3. CASE length # 0
  <2>1. end \in Nat /\ start <= end /\ end < Word
    BY <1>1, <1>3, SizesAssumption
  <2>2. Minus(end, start) = length - 1
    BY <1>1, <1>3, <2>1, MinusBelow
  <2>3. Minus(end, start) + 1 - Len(sent) = length - Len(sent)
    BY <1>1, <2>2
  <2> QED
    BY <1>1, <2>3, Modulo, SizesAssumption DEF Remaining
<1> QED
    BY <1>2, <1>3

LEMMA BodyFacts ==
    ASSUME IInv, phase = "body"
    PROVE  /\ Extent /\ Body /\ OfVersion(meta) /\ OfVersion(handle)
           /\ meta.size \in Nat /\ meta.size < Word /\ meta.second \in Nat
           /\ handle.number \in Numbers /\ handle.number \in Nat /\ handle.size \in Nat
           /\ handle.second >= meta.second /\ handle.second = Second(handle.number)
           /\ calm => handle = meta
           /\ Remaining = length - Len(sent)
<1>1. Extent /\ Body /\ OfVersion(meta) /\ OfVersion(handle)
         /\ handle.second >= meta.second /\ (calm => handle = meta)
    BY DEF IInv, ResponseInv, Responding, MetaInv
<1>2. /\ meta.size \in Nat /\ meta.size < Word /\ meta.second \in Nat
      /\ handle.number \in Numbers /\ handle.number \in Nat /\ handle.size \in Nat
    BY <1>1, VersionFacts, SizesAssumption DEF IInv
<1>3. handle.second = Second(handle.number)
    BY <1>1 DEF OfVersion
<1> QED
    BY <1>1, <1>2, <1>3, RemainingIs DEF Body

LEMMA EndBodyInv ==
    ASSUME IInv, EndBody
    PROVE  IInv'
<1>1. /\ phase = "body" /\ Remaining = 0 /\ phase' = "done"
      /\ UNCHANGED <<disk, versions, calm, request, path, missing, meta, status, start, end,
                     length, handle, sent, copy>>
    BY DEF EndBody, files, choice, response
<1>2. FilesInv' /\ CopyInv'
    BY <1>1, SameFiles
<1>3. Extent /\ Body /\ OfVersion(meta) /\ Len(sent) = length
    BY <1>1, BodyFacts DEF Body, Extent
<1>4. Body' <=> Body
    BY <1>1, Unaltered DEF Body
<1>5. ResponseInv'
  <2>1. (OfVersion(meta)' <=> OfVersion(meta)) /\ (Extent' <=> Extent)
    BY <1>1, Unaltered
  <2> QED
    BY <1>1, <1>3, <1>4, <2>1 DEF ResponseInv
<1>6. RequestInv' /\ MetaInv' /\ FreshInv'
    BY <1>1 DEF IInv, ResponseInv, RequestInv, MetaInv, FreshInv
<1> QED
    BY <1>2, <1>5, <1>6 DEF IInv

LEMMA SendChunkInv ==
    ASSUME IInv, SendChunk
    PROVE  IInv'
<1> DEFINE len == Min({Remaining, BufferSize, handle.size - Position})
           chunk == Chunk(len, handle.number, Position)
<1>1. /\ phase = "body" /\ Remaining > 0 /\ Position < handle.size
      /\ sent' = sent \o chunk
      /\ copy' = IF Kept THEN [copy EXCEPT !.body = @ \o chunk] ELSE copy
      /\ UNCHANGED <<disk, versions, calm, phase, request, path, missing, meta, status,
                     start, end, length, handle>>
    BY DEF SendChunk, files, choice, response, Chunk
<1>2. /\ Extent /\ Body /\ OfVersion(meta) /\ OfVersion(handle)
      /\ meta.second \in Nat
      /\ handle.number \in Numbers /\ handle.number \in Nat /\ handle.size \in Nat
      /\ handle.second >= meta.second /\ handle.second = Second(handle.number)
      /\ calm => handle = meta
      /\ Remaining = length - Len(sent)
    BY <1>1, BodyFacts
<1>3. /\ start \in Nat /\ length \in Nat /\ sent \in Seq(Positions) /\ Len(sent) \in Nat
      /\ Position = start + Len(sent) /\ Position \in Nat
    BY <1>2 DEF Extent, Body, Position
<1>4. len \in Nat /\ len <= length - Len(sent)
  <2>1. Remaining \in Int /\ BufferSize \in Int /\ handle.size - Position \in Int
    BY <1>2, <1>3, SizesAssumption
  <2>2. /\ len \in {Remaining, BufferSize, handle.size - Position}
        /\ len <= Remaining
    BY <2>1, MinOf
  <2> HIDE DEF len
  <2>3. Remaining \in Nat /\ BufferSize \in Nat /\ handle.size - Position \in Nat
    <3>1. Remaining \in Nat
      BY <1>1, <2>1
    <3>2. handle.size - Position \in Nat
      BY <1>1, <1>2, <1>3
    <3> QED
      BY <3>1, <3>2, SizesAssumption
  <2>4. len \in Nat
    BY <2>2, <2>3
  <2> QED
    BY <1>2, <2>2, <2>4
<1> HIDE DEF len
<1>5. /\ chunk \in Seq(Positions) /\ Len(chunk) = len
      /\ \A i \in 1 .. len : chunk[i] = <<handle.number, Position + i - 1>>
  <2>1. len \in Nat /\ handle.number \in Nat /\ Position \in Nat
    BY <1>2, <1>3, <1>4
  <2> QED
    BY <2>1, ChunkIsSequence
<1> HIDE DEF chunk
<1>6. \A i \in 1 .. len : /\ ByteAt(chunk[i], Position + i - 1, meta.second)
                          /\ chunk[i][1] = handle.number
    BY <1>2, <1>5 DEF ByteAt
<1>7. /\ sent' \in Seq(Positions) /\ Len(sent') = Len(sent) + len
      /\ \A i \in 1 .. Len(sent') :
            sent'[i] = IF i <= Len(sent) THEN sent[i] ELSE chunk[i - Len(sent)]
  <2>1. sent \in Seq(Positions) /\ chunk \in Seq(Positions) /\ sent' = sent \o chunk
    BY <1>1, <1>3, <1>5
  <2> QED
    BY <1>5, <2>1, Joined
<1>8. Body'
  <2>1. ASSUME NEW i \in 1 .. Len(sent')
        PROVE  /\ ByteAt(sent'[i], start + i - 1, meta.second)
               /\ calm => sent'[i][1] = meta.number
    <3>1. CASE i <= Len(sent)
      <4>1. i \in 1 .. Len(sent) /\ sent'[i] = sent[i]
        BY <1>3, <1>7, <2>1, <3>1
      <4> QED
        BY <1>2, <4>1 DEF Body
    <3>2. CASE ~(i <= Len(sent))
      <4> DEFINE k == i - Len(sent)
      <4>1. k \in 1 .. len /\ sent'[i] = chunk[k] /\ Position + k - 1 = start + i - 1
        BY <1>3, <1>4, <1>7, <2>1, <3>2
      <4> HIDE DEF k
      <4> QED
        BY <1>2, <1>6, <4>1
    <3> QED
      BY <3>1, <3>2
  <2>2. Len(sent') <= length
    BY <1>3, <1>4, <1>7
  <2> QED
    BY <1>1, <1>7, <2>1, <2>2, Unaltered DEF Body
<1>9. Kept => /\ CopyOK' /\ copy'.modified = meta.second
              /\ Len(copy'.body) = start + Len(sent')
  <2>1. SUFFICES ASSUME Kept
                 PROVE  /\ CopyOK' /\ copy'.modified = meta.second
                        /\ Len(copy'.body) = start + Len(sent')
    OBVIOUS
  <2>2. CopyOK /\ copy.modified = meta.second /\ Len(copy.body) = Position
    BY <1>1, <1>3, <2>1 DEF IInv, ResponseInv
  <2> DEFINE body == copy.body \o chunk
  <2>3. /\ copy \in [etag : Nat \X Nat, modified : Nat, size : Sizes, body : Seq(Positions)]
        /\ copy.etag = <<copy.modified, copy.size>>
        /\ \A i \in 1 .. Len(copy.body) :
            /\ ByteAt(copy.body[i], i - 1, copy.modified)
            /\ calm => Second(copy.body[i][1]) = copy.modified
    BY <2>2 DEF CopyOK
  <2>4. /\ body \in Seq(Positions) /\ Len(body) = Position + len
        /\ \A i \in 1 .. Len(body) :
              body[i] = IF i <= Position THEN copy.body[i] ELSE chunk[i - Position]
    <3>1. copy.body \in Seq(Positions)
      BY <2>3
    <3> QED
      BY <1>5, <2>2, <3>1, Joined
  <2> HIDE DEF body
  <2>5. copy' = [copy EXCEPT !.body = body]
    BY <1>1, <2>1 DEF body
  <2>6. /\ copy' \in [etag : Nat \X Nat, modified : Nat, size : Sizes, body : Seq(Positions)]
        /\ copy'.etag = copy.etag /\ copy'.modified = copy.modified
        /\ copy'.size = copy.size /\ copy'.body = body
    BY <2>3, <2>4, <2>5
  <2>7. ASSUME NEW i \in 1 .. Len(body)
        PROVE  /\ ByteAt(body[i], i - 1, copy.modified)
               /\ calm => Second(body[i][1]) = copy.modified
    <3>1. CASE i <= Position
      <4>1. i \in 1 .. Len(copy.body) /\ body[i] = copy.body[i]
        BY <1>3, <1>4, <2>2, <2>4, <2>7, <3>1
      <4> QED
        BY <2>3, <4>1
    <3>2. CASE ~(i <= Position)
      <4> DEFINE k == i - Position
      <4>1. k \in 1 .. len /\ body[i] = chunk[k] /\ Position + k - 1 = i - 1
        BY <1>3, <1>4, <2>4, <2>7, <3>2
      <4> HIDE DEF k
      <4> QED
        BY <1>2, <1>6, <2>2, <4>1
    <3> QED
      BY <3>1, <3>2
  <2>8. Len(body) = start + Len(sent')
    BY <1>3, <1>4, <1>7, <2>4
  <2>9. CopyOK'
    <3>1. \A i \in 1 .. Len(body) :
            /\ ByteAt(body[i], i - 1, copy.modified)
            /\ calm => Second(body[i][1]) = copy.modified
      BY <2>7
    <3>2. /\ \A b, o, s : ByteAt(b, o, s)' <=> ByteAt(b, o, s)
          /\ \A n : Second(n)' = Second(n)
      BY <1>1, Unaltered
    <3> QED
      BY <1>1, <2>3, <2>6, <3>1, <3>2 DEF CopyOK
  <2> QED
    BY <2>2, <2>6, <2>8, <2>9
<1>10. FilesInv' /\ CopyInv'
  <2>1. FilesInv' /\ (copy' \in {copy, None} => CopyInv')
    BY <1>1, SameFiles
  <2> QED
    BY <1>1, <1>9, <2>1 DEF CopyInv
<1>11. ResponseInv'
  <2>1. Responding'
    BY <1>1 DEF Responding
  <2>2. request.method = "GET" /\ status \in {200, 206, 404}
    BY <1>1 DEF IInv, ResponseInv
  <2>3. (OfVersion(meta)' <=> OfVersion(meta)) /\ (Extent' <=> Extent) /\ (Kept' <=> Kept)
    BY <1>1, Unaltered
  <2> QED
    BY <1>1, <1>2, <1>8, <1>9, <2>1, <2>2, <2>3 DEF ResponseInv
<1>12. MetaInv' /\ RequestInv' /\ FreshInv'
    BY <1>1 DEF IInv, MetaInv, OfVersion, Numbers, Second, RequestInv, FreshInv
<1> QED
    BY <1>8, <1>10, <1>11, <1>12 DEF IInv

-----------------------------------------------------------------------------
LEMMA ServeInv ==
    ASSUME IInv, Serve
    PROVE  IInv'
<1>1. CASE Resolve \/ Choose
    BY <1>1, ChoiceInv
<1>2. CASE NotFound
  <2>1. Answer(404) /\ meta = None
    BY <1>2 DEF NotFound, IInv, RequestInv
  <2> QED
    BY <2>1, AnswerInv
<1>3. CASE DenyMethod \/ MetadataError \/ PreconditionFailed \/ RangeNotSatisfiable
  <2>1. PICK code \in {405, 412, 416, 500} : Answer(code)
    BY <1>3 DEF DenyMethod, MetadataError, PreconditionFailed, RangeNotSatisfiable
  <2> QED
    BY <2>1, AnswerInv
<1>4. CASE NotModified
  <2>1. phase = "respond" /\ IsNotModified /\ Answer(304)
    BY <1>4 DEF NotModified
  <2>2. copy # None /\ copy.modified = meta.second
    BY <2>1, NotModifiedMatches
  <2> QED
    BY <2>1, <2>2, AnswerInv
<1>5. CASE ReadMetadata
    BY <1>5, ReadMetadataInv
<1>6. CASE PartialContent \/ WholeFile
    BY <1>6, RespondInv
<1>7. CASE Open
    BY <1>7, OpenInv
<1>8. CASE OpenError \/ FileEnded
    BY <1>8, AbortInv DEF OpenError, FileEnded
<1>9. CASE SendChunk
    BY <1>9, SendChunkInv
<1>10. CASE EndBody
    BY <1>10, EndBodyInv
<1> QED
    BY <1>1, <1>2, <1>3, <1>4, <1>5, <1>6, <1>7, <1>8, <1>9, <1>10 DEF Serve

LEMMA StutterInv ==
    ASSUME IInv, UNCHANGED vars
    PROVE  IInv'
<1>1. UNCHANGED <<disk, versions, calm, phase, request, path, missing, meta, status, start,
                  end, length, handle, sent, copy>>
    BY DEF vars, files, choice, response
<1>2. FilesInv' /\ CopyInv'
    BY <1>1, SameFiles
<1>3. (CopyOK' <=> CopyOK) /\ (OfVersion(meta)' <=> OfVersion(meta)) /\ (Extent' <=> Extent)
    BY <1>1, SameCopy, Unaltered
<1>4. (Kept' <=> Kept) /\ (Body' <=> Body) /\ (Responding' <=> Responding)
    BY <1>1, Unaltered DEF Body, Responding, HasBody
<1>5. ResponseInv'
    BY <1>1, <1>3, <1>4 DEF IInv, ResponseInv
<1>6. RequestInv' /\ FreshInv'
    BY <1>1, RequestsKept DEF IInv, RequestInv, FreshInv
<1>7. MetaInv'
    BY <1>1 DEF IInv, MetaInv, OfVersion, Numbers, Second, Existing
<1> QED
    BY <1>2, <1>5, <1>6, <1>7 DEF IInv

(* The invariant holds in every reachable state.                           *)
THEOREM Invariance == Spec => []IInv
<1>1. Init => IInv
    BY InitInv
<1>2. IInv /\ [Next]_vars => IInv'
  <2> SUFFICES ASSUME IInv, [Next]_vars PROVE IInv'
    OBVIOUS
  <2>1. CASE UNCHANGED vars
    BY <2>1, StutterInv
  <2>2. ASSUME NEW f \in Files, NEW size \in Sizes, NEW second \in {Now, Now + 1},
               NEW inPlace \in BOOLEAN, Write(f, size, second, inPlace)
        PROVE  IInv'
    BY <2>2, WriteInv
  <2>3. ASSUME NEW f \in Files, Delete(f) PROVE IInv'
    BY <2>3, DeleteInv
  <2>4. ASSUME NEW r \in Requests, NewRequest(r) PROVE IInv'
    BY <2>4, NewRequestInv
  <2>5. CASE Serve
    BY <2>5, ServeInv
  <2>6. CASE ClientGone
    BY <2>6, AbortInv DEF ClientGone
  <2> QED
    BY <2>1, <2>2, <2>3, <2>4, <2>5, <2>6 DEF Next
<1> QED
    BY <1>1, <1>2, PTL DEF Spec

(* A response that is ended normally has as many bytes as Content-Length   *)
(* said, whatever happens to the file and for any u64 size below the last  *)
(* (file_response).                                                        *)
THEOREM LengthAlwaysKept == Spec => []LengthKept
<1>1. IInv => LengthKept
    BY DEF IInv, ResponseInv, Responding, LengthKept
<1> QED
    BY <1>1, Invariance, PTL

(* As long as files do not change meanwhile, exactly the requested part of *)
(* one version is sent, for every range a client can ask for               *)
(* (Range::parse, request_filter, file_response).                          *)
THEOREM BytesAlwaysExact == Spec => []ExactBytes
<1>1. IInv => ExactBytes
  <2> SUFFICES ASSUME IInv, calm, phase = "done", HasBody, request.method = "GET"
               PROVE  /\ sent = [i \in 1..length |-> <<meta.number, start + i - 1>>]
                      /\ start + length <= meta.size
                      /\ status = 200 => length = meta.size
                      /\ status = 206 /\ request.range.first # None =>
                             start = request.range.first
                      /\ status = 206 /\ request.range.first = None =>
                             start + request.range.last = meta.size
    BY DEF ExactBytes
  <2>1. Extent /\ Body /\ Len(sent) = length
    BY DEF IInv, ResponseInv, Responding
  <2>2. sent \in Seq(Positions) /\ length \in Nat
    BY <2>1 DEF Body, Extent
  <2>3. \A i \in 1 .. length : sent[i] \in Positions /\ sent[i][1] = meta.number
                              /\ sent[i][2] = start + i - 1
    BY <2>1, <2>2 DEF Body, ByteAt
  <2>4. \A i \in 1 .. length : sent[i] = <<meta.number, start + i - 1>>
    BY <2>3 DEF Positions
  <2>5. sent = [i \in 1 .. length |-> sent[i]]
    BY <2>1, <2>2
  <2>6. sent = [i \in 1 .. length |-> <<meta.number, start + i - 1>>]
    BY <2>4, <2>5
  <2> QED
    BY <2>1, <2>6 DEF Extent
<1> QED
    BY <1>1, Invariance, PTL

(* Who is told "not modified" has nothing older than what the answer is    *)
(* about, files changing during requests or not (is_not_modified; the      *)
(* metadata is read before the file is opened).                            *)
THEOREM NotModifiedAlwaysFresh == Spec => []NotModifiedIsFresh
<1>1. IInv => NotModifiedIsFresh
  <2> SUFFICES ASSUME IInv, phase = "done", status = 304, NEW b \in Range(copy.body)
               PROVE  Modified(versions[b[1]]) >= Modified(meta)
    BY DEF NotModifiedIsFresh
  <2>1. CopyOK /\ copy.modified = meta.second
    BY DEF IInv, FreshInv, CopyInv
  <2>2. copy.body \in Seq(Positions)
    BY <2>1 DEF CopyOK
  <2>3. PICK i \in 1 .. Len(copy.body) : b = copy.body[i]
    BY <2>2 DEF Range
  <2> QED
    BY <2>1, <2>3 DEF CopyOK, ByteAt, Second, Modified
<1> QED
    BY <1>1, Invariance, PTL

(* A download put together from several responses has no gap and does not  *)
(* mix versions which the validators tell apart (If-Range and If-Match).   *)
THEOREM CopyAlwaysConsistent == Spec => []CopyConsistent
<1>1. IInv => CopyConsistent
  <2> SUFFICES ASSUME IInv, calm, Complete, NEW i \in DOMAIN copy.body
               PROVE  /\ copy.body[i][2] = i - 1
                      /\ Modified(versions[copy.body[i][1]]) = copy.modified
    BY DEF CopyConsistent
  <2>1. CopyOK
    BY DEF IInv, CopyInv, Complete
  <2>2. copy.body \in Seq(Positions)
    BY <2>1 DEF CopyOK
  <2>3. i \in 1 .. Len(copy.body)
    BY <2>2
  <2> QED
    BY <2>1, <2>3 DEF CopyOK, ByteAt, Second, Modified
<1> QED
    BY <1>1, Invariance, PTL

-----------------------------------------------------------------------------
(* The choice of an encoding.                                              *)

Entries == [name : STRING, quality : Nat]

LEMMA FirstOfList ==
    ASSUME NEW S, NEW l \in Seq(S), l # <<>>
    PROVE  /\ Head(l) \in Range(l)
           /\ \A x \in Range(l) : x = Head(l) \/ Ahead(l, Head(l), x)
<1>1. DOMAIN l = 1 .. Len(l) /\ Len(l) \in Nat /\ Len(l) # 0 /\ Head(l) = l[1]
    OBVIOUS
<1>2. 1 \in DOMAIN l
    BY <1>1
<1>3. ASSUME NEW x \in Range(l) PROVE x = Head(l) \/ Ahead(l, Head(l), x)
  <2>1. PICK i \in DOMAIN l : l[i] = x
    BY <1>3 DEF Range
  <2>2. i = 1 \/ 1 < i
    BY <1>1
  <2> QED
    BY <1>1, <1>2, <2>1, <2>2 DEF Ahead
<1> QED
    BY <1>1, <1>2, <1>3 DEF Range

LEMMA BestFirst ==
    ASSUME NEW accept \in Seq(Entries)
    PROVE  /\ ByQuality(accept) \in Seq(Range(accept)) /\ Range(ByQuality(accept)) = Range(accept)
           /\ \A x, y : Ahead(ByQuality(accept), x, y) => x.quality >= y.quality
<1> DEFINE S == Range(accept)
           Better == {pair \in S \X S : pair[1].quality > pair[2].quality}
<1>1. accept \in Seq(S) /\ \A x \in S : x.quality \in Nat
  <2>1. \A x \in S : x \in Entries
    BY RangeOfList
  <2> QED
    BY <2>1, RangeOfList DEF Entries
<1>2. \A x, y \in S : <<x, y>> \in Better <=> x.quality > y.quality
    OBVIOUS
<1>3. Better \subseteq S \X S
    OBVIOUS
<1>4. ByQuality(accept) = StableSort(accept, Better)
    BY DEF ByQuality
<1> HIDE DEF Better, S
<1>5. WeakOrder(Better, S)
    BY <1>1, <1>2, <1>3 DEF WeakOrder
<1>6. /\ StableSort(accept, Better) \in Seq(S) /\ Range(StableSort(accept, Better)) = Range(accept)
      /\ \A x, y : Ahead(StableSort(accept, Better), x, y) <=>
             /\ x \in Range(accept) /\ y \in Range(accept)
             /\ <<x, y>> \in Better \/ (<<y, x>> \notin Better /\ Ahead(accept, x, y))
    BY <1>1, <1>5, SortedList
<1>7. ASSUME NEW x \in S, NEW y \in S, <<x, y>> \in Better \/ <<y, x>> \notin Better
      PROVE  x.quality >= y.quality
    BY <1>1, <1>2, <1>7
<1> QED
    BY <1>4, <1>6, <1>7 DEF S

LEMMA CandidatesFit ==
    ASSUME NEW name, NEW entry
    PROVE  /\ \A a : a \in Range(Candidates(name, entry)) <=>
                  a \in Range(Precompressed) /\ entry.name \in {"*", a} /\ <<name, a>> \in Existing
           /\ Candidates(name, entry) = <<>> => Range(Candidates(name, entry)) = {}
           /\ Candidates(name, entry) # <<>> =>
                  Head(Candidates(name, entry)) \in Range(Candidates(name, entry))
<1> DEFINE P == Range(Precompressed)
           Fit == {a \in P : entry.name \in {"*", a} /\ <<name, a>> \in Existing}
           c == Candidates(name, entry)
<1>1. c = Selected(Precompressed, Fit) /\ Precompressed \in Seq(P)
    BY EncodingsAssumption DEF Candidates
<1>2. \A a : a \in Fit <=> a \in P /\ entry.name \in {"*", a} /\ <<name, a>> \in Existing
    OBVIOUS
<1> HIDE DEF Fit, c
<1>3. c \in Seq(P) /\ Range(c) = Range(Precompressed) \intersect Fit
    BY <1>1, SelectedList
<1>4. c = <<>> => Range(c) = {}
    BY <1>3, RangeOfList
<1>5. c # <<>> => Head(c) \in Range(c)
    BY <1>3, FirstOfList
<1> QED
    BY <1>2, <1>3, <1>4, <1>5 DEF c

LEMMA ChoicePreferred ==
    ASSUME NEW accept \in Seq(Entries), accept # None
    PROVE  Preferred(RewritePath(path[1], accept)[2], accept)
<1> DEFINE name == path[1]
           S == Range(accept)
           wanted == ByQuality(accept)
           Fitting == {entry \in Range(wanted) : Candidates(name, entry) # <<>>}
           found == Selected(wanted, Fitting)
           encoding == RewritePath(path[1], accept)[2]
<1>1. encoding = IF found = <<>> THEN Plain ELSE Head(Candidates(name, Head(found)))
    BY DEF RewritePath
<1>2. /\ wanted \in Seq(S) /\ Range(wanted) = S
      /\ \A x, y : Ahead(wanted, x, y) => x.quality >= y.quality
    BY BestFirst
<1>3. \A entry : entry \in Fitting <=> entry \in Range(wanted) /\ Candidates(name, entry) # <<>>
    OBVIOUS
<1> HIDE DEF wanted, Fitting
<1>4. /\ found \in Seq(S) /\ Range(found) = Range(wanted) \intersect Fitting
      /\ \A x, y : Ahead(found, x, y) => Ahead(wanted, x, y)
    BY <1>2, SelectedList
<1> HIDE DEF found, encoding
<1>5. \A entry : entry \in Range(found) <=> entry \in S /\ Candidates(name, entry) # <<>>
    BY <1>2, <1>3, <1>4
<1>6. \A i \in DOMAIN accept : accept[i] \in S /\ accept[i].quality \in Nat
  <2>1. \A i \in DOMAIN accept : accept[i] \in Entries
    OBVIOUS
  <2> QED
    BY <2>1 DEF Range, Entries
<1>7. ASSUME NEW a \in Range(Precompressed), NEW i \in DOMAIN accept,
             <<name, a>> \in Existing, accept[i].name \in {a, "*"}
      PROVE  accept[i] \in Range(found)
  <2>1. a \in Range(Candidates(name, accept[i]))
    BY <1>7, CandidatesFit
  <2> QED
    BY <1>5, <1>6, <2>1, CandidatesFit
<1>8. CASE found = <<>>
  <2>1. Range(found) = {}
    BY <1>4, <1>8, RangeOfList
  <2> QED
    BY <1>1, <1>7, <1>8, <2>1 DEF Preferred, encoding
<1>9. CASE found # <<>>
  <2> DEFINE s == Head(found)
  <2>1. s \in Range(found) /\ \A x \in Range(found) : x = s \/ Ahead(found, s, x)
    BY <1>4, <1>9, FirstOfList
  <2>2. encoding = Head(Candidates(name, s)) /\ s \in S /\ Candidates(name, s) # <<>>
    BY <1>1, <1>5, <1>9, <2>1
  <2> HIDE DEF s
  <2>3. encoding \in Range(Precompressed) /\ s.name \in {"*", encoding} /\ <<name, encoding>> \in Existing
    BY <2>2, CandidatesFit
  <2>4. encoding # Plain
    BY <2>3, EncodingsAssumption
  <2>5. PICK j \in DOMAIN accept : accept[j] = s
    BY <2>2 DEF Range
  <2>6. ASSUME NEW a \in Range(Precompressed), NEW i \in DOMAIN accept,
               <<name, a>> \in Existing, accept[i].name \in {a, "*"}
        PROVE  accept[j].quality >= accept[i].quality
    <3>1. accept[i] \in Range(found)
      BY <1>7, <2>6
    <3>2. CASE accept[i] = s
      BY <1>6, <2>5, <3>2
    <3>3. CASE Ahead(found, s, accept[i])
      BY <1>2, <1>4, <2>5, <3>3
    <3> QED
      BY <2>1, <3>1, <3>2, <3>3
  <2>7. accept[j].name \in {encoding, "*"}
    BY <2>3, <2>5
  <2> QED
    BY <2>3, <2>4, <2>6, <2>7 DEF Preferred, encoding
<1> QED
    BY <1>8, <1>9

(* The file sent is the original or a precompressed one that the client    *)
(* accepts, and none that exists is preferable (find_matches,              *)
(* Compression::rewrite_path): for any header and any files.               *)
THEOREM EncodingAlwaysPreferred == Spec => PreferredEncoding
<1>1. ASSUME IInv, [Next]_vars, phase = "choose", phase' = "metadata", request.accept # None
      PROVE  Preferred(path'[2], request.accept)
  <2>1. Choose
    <3>1. \A code : ~Answer(code)
      BY <1>1 DEF Answer
    <3>2. Serve \/ ClientGone
      BY <1>1 DEF Next, Write, Delete, NewRequest, vars
    <3>3. ~ClientGone /\ ~FileEnded /\ ~OpenError
      BY <1>1 DEF ClientGone, FileEnded, OpenError, Abort
    <3>4. ~NotFound /\ ~DenyMethod /\ ~MetadataError /\ ~PreconditionFailed /\ ~NotModified
      BY <3>1 DEF NotFound, DenyMethod, MetadataError, PreconditionFailed, NotModified
    <3>5. ~RangeNotSatisfiable /\ ~PartialContent /\ ~WholeFile
      BY <1>1 DEF RangeNotSatisfiable, PartialContent, WholeFile, Proceeding
    <3>6. ~Resolve /\ ~ReadMetadata /\ ~Open /\ ~SendChunk /\ ~EndBody
      BY <1>1 DEF Resolve, ReadMetadata, Open, SendChunk, EndBody
    <3> QED
      BY <3>2, <3>3, <3>4, <3>5, <3>6 DEF Serve
  <2>2. request \in Requests
    BY <1>1 DEF IInv, RequestInv
  <2>3. request.accept \in Accepts
    BY <2>2, RequestKinds
  <2>4. request.accept \in Seq(Entries)
    BY <1>1, <2>3, EncodingsAssumption DEF Entries
  <2>5. Preferred(RewritePath(path[1], request.accept)[2], request.accept)
    BY <1>1, <2>4, ChoicePreferred
  <2> QED
    BY <2>1, <2>5 DEF Choose
<1>2. IInv /\ [Next]_vars =>
          (phase = "choose" /\ phase' = "metadata" /\ request.accept # None
               => Preferred(path'[2], request.accept))
    BY <1>1
<1> QED
    BY <1>2, Invariance, PTL DEF Spec, PreferredEncoding
=============================================================================
