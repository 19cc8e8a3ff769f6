---------------------------- MODULE CommonLogProof ----------------------------
(***************************************************************************)
(* Proofs about CommonLog: type correctness, that a line handed over after *)
(* a Reopen message never reaches a file renamed before it, and that it    *)
(* implements the access log; for any number of requests, files,           *)
(* listeners, rotations and signals and every capacity of the channel.     *)
(***************************************************************************)
EXTENDS CommonLog, SequenceLemmas


LEMMA HeadTail ==
    ASSUME NEW S, NEW s \in Seq(S), s # <<>>
    PROVE  /\ Head(s) \in S /\ Tail(s) \in Seq(S)
           /\ Head(s) = s[1] /\ Len(Tail(s)) = Len(s) - 1 /\ Len(s) >= 1
           /\ \A i \in 1 .. Len(Tail(s)) : Tail(s)[i] = s[i + 1]
OBVIOUS

LEMMA AppendLast ==
    ASSUME NEW S, NEW s \in Seq(S), NEW m \in S
    PROVE  /\ Append(s, m) \in Seq(S)
           /\ Len(Append(s, m)) = Len(s) + 1
           /\ \A i \in 1 .. Len(s) : Append(s, m)[i] = s[i]
           /\ Append(s, m)[Len(s) + 1] = m
OBVIOUS

LEMMA TypeInit == Init => TypeOK
<1> SUFFICES ASSUME Init PROVE TypeOK
    OBVIOUS
<1>1. rotation \in Generations /\ signals \in 0 .. MaxSignals
         /\ promised \in Generations /\ reopened \in Generations
    BY BoundsAssumption DEF Init, Generations
<1>2. queue \in Seq(Messages) /\ Len(queue) <= Capacity /\ written \in Seq(Records)
    BY CapacityAssumption DEF Init
<1>3. /\ request \in [Requests -> {"running", "sending", "sent"}]
      /\ listener \in [Kinds -> {"none", "spawned", "receiving", "sending",
                                 "unregistered"}]
      /\ pending \in [Kinds -> BOOLEAN]
      /\ files \in [Paths -> Generations \union {Stdout, Closed}]
    BY DEF Init
<1>4. alive \in BOOLEAN /\ started \in BOOLEAN /\ current \in Messages \union {Idle}
    BY DEF Init
<1> QED
    BY <1>1, <1>2, <1>3, <1>4 DEF TypeOK

LEMMA TypeNext == TypeOK /\ [Next]_vars => TypeOK'
<1> SUFFICES ASSUME TypeOK, [Next]_vars PROVE TypeOK'
    OBVIOUS
<1> USE DEF TypeOK, environment, writer
<1>1. ASSUME NEW r \in Requests, StartLogging(r) PROVE TypeOK'
    BY <1>1 DEF StartLogging
<1>2. ASSUME NEW r \in Requests, Send(r) PROVE TypeOK'
  <2>1. [tag |-> Line, from |-> r, gen |-> promised] \in Messages
    BY DEF Messages, Lines
  <2>2. queue' \in Seq(Messages) /\ Len(queue') <= Capacity
    BY <1>2, <2>1, AppendLast, CapacityAssumption DEF Send, Room
  <2> QED
    BY <1>2, <2>2 DEF Send
<1>3. ASSUME NEW k \in Kinds, Register(k) PROVE TypeOK'
    BY <1>3 DEF Register
<1>4. ASSUME NEW k \in Kinds, Receive(k) PROVE TypeOK'
    BY <1>4 DEF Receive
<1>5. ASSUME NEW k \in Kinds, SendReopen(k) PROVE TypeOK'
  <2>1. [tag |-> Reopen, from |-> k, gen |-> rotation] \in Messages
    BY DEF Messages, Reopens
  <2>2. queue' \in Seq(Messages) /\ Len(queue') <= Capacity
    BY <1>5, <2>1, AppendLast, CapacityAssumption DEF SendReopen, Room
  <2> QED
    BY <1>5, <2>2 DEF SendReopen
<1>6. CASE Take
  <2>1. Head(queue) \in Messages /\ Tail(queue) \in Seq(Messages)
            /\ Len(Tail(queue)) <= Capacity
    BY <1>6, HeadTail, CapacityAssumption DEF Take
  <2> QED
    BY <1>6, <2>1 DEF Take
<1>7. CASE WriteLine
  <2> DEFINE path == LogFile[current.from]
  <2>1. current.from \in Requests /\ current.gen \in Generations /\ path \in Paths
    BY <1>7, FilesAssumption, BoundsAssumption DEF WriteLine, Lines
  <2>2. PICK to \in IF files[path] = Closed THEN Opened ELSE {files[path]},
              ok \in BOOLEAN :
            /\ files' = [files EXCEPT ![path] = to]
            /\ written' = Append(written, [from |-> current.from,
                                           gen |-> current.gen,
                                           to |-> to, ok |-> ok])
    BY <1>7 DEF WriteLine
  <2>3. to \in Generations \union {Stdout}
    BY <2>1 DEF Opened
  <2>4. [from |-> current.from, gen |-> current.gen, to |-> to, ok |-> ok] \in Records
    BY <2>1, <2>3 DEF Records
  <2>5. written' \in Seq(Records)
    BY <2>2, <2>4, AppendLast
  <2>6. files' \in [Paths -> Generations \union {Stdout, Closed}]
    BY <2>1, <2>2, <2>3
  <2> QED
    BY <1>7, <2>5, <2>6 DEF WriteLine
<1>8. CASE ReopenFiles
    BY <1>8 DEF ReopenFiles, Reopens
<1>9. CASE Rotate
    BY <1>9, BoundsAssumption DEF Rotate, Generations
<1>10. ASSUME NEW k \in Kinds, Signal(k) PROVE TypeOK'
  <2>1. signals' \in 0 .. MaxSignals
    BY <1>10, BoundsAssumption DEF Signal
  <2>2. alive' \in BOOLEAN /\ pending' \in [Kinds -> BOOLEAN]
    BY <1>10 DEF Signal
  <2> QED
    BY <1>10, <2>1, <2>2 DEF Signal
<1>11. CASE Stop
    BY <1>11 DEF Stop
<1>12. CASE UNCHANGED vars
    BY <1>12 DEF vars
<1> QED
    BY <1>1, <1>2, <1>3, <1>4, <1>5, <1>6, <1>7, <1>8, <1>9, <1>10, <1>11, <1>12
    DEF Next, Task, Listener, Writer, Environment

(* The state of channel, writer and listeners has its type in every        *)
(* reachable state; in particular the channel never exceeds its capacity.  *)
THEOREM TypeCorrect == Spec => []TypeOK
<1>1. Init => TypeOK
    BY TypeInit
<1>2. TypeOK /\ [Next]_vars => TypeOK'
    BY TypeNext
<1> QED
    BY <1>1, <1>2, PTL DEF Spec

-----------------------------------------------------------------------------
(***************************************************************************)
(* Why NoStaleFile holds.  Floor is the generation promised by the last    *)
(* Reopen that the writer has taken.  Generations only grow along the      *)
(* channel, and a line whose promise exceeds Floor still has the Reopen    *)
(* that made the promise ahead of it.  The writer closes its files when it *)
(* processes a Reopen, so no open file is older than Floor by the time a   *)
(* line is taken.                                                          *)
(***************************************************************************)
Floor == IF current \in Reopens THEN current.gen ELSE reopened

(* A promise g made before the message at position j was sent.             *)
Covered(g, j) ==
    g <= Floor \/ \E i \in 1 .. (j - 1) : queue[i] \in Reopens /\ queue[i].gen >= g

Growing ==
    /\ reopened <= Floor /\ Floor <= promised /\ promised <= rotation
    /\ \A i \in 1 .. Len(queue) : Floor <= queue[i].gen /\ queue[i].gen <= promised
    /\ \A i, j \in 1 .. Len(queue) : i <= j => queue[i].gen <= queue[j].gen

LinesCovered ==
    /\ \A j \in 1 .. Len(queue) : queue[j] \in Lines => Covered(queue[j].gen, j)
    /\ Covered(promised, Len(queue) + 1)

CurrentCovered == current \in Lines => current.gen <= reopened

FilesFresh == \A p \in Paths : files[p] \in Generations => files[p] >= reopened

PromiseInv ==
    /\ Growing /\ LinesCovered /\ CurrentCovered /\ FilesFresh /\ NoStaleFile

LEMMA Tags == Lines \cap Reopens = {}
BY TagsAssumption DEF Lines, Reopens

LEMMA PromiseInit == Init => PromiseInv
BY IdleAssumption, TagsAssumption
   DEF Init, PromiseInv, Growing, LinesCovered, Covered, Floor, CurrentCovered,
       FilesFresh, NoStaleFile, Messages, Lines, Reopens, Generations

(* Steps that leave the channel, the writer and both auxiliary promises    *)
(* alone keep the invariant.                                               *)
LEMMA PromiseStutter ==
    ASSUME TypeOK, PromiseInv, rotation <= rotation', rotation' \in Generations,
           UNCHANGED <<queue, writer, promised>>
    PROVE  PromiseInv'
BY DEF PromiseInv, Growing, LinesCovered, Covered, Floor, CurrentCovered,
       FilesFresh, NoStaleFile, TypeOK, writer, Generations

(* A message appended to the channel.                                      *)
LEMMA PromiseAppend ==
    ASSUME TypeOK, PromiseInv, NEW m \in Messages,
           queue' = Append(queue, m), UNCHANGED <<rotation, writer>>,
           m.gen = promised', promised <= promised', promised' <= rotation,
           m \in Lines => promised' = promised
    PROVE  PromiseInv'
<1> USE DEF TypeOK, Generations, writer
<1> DEFINE NextCovered(g, j) ==
        g <= Floor \/ \E i \in 1 .. (j - 1) :
                          queue'[i] \in Reopens /\ queue'[i].gen >= g
<1>1. /\ Len(queue') = Len(queue) + 1
      /\ \A i \in 1 .. Len(queue) : queue'[i] = queue[i]
      /\ queue'[Len(queue) + 1] = m
    BY AppendLast
<1>2. Floor' = Floor /\ Len(queue) \in Nat /\ promised' \in Int /\ Floor \in Int
    BY DEF Floor, Messages, Lines, Reopens
<1>3. \A i \in 1 .. Len(queue) : queue[i].gen \in Int
    BY DEF Messages, Lines, Reopens
<1>4. Growing'
  <2>1. \A i \in 1 .. Len(queue') : Floor' <= queue'[i].gen /\ queue'[i].gen <= promised'
    BY <1>1, <1>2, <1>3 DEF PromiseInv, Growing
  <2>2. \A i, j \in 1 .. Len(queue') : i <= j => queue'[i].gen <= queue'[j].gen
    BY <1>1, <1>2, <1>3 DEF PromiseInv, Growing
  <2>3. reopened' <= Floor' /\ Floor' <= promised' /\ promised' <= rotation'
    BY <1>2 DEF PromiseInv, Growing
  <2> QED
    BY <2>1, <2>2, <2>3 DEF Growing
<1>5. \A j \in 1 .. (Len(queue) + 1) : \A g \in Int : Covered(g, j) => NextCovered(g, j)
    BY <1>1 DEF Covered
<1> HIDE DEF NextCovered
<1>6. \A j \in 1 .. Len(queue) : queue[j] \in Lines => NextCovered(queue[j].gen, j)
    BY <1>2, <1>3, <1>5 DEF PromiseInv, LinesCovered
<1>7. m \in Lines => NextCovered(m.gen, Len(queue) + 1)
    BY <1>2, <1>5 DEF PromiseInv, LinesCovered
<1> USE DEF NextCovered
<1>8. NextCovered(promised', Len(queue) + 2)
  <2>1. CASE m \in Lines
    BY <1>2, <1>7, <2>1
  <2>2. CASE m \in Reopens
    BY <1>1, <1>2, <2>2
  <2> QED
    BY <2>1, <2>2 DEF Messages
<1>9. LinesCovered'
  <2>1. \A j \in 1 .. Len(queue') : queue'[j] \in Lines => NextCovered(queue'[j].gen, j)
    BY <1>1, <1>2, <1>6, <1>7
  <2>2. NextCovered(promised', Len(queue') + 1)
    BY <1>1, <1>2, <1>8
  <2> QED
    BY <1>2, <2>1, <2>2 DEF LinesCovered, Covered
<1>10. CurrentCovered' /\ FilesFresh' /\ NoStaleFile'
    BY DEF PromiseInv, CurrentCovered, FilesFresh, NoStaleFile
<1> QED
    BY <1>4, <1>9, <1>10 DEF PromiseInv

(* The writer takes the first message.                                     *)
LEMMA PromiseTake ==
    ASSUME TypeOK, PromiseInv, Take
    PROVE  PromiseInv'
<1> USE DEF TypeOK, Generations, Take, environment
<1> DEFINE m == Head(queue)
           NextCovered(g, j) ==
               g <= Floor' \/ \E i \in 1 .. (j - 1) :
                                  queue'[i] \in Reopens /\ queue'[i].gen >= g
<1>1. /\ m \in Messages /\ m = queue[1] /\ Len(queue) >= 1
      /\ Len(queue') = Len(queue) - 1 /\ Len(queue) \in Nat
      /\ \A i \in 1 .. Len(queue') : queue'[i] = queue[i + 1]
    BY HeadTail
<1>2. \A i \in 1 .. Len(queue) : queue[i].gen \in Int
    BY DEF Messages, Lines, Reopens
<1>3. Floor = reopened
    BY IdleAssumption DEF Floor, Messages
<1>4. Floor' = IF m \in Reopens THEN m.gen ELSE Floor
    BY <1>3 DEF Floor
<1>5. Floor <= Floor' /\ Floor' <= m.gen /\ m.gen <= promised /\ Floor' \in Int
    BY <1>1, <1>2, <1>3, <1>4 DEF PromiseInv, Growing
<1>6. Growing'
  <2>1. \A i \in 1 .. Len(queue') : Floor' <= queue'[i].gen /\ queue'[i].gen <= promised'
    BY <1>1, <1>2, <1>5 DEF PromiseInv, Growing
  <2>2. \A i, j \in 1 .. Len(queue') : i <= j => queue'[i].gen <= queue'[j].gen
    BY <1>1, <1>2 DEF PromiseInv, Growing
  <2>3. reopened' <= Floor' /\ Floor' <= promised' /\ promised' <= rotation'
    BY <1>2, <1>1, <1>3, <1>5 DEF PromiseInv, Growing
  <2> QED
    BY <2>1, <2>2, <2>3 DEF Growing
<1>7. \A j \in 2 .. (Len(queue) + 1) : \A g \in Int : Covered(g, j) => NextCovered(g, j - 1)
  <2> SUFFICES ASSUME NEW j \in 2 .. (Len(queue) + 1), NEW g \in Int, Covered(g, j)
               PROVE  NextCovered(g, j - 1)
    OBVIOUS
  <2>1. CASE g <= Floor
    BY <1>3, <1>5, <2>1
  <2>2. ASSUME NEW i \in 1 .. (j - 1), queue[i] \in Reopens, queue[i].gen >= g
        PROVE  NextCovered(g, j - 1)
    <3>1. CASE i = 1
      BY <1>1, <1>2, <1>4, <2>2, <3>1
    <3>2. CASE i > 1
      <4>1. i - 1 \in 1 .. ((j - 1) - 1) /\ queue'[i - 1] = queue[i]
        BY <1>1, <3>2
      <4> QED
        BY <2>2, <4>1
    <3> QED
      BY <3>1, <3>2
  <2> QED
    BY <2>1, <2>2 DEF Covered
<1>8. LinesCovered'
  <2>1. \A j \in 1 .. Len(queue') : queue'[j] \in Lines => NextCovered(queue'[j].gen, j)
    <3> SUFFICES ASSUME NEW j \in 1 .. Len(queue'), queue'[j] \in Lines
                 PROVE  NextCovered(queue'[j].gen, j)
      OBVIOUS
    <3>1. queue'[j] = queue[j + 1] /\ j + 1 \in 2 .. Len(queue)
      BY <1>1
    <3>2. Covered(queue[j + 1].gen, j + 1)
      BY <3>1 DEF PromiseInv, LinesCovered
    <3> HIDE DEF NextCovered
    <3>3. queue[j + 1].gen \in Int /\ (j + 1) - 1 = j
      BY <1>2, <3>1
    <3>4. NextCovered(queue[j + 1].gen, (j + 1) - 1)
      BY <1>1, <1>7, <3>1, <3>2, <3>3
    <3>5. NextCovered(queue[j + 1].gen, j)
      BY <3>3, <3>4
    <3> QED
      BY <3>1, <3>5
  <2>2. NextCovered(promised', Len(queue') + 1)
    <3> HIDE DEF NextCovered
    <3>1. /\ Covered(promised, Len(queue) + 1) /\ promised \in Int
          /\ Len(queue) + 1 \in 2 .. (Len(queue) + 1)
          /\ (Len(queue) + 1) - 1 = Len(queue') + 1
      BY <1>1 DEF PromiseInv, LinesCovered
    <3>2. NextCovered(promised, (Len(queue) + 1) - 1)
      BY <1>7, <3>1
    <3> QED
      BY <3>1, <3>2
  <2> QED
    BY <2>1, <2>2 DEF LinesCovered, Covered
<1>9. CurrentCovered'
  <2>1. m \in Lines => Covered(m.gen, 1)
    BY <1>1 DEF PromiseInv, LinesCovered
  <2> QED
    BY <1>3, <2>1 DEF Covered, CurrentCovered
<1>10. FilesFresh' /\ NoStaleFile'
    BY DEF PromiseInv, FilesFresh, NoStaleFile
<1> QED
    BY <1>6, <1>8, <1>9, <1>10 DEF PromiseInv

(* The writer writes a line: to an open file, which is no older than Floor, *)
(* or to the file the path names now.                                      *)
LEMMA PromiseWriteLine ==
    ASSUME TypeOK, PromiseInv, WriteLine
    PROVE  PromiseInv'
<1> USE DEF TypeOK, environment
<1> DEFINE path == LogFile[current.from]
<1>1. /\ current.from \in Requests /\ current.gen \in Generations
      /\ path \in Paths /\ current \in Lines /\ current \notin Reopens
    BY Tags, FilesAssumption DEF WriteLine, Lines
<1>2. PICK to \in IF files[path] = Closed THEN Opened ELSE {files[path]},
            ok \in BOOLEAN :
          /\ files' = [files EXCEPT ![path] = to]
          /\ written' = Append(written, [from |-> current.from,
                                         gen |-> current.gen,
                                         to |-> to, ok |-> ok])
    BY DEF WriteLine
<1>3. to \in Generations \union {Stdout}
    BY <1>1 DEF Opened
<1>4. current.gen <= reopened /\ reopened <= promised /\ promised <= rotation
    BY <1>1 DEF PromiseInv, CurrentCovered, Growing, Floor
<1>5. to \in Generations => to >= reopened
    BY <1>1, <1>4, TagsAssumption
    DEF PromiseInv, FilesFresh, Opened, Generations
<1>6. current' = Idle /\ UNCHANGED <<queue, rotation, promised, reopened>>
    BY DEF WriteLine
<1>7. Floor' = reopened /\ Floor = reopened
    BY <1>1, <1>6, IdleAssumption DEF Floor, Messages
<1>8. Growing' /\ LinesCovered'
    BY <1>6, <1>7 DEF PromiseInv, Growing, LinesCovered, Covered
<1>9. CurrentCovered'
    BY <1>6, IdleAssumption DEF CurrentCovered, Messages
<1>10. FilesFresh'
    BY <1>1, <1>2, <1>5, <1>6 DEF PromiseInv, FilesFresh
<1>11. NoStaleFile'
  <2> DEFINE rec == [from |-> current.from, gen |-> current.gen, to |-> to, ok |-> ok]
  <2>1. rec \in Records
    BY <1>1, <1>3 DEF Records
  <2>2. /\ Len(written') = Len(written) + 1 /\ written' \in Seq(Records)
        /\ \A i \in 1 .. Len(written) : written'[i] = written[i]
        /\ written'[Len(written) + 1] = rec
    BY <1>2, <2>1, AppendLast
  <2>3. rec.to # Stdout => rec.to >= rec.gen
    BY <1>1, <1>3, <1>4, <1>5 DEF Generations
  <2> HIDE DEF rec
  <2>4. \A i \in 1 .. Len(written') :
            written'[i].to # Stdout => written'[i].to >= written'[i].gen
    <3>1. \A i \in 1 .. Len(written) :
              written[i].to # Stdout => written[i].to >= written[i].gen
      BY DEF PromiseInv, NoStaleFile
    <3>2. \A i \in 1 .. Len(written') : i \in 1 .. Len(written) \/ i = Len(written) + 1
      BY <2>2
    <3> QED
      BY <2>2, <2>3, <3>1, <3>2
  <2> QED
    BY <2>2, <2>4 DEF NoStaleFile
<1> QED
    BY <1>8, <1>9, <1>10, <1>11 DEF PromiseInv

(* The writer closes its files.                                            *)
LEMMA PromiseReopen ==
    ASSUME TypeOK, PromiseInv, ReopenFiles
    PROVE  PromiseInv'
<1>1. /\ current \in Reopens /\ current' = Idle /\ reopened' = current.gen
      /\ files' = [p \in Paths |-> Closed]
      /\ UNCHANGED <<queue, rotation, promised, written>>
    BY DEF ReopenFiles, environment
<1>2. Floor = current.gen /\ Floor' = current.gen /\ current.gen \in Int
    BY <1>1, IdleAssumption DEF Floor, Messages, Reopens, Generations
<1>3. Growing' /\ LinesCovered'
    BY <1>1, <1>2 DEF PromiseInv, Growing, LinesCovered, Covered
<1>4. CurrentCovered' /\ FilesFresh' /\ NoStaleFile'
    BY <1>1, IdleAssumption, TagsAssumption
    DEF PromiseInv, CurrentCovered, FilesFresh, NoStaleFile, Messages, Generations
<1> QED
    BY <1>3, <1>4 DEF PromiseInv

LEMMA PromiseNext == TypeOK /\ PromiseInv /\ [Next]_vars => PromiseInv'
<1> SUFFICES ASSUME TypeOK, PromiseInv, [Next]_vars PROVE PromiseInv'
    OBVIOUS
<1>0. /\ rotation \in Nat /\ promised \in Nat /\ promised <= rotation
      /\ rotation \in Generations
    BY DEF TypeOK, Generations, PromiseInv, Growing
<1>1. ASSUME NEW r \in Requests, StartLogging(r) PROVE PromiseInv'
    BY <1>0, <1>1, PromiseStutter DEF StartLogging, environment
<1>2. ASSUME NEW r \in Requests, Send(r) PROVE PromiseInv'
  <2> DEFINE m == [tag |-> Line, from |-> r, gen |-> promised]
  <2>1. m \in Messages /\ m.gen = promised
    BY DEF Messages, Lines, TypeOK
  <2>2. queue' = Append(queue, m) /\ UNCHANGED <<rotation, writer, promised>>
    BY <1>2 DEF Send, environment
  <2> HIDE DEF m
  <2> QED
    BY <1>0, <2>1, <2>2, PromiseAppend
<1>3. ASSUME NEW k \in Kinds, Register(k) PROVE PromiseInv'
    BY <1>0, <1>3, PromiseStutter DEF Register, environment
<1>4. ASSUME NEW k \in Kinds, Receive(k) PROVE PromiseInv'
    BY <1>0, <1>4, PromiseStutter DEF Receive, environment
<1>5. ASSUME NEW k \in Kinds, SendReopen(k) PROVE PromiseInv'
  <2> DEFINE m == [tag |-> Reopen, from |-> k, gen |-> rotation]
  <2>1. m \in Messages /\ m \notin Lines /\ m.gen = rotation
    BY Tags, <1>0 DEF Messages, Reopens
  <2>2. queue' = Append(queue, m) /\ UNCHANGED <<rotation, writer>>
            /\ promised' = rotation
    BY <1>5 DEF SendReopen, environment
  <2> HIDE DEF m
  <2> QED
    BY <1>0, <2>1, <2>2, PromiseAppend
<1>6. CASE Take
    BY <1>6, PromiseTake
<1>7. CASE WriteLine
    BY <1>7, PromiseWriteLine
<1>8. CASE ReopenFiles
    BY <1>8, PromiseReopen
<1>9. CASE Rotate
  <2>1. rotation' \in Generations /\ rotation <= rotation'
    BY <1>0, <1>9, BoundsAssumption DEF Rotate, Generations
  <2> QED
    BY <1>9, <2>1, PromiseStutter DEF Rotate
<1>10. ASSUME NEW k \in Kinds, Signal(k) PROVE PromiseInv'
    BY <1>0, <1>10, PromiseStutter DEF Signal
<1>11. CASE Stop
    BY <1>0, <1>11, PromiseStutter DEF Stop
<1>12. CASE UNCHANGED vars
    BY <1>0, <1>12, PromiseStutter DEF vars, writer
<1> QED
    BY <1>1, <1>2, <1>3, <1>4, <1>5, <1>6, <1>7, <1>8, <1>9, <1>10, <1>11, <1>12
    DEF Next, Task, Listener, Writer, Environment

(* Rotated log files are safe to process: a line handed over after the     *)
(* Reopen message of a rotation is never written to a file that had been   *)
(* renamed when the message was sent.                                      *)
THEOREM NoLineToRotatedFile == Spec => []NoStaleFile
<1>1. Init => TypeOK /\ PromiseInv
    BY TypeInit, PromiseInit
<1>2. TypeOK /\ PromiseInv /\ [Next]_vars => (TypeOK /\ PromiseInv)'
    BY TypeNext, PromiseNext
<1>3. PromiseInv => NoStaleFile
    BY DEF PromiseInv
<1> QED
    BY <1>1, <1>2, <1>3, PTL DEF Spec

-----------------------------------------------------------------------------
(***************************************************************************)
(* CommonLog implements AccessLog: seen through the lines that the writer  *)
(* is done with and those it still has ahead of it, every step of channel, *)
(* writer, listeners and signals is a step of the access log or none.      *)
(***************************************************************************)
-----------------------------------------------------------------------------
(***************************************************************************)
(* LinesIn, which is defined by recursion over the messages.               *)
(***************************************************************************)
IsLine(m) == m.tag = Line
Extended(t, m) == IF IsLine(m) THEN Append(t, m.from) ELSE t

(* The lines among the first n messages of s, for every n up to N.         *)
Collects(f, s, N) ==
    /\ f \in [0 .. N -> Seq(Requests)] /\ f[0] = <<>>
    /\ \A n \in 1 .. N : f[n] = Extended(f[n - 1], s[n])

LEMMA ExtendedType ==
    ASSUME NEW t \in Seq(Requests), NEW m \in Messages
    PROVE  Extended(t, m) \in Seq(Requests)
BY TagsAssumption, AppendLast DEF Extended, IsLine, Messages, Lines, Reopens

LEMMA SelectsExists ==
    ASSUME NEW s \in Seq(Messages)
    PROVE  \E f : Collects(f, s, Len(s))
<1> DEFINE S == {n \in Nat : n <= Len(s) => \E f : Collects(f, s, n)}
<1>1. 0 \in S
  <2>1. Collects([n \in 0 .. 0 |-> <<>>], s, 0)
    BY DEF Collects
  <2> QED
    BY <2>1
<1>2. ASSUME NEW N \in S, N + 1 <= Len(s)
      PROVE  \E f : Collects(f, s, N + 1)
  <2>1. PICK f : Collects(f, s, N)
    BY <1>2
  <2> DEFINE t == Extended(f[N], s[N + 1])
             g == [n \in 0 .. (N + 1) |-> IF n = N + 1 THEN t ELSE f[n]]
  <2>2. t \in Seq(Requests)
    <3>1. f[N] \in Seq(Requests) /\ s[N + 1] \in Messages
      BY <1>2, <2>1 DEF Collects
    <3> QED
      BY <3>1, ExtendedType
  <2>3. g \in [0 .. (N + 1) -> Seq(Requests)] /\ g[0] = <<>>
    BY <1>2, <2>1, <2>2 DEF Collects
  <2>4. \A n \in 1 .. (N + 1) : g[n] = Extended(g[n - 1], s[n])
    <3> SUFFICES ASSUME NEW n \in 1 .. (N + 1)
                 PROVE  g[n] = Extended(g[n - 1], s[n])
      OBVIOUS
    <3>1. CASE n = N + 1
      <4>1. g[n] = t /\ g[n - 1] = f[N]
        BY <1>2, <3>1
      <4> QED
        BY <3>1, <4>1
    <3>2. CASE n \in 1 .. N
      <4>1. g[n] = f[n] /\ g[n - 1] = f[n - 1]
        BY <1>2, <3>2
      <4> QED
        BY <2>1, <3>2, <4>1 DEF Collects
    <3> QED
      BY <1>2, <3>1, <3>2
  <2> QED
    BY <2>3, <2>4 DEF Collects
<1>3. \A n \in S : n + 1 \in S
    BY <1>2
<1>4. \A n \in Nat : n \in S
  <2> HIDE DEF S
  <2> QED
    BY <1>1, <1>3, Induction DEF S
<1> QED
    BY <1>4

(* There is only one such function: two agree as far as their messages do. *)
LEMMA SelectsUnique ==
    ASSUME NEW s \in Seq(Messages), NEW t \in Seq(Messages),
           NEW N \in 0 .. Len(s), N <= Len(t), \A i \in 1 .. N : s[i] = t[i],
           NEW f, Collects(f, s, Len(s)), NEW g, Collects(g, t, Len(t))
    PROVE  f[N] = g[N]
<1> DEFINE S == {n \in Nat : n <= N => f[n] = g[n]}
<1>1. 0 \in S
    BY DEF Collects
<1>2. ASSUME NEW n \in S
      PROVE  n + 1 \in S
  <2>1. CASE n + 1 <= N
    <3>1. n + 1 \in 1 .. Len(s) /\ n + 1 \in 1 .. Len(t) /\ (n + 1) - 1 = n
      BY <2>1
    <3>2. /\ f[n + 1] = Extended(f[n], s[n + 1])
          /\ g[n + 1] = Extended(g[n], t[n + 1])
      BY <3>1 DEF Collects
    <3> QED
      BY <1>2, <2>1, <3>2
  <2> QED
    BY <2>1
<1>3. \A n \in Nat : n \in S
    BY <1>1, <1>2, Induction
<1> QED
    BY <1>3

LEMMA LinesInSelects ==
    ASSUME NEW s \in Seq(Messages)
    PROVE  \E f : Collects(f, s, Len(s)) /\ LinesIn(s) = f[Len(s)]
<1> DEFINE Step(f) == [n \in 0 .. Len(s) |->
                          IF n = 0 THEN <<>>
                          ELSE IF s[n].tag = Line THEN Append(f[n - 1], s[n].from)
                          ELSE f[n - 1]]
           first == CHOOSE f : f = Step(f)
<1>1. PICK f : Collects(f, s, Len(s))
    BY SelectsExists
<1>2. f = Step(f)
  <2>1. \A n \in 0 .. Len(s) : f[n] = Step(f)[n]
    <3>1. f[0] = Step(f)[0]
      BY <1>1 DEF Collects
    <3>2. \A n \in 1 .. Len(s) : f[n] = Step(f)[n]
      BY <1>1 DEF Collects, Extended, IsLine
    <3>3. \A n \in 0 .. Len(s) : n = 0 \/ n \in 1 .. Len(s)
      OBVIOUS
    <3> QED
      BY <3>1, <3>2, <3>3
  <2>2. f = [n \in 0 .. Len(s) |-> f[n]]
    BY <1>1 DEF Collects
  <2> QED
    BY <2>1, <2>2
<1>3. first = Step(first)
    BY <1>2
<1>4. LinesIn(s) = first[Len(s)]
    BY DEF LinesIn
<1> HIDE DEF first
<1>5. /\ first[0] = <<>>
      /\ \A n \in 1 .. Len(s) : first[n] = Extended(first[n - 1], s[n])
  <2>1. \A n \in 0 .. Len(s) : first[n] = Step(first)[n]
    BY <1>3
  <2> QED
    BY <2>1 DEF Extended, IsLine
<1>6. \A n \in 0 .. Len(s) : first[n] = f[n]
  <2> DEFINE S == {n \in Nat : n <= Len(s) => first[n] = f[n]}
  <2>1. 0 \in S
    BY <1>1, <1>5 DEF Collects
  <2>2. ASSUME NEW n \in S
        PROVE  n + 1 \in S
    <3>1. CASE n + 1 <= Len(s)
      <4>1. n + 1 \in 1 .. Len(s) /\ (n + 1) - 1 = n
        BY <3>1
      <4>2. /\ first[n + 1] = Extended(first[n], s[n + 1])
            /\ f[n + 1] = Extended(f[n], s[n + 1])
        BY <1>1, <1>5, <4>1 DEF Collects
      <4> QED
        BY <2>2, <3>1, <4>2
    <3> QED
      BY <3>1
  <2>3. \A n \in Nat : n \in S
    BY <2>1, <2>2, Induction
  <2> QED
    BY <2>3
<1> QED
    BY <1>1, <1>4, <1>6

-----------------------------------------------------------------------------
(* What the proofs below use of LinesIn.                                   *)

LEMMA LinesInNothing == LinesIn(<<>>) = <<>>
<1>1. <<>> \in Seq(Messages) /\ Len(<<>>) = 0
    OBVIOUS
<1> QED
    BY <1>1, LinesInSelects DEF Collects

LEMMA LinesInType ==
    ASSUME NEW s \in Seq(Messages)
    PROVE  LinesIn(s) \in Seq(Requests)
BY LinesInSelects DEF Collects

LEMMA LinesInAppend ==
    ASSUME NEW s \in Seq(Messages), NEW m \in Messages
    PROVE  LinesIn(Append(s, m)) = Extended(LinesIn(s), m)
<1> DEFINE t == Append(s, m)
           N == Len(s)
<1>1. /\ t \in Seq(Messages) /\ Len(t) = N + 1 /\ N \in Nat
      /\ \A i \in 1 .. N : t[i] = s[i]
      /\ t[N + 1] = m
    BY AppendLast
<1> HIDE DEF t
<1>2. PICK f : Collects(f, s, N) /\ LinesIn(s) = f[N]
    BY LinesInSelects
<1>3. PICK g : Collects(g, t, Len(t)) /\ LinesIn(t) = g[N + 1]
    BY <1>1, LinesInSelects
<1>4. f[N] = g[N]
    BY <1>1, <1>2, <1>3, SelectsUnique
<1>5. g[N + 1] = Extended(g[N], t[N + 1])
    BY <1>1, <1>3 DEF Collects
<1> QED
    BY <1>1, <1>2, <1>3, <1>4, <1>5 DEF t

(* A sequence is empty or has a last element.                              *)
LEMMA LastElement ==
    ASSUME NEW S, NEW s \in Seq(S), NEW n \in Nat, Len(s) = n + 1
    PROVE  \E t \in Seq(S), m \in S : s = Append(t, m) /\ Len(t) = n
<1> DEFINE t == [i \in 1 .. n |-> s[i]]
<1>1. t \in Seq(S) /\ Len(t) = n /\ s[n + 1] \in S
    OBVIOUS
<1>2. s = Append(t, s[n + 1])
    BY <1>1
<1> QED
    BY <1>1, <1>2

LEMMA ConcatAppend ==
    \A a, b \in Seq(Requests), r \in Requests :
        Append(a \o b, r) = a \o Append(b, r)
OBVIOUS

LEMMA LinesInCons ==
    ASSUME NEW m \in Messages, NEW s \in Seq(Messages)
    PROVE  LinesIn(<<m>> \o s) = Extended(<<>>, m) \o LinesIn(s)
<1> DEFINE e == Extended(<<>>, m)
           P(n) == \A t \in Seq(Messages) :
                       Len(t) = n => LinesIn(<<m>> \o t) = e \o LinesIn(t)
           S == {n \in Nat : P(n)}
<1>0. e \in Seq(Requests) /\ <<>> \in Seq(Messages)
  <2>1. <<>> \in Seq(Requests) /\ <<>> \in Seq(Messages)
    OBVIOUS
  <2>2. Extended(<<>>, m) \in Seq(Requests)
    BY <2>1, ExtendedType
  <2> QED
    BY <2>1, <2>2
<1>1. P(0)
  <2>1. \A t \in Seq(Messages) : Len(t) = 0 => t = <<>>
    OBVIOUS
  <2>2. <<m>> \o <<>> = Append(<<>>, m)
    OBVIOUS
  <2>3. LinesIn(Append(<<>>, m)) = e
    BY <1>0, LinesInAppend, LinesInNothing
  <2> HIDE DEF e
  <2>4. e \o <<>> = e
    BY <1>0
  <2> QED
    BY <2>1, <2>2, <2>3, <2>4, LinesInNothing
<1>2. ASSUME NEW n \in Nat, P(n), NEW s2 \in Seq(Messages), Len(s2) = n + 1
      PROVE  LinesIn(<<m>> \o s2) = e \o LinesIn(s2)
  <2>1. PICK t \in Seq(Messages), k \in Messages : s2 = Append(t, k) /\ Len(t) = n
    BY <1>2, LastElement
  <2>2. LinesIn(<<m>> \o t) = e \o LinesIn(t)
    BY <1>2, <2>1
  <2>3. <<m>> \o s2 = Append(<<m>> \o t, k) /\ <<m>> \o t \in Seq(Messages)
    BY <2>1
  <2>4. /\ LinesIn(<<m>> \o s2) = Extended(LinesIn(<<m>> \o t), k)
        /\ LinesIn(s2) = Extended(LinesIn(t), k)
    BY <2>1, <2>3, LinesInAppend
  <2>5. LinesIn(t) \in Seq(Requests) /\ (IsLine(k) => k.from \in Requests)
    BY LinesInType, TagsAssumption DEF IsLine, Messages, Lines, Reopens
  <2> HIDE DEF e
  <2>6. ASSUME NEW r \in Requests
        PROVE  Append(e \o LinesIn(t), r) = e \o Append(LinesIn(t), r)
    BY <1>0, <2>5, ConcatAppend
  <2> QED
    BY <2>2, <2>4, <2>5, <2>6 DEF Extended
<1>3. \A n \in Nat : P(n) => P(n + 1)
    BY <1>2
<1>4. \A n \in Nat : n \in S
  <2> HIDE DEF P
  <2>1. S \in SUBSET Nat /\ 0 \in S /\ \A n \in S : n + 1 \in S
    BY <1>1, <1>3
  <2> HIDE DEF S
  <2> QED
    BY <2>1, Induction
<1> QED
    BY <1>4

(* Only the requests of lines are in the backlog.                          *)
LEMMA LinesInMember ==
    ASSUME NEW s \in Seq(Messages), NEW i \in DOMAIN LinesIn(s)
    PROVE  \E j \in 1 .. Len(s) : s[j] \in Lines /\ s[j].from = LinesIn(s)[i]
<1> DEFINE P(n) == \A t \in Seq(Messages) : Len(t) = n =>
                       \A k \in DOMAIN LinesIn(t) : \E j \in 1 .. Len(t) :
                           t[j] \in Lines /\ t[j].from = LinesIn(t)[k]
           S == {n \in Nat : P(n)}
<1>1. P(0)
  <2>1. \A t \in Seq(Messages) : Len(t) = 0 => t = <<>>
    OBVIOUS
  <2> QED
    BY <2>1, LinesInNothing
<1>2. ASSUME NEW n \in Nat, P(n), NEW u \in Seq(Messages), Len(u) = n + 1,
             NEW k \in DOMAIN LinesIn(u)
      PROVE  \E j \in 1 .. Len(u) : u[j] \in Lines /\ u[j].from = LinesIn(u)[k]
  <2>1. PICK t \in Seq(Messages), m \in Messages : u = Append(t, m) /\ Len(t) = n
    BY <1>2, LastElement
  <2>2. LinesIn(u) = Extended(LinesIn(t), m) /\ LinesIn(t) \in Seq(Requests)
    BY <2>1, LinesInAppend, LinesInType
  <2>3. CASE k \in DOMAIN LinesIn(t) /\ LinesIn(u)[k] = LinesIn(t)[k]
    <3>1. PICK j \in 1 .. Len(t) : t[j] \in Lines /\ t[j].from = LinesIn(t)[k]
      BY <1>2, <2>1, <2>3
    <3>2. j \in 1 .. Len(u) /\ u[j] = t[j]
      BY <2>1, <3>1
    <3> QED
      BY <2>3, <3>1, <3>2
  <2>4. CASE IsLine(m) /\ LinesIn(u)[k] = m.from
    <3>1. u[n + 1] = m /\ n + 1 \in 1 .. Len(u)
      BY <1>2, <2>1
    <3>2. m \in Lines
      BY <2>4, TagsAssumption DEF IsLine, Messages, Reopens
    <3> QED
      BY <2>4, <3>1, <3>2
  <2>5. \/ k \in DOMAIN LinesIn(t) /\ LinesIn(u)[k] = LinesIn(t)[k]
        \/ IsLine(m) /\ LinesIn(u)[k] = m.from
    <3>1. CASE ~IsLine(m)
      BY <1>2, <2>2, <3>1 DEF Extended
    <3>2. CASE IsLine(m)
      <4>1. m.from \in Requests
        BY <3>2, TagsAssumption DEF IsLine, Messages, Lines, Reopens
      <4>2. LinesIn(u) = Append(LinesIn(t), m.from)
        BY <2>2, <3>2 DEF Extended
      <4> QED
        BY <1>2, <2>2, <3>2, <4>1, <4>2, AppendLast
    <3> QED
      BY <3>1, <3>2
  <2> QED
    BY <2>3, <2>4, <2>5
<1>3. \A n \in Nat : P(n) => P(n + 1)
    BY <1>2
<1>4. \A n \in Nat : n \in S
  <2> HIDE DEF P
  <2>1. S \in SUBSET Nat /\ 0 \in S /\ \A n \in S : n + 1 \in S
    BY <1>1, <1>3
  <2> HIDE DEF S
  <2> QED
    BY <2>1, Induction
<1> QED
    BY <1>4

-----------------------------------------------------------------------------
(***************************************************************************)
(* A request whose line is not sent yet has none in the channel, at the    *)
(* writer or in a file.                                                    *)
(***************************************************************************)
SentInv ==
    /\ \A i \in DOMAIN written : request[written[i].from] = "sent"
    /\ \A i \in DOMAIN queue : queue[i] \in Lines => request[queue[i].from] = "sent"
    /\ current \in Lines => request[current.from] = "sent"

LEMMA SentInit == Init => SentInv
BY IdleAssumption DEF Init, SentInv, Messages

(* WriteLine appends a record of the current line.                         *)
LEMMA WrittenRecord ==
    ASSUME TypeOK, WriteLine
    PROVE  \E rec \in Records :
               written' = Append(written, rec) /\ rec.from = current.from
<1> DEFINE path == LogFile[current.from]
<1>1. current.from \in Requests /\ current.gen \in Generations /\ path \in Paths
  <2>1. current.from \in Requests /\ current.gen \in Generations
    BY DEF WriteLine, Lines
  <2> QED
    BY <2>1, FilesAssumption
<1>2. PICK to \in IF files[path] = Closed THEN Opened ELSE {files[path]},
            ok \in BOOLEAN :
          written' = Append(written, [from |-> current.from,
                                      gen |-> current.gen,
                                      to |-> to, ok |-> ok])
    BY DEF WriteLine
<1>3. to \in Generations \union {Stdout}
    BY <1>1 DEF Opened, TypeOK
<1>4. [from |-> current.from, gen |-> current.gen, to |-> to, ok |-> ok] \in Records
    BY <1>1, <1>3 DEF Records
<1> QED
    BY <1>2, <1>4

(* Steps that take nothing from or to the channel and keep what was sent.  *)
LEMMA SentKept ==
    ASSUME SentInv, UNCHANGED <<queue, current, written>>,
           \A r : request[r] = "sent" => request'[r] = "sent"
    PROVE  SentInv'
BY DEF SentInv

LEMMA SentNext == TypeOK /\ SentInv /\ [Next]_vars => SentInv'
<1> SUFFICES ASSUME TypeOK, SentInv, [Next]_vars PROVE SentInv'
    OBVIOUS
<1> USE DEF environment, writer
<1>1. ASSUME NEW r \in Requests, StartLogging(r) PROVE SentInv'
    BY <1>1, SentKept DEF StartLogging, TypeOK
<1>2. ASSUME NEW r \in Requests, Send(r) PROVE SentInv'
  <2> DEFINE m == [tag |-> Line, from |-> r, gen |-> promised]
  <2>1. m \in Messages /\ m.from = r
    BY DEF Messages, Lines, TypeOK
  <2>2. /\ queue' = Append(queue, m) /\ queue \in Seq(Messages)
        /\ UNCHANGED <<current, written>>
    BY <1>2 DEF Send, TypeOK
  <2>3. \A q : request[q] = "sent" => request'[q] = "sent"
    BY <1>2 DEF Send, TypeOK
  <2>4. request'[r] = "sent"
    BY <1>2 DEF Send, TypeOK
  <2> HIDE DEF m
  <2>5. \A i \in DOMAIN queue' :
            queue'[i] = m \/ (i \in DOMAIN queue /\ queue'[i] = queue[i])
    BY <2>1, <2>2, AppendLast
  <2> QED
    BY <2>1, <2>2, <2>3, <2>4, <2>5 DEF SentInv
<1>3. ASSUME NEW k \in Kinds, Register(k) \/ Receive(k) PROVE SentInv'
    BY <1>3, SentKept DEF Register, Receive
<1>4. ASSUME NEW k \in Kinds, SendReopen(k) PROVE SentInv'
  <2> DEFINE m == [tag |-> Reopen, from |-> k, gen |-> rotation]
  <2>1. m \in Messages /\ m \notin Lines
    BY Tags DEF Messages, Reopens, TypeOK
  <2>2. /\ queue' = Append(queue, m) /\ queue \in Seq(Messages)
        /\ UNCHANGED <<request, current, written>>
    BY <1>4 DEF SendReopen, TypeOK
  <2> HIDE DEF m
  <2>3. \A i \in DOMAIN queue' :
            queue'[i] = m \/ (i \in DOMAIN queue /\ queue'[i] = queue[i])
    BY <2>1, <2>2, AppendLast
  <2> QED
    BY <2>1, <2>2, <2>3 DEF SentInv
<1>5. CASE Take
  <2>1. /\ current' = queue[1] /\ 1 \in DOMAIN queue
        /\ \A i \in DOMAIN queue' : queue'[i] = queue[i + 1] /\ i + 1 \in DOMAIN queue
    BY <1>5, HeadTail DEF Take, TypeOK
  <2>2. UNCHANGED <<request, written>>
    BY <1>5 DEF Take
  <2> QED
    BY <2>1, <2>2 DEF SentInv
<1>6. CASE WriteLine
  <2>1. PICK rec : written' = Append(written, rec) /\ rec.from = current.from
                       /\ rec \in Records
    BY <1>6, WrittenRecord
  <2>2. \A i \in DOMAIN written' :
            written'[i] = rec \/ (i \in DOMAIN written /\ written'[i] = written[i])
    BY <2>1, AppendLast DEF TypeOK
  <2>3. current \in Lines /\ current' = Idle /\ UNCHANGED <<request, queue>>
    BY <1>6 DEF WriteLine
  <2> QED
    BY <2>1, <2>2, <2>3, IdleAssumption DEF SentInv, Messages
<1>7. CASE ReopenFiles
    BY <1>7, IdleAssumption DEF ReopenFiles, SentInv, Messages
<1>8. CASE Environment \/ UNCHANGED vars
    BY <1>8, SentKept DEF Environment, Rotate, Signal, Stop, vars
<1> QED
    BY <1>1, <1>2, <1>3, <1>4, <1>5, <1>6, <1>7, <1>8
    DEF Next, Task, Listener, Writer

-----------------------------------------------------------------------------
(***************************************************************************)
(* The steps of the access log.                                            *)
(***************************************************************************)
Work == IF current = Idle THEN queue ELSE <<current>> \o queue

LEMMA WorkType == TypeOK => Work \in Seq(Messages)
BY DEF TypeOK, Work

LEMMA BacklogIs == Backlog = LinesIn(Work)
BY DEF Backlog, Work

LEMMA LineMessages ==
    \A m \in Messages : (m \in Lines <=> IsLine(m)) /\ (m \in Lines => m.from \in Requests)
BY TagsAssumption DEF IsLine, Messages, Lines, Reopens

(* A message appended to the channel is appended to the work.              *)
LEMMA WorkAppend ==
    ASSUME TypeOK, NEW m \in Messages, queue' = Append(queue, m), current' = current
    PROVE  Work' = Append(Work, m)
<1>1. CASE current = Idle
    BY <1>1 DEF Work
<1>2. CASE current # Idle
  <2>1. current \in Messages /\ queue \in Seq(Messages)
    BY <1>2 DEF TypeOK
  <2> QED
    BY <1>2, <2>1 DEF Work
<1> QED
    BY <1>1, <1>2

LEMMA SendHandsOver ==
    ASSUME TypeOK, SentInv, NEW r \in Requests, Send(r)
    PROVE  Log!HandOver(r)
<1> DEFINE m == [tag |-> Line, from |-> r, gen |-> promised]
<1>1. m \in Messages /\ m.from = r /\ IsLine(m)
    BY DEF Messages, Lines, TypeOK, IsLine
<1>2. /\ alive /\ request[r] = "sending" /\ queue' = Append(queue, m)
      /\ UNCHANGED <<alive, current, written>>
    BY DEF Send, environment, writer
<1> HIDE DEF m
<1>3. Backlog' = Append(Backlog, r)
  <2>1. Work' = Append(Work, m)
    BY <1>1, <1>2, WorkAppend
  <2>2. LinesIn(Append(Work, m)) = Extended(LinesIn(Work), m)
    BY <1>1, LinesInAppend, WorkType
  <2>3. Backlog' = LinesIn(Work)'
    BY DEF Backlog, Work
  <2> QED
    BY <1>1, <2>1, <2>2, <2>3, BacklogIs DEF Extended
<1>4. ~Log!Member(r, Settled)
    BY <1>2 DEF Log!Member, Settled, SentInv
<1>5. ~Log!Member(r, Backlog)
  <2> SUFFICES ASSUME NEW i \in DOMAIN LinesIn(Work), LinesIn(Work)[i] = r
               PROVE  FALSE
    BY BacklogIs DEF Log!Member
  <2>1. PICK j \in 1 .. Len(Work) : Work[j] \in Lines /\ Work[j].from = r
    BY LinesInMember, WorkType
  <2>2. Work[j] = current \/ \E k \in DOMAIN queue : Work[j] = queue[k]
    BY <2>1 DEF Work, TypeOK
  <2> QED
    BY <1>2, <2>1, <2>2 DEF SentInv
<1>6. Settled' = Settled
    BY <1>2 DEF Settled
<1> QED
    BY <1>2, <1>3, <1>4, <1>5, <1>6 DEF Log!HandOver

(* Receiving a message leaves the writer with the same work.               *)
LEMMA TakeStutters ==
    ASSUME TypeOK, Take
    PROVE  Backlog' = Backlog
<1>1. /\ current = Idle /\ queue # <<>> /\ queue \in Seq(Messages)
      /\ current' = Head(queue) /\ queue' = Tail(queue)
    BY DEF Take, TypeOK
<1>2. current' # Idle
    BY <1>1, HeadTail, IdleAssumption
<1>3. <<Head(queue)>> \o Tail(queue) = queue
    BY <1>1
<1> QED
    BY <1>1, <1>2, <1>3 DEF Backlog

(* The line that the writer works on is the first of the backlog.          *)
LEMMA WriteLineSettles ==
    ASSUME TypeOK, WriteLine
    PROVE  Log!Settle
<1>1. /\ alive /\ current \in Lines /\ current' = Idle
      /\ UNCHANGED <<alive, queue>>
      /\ queue \in Seq(Messages) /\ current \in Messages /\ current # Idle
    BY IdleAssumption DEF WriteLine, TypeOK, environment, Messages
<1> DEFINE r == current.from
           b == LinesIn(queue)
<1>2. r \in Requests /\ b \in Seq(Requests)
    BY <1>1, LineMessages, LinesInType
<1>3. Backlog = <<r>> \o b
  <2>1. Backlog = Extended(<<>>, current) \o b
    BY <1>1, LinesInCons DEF Backlog
  <2>2. Extended(<<>>, current) = <<r>>
    BY <1>1, <1>2, LineMessages DEF Extended
  <2> QED
    BY <2>1, <2>2
<1>4. Backlog' = b
    BY <1>1 DEF Backlog
<1>5. Backlog # <<>> /\ Head(Backlog) = r /\ Tail(Backlog) = b
  <2> HIDE DEF r, b
  <2>1. <<r>> \o b # <<>> /\ Head(<<r>> \o b) = r /\ Tail(<<r>> \o b) = b
    BY <1>2
  <2> QED
    BY <1>3, <2>1
<1>6. Settled' = Append(Settled, r)
  <2>1. PICK rec \in Records : written' = Append(written, rec) /\ rec.from = r
    BY WrittenRecord
  <2>2. written \in Seq(Records) /\ Len(written) \in Nat
    BY DEF TypeOK
  <2>3. /\ DOMAIN written' = 1 .. (Len(written) + 1)
        /\ \A i \in 1 .. Len(written) : written'[i] = written[i]
        /\ written'[Len(written) + 1] = rec
    BY <2>1, <2>2
  <2>4. Settled \in Seq(Requests) /\ Len(Settled) = Len(written)
    <3>1. \A i \in 1 .. Len(written) : written[i].from \in Requests
      <4>1. \A i \in 1 .. Len(written) : written[i] \in Records
        BY <2>2
      <4>2. \A q \in Records : q.from \in Requests
        BY DEF Records
      <4> QED
        BY <4>1, <4>2
    <3> QED
      BY <2>2, <3>1 DEF Settled
  <2> QED
    BY <1>2, <2>1, <2>2, <2>3, <2>4 DEF Settled
<1> QED
    BY <1>1, <1>3, <1>4, <1>5, <1>6 DEF Log!Settle

(* A Reopen message is not part of the backlog.                            *)
LEMMA ReopenStutters ==
    ASSUME TypeOK, ReopenFiles
    PROVE  Backlog' = Backlog
<1>1. /\ current \in Reopens /\ current' = Idle /\ queue' = queue
      /\ queue \in Seq(Messages) /\ current \in Messages /\ current # Idle
    BY IdleAssumption DEF ReopenFiles, TypeOK, Messages
<1>2. Extended(<<>>, current) = <<>>
    BY <1>1, TagsAssumption DEF Extended, IsLine, Reopens
<1>3. Backlog = Extended(<<>>, current) \o LinesIn(queue)
    BY <1>1, LinesInCons DEF Backlog
<1>4. LinesIn(queue) \in Seq(Requests)
    BY <1>1, LinesInType
<1>5. Backlog = LinesIn(queue)
    BY <1>2, <1>3, <1>4
<1> QED
    BY <1>1, <1>5 DEF Backlog

LEMMA RefinesInit == Init => Log!Init
BY LinesInNothing DEF Init, Log!Init, Settled, Backlog

(* Everything else leaves the lines where they are, or ends the process.   *)
LEMMA RefinesRest ==
    ASSUME TypeOK, UNCHANGED <<queue, current, written>>,
           alive' = alive \/ (alive /\ alive' = FALSE)
    PROVE  Log!End \/ UNCHANGED Log!vars
BY DEF Log!End, Log!vars, Settled, Backlog

LEMMA RefinesNext ==
    TypeOK /\ SentInv /\ [Next]_vars => [Log!Next]_(Log!vars)
<1> SUFFICES ASSUME TypeOK, SentInv, [Next]_vars
             PROVE  Log!Next \/ UNCHANGED Log!vars
    OBVIOUS
<1> USE DEF environment, writer, Log!Next
<1>1. ASSUME NEW r \in Requests, StartLogging(r)
      PROVE  UNCHANGED Log!vars
    BY <1>1 DEF StartLogging, Log!vars, Settled, Backlog
<1>2. ASSUME NEW r \in Requests, Send(r)
      PROVE  Log!Next
    BY <1>2, SendHandsOver
<1>3. ASSUME NEW k \in Kinds, Register(k) \/ Receive(k)
      PROVE  UNCHANGED Log!vars
    BY <1>3 DEF Register, Receive, Log!vars, Settled, Backlog
<1>4. ASSUME NEW k \in Kinds, SendReopen(k)
      PROVE  UNCHANGED Log!vars
  <2> DEFINE m == [tag |-> Reopen, from |-> k, gen |-> rotation]
  <2>1. m \in Messages /\ ~IsLine(m)
    BY TagsAssumption DEF Messages, Reopens, IsLine, TypeOK
  <2>2. queue' = Append(queue, m) /\ UNCHANGED <<alive, current, written>>
    BY <1>4 DEF SendReopen
  <2> HIDE DEF m
  <2>3. Work' = Append(Work, m)
    BY <2>1, <2>2, WorkAppend
  <2>4. LinesIn(Append(Work, m)) = LinesIn(Work)
    BY <2>1, LinesInAppend, WorkType DEF Extended
  <2>5. Backlog' = LinesIn(Work)'
    BY DEF Backlog, Work
  <2> QED
    BY <2>2, <2>3, <2>4, <2>5, BacklogIs DEF Log!vars, Settled
<1>5. CASE Take
    BY <1>5, TakeStutters DEF Take, Log!vars, Settled
<1>6. CASE WriteLine
    BY <1>6, WriteLineSettles
<1>7. CASE ReopenFiles
    BY <1>7, ReopenStutters DEF ReopenFiles, Log!vars, Settled
<1>8. CASE Environment \/ UNCHANGED vars
    BY <1>8, RefinesRest DEF Environment, Rotate, Signal, Stop, vars
<1> QED
    BY <1>1, <1>2, <1>3, <1>4, <1>5, <1>6, <1>7, <1>8
    DEF Next, Task, Listener, Writer

(* Whatever requests, signals and rotations do at the same time, no line   *)
(* handed over is lost, duplicated or overtaken: channel, writer and       *)
(* listeners implement the access log.                                     *)
THEOREM ImplementsAccessLog == Spec => Log!Init /\ [][Log!Next]_(Log!vars)
<1>1. Init => TypeOK /\ SentInv /\ Log!Init
    BY TypeInit, SentInit, RefinesInit
<1>2. TypeOK /\ SentInv /\ [Next]_vars => (TypeOK /\ SentInv)'
    BY TypeNext, SentNext
<1>3. TypeOK /\ SentInv /\ [Next]_vars => [Log!Next]_(Log!vars)
    BY RefinesNext
<1> QED
    BY <1>1, <1>2, <1>3, PTL DEF Spec
==============================================================================
