------------------------------ MODULE CommonLog ------------------------------
(***************************************************************************)
(* The access log: the logging phases of concurrent requests send their    *)
(* lines through one bounded channel to a writer task, which keeps the log *)
(* files open; two listener tasks turn the signals HUP and USR1 into       *)
(* Reopen messages on the same channel, so that log files can be rotated.  *)
(* Channel, writer and listeners come into being when the first request    *)
(* is logged.                                                              *)
(*                                                                         *)
(* A line is identified by its request.  An external rotation of the log   *)
(* files is a counter: all files are renamed, the paths stand for files of *)
(* the next generation, which the next open creates.                       *)
(***************************************************************************)
EXTENDS Integers, Sequences

CONSTANTS
    Requests,      \* requests to be logged, each by a task of its own
    Paths,         \* log files named by the configuration
    Kinds,         \* signal kinds listened to
    LogFile,       \* log file of the handler that serves a request
    Capacity,      \* of the channel, 100 in the code
    MaxRotations,  \* bound: rotations of the log files
    MaxSignals,    \* bound: signals sent to the process
    Line, Reopen,  \* tags of the messages
    Stdout,        \* standard output in place of a file
    Closed,        \* no entry in the writer's map of files
    Idle           \* the writer waits for a message

ASSUME CapacityAssumption == Capacity \in Nat \ {0}
ASSUME FilesAssumption == LogFile \in [Requests -> Paths]
ASSUME BoundsAssumption == MaxRotations \in Nat /\ MaxSignals \in Nat
ASSUME TagsAssumption ==
    /\ Line # Reopen
    /\ Stdout \notin Nat /\ Closed \notin Nat /\ Stdout # Closed

Generations == 0 .. MaxRotations

(* Every message carries an auxiliary generation: the one that the last    *)
(* Reopen sent up to this message promises to the lines that follow it.    *)
Lines == [tag : {Line}, from : Requests, gen : Generations]
Reopens == [tag : {Reopen}, from : Kinds, gen : Generations]
Messages == Lines \union Reopens

(* Where a line went: a file of some generation or standard output; ok is  *)
(* FALSE if writing failed, an error that is ignored.                      *)
Records == [from : Requests, gen : Generations,
            to : Generations \union {Stdout}, ok : BOOLEAN]

ASSUME IdleAssumption == Idle \notin Messages

VARIABLES
    alive,     \* the process runs
    rotation,  \* generation of the files that the paths name
    signals,   \* signals sent so far
    started,   \* LOG_SENDER is initialised
    request,   \* progress of each request's logging()
    listener,  \* progress of each listener task
    pending,   \* signals tokio holds for a listener; several become one
    queue,     \* messages in the channel
    current,   \* the message the writer works on
    files,     \* the writer's open files: generation at the time of opening
    written,   \* lines the writer is done with
    promised,  \* auxiliary: generation when the last Reopen was sent
    reopened   \* auxiliary: that generation for the last Reopen processed

vars == <<alive, rotation, signals, started, request, listener, pending, queue,
          current, files, written, promised, reopened>>

TypeOK ==
    /\ alive \in BOOLEAN /\ started \in BOOLEAN
    /\ rotation \in Generations /\ signals \in 0 .. MaxSignals
    /\ request \in [Requests -> {"running", "sending", "sent"}]
    /\ listener \in [Kinds -> {"none", "spawned", "receiving", "sending",
                               "unregistered"}]
    /\ pending \in [Kinds -> BOOLEAN]
    /\ queue \in Seq(Messages) /\ Len(queue) <= Capacity
    /\ current \in Messages \union {Idle}
    /\ files \in [Paths -> Generations \union {Stdout, Closed}]
    /\ written \in Seq(Records)
    /\ promised \in Generations /\ reopened \in Generations

Init ==
    /\ alive = TRUE /\ started = FALSE
    /\ rotation = 0 /\ signals = 0
    /\ request = [r \in Requests |-> "running"]
    /\ listener = [k \in Kinds |-> "none"]
    /\ pending = [k \in Kinds |-> FALSE]
    /\ queue = <<>> /\ current = Idle /\ written = <<>>
    /\ files = [p \in Paths |-> Closed]
    /\ promised = 0 /\ reopened = 0

environment == <<alive, rotation, signals>>
writer == <<current, files, written, reopened>>

(* Mutant: off by one.                                                     *)
RoomForOneMore == Len(queue) <= Capacity

Room == Len(queue) < Capacity

-----------------------------------------------------------------------------
(* The tasks of the requests                                               *)

(* logging() up to send().await: the first call creates the channel and    *)
(* spawns the writer and the listeners.                                    *)
StartLogging(r) ==
    /\ alive /\ request[r] = "running"
    /\ request' = [request EXCEPT ![r] = "sending"]
    /\ started' = TRUE
    /\ listener' = IF started THEN listener ELSE [k \in Kinds |-> "spawned"]
    /\ UNCHANGED <<environment, pending, queue, writer, promised>>

(* send().await completes when the channel has room.  The static sender    *)
(* keeps the channel open, so the send does not fail.                      *)
Send(r) ==
    /\ alive /\ request[r] = "sending" /\ Room
    /\ queue' = Append(queue, [tag |-> Line, from |-> r, gen |-> promised])
    /\ request' = [request EXCEPT ![r] = "sent"]
    /\ UNCHANGED <<environment, started, listener, pending, writer, promised>>

-----------------------------------------------------------------------------
(* The listener tasks                                                      *)

Register(k) ==
    /\ alive /\ listener[k] = "spawned"
    /\ \E l \in {"receiving", "unregistered"} :
           listener' = [listener EXCEPT ![k] = l]
    /\ UNCHANGED <<environment, started, request, pending, queue, writer,
                   promised>>

(* sig.recv().await                                                        *)
Receive(k) ==
    /\ alive /\ listener[k] = "receiving" /\ pending[k]
    /\ listener' = [listener EXCEPT ![k] = "sending"]
    /\ pending' = [pending EXCEPT ![k] = FALSE]
    /\ UNCHANGED <<environment, started, request, queue, writer, promised>>

(* Mutant: try_send, which gives the message up when the channel is full.  *)
TrySendReopen(k) ==
    /\ alive /\ listener[k] = "sending"
    /\ IF Room
       THEN /\ queue' = Append(queue, [tag |-> Reopen, from |-> k, gen |-> rotation])
            /\ promised' = rotation
       ELSE UNCHANGED <<queue, promised>>
    /\ listener' = [listener EXCEPT ![k] = "receiving"]
    /\ UNCHANGED <<environment, started, request, pending, writer>>

SendReopen(k) ==
    /\ alive /\ listener[k] = "sending" /\ Room
    /\ queue' = Append(queue, [tag |-> Reopen, from |-> k, gen |-> rotation])
    /\ promised' = rotation
    /\ listener' = [listener EXCEPT ![k] = "receiving"]
    /\ UNCHANGED <<environment, started, request, pending, writer>>

-----------------------------------------------------------------------------
(* The writer task                                                         *)

(* Mutant: leaves the message in the channel.                              *)
TakeKeeps ==
    /\ alive /\ started /\ current = Idle /\ queue # <<>>
    /\ current' = Head(queue)
    /\ UNCHANGED <<environment, started, request, listener, pending, queue,
                   files, written, promised, reopened>>

(* receiver.recv().await                                                   *)
Take ==
    /\ alive /\ started /\ current = Idle /\ queue # <<>>
    /\ current' = Head(queue)
    /\ queue' = Tail(queue)
    /\ UNCHANGED <<environment, started, request, listener, pending, files,
                   written, promised, reopened>>

(* open_file: the path's present file, or standard output if that fails or *)
(* the path is "-".                                                        *)
Opened == {rotation, Stdout}

WriteLine ==
    /\ alive /\ current \in Lines
    /\ LET path == LogFile[current.from]
       IN  \E to \in IF files[path] = Closed THEN Opened ELSE {files[path]} :
           \E ok \in BOOLEAN :
            /\ files' = [files EXCEPT ![path] = to]
            /\ written' = Append(written, [from |-> current.from,
                                           gen |-> current.gen,
                                           to |-> to, ok |-> ok])
    /\ current' = Idle
    /\ UNCHANGED <<environment, started, request, listener, pending, queue,
                   promised, reopened>>

(* Mutant: closes one of the files.                                        *)
ReopenOneFile ==
    /\ alive /\ current \in Reopens
    /\ \E p \in Paths : files' = [files EXCEPT ![p] = Closed]
    /\ reopened' = current.gen
    /\ current' = Idle
    /\ UNCHANGED <<environment, started, request, listener, pending, queue,
                   written, promised>>

(* Mutant: starts over with an empty channel.                              *)
ReopenAndDrop ==
    /\ alive /\ current \in Reopens
    /\ files' = [p \in Paths |-> Closed]
    /\ reopened' = current.gen
    /\ current' = Idle /\ queue' = <<>>
    /\ UNCHANGED <<environment, started, request, listener, pending,
                   written, promised>>

ReopenFiles ==
    /\ alive /\ current \in Reopens
    /\ files' = [p \in Paths |-> Closed]
    /\ reopened' = current.gen
    /\ current' = Idle
    /\ UNCHANGED <<environment, started, request, listener, pending, queue,
                   written, promised>>

-----------------------------------------------------------------------------
(* The environment: log rotation, signals, shutdown                        *)

Rotate ==
    /\ alive /\ rotation < MaxRotations
    /\ rotation' = rotation + 1
    /\ UNCHANGED <<alive, signals, started, request, listener, pending, queue,
                   writer, promised>>

(* A signal that tokio is not registered for has its default effect: HUP   *)
(* and USR1 end the process.                                               *)
Signal(k) ==
    /\ alive /\ signals < MaxSignals
    /\ signals' = signals + 1
    /\ IF listener[k] \in {"receiving", "sending"}
       THEN pending' = [pending EXCEPT ![k] = TRUE] /\ alive' = alive
       ELSE alive' = FALSE /\ pending' = pending
    /\ UNCHANGED <<rotation, started, request, listener, queue, writer, promised>>

Stop ==
    /\ alive /\ alive' = FALSE
    /\ UNCHANGED <<rotation, signals, started, request, listener, pending,
                   queue, writer, promised>>

-----------------------------------------------------------------------------
Task(r) == StartLogging(r) \/ Send(r)
Listener(k) == Register(k) \/ Receive(k) \/ SendReopen(k)
Writer == Take \/ WriteLine \/ ReopenFiles
Environment == Rotate \/ (\E k \in Kinds : Signal(k)) \/ Stop

Next ==
    \/ \E r \in Requests : Task(r)
    \/ \E k \in Kinds : Listener(k)
    \/ Writer
    \/ Environment

(* The executor polls every task that can go on; the semaphore of the      *)
(* channel grants room in the order of the requests for it.  Requests,     *)
(* rotations, signals and shutdown need not happen.                        *)
Fairness ==
    /\ \A r \in Requests : WF_vars(Send(r))
    /\ \A k \in Kinds : WF_vars(Listener(k))
    /\ WF_vars(Writer)

Spec == Init /\ [][Next]_vars /\ Fairness

-----------------------------------------------------------------------------
(* Properties                                                              *)

(* Reopening takes effect for every line handed over after the Reopen      *)
(* message: such a line is never written to a file that had been renamed   *)
(* when the message was sent, whatever was queued, opened or rotated since.*)
NoStaleFile ==
    \A i \in DOMAIN written :
        written[i].to # Stdout => written[i].to >= written[i].gen

(* The requests of the lines among the messages, in order.                 *)
LinesIn(s) ==
    LET first[n \in 0 .. Len(s)] ==
            IF n = 0 THEN <<>>
            ELSE IF s[n].tag = Line THEN Append(first[n - 1], s[n].from)
            ELSE first[n - 1]
    IN  first[Len(s)]
Settled == [i \in DOMAIN written |-> written[i].from]
Backlog == LinesIn(IF current = Idle THEN queue ELSE <<current>> \o queue)

(* Channel, writer, reopening and signals together behave like the access  *)
(* log that the requests expect: no line is lost, duplicated or overtaken, *)
(* and every line is settled while the process runs.                       *)
Log == INSTANCE AccessLog
           WITH settled <- Settled, backlog <- Backlog, running <- alive
AccessLogSpec == Log!Spec

(* A request waiting for room in the channel is not stuck: its logging()   *)
(* returns, so that the request's task ends.                               *)
SendersProceed ==
    \A r \in Requests : request[r] = "sending" ~> request[r] = "sent" \/ ~alive

(* A signal that a listener is registered for makes the writer release all *)
(* files that had been renamed when it was delivered.                      *)
FilesReleased ==
    \A k \in Kinds, n \in Generations :
        pending[k] /\ rotation = n
            ~> \/ ~alive
               \/ \A p \in Paths : files[p] \in {Stdout, Closed} \/ files[p] >= n
=============================================================================
