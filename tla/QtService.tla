----------------------------- MODULE QtService -----------------------------
(* A service and its controllers on Unix (qtservice.cpp, qtservice_unix.cpp, *)
(* qtunixserversocket.cpp, qtunixsocket.cpp).  Every process is the same     *)
(* program: it runs exec() with its arguments and becomes a controller that  *)
(* sends one line to the service, or the program that starts the service, or *)
(* the service.  They meet at the socket that one file of /var/tmp names.    *)
EXTENDS Integers, Sequences

CONSTANTS
    Processes,   \* bound: how many processes there are at a time
    FlagSets,    \* the sets of ServiceFlags a service may have
    Devices,     \* the addresses at which a service allocates its QTcpSockets
    MaxKills,    \* bound: how many processes are killed
    Calls        \* the arguments programs are called with

Process == 1..Processes

NoProcess == 0

\* What sendCmd sends for each way of calling exec(); "" is no argument.
CommandOf ==
    [a \in {"-t", "-p", "-r", "-c", ""} |->
        CASE a = "-t" -> "terminate" [] a = "-p" -> "pause" [] a = "-r" -> "resume"
          [] a = "-c" -> "num" [] a = "" -> "alive"]

ServiceFlag == {"CanBeSuspended", "CannotBeStopped", "NeedsStopOnShutdown"}

\* "service" is no argument with QTSERVICE_RUN set.
ASSUME QtServiceAssumption ==
    /\ Processes \in Nat \ {0}
    /\ FlagSets # {} /\ FlagSets \subseteq SUBSET ServiceFlag
    /\ Calls \subseteq {"-e"} \cup DOMAIN CommandOf

VARIABLES
    installed,   \* the settings have a group for the service
    path,        \* the process whose socket the file names, NoProcess when there is no file
    proc,        \* the processes
    sockets,     \* the controller at each QTcpSocket of a service, NoProcess where there is none
    lines,       \* QtServiceSysPrivate::cache: what came there and is no line yet
    kills        \* how many processes have been killed

svcVars == <<installed, path, proc, sockets, lines, kills>>

\* bound: it listens, and its path_ is set.  server: whom it is connected to,
\* with the pieces it has still to write (left), those the service has not
\* read (wire) and the answer that came back.
NotThere ==
    [pc |-> "done", call |-> "", killed |-> FALSE, flags |-> {}, bound |-> FALSE, quit |-> FALSE,
     server |-> NoProcess, accepted |-> FALSE, left |-> <<>>, wire |-> <<>>, reply |-> ""]

ServiceInit ==
    /\ installed = FALSE
    /\ path = NoProcess
    /\ proc = [p \in Process |-> NotThere]
    /\ sockets = [p \in Process |-> [d \in Devices |-> NoProcess]]
    /\ kills = 0
    /\ lines = [p \in Process |-> [d \in Devices |-> <<>>]]

-----------------------------------------------------------------------------
(* Starting a process and ending it.                                       *)

\* Nothing refers to it any more: another process may have its number.
FreeId(p) ==
    /\ proc[p].pc = "done" /\ path # p
    /\ \A q \in Process : proc[q].server # p /\ (q = p \/ \A d \in Devices : sockets[q][d] # p)

FreshId == CHOOSE p \in Process : FreeId(p) /\ \A q \in Process : FreeId(q) => p <= q

Born(call) == [NotThere EXCEPT !.pc = "exec", !.call = call]

\* What is left of a process that ends: to a service that still has its
\* connection, what it has written; to the others, nothing.
Ended(p) ==
    IF proc[p].server # NoProcess /\ proc[proc[p].server].pc # "done"
    THEN [proc[p] EXCEPT !.pc = "done", !.call = "", !.left = <<>>, !.reply = ""]
    ELSE NotThere

Exit(p) == proc' = [proc EXCEPT ![p] = Ended(p)]

\* QProcess::startDetached: it fails when there is no process to be had.
startDetached(p, call) ==
    proc' = IF \E q \in Process : FreeId(q)
            THEN [proc EXCEPT ![p] = Ended(p), ![FreshId] = Born(call)]
            ELSE [proc EXCEPT ![p] = Ended(p)]

Launch(p) ==
    /\ FreeId(p) /\ p = FreshId
    /\ \E call \in Calls : proc' = [proc EXCEPT ![p] = Born(call)]
    /\ UNCHANGED <<installed, path, sockets, lines, kills>>

\* The memory of a service goes with it, and its connections.
Dies(p, killed) ==
    /\ proc' = [q \in Process |->
                    IF q = p THEN [NotThere EXCEPT !.killed = killed]
                    ELSE IF proc[q].pc = "done" /\ proc[q].server = p THEN NotThere
                    ELSE proc[q]]
    /\ sockets' = [sockets EXCEPT ![p] = [d \in Devices |-> NoProcess]]
    /\ lines' = [lines EXCEPT ![p] = [d \in Devices |-> <<>>]]

\* exec -i and -u, which meet no other process: they do nothing when there is
\* nothing to do, nor when the settings cannot be written.
install ==
    /\ ~installed /\ installed' = TRUE
    /\ UNCHANGED <<path, proc, sockets, lines, kills>>

uninstall ==
    /\ installed /\ installed' = FALSE
    /\ UNCHANGED <<path, proc, sockets, lines, kills>>

-----------------------------------------------------------------------------
(* The controllers.                                                        *)

\* connectTo() succeeds: the file is there and its process listens.
Reachable == path # NoProcess /\ proc[path].bound

\* Another program's controller.start().  The connection of isRunning() is
\* closed at once and carries nothing.
ControllerStart ==
    /\ installed /\ ~Reachable
    /\ \E q \in Process : FreeId(q)
    /\ proc' = [proc EXCEPT ![FreshId] = Born("")]
    /\ UNCHANGED <<installed, path, sockets, lines, kills>>

\* What exec does with the answer: only a start looks at it.
Answered(p, answer) ==
    IF proc[p].call = "" /\ answer # "true" THEN startDetached(p, "service") ELSE Exit(p)

sendCmd(p) ==
    /\ proc[p].pc = "exec" /\ proc[p].call \in DOMAIN CommandOf
    /\ LET cmd == CommandOf[proc[p].call] IN
       IF Reachable
       THEN proc' = [proc EXCEPT ![p].pc = "sending", ![p].server = path,
                                 ![p].left = << <<cmd, "begins">>, <<cmd, "ends">> >>]
       ELSE Answered(p, "false")
    /\ UNCHANGED <<installed, path, sockets, lines, kills>>

\* The line goes out whole or in two pieces.
WriteLine(p) ==
    /\ proc[p].pc = "sending"
    /\ \E n \in 1..Len(proc[p].left) :
        LET left == proc[p].left IN
        proc' = [proc EXCEPT ![p].left = SubSeq(left, n + 1, Len(left)),
                             ![p].wire = @ \o SubSeq(left, 1, n),
                             ![p].pc = IF n = Len(left) THEN "waiting" ELSE "sending"]
    /\ UNCHANGED <<installed, path, sockets, lines, kills>>

\* The service has closed the connection, or never took it.
Hung(p) ==
    LET s == proc[proc[p].server] IN s.pc = "done" \/ (~proc[p].accepted /\ ~s.bound)

\* waitForReadyRead(-1) returns with an answer or with the end of the connection.
ReadReply(p) ==
    /\ proc[p].pc = "waiting"
    /\ proc[p].reply # "" \/ Hung(p)
    /\ Answered(p, proc[p].reply)
    /\ UNCHANGED <<installed, path, sockets, lines, kills>>

-----------------------------------------------------------------------------
(* The service.                                                            *)

\* run(): -e has no socket; a service first removes the file, whosever it is.
Run(p) ==
    /\ proc[p].pc = "exec" /\ proc[p].call \in {"-e", "service"}
    /\ \E flags \in FlagSets :
        proc' = [proc EXCEPT ![p].flags = flags,
                             ![p].pc = IF proc[p].call = "service" THEN "binding" ELSE "loop"]
    /\ path' = IF proc[p].call = "service" THEN NoProcess ELSE path
    /\ UNCHANGED <<installed, sockets, lines, kills>>

\* bind() fails when another process has made the file since.
Bind(p) ==
    /\ proc[p].pc = "binding"
    /\ proc' = [proc EXCEPT ![p].pc = "loop", ![p].bound = path = NoProcess]
    /\ path' = IF path = NoProcess THEN p ELSE path
    /\ UNCHANGED <<installed, sockets, lines, kills>>

\* The flags are copied to sysd, where slotReady reads them.
setServiceFlags(p) ==
    /\ proc[p].pc = "loop" /\ ~proc[p].quit
    /\ \E flags \in FlagSets \ {proc[p].flags} : proc' = [proc EXCEPT ![p].flags = flags]
    /\ UNCHANGED <<installed, path, sockets, lines, kills>>

\* An address may have served an earlier connection: its cache is still there.
incomingConnection(p, c) ==
    /\ proc[p].pc = "loop" /\ proc[p].bound
    /\ proc[c].server = p /\ ~proc[c].accepted
    /\ \E d \in Devices :
        /\ sockets[p][d] = NoProcess
        /\ sockets' = [sockets EXCEPT ![p][d] = c]
        /\ proc' = [proc EXCEPT ![c].accepted = TRUE]
    /\ UNCHANGED <<installed, path, lines, kills>>

\* The first line of what has come: up to the first piece that ends one.
getCommand(text) ==
    IF \E k \in DOMAIN text : text[k][2] = "ends"
    THEN SubSeq(text, 1, CHOOSE k \in DOMAIN text : /\ text[k][2] = "ends"
                                                    /\ \A j \in 1..(k - 1) : text[j][2] # "ends")
    ELSE <<>>

\* What slotReady makes of a line: pieces of two commands mean nothing, unless
\* the first is the "num:" of a number.
Meaning(line) ==
    IF Len(line) = 2 /\ line[1][1] = line[2][1] THEN line[1][1]
    ELSE IF line[1] = <<"num", "begins">> THEN "num"
    ELSE "unknown"

Granted(p, cmd) ==
    \/ cmd = "terminate" /\ "CannotBeStopped" \notin proc[p].flags
    \/ cmd \in {"pause", "resume"} /\ "CanBeSuspended" \in proc[p].flags
    \/ cmd \in {"alive", "num"}

\* A mutant of slotReady: a command that is refused gets no answer.
slotReadySilent(p, d) ==
    LET c == sockets[p][d]
        text == lines[p][d] \o proc[c].wire
        line == getCommand(text)
        granted == Granted(p, Meaning(line))
    IN  /\ proc[p].pc = "loop" /\ c # NoProcess /\ proc[c].wire # <<>>
        /\ lines' = [lines EXCEPT ![p][d] = SubSeq(text, Len(line) + 1, Len(text))]
        /\ proc' = IF line = <<>> THEN [proc EXCEPT ![c].wire = <<>>]
                   ELSE [proc EXCEPT ![c].wire = <<>>,
                                     ![c].reply = IF granted THEN "true" ELSE "",
                                     ![p].quit = @ \/ (granted /\ Meaning(line) = "terminate")]
        /\ UNCHANGED <<installed, path, sockets, kills>>

\* A controller sends one line, so the loop of slotReady runs at most once.
\* quit() makes the event loop end later; until then it serves on.
slotReady(p, d) ==
    LET c == sockets[p][d]
        text == lines[p][d] \o proc[c].wire
        line == getCommand(text)
        granted == Granted(p, Meaning(line))
    IN  /\ proc[p].pc = "loop" /\ c # NoProcess /\ proc[c].wire # <<>>
        /\ lines' = [lines EXCEPT ![p][d] = SubSeq(text, Len(line) + 1, Len(text))]
        /\ proc' = IF line = <<>> THEN [proc EXCEPT ![c].wire = <<>>]
                   ELSE [proc EXCEPT ![c].wire = <<>>,
                                     ![c].reply = IF granted THEN "true" ELSE "false",
                                     ![p].quit = @ \/ (granted /\ Meaning(line) = "terminate")]
        /\ UNCHANGED <<installed, path, sockets, kills>>

\* The socket is deleted; what the cache holds for it stays.
slotClosed(p, d) ==
    LET c == sockets[p][d] IN
    /\ proc[p].pc = "loop" /\ c # NoProcess
    /\ proc[c].pc = "done" /\ proc[c].wire = <<>>
    /\ sockets' = [sockets EXCEPT ![p][d] = NoProcess]
    /\ proc' = [proc EXCEPT ![c] = [NotThere EXCEPT !.killed = proc[c].killed]]
    /\ UNCHANGED <<installed, path, lines, kills>>

\* The event loop has ended: sysCleanup stops listening ...
LoopEnds(p) ==
    /\ proc[p].pc = "loop" /\ proc[p].quit
    /\ proc' = [proc EXCEPT ![p].pc = "closing", ![p].bound = FALSE]
    /\ UNCHANGED <<installed, path, sockets, lines, kills>>

\* A mutant of sysCleanup: sysd is deleted without close().
sysCleanupKeepsFile(p) ==
    /\ proc[p].pc = "closing"
    /\ Dies(p, FALSE)
    /\ UNCHANGED <<installed, path, kills>>

\* ... removes the file, whosever it is by now, and deletes the sockets.
sysCleanup(p) ==
    /\ proc[p].pc = "closing"
    /\ path' = NoProcess
    /\ Dies(p, FALSE)
    /\ UNCHANGED <<installed, kills>>

\* Any process may be killed; the file of a service stays.
Kill(p) ==
    /\ proc[p].pc # "done" /\ kills < MaxKills
    /\ kills' = kills + 1
    /\ IF proc[p].call = "service" THEN Dies(p, TRUE) ELSE Exit(p) /\ UNCHANGED <<sockets, lines>>
    /\ UNCHANGED <<installed, path>>

-----------------------------------------------------------------------------
ServiceNext ==
    \/ install \/ uninstall \/ ControllerStart
    \/ \E p \in Process :
        \/ Launch(p) \/ sendCmd(p) \/ WriteLine(p) \/ ReadReply(p)
        \/ Run(p) \/ Bind(p) \/ setServiceFlags(p) \/ LoopEnds(p) \/ sysCleanup(p) \/ Kill(p)
        \/ \E c \in Process : incomingConnection(p, c)
        \/ \E d \in Devices : slotReady(p, d) \/ slotClosed(p, d)

ServiceSpec == ServiceInit /\ [][ServiceNext]_svcVars

SvcTypeOK ==
    /\ installed \in BOOLEAN /\ path \in Process \cup {NoProcess}
    /\ \A p \in Process :
        /\ proc[p].server \in Process \cup {NoProcess}
        /\ proc[p].pc \in {"sending", "waiting"} => proc[p].server # NoProcess
        /\ proc[p].bound => proc[p].pc = "loop"
        /\ \A d \in Devices :
            sockets[p][d] # NoProcess => proc[sockets[p][d]].server = p /\ proc[sockets[p][d]].accepted

\* The file names a service that listens, is about to remove it or was killed:
\* a service that stops never leaves its file behind, whatever other services
\* have done to it meanwhile (setPath, QtUnixServerSocket::close).
NoStaleFile ==
    path # NoProcess => proc[path].bound \/ proc[path].pc = "closing" \/ proc[path].killed

\* A controller that has found a service is not left waiting, although sendCmd
\* waits without a limit: it has its answer, or its connection has ended because
\* the service has stopped or was killed, or the service has still to read its
\* line, at a socket of its own or before it takes the connection.  So a line
\* that has been read is answered, also one the service refuses or does not know.
NobodyWaitsInVain ==
    \A p \in Process : proc[p].pc = "waiting" =>
        \/ proc[p].reply # "" \/ Hung(p)
        \/ /\ proc[p].wire # <<>>
           /\ proc[p].accepted => \E d \in Devices : sockets[proc[p].server][d] = p

-----------------------------------------------------------------------------
(* What these rest on.                                                     *)

\* A piece of a line: its command, and whether it ends the line.
Piece == ({CommandOf[a] : a \in DOMAIN CommandOf}) \X {"begins", "ends"}

EndsIn(text) == \E k \in DOMAIN text : text[k][2] = "ends"

Procs ==
    [pc : {"done", "exec", "sending", "waiting", "binding", "loop", "closing"},
     call : {"-e", "service"} \cup DOMAIN CommandOf, killed : BOOLEAN,
     flags : SUBSET ServiceFlag, bound : BOOLEAN, quit : BOOLEAN,
     server : Process \cup {NoProcess}, accepted : BOOLEAN,
     left : Seq(Piece), wire : Seq(Piece), reply : {"", "true", "false"}]

\* A process is one thing at a time.  Only a service listens, stops and leaves
\* the marks of a kill; only a controller is connected.
IsOneThing(r) ==
    /\ r \in Procs
    /\ r.killed => r.pc = "done" /\ r.server = NoProcess
    /\ r.bound => r.pc = "loop"
    /\ r.bound \/ r.quit \/ r.pc \in {"binding", "closing"} => r.call = "service"
    /\ r.server # NoProcess => r.pc \in {"sending", "waiting", "done"}
    /\ r.accepted => r.server # NoProcess
    /\ r.pc \in {"sending", "waiting"} => r.server # NoProcess /\ r.call \in DOMAIN CommandOf

\* The end of its line is still on its way as long as there is no answer.
LineIsComing(r) ==
    /\ r.pc = "waiting" => r.left = <<>>
    /\ r.pc \in {"sending", "waiting"} /\ r.reply = "" => EndsIn(r.left) \/ EndsIn(r.wire)

Serves(r) == r.pc \in {"loop", "closing"} /\ r.call = "service"

\* A socket belongs to a service that has not ended and to a controller that
\* is, or was, connected to it; a controller has one.
SocketsMatch ==
    \A s \in Process, d \in Devices :
        LET c == sockets[s][d] IN
        c # NoProcess => /\ Serves(proc[s])
                         /\ proc[c].server = s /\ proc[c].accepted
                         /\ \A e \in Devices : sockets[s][e] = c => e = d

\* Whoever has been accepted has a socket, until the service ends.
HeldBySocket ==
    \A c \in Process : LET s == proc[c].server IN
        proc[c].accepted /\ proc[s].pc # "done" => \E d \in Devices : sockets[s][d] = c

ServiceInv ==
    /\ installed \in BOOLEAN /\ path \in Process \cup {NoProcess}
    /\ proc \in [Process -> Procs]
    /\ sockets \in [Process -> [Devices -> Process \cup {NoProcess}]]
    /\ lines \in [Process -> [Devices -> Seq(Piece)]]
    /\ \A p \in Process : IsOneThing(proc[p]) /\ LineIsComing(proc[p])
    /\ SocketsMatch /\ HeldBySocket /\ NoStaleFile
=============================================================================
