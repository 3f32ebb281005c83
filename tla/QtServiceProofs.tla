-------------------------- MODULE QtServiceProofs --------------------------
(* Proofs about QtService, for any number of processes and kills: a service *)
(* never leaves its file behind when it stops, and no controller waits for  *)
(* an answer to a line that has been read.                                  *)
EXTENDS QtService, SequenceTheorems, WellFoundedInduction, TLAPS

-----------------------------------------------------------------------------
(* Processes.                                                              *)

LEMMA CallNames ==
    /\ DOMAIN CommandOf = {"-t", "-p", "-r", "-c", ""}
    /\ Calls \subseteq {"-e"} \cup DOMAIN CommandOf
    /\ "service" \notin DOMAIN CommandOf
BY QtServiceAssumption DEF CommandOf

LEMMA NumbersOfProcesses == Process \subseteq Nat /\ NoProcess \notin Process
BY QtServiceAssumption DEF Process, NoProcess

\* A new process has a number that is free.
LEMMA FreshIsFree ==
    ASSUME \E q \in Process : FreeId(q)
    PROVE  FreshId \in Process /\ FreeId(FreshId)
<1> DEFINE free == {q \in Process : FreeId(q)}
<1>1. PICK x \in free : \A y \in free : <<y, x>> \notin OpToRel(<, Nat)
    <2>1. free \subseteq Nat /\ free # {}
        BY NumbersOfProcesses
    <2> QED BY <2>1, NatLessThanWellFounded, WFMin
<1>2. \A y \in free : ~(y < x)
    BY <1>1, NumbersOfProcesses, Zenon DEF OpToRel
<1>3. \A y \in free : x <= y
    BY <1>2, NumbersOfProcesses
<1> QED BY <1>3 DEF FreshId

-----------------------------------------------------------------------------
(* What may become of a process that keeps its sockets.                    *)

Marked(r) == r.bound \/ r.pc = "closing" \/ r.killed

\* It stays one thing, what others know of it stays true, and if the file names
\* it it may be named.
GoesOn(p, r) ==
    /\ IsOneThing(r) /\ LineIsComing(r)
    /\ Serves(proc[p]) => Serves(r)
    /\ \A s \in Process, d \in Devices :
        sockets[s][d] = p => r.server = proc[p].server /\ (proc[p].accepted => r.accepted)
    /\ r.accepted => proc[p].accepted /\ r.server = proc[p].server
    /\ proc[p].pc = "done" => r.pc = "done" \/ \A c \in Process : proc[c].server # p
    /\ path = p => Marked(r)

LEMMA Stays ==
    ASSUME ServiceInv, NEW p \in Process
    PROVE  GoesOn(p, proc[p])
<1>1. path = p => Marked(proc[p])
    BY NumbersOfProcesses DEF ServiceInv, NoStaleFile, Marked
<1> QED BY <1>1 DEF ServiceInv, GoesOn

LEMMA Moves ==
    ASSUME ServiceInv, installed' \in BOOLEAN, sockets' = sockets,
           lines' \in [Process -> [Devices -> Seq(Piece)]],
           DOMAIN proc' = Process, proc' = [q \in DOMAIN proc' |-> proc'[q]],
           \A q \in Process : GoesOn(q, proc'[q]),
           \/ path' \in {path, NoProcess}
           \/ path' \in Process /\ Marked(proc'[path'])
    PROVE  ServiceInv'
<1>1. proc' \in [Process -> Procs]
    BY DEF GoesOn, IsOneThing
<1>2. path' \in Process \cup {NoProcess} /\ NoStaleFile'
    <2>1. path \in Process \cup {NoProcess}
        BY DEF ServiceInv
    <2> QED BY <2>1 DEF GoesOn, NoStaleFile, Marked
<1>3. SocketsMatch'
    <2> SUFFICES ASSUME NEW s \in Process, NEW d \in Devices, sockets[s][d] # NoProcess
                 PROVE  /\ Serves(proc'[s])
                        /\ proc'[sockets[s][d]].server = s /\ proc'[sockets[s][d]].accepted
                        /\ \A e \in Devices : sockets[s][e] = sockets[s][d] => e = d
        BY DEF SocketsMatch, Serves
    <2>1. /\ Serves(proc[s]) /\ proc[sockets[s][d]].server = s /\ proc[sockets[s][d]].accepted
          /\ \A e \in Devices : sockets[s][e] = sockets[s][d] => e = d
        BY DEF ServiceInv, SocketsMatch
    <2>2. sockets[s][d] \in Process
        BY DEF ServiceInv
    <2> QED BY <2>1, <2>2 DEF GoesOn
<1>4. \A q \in Process : IsOneThing(proc'[q]) /\ LineIsComing(proc'[q])
    BY DEF GoesOn
<1>5. HeldBySocket'
    <2> SUFFICES ASSUME NEW c \in Process, proc'[c].accepted, proc'[proc'[c].server].pc # "done"
                 PROVE  \E d \in Devices : sockets[proc'[c].server][d] = c
        BY DEF HeldBySocket
    <2>1. /\ proc[c].accepted /\ proc'[c].server = proc[c].server
          /\ proc'[c].server \in Process
        BY DEF GoesOn, IsOneThing, Procs
    <2>2. proc[proc[c].server].pc # "done"
        BY <2>1 DEF GoesOn
    <2> QED BY <2>1, <2>2 DEF ServiceInv, HeldBySocket
<1> QED BY <1>1, <1>2, <1>3, <1>4, <1>5 DEF ServiceInv, IsOneThing, LineIsComing, EndsIn, Procs

\* Only one process moves, and neither the sockets nor what came there.
LEMMA OneMoves ==
    ASSUME ServiceInv, NEW p \in Process, NEW r, GoesOn(p, r), proc' = [proc EXCEPT ![p] = r],
           UNCHANGED <<installed, sockets, lines>>,
           path' \in {path, NoProcess} \/ (path' = p /\ Marked(r))
    PROVE  ServiceInv'
<1>1. proc \in [Process -> Procs] /\ r \in Procs
    BY DEF ServiceInv, GoesOn, IsOneThing
<1>2. proc'[p] = r /\ \A q \in Process : q # p => proc'[q] = proc[q]
    BY <1>1
<1>3. \A q \in Process : GoesOn(q, proc'[q])
    BY <1>2, Stays
<1>4. installed \in BOOLEAN /\ lines \in [Process -> [Devices -> Seq(Piece)]]
    BY DEF ServiceInv
<1> QED BY <1>1, <1>2, <1>3, <1>4, Moves

\* Nothing is known of a process that nobody is connected to.
LEMMA Unknown ==
    ASSUME ServiceInv, NEW p \in Process, ~Serves(proc[p]),
           \/ proc[p].server = NoProcess
           \/ proc[p].server \in Process /\ ~Serves(proc[proc[p].server])
    PROVE  \A s \in Process, d \in Devices : sockets[s][d] # p
BY NumbersOfProcesses DEF ServiceInv, SocketsMatch

LEMMA Unborn ==
    /\ IsOneThing(NotThere) /\ LineIsComing(NotThere)
    /\ NotThere.pc = "done" /\ ~NotThere.accepted
<1>1. NotThere \in Procs
    BY CallNames, EmptySeq DEF NotThere, Procs
<1> QED BY <1>1 DEF NotThere, IsOneThing, LineIsComing

\* A process is started under a free number.
LEMMA Starts ==
    ASSUME ServiceInv, NEW p \in Process, FreeId(p),
           NEW call \in {"-e", "service"} \cup DOMAIN CommandOf
    PROVE  GoesOn(p, Born(call))
<1>1. ~Serves(proc[p]) /\ path # p
    BY DEF FreeId, Serves
<1>2. \A s \in Process, d \in Devices : sockets[s][d] # p
    <2>1. SocketsMatch
        BY DEF ServiceInv
    <2> QED BY <1>1, <2>1, NumbersOfProcesses DEF FreeId, SocketsMatch
<1>3. IsOneThing(Born(call)) /\ LineIsComing(Born(call)) /\ ~Born(call).accepted
    <2>1. Born(call) \in Procs
        BY CallNames, EmptySeq DEF Born, NotThere, Procs
    <2> QED BY <2>1 DEF Born, NotThere, IsOneThing, LineIsComing
<1>4. \A c \in Process : proc[c].server # p
    BY DEF FreeId
<1> QED BY <1>1, <1>2, <1>3, <1>4 DEF GoesOn

\* A process that is not a service ends.
LEMMA Ends ==
    ASSUME ServiceInv, NEW p \in Process, proc[p].pc # "done", proc[p].call # "service"
    PROVE  GoesOn(p, Ended(p))
<1>1. /\ IsOneThing(proc[p]) /\ LineIsComing(proc[p]) /\ proc[p] \in Procs
      /\ ~Serves(proc[p]) /\ proc[p].server \in Process \cup {NoProcess}
    BY DEF ServiceInv, Serves, Procs
<1>2. path # p
    BY <1>1, NumbersOfProcesses DEF ServiceInv, NoStaleFile, IsOneThing
<1>3. CASE proc[p].server # NoProcess /\ proc[proc[p].server].pc # "done"
    <2> DEFINE r == [proc[p] EXCEPT !.pc = "done", !.call = "", !.left = <<>>, !.reply = ""]
    <2>1. r \in Procs
        BY <1>1, CallNames, EmptySeq DEF Procs
    <2>2. /\ IsOneThing(r) /\ LineIsComing(r)
          /\ r.server = proc[p].server /\ r.accepted = proc[p].accepted
        BY <1>1, <2>1 DEF IsOneThing, LineIsComing, Procs
    <2>3. Ended(p) = r
        BY <1>3 DEF Ended
    <2> QED BY <1>1, <1>2, <2>2, <2>3 DEF GoesOn
<1>4. CASE ~(proc[p].server # NoProcess /\ proc[proc[p].server].pc # "done")
    <2>1. \A s \in Process, d \in Devices : sockets[s][d] # p
        BY <1>1, <1>4, Unknown DEF Serves
    <2> QED BY <1>1, <1>2, <1>4, <2>1, Unborn DEF GoesOn, Ended
<1> QED BY <1>3, <1>4

-----------------------------------------------------------------------------
(* Programs and controllers.                                               *)

LEMMA Installing ==
    ASSUME ServiceInv, install \/ uninstall
    PROVE  ServiceInv'
<1>1. /\ UNCHANGED <<path, proc, sockets, lines>> /\ installed' \in BOOLEAN
      /\ ServiceInv
    BY DEF install, uninstall
<1> QED BY <1>1 DEF ServiceInv, SocketsMatch, HeldBySocket, NoStaleFile

LEMMA Beginning ==
    ASSUME ServiceInv, ControllerStart \/ \E p \in Process : Launch(p)
    PROVE  ServiceInv'
<1>1. PICK p \in Process, call \in {"-e", "service"} \cup DOMAIN CommandOf :
        /\ FreeId(p) /\ proc' = [proc EXCEPT ![p] = Born(call)]
        /\ UNCHANGED <<installed, path, sockets, lines>>
    <2>1. CASE ControllerStart
        BY <2>1, FreshIsFree, CallNames DEF ControllerStart
    <2>2. CASE \E p \in Process : Launch(p)
        BY <2>2, CallNames DEF Launch
    <2> QED BY <2>1, <2>2
<1>2. GoesOn(p, Born(call))
    BY <1>1, Starts
<1> QED BY <1>1, <1>2, OneMoves

\* A process that has its answer ends, and may start the service.
LEMMA Answering ==
    ASSUME ServiceInv, NEW p \in Process, NEW answer, Answered(p, answer),
           proc[p].pc # "done", proc[p].call # "service",
           UNCHANGED <<installed, path, sockets, lines>>
    PROVE  ServiceInv'
<1>1. GoesOn(p, Ended(p))
    BY Ends
<1>2. CASE Exit(p)
    BY <1>1, <1>2, OneMoves DEF Exit
<1>3. CASE startDetached(p, "service")
    <2>1. CASE \E q \in Process : FreeId(q)
        <3>1. FreshId \in Process /\ FreeId(FreshId) /\ FreshId # p
            BY <2>1, FreshIsFree DEF FreeId
        <3>2. GoesOn(FreshId, Born("service"))
            BY <3>1, Starts
        <3>3. /\ proc \in [Process -> Procs]
              /\ proc' = [proc EXCEPT ![p] = Ended(p), ![FreshId] = Born("service")]
            BY <1>3, <2>1 DEF startDetached, ServiceInv
        <3>4. /\ proc'[p] = Ended(p) /\ proc'[FreshId] = Born("service")
              /\ \A q \in Process \ {p, FreshId} : proc'[q] = proc[q]
              /\ DOMAIN proc' = Process /\ proc' = [q \in DOMAIN proc' |-> proc'[q]]
            BY <3>1, <3>3
        <3>5. \A q \in Process : GoesOn(q, proc'[q])
            BY <1>1, <3>2, <3>4, Stays
        <3>6. installed' \in BOOLEAN /\ lines' \in [Process -> [Devices -> Seq(Piece)]]
            BY DEF ServiceInv
        <3> QED BY <3>4, <3>5, <3>6, Moves
    <2>2. CASE ~ \E q \in Process : FreeId(q)
        BY <1>1, <1>3, <2>2, OneMoves DEF startDetached
    <2> QED BY <2>1, <2>2
<1> QED BY <1>2, <1>3 DEF Answered

LEMMA Sending ==
    ASSUME ServiceInv, NEW p \in Process, sendCmd(p)
    PROVE  ServiceInv'
<1> DEFINE cmd == CommandOf[proc[p].call]
           line == << <<cmd, "begins">>, <<cmd, "ends">> >>
           r == [proc[p] EXCEPT !.pc = "sending", !.server = path, !.left = line]
<1>1. /\ IsOneThing(proc[p]) /\ LineIsComing(proc[p]) /\ proc[p] \in Procs
      /\ proc[p].pc = "exec" /\ proc[p].call \in DOMAIN CommandOf /\ proc[p].call # "service"
      /\ proc[p].server = NoProcess /\ path \in Process \cup {NoProcess}
    BY CallNames DEF ServiceInv, sendCmd, IsOneThing
<1>2. CASE Reachable
    <2>1. path \in Process /\ ~Serves(proc[p])
        BY <1>1, <1>2 DEF Reachable, Serves
    <2>2. line \in Seq(Piece) /\ EndsIn(line)
        <3>1. <<cmd, "begins">> \in Piece /\ <<cmd, "ends">> \in Piece
            BY <1>1 DEF Piece
        <3> HIDE DEF cmd
        <3>2. line \in Seq(Piece) /\ 2 \in DOMAIN line /\ line[2][2] = "ends"
            BY <3>1
        <3> QED BY <3>2 DEF EndsIn
    <2> HIDE DEF line
    <2>3. r \in Procs
        BY <1>1, <2>1, <2>2 DEF Procs
    <2>4. IsOneThing(r) /\ LineIsComing(r)
        BY <1>1, <2>1, <2>2, <2>3, NumbersOfProcesses DEF IsOneThing, LineIsComing, Procs
    <2>5. path # p /\ \A s \in Process, d \in Devices : sockets[s][d] # p
        <3>1. ~proc[p].bound
            BY <1>1 DEF IsOneThing
        <3> QED BY <1>1, <1>2, <2>1, <3>1, Unknown DEF Reachable
    <2>6. GoesOn(p, r)
        <3>1. ~proc[p].accepted /\ r.accepted = proc[p].accepted
            BY <1>1 DEF IsOneThing, Procs
        <3> HIDE DEF r
        <3> QED BY <1>1, <2>1, <2>4, <2>5, <3>1 DEF GoesOn
    <2>7. /\ proc' = [proc EXCEPT ![p] = r]
          /\ UNCHANGED <<installed, path, sockets, lines>>
        <3>1. proc' = [proc EXCEPT ![p].pc = "sending", ![p].server = path, ![p].left = line]
            BY <1>2 DEF sendCmd, line
        <3> QED BY <3>1 DEF sendCmd, ServiceInv, Procs
    <2> HIDE DEF r
    <2> QED BY <2>6, <2>7, OneMoves
<1>3. CASE ~Reachable
    BY <1>1, <1>3, Answering DEF sendCmd
<1> QED BY <1>2, <1>3

\* The pieces of a line go from the program to the socket in their order.
LEMMA PiecesGo ==
    ASSUME NEW left \in Seq(Piece), NEW wire \in Seq(Piece), NEW n \in 1..Len(left)
    PROVE  LET rest == SubSeq(left, n + 1, Len(left))
               gone == wire \o SubSeq(left, 1, n)
           IN  /\ rest \in Seq(Piece) /\ gone \in Seq(Piece)
               /\ n = Len(left) => rest = <<>>
               /\ EndsIn(left) \/ EndsIn(wire) => EndsIn(rest) \/ EndsIn(gone)
<1> DEFINE rest == SubSeq(left, n + 1, Len(left))
           first == SubSeq(left, 1, n)
           gone == wire \o first
<1>1. Len(left) \in Nat /\ DOMAIN left = 1..Len(left) /\ \A i \in 1..Len(left) : left[i] \in Piece
    BY LenProperties, ElementOfSeq
<1>2. /\ rest \in Seq(Piece) /\ Len(rest) = IF n + 1 <= Len(left) THEN Len(left) - (n + 1) + 1 ELSE 0
      /\ \A i \in 1..(Len(left) - (n + 1) + 1) : rest[i] = left[n + 1 + i - 1]
    BY <1>1, SubSeqProperties
<1>3. /\ first \in Seq(Piece) /\ Len(first) = n
      /\ \A i \in 1..n : first[i] = left[i]
    <2>1. /\ first \in Seq(Piece) /\ Len(first) = IF 1 <= n THEN n - 1 + 1 ELSE 0
          /\ \A i \in 1..(n - 1 + 1) : first[i] = left[1 + i - 1]
        BY <1>1, SubSeqProperties
    <2> QED BY <1>1, <2>1
<1> HIDE DEF rest, first
<1>4. /\ gone \in Seq(Piece) /\ Len(gone) = Len(wire) + n
      /\ \A i \in 1..(Len(wire) + n) :
            gone[i] = IF i <= Len(wire) THEN wire[i] ELSE first[i - Len(wire)]
    BY <1>3, ConcatProperties
<1>5. /\ DOMAIN rest = 1..Len(rest) /\ DOMAIN gone = 1..Len(gone)
      /\ DOMAIN wire = 1..Len(wire) /\ Len(wire) \in Nat
    BY <1>2, <1>4, LenProperties
<1> HIDE DEF gone
<1>6. n = Len(left) => rest = <<>>
    BY <1>1, <1>2
<1>7. ASSUME EndsIn(left) PROVE EndsIn(rest) \/ EndsIn(gone)
    <2>1. PICK k \in 1..Len(left) : left[k][2] = "ends"
        BY <1>1, <1>7 DEF EndsIn
    <2>2. CASE k <= n
        <3>1. /\ Len(wire) + k \in 1..(Len(wire) + n) /\ ~(Len(wire) + k <= Len(wire))
              /\ Len(wire) + k - Len(wire) = k
            BY <1>5, <2>2
        <3>2. gone[Len(wire) + k] = left[k]
            BY <1>3, <1>4, <2>2, <3>1
        <3> QED BY <1>4, <1>5, <2>1, <3>1, <3>2 DEF EndsIn
    <2>3. CASE k > n
        <3>1. /\ k - n \in 1..(Len(left) - (n + 1) + 1) /\ n + 1 + (k - n) - 1 = k
              /\ n + 1 <= Len(left) /\ Len(left) - (n + 1) + 1 = Len(left) - n
            BY <1>1, <2>3
        <3>3. k - n \in 1..Len(rest)
            BY <1>2, <3>1
        <3>2. rest[k - n] = left[k]
            BY <1>2, <3>1
        <3> QED BY <1>5, <2>1, <3>2, <3>3 DEF EndsIn
    <2> QED BY <1>1, <2>2, <2>3
<1>8. ASSUME EndsIn(wire) PROVE EndsIn(gone)
    <2>1. PICK k \in 1..Len(wire) : wire[k][2] = "ends"
        BY <1>5, <1>8 DEF EndsIn
    <2>2. k \in 1..(Len(wire) + n) /\ k <= Len(wire)
        BY <1>5
    <2> QED BY <1>4, <1>5, <2>1, <2>2 DEF EndsIn
<1> QED BY <1>2, <1>4, <1>6, <1>7, <1>8 DEF rest, gone, first

LEMMA Writing ==
    ASSUME ServiceInv, NEW p \in Process, WriteLine(p)
    PROVE  ServiceInv'
<1>1. /\ IsOneThing(proc[p]) /\ LineIsComing(proc[p]) /\ proc[p] \in Procs
      /\ proc[p].pc = "sending" /\ proc[p].left \in Seq(Piece) /\ proc[p].wire \in Seq(Piece)
    BY DEF ServiceInv, WriteLine, Procs
<1>2. PICK n \in 1..Len(proc[p].left) :
        proc' = [proc EXCEPT ![p].left = SubSeq(proc[p].left, n + 1, Len(proc[p].left)),
                             ![p].wire = @ \o SubSeq(proc[p].left, 1, n),
                             ![p].pc = IF n = Len(proc[p].left) THEN "waiting" ELSE "sending"]
    BY DEF WriteLine
<1> DEFINE rest == SubSeq(proc[p].left, n + 1, Len(proc[p].left))
           gone == proc[p].wire \o SubSeq(proc[p].left, 1, n)
           pc == IF n = Len(proc[p].left) THEN "waiting" ELSE "sending"
           r == [proc[p] EXCEPT !.left = rest, !.wire = gone, !.pc = pc]
<1>3. /\ rest \in Seq(Piece) /\ gone \in Seq(Piece)
      /\ n = Len(proc[p].left) => rest = <<>>
      /\ EndsIn(proc[p].left) \/ EndsIn(proc[p].wire) => EndsIn(rest) \/ EndsIn(gone)
    BY <1>1, PiecesGo
<1>4. pc \in {"sending", "waiting"} /\ (pc = "waiting" => rest = <<>>)
    BY <1>3
<1>5. proc' = [proc EXCEPT ![p] = r]
    BY <1>2 DEF ServiceInv, Procs
<1> HIDE DEF rest, gone, pc
<1>6. r \in Procs
    BY <1>1, <1>3, <1>4 DEF Procs
<1>7. /\ IsOneThing(r) /\ LineIsComing(r)
      /\ r.server = proc[p].server /\ r.accepted = proc[p].accepted
      /\ ~Serves(proc[p])
    BY <1>1, <1>3, <1>4, <1>6 DEF IsOneThing, LineIsComing, Procs, Serves
<1>8. path # p
    BY <1>1, NumbersOfProcesses DEF ServiceInv, NoStaleFile, IsOneThing
<1> HIDE DEF r
<1>9. GoesOn(p, r)
    BY <1>1, <1>7, <1>8 DEF GoesOn
<1> QED BY <1>5, <1>9, OneMoves DEF WriteLine

LEMMA Reading ==
    ASSUME ServiceInv, NEW p \in Process, ReadReply(p)
    PROVE  ServiceInv'
<1>1. /\ proc[p].pc = "waiting" /\ Answered(p, proc[p].reply)
      /\ UNCHANGED <<installed, path, sockets, lines>>
    BY DEF ReadReply
<1>2. proc[p].call # "service"
    BY <1>1, CallNames DEF ServiceInv, IsOneThing
<1> QED BY <1>1, <1>2, Answering

-----------------------------------------------------------------------------
(* The service.                                                            *)

LEMMA Running ==
    ASSUME ServiceInv, NEW p \in Process, Run(p) \/ Bind(p) \/ setServiceFlags(p) \/ LoopEnds(p)
    PROVE  ServiceInv'
<1>1. /\ IsOneThing(proc[p]) /\ LineIsComing(proc[p]) /\ proc[p] \in Procs
      /\ proc \in [Process -> Procs] /\ path \in Process \cup {NoProcess}
      /\ path = p => Marked(proc[p])
      /\ UNCHANGED <<installed, sockets, lines>>
    BY NumbersOfProcesses
       DEF ServiceInv, NoStaleFile, Marked, Run, Bind, setServiceFlags, LoopEnds
<1>2. PICK r \in Procs :
        /\ proc' = [proc EXCEPT ![p] = r] /\ IsOneThing(r) /\ LineIsComing(r)
        /\ Serves(proc[p]) => Serves(r)
        /\ r.server = proc[p].server /\ r.accepted = proc[p].accepted /\ proc[p].pc # "done"
        /\ path' \in {path, NoProcess} \/ (path' = p /\ Marked(r))
        /\ Marked(proc[p]) => Marked(r)
    <2>1. CASE Run(p)
        <3>1. PICK flags \in FlagSets :
                proc' = [proc EXCEPT ![p].flags = flags,
                             ![p].pc = IF proc[p].call = "service" THEN "binding" ELSE "loop"]
            BY <2>1 DEF Run
        <3> DEFINE pc == IF proc[p].call = "service" THEN "binding" ELSE "loop"
                   r == [proc[p] EXCEPT !.flags = flags, !.pc = pc]
        <3>2. /\ proc[p].pc = "exec" /\ path' \in {path, NoProcess}
              /\ pc \in {"binding", "loop"} /\ flags \in SUBSET ServiceFlag
            BY <2>1, QtServiceAssumption DEF Run
        <3>3. proc' = [proc EXCEPT ![p] = r]
            BY <1>1, <3>1 DEF Procs
        <3> HIDE DEF pc
        <3>4. /\ r \in Procs /\ r.pc = pc /\ r.call = proc[p].call /\ r.killed = proc[p].killed
              /\ r.bound = proc[p].bound /\ r.quit = proc[p].quit
              /\ r.server = proc[p].server /\ r.accepted = proc[p].accepted
            BY <1>1, <3>2 DEF Procs
        <3> HIDE DEF r
        <3>5. IsOneThing(r) /\ LineIsComing(r)
            <4>1. /\ ~proc[p].killed /\ ~proc[p].bound /\ proc[p].server = NoProcess
                  /\ proc[p].quit => proc[p].call = "service"
                  /\ ~proc[p].accepted
                BY <1>1, <3>2 DEF IsOneThing
            <4>2. pc = "binding" => proc[p].call = "service"
                BY DEF pc
            <4> QED BY <3>2, <3>4, <4>1, <4>2 DEF IsOneThing, LineIsComing
        <3>6. ~Serves(proc[p]) /\ ~Marked(proc[p])
            BY <1>1, <3>2 DEF IsOneThing, Serves, Marked
        <3> QED BY <3>2, <3>3, <3>4, <3>5, <3>6
    <2>2. CASE Bind(p)
        <3> DEFINE free == path = NoProcess
                   r == [proc[p] EXCEPT !.pc = "loop", !.bound = free]
        <3>1. /\ proc[p].pc = "binding"
              /\ proc' = [proc EXCEPT ![p].pc = "loop", ![p].bound = path = NoProcess]
              /\ path' = IF path = NoProcess THEN p ELSE path
            BY <2>2 DEF Bind
        <3>2. proc[p].call = "service"
            BY <1>1, <3>1 DEF IsOneThing
        <3>3. proc' = [proc EXCEPT ![p] = r]
            BY <1>1, <3>1 DEF Procs
        <3>4. r \in Procs
            BY <1>1 DEF Procs
        <3>5. IsOneThing(r) /\ LineIsComing(r) /\ ~Serves(proc[p]) /\ ~Marked(proc[p])
            BY <1>1, <3>1, <3>2, <3>4 DEF IsOneThing, LineIsComing, Serves, Marked, Procs
        <3>6. /\ r.server = proc[p].server /\ r.accepted = proc[p].accepted
              /\ path = NoProcess => r.bound
            BY <1>1 DEF Procs
        <3> QED BY <3>1, <3>3, <3>4, <3>5, <3>6 DEF Marked
    <2>3. CASE setServiceFlags(p)
        <3>1. PICK flags \in FlagSets : proc' = [proc EXCEPT ![p].flags = flags]
            BY <2>3 DEF setServiceFlags
        <3> DEFINE r == [proc[p] EXCEPT !.flags = flags]
        <3>2. /\ flags \in SUBSET ServiceFlag /\ path' = path /\ proc[p].pc # "done"
            BY <2>3, QtServiceAssumption DEF setServiceFlags
        <3>3. proc' = [proc EXCEPT ![p] = r] /\ r \in Procs
            BY <1>1, <3>1, <3>2 DEF Procs
        <3>4. /\ IsOneThing(r) /\ LineIsComing(r)
              /\ Serves(proc[p]) => Serves(r)
              /\ Marked(proc[p]) => Marked(r)
              /\ r.server = proc[p].server /\ r.accepted = proc[p].accepted
            BY <1>1, <3>3 DEF IsOneThing, LineIsComing, Serves, Marked, Procs
        <3> QED BY <3>2, <3>3, <3>4
    <2>4. CASE LoopEnds(p)
        <3> DEFINE r == [proc[p] EXCEPT !.pc = "closing", !.bound = FALSE]
        <3>1. /\ proc[p].pc = "loop" /\ proc[p].call = "service" /\ path' = path
              /\ proc' = [proc EXCEPT ![p].pc = "closing", ![p].bound = FALSE]
            BY <1>1, <2>4 DEF LoopEnds, IsOneThing
        <3>2. proc' = [proc EXCEPT ![p] = r] /\ r \in Procs
            BY <1>1, <3>1 DEF Procs
        <3>3. /\ IsOneThing(r) /\ LineIsComing(r) /\ Serves(r) /\ Marked(r)
              /\ r.server = proc[p].server /\ r.accepted = proc[p].accepted
            BY <1>1, <3>1, <3>2 DEF IsOneThing, LineIsComing, Serves, Marked, Procs
        <3> QED BY <3>1, <3>2, <3>3
    <2> QED BY <2>1, <2>2, <2>3, <2>4
<1>3. GoesOn(p, r)
    BY <1>1, <1>2 DEF GoesOn
<1> QED BY <1>1, <1>2, <1>3, OneMoves

\* The sockets change, or the processes do, as long as both still agree.
LEMMA Agree ==
    ASSUME ServiceInv, UNCHANGED <<installed, lines>>, path' \in {path, NoProcess},
           DOMAIN proc' = Process, proc' = [q \in DOMAIN proc' |-> proc'[q]],
           \A q \in Process : /\ IsOneThing(proc'[q]) /\ LineIsComing(proc'[q])
                              /\ path = q => Marked(proc'[q]),
           sockets' \in [Process -> [Devices -> Process \cup {NoProcess}]],
           SocketsMatch', HeldBySocket'
    PROVE  ServiceInv'
<1>1. proc' \in [Process -> Procs]
    BY DEF IsOneThing
<1>2. path' \in Process \cup {NoProcess} /\ NoStaleFile'
    BY DEF ServiceInv, NoStaleFile, Marked
<1> QED BY <1>1, <1>2, ZenonT(60) DEF ServiceInv, IsOneThing, LineIsComing, EndsIn, Procs

LEMMA Connecting ==
    ASSUME ServiceInv, NEW p \in Process, NEW c \in Process, incomingConnection(p, c)
    PROVE  ServiceInv'
<1>1. PICK d \in Devices : /\ sockets[p][d] = NoProcess
                           /\ sockets' = [sockets EXCEPT ![p][d] = c]
                           /\ proc' = [proc EXCEPT ![c].accepted = TRUE]
    BY DEF incomingConnection
<1>2. /\ proc \in [Process -> Procs] /\ SocketsMatch
      /\ sockets \in [Process -> [Devices -> Process \cup {NoProcess}]]
      /\ UNCHANGED <<installed, path, lines>>
      /\ proc[p].pc = "loop" /\ proc[p].bound /\ proc[c].server = p /\ ~proc[c].accepted
    BY DEF ServiceInv, incomingConnection
<1> DEFINE r == [proc[c] EXCEPT !.accepted = TRUE]
<1>3. /\ proc' = [proc EXCEPT ![c] = r] /\ r \in Procs /\ r.accepted
      /\ IsOneThing(r) /\ LineIsComing(r) /\ r.server = p
      /\ Serves(proc[c]) => Serves(r)
      /\ Marked(proc[c]) => Marked(r)
    <2>1. IsOneThing(proc[c]) /\ LineIsComing(proc[c]) /\ proc[c] \in Procs
        BY DEF ServiceInv
    <2>2. proc' = [proc EXCEPT ![c] = r] /\ r \in Procs
        BY <1>1, <1>2, <2>1 DEF Procs
    <2>3. /\ r.accepted /\ r.server = p /\ r.pc = proc[c].pc /\ r.call = proc[c].call
          /\ r.killed = proc[c].killed /\ r.bound = proc[c].bound /\ r.quit = proc[c].quit
          /\ r.left = proc[c].left /\ r.wire = proc[c].wire /\ r.reply = proc[c].reply
        BY <1>2, <2>1 DEF Procs
    <2> HIDE DEF r
    <2>4. IsOneThing(r)
        BY <1>2, <2>1, <2>2, <2>3, NumbersOfProcesses DEF IsOneThing
    <2>5. LineIsComing(r)
        BY <2>1, <2>3 DEF LineIsComing
    <2> QED BY <2>2, <2>3, <2>4, <2>5 DEF Serves, Marked
<1> HIDE DEF r
<1>4. proc'[c] = r /\ \A q \in Process : q # c => proc'[q] = proc[q]
    BY <1>2, <1>3
<1>5. \A q \in Process : /\ IsOneThing(proc'[q]) /\ LineIsComing(proc'[q])
                         /\ path = q => Marked(proc'[q])
                         /\ Serves(proc[q]) => Serves(proc'[q])
                         /\ proc'[q].server = proc[q].server
                         /\ proc[q].accepted => proc'[q].accepted
    <2>1. \A q \in Process : GoesOn(q, proc[q])
        BY Stays
    <2> QED BY <1>2, <1>3, <1>4, <2>1 DEF GoesOn
<1>6. /\ sockets' \in [Process -> [Devices -> Process \cup {NoProcess}]]
      /\ sockets'[p][d] = c
      /\ \A s \in Process, e \in Devices : s # p \/ e # d => sockets'[s][e] = sockets[s][e]
    BY <1>1, <1>2
<1>7. Serves(proc[p])
    BY <1>2 DEF Serves, ServiceInv, IsOneThing
<1>8. SocketsMatch'
    <2>1. \A s \in Process, e \in Devices : sockets[s][e] # c
        BY <1>2, NumbersOfProcesses DEF SocketsMatch
    <2> SUFFICES ASSUME NEW s \in Process, NEW e \in Devices, sockets'[s][e] # NoProcess
                 PROVE  /\ Serves(proc'[s])
                        /\ proc'[sockets'[s][e]].server = s /\ proc'[sockets'[s][e]].accepted
                        /\ \A f \in Devices : sockets'[s][f] = sockets'[s][e] => f = e
        BY DEF SocketsMatch, Serves
    <2>2. CASE s = p /\ e = d
        BY <1>2, <1>3, <1>4, <1>5, <1>6, <1>7, <2>1, <2>2
    <2>3. CASE s # p \/ e # d
        <3>1. /\ sockets'[s][e] = sockets[s][e] /\ sockets[s][e] \in Process
              /\ sockets[s][e] # c
            BY <1>2, <1>6, <2>1, <2>3
        <3>2. /\ Serves(proc[s]) /\ proc[sockets[s][e]].server = s /\ proc[sockets[s][e]].accepted
              /\ \A f \in Devices : sockets[s][f] = sockets[s][e] => f = e
            BY <1>2, <3>1, NumbersOfProcesses, ZenonT(60) DEF SocketsMatch
        <3>3. \A f \in Devices : sockets'[s][f] = sockets'[s][e] => f = e
            BY <1>6, <3>1, <3>2
        <3> QED BY <1>5, <3>1, <3>2, <3>3
    <2> QED BY <2>2, <2>3
<1>9. DOMAIN proc' = Process /\ proc' = [q \in DOMAIN proc' |-> proc'[q]]
    BY <1>2, <1>3
<1>10. HeldBySocket'
    <2> SUFFICES ASSUME NEW b \in Process, proc'[b].accepted, proc'[proc'[b].server].pc # "done"
                 PROVE  \E e \in Devices : sockets'[proc'[b].server][e] = b
        BY DEF HeldBySocket
    <2>1. CASE b = c
        BY <1>3, <1>4, <1>6, <2>1
    <2>2. CASE b # c
        <3>1. proc'[b] = proc[b] /\ proc[b].server \in Process
            BY <1>2, <1>4, <2>2 DEF ServiceInv, IsOneThing, Procs
        <3>2. proc[proc[b].server].pc # "done"
            <4>1. r.pc = proc[c].pc
                BY <1>2, ZenonT(60) DEF r, Procs
            <4> QED BY <1>4, <3>1, <4>1
        <3>3. PICK e \in Devices : sockets[proc[b].server][e] = b
            BY <3>1, <3>2 DEF ServiceInv, HeldBySocket
        <3>4. ~(proc[b].server = p /\ e = d)
            BY <1>1, <3>3, NumbersOfProcesses
        <3> QED BY <1>6, <3>1, <3>3, <3>4
    <2> QED BY <2>1, <2>2
<1> QED BY <1>2, <1>5, <1>6, <1>8, <1>9, <1>10, Agree

\* A line is taken off what has come as soon as its end is there.
LEMMA LineTaken ==
    ASSUME NEW text \in Seq(Piece)
    PROVE  /\ EndsIn(text) => getCommand(text) # <<>>
           /\ SubSeq(text, Len(getCommand(text)) + 1, Len(text)) \in Seq(Piece)
<1>1. /\ Len(text) \in Nat /\ DOMAIN text = 1..Len(text)
      /\ \A i \in 1..Len(text) : text[i] \in Piece
    BY LenProperties, ElementOfSeq
<1>2. CASE EndsIn(text)
    <2> DEFINE ends == {k \in 1..Len(text) : text[k][2] = "ends"}
               first == CHOOSE k \in DOMAIN text : /\ text[k][2] = "ends"
                                                   /\ \A j \in 1..(k - 1) : text[j][2] # "ends"
    <2>1. ends \subseteq Nat /\ ends # {}
        BY <1>1, <1>2 DEF EndsIn
    <2>2. PICK k \in ends : \A j \in ends : <<j, k>> \notin OpToRel(<, Nat)
        BY <2>1, NatLessThanWellFounded, WFMin
    <2>3. \A j \in ends : ~(j < k)
        BY <2>1, <2>2, Zenon DEF OpToRel
    <2>4. k \in DOMAIN text /\ text[k][2] = "ends" /\ \A j \in 1..(k - 1) : text[j][2] # "ends"
        <3>1. \A j \in 1..(k - 1) : j \in 1..Len(text) /\ j < k
            BY <1>1
        <3> QED BY <1>1, <2>3, <3>1
    <2>5. first \in 1..Len(text)
        BY <1>1, <2>4
    <2> HIDE DEF first
    <2>6. Len(SubSeq(text, 1, first)) = first /\ SubSeq(text, 1, first) \in Seq(Piece)
        <3>1. \A i \in 1..first : text[i] \in Piece
            BY <1>1, <2>5
        <3> QED BY <1>1, <2>5, <3>1, SubSeqProperties
    <2>7. getCommand(text) = SubSeq(text, 1, first)
        BY <1>2 DEF getCommand, EndsIn, first
    <2>8. Len(getCommand(text)) = first /\ getCommand(text) # <<>>
        BY <2>5, <2>6, <2>7, EmptySeq
    <2>9. SubSeq(text, first + 1, Len(text)) \in Seq(Piece)
        <3>1. \A i \in (first + 1)..Len(text) : text[i] \in Piece
            BY <1>1, <2>5
        <3>2. first + 1 \in Int /\ Len(text) \in Int
            BY <1>1, <2>5
        <3> QED BY <3>1, <3>2, SubSeqProperties
    <2> QED BY <2>8, <2>9
<1>3. CASE ~EndsIn(text)
    <2>1. getCommand(text) = <<>> /\ Len(getCommand(text)) = 0
        BY <1>3 DEF getCommand, EndsIn
    <2>2. SubSeq(text, 0 + 1, Len(text)) \in Seq(Piece)
        BY <1>1, SubSeqProperties
    <2> QED BY <1>3, <2>1, <2>2
<1> QED BY <1>2, <1>3

LEMMA Serving ==
    ASSUME ServiceInv, NEW p \in Process, NEW d \in Devices, slotReady(p, d)
    PROVE  ServiceInv'
<1> DEFINE c == sockets[p][d]
           text == lines[p][d] \o proc[c].wire
           line == getCommand(text)
           granted == Granted(p, Meaning(line))
           rest == SubSeq(text, Len(line) + 1, Len(text))
<1>1. /\ proc[p].pc = "loop" /\ c # NoProcess /\ UNCHANGED <<installed, path, sockets>>
      /\ lines' = [lines EXCEPT ![p][d] = rest]
      /\ proc' = IF line = <<>> THEN [proc EXCEPT ![c].wire = <<>>]
                 ELSE [proc EXCEPT ![c].wire = <<>>,
                                   ![c].reply = IF granted THEN "true" ELSE "false",
                                   ![p].quit = @ \/ (granted /\ Meaning(line) = "terminate")]
    BY DEF slotReady
<1>2. /\ c \in Process /\ proc[c].server = p /\ Serves(proc[p]) /\ c # p
      /\ proc \in [Process -> Procs] /\ proc[c] \in Procs /\ proc[p] \in Procs
      /\ IsOneThing(proc[c]) /\ LineIsComing(proc[c]) /\ IsOneThing(proc[p]) /\ LineIsComing(proc[p])
      /\ lines \in [Process -> [Devices -> Seq(Piece)]]
      /\ installed \in BOOLEAN /\ path \in Process \cup {NoProcess}
    <2>1. c \in Process /\ proc[c].server = p /\ Serves(proc[p])
        BY <1>1 DEF ServiceInv, SocketsMatch
    <2>2. IsOneThing(proc[c])
        BY <2>1 DEF ServiceInv
    <2>3. c # p
        BY <1>1, <2>1, <2>2, NumbersOfProcesses DEF IsOneThing
    <2> QED BY <2>1, <2>3 DEF ServiceInv
<1>3. text \in Seq(Piece) /\ (EndsIn(proc[c].wire) => EndsIn(text))
    <2> DEFINE old == lines[p][d]
               wire == proc[c].wire
    <2>1. old \in Seq(Piece) /\ wire \in Seq(Piece)
        BY <1>2, ZenonT(60) DEF Procs
    <2> HIDE DEF old, wire
    <2>2. /\ old \o wire \in Seq(Piece) /\ Len(old \o wire) = Len(old) + Len(wire)
          /\ \A i \in 1..(Len(old) + Len(wire)) :
                (old \o wire)[i] = IF i <= Len(old) THEN old[i] ELSE wire[i - Len(old)]
        BY <2>1, ConcatProperties
    <2>3. /\ DOMAIN wire = 1..Len(wire) /\ Len(wire) \in Nat /\ Len(old) \in Nat
          /\ DOMAIN (old \o wire) = 1..Len(old \o wire)
        BY <2>1, <2>2, LenProperties
    <2>4. ASSUME EndsIn(wire) PROVE EndsIn(old \o wire)
        <3>1. PICK k \in 1..Len(wire) : wire[k][2] = "ends"
            BY <2>3, <2>4 DEF EndsIn
        <3>2. /\ Len(old) + k \in 1..(Len(old) + Len(wire)) /\ ~(Len(old) + k <= Len(old))
              /\ Len(old) + k - Len(old) = k
            BY <2>3
        <3>3. (old \o wire)[Len(old) + k] = wire[k]
            BY <2>2, <3>2
        <3> QED BY <2>2, <2>3, <3>1, <3>2, <3>3 DEF EndsIn
    <2> QED BY <2>2, <2>4 DEF old, wire
<1> HIDE DEF text
<1>4. rest \in Seq(Piece) /\ (EndsIn(proc[c].wire) => line # <<>>)
    BY <1>3, LineTaken
<1> HIDE DEF rest, line, granted
<1>5. lines' \in [Process -> [Devices -> Seq(Piece)]]
    BY <1>1, <1>2, <1>4
<1> HIDE DEF c
<1>6. CASE line = <<>>
    <2> DEFINE r == [proc[c] EXCEPT !.wire = <<>>]
    <2>1. proc' = [proc EXCEPT ![c] = r] /\ r \in Procs
        BY <1>1, <1>2, <1>6, EmptySeq DEF Procs
    <2>2. /\ IsOneThing(r) /\ LineIsComing(r)
          /\ Serves(proc[c]) => Serves(r)
          /\ r.server = proc[c].server /\ r.accepted = proc[c].accepted
          /\ Marked(proc[c]) => Marked(r)
        BY <1>2, <1>4, <1>6, <2>1, ZenonT(60) DEF IsOneThing, LineIsComing, Serves, Marked, Procs
    <2>3. GoesOn(c, r)
        BY <1>2, <2>2, Stays DEF GoesOn
    <2> HIDE DEF r
    <2>4. /\ proc'[c] = r /\ \A q \in Process : q # c => proc'[q] = proc[q]
          /\ DOMAIN proc' = Process /\ proc' = [q \in DOMAIN proc' |-> proc'[q]]
        BY <1>2, <2>1
    <2>5. \A q \in Process : GoesOn(q, proc'[q])
        BY <2>3, <2>4, Stays
    <2> QED BY <1>1, <1>2, <1>5, <2>4, <2>5, Moves
<1>7. CASE line # <<>>
    <2> DEFINE reply == IF granted THEN "true" ELSE "false"
               stops == granted /\ Meaning(line) = "terminate"
               r == [proc[c] EXCEPT !.wire = <<>>, !.reply = reply]
               q1 == [proc[p] EXCEPT !.quit = @ \/ stops]
    <2>1. /\ proc'[c] = r /\ proc'[p] = q1
          /\ \A q \in Process : q # c /\ q # p => proc'[q] = proc[q]
          /\ DOMAIN proc' = Process /\ proc' = [q \in DOMAIN proc' |-> proc'[q]]
        BY <1>1, <1>2, <1>7 DEF Procs
    <2>2. reply \in {"true", "false"}
        OBVIOUS
    <2> HIDE DEF reply
    <2>3. r \in Procs
        BY <1>2, <2>2, EmptySeq DEF Procs
    <2>4. /\ IsOneThing(r) /\ LineIsComing(r)
          /\ Serves(proc[c]) => Serves(r)
          /\ r.server = proc[c].server /\ r.accepted = proc[c].accepted
          /\ Marked(proc[c]) => Marked(r)
        BY <1>2, <2>2, <2>3, ZenonT(60) DEF IsOneThing, LineIsComing, Serves, Marked, Procs
    <2>5. GoesOn(c, r)
        BY <1>2, <2>4, Stays DEF GoesOn
    <2>6. (proc[p].quit \/ stops) \in BOOLEAN
        OBVIOUS
    <2>7. q1 \in Procs
        BY <1>2, <2>6 DEF Procs
    <2>8. /\ IsOneThing(q1) /\ LineIsComing(q1) /\ Serves(q1)
          /\ q1.server = proc[p].server /\ q1.accepted = proc[p].accepted
          /\ Marked(proc[p]) => Marked(q1)
        <3>1. /\ q1.pc = proc[p].pc /\ q1.call = proc[p].call /\ q1.killed = proc[p].killed
              /\ q1.bound = proc[p].bound /\ q1.server = proc[p].server
              /\ q1.accepted = proc[p].accepted /\ proc[p].call = "service"
            BY <1>2 DEF Procs, Serves
        <3> HIDE DEF q1
        <3> QED BY <1>1, <1>2, <2>7, <3>1 DEF IsOneThing, LineIsComing, Serves, Marked
    <2>9. GoesOn(p, q1)
        BY <1>2, <2>8, Stays DEF GoesOn
    <2> HIDE DEF r, q1
    <2>10. \A q \in Process : GoesOn(q, proc'[q])
        BY <2>1, <2>5, <2>9, Stays
    <2> QED BY <1>1, <1>2, <1>5, <2>1, <2>10, Moves
<1> QED BY <1>6, <1>7

LEMMA Closing ==
    ASSUME ServiceInv, NEW p \in Process, NEW d \in Devices, slotClosed(p, d)
    PROVE  ServiceInv'
<1> DEFINE c == sockets[p][d]
           r == [NotThere EXCEPT !.killed = proc[c].killed]
<1>1. /\ proc[p].pc = "loop" /\ c # NoProcess /\ proc[c].pc = "done"
      /\ sockets' = [sockets EXCEPT ![p][d] = NoProcess]
      /\ proc' = [proc EXCEPT ![c] = r]
      /\ UNCHANGED <<installed, path, lines>>
    BY DEF slotClosed
<1>2. /\ c \in Process /\ proc[c].server = p /\ Serves(proc[p])
      /\ IsOneThing(proc[c]) /\ proc \in [Process -> Procs] /\ SocketsMatch
      /\ sockets \in [Process -> [Devices -> Process \cup {NoProcess}]]
      /\ \A e \in Devices : sockets[p][e] = c => e = d
    BY <1>1 DEF ServiceInv, SocketsMatch
<1>3. /\ r \in Procs /\ IsOneThing(r) /\ LineIsComing(r)
      /\ ~Serves(proc[c]) /\ (Marked(proc[c]) => Marked(r))
    <2>1. ~proc[c].killed
        BY <1>2, NumbersOfProcesses DEF IsOneThing
    <2>2. proc[c].killed \in BOOLEAN /\ ~Marked(proc[c])
        BY <1>1, <1>2, <2>1 DEF Procs, Marked, IsOneThing
    <2>3. NotThere \in Procs /\ IsOneThing(NotThere) /\ LineIsComing(NotThere)
        BY Unborn DEF IsOneThing
    <2>4. r \in Procs
        BY <2>2, <2>3 DEF Procs
    <2>5. IsOneThing(r) /\ LineIsComing(r)
        BY <2>1, <2>3, <2>4 DEF IsOneThing, LineIsComing, Procs
    <2> QED BY <1>1, <2>2, <2>4, <2>5 DEF Serves
<1> HIDE DEF c, r
<1>4. /\ proc'[c] = r /\ \A q \in Process : q # c => proc'[q] = proc[q]
      /\ DOMAIN proc' = Process /\ proc' = [q \in DOMAIN proc' |-> proc'[q]]
    BY <1>1, <1>2, <1>3
<1>5. \A q \in Process : /\ IsOneThing(proc'[q]) /\ LineIsComing(proc'[q])
                         /\ path = q => Marked(proc'[q])
    <2>1. \A q \in Process : GoesOn(q, proc[q])
        BY Stays
    <2> QED BY <1>2, <1>3, <1>4, <2>1 DEF GoesOn
<1>6. /\ sockets' \in [Process -> [Devices -> Process \cup {NoProcess}]]
      /\ sockets'[p][d] = NoProcess
      /\ \A s \in Process, e \in Devices : s # p \/ e # d => sockets'[s][e] = sockets[s][e]
    BY <1>1, <1>2
<1>7. \A s \in Process, e \in Devices : sockets[s][e] = c => s = p /\ e = d
    BY <1>1, <1>2 DEF SocketsMatch
<1>8. SocketsMatch'
    <2> SUFFICES ASSUME NEW s \in Process, NEW e \in Devices, sockets'[s][e] # NoProcess
                 PROVE  /\ Serves(proc'[s])
                        /\ proc'[sockets'[s][e]].server = s /\ proc'[sockets'[s][e]].accepted
                        /\ \A f \in Devices : sockets'[s][f] = sockets'[s][e] => f = e
        BY DEF SocketsMatch, Serves
    <2>1. /\ sockets'[s][e] = sockets[s][e] /\ sockets[s][e] \in Process /\ sockets[s][e] # c
        BY <1>2, <1>6, <1>7
    <2>2. /\ Serves(proc[s]) /\ proc[sockets[s][e]].server = s /\ proc[sockets[s][e]].accepted
          /\ \A f \in Devices : sockets[s][f] = sockets[s][e] => f = e
        BY <1>2, <2>1, NumbersOfProcesses DEF SocketsMatch
    <2>3. \A f \in Devices : sockets'[s][f] = sockets'[s][e] => f = e
        BY <1>6, <2>1, <2>2
    <2>4. s # c
        BY <1>3, <2>2
    <2> QED BY <1>4, <2>1, <2>2, <2>3, <2>4
<1>9. HeldBySocket'
    <2> SUFFICES ASSUME NEW b \in Process, proc'[b].accepted, proc'[proc'[b].server].pc # "done"
                 PROVE  \E e \in Devices : sockets'[proc'[b].server][e] = b
        BY DEF HeldBySocket
    <2>1. b # c /\ r.pc = "done"
        BY <1>3, <1>4, ZenonT(60) DEF r, NotThere
    <2>2. proc'[b] = proc[b] /\ proc[b].server \in Process
        BY <1>2, <1>4, <2>1 DEF ServiceInv, IsOneThing, Procs
    <2>3. proc[proc[b].server].pc # "done"
        BY <1>4, <2>1, <2>2
    <2>4. PICK e \in Devices : sockets[proc[b].server][e] = b
        BY <2>2, <2>3 DEF ServiceInv, HeldBySocket
    <2>5. ~(proc[b].server = p /\ e = d)
        BY <2>1, <2>4 DEF c
    <2> QED BY <1>6, <2>2, <2>4, <2>5
<1> QED BY <1>1, <1>4, <1>5, <1>6, <1>8, <1>9, Agree

\* A service dies: its sockets go, and what was left of its controllers.
LEMMA Dying ==
    ASSUME ServiceInv, NEW p \in Process, NEW killed \in BOOLEAN, Dies(p, killed),
           proc[p].pc # "done", proc[p].call = "service",
           installed' = installed, path' = NoProcess \/ (path' = path /\ killed)
    PROVE  ServiceInv'
<1> DEFINE gone == [NotThere EXCEPT !.killed = killed]
<1>1. /\ proc' = [q \in Process |->
                    IF q = p THEN gone
                    ELSE IF proc[q].pc = "done" /\ proc[q].server = p THEN NotThere
                    ELSE proc[q]]
      /\ sockets' = [sockets EXCEPT ![p] = [d \in Devices |-> NoProcess]]
      /\ lines' = [lines EXCEPT ![p] = [d \in Devices |-> <<>>]]
    BY DEF Dies
<1>2. /\ proc \in [Process -> Procs] /\ SocketsMatch
      /\ sockets \in [Process -> [Devices -> Process \cup {NoProcess}]]
      /\ lines \in [Process -> [Devices -> Seq(Piece)]]
      /\ installed \in BOOLEAN /\ path \in Process \cup {NoProcess}
      /\ proc[p].server = NoProcess
    <2>1. IsOneThing(proc[p]) /\ proc[p].server \in Process \cup {NoProcess}
        BY DEF ServiceInv, Procs
    <2>2. proc[p].server = NoProcess
        BY <2>1, CallNames DEF IsOneThing
    <2> QED BY <2>2 DEF ServiceInv
<1>3. gone \in Procs /\ IsOneThing(gone) /\ LineIsComing(gone) /\ (killed => Marked(gone))
    <2>1. NotThere \in Procs /\ IsOneThing(NotThere) /\ LineIsComing(NotThere)
        BY Unborn DEF IsOneThing
    <2>2. gone \in Procs
        BY <2>1 DEF Procs
    <2>3. /\ gone.pc = "done" /\ gone.server = NoProcess /\ gone.killed = killed
          /\ ~gone.bound /\ ~gone.quit /\ ~gone.accepted
        BY DEF NotThere
    <2> HIDE DEF gone
    <2> QED BY <2>2, <2>3 DEF IsOneThing, LineIsComing, Marked
<1> HIDE DEF gone
<1>4. \A q \in Process :
        /\ IsOneThing(proc'[q]) /\ LineIsComing(proc'[q]) /\ proc'[q] \in Procs
        /\ path' = q => Marked(proc'[q])
    <2> TAKE q \in Process
    <2>1. GoesOn(q, proc[q])
        BY Stays
    <2>2. CASE q = p
        BY <1>1, <1>3, <2>2, NumbersOfProcesses
    <2>3. CASE q # p /\ proc[q].pc = "done" /\ proc[q].server = p
        <3>1. ~Marked(proc[q])
            BY <2>1, <2>3, NumbersOfProcesses DEF GoesOn, IsOneThing, Marked
        <3>2. proc'[q] = NotThere /\ path' # q
            BY <1>1, <2>1, <2>3, <3>1, NumbersOfProcesses DEF GoesOn
        <3> QED BY <3>2, Unborn DEF IsOneThing
    <2>4. CASE q # p /\ ~(proc[q].pc = "done" /\ proc[q].server = p)
        <3>1. proc'[q] = proc[q]
            BY <1>1, <2>4
        <3> QED BY <2>1, <3>1, NumbersOfProcesses DEF GoesOn, IsOneThing
    <2> QED BY <2>2, <2>3, <2>4
<1>5. /\ sockets' \in [Process -> [Devices -> Process \cup {NoProcess}]]
      /\ \A d \in Devices : sockets'[p][d] = NoProcess
      /\ \A s \in Process : s # p => sockets'[s] = sockets[s]
      /\ lines' \in [Process -> [Devices -> Seq(Piece)]]
    <2>1. <<>> \in Seq(Piece)
        BY EmptySeq
    <2> QED BY <1>1, <1>2, <2>1
<1>6. SocketsMatch'
    <2> SUFFICES ASSUME NEW s \in Process, NEW d \in Devices, sockets'[s][d] # NoProcess
                 PROVE  /\ Serves(proc'[s])
                        /\ proc'[sockets'[s][d]].server = s /\ proc'[sockets'[s][d]].accepted
                        /\ \A e \in Devices : sockets'[s][e] = sockets'[s][d] => e = d
        BY DEF SocketsMatch, Serves
    <2>1. s # p /\ sockets'[s] = sockets[s] /\ sockets[s][d] \in Process
        BY <1>2, <1>5
    <2>2. /\ Serves(proc[s]) /\ proc[sockets[s][d]].server = s /\ proc[sockets[s][d]].accepted
          /\ \A e \in Devices : sockets[s][e] = sockets[s][d] => e = d
        BY <1>2, <2>1, NumbersOfProcesses DEF SocketsMatch
    <2>3. sockets[s][d] # p
        BY <1>2, <2>2, NumbersOfProcesses
    <2>4. proc'[sockets[s][d]] = proc[sockets[s][d]]
        BY <1>1, <2>1, <2>2, <2>3
    <2>5. proc'[s] = proc[s]
        BY <1>1, <2>1, <2>2 DEF Serves
    <2> QED BY <2>1, <2>2, <2>4, <2>5
<1>9. HeldBySocket'
    <2> SUFFICES ASSUME NEW c \in Process, proc'[c].accepted, proc'[proc'[c].server].pc # "done"
                 PROVE  \E d \in Devices : sockets'[proc'[c].server][d] = c
        BY DEF HeldBySocket
    <2>1. gone.pc = "done" /\ ~gone.accepted /\ NotThere.pc = "done" /\ ~NotThere.accepted
        BY DEF gone, NotThere
    <2>2. proc'[c] = proc[c] /\ proc[c].server \in Process
        BY <1>1, <1>2, <2>1 DEF ServiceInv, IsOneThing, Procs
    <2>3. proc[c].server # p /\ proc[proc[c].server].pc # "done"
        BY <1>1, <2>1, <2>2
    <2> QED BY <1>5, <2>2, <2>3 DEF ServiceInv, HeldBySocket
<1>7. proc' \in [Process -> Procs]
    BY <1>1, <1>4
<1>8. path' \in Process \cup {NoProcess} /\ NoStaleFile'
    BY <1>2, <1>4 DEF NoStaleFile, Marked
<1> QED BY <1>2, <1>4, <1>5, <1>6, <1>7, <1>8, <1>9 DEF ServiceInv, IsOneThing, LineIsComing, EndsIn, Procs

LEMMA Stopping ==
    ASSUME ServiceInv, NEW p \in Process, sysCleanup(p)
    PROVE  ServiceInv'
<1>1. /\ proc[p].pc = "closing" /\ Dies(p, FALSE)
      /\ path' = NoProcess /\ installed' = installed
    BY DEF sysCleanup
<1>2. proc[p].call = "service"
    BY <1>1 DEF ServiceInv, IsOneThing
<1> QED BY <1>1, <1>2, Dying

LEMMA Killing ==
    ASSUME ServiceInv, NEW p \in Process, Kill(p)
    PROVE  ServiceInv'
<1>1. proc[p].pc # "done" /\ UNCHANGED <<installed, path>>
    BY DEF Kill
<1>2. CASE proc[p].call = "service"
    <2>1. Dies(p, TRUE)
        BY <1>2 DEF Kill
    <2> QED BY <1>1, <1>2, <2>1, Dying
<1>3. CASE proc[p].call # "service"
    <2>1. proc' = [proc EXCEPT ![p] = Ended(p)] /\ UNCHANGED <<sockets, lines>>
        BY <1>3 DEF Kill, Exit
    <2> QED BY <1>1, <1>3, <2>1, Ends, OneMoves
<1> QED BY <1>2, <1>3

-----------------------------------------------------------------------------
(* The properties.                                                         *)

LEMMA FirstProcesses == ServiceInit => ServiceInv
<1> SUFFICES ASSUME ServiceInit
             PROVE  ServiceInv
    OBVIOUS
<1>1. <<>> \in Seq(Piece) /\ NotThere \in Procs
    BY EmptySeq, Unborn DEF IsOneThing
<1>2. /\ installed = FALSE /\ path = NoProcess
      /\ proc = [p \in Process |-> NotThere]
      /\ sockets = [p \in Process |-> [d \in Devices |-> NoProcess]]
      /\ lines = [p \in Process |-> [d \in Devices |-> <<>>]]
    BY DEF ServiceInit
<1> QED BY <1>1, <1>2, Unborn DEF ServiceInv, SocketsMatch, HeldBySocket, NoStaleFile

\* What the properties of the service rest on holds in every state.
THEOREM ServiceInductive == ServiceSpec => []ServiceInv
<1>1. ASSUME ServiceInv, [ServiceNext]_svcVars
      PROVE  ServiceInv'
    <2>1. CASE install \/ uninstall
        BY <1>1, <2>1, Installing
    <2>2. CASE ControllerStart \/ \E p \in Process : Launch(p)
        BY <1>1, <2>2, Beginning
    <2>3. ASSUME NEW p \in Process, sendCmd(p)
          PROVE  ServiceInv'
        BY <1>1, <2>3, Sending
    <2>4. ASSUME NEW p \in Process, WriteLine(p)
          PROVE  ServiceInv'
        BY <1>1, <2>4, Writing
    <2>5. ASSUME NEW p \in Process, ReadReply(p)
          PROVE  ServiceInv'
        BY <1>1, <2>5, Reading
    <2>6. ASSUME NEW p \in Process, Run(p) \/ Bind(p) \/ setServiceFlags(p) \/ LoopEnds(p)
          PROVE  ServiceInv'
        BY <1>1, <2>6, Running
    <2>7. ASSUME NEW p \in Process, sysCleanup(p)
          PROVE  ServiceInv'
        BY <1>1, <2>7, Stopping
    <2>8. ASSUME NEW p \in Process, Kill(p)
          PROVE  ServiceInv'
        BY <1>1, <2>8, Killing
    <2>9. ASSUME NEW p \in Process, NEW c \in Process, incomingConnection(p, c)
          PROVE  ServiceInv'
        BY <1>1, <2>9, Connecting
    <2>10. ASSUME NEW p \in Process, NEW d \in Devices, slotReady(p, d)
           PROVE  ServiceInv'
        BY <1>1, <2>10, Serving
    <2>11. ASSUME NEW p \in Process, NEW d \in Devices, slotClosed(p, d)
           PROVE  ServiceInv'
        BY <1>1, <2>11, Closing
    <2>12. CASE UNCHANGED svcVars
        <3>1. /\ UNCHANGED <<installed, path, proc, sockets, lines>> /\ ServiceInv
            BY <1>1, <2>12 DEF svcVars
        <3> QED BY <3>1 DEF ServiceInv, SocketsMatch, HeldBySocket, NoStaleFile
    <2> QED BY <1>1, <2>1, <2>2, <2>3, <2>4, <2>5, <2>6, <2>7, <2>8, <2>9, <2>10, <2>11, <2>12
            DEF ServiceNext
<1> QED BY FirstProcesses, <1>1, PTL DEF ServiceSpec

\* The file in /var/tmp names a service that listens, is about to remove it or
\* was killed, however many services take it from one another.
THEOREM FileNamesAService == ServiceSpec => []NoStaleFile
<1>1. ServiceInv => NoStaleFile
    BY DEF ServiceInv
<1> QED BY <1>1, ServiceInductive, PTL

LEMMA EndedText ==
    ASSUME NEW text \in Seq(Piece), EndsIn(text)
    PROVE  text # <<>>
<1>1. Len(text) # 0
    <2>1. DOMAIN text = 1..Len(text)
        BY LenProperties
    <2>2. 1..0 = {}
        OBVIOUS
    <2> QED BY <2>1, <2>2 DEF EndsIn
<1> QED BY <1>1, EmptySeq

\* A controller that waits has its answer, or the end of its connection, or a
\* service that has still to read its line, whatever pieces the line came in and
\* whatever an address still held of an earlier one.
THEOREM AnswersCome == ServiceSpec => []NobodyWaitsInVain
<1>1. ServiceInv => NobodyWaitsInVain
    <2> SUFFICES ASSUME ServiceInv, NEW p \in Process,
                        proc[p].pc = "waiting", proc[p].reply = "", ~Hung(p)
                 PROVE  /\ proc[p].wire # <<>>
                        /\ proc[p].accepted => \E d \in Devices : sockets[proc[p].server][d] = p
        BY DEF NobodyWaitsInVain
    <2>1. proc[p].wire # <<>>
        <3>1. proc[p].left = <<>> /\ (EndsIn(proc[p].left) \/ EndsIn(proc[p].wire))
            BY DEF ServiceInv, LineIsComing
        <3>2. proc[p].left \in Seq(Piece) /\ proc[p].wire \in Seq(Piece)
            BY DEF ServiceInv, Procs
        <3> QED BY <3>1, <3>2, EndedText
    <2>2. proc[proc[p].server].pc # "done"
        BY DEF Hung
    <2> QED BY <2>1, <2>2 DEF ServiceInv, HeldBySocket
<1> QED BY <1>1, ServiceInductive, PTL

\* The types of the services, and whose a socket can be.
THEOREM ServicesTyped == ServiceSpec => []SvcTypeOK
<1>1. ServiceInv => SvcTypeOK
    <2> SUFFICES ASSUME ServiceInv
                 PROVE  SvcTypeOK
        OBVIOUS
    <2>1. \A p \in Process : /\ proc[p].server \in Process \cup {NoProcess}
                             /\ proc[p].pc \in {"sending", "waiting"} => proc[p].server # NoProcess
                             /\ proc[p].bound => proc[p].pc = "loop"
        BY DEF ServiceInv, IsOneThing, Procs
    <2>2. \A p \in Process, d \in Devices :
            sockets[p][d] # NoProcess => proc[sockets[p][d]].server = p /\ proc[sockets[p][d]].accepted
        BY DEF ServiceInv, SocketsMatch
    <2> QED BY <2>1, <2>2 DEF ServiceInv, SvcTypeOK
<1> QED BY <1>1, ServiceInductive, PTL
=============================================================================
