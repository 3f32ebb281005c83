----------------------------- MODULE FileLogger -----------------------------
(***************************************************************************)
(* Logger and FileLogger of QtWebApp: every thread has a buffer of its     *)
(* last messages, which is written out with the first one that is grave    *)
(* enough; the file is flushed and rotated by a timer and changed by new   *)
(* settings, and the process may crash.  The parts of the code under the   *)
(* mutex of the logger are single steps; what the timer does before it has *)
(* the mutex is a step of its own.                                         *)
(*                                                                         *)
(* A message is known by its number and its type (0 debug, 1 warning,      *)
(* 2 critical, 3 fatal, 4 info); its text is a unit of the file's size.    *)
(***************************************************************************)
EXTENDS Integers, Sequences, SequencesExt

CONSTANTS
    Writer,         \* the threads that log
    MessageTypes,   \* the types of messages they log
    Settings,       \* the settings the configuration file may have
    Installed,      \* the logger is the default message handler
    Failures,       \* what may fail: "open", "write"
    MaxMessages     \* bound: the messages of all threads

ASSUME LoggerAssumption ==
    /\ MessageTypes \subseteq Nat /\ MaxMessages \in Nat /\ Installed \in BOOLEAN
    /\ Settings # {}
    /\ \A s \in Settings : {s.maxSize, s.maxBackups, s.minLevel, s.bufferSize} \subseteq Nat

VARIABLES
    settings,       \* the members that refreshSettings has read
    buffers,        \* the buffer of each thread
    logFile,        \* the file is open
    unflushed,      \* the end of the file that is still in memory
    disk,           \* for each file name: the file and its backups, newest first
    flushTimer,     \* the flush timer has fired and found the file open
    stuck,          \* a thread waits for the mutex it has itself, or the process is about to die
    number,         \* messages so far
    written         \* for each file name: all that has been written to it; nothing reads it

logVars == <<settings, buffers, logFile, unflushed, disk, flushTimer, stuck, number, written>>

Names == {s.fileName : s \in Settings}
QtCriticalMsg == 2
QtFatalMsg == 3

-----------------------------------------------------------------------------
(* Files.                                                                  *)

\* open() and its outcome; an existing file is continued.
CanOpen == IF "open" \in Failures THEN BOOLEAN ELSE {TRUE}

\* qWarning while the mutex is held: a call that does not come from msgHandler
\* finds the handler free, enters log() and waits for the mutex for ever.
Warned(failed) == Installed /\ failed

\* What is in memory goes to the disk.
Flushed(d, name) == [d EXCEPT ![name].log = @ \o unflushed]

\* rotate(): backups beyond the maximum go, the others move up, the file becomes the first.
Kept(backups) ==
    IF settings.maxBackups > 0 /\ Len(backups) >= settings.maxBackups
    THEN SubSeq(backups, 1, settings.maxBackups - 1) ELSE backups

\* Mutant: the loop that removes old backups begins at the wrong end.
RotatedNewest(d, name) ==
    [d EXCEPT ![name] = [log |-> <<>>,
        backups |-> <<@.log>> \o SubSeq(@.backups, 1 + Len(@.backups) - Len(Kept(@.backups)), Len(@.backups))]]

Rotated(d, name) == [d EXCEPT ![name] = [log |-> <<>>, backups |-> <<@.log>> \o Kept(@.backups)]]

-----------------------------------------------------------------------------
LogInit ==
    /\ settings \in Settings
    /\ buffers = [t \in Writer |-> <<>>]
    /\ logFile = TRUE
    /\ unflushed = <<>>
    /\ disk = [n \in Names |-> [log |-> <<>>, backups |-> <<>>]]
    /\ flushTimer = FALSE
    /\ stuck = FALSE
    /\ number = 0
    /\ written = [n \in Names |-> <<>>]

\* The ring buffer after a message: the oldest one is dropped when it is full.
Buffered(t, message) ==
    LET buffer == Append(buffers[t], message)
    IN  IF Len(buffer) > settings.bufferSize THEN Tail(buffer) ELSE buffer

\* Messages are written one after the other, each flushed if it is critical;
\* without a file they go to stderr.
LastCritical(messages) ==
    LET critical == {i \in DOMAIN messages : messages[i].type >= QtCriticalMsg}
    IN  IF critical = {} THEN 0 ELSE CHOOSE i \in critical : \A j \in critical : j <= i

WriteAll(messages) ==
    LET name == settings.fileName
        n == LastCritical(messages)
    IN  IF ~logFile THEN UNCHANGED <<disk, unflushed, written>>
        ELSE /\ written' = [written EXCEPT ![name] = @ \o messages]
             /\ disk' = IF n = 0 THEN disk
                        ELSE [disk EXCEPT ![name].log = @ \o unflushed \o SubSeq(messages, 1, n)]
             /\ unflushed' = IF n = 0 THEN unflushed \o messages
                             ELSE SubSeq(messages, n + 1, Len(messages))

\* What Logger::log writes: the buffer with the message, or the message alone.
Out(t, message) == IF settings.bufferSize > 0 THEN Buffered(t, message) ELSE <<message>>

\* The buffer afterwards.
Left(t, message) ==
    IF settings.bufferSize = 0 THEN buffers[t]
    ELSE IF message.type >= settings.minLevel THEN <<>> ELSE Buffered(t, message)

\* Logger::log, called by msgHandler or by the program itself (direct);
\* msgHandler ends the process after a fatal message.
Log(t, type, direct) ==
    /\ ~stuck /\ number < MaxMessages
    /\ direct \/ Installed
    /\ number' = number + 1
    /\ LET message == [n |-> number + 1, type |-> type]
       IN  /\ IF type >= settings.minLevel THEN WriteAll(Out(t, message))
              ELSE UNCHANGED <<disk, unflushed, written>>
           /\ buffers' = [buffers EXCEPT ![t] = Left(t, message)]
    /\ stuck' = (type = QtFatalMsg /\ ~direct)
    /\ UNCHANGED <<settings, logFile, flushTimer>>

\* A write fails: some of what was in memory has reached the disk, the file is
\* closed and the rest goes to stderr.  The warning about it is the message
\* that may lock the thread up.
LogFails(t, type, direct, reached) ==
    /\ ~stuck /\ number < MaxMessages
    /\ direct \/ Installed
    /\ "write" \in Failures /\ logFile /\ type >= settings.minLevel
    /\ LET name == settings.fileName
           message == [n |-> number + 1, type |-> type]
           lost == unflushed \o Out(t, message)
       IN  /\ reached < Len(lost)
           /\ disk' = [disk EXCEPT ![name].log = @ \o SubSeq(lost, 1, reached)]
           /\ written' = [written EXCEPT ![name] =
                    SubSeq(@, 1, Len(@) - Len(unflushed)) \o SubSeq(lost, 1, reached)]
           /\ buffers' = [buffers EXCEPT ![t] = Left(t, message)]
    /\ number' = number + 1
    /\ unflushed' = <<>>
    /\ logFile' = FALSE
    /\ stuck' = (Warned(direct) \/ (type = QtFatalMsg /\ ~direct))
    /\ UNCHANGED <<settings, flushTimer>>

\* Logger::clear for the buffer of the thread that calls it.
ClearBuffer(t) ==
    /\ ~stuck /\ buffers[t] # <<>>
    /\ buffers' = [buffers EXCEPT ![t] = <<>>]
    /\ UNCHANGED <<settings, logFile, unflushed, disk, flushTimer, stuck, number, written>>

-----------------------------------------------------------------------------
(* The timers, in the main thread.                                         *)

\* refreshSettings: a new file is opened when its name has changed.
RefreshSettings(s, ok) ==
    /\ ~stuck /\ ~flushTimer
    /\ s # settings
    /\ settings' = s
    /\ IF s.fileName = settings.fileName
       THEN ok /\ UNCHANGED <<logFile, unflushed, disk, stuck>>
       ELSE /\ disk' = IF logFile THEN Flushed(disk, settings.fileName) ELSE disk
            /\ unflushed' = <<>>
            /\ logFile' = ok
            /\ stuck' = Warned(~ok)
    /\ UNCHANGED <<buffers, flushTimer, number, written>>

\* The flush timer looks at the file before it locks the mutex.
TimerEvent ==
    /\ ~stuck /\ ~flushTimer /\ logFile
    /\ flushTimer' = TRUE
    /\ UNCHANGED <<settings, buffers, logFile, unflushed, disk, stuck, number, written>>

FileTooLarge(d) == settings.maxSize > 0 /\ Len(d[settings.fileName].log) >= settings.maxSize

FlushAndRotate(ok) ==
    /\ ~stuck /\ flushTimer
    /\ flushTimer' = FALSE
    /\ LET flushed == Flushed(disk, settings.fileName)
       IN  IF ~logFile
           THEN ok /\ stuck' = TRUE /\ UNCHANGED <<logFile, disk, unflushed>>
           ELSE /\ disk' = IF FileTooLarge(flushed) THEN Rotated(flushed, settings.fileName) ELSE flushed
                /\ unflushed' = <<>>
                /\ logFile' = ok
                /\ stuck' = Warned(~ok)
                /\ ok \/ FileTooLarge(flushed)
    /\ UNCHANGED <<settings, buffers, number, written>>

\* The process dies and is started again: buffers and memory are lost, some of
\* it may have reached the disk; the file is opened and continued.
Crash(kept, s, ok) ==
    /\ kept \in 0..Len(unflushed)
    /\ settings' = s
    /\ buffers' = [t \in Writer |-> <<>>]
    /\ disk' = [disk EXCEPT ![settings.fileName].log = @ \o SubSeq(unflushed, 1, kept)]
    /\ written' = [written EXCEPT ![settings.fileName] = SubSeq(@, 1, Len(@) - Len(unflushed) + kept)]
    /\ unflushed' = <<>>
    /\ flushTimer' = FALSE
    /\ logFile' = ok
    /\ stuck' = FALSE
    /\ UNCHANGED number

\* Bound: when all messages have been logged the log is archived and a new one begun.
Archive ==
    /\ ~stuck /\ number = MaxMessages
    /\ number' = 0
    /\ buffers' = [t \in Writer |-> <<>>]
    /\ disk' = [n \in Names |-> [log |-> <<>>, backups |-> <<>>]]
    /\ written' = [n \in Names |-> <<>>]
    /\ unflushed' = <<>>
    /\ UNCHANGED <<settings, logFile, flushTimer, stuck>>

LogNext ==
    \/ \E t \in Writer, type \in MessageTypes, direct \in BOOLEAN :
        \/ Log(t, type, direct)
        \/ \E reached \in 0..MaxMessages : LogFails(t, type, direct, reached)
    \/ \E t \in Writer : ClearBuffer(t)
    \/ \E s \in Settings, ok \in CanOpen : RefreshSettings(s, ok)
    \/ TimerEvent
    \/ \E ok \in CanOpen : FlushAndRotate(ok)
    \/ \E kept \in 0..Len(unflushed), s \in Settings, ok \in CanOpen : Crash(kept, s, ok)
    \/ Archive

LogSpec == LogInit /\ [][LogNext]_logVars

-----------------------------------------------------------------------------
(* Properties                                                              *)

LogTypeOK ==
    /\ settings \in Settings
    /\ \A n \in Names : settings.maxBackups > 0 => Len(disk[n].backups) <= settings.maxBackups
    /\ logFile \/ unflushed = <<>>

\* What text holds after its first messages.
Stands(piece, text, after) ==
    /\ after + Len(piece) <= Len(text)
    /\ \A k \in DOMAIN piece : piece[k] = text[after + k]

\* The log and its backups, newest first, are the end of text: cut[0] messages of
\* it come before the log, cut[i] before the i-th backup.
AreTheEnd(backups, log, text) ==
    \E cut \in [0..Len(backups) -> 0..(Len(text) - Len(log))] :
        /\ Stands(log, text, cut[0]) /\ cut[0] + Len(log) = Len(text)
        /\ \A i \in DOMAIN backups :
            Stands(backups[i], text, cut[i]) /\ cut[i] + Len(backups[i]) = cut[i - 1]

\* The file with what is still in memory.
TheLog(name) == disk[name].log \o (IF name = settings.fileName THEN unflushed ELSE <<>>)

\* The log has no holes: whatever was rotated away, changed by settings or lost
\* in a crash, what is left is the end of all that was written to that file,
\* nothing twice.
LogHasNoHoles ==
    \A name \in Names :
        /\ AreTheEnd(disk[name].backups, TheLog(name), written[name])
        /\ IsInjective(written[name])

-----------------------------------------------------------------------------
(* What it rests on: every message has a number of its own, and is in one  *)
(* place.                                                                  *)

Message == [n : Nat, type : MessageTypes]
Text == Seq(Message)

NoTwice(text) == \A i, j \in DOMAIN text : text[i].n = text[j].n => i = j
Apart(text, other) == \A i \in DOMAIN text, j \in DOMAIN other : text[i].n # other[j].n
UpTo(text, last) == \A i \in DOMAIN text : text[i].n <= last

EachOnce ==
    /\ \A t \in Writer :
        /\ UpTo(buffers[t], number) /\ NoTwice(buffers[t])
        /\ \A u \in Writer : u # t => Apart(buffers[t], buffers[u])
    /\ \A name \in Names :
        /\ UpTo(written[name], number) /\ NoTwice(written[name])
        /\ \A t \in Writer : Apart(buffers[t], written[name])

LogInv ==
    /\ settings \in Settings /\ number \in Nat
    /\ buffers \in [Writer -> Seq(Message)]
    /\ unflushed \in Seq(Message) /\ (logFile \/ unflushed = <<>>)
    /\ disk \in [Names -> [log : Seq(Message), backups : Seq(Text)]]
    /\ written \in [Names -> Seq(Message)]
    /\ EachOnce
    /\ \A name \in Names : AreTheEnd(disk[name].backups, TheLog(name), written[name])
=============================================================================
