---------------------------- MODULE MCWebServer ----------------------------
(* The parts of QtWebApp, side by side: a behaviour is one of the pool of  *)
(* handlers, the sessions, the static files, the log or the service, which *)
(* share no state.                                                         *)
EXTENDS ConnectionPool, SessionStore, StaticFiles, FileLogger, QtService

CONSTANTS t1, t2, t3, x1, x2, x3

\* The handlers and the threads of the other parts; the connections, the
\* sessions and the paths.
MCHandlers == {t1, t2, t3}
MCThreads == {t1, t2}
MCConnections == {x1, x2, x3}
MCNames == {x1, x2}

\* The second version of a file is larger than the first.
MCSizes == <<1, 2>>

Setting(name, size, backups, level, buffer) ==
    [fileName |-> name, maxSize |-> size, maxBackups |-> backups, minLevel |-> level, bufferSize |-> buffer]
MCSettings == {Setting("a", 1, 2, 1, 1), Setting("a", 2, 2, 0, 0), Setting("b", 0, 2, 1, 2)}

MCFlagSets == {{"CanBeSuspended"}, {"CannotBeStopped"}}

VARIABLE part

partVars == <<vars, sessVars, fileVars, logVars, svcVars, part>>

WebInit ==
    /\ Init /\ SessInit /\ FileInit /\ LogInit /\ ServiceInit
    /\ part \in {"pool", "sessions", "files", "log", "service"}
    /\ part # "log" => settings = Setting("a", 1, 2, 1, 1)

WebNext ==
    /\ UNCHANGED part
    /\ \/ part = "pool" /\ Next /\ UNCHANGED <<sessVars, fileVars, logVars, svcVars>>
       \/ part = "sessions" /\ SessNext /\ UNCHANGED <<vars, fileVars, logVars, svcVars>>
       \/ part = "files" /\ FileNext /\ UNCHANGED <<vars, sessVars, logVars, svcVars>>
       \/ part = "log" /\ LogNext /\ UNCHANGED <<vars, sessVars, fileVars, svcVars>>
       \/ part = "service" /\ ServiceNext /\ UNCHANGED <<vars, sessVars, fileVars, logVars>>

WebSpec == WebInit /\ [][WebNext]_partVars

\* The threads of a part are alike, and so are the names.
MCSymmetry == Permutations(MCThreads) \cup Permutations(MCNames)

\* Every part is well typed; with it, the size of the pool, the cost of the
\* cache and the number of backups stay within the settings.
WebTypeOK == TypeOK /\ SessTypeOK /\ FileTypeOK /\ LogTypeOK /\ SvcTypeOK
=============================================================================
