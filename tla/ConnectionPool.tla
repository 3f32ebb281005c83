--------------------------- MODULE ConnectionPool ---------------------------
(***************************************************************************)
(* The HTTP server: HttpListener accepts connections in the main thread    *)
(* and hands each to a HttpConnectionHandler, a thread with an event loop; *)
(* HttpConnectionHandlerPool makes handlers on demand, gives idle ones new *)
(* connections and deletes those that stay idle.  The list of handlers is  *)
(* a set: the loops over it look at its members in any order.              *)
(***************************************************************************)
EXTENDS Integers, FiniteSets, Sequences

CONSTANTS
    Handler,      \* the HttpConnectionHandler objects
    Connection,   \* the connections clients make
    None,         \* no handler, no connection
    MinThreads,   \* setting: handlers that cleanup leaves idle
    MaxThreads,   \* setting: handlers in the pool at most
    MaxChunks     \* bound: chunks of input one client sends

ASSUME PoolAssumption ==
    /\ IsFiniteSet(Handler) /\ IsFiniteSet(Connection)
    /\ None \notin Handler \cup Connection
    /\ MinThreads \in Nat /\ MaxThreads \in Nat /\ MaxChunks \in Nat
    /\ Cardinality(Handler) >= MaxThreads

VARIABLES
    pool,      \* the handlers that exist
    main,      \* what the main thread is doing
    busy,      \* the flag of each handler; the main thread reads and sets it
    queued,    \* the calls of handleConnection in each handler's event queue
    handler,   \* what else each handler holds, seen by its own thread only
    peer       \* the clients

vars == <<pool, main, busy, queued, handler, peer>>

----------------------------------------------------------------------------
(* A piece of input that completes no request, completes one, or makes     *)
(* HttpRequest give up (too large, or a broken first line).                *)
Chunk == {"part", "last", "bad"}

\* The main thread: at its event loop; looking for an idle handler for
\* connection conn, `left` not yet looked at; posting conn to `who`; cleaning
\* up, `idle` idle ones seen; waiting for the thread of `who` to end, which
\* cleanup or close deletes; closed.
MainLoop == [at |-> "loop", left |-> {}, idle |-> 0, conn |-> None, who |-> None]

\* A handler: `pc` its thread is at, `then` where the slot disconnected()
\* returns to, the connection of its socket, whether readTimer runs, and the
\* clients whose input is in currentRequest.
NoHandler == [pc |-> "none", then |-> "loop", socket |-> None, timer |-> FALSE, request |-> {}]

NewHandler == [NoHandler EXCEPT !.pc = "loop"]

Init ==
    /\ pool = {}
    /\ main = MainLoop
    /\ busy = [h \in Handler |-> FALSE]
    /\ queued = [h \in Handler |-> <<>>]
    /\ handler = [h \in Handler |-> NoHandler]
    /\ peer = [c \in Connection |-> [state |-> "new", sent |-> 0, unread |-> <<>>]]

Gone(unread) == [state |-> "gone", sent |-> 0, unread |-> unread]

\* The server closes the connection of c, or loses its descriptor.
HangUp(c) == peer' = [peer EXCEPT ![c] = Gone(<<>>)]

----------------------------------------------------------------------------
(* The main thread: incomingConnection, and getConnectionHandler under it.  *)

Accept(c) ==
    /\ main.at = "loop"
    /\ peer[c].state = "new"
    /\ main' = [MainLoop EXCEPT !.at = "get", !.left = pool, !.conn = c]
    /\ peer' = [peer EXCEPT ![c].state = "open"]
    /\ UNCHANGED <<pool, busy, queued, handler>>

Passed(h) == main' = [main EXCEPT !.left = @ \ {h}]

Chosen(h) == main' = [main EXCEPT !.at = "post", !.left = {}, !.who = h]

LookFree(h) ==
    /\ main.at = "get" /\ h \in main.left
    /\ IF busy[h] THEN Passed(h) /\ UNCHANGED busy
                  ELSE Chosen(h) /\ busy' = [busy EXCEPT ![h] = TRUE]
    /\ UNCHANGED <<pool, queued, handler, peer>>

AllBusy == main.at = "get" /\ main.left = {}

\* Mutant: one handler more than maxThreads.
MutCreate(h) ==
    /\ AllBusy /\ Cardinality(pool) <= MaxThreads
    /\ h \notin pool
    /\ Chosen(h)
    /\ pool' = pool \cup {h}
    /\ handler' = [handler EXCEPT ![h] = NewHandler]
    /\ busy' = [busy EXCEPT ![h] = TRUE]
    /\ UNCHANGED <<queued, peer>>

Create(h) ==
    /\ AllBusy /\ Cardinality(pool) < MaxThreads
    /\ h \notin pool
    /\ Chosen(h)
    /\ pool' = pool \cup {h}
    /\ handler' = [handler EXCEPT ![h] = NewHandler]
    /\ busy' = [busy EXCEPT ![h] = TRUE]
    /\ UNCHANGED <<queued, peer>>

Refuse ==
    /\ AllBusy /\ Cardinality(pool) >= MaxThreads
    /\ main' = MainLoop
    /\ HangUp(main.conn)
    /\ UNCHANGED <<pool, busy, queued, handler>>

Post ==
    /\ main.at = "post"
    /\ queued' = [queued EXCEPT ![main.who] = Append(@, main.conn)]
    /\ main' = MainLoop
    /\ UNCHANGED <<pool, busy, handler, peer>>

----------------------------------------------------------------------------
(* The main thread: cleanup by the timer, close and listen.                 *)

Cleanup ==
    /\ main.at = "loop"
    /\ main' = [MainLoop EXCEPT !.at = "clean", !.left = pool]
    /\ UNCHANGED <<pool, busy, queued, handler, peer>>

\* Mutant: cleanup counts and deletes handlers in use, too.
MutLookIdleBusy(h) ==
    /\ main.at = "clean" /\ h \in main.left
    /\ main' = IF main.idle < MinThreads
               THEN [main EXCEPT !.left = @ \ {h}, !.idle = @ + 1]
               ELSE [MainLoop EXCEPT !.at = "remove", !.who = h]
    /\ UNCHANGED <<pool, busy, queued, handler, peer>>

\* Mutant: one idle handler less is kept.
MutLookIdleEarly(h) ==
    /\ main.at = "clean" /\ h \in main.left
    /\ main' = IF busy[h] THEN [main EXCEPT !.left = @ \ {h}]
               ELSE IF main.idle + 1 < MinThreads
                    THEN [main EXCEPT !.left = @ \ {h}, !.idle = @ + 1]
                    ELSE [MainLoop EXCEPT !.at = "remove", !.who = h]
    /\ UNCHANGED <<pool, busy, queued, handler, peer>>

\* Mutant: one idle handler more is kept.
MutLookIdleLate(h) ==
    /\ main.at = "clean" /\ h \in main.left
    /\ main' = IF busy[h] THEN [main EXCEPT !.left = @ \ {h}]
               ELSE IF main.idle <= MinThreads
                    THEN [main EXCEPT !.left = @ \ {h}, !.idle = @ + 1]
                    ELSE [MainLoop EXCEPT !.at = "remove", !.who = h]
    /\ UNCHANGED <<pool, busy, queued, handler, peer>>

\* The first idle handler beyond minThreads is deleted: the destructor asks
\* its event loop to quit and waits for the thread.
LookIdle(h) ==
    /\ main.at = "clean" /\ h \in main.left
    /\ main' = IF busy[h] THEN [main EXCEPT !.left = @ \ {h}]
               ELSE IF main.idle < MinThreads
                    THEN [main EXCEPT !.left = @ \ {h}, !.idle = @ + 1]
                    ELSE [MainLoop EXCEPT !.at = "remove", !.who = h]
    /\ UNCHANGED <<pool, busy, queued, handler, peer>>

CleanupDone ==
    /\ main.at = "clean" /\ main.left = {}
    /\ main' = MainLoop
    /\ UNCHANGED <<pool, busy, queued, handler, peer>>

Close ==
    /\ main.at = "loop"
    /\ main' = [MainLoop EXCEPT !.at = "close"]
    /\ UNCHANGED <<pool, busy, queued, handler, peer>>

DeleteNext(h) ==
    /\ main.at = "close" /\ h \in pool
    /\ main' = [main EXCEPT !.at = "destroy", !.who = h]
    /\ UNCHANGED <<pool, busy, queued, handler, peer>>

Closed ==
    /\ main.at = "close" /\ pool = {}
    /\ main' = [main EXCEPT !.at = "closed"]
    /\ UNCHANGED <<pool, busy, queued, handler, peer>>

Listen ==
    /\ main.at = "closed"
    /\ main' = MainLoop
    /\ UNCHANGED <<pool, busy, queued, handler, peer>>

\* Mutant: close() deletes one handler, as cleanup does.
MutDelete ==
    /\ main.at \in {"remove", "destroy"}
    /\ handler[main.who].pc = "ended"
    /\ pool' = pool \ {main.who}
    /\ handler' = [handler EXCEPT ![main.who] = NoHandler]
    /\ busy' = [busy EXCEPT ![main.who] = FALSE]
    /\ queued' = [queued EXCEPT ![main.who] = <<>>]
    /\ main' = MainLoop
    /\ UNCHANGED peer

\* wait() returns: the object goes, and the events queued for it.
Delete ==
    /\ main.at \in {"remove", "destroy"}
    /\ handler[main.who].pc = "ended"
    /\ pool' = pool \ {main.who}
    /\ handler' = [handler EXCEPT ![main.who] = NoHandler]
    /\ busy' = [busy EXCEPT ![main.who] = FALSE]
    /\ queued' = [queued EXCEPT ![main.who] = <<>>]
    /\ main' = IF main.at = "remove" THEN MainLoop ELSE [MainLoop EXCEPT !.at = "close"]
    /\ IF queued[main.who] = <<>> THEN UNCHANGED peer ELSE HangUp(Head(queued[main.who]))

----------------------------------------------------------------------------
(* A handler's thread: events taken from its event loop.                    *)

At(h, p) == handler[h].pc = p

Becomes(h, state) == handler' = [handler EXCEPT ![h] = state]

\* Mutant: the request of the previous connection is kept.
MutHandleConnectionKeep(h) ==
    /\ At(h, "loop") /\ queued[h] # <<>>
    /\ queued' = [queued EXCEPT ![h] = Tail(@)]
    /\ Becomes(h, [handler[h] EXCEPT !.socket = Head(queued[h]), !.timer = TRUE])
    /\ UNCHANGED <<pool, main, busy, peer>>

\* Mutant: the read timer is not started.
MutHandleConnectionNoTimer(h) ==
    /\ At(h, "loop") /\ queued[h] # <<>>
    /\ queued' = [queued EXCEPT ![h] = Tail(@)]
    /\ Becomes(h, [handler[h] EXCEPT !.socket = Head(queued[h]), !.request = {}])
    /\ UNCHANGED <<pool, main, busy, peer>>

\* handleConnection; the descriptor may turn out to be unusable.
HandleConnection(h) ==
    /\ At(h, "loop") /\ queued[h] # <<>>
    /\ queued' = [queued EXCEPT ![h] = Tail(@)]
    /\ busy' = [busy EXCEPT ![h] = TRUE]
    /\ \/ /\ Becomes(h, [handler[h] EXCEPT
                             !.socket = Head(queued[h]), !.timer = TRUE, !.request = {}])
          /\ UNCHANGED peer
       \/ HangUp(Head(queued[h])) /\ UNCHANGED handler
    /\ UNCHANGED <<pool, main>>

\* Mutant: disconnected() is called for a socket that is closed already, too.
MutDisconnect(state, then) ==
    [state EXCEPT !.pc = "disconnected", !.then = then]

\* disconnectFromHost, or the peer's closing, calls disconnected() at once; the
\* thread goes on at `then` afterwards.  A socket not connected emits nothing.
Disconnect(state, then) ==
    IF state.socket = None THEN [state EXCEPT !.pc = then]
                           ELSE [state EXCEPT !.pc = "disconnected", !.then = then]

PeerGone(h) ==
    /\ At(h, "loop") \/ At(h, "service")
    /\ handler[h].socket # None
    /\ peer[handler[h].socket].state = "gone"
    /\ Becomes(h, Disconnect(handler[h], handler[h].pc))
    /\ UNCHANGED <<pool, main, busy, queued, peer>>

ReadTimeout(h) ==
    /\ At(h, "loop") /\ handler[h].timer
    /\ Becomes(h, Disconnect([handler[h] EXCEPT !.timer = FALSE], "drop"))
    /\ UNCHANGED <<pool, main, busy, queued, peer>>

\* exec() returns once the destructor has called quit(); run() closes the
\* socket, which calls disconnected().
Quit(h) ==
    /\ At(h, "loop")
    /\ main.at \in {"remove", "destroy"} /\ main.who = h
    /\ Becomes(h, [handler[h] EXCEPT !.pc = "ended", !.socket = None, !.timer = FALSE])
    /\ IF handler[h].socket = None THEN UNCHANGED <<busy, peer>>
       ELSE HangUp(handler[h].socket) /\ busy' = [busy EXCEPT ![h] = FALSE]
    /\ UNCHANGED <<pool, main, queued>>

----------------------------------------------------------------------------
(* A handler's thread: read(), with disconnected() and the end of a request. *)

Input(h) == IF handler[h].socket = None THEN <<>> ELSE peer[handler[h].socket].unread

Read(h) ==
    /\ At(h, "loop") /\ Input(h) # <<>>
    /\ Becomes(h, [handler[h] EXCEPT !.pc = "read"])
    /\ UNCHANGED <<pool, main, busy, queued, peer>>

\* A body restarts the timer, which runs already.
ReadChunk(h) ==
    LET c     == handler[h].socket
        chunk == Head(Input(h))
        state == [handler[h] EXCEPT !.request = @ \cup {c}]
    IN
    /\ At(h, "read") /\ Input(h) # <<>>
    /\ peer' = [peer EXCEPT ![c].unread = Tail(@)]
    /\ \/ chunk = "part" /\ Becomes(h, state)
       \/ chunk = "last" /\ Becomes(h, [state EXCEPT !.pc = "service", !.timer = FALSE])
       \/ chunk = "bad"  /\ Becomes(h, Disconnect(state, "drop"))
    /\ UNCHANGED <<pool, main, busy, queued>>

ReadDone(h) ==
    /\ At(h, "read") /\ Input(h) = <<>>
    /\ Becomes(h, [handler[h] EXCEPT !.pc = "loop"])
    /\ UNCHANGED <<pool, main, busy, queued, peer>>

\* Mutant: the timer stays off after an answer.
MutKeepAlive(h) ==
    /\ At(h, "service")
    /\ Becomes(h, [handler[h] EXCEPT !.pc = "read", !.request = {}])
    /\ UNCHANGED <<pool, main, busy, queued, peer>>

\* service() has returned and the answer is out; keep or close.
KeepAlive(h) ==
    /\ At(h, "service")
    /\ Becomes(h, [handler[h] EXCEPT !.pc = "read", !.timer = TRUE, !.request = {}])
    /\ UNCHANGED <<pool, main, busy, queued, peer>>

EndConnection(h) ==
    /\ At(h, "service")
    /\ Becomes(h, Disconnect(handler[h], "drop"))
    /\ UNCHANGED <<pool, main, busy, queued, peer>>

\* disconnected() closes the socket and stops the timer, and then frees the handler.
CloseSocket(h) ==
    /\ At(h, "disconnected")
    /\ Becomes(h, [handler[h] EXCEPT !.pc = "free", !.socket = None, !.timer = FALSE])
    /\ HangUp(handler[h].socket)
    /\ UNCHANGED <<pool, main, busy, queued>>

Free(h) ==
    /\ At(h, "free")
    /\ busy' = [busy EXCEPT ![h] = FALSE]
    /\ Becomes(h, [handler[h] EXCEPT !.pc = handler[h].then, !.then = "loop"])
    /\ UNCHANGED <<pool, main, queued, peer>>

\* What read() and readTimeout() do after disconnectFromHost.
Drop(h) ==
    /\ At(h, "drop")
    /\ Becomes(h, [handler[h] EXCEPT !.pc = "loop", !.request = {}])
    /\ UNCHANGED <<pool, main, busy, queued, peer>>

----------------------------------------------------------------------------
(* The clients.                                                             *)

Send(c, chunk) ==
    /\ peer[c].state = "open" /\ peer[c].sent < MaxChunks
    /\ peer' = [peer EXCEPT ![c].sent = @ + 1, ![c].unread = Append(@, chunk)]
    /\ UNCHANGED <<pool, main, busy, queued, handler>>

Leave(c) ==
    /\ peer[c].state = "open"
    /\ peer' = [peer EXCEPT ![c] = Gone(@.unread)]
    /\ UNCHANGED <<pool, main, busy, queued, handler>>

----------------------------------------------------------------------------

MainStep ==
    \/ \E h \in Handler : LookFree(h) \/ Create(h) \/ LookIdle(h) \/ DeleteNext(h)
    \/ Refuse \/ Post \/ CleanupDone \/ Closed \/ Delete

Thread(h) ==
    \/ HandleConnection(h) \/ PeerGone(h) \/ ReadTimeout(h) \/ Quit(h)
    \/ Read(h) \/ ReadChunk(h) \/ ReadDone(h)
    \/ KeepAlive(h) \/ EndConnection(h)
    \/ CloseSocket(h) \/ Free(h) \/ Drop(h)

Next ==
    \/ MainStep \/ Cleanup \/ Close \/ Listen
    \/ \E h \in Handler : Thread(h)
    \/ \E c \in Connection : Accept(c) \/ Leave(c) \/ (\E chunk \in Chunk : Send(c, chunk))

Spec == Init /\ [][Next]_vars

\* Both event loops run, and so does the clean-up timer of the main thread.
FairSpec == Spec /\ WF_vars(MainStep) /\ WF_vars(Cleanup) /\ \A h \in Handler : WF_vars(Thread(h))
----------------------------------------------------------------------------
(* Properties.                                                              *)

MainState ==
    [at : {"loop", "get", "post", "clean", "remove", "close", "destroy", "closed"},
     left : SUBSET Handler, idle : 0..MinThreads,
     conn : Connection \cup {None}, who : Handler \cup {None}]

HandlerState ==
    [pc : {"none", "loop", "read", "service", "disconnected", "free", "drop", "ended"},
     then : {"loop", "service", "drop"},
     socket : Connection \cup {None}, timer : BOOLEAN, request : SUBSET Connection]

PeerState == [state : {"new", "open", "gone"}, sent : 0..MaxChunks, unread : Seq(Chunk)]

TypeOK ==
    /\ pool \subseteq Handler /\ Cardinality(pool) <= MaxThreads
    /\ main \in MainState /\ main.left \subseteq pool
    /\ busy \in [Handler -> BOOLEAN]
    /\ queued \in [Handler -> Seq(Connection)]
    /\ handler \in [Handler -> HandlerState]
    /\ peer \in [Connection -> PeerState]

\* The connections that have been given to a handler.
Posting(h) == main.at = "post" /\ main.who = h

InHand(h) == Len(queued[h]) + (IF handler[h].socket = None THEN 0 ELSE 1)
                            + (IF Posting(h) THEN 1 ELSE 0)

\* A handler has one connection at a time, from the moment the listener picks it
\* until its socket is closed, and is marked busy all along: the assertion that
\* handleConnection finds its socket closed never fails.
OneConnectionEach == \A h \in Handler : InHand(h) <= (IF busy[h] THEN 1 ELSE 0)

\* The request being read holds input of the present client only, although a
\* client that leaves in the middle of a request leaves it in currentRequest.
RequestFromOneClient ==
    \A h \in Handler :
        handler[h].socket # None => handler[h].request \subseteq {handler[h].socket}

\* A thread never waits for input without a read timeout: a client that says
\* nothing cannot keep it.
TimerArmed ==
    \A h \in Handler : At(h, "loop") /\ handler[h].socket # None => handler[h].timer

\* Cleanup deletes no handler that has a connection, or is about to get one,
\* although isBusy is read long before the thread has ended.
CleanupSparesUsed == main.at = "remove" => InHand(main.who) = 0

IdleHandlers == {h \in pool : ~ busy[h]}

\* Cleanup leaves minThreads idle handlers, whatever the threads did meanwhile.
MinimumKept ==
    [][main.at = "remove" /\ pool' # pool => Cardinality(IdleHandlers') >= MinThreads]_vars

\* Every connection given to a handler ends: the client leaves, is answered, or
\* the read timeout comes.
ConnectionsEnd == \A h \in Handler : InHand(h) > 0 ~> InHand(h) = 0

\* The timer of the pool brings the idle handlers down to minThreads.
PoolShrinks == Cardinality(IdleHandlers) > MinThreads ~> Cardinality(IdleHandlers) <= MinThreads

\* close() returns: every thread the main thread waits for ends.
CloseEnds == main.at = "close" ~> main.at = "closed"

\* "Returns true, if this handler is in use" (httpconnectionhandler.h:67, of isBusy).
BusyMeansInUse ==
    \A h \in Handler : At(h, "loop") /\ busy[h] => InHand(h) > 0
=============================================================================
