------------------------ MODULE ConnectionPoolProofs ------------------------
(* Proofs about ConnectionPool: the types of its state, that handlers are  *)
(* never shared, mixed up or left without a timer, and what cleanup leaves. *)
EXTENDS ConnectionPool, FiniteSetTheorems, SequenceTheorems, TLAPS

-----------------------------------------------------------------------------
(* Type correctness.                                                       *)

\* What the main thread holds in its hands while it is not at its event loop.
MainHolds ==
    /\ main.at \in {"get", "post"} => main.conn \in Connection
    /\ main.at \in {"post", "remove", "destroy"} => main.who \in pool

TypeInv == TypeOK /\ MainHolds

\* The pool stays finite, and its size a number.
LEMMA PoolFinite ==
    ASSUME TypeOK
    PROVE  IsFiniteSet(pool) /\ Cardinality(pool) \in Nat
BY PoolAssumption, FS_Subset, FS_CardinalityType DEF TypeOK

\* The records a handler and the main thread start from.
LEMMA StartTypes ==
    /\ MainLoop \in MainState /\ MainLoop.left = {} /\ MainLoop.at = "loop"
    /\ NoHandler \in HandlerState /\ NewHandler \in HandlerState
<1>1. 0 \in 0..MinThreads
    BY PoolAssumption
<1>2. MainLoop \in MainState /\ MainLoop.left = {} /\ MainLoop.at = "loop"
    BY <1>1 DEF MainLoop, MainState
<1>3. NoHandler \in HandlerState
    BY DEF NoHandler, HandlerState
<1>4. NewHandler \in HandlerState
    BY <1>3 DEF NewHandler, HandlerState
<1> QED BY <1>2, <1>3, <1>4

\* A new state of one handler keeps the type of all.
LEMMA BecomesType ==
    ASSUME TypeOK, NEW h \in Handler, NEW state \in HandlerState, Becomes(h, state)
    PROVE  handler' \in [Handler -> HandlerState]
BY DEF TypeOK, Becomes

\* Disconnecting a handler's socket gives a state of a handler.
LEMMA DisconnectType ==
    ASSUME NEW state \in HandlerState, NEW then \in {"loop", "service", "drop"}
    PROVE  Disconnect(state, then) \in HandlerState
<1>1. [state EXCEPT !.pc = then] \in HandlerState
    BY DEF HandlerState
<1>2. [state EXCEPT !.pc = "disconnected", !.then = then] \in HandlerState
    BY DEF HandlerState
<1> QED BY <1>1, <1>2 DEF Disconnect

\* Closing a connection keeps the type of the clients.
LEMMA HangUpType ==
    ASSUME TypeOK, NEW c, HangUp(c)
    PROVE  peer' \in [Connection -> PeerState]
<1>1. Gone(<<>>) \in PeerState
    BY PoolAssumption DEF Gone, PeerState
<1> QED BY <1>1 DEF TypeOK, HangUp

\* Every step of the main thread keeps the types.
LEMMA MainType ==
    ASSUME TypeInv, MainStep \/ Cleanup \/ Close \/ Listen
    PROVE  TypeInv'
<1> USE DEF TypeInv
<1>1. ASSUME NEW h \in Handler, LookFree(h) PROVE TypeInv'
    <2>1. CASE busy[h]
        <3>0. main' = [main EXCEPT !.left = main.left \ {h}] /\ main.at = "get"
            BY <1>1, <2>1 DEF LookFree, Passed
        <3>1. main' \in MainState /\ main'.at = "get" /\ main'.conn = main.conn
              /\ main'.left \subseteq main.left
            BY <3>0 DEF TypeOK, MainState
        <3> QED BY <1>1, <2>1, <3>1 DEF LookFree, TypeOK, MainHolds
    <2>2. CASE ~ busy[h]
        <3>0. main' = [main EXCEPT !.at = "post", !.left = {}, !.who = h] /\ main.at = "get"
            BY <1>1, <2>2 DEF LookFree, Chosen
        <3>1. main' \in MainState /\ main'.at = "post" /\ main'.conn = main.conn
              /\ main'.left = {} /\ main'.who = h
            BY <3>0 DEF TypeOK, MainState
        <3>2. h \in pool /\ busy' \in [Handler -> BOOLEAN]
            BY <1>1, <2>2 DEF LookFree, TypeOK
        <3> QED BY <1>1, <2>2, <3>1, <3>2 DEF LookFree, TypeOK, MainHolds
    <2> QED BY <2>1, <2>2
<1>2. ASSUME NEW h \in Handler, Create(h) PROVE TypeInv'
    <2>1. Cardinality(pool') <= MaxThreads /\ pool' \subseteq Handler
        <3>1. Cardinality(pool) + 1 <= MaxThreads
            BY <1>2, PoolFinite, PoolAssumption DEF Create
        <3> QED BY <1>2, <3>1, PoolFinite, FS_AddElement DEF Create, TypeOK
    <2>2. main' \in MainState /\ main'.at = "post" /\ main'.conn = main.conn
          /\ main'.left = {} /\ main'.who = h
        BY <1>2 DEF Create, Chosen, TypeOK, MainState
    <2>3. handler' \in [Handler -> HandlerState] /\ busy' \in [Handler -> BOOLEAN]
        BY <1>2, StartTypes DEF Create, TypeOK
    <2> QED BY <1>2, <2>1, <2>2, <2>3 DEF TypeOK, MainHolds, Create, AllBusy
<1>3. ASSUME NEW h \in Handler, LookIdle(h) PROVE TypeInv'
    <2>1. /\ main' \in MainState /\ main'.left \subseteq main.left
          /\ main'.at \in {"clean", "remove"} /\ main'.at = "remove" => main'.who = h
        <3>1. CASE busy[h]
            <4>1. main' = [main EXCEPT !.left = main.left \ {h}] /\ main.at = "clean"
                BY <1>3, <3>1 DEF LookIdle
            <4> QED BY <4>1 DEF TypeOK, MainState
        <3>2. CASE ~ busy[h] /\ main.idle < MinThreads
            <4>1. main' = [main EXCEPT !.left = main.left \ {h}, !.idle = main.idle + 1]
                  /\ main.at = "clean"
                BY <1>3, <3>2 DEF LookIdle
            <4>2. main.idle + 1 \in 0..MinThreads
                BY <3>2, PoolAssumption DEF TypeOK, MainState
            <4> QED BY <4>1, <4>2 DEF TypeOK, MainState
        <3>3. CASE ~ busy[h] /\ ~ (main.idle < MinThreads)
            <4>1. main' = [MainLoop EXCEPT !.at = "remove", !.who = h]
                BY <1>3, <3>3 DEF LookIdle
            <4> QED BY <4>1, StartTypes DEF MainState
        <3> QED BY <3>1, <3>2, <3>3
    <2> QED BY <1>3, <2>1 DEF TypeOK, MainHolds, LookIdle
<1>4. ASSUME NEW h \in Handler, DeleteNext(h) PROVE TypeInv'
    <2>1. main' \in MainState /\ main'.left = main.left /\ main'.at = "destroy" /\ main'.who = h
        BY <1>4 DEF DeleteNext, TypeOK, MainState
    <2> QED BY <1>4, <2>1 DEF TypeOK, MainHolds, DeleteNext
<1>5. CASE Refuse
    BY <1>5, HangUpType, StartTypes DEF TypeOK, MainHolds, Refuse
<1>6. CASE Post
    <2>1. queued' \in [Handler -> Seq(Connection)]
        BY <1>6 DEF TypeOK, MainHolds, Post
    <2> QED BY <1>6, <2>1, StartTypes DEF TypeOK, MainHolds, Post
<1>7. CASE CleanupDone \/ Listen
    BY <1>7, StartTypes DEF TypeOK, MainHolds, CleanupDone, Listen
<1>8. CASE Cleanup
    <2>1. main' = [MainLoop EXCEPT !.at = "clean", !.left = pool] /\ pool \subseteq Handler
        BY <1>8 DEF Cleanup, TypeOK
    <2>2. main' \in MainState /\ main'.left = pool /\ main'.at = "clean"
        BY <2>1, StartTypes DEF MainState
    <2> QED BY <1>8, <2>2 DEF TypeOK, MainHolds, Cleanup
<1>9. CASE Close \/ Closed
    <2>1. main' \in MainState /\ main'.left \subseteq pool /\ main'.at \in {"close", "closed"}
        BY <1>9, StartTypes DEF Close, Closed, MainState, TypeOK
    <2> QED BY <1>9, <2>1 DEF TypeOK, MainHolds, Close, Closed
<1>10. CASE Delete
    <2>1. Cardinality(pool') <= MaxThreads /\ pool' \subseteq Handler
        <3>1. pool' = pool \ {main.who} /\ main.who \in pool
            BY <1>10 DEF Delete, MainHolds
        <3>2. Cardinality(pool') = Cardinality(pool) - 1
            BY <3>1, PoolFinite, FS_RemoveElement
        <3> QED BY <3>1, <3>2, PoolFinite, PoolAssumption DEF TypeOK
    <2>2. /\ queued' \in [Handler -> Seq(Connection)] /\ busy' \in [Handler -> BOOLEAN]
          /\ handler' \in [Handler -> HandlerState]
        <3>1. queued' = [queued EXCEPT ![main.who] = <<>>] /\ <<>> \in Seq(Connection)
            BY <1>10 DEF Delete
        <3>2. busy' = [busy EXCEPT ![main.who] = FALSE]
            BY <1>10 DEF Delete
        <3>3. handler' = [handler EXCEPT ![main.who] = NoHandler]
            BY <1>10 DEF Delete
        <3>4. queued' \in [Handler -> Seq(Connection)]
            BY <3>1 DEF TypeOK
        <3>5. busy' \in [Handler -> BOOLEAN]
            BY <3>2 DEF TypeOK
        <3> QED BY <3>3, <3>4, <3>5, StartTypes DEF TypeOK
    <2>3. peer' \in [Connection -> PeerState]
        BY <1>10, HangUpType DEF Delete, TypeOK
    <2>4. main' \in MainState /\ main'.left = {} /\ main'.at \in {"loop", "close"}
        BY <1>10, StartTypes DEF Delete, MainState
    <2> QED BY <2>1, <2>2, <2>3, <2>4 DEF TypeOK, MainHolds
<1> QED BY <1>1, <1>2, <1>3, <1>4, <1>5, <1>6, <1>7, <1>8, <1>9, <1>10 DEF MainStep

\* Every step of a handler's thread keeps the types.
LEMMA ThreadType ==
    ASSUME TypeInv, NEW h \in Handler, Thread(h)
    PROVE  TypeInv'
<1> USE DEF TypeInv
<1>0. handler[h] \in HandlerState /\ handler[h].socket \in Connection \cup {None}
    BY DEF TypeOK, HandlerState
<1>1. CASE HandleConnection(h)
    <2>1. Head(queued[h]) \in Connection /\ queued' \in [Handler -> Seq(Connection)]
          /\ busy' \in [Handler -> BOOLEAN]
        BY <1>1 DEF TypeOK, HandleConnection
    <2>2. [handler[h] EXCEPT !.socket = Head(queued[h]), !.timer = TRUE, !.request = {}]
              \in HandlerState
        BY <1>0, <2>1 DEF HandlerState
    <2>3. handler' \in [Handler -> HandlerState] /\ peer' \in [Connection -> PeerState]
        BY <1>1, <2>2, BecomesType, HangUpType DEF HandleConnection, TypeOK
    <2> QED BY <1>1, <2>1, <2>3 DEF TypeOK, MainHolds, HandleConnection
<1>2. CASE PeerGone(h)
    <2>1. handler' \in [Handler -> HandlerState]
        BY <1>0, <1>2, DisconnectType, BecomesType DEF PeerGone, At
    <2> QED BY <1>2, <2>1 DEF TypeOK, MainHolds, PeerGone
<1>3. CASE ReadTimeout(h)
    <2>1. [handler[h] EXCEPT !.timer = FALSE] \in HandlerState
        BY <1>0 DEF HandlerState
    <2>2. handler' \in [Handler -> HandlerState]
        BY <1>3, <2>1, DisconnectType, BecomesType DEF ReadTimeout
    <2> QED BY <1>3, <2>2 DEF TypeOK, MainHolds, ReadTimeout
<1>4. CASE Quit(h)
    <2>1. [handler[h] EXCEPT !.pc = "ended", !.socket = None, !.timer = FALSE] \in HandlerState
        BY <1>0 DEF HandlerState
    <2>2. handler' \in [Handler -> HandlerState]
        BY <1>4, <2>1, BecomesType DEF Quit
    <2>3. peer' \in [Connection -> PeerState] /\ busy' \in [Handler -> BOOLEAN]
        BY <1>4, HangUpType DEF Quit, TypeOK
    <2> QED BY <1>4, <2>2, <2>3 DEF TypeOK, MainHolds, Quit
<1>5. CASE ReadChunk(h)
    <2> DEFINE c == handler[h].socket
               state == [handler[h] EXCEPT !.request = @ \cup {c}]
    <2>1. c \in Connection
        BY <1>0, <1>5 DEF ReadChunk, Input
    <2>2. peer[c] \in PeerState /\ peer[c].unread \in Seq(Chunk) /\ peer[c].unread # <<>>
        BY <1>5, <2>1, PoolAssumption DEF ReadChunk, Input, TypeOK, PeerState
    <2>3. [peer[c] EXCEPT !.unread = Tail(@)] \in PeerState
        <3>1. Tail(peer[c].unread) \in Seq(Chunk)
            BY <2>2
        <3> QED BY <2>2, <3>1 DEF PeerState
    <2>4. peer' \in [Connection -> PeerState]
        BY <1>5, <2>1, <2>3 DEF ReadChunk, TypeOK
    <2>5. state \in HandlerState
        BY <1>0, <2>1 DEF HandlerState
    <2>6. [state EXCEPT !.pc = "service", !.timer = FALSE] \in HandlerState
        BY <2>5 DEF HandlerState
    <2>7. handler' \in [Handler -> HandlerState]
        BY <1>5, <2>5, <2>6, DisconnectType, BecomesType DEF ReadChunk
    <2> QED BY <1>5, <2>4, <2>7 DEF TypeOK, MainHolds, ReadChunk
<1>6. CASE Read(h) \/ ReadDone(h)
    <2>1. /\ [handler[h] EXCEPT !.pc = "read"] \in HandlerState
          /\ [handler[h] EXCEPT !.pc = "loop"] \in HandlerState
        BY <1>0 DEF HandlerState
    <2>2. handler' \in [Handler -> HandlerState]
        BY <1>6, <2>1, BecomesType DEF Read, ReadDone
    <2> QED BY <1>6, <2>2 DEF TypeOK, MainHolds, Read, ReadDone
<1>7. CASE KeepAlive(h) \/ Drop(h)
    <2>1. /\ [handler[h] EXCEPT !.pc = "read", !.timer = TRUE, !.request = {}] \in HandlerState
          /\ [handler[h] EXCEPT !.pc = "loop", !.request = {}] \in HandlerState
        BY <1>0 DEF HandlerState
    <2>2. handler' \in [Handler -> HandlerState]
        BY <1>7, <2>1, BecomesType DEF KeepAlive, Drop
    <2> QED BY <1>7, <2>2 DEF TypeOK, MainHolds, KeepAlive, Drop
<1>8. CASE EndConnection(h)
    <2>1. handler' \in [Handler -> HandlerState]
        BY <1>0, <1>8, DisconnectType, BecomesType DEF EndConnection
    <2> QED BY <1>8, <2>1 DEF TypeOK, MainHolds, EndConnection
<1>9. CASE CloseSocket(h)
    <2>1. [handler[h] EXCEPT !.pc = "free", !.socket = None, !.timer = FALSE] \in HandlerState
        BY <1>0 DEF HandlerState
    <2>2. handler' \in [Handler -> HandlerState]
        BY <1>9, <2>1, BecomesType DEF CloseSocket
    <2> QED BY <1>9, <2>2, HangUpType DEF TypeOK, MainHolds, CloseSocket
<1>10. CASE Free(h)
    <2>1. [handler[h] EXCEPT !.pc = handler[h].then, !.then = "loop"] \in HandlerState
        BY <1>0 DEF HandlerState
    <2>2. handler' \in [Handler -> HandlerState] /\ busy' \in [Handler -> BOOLEAN]
        BY <1>10, <2>1, BecomesType DEF Free, TypeOK
    <2> QED BY <1>10, <2>2 DEF TypeOK, MainHolds, Free
<1> QED BY <1>1, <1>2, <1>3, <1>4, <1>5, <1>6, <1>7, <1>8, <1>9, <1>10 DEF Thread

\* Every step of a client keeps the types.
LEMMA ClientType ==
    ASSUME TypeInv, NEW c \in Connection,
           Accept(c) \/ Leave(c) \/ (\E chunk \in Chunk : Send(c, chunk))
    PROVE  TypeInv'
<1> USE DEF TypeInv
<1>0. peer[c] \in PeerState
    BY DEF TypeOK
<1>1. CASE Accept(c)
    <2>1. main' \in MainState /\ main'.left = pool /\ main'.at = "get" /\ main'.conn = c
        BY <1>1, StartTypes DEF Accept, MainState, TypeOK
    <2>2. [peer[c] EXCEPT !.state = "open"] \in PeerState
        BY <1>0 DEF PeerState
    <2>3. peer' \in [Connection -> PeerState]
        BY <1>1, <2>2 DEF Accept, TypeOK
    <2> QED BY <1>1, <2>1, <2>3 DEF TypeOK, MainHolds, Accept
<1>2. CASE Leave(c)
    <2>1. Gone(peer[c].unread) \in PeerState
        BY <1>0, PoolAssumption DEF Gone, PeerState
    <2> QED BY <1>2, <2>1 DEF TypeOK, MainHolds, Leave
<1>3. ASSUME NEW chunk \in Chunk, Send(c, chunk) PROVE TypeInv'
    <2>1. [peer[c] EXCEPT !.sent = @ + 1, !.unread = Append(@, chunk)] \in PeerState
        <3>1. Append(peer[c].unread, chunk) \in Seq(Chunk)
            BY <1>0, <1>3 DEF PeerState
        <3>2. peer[c].sent + 1 \in 0..MaxChunks
            BY <1>0, <1>3, PoolAssumption DEF Send, PeerState
        <3> QED BY <1>0, <3>1, <3>2 DEF PeerState
    <2>2. peer' \in [Connection -> PeerState]
        BY <1>3, <2>1 DEF Send, TypeOK
    <2> QED BY <1>3, <2>2 DEF TypeOK, MainHolds, Send
<1> QED BY <1>1, <1>2, <1>3

LEMMA InitType == Init => TypeInv
<1> SUFFICES ASSUME Init PROVE TypeInv
    OBVIOUS
<1>1. Cardinality(pool) <= MaxThreads /\ pool \subseteq Handler
    BY PoolAssumption, FS_EmptySet DEF Init
<1>2. [state |-> "new", sent |-> 0, unread |-> <<>>] \in PeerState
    BY PoolAssumption DEF PeerState
<1> QED BY <1>1, <1>2, StartTypes DEF Init, TypeInv, TypeOK, MainHolds

LEMMA NextType == TypeInv /\ [Next]_vars => TypeInv'
<1> SUFFICES ASSUME TypeInv, [Next]_vars PROVE TypeInv'
    OBVIOUS
<1>1. CASE Next
    BY <1>1, MainType, ThreadType, ClientType DEF Next
<1>2. CASE UNCHANGED vars
    BY <1>2 DEF vars, TypeInv, TypeOK, MainHolds
<1> QED BY <1>1, <1>2

\* For any number of handlers and connections and any settings, the state is
\* well typed; in particular the pool never exceeds maxThreads.
THEOREM TypeCorrect == Spec => []TypeOK
<1>1. TypeInv => TypeOK
    BY DEF TypeInv
<1> QED BY <1>1, InitType, NextType, PTL DEF Spec

-----------------------------------------------------------------------------
(* One connection for a handler, from a client of its own, under a timer.  *)

\* What holds of each handler: at most one connection, and only for a busy one;
\* none for one outside the pool; disconnected() runs for an open socket, and when
\* it has closed it the handler has not been given another connection yet; the timer
\* runs whenever the thread waits for input or is about to.
HandlerInv(h) ==
    /\ InHand(h) <= (IF busy[h] THEN 1 ELSE 0)
    /\ h \notin pool => queued[h] = <<>>
    /\ At(h, "disconnected") => handler[h].socket # None
    /\ At(h, "free") => busy[h] /\ InHand(h) = 0
    /\ At(h, "drop") => handler[h].socket = None
    /\ At(h, "loop") \/ At(h, "read") => (handler[h].socket # None => handler[h].timer)
    /\ handler[h].socket # None => handler[h].request \subseteq {handler[h].socket}

\* Nobody but the main thread makes a free handler busy.
SparesIdle == main.at = "remove" => ~ busy[main.who]

PoolInv == TypeInv /\ SparesIdle /\ \A h \in Handler : HandlerInv(h)

\* The step leaves the share of handler h alone.
Same(h) ==
    /\ busy'[h] = busy[h] /\ queued'[h] = queued[h] /\ handler'[h] = handler[h]
    /\ Posting(h)' = Posting(h)
    /\ h \in pool => h \in pool'

LEMMA SameKept ==
    ASSUME NEW h \in Handler, HandlerInv(h), Same(h)
    PROVE  HandlerInv(h)'
<1>1. InHand(h)' = InHand(h)
    BY DEF Same, InHand
<1> QED BY <1>1 DEF Same, HandlerInv, At

\* A sum of three counts that is at most one.
LEMMA SumOfThree ==
    ASSUME NEW q \in Nat, NEW s \in {0, 1}, NEW p \in {0, 1}
    PROVE  /\ q + s + p \in Nat
           /\ q + s + p = 0 => q = 0 /\ s = 0 /\ p = 0
           /\ q + s + p <= 1 /\ s # 0 => q = 0 /\ p = 0
           /\ q + s + p <= 1 /\ p # 0 => q = 0 /\ s = 0
           /\ q + s + p <= 1 /\ q # 0 => q = 1 /\ s = 0 /\ p = 0
OBVIOUS

\* What a handler without, and with, a connection has queued.
LEMMA InHandCounts ==
    ASSUME TypeOK, NEW h \in Handler
    PROVE  /\ Len(queued[h]) \in Nat /\ InHand(h) \in Nat
           /\ queued[h] = <<>> <=> Len(queued[h]) = 0
           /\ InHand(h) = 0 => Len(queued[h]) = 0 /\ handler[h].socket = None /\ ~ Posting(h)
           /\ InHand(h) <= 1 /\ handler[h].socket # None => Len(queued[h]) = 0 /\ ~ Posting(h)
           /\ InHand(h) <= 1 /\ Posting(h) => Len(queued[h]) = 0 /\ handler[h].socket = None
           /\ InHand(h) <= 1 /\ queued[h] # <<>> => Len(queued[h]) = 1 /\ handler[h].socket = None
                                                    /\ ~ Posting(h)
<1>1. queued[h] \in Seq(Connection)
    BY DEF TypeOK
<1>2. Len(queued[h]) \in Nat /\ (queued[h] = <<>> <=> Len(queued[h]) = 0)
    BY <1>1
<1> DEFINE q == Len(queued[h])
           open == IF handler[h].socket = None THEN 0 ELSE 1
           posting == IF Posting(h) THEN 1 ELSE 0
           n == InHand(h)
<1>3. open \in {0, 1} /\ (open = 0 <=> handler[h].socket = None)
    OBVIOUS
<1>4. posting \in {0, 1} /\ (posting = 0 <=> ~ Posting(h))
    BY DEF Posting
<1>5. n = q + open + posting /\ q \in Nat
    BY <1>2 DEF InHand
<1> HIDE DEF q, open, posting, n
<1>6. /\ n \in Nat
      /\ n = 0 => q = 0 /\ open = 0 /\ posting = 0
      /\ n <= 1 /\ open # 0 => q = 0 /\ posting = 0
      /\ n <= 1 /\ posting # 0 => q = 0 /\ open = 0
      /\ n <= 1 /\ q # 0 => q = 1 /\ open = 0 /\ posting = 0
    BY <1>3, <1>4, <1>5, SumOfThree
<1> QED BY <1>2, <1>3, <1>4, <1>6 DEF q, n

\* A handler's connections after a step, when they are one of the three.
LEMMA InHandAfter ==
    ASSUME NEW h \in Handler, Len(queued[h])' \in Nat
    PROVE  /\ Len(queued[h])' = 0 /\ handler'[h].socket = None =>
                  InHand(h)' = IF Posting(h)' THEN 1 ELSE 0
           /\ ~ Posting(h)' /\ handler'[h].socket = None => InHand(h)' = Len(queued[h])'
           /\ ~ Posting(h)' /\ Len(queued[h])' = 0 =>
                  InHand(h)' = IF handler'[h].socket = None THEN 0 ELSE 1
<1> DEFINE q == Len(queued[h])'
           open == IF handler'[h].socket = None THEN 0 ELSE 1
           posting == IF Posting(h)' THEN 1 ELSE 0
           n == InHand(h)'
<1>1. n = q + open + posting
    BY DEF InHand
<1>2. open \in {0, 1} /\ (handler'[h].socket = None => open = 0)
    OBVIOUS
<1>3. posting \in {0, 1} /\ (~ Posting(h)' => posting = 0)
    BY DEF Posting
<1>4. q \in Nat
    OBVIOUS
<1> SUFFICES /\ q = 0 /\ open = 0 => n = posting
             /\ posting = 0 /\ open = 0 => n = q
             /\ posting = 0 /\ q = 0 => n = open
    BY <1>2, <1>3
<1> HIDE DEF q, open, posting, n
<1> QED BY <1>1, <1>2, <1>3, <1>4

\* Every step of the main thread keeps the invariant.
LEMMA MainInv ==
    ASSUME PoolInv, MainStep \/ Cleanup \/ Close \/ Listen
    PROVE  SparesIdle' /\ \A h \in Handler : HandlerInv(h)'
<1> USE DEF PoolInv, TypeInv
<1>0. main \in MainState
    BY DEF TypeOK
<1>1. ASSUME NEW h \in Handler, LookFree(h) PROVE SparesIdle' /\ \A g \in Handler : HandlerInv(g)'
    <2>1. CASE busy[h]
        <3>1. main' = [main EXCEPT !.left = main.left \ {h}] /\ main.at = "get"
              /\ UNCHANGED <<pool, busy, queued, handler>>
            BY <1>1, <2>1 DEF LookFree, Passed
        <3>2. main'.at = "get"
            BY <1>0, <3>1 DEF MainState
        <3>3. \A g \in Handler : Same(g)
            BY <3>1, <3>2 DEF Same, Posting
        <3> QED BY <3>2, <3>3, SameKept DEF SparesIdle
    <2>2. CASE ~ busy[h]
        <3>1. main' = [main EXCEPT !.at = "post", !.left = {}, !.who = h] /\ main.at = "get"
              /\ busy' = [busy EXCEPT ![h] = TRUE] /\ UNCHANGED <<pool, queued, handler>>
            BY <1>1, <2>2 DEF LookFree, Chosen
        <3>2. main'.at = "post" /\ main'.who = h
            BY <1>0, <3>1 DEF MainState
        <3>3. ASSUME NEW g \in Handler, g # h PROVE HandlerInv(g)'
            <4>1. Same(g)
                BY <3>1, <3>2, <3>3 DEF Same, Posting, TypeOK
            <4> QED BY <4>1, SameKept
        <3>4. HandlerInv(h)'
            <4>1. InHand(h) = 0 /\ HandlerInv(h) /\ busy'[h]
                BY <2>2, <3>1, InHandCounts DEF HandlerInv, TypeOK
            <4>2. InHand(h)' = 1
                <5>1. Len(queued[h])' = 0 /\ handler'[h].socket = None /\ Posting(h)'
                    BY <3>1, <3>2, <4>1, InHandCounts DEF Posting
                <5> QED BY <5>1, InHandAfter
            <4>3. ~ At(h, "free")
                BY <2>2, <4>1 DEF HandlerInv
            <4> QED BY <3>1, <4>1, <4>2, <4>3 DEF HandlerInv, At
        <3> QED BY <3>2, <3>3, <3>4 DEF SparesIdle
    <2> QED BY <2>1, <2>2
<1>2. ASSUME NEW h \in Handler, Create(h) PROVE SparesIdle' /\ \A g \in Handler : HandlerInv(g)'
    <2>1. /\ main' = [main EXCEPT !.at = "post", !.left = {}, !.who = h] /\ main.at = "get"
          /\ busy' = [busy EXCEPT ![h] = TRUE] /\ UNCHANGED queued
          /\ handler' = [handler EXCEPT ![h] = NewHandler]
          /\ h \notin pool /\ pool' = pool \cup {h}
        BY <1>2 DEF Create, AllBusy, Chosen
    <2>2. main'.at = "post" /\ main'.who = h
        BY <1>0, <2>1 DEF MainState
    <2>3. ASSUME NEW g \in Handler, g # h PROVE HandlerInv(g)'
        <3>1. Same(g)
            BY <2>1, <2>2, <2>3 DEF Same, Posting, TypeOK
        <3> QED BY <3>1, SameKept
    <2>4. HandlerInv(h)'
        <3>1. Len(queued[h]) = 0 /\ busy'[h] /\ handler'[h] = NewHandler
            BY <2>1, InHandCounts DEF HandlerInv, TypeOK
        <3>2. NewHandler.pc = "loop" /\ NewHandler.socket = None
            BY DEF NewHandler, NoHandler
        <3>3. InHand(h)' = 1
            BY <2>1, <2>2, <3>1, <3>2 DEF InHand, Posting
        <3> QED BY <2>1, <3>1, <3>2, <3>3 DEF HandlerInv, At
    <2> QED BY <2>2, <2>3, <2>4 DEF SparesIdle
<1>3. ASSUME NEW h \in Handler, LookIdle(h) PROVE SparesIdle' /\ \A g \in Handler : HandlerInv(g)'
    <2>1. main'.at # "post" /\ (main'.at = "remove" => main'.who = h /\ ~ busy[h])
        <3>1. CASE busy[h] \/ main.idle < MinThreads
            BY <1>0, <1>3, <3>1 DEF LookIdle, MainState
        <3>2. CASE ~ busy[h] /\ ~ (main.idle < MinThreads)
            BY <1>3, <3>2 DEF LookIdle, MainLoop
        <3> QED BY <3>1, <3>2
    <2>2. \A g \in Handler : Same(g)
        BY <1>3, <2>1 DEF LookIdle, Same, Posting
    <2> QED BY <1>3, <2>1, <2>2, SameKept DEF LookIdle, SparesIdle
<1>4. CASE Post
    <2>1. main' = MainLoop /\ main.who \in Handler /\ main.at = "post" /\ main.conn \in Connection
          /\ queued' = [queued EXCEPT ![main.who] = Append(@, main.conn)]
          /\ UNCHANGED <<pool, busy, handler>>
        BY <1>4 DEF Post, MainHolds, TypeOK
    <2>2. main'.at = "loop"
        BY <2>1, StartTypes
    <2>3. ASSUME NEW g \in Handler, g # main.who PROVE HandlerInv(g)'
        <3>1. Same(g)
            BY <2>1, <2>2, <2>3 DEF Same, Posting, TypeOK
        <3> QED BY <3>1, SameKept
    <2>4. ASSUME NEW h \in Handler, h = main.who PROVE HandlerInv(h)'
        <3>0. HandlerInv(h) /\ h \in pool /\ Posting(h)
            BY <1>4, <2>1, <2>4 DEF Post, MainHolds, Posting
        <3>1. InHand(h) = 1 /\ Len(queued[h]) = 0 /\ handler[h].socket = None /\ busy[h]
            <4>1. InHand(h) <= 1 /\ (InHand(h) = 1 => busy[h]) /\ InHand(h) \in Nat
                BY <3>0, InHandCounts DEF HandlerInv, TypeOK
            <4> QED BY <3>0, <4>1, InHandCounts
        <3>2. queued'[h] = Append(queued[h], main.conn) /\ queued[h] \in Seq(Connection)
            BY <2>1, <2>4 DEF TypeOK
        <3>3. Len(queued'[h]) = 1
            BY <2>1, <3>1, <3>2
        <3>4. InHand(h)' = 1 /\ ~ At(h, "free")
            BY <2>1, <2>2, <3>0, <3>1, <3>3 DEF InHand, Posting, HandlerInv
        <3> QED BY <2>1, <3>0, <3>1, <3>4 DEF HandlerInv, At
    <2> QED BY <2>2, <2>3, <2>4 DEF SparesIdle
<1>5. CASE Delete
    <2>1. /\ main.who \in pool /\ main.who \in Handler
          /\ queued' = [queued EXCEPT ![main.who] = <<>>]
          /\ busy' = [busy EXCEPT ![main.who] = FALSE]
          /\ handler' = [handler EXCEPT ![main.who] = NoHandler]
          /\ pool' = pool \ {main.who} /\ main.at \in {"remove", "destroy"}
        BY <1>5 DEF Delete, MainHolds, TypeOK
    <2>2. main'.at \in {"loop", "close"}
        BY <1>5, StartTypes DEF Delete, MainState
    <2>3. ASSUME NEW g \in Handler, g # main.who PROVE HandlerInv(g)'
        <3>1. Same(g)
            BY <2>1, <2>2, <2>3 DEF Same, Posting, TypeOK
        <3> QED BY <3>1, SameKept
    <2>4. ASSUME NEW h \in Handler, h = main.who PROVE HandlerInv(h)'
        <3>1. queued'[h] = <<>> /\ handler'[h] = NoHandler /\ ~ Posting(h)'
            BY <2>1, <2>2, <2>4 DEF TypeOK, Posting
        <3>2. Len(queued[h])' = 0 /\ NoHandler.socket = None /\ NoHandler.pc = "none"
            BY <3>1 DEF NoHandler
        <3>3. InHand(h)' = 0
            BY <3>1, <3>2, InHandAfter
        <3>4. (InHand(h) <= (IF busy[h] THEN 1 ELSE 0))'
            BY <3>3
        <3> QED BY <3>1, <3>2, <3>4 DEF HandlerInv, At
    <2> QED BY <2>2, <2>3, <2>4 DEF SparesIdle
<1>6. CASE Refuse \/ CleanupDone \/ Closed \/ Cleanup \/ Close \/ Listen
           \/ \E h \in Handler : DeleteNext(h)
    <2>1. main'.at \notin {"post", "remove"} /\ main.at # "post"
        BY <1>0, <1>6, StartTypes DEF Refuse, AllBusy, CleanupDone, Closed, Cleanup, Close, Listen,
                                      DeleteNext, MainState
    <2>2. UNCHANGED <<pool, busy, queued, handler>>
        BY <1>6 DEF Refuse, CleanupDone, Closed, Cleanup, Close, Listen, DeleteNext
    <2>3. \A g \in Handler : Same(g)
        BY <2>1, <2>2 DEF Same, Posting
    <2> QED BY <2>1, <2>3, SameKept DEF SparesIdle
<1> QED BY <1>1, <1>2, <1>3, <1>4, <1>5, <1>6 DEF MainStep

\* A step of thread h leaves the main thread and the other handlers alone.
LEMMA OthersKept ==
    ASSUME TypeOK, NEW h \in Handler, Thread(h)
    PROVE  /\ UNCHANGED <<pool, main>>
           /\ \A g \in Handler \ {h} : Same(g)
<1> USE DEF Same, Posting, TypeOK, Becomes
<1>1. CASE HandleConnection(h) \/ PeerGone(h) \/ ReadTimeout(h)
    BY <1>1 DEF HandleConnection, PeerGone, ReadTimeout
<1>2. CASE Quit(h) \/ Free(h) \/ CloseSocket(h)
    BY <1>2 DEF Quit, Free, CloseSocket
<1>3. CASE Read(h) \/ ReadDone(h) \/ KeepAlive(h) \/ EndConnection(h) \/ Drop(h)
    BY <1>3 DEF Read, ReadDone, KeepAlive, EndConnection, Drop
<1>4. CASE ReadChunk(h)
    BY <1>4 DEF ReadChunk
<1> QED BY <1>1, <1>2, <1>3, <1>4 DEF Thread

\* disconnectFromHost keeps the invariant of a handler that reads or has served.
LEMMA DisconnectKept ==
    ASSUME TypeOK, NEW h \in Handler, HandlerInv(h), NEW state \in HandlerState,
           NEW then \in {"loop", "service", "drop"},
           state.socket = handler[h].socket,
           state.socket # None => state.request \subseteq {state.socket},
           then = "loop" => state.socket # None,
           Becomes(h, Disconnect(state, then)), UNCHANGED <<pool, main, busy, queued>>
    PROVE  HandlerInv(h)'
<1>1. handler'[h] = Disconnect(state, then)
    BY DEF Becomes, TypeOK
<1>2. InHand(h)' = InHand(h)
    <2>1. Disconnect(state, then).socket = state.socket
        BY DEF Disconnect, HandlerState
    <2> QED BY <1>1, <2>1 DEF InHand, Posting
<1>3. CASE state.socket = None
    <2>1. Disconnect(state, then) = [state EXCEPT !.pc = then]
        BY <1>3 DEF Disconnect
    <2>2. handler'[h].pc \in {"service", "drop"} /\ handler'[h].socket = None
        BY <1>1, <1>3, <2>1 DEF HandlerState
    <2> QED BY <1>2, <2>2 DEF HandlerInv, At
<1>4. CASE state.socket # None
    <2>1. Disconnect(state, then) = [state EXCEPT !.pc = "disconnected", !.then = then]
        BY <1>4 DEF Disconnect
    <2>2. handler'[h].pc = "disconnected" /\ handler'[h].socket = state.socket
          /\ handler'[h].request = state.request
        BY <1>1, <2>1 DEF HandlerState
    <2> QED BY <1>2, <1>4, <2>2 DEF HandlerInv, At
<1> QED BY <1>3, <1>4

\* Every step of a handler's thread keeps the invariant.
LEMMA ThreadInv ==
    ASSUME PoolInv, NEW h \in Handler, Thread(h)
    PROVE  SparesIdle' /\ \A g \in Handler : HandlerInv(g)'
<1> USE DEF PoolInv, TypeInv
<1>0. /\ handler[h] \in HandlerState /\ HandlerInv(h) /\ busy[h] \in BOOLEAN
      /\ Len(queued[h]) \in Nat /\ InHand(h) \in Nat
    BY InHandCounts DEF TypeOK
<1>1. UNCHANGED <<pool, main>> /\ \A g \in Handler \ {h} : HandlerInv(g)'
    BY OthersKept, SameKept
<1>2. SUFFICES HandlerInv(h)' /\ (main.at = "remove" /\ main.who = h => busy'[h] = busy[h] \/ ~ busy'[h])
    <2>1. main.at = "remove" => main.who \in Handler
        BY DEF MainHolds, TypeOK
    <2>2. \A g \in Handler \ {h} : busy'[g] = busy[g]
        BY OthersKept DEF Same
    <2> QED BY <1>1, <1>2, <2>1, <2>2 DEF SparesIdle
<1>3. CASE HandleConnection(h)
    <2>1. Len(queued[h]) = 1 /\ handler[h].socket = None /\ ~ Posting(h) /\ busy[h]
        BY <1>0, <1>3, InHandCounts DEF HandleConnection, HandlerInv
    <2>2. queued'[h] = Tail(queued[h]) /\ busy'[h] /\ queued[h] \in Seq(Connection)
        BY <1>3 DEF HandleConnection, TypeOK
    <2>3. Len(queued[h])' = 0 /\ ~ Posting(h)' /\ queued'[h] = <<>>
        <3>1. ~ Posting(h)'
            BY <1>1, <2>1 DEF Posting
        <3>2. Len(Tail(queued[h])) = 0 /\ Tail(queued[h]) \in Seq(Connection)
            BY <1>3, <2>1, <2>2, HeadTailProperties DEF HandleConnection
        <3>3. Tail(queued[h]) = <<>>
            BY <3>2, EmptySeq
        <3> QED BY <2>2, <3>1, <3>2, <3>3
    <2>4. (InHand(h) <= (IF busy[h] THEN 1 ELSE 0))'
        BY <2>2, <2>3, InHandAfter
    <2>5. CASE UNCHANGED handler
        BY <1>0, <1>3, <2>1, <2>2, <2>3, <2>4, <2>5 DEF HandlerInv, At, HandleConnection
    <2>6. CASE Becomes(h, [handler[h] EXCEPT !.socket = Head(queued[h]), !.timer = TRUE, !.request = {}])
        <3>1. handler'[h].pc = "loop" /\ handler'[h].timer /\ handler'[h].request = {}
            BY <1>0, <1>3, <2>6 DEF Becomes, TypeOK, HandlerState, HandleConnection, At
        <3> QED BY <2>1, <2>2, <2>3, <2>4, <3>1 DEF HandlerInv, At
    <2> QED BY <1>3, <2>1, <2>2, <2>5, <2>6 DEF HandleConnection
<1>4. CASE PeerGone(h)
    BY <1>0, <1>4, DisconnectKept DEF PeerGone, At, HandlerInv
<1>5. CASE ReadTimeout(h)
    <2> DEFINE state == [handler[h] EXCEPT !.timer = FALSE]
    <2>1. state \in HandlerState /\ state.socket = handler[h].socket
          /\ state.request = handler[h].request
        BY <1>0 DEF HandlerState
    <2> HIDE DEF state
    <2>2. Becomes(h, Disconnect(state, "drop")) /\ UNCHANGED <<pool, main, busy, queued>>
        BY <1>5 DEF ReadTimeout, state
    <2> QED BY <1>0, <2>1, <2>2, DisconnectKept DEF HandlerInv
<1>6. CASE EndConnection(h)
    BY <1>0, <1>6, DisconnectKept DEF EndConnection, HandlerInv
<1>7. CASE Quit(h)
    <2>1. handler'[h].pc = "ended" /\ handler'[h].socket = None /\ UNCHANGED queued
        BY <1>0, <1>7 DEF Quit, Becomes, TypeOK, HandlerState
    <2>2. ~ Posting(h) /\ ~ Posting(h)'
        BY <1>1, <1>7 DEF Quit, Posting
    <2>3. InHand(h)' = Len(queued[h])
        BY <1>0, <2>1, <2>2, InHandAfter
    <2>4. (InHand(h) <= (IF busy[h] THEN 1 ELSE 0))'
        <3>1. CASE handler[h].socket = None
            <4>1. busy' = busy
                BY <1>7, <3>1 DEF Quit
            <4>2. InHand(h)' = InHand(h)
                BY <1>1, <2>1, <3>1 DEF InHand, Posting
            <4> QED BY <1>0, <4>1, <4>2 DEF HandlerInv
        <3>2. CASE handler[h].socket # None
            <4>1. Len(queued[h]) = 0
                BY <1>0, <3>2, InHandCounts DEF HandlerInv
            <4> QED BY <2>3, <4>1
        <3> QED BY <3>1, <3>2
    <2>5. busy'[h] = busy[h] \/ ~ busy'[h]
        BY <1>7 DEF Quit, TypeOK
    <2> QED BY <1>0, <1>1, <2>1, <2>4, <2>5 DEF HandlerInv, At
<1>8. CASE ReadChunk(h)
    <2> DEFINE c == handler[h].socket
               state == [handler[h] EXCEPT !.request = @ \cup {c}]
    <2>1. c \in Connection /\ c # None
        BY <1>0, <1>8, PoolAssumption DEF ReadChunk, Input, HandlerState
    <2>2. state \in HandlerState /\ state.socket = c /\ state.pc = "read"
          /\ state.request = handler[h].request \cup {c} /\ state.timer = handler[h].timer
        BY <1>0, <1>8, <2>1 DEF HandlerState, ReadChunk, At
    <2>3. state.request \subseteq {c}
        BY <1>0, <2>1, <2>2 DEF HandlerInv
    <2>4. /\ \/ Becomes(h, state)
             \/ Becomes(h, [state EXCEPT !.pc = "service", !.timer = FALSE])
             \/ Becomes(h, Disconnect(state, "drop"))
          /\ UNCHANGED <<pool, main, busy, queued>> /\ At(h, "read")
        BY <1>8 DEF ReadChunk
    <2> HIDE DEF state
    <2>5. CASE Becomes(h, Disconnect(state, "drop"))
        BY <1>0, <2>2, <2>3, <2>4, <2>5, DisconnectKept
    <2>6. CASE Becomes(h, state) \/ Becomes(h, [state EXCEPT !.pc = "service", !.timer = FALSE])
        <3>1. /\ handler'[h].socket = c /\ handler'[h].request = state.request
              /\ \/ handler'[h].pc = "service"
                 \/ handler'[h].pc = "read" /\ handler'[h].timer = handler[h].timer
            <4>1. CASE Becomes(h, state)
                BY <2>2, <4>1 DEF Becomes, TypeOK
            <4>2. CASE Becomes(h, [state EXCEPT !.pc = "service", !.timer = FALSE])
                BY <2>2, <4>2 DEF Becomes, TypeOK, HandlerState
            <4> QED BY <2>6, <4>1, <4>2
        <3>2. InHand(h)' = InHand(h)
            BY <2>4, <3>1 DEF InHand, Posting
        <3> QED BY <1>0, <2>1, <2>3, <2>4, <3>1, <3>2 DEF HandlerInv, At
    <2> QED BY <2>4, <2>5, <2>6
<1>9. CASE Read(h) \/ ReadDone(h)
    <2>1. /\ UNCHANGED <<pool, main, busy, queued>> /\ (At(h, "loop") \/ At(h, "read"))
          /\ handler'[h].pc \in {"loop", "read"} /\ handler'[h].socket = handler[h].socket
          /\ handler'[h].timer = handler[h].timer /\ handler'[h].request = handler[h].request
        BY <1>0, <1>9 DEF Read, ReadDone, Becomes, TypeOK, HandlerState
    <2>2. InHand(h)' = InHand(h)
        BY <2>1 DEF InHand, Posting
    <2> QED BY <1>0, <2>1, <2>2 DEF HandlerInv, At
<1>10. CASE KeepAlive(h) \/ Drop(h)
    <2>1. /\ UNCHANGED <<pool, main, busy, queued>>
          /\ handler'[h].pc \in {"loop", "read"} /\ handler'[h].socket = handler[h].socket
          /\ handler'[h].timer \/ handler'[h].socket = None
          /\ handler'[h].request = {}
        <3>1. CASE KeepAlive(h)
            BY <1>0, <3>1 DEF KeepAlive, Becomes, TypeOK, HandlerState
        <3>2. CASE Drop(h)
            BY <1>0, <3>2 DEF Drop, Becomes, TypeOK, HandlerState, HandlerInv
        <3> QED BY <1>10, <3>1, <3>2
    <2>2. InHand(h)' = InHand(h)
        BY <2>1 DEF InHand, Posting
    <2> QED BY <1>0, <2>1, <2>2 DEF HandlerInv, At
<1>11. CASE CloseSocket(h)
    <2>1. /\ UNCHANGED <<pool, main, busy, queued>> /\ handler[h].socket # None
          /\ handler'[h].pc = "free" /\ handler'[h].socket = None
        BY <1>0, <1>11 DEF CloseSocket, Becomes, TypeOK, HandlerState, HandlerInv
    <2>2. Len(queued[h]) = 0 /\ ~ Posting(h) /\ busy[h]
        BY <1>0, <2>1, InHandCounts DEF HandlerInv
    <2>3. InHand(h)' = 0
        BY <2>1, <2>2, InHandAfter DEF Posting
    <2> QED BY <1>0, <2>1, <2>2, <2>3 DEF HandlerInv, At
<1>12. CASE Free(h)
    <2>1. InHand(h) = 0 /\ handler[h].socket = None
        BY <1>0, <1>12, InHandCounts DEF Free, HandlerInv
    <2>2. /\ UNCHANGED <<pool, main, queued>> /\ ~ busy'[h]
          /\ handler'[h].pc \in {"loop", "service", "drop"} /\ handler'[h].socket = None
        BY <1>0, <1>12, <2>1 DEF Free, Becomes, TypeOK, HandlerState
    <2>3. InHand(h)' = InHand(h)
        BY <2>1, <2>2 DEF InHand, Posting
    <2>4. (InHand(h) <= (IF busy[h] THEN 1 ELSE 0))'
        BY <2>1, <2>3
    <2> QED BY <1>0, <2>2, <2>4 DEF HandlerInv, At
<1> QED BY <1>3, <1>4, <1>5, <1>6, <1>7, <1>8, <1>9, <1>10, <1>11, <1>12 DEF Thread

LEMMA InitInv == Init => PoolInv
<1> SUFFICES ASSUME Init PROVE PoolInv
    OBVIOUS
<1>1. TypeInv
    BY InitType
<1>2. main.at = "loop"
    BY StartTypes DEF Init
<1>3. ASSUME NEW h \in Handler PROVE HandlerInv(h)
    <2>1. /\ queued[h] = <<>> /\ ~ Posting(h)
          /\ handler[h].pc = "none" /\ handler[h].socket = None
        BY <1>2 DEF Init, NoHandler, Posting
    <2>2. InHand(h) = 0
        <3>1. Len(queued[h]) = 0
            BY <2>1
        <3> QED BY <2>1, <3>1 DEF InHand
    <2>3. InHand(h) <= (IF busy[h] THEN 1 ELSE 0)
        BY <2>2
    <2> QED BY <2>1, <2>3 DEF HandlerInv, At
<1> QED BY <1>1, <1>2, <1>3 DEF PoolInv, SparesIdle

\* Neither the clients nor an accepted connection touch a handler.
LEMMA ClientInv ==
    ASSUME PoolInv, NEW c \in Connection,
           Accept(c) \/ Leave(c) \/ (\E chunk \in Chunk : Send(c, chunk))
    PROVE  SparesIdle' /\ \A g \in Handler : HandlerInv(g)'
<1>1. UNCHANGED <<pool, busy, queued, handler>>
    BY DEF Accept, Leave, Send
<1>2. main' = main \/ (main.at = "loop" /\ main'.at = "get")
    BY StartTypes DEF Accept, Leave, Send, MainState
<1>3. \A g \in Handler : Same(g)
    BY <1>1, <1>2 DEF Same, Posting
<1> QED BY <1>1, <1>2, <1>3, SameKept DEF PoolInv, TypeInv, SparesIdle

LEMMA NextInv == PoolInv /\ [Next]_vars => PoolInv'
<1> SUFFICES ASSUME PoolInv, [Next]_vars PROVE PoolInv'
    OBVIOUS
<1>1. TypeInv'
    BY NextType DEF PoolInv
<1>2. SparesIdle' /\ \A g \in Handler : HandlerInv(g)'
    <2>1. CASE Next
        BY <2>1, MainInv, ThreadInv, ClientInv DEF Next
    <2>2. CASE UNCHANGED vars
        <3>1. \A g \in Handler : Same(g)
            BY <2>2 DEF vars, Same, Posting
        <3> QED BY <2>2, <3>1, SameKept DEF vars, PoolInv, TypeInv, SparesIdle
    <2> QED BY <2>1, <2>2
<1> QED BY <1>1, <1>2 DEF PoolInv

LEMMA PoolInvAlways == Spec => []PoolInv
BY InitInv, NextInv, PTL DEF Spec

\* A handler never has two connections, and is busy while it has one, whatever
\* the order in which the main thread and the handlers look at the flags.
THEOREM NeverShared == Spec => []OneConnectionEach
<1>1. PoolInv => OneConnectionEach
    BY DEF PoolInv, HandlerInv, OneConnectionEach
<1> QED BY <1>1, PoolInvAlways, PTL

\* The input of one client never ends up in the request of another.
THEOREM RequestsUnmixed == Spec => []RequestFromOneClient
<1>1. PoolInv => RequestFromOneClient
    BY DEF PoolInv, HandlerInv, RequestFromOneClient
<1> QED BY <1>1, PoolInvAlways, PTL

\* A thread that waits for a client's input waits under the read timeout.
THEOREM TimerAlwaysRuns == Spec => []TimerArmed
<1>1. PoolInv => TimerArmed
    BY DEF PoolInv, HandlerInv, TimerArmed
<1> QED BY <1>1, PoolInvAlways, PTL

\* The handler that cleanup deletes has no connection, nor one on its way.
THEOREM SparesUsed == Spec => []CleanupSparesUsed
<1>1. PoolInv => CleanupSparesUsed
    <2> SUFFICES ASSUME PoolInv, main.at = "remove" PROVE InHand(main.who) = 0
        BY DEF CleanupSparesUsed
    <2>1. main.who \in Handler /\ ~ busy[main.who] /\ HandlerInv(main.who)
        BY DEF PoolInv, TypeInv, TypeOK, MainHolds, SparesIdle
    <2>2. InHand(main.who) \in Nat /\ InHand(main.who) <= 0
        BY <2>1, InHandCounts DEF HandlerInv, PoolInv, TypeInv, TypeOK
    <2> QED BY <2>2
<1> QED BY <1>1, PoolInvAlways, PTL

-----------------------------------------------------------------------------
(* What cleanup leaves.                                                    *)

\* While cleanup looks through the pool, the handlers it has counted are still
\* idle; when it removes one, enough others are.
Spared ==
    /\ main.at = "clean" => Cardinality(IdleHandlers \ main.left) >= main.idle
    /\ main.at = "remove" => Cardinality(IdleHandlers \ {main.who}) >= MinThreads

\* A larger set of idle handlers has at least as many members.
LEMMA MoreIdle ==
    ASSUME TypeOK, NEW small, NEW large, small \subseteq large, large \subseteq Handler
    PROVE  /\ Cardinality(small) \in Nat /\ Cardinality(large) \in Nat
           /\ Cardinality(small) <= Cardinality(large)
<1>1. IsFiniteSet(large) /\ IsFiniteSet(small)
    BY PoolAssumption, FS_Subset
<1> QED BY <1>1, FS_Subset, FS_CardinalityType

\* No step other than the main thread's makes an idle handler busy: a thread sets
\* its flag only for a connection that came with the flag set.
LEMMA IdleStays ==
    ASSUME PoolInv, NEW h \in Handler, Thread(h)
    PROVE  IdleHandlers \subseteq IdleHandlers'
<1> USE DEF PoolInv, TypeInv
<1>1. UNCHANGED pool /\ \A g \in Handler \ {h} : busy'[g] = busy[g]
    BY OthersKept DEF Same
<1>2. ~ busy[h] => ~ busy'[h]
    <2>1. CASE HandleConnection(h)
        BY <2>1, InHandCounts DEF HandleConnection, HandlerInv
    <2>2. CASE Quit(h) \/ Free(h)
        BY <2>2 DEF Quit, Free, TypeOK
    <2>3. CASE PeerGone(h) \/ ReadTimeout(h) \/ Read(h) \/ ReadChunk(h) \/ ReadDone(h)
               \/ KeepAlive(h) \/ EndConnection(h) \/ CloseSocket(h) \/ Drop(h)
        BY <2>3 DEF PeerGone, ReadTimeout, Read, ReadChunk, ReadDone, KeepAlive, EndConnection,
                    CloseSocket, Drop
    <2> QED BY <2>1, <2>2, <2>3 DEF Thread
<1> QED BY <1>1, <1>2 DEF IdleHandlers, TypeOK

\* Looking at one more handler counts it only when it is idle.
LEMMA LookSpared ==
    ASSUME PoolInv, Spared, NEW h \in Handler, LookIdle(h)
    PROVE  Spared'
<1> USE DEF PoolInv, TypeInv
<1>0. /\ main \in MainState /\ main.at = "clean" /\ h \in main.left /\ h \in pool
      /\ UNCHANGED <<pool, busy>> /\ IdleHandlers' = IdleHandlers /\ IdleHandlers \subseteq Handler
    BY DEF LookIdle, TypeOK, IdleHandlers
<1> DEFINE seen == IdleHandlers \ main.left
<1>1. Cardinality(seen) >= main.idle /\ Cardinality(seen) \in Nat /\ IsFiniteSet(seen)
    BY <1>0, MoreIdle, PoolAssumption, FS_Subset DEF Spared
<1>2. CASE busy[h]
    <2>1. main'.left = main.left \ {h} /\ main'.idle = main.idle /\ main'.at = "clean"
        BY <1>0, <1>2 DEF LookIdle, MainState
    <2>2. IdleHandlers \ main'.left = seen
        BY <1>2, <2>1 DEF IdleHandlers
    <2> QED BY <1>0, <1>1, <2>1, <2>2 DEF Spared
<1>3. CASE ~ busy[h] /\ main.idle < MinThreads
    <2>1. main'.left = main.left \ {h} /\ main'.idle = main.idle + 1 /\ main'.at = "clean"
        BY <1>0, <1>3 DEF LookIdle, MainState
    <2>2. IdleHandlers \ main'.left = seen \cup {h} /\ h \notin seen
        BY <1>0, <1>3, <2>1 DEF IdleHandlers
    <2>3. Cardinality(seen \cup {h}) = Cardinality(seen) + 1
        BY <1>1, <2>2, FS_AddElement
    <2>4. main'.idle <= Cardinality(seen \cup {h})
        BY <1>0, <1>1, <2>1, <2>3 DEF MainState
    <2> QED BY <1>0, <2>1, <2>2, <2>4 DEF Spared
<1>4. CASE ~ busy[h] /\ ~ (main.idle < MinThreads)
    <2>1. main'.at = "remove" /\ main'.who = h
        BY <1>4 DEF LookIdle, MainLoop
    <2>2. main.idle = MinThreads
        BY <1>0, <1>4, PoolAssumption DEF MainState
    <2>3. seen \subseteq IdleHandlers \ {h}
        BY <1>0
    <2>4. Cardinality(IdleHandlers \ {h}) >= MinThreads
        <3>1. Cardinality(IdleHandlers \ {h}) \in Nat
              /\ Cardinality(seen) <= Cardinality(IdleHandlers \ {h})
            BY <1>0, <2>3, MoreIdle
        <3> QED BY <1>1, <2>2, <3>1, PoolAssumption
    <2> QED BY <1>0, <2>1, <2>4 DEF Spared
<1> QED BY <1>2, <1>3, <1>4

LEMMA SparedInductive == PoolInv /\ Spared /\ [Next]_vars => Spared'
<1> SUFFICES ASSUME PoolInv, Spared, [Next]_vars PROVE Spared'
    OBVIOUS
<1> USE DEF PoolInv, TypeInv
<1>0. main \in MainState /\ IdleHandlers \subseteq Handler /\ TypeOK' /\ IdleHandlers' \subseteq Handler
    BY NextType DEF TypeOK, IdleHandlers
<1>1. ASSUME main' = main, IdleHandlers \subseteq IdleHandlers' PROVE Spared'
    <2>1. Cardinality(IdleHandlers \ main.left) \in Nat
          /\ Cardinality(IdleHandlers' \ main.left) \in Nat
          /\ Cardinality(IdleHandlers \ main.left) <= Cardinality(IdleHandlers' \ main.left)
        BY <1>0, <1>1, MoreIdle
    <2>2. Cardinality(IdleHandlers \ {main.who}) \in Nat
          /\ Cardinality(IdleHandlers' \ {main.who}) \in Nat
          /\ Cardinality(IdleHandlers \ {main.who}) <= Cardinality(IdleHandlers' \ {main.who})
        BY <1>0, <1>1, MoreIdle
    <2>3. main.idle \in Nat
        BY <1>0 DEF MainState
    <2>4. main.at = "clean" => main.idle <= Cardinality(IdleHandlers' \ main.left)
        BY <2>1, <2>3 DEF Spared
    <2>5. main.at = "remove" => MinThreads <= Cardinality(IdleHandlers' \ {main.who})
        BY <2>2, PoolAssumption DEF Spared
    <2> QED BY <1>1, <2>4, <2>5 DEF Spared
<1>2. ASSUME NEW h \in Handler, Thread(h) PROVE Spared'
    BY <1>1, <1>2, IdleStays, OthersKept
<1>3. ASSUME NEW h \in Handler, LookIdle(h) PROVE Spared'
    BY <1>3, LookSpared
<1>4. CASE Cleanup
    <2>1. main'.at = "clean" /\ main'.left = pool /\ main'.idle = 0
        BY <1>4, StartTypes DEF Cleanup, MainState, MainLoop
    <2>2. Cardinality(IdleHandlers' \ main'.left) \in Nat
        BY <1>0, MoreIdle
    <2> QED BY <2>1, <2>2 DEF Spared
<1>5. CASE Refuse \/ Post \/ CleanupDone \/ Closed \/ Delete \/ Close \/ Listen
           \/ \E h \in Handler : LookFree(h) \/ Create(h) \/ DeleteNext(h)
    <2>1. main'.at \notin {"clean", "remove"}
        BY <1>0, <1>5, StartTypes DEF Refuse, Post, CleanupDone, Closed, Delete, Close, Listen, LookFree,
            Create, DeleteNext, AllBusy, Passed, Chosen, MainLoop, MainState
    <2> QED BY <2>1 DEF Spared
<1>6. ASSUME NEW c \in Connection, Accept(c) \/ Leave(c) \/ (\E chunk \in Chunk : Send(c, chunk))
      PROVE  Spared'
    <2>1. CASE Accept(c)
        <3>1. main'.at = "get"
            BY <2>1, StartTypes DEF Accept, MainState, MainLoop
        <3> QED BY <3>1 DEF Spared
    <2>2. CASE Leave(c) \/ (\E chunk \in Chunk : Send(c, chunk))
        BY <1>1, <2>2 DEF Leave, Send, IdleHandlers
    <2> QED BY <1>6, <2>1, <2>2
<1>7. CASE UNCHANGED vars
    BY <1>1, <1>7 DEF vars, IdleHandlers
<1> QED BY <1>2, <1>3, <1>4, <1>5, <1>6, <1>7 DEF Next, MainStep

\* Cleanup never deletes below minThreads idle handlers, for any setting and any
\* number of handlers.
THEOREM IdleLeft == Spec => MinimumKept
<1>1. Init => Spared
    BY StartTypes DEF Init, Spared, MainLoop
<1>2. PoolInv /\ Spared /\ [Next]_vars
      => [main.at = "remove" /\ pool' # pool => Cardinality(IdleHandlers') >= MinThreads]_vars
    <2> SUFFICES ASSUME PoolInv, Spared, Next, main.at = "remove", pool' # pool
                 PROVE  Cardinality(IdleHandlers') >= MinThreads
        BY DEF vars
    <2>1. Delete
        <3>1. \A h \in Handler : ~ Thread(h)
            BY OthersKept DEF PoolInv, TypeInv
        <3> QED BY <3>1 DEF Next, MainStep, LookFree, Create, AllBusy, LookIdle, DeleteNext, Refuse, Post,
                            CleanupDone, Closed, Cleanup, Close, Listen, Accept, Leave, Send
    <2>2. IdleHandlers' = IdleHandlers \ {main.who}
        BY <2>1 DEF Delete, IdleHandlers, PoolInv, TypeInv, TypeOK
    <2> QED BY <2>2 DEF Spared
<1> QED BY <1>1, <1>2, PoolInvAlways, SparedInductive, PTL DEF Spec, MinimumKept

=============================================================================
