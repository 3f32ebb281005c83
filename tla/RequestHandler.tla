--------------------------- MODULE RequestHandler ---------------------------
(***************************************************************************)
(* RequestHandler (CasinoServer/Server/requesthandler.cpp): the servlet    *)
(* that every connection thread of the HTTP server calls.  A call of       *)
(* service runs in the thread of its connection; m_clients is shared by    *)
(* all of them and nothing locks it, so the steps of a call interleave     *)
(* with the steps of the others:                                           *)
(*                                                                         *)
(*   contains -> insert -> read -> write -> answer -> idle                 *)
(*                                                                         *)
(* "read" fetches the fields the request tests or counts from, "write"     *)
(* assigns the fields, "answer" converts the machine to JSON.  The hash    *)
(* table itself is taken to survive concurrent calls.                      *)
(***************************************************************************)
EXTENDS GameTypes

CONSTANTS
    GUID,         \* the clients
    Thread,       \* the connection threads
    Overlap,      \* may two calls for one GUID be under way together?
    MaxBet        \* bound: no AddBet arrives that would take a bet above it

ASSUME OverlapAssumption == Overlap \in BOOLEAN

VARIABLES
    m_clients,    \* the machine of each known GUID, Absent for the others
    pc,           \* the step a thread is at
    req,          \* the request a thread serves
    seen,         \* the machine as the thread read it
    ok            \* answer_json["value"] of the thread

vars == <<m_clients, pc, req, seen, ok>>

Absent == [matrix |-> "absent"]
NoRequest == [type |-> "none"]

\* A request that reaches service; "Malformed" stands for a method, a
\* content type, a body or a GUID that service rejects, "NoFields" for JSON
\* with a GUID and without a type or a value.
Requests ==
    [guid : GUID, type : (Types \ {"SetBet"}) \cup {"Malformed", "NoFields"}, value : {0}]
    \cup [guid : GUID, type : {"SetBet"}, value : Values]

-----------------------------------------------------------------------------
Init ==
    /\ m_clients = [g \in GUID |-> Absent]
    /\ pc = [t \in Thread |-> "idle"]
    /\ req = [t \in Thread |-> NoRequest]
    /\ seen = [t \in Thread |-> NoMachine]
    /\ ok = [t \in Thread |-> FALSE]

Guid(t) == req[t].guid
Client(t) == m_clients[Guid(t)]

\* A thread moves on without touching the shared table.
Goto(t, label) ==
    /\ pc' = [pc EXCEPT ![t] = label]
    /\ UNCHANGED m_clients

\* A call ends and its local variables with it.
Leave(t) ==
    /\ Goto(t, "idle")
    /\ req' = [req EXCEPT ![t] = NoRequest]
    /\ seen' = [seen EXCEPT ![t] = NoMachine]
    /\ ok' = [ok EXCEPT ![t] = FALSE]

\* service is called with a request.
Receive(t, r) ==
    /\ pc[t] = "idle"
    /\ Overlap \/ \A u \in Thread : pc[u] # "idle" => Guid(u) # r.guid
    /\ r.type = "AddBet" /\ m_clients[r.guid] # Absent
           => m_clients[r.guid].totalBet + 10 <= MaxBet
    /\ req' = [req EXCEPT ![t] = r]
    /\ Goto(t, "contains")
    /\ UNCHANGED <<seen, ok>>

\* The request is not a POST of JSON with a GUID: an early return or the
\* catch, before the table is looked at.
Reject(t) ==
    /\ pc[t] = "contains"
    /\ req[t].type = "Malformed"
    /\ Leave(t)

\* if (!m_clients.contains(guid))
Contains(t) ==
    /\ pc[t] = "contains"
    /\ req[t].type # "Malformed"
    /\ Goto(t, IF Client(t) = Absent THEN "insert" ELSE "fields")
    /\ UNCHANGED <<req, seen, ok>>

\* m_clients.insert(guid, Machine())
Insert(t) ==
    /\ pc[t] = "insert"
    /\ m_clients' = [m_clients EXCEPT ![Guid(t)] = NewMachine]
    /\ pc' = [pc EXCEPT ![t] = "fields"]
    /\ UNCHANGED <<req, seen, ok>>

\* j["type"] or j["value"] throws, or processResponce returns at an empty
\* type: no answer is written.
NoReply(t) ==
    /\ pc[t] = "fields"
    /\ req[t].type \in {"NoFields", "Empty"}
    /\ Leave(t)

\* processResponce fetches the reference m_clients[guid] and reads what the
\* branch of the request's type tests or adds to.
Read(t) ==
    /\ pc[t] = "fields"
    /\ req[t].type \notin {"NoFields", "Empty"}
    /\ seen' = [seen EXCEPT ![t] = Client(t)]
    /\ Goto(t, "write")
    /\ UNCHANGED <<req, ok>>

\* The branch of processResponce for this type is entered.
Branch(t, type) == pc[t] = "write" /\ req[t].type = type

\* A branch assigns fields of the shared machine and accepts.
Accept(t, after) ==
    /\ m_clients' = [m_clients EXCEPT ![Guid(t)] = after]
    /\ ok' = [ok EXCEPT ![t] = TRUE]
    /\ pc' = [pc EXCEPT ![t] = "answer"]
    /\ UNCHANGED <<req, seen>>

Query(t) ==
    /\ Branch(t, "Machine")
    /\ Accept(t, Client(t))

SpinStart(t) ==
    /\ Branch(t, "SpinStart")
    /\ seen[t].status = "Stop"
    /\ seen[t].totalBet > 0
    /\ Accept(t, [Client(t) EXCEPT !.winner = 0, !.status = "Spin"])

\* Mutant: resultWinner before randomize.
SpinStopPaysFirst(t, drawn) ==
    /\ Branch(t, "SpinStop")
    /\ seen[t].status = "Spin"
    /\ Accept(t, [Client(t) EXCEPT !.matrix = drawn, !.status = "Stop",
                                   !.winner = Payout(Client(t).matrix, Client(t).totalBet)])

\* Mutant: a machine that stands is stopped again.
SpinStopAnytime(t, drawn) ==
    /\ Branch(t, "SpinStop")
    /\ Accept(t, [Client(t) EXCEPT !.matrix = drawn, !.status = "Stop",
                                   !.winner = Payout(drawn, Client(t).totalBet)])

\* randomize, then resultWinner, which reads the bet that is there now.
SpinStop(t, drawn) ==
    /\ Branch(t, "SpinStop")
    /\ seen[t].status = "Spin"
    /\ Accept(t, [Client(t) EXCEPT !.matrix = drawn, !.status = "Stop",
                                   !.winner = Payout(drawn, Client(t).totalBet)])

AddBet(t) ==
    /\ Branch(t, "AddBet")
    /\ Accept(t, [Client(t) EXCEPT !.totalBet = seen[t].totalBet + 10])

DelBet(t) ==
    /\ Branch(t, "DelBet")
    /\ seen[t].totalBet > 0
    /\ Accept(t, [Client(t) EXCEPT !.totalBet = NotNegative(seen[t].totalBet - 10)])

SetBet(t) ==
    /\ Branch(t, "SetBet")
    /\ Accept(t, [Client(t) EXCEPT !.totalBet = NotNegative(req[t].value)])

LoadContent(t, drawn) ==
    /\ Branch(t, "LoadContent")
    /\ Accept(t, [Client(t) EXCEPT !.matrix = drawn])

\* The condition of the branch fails, or no branch has this type.
Refuse(t) ==
    /\ pc[t] = "write"
    /\ \/ req[t].type = "SpinStart" /\ (seen[t].status # "Stop" \/ seen[t].totalBet <= 0)
       \/ req[t].type = "SpinStop" /\ seen[t].status # "Spin"
       \/ req[t].type = "DelBet" /\ seen[t].totalBet <= 0
       \/ req[t].type = "Other"
    /\ Goto(t, "answer")
    /\ UNCHANGED <<req, seen, ok>>

\* Mutant: the answer shows the machine as it was before the request.
AnswerBefore(t) == AnswerJson(Guid(t), req[t].type, ok[t], seen[t])

\* What writeMachine and the end of processResponce put into the answer.
AnswerOf(t) == AnswerJson(Guid(t), req[t].type, ok[t], Client(t))

\* The answer is converted and written, and service returns.
Answer(t) ==
    /\ pc[t] = "answer"
    /\ Leave(t)

\* The server process ends and is started again; m_clients was in memory.
Restart ==
    /\ m_clients' = [g \in GUID |-> Absent]
    /\ pc' = [t \in Thread |-> "idle"]
    /\ req' = [t \in Thread |-> NoRequest]
    /\ seen' = [t \in Thread |-> NoMachine]
    /\ ok' = [t \in Thread |-> FALSE]

Process(t) ==
    \/ Query(t)
    \/ SpinStart(t)
    \/ \E drawn \in Matrices : SpinStop(t, drawn)
    \/ AddBet(t)
    \/ DelBet(t)
    \/ SetBet(t)
    \/ \E drawn \in Matrices : LoadContent(t, drawn)
    \/ Refuse(t)

Step(t) ==
    \/ \E r \in Requests : Receive(t, r)
    \/ Reject(t)
    \/ Contains(t)
    \/ Insert(t)
    \/ NoReply(t)
    \/ Read(t)
    \/ Process(t)
    \/ Answer(t)

Next == (\E t \in Thread : Step(t)) \/ Restart

Spec == Init /\ [][Next]_vars

-----------------------------------------------------------------------------
Labels == {"idle", "contains", "insert", "fields", "write", "answer"}

\* The types of the shared table and of the threads' local variables, and
\* which locals are live at which step.
TypeOK ==
    /\ m_clients \in [GUID -> Machine \cup {Absent}]
    /\ pc \in [Thread -> Labels]
    /\ ok \in [Thread -> BOOLEAN]
    /\ req \in [Thread -> Requests \cup {NoRequest}]
    /\ seen \in [Thread -> Machine \cup {NoMachine}]
    /\ \A t \in Thread : pc[t] # "idle" => req[t] \in Requests
    /\ \A t \in Thread : pc[t] = "write" => seen[t] \in Machine
    /\ \A t \in Thread : pc[t] \in {"insert", "fields"} => req[t].type # "Malformed"
    /\ \A t \in Thread : pc[t] \in {"write", "answer"} => req[t].type \in Types \ {"Empty"}
    /\ \A t \in Thread : ok[t] => pc[t] = "answer"
    /\ \A t \in Thread : pc[t] \in {"fields", "write", "answer"} => Client(t) \in Machine

\* Without overlapping calls, the calls under way have different GUIDs and
\* what a thread has read is still there when it writes.  These two carry
\* the proofs of the invariants and of AtomicRequests below.
OneCallPerClient ==
    \A t, u \in Thread :
        t # u /\ pc[t] # "idle" /\ pc[u] # "idle" => Guid(t) # Guid(u)
SeenIsCurrent ==
    \A t \in Thread : pc[t] = "write" => seen[t] = Client(t)

\* A machine that a client already has is never replaced by a new one: when
\* a thread is about to insert, the test it made is still true
\* (requesthandler.cpp:49-51).
NeverReinserted ==
    \A t \in Thread : pc[t] = "insert" => Client(t) = Absent

\* While a machine spins it shows no winnings: a round's winnings are booked
\* by the very operation that ends it, and cleared by the one that begins
\* the next (requesthandler.cpp:163-183).
NoWinWhileSpinning ==
    \A g \in GUID : m_clients[g] # Absent /\ m_clients[g].status = "Spin"
                        => m_clients[g].winner = 0

\* The answer to an accepted SpinStop is coherent: the winnings it reports
\* are those of the matrix and the bet it reports, so that the lines the
\* client recomputes from the matrix are the ones that were paid.
SpinStopAnswerCoherent ==
    \A t \in Thread :
        pc[t] = "answer" /\ req[t].type = "SpinStop" /\ ok[t]
            => LET m == AnswerOf(t).Machine
               IN  m.status = "Stop" /\ m.winner = Payout(m.matrix, m.totalBet)

\* A round is settled once: winnings appear only in the step that takes the
\* machine from Spin to Stop, so no second SpinStop re-draws and pays a
\* round that has ended.
SettledOnce ==
    [][\A g \in GUID :
          m_clients[g] # Absent /\ m_clients'[g] # Absent
          /\ m_clients'[g].winner > 0 /\ m_clients'[g].winner # m_clients[g].winner
              => m_clients[g].status = "Spin" /\ m_clients'[g].status = "Stop"]_vars

\* How the table and the threads show the machines and the answers of
\* Accounts: a client without a machine counts as one with a new machine.
AccountMachine == [g \in GUID |-> IF m_clients[g] = Absent THEN NewMachine
                                  ELSE m_clients[g]]
AccountReply == [t \in Thread |-> IF pc[t] = "answer" THEN AnswerOf(t) ELSE NoAnswer]
A == INSTANCE Accounts WITH machine <- AccountMachine, reply <- AccountReply

\* httprequesthandler.h:45 warns of service: "This method must be thread
\* safe".  Thread safe is: every request takes effect at once on the machine
\* of its GUID, and the answer shows that effect (module Accounts).
AtomicRequests == A!AcctSpec
=============================================================================
