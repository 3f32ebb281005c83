------------------------ MODULE RequestHandlerProofs ------------------------
(* Proofs about RequestHandler: the types of its state, and, when calls for *)
(* one GUID do not overlap, its invariants and that it implements Accounts. *)
EXTENDS RequestHandler, TLAPS

-----------------------------------------------------------------------------
(* Payouts and machines.                                                   *)

\* The winnings of any matrix and any bet are a natural number.
LEMMA PayoutType ==
    ASSUME NEW m \in Matrices, NEW bet \in Nat
    PROVE  Payout(m, bet) \in Nat
<1>1. lineCount[m] \in Nat /\ lineUnits[m] \in Nat
    BY MatrixAssumption
<1>2. CASE lineCount[m] = 0 \/ bet = 0
    BY <1>2 DEF Payout
<1>3. CASE lineCount[m] # 0 /\ bet # 0
    <2>1. bet \div lineCount[m] \in Nat
        BY <1>1, <1>3
    <2>2. (bet \div lineCount[m]) * lineUnits[m] \in Nat
        BY <1>1, <2>1
    <2> QED BY <1>3, <2>2 DEF Payout
<1> QED BY <1>2, <1>3

\* The two placeholders of the table and of the answers are no machines.
LEMMA MachineType ==
    /\ NewMachine \in Machine
    /\ Absent \notin Machine
    /\ NoMachine \notin Machine
BY DEF NewMachine, Machine, Status, Absent, NoMachine

\* A drawn matrix and its payout make a machine of a machine.
LEMMA DrawnType ==
    ASSUME NEW m \in Machine, NEW drawn \in Matrices
    PROVE  /\ [m EXCEPT !.matrix = drawn] \in Machine
           /\ [m EXCEPT !.matrix = drawn, !.status = "Stop",
                        !.winner = Payout(drawn, m.totalBet)] \in Machine
<1>1. m.totalBet \in Nat
    BY DEF Machine
<1> DEFINE win == Payout(drawn, m.totalBet)
<1>2. win \in Nat
    BY <1>1, PayoutType
<1> HIDE DEF win
<1>3. [m EXCEPT !.matrix = drawn] \in Machine
    BY DEF Machine
<1>4. [m EXCEPT !.matrix = drawn, !.status = "Stop", !.winner = win] \in Machine
    BY <1>2 DEF Machine, Status
<1> QED BY <1>3, <1>4 DEF win

\* A request names a client and carries a type and an int.
LEMMA RequestType ==
    ASSUME NEW r \in Requests
    PROVE  /\ r.guid \in GUID /\ r.value \in Int
           /\ r.type \in Types \cup {"Malformed", "NoFields"}
<1>1. CASE r \in [guid : GUID, type : (Types \ {"SetBet"}) \cup {"Malformed", "NoFields"}, value : {0}]
    BY <1>1
<1>2. CASE r \in [guid : GUID, type : {"SetBet"}, value : Values]
    BY <1>2, ValueAssumption DEF Types, MachineTypes
<1> QED BY <1>1, <1>2 DEF Requests

-----------------------------------------------------------------------------
(* Type correctness, with and without overlapping calls.                   *)

\* A branch that assigns a machine keeps the types.
LEMMA AcceptType ==
    ASSUME TypeOK, NEW t \in Thread, pc[t] = "write",
           NEW after \in Machine, Accept(t, after)
    PROVE  TypeOK'
<1>1. req[t] \in Requests /\ Guid(t) \in GUID
    BY DEF TypeOK, Guid, Requests
<1>2. /\ m_clients' \in [GUID -> Machine \cup {Absent}]
      /\ \A g \in GUID : m_clients[g] \in Machine => m_clients'[g] \in Machine
      /\ m_clients'[Guid(t)] \in Machine
    BY <1>1 DEF TypeOK, Accept
<1>3. /\ pc' \in [Thread -> Labels] /\ ok' \in [Thread -> BOOLEAN]
      /\ \A u \in Thread : pc'[u] # "idle" => pc[u] # "idle"
      /\ \A u \in Thread : pc'[u] \in {"fields", "write", "answer"}
                               => pc[u] \in {"fields", "write", "answer"}
      /\ \A u \in Thread : pc'[u] = "write" => pc[u] = "write"
      /\ \A u \in Thread : pc'[u] \in {"insert", "fields"} => pc[u] \in {"insert", "fields"}
      /\ \A u \in Thread : pc'[u] \in {"write", "answer"} => pc[u] \in {"write", "answer"}
      /\ \A u \in Thread : ok'[u] => pc'[u] = "answer"
    BY DEF TypeOK, Accept, Labels
<1>4. req' = req /\ seen' = seen
    BY DEF Accept
<1>5. ASSUME NEW u \in Thread, pc'[u] \in {"fields", "write", "answer"}
      PROVE  Client(u)' \in Machine
    <2>1. Client(u) \in Machine /\ Guid(u) \in GUID
        BY <1>3, <1>5 DEF TypeOK, Guid, Requests
    <2> QED BY <1>2, <1>4, <2>1 DEF Client, Guid
<1> QED BY <1>2, <1>3, <1>4, <1>5 DEF TypeOK

\* A call that ends keeps the types.
LEMMA LeaveType ==
    ASSUME TypeOK, NEW t \in Thread, Leave(t)
    PROVE  TypeOK'
BY DEF TypeOK, Leave, Goto, Labels, Client, Guid

\* Every step of a thread keeps the types.
LEMMA StepType ==
    ASSUME TypeOK, NEW t \in Thread, Step(t)
    PROVE  TypeOK'
<1>1. ASSUME NEW r \in Requests, Receive(t, r) PROVE TypeOK'
    BY <1>1 DEF TypeOK, Receive, Goto, Labels, Client, Guid
<1>2. CASE Reject(t) \/ NoReply(t) \/ Answer(t)
    BY <1>2, LeaveType DEF Reject, NoReply, Answer
<1>3. CASE Contains(t)
    <2>1. req[t] \in Requests /\ Guid(t) \in GUID
        BY <1>3 DEF Contains, TypeOK, Guid, Requests
    <2>2. Client(t) # Absent => Client(t) \in Machine
        BY <2>1 DEF TypeOK, Client
    <2> QED BY <1>3, <2>1, <2>2 DEF TypeOK, Contains, Goto, Labels, Client, Guid
<1>4. CASE Insert(t)
    <2>1. req[t] \in Requests /\ Guid(t) \in GUID
        BY <1>4 DEF Insert, TypeOK, Guid, Requests
    <2>2. /\ m_clients' \in [GUID -> Machine \cup {Absent}]
          /\ \A g \in GUID : m_clients[g] \in Machine => m_clients'[g] \in Machine
          /\ m_clients'[Guid(t)] \in Machine
        BY <1>4, <2>1, MachineType DEF TypeOK, Insert
    <2>3. pc' \in [Thread -> Labels] /\ UNCHANGED <<req, seen, ok>>
        BY <1>4 DEF TypeOK, Insert, Labels
    <2>4. ASSUME NEW u \in Thread, pc'[u] \in {"fields", "write", "answer"}
          PROVE  Client(u)' \in Machine
        <3>1. CASE u = t
            BY <2>2, <2>3, <3>1 DEF Client, Guid
        <3>2. CASE u # t
            <4>1. Client(u) \in Machine /\ Guid(u) \in GUID
                BY <1>4, <2>4, <3>2 DEF TypeOK, Insert, Guid, Requests
            <4> QED BY <2>2, <2>3, <4>1 DEF Client, Guid
        <3> QED BY <3>1, <3>2
    <2>5. \A u \in Thread : /\ pc'[u] # "idle" => req'[u] \in Requests
                            /\ pc'[u] = "write" => seen'[u] \in Machine
                            /\ pc'[u] \in {"insert", "fields"} => req'[u].type # "Malformed"
                            /\ pc'[u] \in {"write", "answer"} => req'[u].type \in Types \ {"Empty"}
                            /\ ok'[u] => pc'[u] = "answer"
        BY <1>4, <2>1, <2>3 DEF TypeOK, Insert
    <2> QED BY <2>2, <2>3, <2>4, <2>5 DEF TypeOK
<1>5. CASE Read(t)
    <2>1. Client(t) \in Machine
        BY <1>5 DEF TypeOK, Read
    <2>2. req[t].type \in Types \ {"Empty"}
        BY <1>5, RequestType DEF TypeOK, Read
    <2> QED BY <1>5, <2>1, <2>2 DEF TypeOK, Read, Goto, Labels, Client, Guid
<1>6. CASE Process(t)
    <2>1. pc[t] = "write"
        BY <1>6 DEF Process, Query, SpinStart, SpinStop, AddBet, DelBet, SetBet,
                    LoadContent, Refuse, Branch
    <2>2. Client(t) \in Machine /\ seen[t] \in Machine /\ req[t] \in Requests
        BY <2>1 DEF TypeOK
    <2>3. seen[t].totalBet \in Nat
        BY <2>2 DEF Machine
    <2>4. CASE Query(t)
        BY <2>1, <2>2, <2>4, AcceptType DEF Query
    <2>5. CASE SpinStart(t)
        <3>1. [Client(t) EXCEPT !.winner = 0, !.status = "Spin"] \in Machine
            BY <2>2 DEF Machine, Status
        <3> QED BY <2>1, <2>5, <3>1, AcceptType DEF SpinStart
    <2>6. ASSUME NEW drawn \in Matrices, SpinStop(t, drawn) PROVE TypeOK'
        BY <2>1, <2>2, <2>6, AcceptType, DrawnType DEF SpinStop
    <2>7. CASE AddBet(t)
        <3>1. [Client(t) EXCEPT !.totalBet = seen[t].totalBet + 10] \in Machine
            BY <2>2, <2>3 DEF Machine
        <3> QED BY <2>1, <2>7, <3>1, AcceptType DEF AddBet
    <2>8. CASE DelBet(t)
        <3>1. [Client(t) EXCEPT !.totalBet = NotNegative(seen[t].totalBet - 10)] \in Machine
            BY <2>2, <2>3 DEF Machine, NotNegative
        <3> QED BY <2>1, <2>8, <3>1, AcceptType DEF DelBet
    <2>9. CASE SetBet(t)
        <3>1. req[t].value \in Int
            BY <2>2, RequestType
        <3>2. [Client(t) EXCEPT !.totalBet = NotNegative(req[t].value)] \in Machine
            BY <2>2, <3>1 DEF Machine, NotNegative
        <3> QED BY <2>1, <2>9, <3>2, AcceptType DEF SetBet
    <2>10. ASSUME NEW drawn \in Matrices, LoadContent(t, drawn) PROVE TypeOK'
        BY <2>1, <2>2, <2>10, AcceptType, DrawnType DEF LoadContent
    <2>11. CASE Refuse(t)
        BY <2>11 DEF TypeOK, Refuse, Goto, Labels, Client, Guid
    <2> QED BY <1>6, <2>4, <2>5, <2>6, <2>7, <2>8, <2>9, <2>10, <2>11 DEF Process
<1> QED BY <1>1, <1>2, <1>3, <1>4, <1>5, <1>6 DEF Step

\* TypeOK holds for any clients, threads, matrices and bets, whether or not
\* calls overlap.
THEOREM TypeCorrect == Spec => []TypeOK
<1>1. Init => TypeOK
    BY DEF Init, TypeOK, Labels
<1>2. TypeOK /\ [Next]_vars => TypeOK'
    <2>1. ASSUME TypeOK, Restart PROVE TypeOK'
        BY <2>1 DEF TypeOK, Restart, Labels
    <2>2. ASSUME TypeOK, UNCHANGED vars PROVE TypeOK'
        BY <2>2 DEF TypeOK, vars, Client, Guid
    <2> QED BY <2>1, <2>2, StepType DEF Next
<1> QED BY <1>1, <1>2, PTL DEF Spec
-----------------------------------------------------------------------------
(* Calls that do not overlap.                                              *)

\* What holds between the steps of calls that do not overlap.
SerialInv ==
    /\ TypeOK
    /\ OneCallPerClient
    /\ SeenIsCurrent
    /\ NeverReinserted
    /\ NoWinWhileSpinning
    /\ SpinStopAnswerCoherent

\* The steps of a thread, by what they do to the shared table: they leave
\* it, or assign the machine of the thread's own client.
LEMMA StepShape ==
    ASSUME TypeOK, NEW t \in Thread, Step(t)
    PROVE  /\ \A u \in Thread \ {t} : /\ pc'[u] = pc[u] /\ req'[u] = req[u]
                                      /\ seen'[u] = seen[u] /\ ok'[u] = ok[u]
           /\ pc[t] = "idle" => m_clients' = m_clients
           /\ pc[t] # "idle" => \A g \in GUID \ {Guid(t)} : m_clients'[g] = m_clients[g]
           /\ pc[t] # "idle" => pc'[t] = "idle" \/ req'[t] = req[t]
<1>1. ASSUME NEW r \in Requests, Receive(t, r)
      PROVE  /\ pc[t] = "idle" /\ m_clients' = m_clients
             /\ \A u \in Thread \ {t} : /\ pc'[u] = pc[u] /\ req'[u] = req[u]
                                        /\ seen'[u] = seen[u] /\ ok'[u] = ok[u]
    BY <1>1 DEF TypeOK, Receive, Goto
<1> DEFINE Local == /\ \A u \in Thread \ {t} : /\ pc'[u] = pc[u] /\ req'[u] = req[u]
                                               /\ seen'[u] = seen[u] /\ ok'[u] = ok[u]
                    /\ \A g \in GUID \ {Guid(t)} : m_clients'[g] = m_clients[g]
                    /\ pc[t] # "idle"
                    /\ pc'[t] = "idle" \/ req'[t] = req[t]
<1>2. CASE Reject(t) \/ NoReply(t) \/ Answer(t)
    <2>1. Local
        BY <1>2 DEF TypeOK, Reject, NoReply, Answer, Leave, Goto
    <2> QED BY <2>1
<1>3. CASE Contains(t) \/ Insert(t) \/ Read(t)
    <2>1. Local
        BY <1>3 DEF TypeOK, Contains, Insert, Read, Goto
    <2> QED BY <2>1
<1>4. CASE Process(t)
    <2>1. Refuse(t) \/ (pc[t] = "write" /\ \E after : Accept(t, after))
        BY <1>4, Zenon DEF Process, Query, SpinStart, SpinStop, AddBet,
                           DelBet, SetBet, LoadContent, Branch
    <2>2. CASE Refuse(t)
        BY <2>2 DEF TypeOK, Refuse, Goto
    <2>3. CASE pc[t] = "write" /\ \E after : Accept(t, after)
        <3>1. PICK after : Accept(t, after)
            BY <2>3
        <3> QED BY <2>3, <3>1 DEF TypeOK, Accept
    <2> QED BY <2>1, <2>2, <2>3
<1> QED BY <1>1, <1>2, <1>3, <1>4 DEF Step

\* A thread's step leaves the machine of every other call alone.
LEMMA OthersUntouched ==
    ASSUME TypeOK, OneCallPerClient, NEW t \in Thread, Step(t),
           NEW u \in Thread \ {t}, pc[u] # "idle"
    PROVE  Guid(u)' = Guid(u) /\ Client(u)' = Client(u)
<1>1. Guid(u) \in GUID /\ Guid(u)' = Guid(u)
    BY StepShape, RequestType DEF TypeOK, Guid
<1>2. CASE pc[t] = "idle"
    BY <1>1, <1>2, StepShape DEF Client
<1>3. CASE pc[t] # "idle"
    <2>1. Guid(u) # Guid(t)
        BY <1>3 DEF OneCallPerClient
    <2> QED BY <1>1, <1>3, <2>1, StepShape DEF Client
<1> QED BY <1>1, <1>2, <1>3

\* The calls under way keep having different GUIDs.
LEMMA OneCallStep ==
    ASSUME TypeOK, OneCallPerClient, Overlap = FALSE, NEW t \in Thread, Step(t)
    PROVE  OneCallPerClient'
<1>1. CASE pc[t] = "idle"
    <2>1. PICK r \in Requests : Receive(t, r)
        BY <1>1 DEF Step, Reject, Contains, Insert, NoReply, Read, Process, Query,
                    SpinStart, SpinStop, AddBet, DelBet, SetBet, LoadContent,
                    Refuse, Answer, Branch
    <2>2. /\ \A u \in Thread : pc[u] # "idle" => Guid(u) # r.guid
          /\ Guid(t)' = r.guid
        BY <2>1 DEF Receive, TypeOK, Guid
    <2>3. \A u \in Thread \ {t} : pc'[u] = pc[u] /\ Guid(u)' = Guid(u)
        BY StepShape DEF Guid
    <2> QED BY <2>2, <2>3 DEF OneCallPerClient
<1>2. CASE pc[t] # "idle"
    <2>1. pc'[t] # "idle" => Guid(t)' = Guid(t)
        BY <1>2, StepShape DEF Guid
    <2>2. \A u \in Thread \ {t} : pc'[u] = pc[u] /\ Guid(u)' = Guid(u)
        BY StepShape DEF Guid
    <2> QED BY <1>2, <2>1, <2>2 DEF OneCallPerClient
<1> QED BY <1>1, <1>2

\* What a step of a thread does to its own call, as far as the invariants
\* are concerned.
LEMMA OwnStep ==
    ASSUME SerialInv, NEW t \in Thread, Step(t)
    PROVE  /\ pc'[t] = "write" => seen'[t] = Client(t)'
           /\ pc'[t] = "insert" => Client(t)' = Absent
           /\ pc'[t] = "answer" /\ req'[t].type = "SpinStop" /\ ok'[t]
                => /\ Client(t)'.status = "Stop"
                   /\ Client(t)'.winner
                         = Payout(Client(t)'.matrix, Client(t)'.totalBet)
<1> USE DEF SerialInv
<1>1. ASSUME NEW r \in Requests, Receive(t, r) PROVE pc'[t] = "contains"
    BY <1>1 DEF TypeOK, Receive, Goto
<1>2. CASE Reject(t) \/ NoReply(t) \/ Answer(t)
    <2>1. pc'[t] = "idle"
        BY <1>2 DEF TypeOK, Reject, NoReply, Answer, Leave, Goto
    <2> QED BY <2>1
<1>3. CASE Contains(t)
    BY <1>3 DEF TypeOK, Contains, Goto, Client, Guid
<1>4. CASE Insert(t)
    <2>1. pc'[t] = "fields"
        BY <1>4 DEF TypeOK, Insert
    <2> QED BY <2>1
<1>5. CASE Read(t)
    BY <1>5 DEF TypeOK, Read, Goto, Client, Guid
<1>6. CASE Process(t) /\ ~\E drawn \in Matrices : SpinStop(t, drawn)
    <2>1. pc'[t] = "answer" /\ req' = req
        BY <1>6 DEF TypeOK, Process, Query, SpinStart, AddBet, DelBet, SetBet,
                    LoadContent, Refuse, Branch, Accept, Goto
    <2>2. CASE req[t].type # "SpinStop"
        BY <2>1, <2>2
    <2>3. CASE req[t].type = "SpinStop"
        <3>1. Refuse(t)
            BY <1>6, <2>3 DEF Process, Query, SpinStart, AddBet, DelBet, SetBet,
                              LoadContent, Branch
        <3>2. ok'[t] = FALSE
            BY <3>1 DEF Refuse, TypeOK
        <3> QED BY <2>1, <3>2
    <2> QED BY <2>2, <2>3
<1>7. ASSUME NEW drawn \in Matrices, SpinStop(t, drawn)
      PROVE  /\ pc'[t] = "answer"
             /\ Client(t)'.status = "Stop"
             /\ Client(t)'.winner = Payout(Client(t)'.matrix, Client(t)'.totalBet)
    <2>1. Client(t) \in Machine /\ Guid(t) \in GUID
        BY <1>7, RequestType DEF TypeOK, SpinStop, Branch, Guid
    <2>2. /\ pc'[t] = "answer" /\ Guid(t)' = Guid(t)
          /\ m_clients'[Guid(t)] = [Client(t) EXCEPT !.matrix = drawn, !.status = "Stop",
                                       !.winner = Payout(drawn, Client(t).totalBet)]
        BY <1>7, <2>1 DEF TypeOK, SpinStop, Accept, Branch, Guid
    <2> QED BY <2>1, <2>2 DEF Client, Machine
<1> QED BY <1>1, <1>2, <1>3, <1>4, <1>5, <1>6, <1>7 DEF Step

\* No step of a thread leaves winnings on a spinning machine.
LEMMA NoWinStep ==
    ASSUME SerialInv, NEW t \in Thread, Step(t)
    PROVE  NoWinWhileSpinning'
<1> SUFFICES ASSUME NEW g \in GUID, m_clients'[g] # Absent,
                    m_clients'[g].status = "Spin"
             PROVE  m_clients'[g].winner = 0
    BY DEF NoWinWhileSpinning
<1>1. CASE m_clients'[g] = m_clients[g]
    BY <1>1 DEF SerialInv, NoWinWhileSpinning
<1>2. CASE m_clients'[g] # m_clients[g]
    <2>1. pc[t] # "idle" /\ g = Guid(t)
        BY <1>2, StepShape DEF SerialInv
    <2>2. CASE Insert(t)
        BY <2>1, <2>2 DEF Insert, SerialInv, TypeOK, NewMachine
    <2>3. CASE Process(t)
        <3>1. pc[t] = "write"
            BY <2>3 DEF Process, Query, SpinStart, SpinStop, AddBet, DelBet, SetBet,
                        LoadContent, Refuse, Branch
        <3>2. Client(t) \in Machine /\ Client(t) = m_clients[g] /\ m_clients[g] # Absent
            BY <2>1, <3>1, MachineType DEF SerialInv, TypeOK, Client
        <3>3. ASSUME NEW after \in Machine, Accept(t, after) PROVE m_clients'[g] = after
            BY <2>1, <3>3 DEF Accept, SerialInv, TypeOK
        <3>4. Client(t).status = "Spin" => Client(t).winner = 0
            BY <3>2 DEF SerialInv, NoWinWhileSpinning
        <3>5. CASE SpinStart(t)
            BY <2>1, <3>2, <3>5 DEF SpinStart, Accept, SerialInv, TypeOK, Machine
        <3>6. ASSUME NEW drawn \in Matrices, SpinStop(t, drawn) PROVE FALSE
            BY <2>1, <3>2, <3>6 DEF SpinStop, Accept, SerialInv, TypeOK, Machine
        <3>7. CASE Query(t) \/ AddBet(t) \/ DelBet(t) \/ SetBet(t)
                     \/ \E drawn \in Matrices : LoadContent(t, drawn)
            BY <2>1, <3>2, <3>4, <3>7
            DEF Query, AddBet, DelBet, SetBet, LoadContent, Accept, SerialInv, TypeOK, Machine
        <3>8. CASE Refuse(t)
            BY <1>2, <3>8 DEF Refuse, Goto
        <3> QED BY <2>3, <3>5, <3>6, <3>7, <3>8 DEF Process
    <2>4. CASE ~Insert(t) /\ ~Process(t)
        <3>1. m_clients' = m_clients
            BY <2>4 DEF Step, Receive, Reject, Contains, NoReply, Read, Answer, Leave, Goto
        <3> QED BY <1>2, <3>1
    <2> QED BY <2>2, <2>3, <2>4
<1> QED BY <1>1, <1>2

\* The serial invariant is inductive.
LEMMA SerialInvInductive ==
    ASSUME Overlap = FALSE, SerialInv, [Next]_vars
    PROVE  SerialInv'
<1>1. ASSUME NEW t \in Thread, Step(t) PROVE SerialInv'
    <2>1. TypeOK'
        BY <1>1, StepType DEF SerialInv
    <2>2. OneCallPerClient'
        BY <1>1, OneCallStep DEF SerialInv
    <2>3. ASSUME NEW u \in Thread \ {t}, pc[u] # "idle"
          PROVE  /\ Client(u)' = Client(u) /\ pc'[u] = pc[u] /\ ok'[u] = ok[u]
                 /\ seen'[u] = seen[u] /\ req'[u] = req[u]
        BY <1>1, <2>3, OthersUntouched, StepShape DEF SerialInv
    <2>4. \A u \in Thread \ {t} : pc'[u] = pc[u]
        BY <1>1, StepShape DEF SerialInv
    <2>5. SeenIsCurrent'
        BY <1>1, <2>3, <2>4, OwnStep DEF SerialInv, SeenIsCurrent
    <2>6. NeverReinserted'
        BY <1>1, <2>3, <2>4, OwnStep DEF SerialInv, NeverReinserted
    <2>7. SpinStopAnswerCoherent'
        <3> SUFFICES ASSUME NEW u \in Thread, pc'[u] = "answer",
                            req'[u].type = "SpinStop", ok'[u]
                     PROVE  /\ Client(u)'.status = "Stop"
                            /\ Client(u)'.winner = Payout(Client(u)'.matrix, Client(u)'.totalBet)
            BY DEF SpinStopAnswerCoherent, AnswerOf, AnswerJson, MachineTypes
        <3>1. CASE u = t
            BY <1>1, <3>1, OwnStep
        <3>2. CASE u # t
            <4>1. pc[u] = "answer" /\ req[u].type = "SpinStop" /\ ok[u]
                BY <2>3, <2>4, <3>2
            <4>2. /\ Client(u).status = "Stop"
                  /\ Client(u).winner = Payout(Client(u).matrix, Client(u).totalBet)
                BY <4>1 DEF SerialInv, SpinStopAnswerCoherent, AnswerOf, AnswerJson, MachineTypes
            <4> QED BY <2>3, <3>2, <4>1, <4>2
        <3> QED BY <3>1, <3>2
    <2>8. NoWinWhileSpinning'
        BY <1>1, NoWinStep
    <2> QED BY <2>1, <2>2, <2>5, <2>6, <2>7, <2>8 DEF SerialInv
<1>2. CASE Restart
    BY <1>2 DEF Restart, SerialInv, TypeOK, Labels, OneCallPerClient, SeenIsCurrent,
                NeverReinserted, NoWinWhileSpinning, SpinStopAnswerCoherent
<1>3. CASE UNCHANGED vars
    BY <1>3 DEF vars, SerialInv, TypeOK, OneCallPerClient, SeenIsCurrent,
                NeverReinserted, NoWinWhileSpinning, SpinStopAnswerCoherent,
                AnswerOf, Client, Guid
<1> QED BY <1>1, <1>2, <1>3 DEF Next

\* The serial invariant holds from the start.
LEMMA SerialInvHolds ==
    ASSUME Overlap = FALSE
    PROVE  Spec => []SerialInv
<1>1. Init => SerialInv
    BY DEF Init, SerialInv, TypeOK, Labels, OneCallPerClient, SeenIsCurrent,
           NeverReinserted, NoWinWhileSpinning, SpinStopAnswerCoherent
<1>2. SerialInv /\ [Next]_vars => SerialInv'
    BY SerialInvInductive
<1> QED BY <1>1, <1>2, PTL DEF Spec

\* No machine is ever replaced by a new one, as long as the calls for one
\* GUID follow each other.
THEOREM MachinesSurvive ==
    ASSUME Overlap = FALSE
    PROVE  Spec => []NeverReinserted
<1>1. SerialInv => NeverReinserted
    BY DEF SerialInv
<1> QED BY <1>1, SerialInvHolds, PTL

\* No machine shows winnings while it spins.
THEOREM SpinningShowsNoWin ==
    ASSUME Overlap = FALSE
    PROVE  Spec => []NoWinWhileSpinning
<1>1. SerialInv => NoWinWhileSpinning
    BY DEF SerialInv
<1> QED BY <1>1, SerialInvHolds, PTL

\* The answer to a SpinStop reports the winnings of the matrix it reports.
THEOREM AnswersCohere ==
    ASSUME Overlap = FALSE
    PROVE  Spec => []SpinStopAnswerCoherent
<1>1. SerialInv => SpinStopAnswerCoherent
    BY DEF SerialInv
<1> QED BY <1>1, SerialInvHolds, PTL

-----------------------------------------------------------------------------
(* RequestHandler implements Accounts.                                     *)

\* The protocol's vocabulary is the same in both specifications.
LEMMA SameProtocol ==
    /\ A!NewMachine = NewMachine
    /\ A!NoAnswer = NoAnswer
    /\ A!Types = Types
    /\ \A g, type, value, m :
           A!AnswerJson(g, type, value, m) = AnswerJson(g, type, value, m)
BY DEF A!NewMachine, NewMachine, A!NoAnswer, NoAnswer, A!Types, Types,
       A!MachineTypes, MachineTypes, A!AnswerJson, AnswerJson, A!NoMachine, NoMachine

\* An answer is never the placeholder for no answer.
LEMMA AnswerIsSomething ==
    ASSUME NEW g, NEW type \in Types, NEW value, NEW m
    PROVE  AnswerJson(g, type, value, m) # NoAnswer
<1>1. AnswerJson(g, type, value, m).type = type /\ NoAnswer.type = "none"
    BY DEF AnswerJson, NoAnswer
<1>2. type # "none"
    BY DEF Types, MachineTypes
<1> QED BY <1>1, <1>2

\* The other threads' answers are not touched by a step.
LEMMA OthersReply ==
    ASSUME SerialInv, NEW t \in Thread, Step(t), NEW u \in Thread \ {t}
    PROVE  AccountReply'[u] = AccountReply[u]
<1>1. /\ pc'[u] = pc[u] /\ req'[u] = req[u] /\ ok'[u] = ok[u]
    BY StepShape DEF SerialInv
<1>2. CASE pc[u] = "answer"
    <2>1. Client(u)' = Client(u) /\ Guid(u)' = Guid(u)
        BY <1>2, OthersUntouched DEF SerialInv
    <2> QED BY <1>1, <1>2, <2>1 DEF AccountReply, AnswerOf
<1>3. CASE pc[u] # "answer"
    BY <1>1, <1>3 DEF AccountReply
<1> QED BY <1>2, <1>3

\* A thread that is before its answer owes none.
LEMMA NothingOwed ==
    ASSUME NEW t \in Thread, pc[t] # "answer"
    PROVE  AccountReply[t] = NoAnswer
BY DEF AccountReply

\* A branch of processResponce that accepts is Perform.
LEMMA AcceptPerforms ==
    ASSUME SerialInv, NEW t \in Thread, Step(t), pc[t] = "write",
           NEW after, after # Absent, Accept(t, after),
           NEW value \in Values \cup {0}, NEW drawn \in Matrices,
           req[t].type \in Types, A!Accepts(Client(t), req[t].type),
           after = A!After(Client(t), req[t].type, value, drawn)
    PROVE  A!Perform(t, Guid(t), req[t].type, value, drawn)
<1>1. /\ Guid(t) \in GUID /\ Client(t) # Absent
      /\ AccountMachine[Guid(t)] = Client(t)
    BY RequestType, MachineType DEF SerialInv, TypeOK, Guid, Client, AccountMachine
<1>2. m_clients' = [m_clients EXCEPT ![Guid(t)] = after]
    BY DEF Accept
<1>3. AccountMachine' = [AccountMachine EXCEPT ![Guid(t)] = after]
    BY <1>1, <1>2 DEF AccountMachine, SerialInv, TypeOK
<1>4. AccountReply[t] = NoAnswer
    BY NothingOwed
<1>5. AccountReply'[t] = AnswerJson(Guid(t), req[t].type, TRUE, after)
    <2>1. /\ pc'[t] = "answer" /\ ok'[t] = TRUE /\ Guid(t)' = Guid(t)
          /\ req'[t] = req[t] /\ Client(t)' = after
        BY <1>1, <1>2 DEF Accept, SerialInv, TypeOK, Guid, Client
    <2> QED BY <2>1 DEF AccountReply, AnswerOf
<1>6. AccountReply' = [AccountReply EXCEPT ![t] = AnswerJson(Guid(t), req[t].type, TRUE, after)]
    <2>1. \A u \in Thread \ {t} : AccountReply'[u] = AccountReply[u]
        BY OthersReply
    <2> QED BY <1>5, <2>1 DEF AccountReply
<1> QED BY <1>1, <1>3, <1>4, <1>6, SameProtocol DEF A!Perform

\* A refused request is Perform as well: it changes nothing but the answer.
LEMMA RefusePerforms ==
    ASSUME SerialInv, NEW t \in Thread, Step(t), Refuse(t)
    PROVE  \E value \in Values \cup {0}, drawn \in Matrices :
              A!Perform(t, Guid(t), req[t].type, value, drawn)
<1>1. /\ Guid(t) \in GUID /\ Client(t) # Absent
      /\ AccountMachine[Guid(t)] = Client(t) /\ AccountMachine \in [GUID -> Machine]
    <2>1. pc[t] = "write"
        BY DEF Refuse
    <2> QED BY <2>1, RequestType, MachineType DEF SerialInv, TypeOK, Guid, Client, AccountMachine
<1>2. A!Accepts(Client(t), req[t].type) = FALSE
    <2>1. seen[t] = Client(t) /\ Client(t) \in Machine /\ Client(t).totalBet \in Nat
        BY DEF Refuse, SerialInv, SeenIsCurrent, TypeOK, Machine
    <2> QED BY <2>1 DEF Refuse, A!Accepts
<1>3. UNCHANGED m_clients /\ UNCHANGED AccountMachine
    BY DEF Refuse, Goto, AccountMachine
<1>4. AccountReply' = [AccountReply EXCEPT ![t] = AnswerJson(Guid(t), req[t].type, FALSE, Client(t))]
    <2>1. /\ pc'[t] = "answer" /\ ok'[t] = FALSE /\ Guid(t)' = Guid(t)
          /\ req'[t] = req[t] /\ Client(t)' = Client(t)
        BY DEF Refuse, Goto, SerialInv, TypeOK, Guid, Client
    <2>2. AccountReply'[t] = AnswerJson(Guid(t), req[t].type, FALSE, Client(t))
        BY <2>1 DEF AccountReply, AnswerOf
    <2>3. \A u \in Thread \ {t} : AccountReply'[u] = AccountReply[u]
        BY OthersReply
    <2> QED BY <2>2, <2>3 DEF AccountReply
<1>5. AccountReply[t] = NoAnswer
    BY NothingOwed DEF Refuse
<1>6. PICK drawn \in Matrices : TRUE
    BY MatrixAssumption
<1>7. AccountMachine' = [AccountMachine EXCEPT ![Guid(t)] = Client(t)]
    BY <1>1, <1>3
<1>8. A!Perform(t, Guid(t), req[t].type, 0, drawn)
    BY <1>1, <1>2, <1>4, <1>5, <1>7, SameProtocol DEF A!Perform
<1> QED BY <1>6, <1>8

\* The step of a branch, on whichever side it goes, is a Perform.
LEMMA ProcessPerforms ==
    ASSUME SerialInv, NEW t \in Thread, Step(t), Process(t)
    PROVE  A!AcctNext
<1> DEFINE Performs == \E value \in Values \cup {0}, drawn \in Matrices :
                           A!Perform(t, Guid(t), req[t].type, value, drawn)
<1>1. pc[t] = "write" /\ req[t].type \in Types \ {"Empty"}
    BY DEF Process, Query, SpinStart, SpinStop, AddBet, DelBet, SetBet,
           LoadContent, Refuse, Branch, Types, MachineTypes
<1>2. /\ seen[t] = Client(t) /\ Client(t) \in Machine /\ Guid(t) \in GUID
      /\ Client(t) # Absent
    BY <1>1, RequestType, MachineType DEF SerialInv, SeenIsCurrent, TypeOK, Guid
<1>3. PICK any \in Matrices : TRUE
    BY MatrixAssumption
<1>4. ASSUME NEW after, after # Absent, Accept(t, after),
             NEW value \in Values \cup {0}, NEW drawn \in Matrices,
             A!Accepts(Client(t), req[t].type),
             after = A!After(Client(t), req[t].type, value, drawn)
      PROVE  Performs
    BY <1>1, <1>4, AcceptPerforms
<1> HIDE DEF Performs
<1>5. Performs => A!AcctNext
    BY <1>1, <1>2, SameProtocol DEF Performs, A!AcctNext
<1>6. ASSUME NEW m \in Machine PROVE m # Absent
    BY MachineType
<1>7. CASE Query(t)
    <2>1. Accept(t, Client(t)) /\ req[t].type = "Machine"
        BY <1>7 DEF Query, Branch
    <2>2. /\ A!Accepts(Client(t), "Machine")
          /\ Client(t) = A!After(Client(t), "Machine", 0, any)
        BY DEF A!Accepts, A!After
    <2> QED BY <1>2, <1>4, <1>5, <2>1, <2>2
<1>8. CASE SpinStart(t)
    <2> DEFINE after == [Client(t) EXCEPT !.winner = 0, !.status = "Spin"]
    <2>1. Accept(t, after) /\ req[t].type = "SpinStart"
        BY <1>2, <1>8 DEF SpinStart, Branch
    <2>2. after \in Machine
        BY <1>2 DEF Machine, Status
    <2>3. /\ A!Accepts(Client(t), "SpinStart")
          /\ after = A!After(Client(t), "SpinStart", 0, any)
        BY <1>2, <1>8 DEF SpinStart, A!Accepts, A!After, Machine
    <2> HIDE DEF after
    <2> QED BY <1>4, <1>5, <1>6, <2>1, <2>2, <2>3
<1>9. ASSUME NEW drawn \in Matrices, SpinStop(t, drawn) PROVE A!AcctNext
    <2> DEFINE after == [Client(t) EXCEPT !.matrix = drawn, !.status = "Stop",
                                   !.winner = Payout(drawn, Client(t).totalBet)]
    <2>1. Accept(t, after) /\ req[t].type = "SpinStop"
        BY <1>2, <1>9 DEF SpinStop, Branch
    <2>2. after \in Machine
        BY <1>2, DrawnType
    <2>3. /\ A!Accepts(Client(t), "SpinStop")
          /\ after = A!After(Client(t), "SpinStop", 0, drawn)
        BY <1>2, <1>9 DEF SpinStop, A!Accepts, A!After, Machine, A!Payout, Payout
    <2> HIDE DEF after
    <2> QED BY <1>4, <1>5, <1>6, <2>1, <2>2, <2>3
<1>10. CASE AddBet(t)
    <2> DEFINE after == [Client(t) EXCEPT !.totalBet = Client(t).totalBet + 10]
    <2>1. Accept(t, after) /\ req[t].type = "AddBet"
        BY <1>2, <1>10 DEF AddBet, Branch
    <2>2. after \in Machine
        BY <1>2 DEF Machine
    <2>3. /\ A!Accepts(Client(t), "AddBet")
          /\ after = A!After(Client(t), "AddBet", 0, any)
        BY <1>2, <1>10 DEF AddBet, A!Accepts, A!After, Machine
    <2> HIDE DEF after
    <2> QED BY <1>4, <1>5, <1>6, <2>1, <2>2, <2>3
<1>11. CASE DelBet(t)
    <2> DEFINE after == [Client(t) EXCEPT !.totalBet = NotNegative(Client(t).totalBet - 10)]
    <2>1. Accept(t, after) /\ req[t].type = "DelBet"
        BY <1>2, <1>11 DEF DelBet, Branch
    <2>2. after \in Machine
        BY <1>2 DEF Machine, NotNegative
    <2>3. /\ A!Accepts(Client(t), "DelBet")
          /\ after = A!After(Client(t), "DelBet", 0, any)
        BY <1>2, <1>11 DEF DelBet, A!Accepts, A!After, Machine, A!NotNegative, NotNegative
    <2> HIDE DEF after
    <2> QED BY <1>4, <1>5, <1>6, <2>1, <2>2, <2>3
<1>12. CASE SetBet(t)
    <2> DEFINE value == req[t].value
               after == [Client(t) EXCEPT !.totalBet = NotNegative(value)]
    <2>1. Accept(t, after) /\ req[t].type = "SetBet"
        BY <1>12 DEF SetBet, Branch
    <2>2. value \in Values \cup {0} /\ value \in Int
        BY <1>1, RequestType DEF SerialInv, TypeOK, Requests
    <2>3. after \in Machine
        BY <1>2, <2>2 DEF Machine, NotNegative
    <2>4. /\ A!Accepts(Client(t), "SetBet")
          /\ after = A!After(Client(t), "SetBet", value, any)
        BY DEF A!Accepts, A!After, A!NotNegative, NotNegative
    <2> HIDE DEF after, value
    <2> QED BY <1>4, <1>5, <1>6, <2>1, <2>2, <2>3, <2>4
<1>13. ASSUME NEW drawn \in Matrices, LoadContent(t, drawn) PROVE A!AcctNext
    <2> DEFINE after == [Client(t) EXCEPT !.matrix = drawn]
    <2>1. Accept(t, after) /\ req[t].type = "LoadContent"
        BY <1>2, <1>13 DEF LoadContent, Branch
    <2>2. after \in Machine
        BY <1>2, DrawnType
    <2>3. /\ A!Accepts(Client(t), "LoadContent")
          /\ after = A!After(Client(t), "LoadContent", 0, drawn)
        BY <1>2, <1>13 DEF LoadContent, A!Accepts, A!After, Machine
    <2> HIDE DEF after
    <2> QED BY <1>4, <1>5, <1>6, <2>1, <2>2, <2>3
<1>14. CASE Refuse(t)
    <2>1. Performs
        BY <1>14, RefusePerforms DEF Performs
    <2> QED BY <1>5, <2>1
<1> QED BY <1>7, <1>8, <1>9, <1>10, <1>11, <1>12, <1>13, <1>14 DEF Process

\* Every step of a thread is a step of Accounts or none.
LEMMA StepRefines ==
    ASSUME SerialInv, NEW t \in Thread, Step(t)
    PROVE  [A!AcctNext]_<<AccountMachine, AccountReply>>
<1>1. CASE Process(t)
    BY <1>1, ProcessPerforms
<1>2. CASE Answer(t)
    <2>1. UNCHANGED AccountMachine
        BY <1>2 DEF Answer, Leave, Goto, AccountMachine
    <2>2. req[t].type \in Types
        BY <1>2 DEF Answer, SerialInv, TypeOK
    <2>3. AccountReply[t] # NoAnswer
        BY <1>2, <2>2, AnswerIsSomething DEF Answer, AccountReply, AnswerOf
    <2>4. AccountReply'[t] = NoAnswer
        BY <1>2 DEF Answer, Leave, Goto, AccountReply, SerialInv, TypeOK
    <2>5. AccountReply' = [AccountReply EXCEPT ![t] = NoAnswer]
        BY <2>4, OthersReply DEF AccountReply
    <2>6. A!Send(t)
        BY <2>1, <2>3, <2>5, SameProtocol DEF A!Send
    <2> QED BY <2>6 DEF A!AcctNext
<1>3. CASE ~Process(t) /\ ~Answer(t)
    <2>1. pc[t] # "answer" /\ pc'[t] # "answer"
        BY <1>3 DEF Step, Receive, Reject, Contains, Insert, NoReply, Read, Leave, Goto,
                    SerialInv, TypeOK
    <2>2. AccountReply' = AccountReply
        BY <2>1, OthersReply DEF AccountReply
    <2>3. CASE Insert(t)
        <3>1. Client(t) = Absent
            BY <2>3 DEF Insert, SerialInv, NeverReinserted
        <3>2. AccountMachine' = AccountMachine
            BY <2>3, <3>1, MachineType DEF Insert, AccountMachine, Client, SerialInv, TypeOK
        <3> QED BY <2>2, <3>2
    <2>4. CASE ~Insert(t)
        <3>1. m_clients' = m_clients
            BY <1>3, <2>4 DEF Step, Receive, Reject, Contains, NoReply, Read, Leave, Goto
        <3> QED BY <2>2, <3>1 DEF AccountMachine
    <2> QED BY <2>3, <2>4
<1> QED BY <1>1, <1>2, <1>3

\* With calls that do not overlap, the servlet implements Accounts: requests
\* take effect one at a time on the machine of their GUID and the answers
\* show their effect, for any clients, threads, matrices and bets.
THEOREM ImplementsAccounts ==
    ASSUME Overlap = FALSE
    PROVE  Spec => AtomicRequests
<1>1. Init => A!AcctInit
    BY SameProtocol DEF Init, A!AcctInit, AccountMachine, AccountReply
<1>2. SerialInv /\ [Next]_vars => [A!AcctNext]_<<AccountMachine, AccountReply>>
    <2> SUFFICES ASSUME SerialInv, [Next]_vars
                 PROVE  [A!AcctNext]_<<AccountMachine, AccountReply>>
        OBVIOUS
    <2>1. CASE Restart
        <3>1. A!Forget
            BY <2>1, SameProtocol DEF Restart, A!Forget, AccountMachine, AccountReply
        <3> QED BY <3>1 DEF A!AcctNext
    <2>2. CASE UNCHANGED vars
        BY <2>2 DEF vars, AccountMachine, AccountReply, AnswerOf, Client, Guid
    <2> QED BY <2>1, <2>2, StepRefines DEF Next
<1> QED BY <1>1, <1>2, SerialInvHolds, PTL DEF Spec, AtomicRequests, A!AcctSpec, A!acctVars

\* Each round is settled once.
THEOREM RoundsSettleOnce ==
    ASSUME Overlap = FALSE
    PROVE  Spec => SettledOnce
<1> DEFINE Settles(g) ==
               m_clients[g] # Absent /\ m_clients'[g] # Absent
               /\ m_clients'[g].winner > 0 /\ m_clients'[g].winner # m_clients[g].winner
                   => m_clients[g].status = "Spin" /\ m_clients'[g].status = "Stop"
<1>1. ASSUME SerialInv, NEW t \in Thread, Step(t), NEW g \in GUID
      PROVE  Settles(g)
    <2>1. CASE m_clients'[g] = m_clients[g]
        BY <2>1
    <2>2. CASE m_clients'[g] # m_clients[g]
        <3>1. pc[t] # "idle" /\ g = Guid(t)
            BY <1>1, <2>2, StepShape DEF SerialInv
        <3>2. CASE Insert(t)
            BY <3>1, <3>2 DEF Insert, SerialInv, TypeOK, NewMachine
        <3>3. CASE Process(t)
            <4>1. pc[t] = "write"
                BY <3>3 DEF Process, Query, SpinStart, SpinStop, AddBet, DelBet, SetBet,
                            LoadContent, Refuse, Branch
            <4>2. /\ Client(t) \in Machine /\ Client(t) = m_clients[g]
                  /\ seen[t] = m_clients[g]
                BY <1>1, <3>1, <4>1 DEF SerialInv, SeenIsCurrent, TypeOK, Client
            <4>3. CASE SpinStart(t)
                BY <1>1, <3>1, <4>2, <4>3 DEF SpinStart, Accept, SerialInv, TypeOK, Machine
            <4>4. ASSUME NEW drawn \in Matrices, SpinStop(t, drawn) PROVE Settles(g)
                BY <1>1, <3>1, <4>2, <4>4 DEF SpinStop, Accept, SerialInv, TypeOK, Machine
            <4>5. CASE Query(t) \/ AddBet(t) \/ DelBet(t) \/ SetBet(t)
                         \/ \E drawn \in Matrices : LoadContent(t, drawn)
                BY <1>1, <3>1, <4>2, <4>5
                DEF Query, AddBet, DelBet, SetBet, LoadContent, Accept, SerialInv, TypeOK, Machine
            <4>6. CASE Refuse(t)
                BY <2>2, <4>6 DEF Refuse, Goto
            <4> QED BY <3>3, <4>3, <4>4, <4>5, <4>6 DEF Process
        <3>4. CASE ~Insert(t) /\ ~Process(t)
            <4>1. m_clients' = m_clients
                BY <1>1, <3>4 DEF Step, Receive, Reject, Contains, NoReply, Read, Answer, Leave, Goto
            <4> QED BY <2>2, <4>1
        <3> QED BY <3>2, <3>3, <3>4
    <2> QED BY <2>1, <2>2
<1>2. SerialInv /\ [Next]_vars => [\A g \in GUID : Settles(g)]_vars
    <2>1. ASSUME Restart, NEW g \in GUID PROVE Settles(g)
        BY <2>1 DEF Restart
    <2> QED BY <1>1, <2>1 DEF Next
<1> QED BY <1>2, SerialInvHolds, PTL DEF Spec, SettledOnce
=============================================================================
