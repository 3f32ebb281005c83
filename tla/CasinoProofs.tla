---------------------------- MODULE CasinoProofs ----------------------------
(* Proofs about one player's game (module Casino): the types of its state,  *)
(* that one start is under way at a time, that the scene follows the server *)
(* and shows the win it has paid.  And about the offline client             *)
(* (FakeClient): the scene is told the round that was played.               *)
EXTENDS Casino, FakeClient, TLAPS

-----------------------------------------------------------------------------
(* Sequences, place by place.                                              *)

\* A message that joins a queue takes the place behind the last.
LEMMA AppendPlaces ==
    ASSUME NEW S, NEW s \in Seq(S), NEW e \in S
    PROVE  /\ Append(s, e) \in Seq(S)
           /\ Len(s) \in Nat /\ Len(Append(s, e)) = Len(s) + 1
           /\ DOMAIN s = 1..Len(s) /\ DOMAIN Append(s, e) = 1..(Len(s) + 1)
           /\ \A i \in 1..Len(s) : Append(s, e)[i] = s[i]
           /\ Append(s, e)[Len(s) + 1] = e
OBVIOUS

\* When the first message of a queue leaves, the others move up.
LEMMA TailPlaces ==
    ASSUME NEW S, NEW s \in Seq(S), s # <<>>
    PROVE  /\ Tail(s) \in Seq(S) /\ Head(s) \in S
           /\ Len(s) \in Nat /\ Len(s) >= 1 /\ Len(Tail(s)) = Len(s) - 1
           /\ DOMAIN s = 1..Len(s) /\ DOMAIN Tail(s) = 1..(Len(s) - 1)
           /\ \A i \in 1..(Len(s) - 1) : Tail(s)[i] = s[i + 1]
           /\ Head(s) = s[1]
OBVIOUS

\* The first of a queue leaves it the same way whether or not one joins it.
LEMMA TailOfAppend ==
    ASSUME NEW S, NEW s \in Seq(S), NEW e \in S, s # <<>>
    PROVE  /\ Append(s, e) # <<>>
           /\ Head(Append(s, e)) = Head(s)
           /\ Tail(Append(s, e)) = Append(Tail(s), e)
OBVIOUS

-----------------------------------------------------------------------------
(* Payouts and machines.                                                   *)

\* The winnings of any matrix and any bet are a natural number.
LEMMA WinType ==
    ASSUME NEW m \in Matrices, NEW bet \in Nat
    PROVE  Payout(m, bet) \in Nat
<1>1. lineCount[m] \in Nat /\ lineUnits[m] \in Nat
    BY MatrixAssumption
<1>2. CASE lineCount[m] = 0 \/ bet = 0
    BY <1>2 DEF Payout
<1>3. CASE lineCount[m] # 0 /\ bet # 0
    <2>1. bet \div lineCount[m] \in Nat
        BY <1>1, <1>3
    <2>2. (bet \div lineCount[m]) * lineUnits[m] \in Nat
        BY <1>1, <2>1
    <2> QED BY <1>3, <2>2 DEF Payout
<1> QED BY <1>2, <1>3

LEMMA NewMachineType == NewMachine \in Machine /\ NoMachine \notin Machine
BY DEF NewMachine, Machine, Status, NoMachine

-----------------------------------------------------------------------------
(* The offline client.                                                     *)

\* The scene is told the round as it was played offline.
THEOREM OfflineTold == FakeSpec => []OfflineRoundIsTold
<1> DEFINE Inv == offline \in Machine /\ OfflineRoundIsTold
<1>1. FakeInit => Inv
    BY NewMachineType DEF FakeInit, OfflineRoundIsTold, NewMachine
<1>2. Inv /\ [FakeNext]_fakeVars => Inv'
    <2> SUFFICES ASSUME Inv, [FakeNext]_fakeVars PROVE Inv'
        OBVIOUS
    <2>1. CASE spinStart
        BY <2>1 DEF spinStart, updateMachine, OfflineRoundIsTold, Machine, Status
    <2>2. CASE spinStop
        <3>1. PICK drawn \in Matrices :
                /\ offline' = [offline EXCEPT !.matrix = drawn, !.status = "Stop",
                                             !.winner = Payout(drawn, offline.totalBet)]
                /\ won' = Payout(drawn, offline.totalBet)
            BY <2>2 DEF spinStop, Machine
        <3>2. offline' \in Machine /\ offline'.status = "Stop"
            <4>1. offline.totalBet \in Nat
                BY DEF Machine
            <4>2. won' \in Nat
                BY <3>1, <4>1, WinType
            <4> QED BY <3>1, <4>2 DEF Machine, Status
        <3>3. offline'.winner = won'
            BY <3>1 DEF Machine
        <3> QED BY <2>2, <3>2, <3>3 DEF spinStop, updateMachine, OfflineRoundIsTold
    <2>3. ASSUME NEW bet \in Nat, ChangeBet(bet) PROVE Inv'
        BY <2>3 DEF ChangeBet, updateMachine, OfflineRoundIsTold, Machine
    <2>4. offline.totalBet \in Nat
        BY DEF Machine
    <2>5. CASE setBet \/ addBet \/ delBet
        BY <2>3, <2>4, <2>5, OfflineAssumption DEF setBet, addBet, delBet
    <2>6. CASE getMachine
        BY <2>6 DEF getMachine, OfflineRoundIsTold
    <2>7. CASE UNCHANGED fakeVars
        BY <2>7 DEF fakeVars, OfflineRoundIsTold
    <2> QED BY <2>1, <2>2, <2>5, <2>6, <2>7 DEF FakeNext
<1>3. Inv => OfflineRoundIsTold
    OBVIOUS
<1> QED BY <1>1, <1>2, <1>3, PTL DEF FakeSpec

-----------------------------------------------------------------------------
(* The server, one request at a time.                                      *)

\* The machine a request leaves, and its answer.
Left(m, type, drawn) == IF Accepts(m, type) THEN After(m, type, 0, drawn) ELSE m
Said(m, type, drawn) == AnswerJson(Me, type, Accepts(m, type), Left(m, type, drawn))

\* What each request of a scene does to a machine.
LEMMA LeftFacts ==
    ASSUME NEW m \in Machine, NEW type \in Asked, NEW drawn \in Matrices
    PROVE  /\ Left(m, type, drawn) \in Machine
           /\ type = "SpinStart" => /\ Accepts(m, type) => m.status = "Stop"
                                    /\ ~Accepts(m, type) => Left(m, type, drawn) = m
           /\ type = "SpinStop" => (Accepts(m, type) <=> m.status = "Spin")
           /\ type = "SpinStop" => Left(m, type, drawn).status = "Stop"
           /\ type = "SpinStop" /\ ~Accepts(m, type) => Left(m, type, drawn) = m
           /\ type = "LoadContent" => Told(Left(m, type, drawn)) = Told(m)
           /\ type \in {"Machine", "AddBet", "DelBet"} =>
                  /\ Left(m, type, drawn).matrix = m.matrix
                  /\ Left(m, type, drawn).winner = m.winner
                  /\ Left(m, type, drawn).status = m.status
<1>1. CASE type = "SpinStart"
    BY <1>1 DEF Left, Accepts, After, Machine, Status
<1>2. CASE type = "SpinStop"
    <2>1. m.totalBet \in Nat
        BY DEF Machine
    <2> DEFINE win == Payout(drawn, m.totalBet)
    <2>2. win \in Nat
        BY <2>1, WinType
    <2>3. After(m, type, 0, drawn) = [m EXCEPT !.matrix = drawn, !.status = "Stop", !.winner = win]
        BY <1>2 DEF After
    <2> HIDE DEF win
    <2> QED BY <1>2, <2>2, <2>3 DEF Left, Accepts, Machine, Status
<1>3. CASE type \in {"AddBet", "DelBet"}
    <2>1. m.totalBet \in Nat /\ m.totalBet + 10 \in Nat /\ NotNegative(m.totalBet - 10) \in Nat
        BY DEF Machine, NotNegative
    <2> QED BY <1>3, <2>1 DEF Left, Accepts, After, Machine
<1>4. CASE type = "LoadContent"
    BY <1>4 DEF Left, Accepts, After, Machine, Told
<1>5. CASE type = "Machine"
    BY <1>5 DEF Left, Accepts, After
<1> QED BY <1>1, <1>2, <1>3, <1>4, <1>5 DEF Asked

\* An answer of the server is one the scene expects.
LEMMA SaidType ==
    ASSUME NEW m \in Machine, NEW type \in Asked, NEW drawn \in Matrices
    PROVE  /\ Said(m, type, drawn) \in Answer
           /\ Said(m, type, drawn).type = type
           /\ Said(m, type, drawn).value = Accepts(m, type)
           /\ Accepts(m, type) /\ type \in MachineTypes
                  => Said(m, type, drawn).Machine = Left(m, type, drawn)
<1>1. Left(m, type, drawn) \in Machine
    BY LeftFacts
<1>2. Accepts(m, type) \in BOOLEAN
    <2>1. CASE type = "SpinStart"
        BY <2>1 DEF Accepts
    <2>2. CASE type = "SpinStop"
        BY <2>2 DEF Accepts
    <2>3. CASE type = "DelBet"
        BY <2>3 DEF Accepts
    <2>4. CASE type \in {"AddBet", "Machine", "LoadContent"}
        BY <2>4 DEF Accepts
    <2> QED BY <2>1, <2>2, <2>3, <2>4 DEF Asked
<1> DEFINE left == Left(m, type, drawn)
           ok == Accepts(m, type)
<1>3. Said(m, type, drawn) = [GUID |-> Me, type |-> type, value |-> ok,
                              Machine |-> IF ok /\ type \in MachineTypes THEN left ELSE NoMachine]
    BY DEF Said, AnswerJson
<1>4. left \in Machine /\ ok \in BOOLEAN
    BY <1>1, <1>2
<1> HIDE DEF left, ok
<1>5. Said(m, type, drawn) \in [GUID : {Me}, type : Asked, value : BOOLEAN,
                                Machine : Machine \cup {NoMachine}]
    BY <1>3, <1>4
<1>6. /\ Said(m, type, drawn) \in Answer /\ Said(m, type, drawn).type = type
      /\ Said(m, type, drawn).value = ok
      /\ ok /\ type \in MachineTypes => Said(m, type, drawn).Machine = left
    BY <1>3, <1>4, <1>5 DEF Answer
<1> QED BY <1>6 DEF left, ok

-----------------------------------------------------------------------------
(* How the steps change the answers on their way.                          *)

LEMMA AnswerIsSomething == NoAnswer \notin Answer
BY DEF NoAnswer, Answer, Asked

LEMMA ComingType ==
    ASSUME TypeOK
    PROVE  /\ Coming \in Seq(Answer)
           /\ machine[Me] \in Machine
           /\ reply[Wire] \in Answer \cup {NoAnswer}
<1>1. machine[Me] \in Machine /\ reply[Wire] \in Answer \cup {NoAnswer}
    BY PlayerAssumption DEF TypeOK
<1>2. CASE reply[Wire] = NoAnswer
    BY <1>1, <1>2 DEF Coming, TypeOK
<1>3. CASE reply[Wire] # NoAnswer
    BY <1>1, <1>3, AppendPlaces DEF Coming, TypeOK
<1> QED BY <1>1, <1>2, <1>3

\* Serving a request takes it off its queue and puts its answer last.
LEMMA ServeStep ==
    ASSUME TypeOK, Serve
    PROVE  /\ requests # <<>> /\ requests' = Tail(requests)
           /\ reply[Wire] = NoAnswer
           /\ UNCHANGED <<answers, scene, losses, restarts>>
           /\ \E drawn \in Matrices, type \in Asked :
                  /\ type = requests[1]
                  /\ machine' \in [GUID -> Machine]
                  /\ machine'[Me] = Left(machine[Me], type, drawn)
                  /\ reply' \in [Thread -> Answer \cup {NoAnswer}]
                  /\ Coming' = Append(Coming, Said(machine[Me], type, drawn))
<1>1. PICK drawn \in Matrices : Perform(Wire, Me, Head(requests), 0, drawn)
    BY DEF Serve
<1>2. requests # <<>> /\ requests \in Seq(Asked)
    BY DEF Serve, TypeOK
<1> DEFINE type == Head(requests)
<1>3. type \in Asked /\ type = requests[1]
    BY <1>2, TailPlaces
<1> DEFINE left == Left(machine[Me], type, drawn)
           said == Said(machine[Me], type, drawn)
<1>4. machine[Me] \in Machine
    BY ComingType
<1>5. left \in Machine /\ said \in Answer
    BY <1>3, <1>4, LeftFacts, SaidType
<1>6. /\ reply[Wire] = NoAnswer
      /\ machine' = [machine EXCEPT ![Me] = left]
      /\ reply' = [reply EXCEPT ![Wire] = said]
    BY <1>1 DEF Perform, Left, Said
<1> HIDE DEF left, said, type
<1>7. /\ machine' \in [GUID -> Machine] /\ machine'[Me] = left
      /\ reply' \in [Thread -> Answer \cup {NoAnswer}] /\ reply'[Wire] = said
    BY <1>5, <1>6, PlayerAssumption DEF TypeOK
<1>8. said # NoAnswer
    BY <1>5, AnswerIsSomething
<1>9. Coming = answers /\ Coming' = Append(answers, said)
    BY <1>6, <1>7, <1>8 DEF Coming, Serve
<1> QED BY <1>2, <1>3, <1>6, <1>7, <1>9 DEF Serve, type, left, said

\* The network hands an answer on without changing what is to come.
LEMMA ArriveStep ==
    ASSUME TypeOK, Arrive
    PROVE  /\ Coming' = Coming
           /\ UNCHANGED <<machine, requests, scene, losses, restarts>>
           /\ answers' \in Seq(Answer) /\ reply' \in [Thread -> Answer \cup {NoAnswer}]
<1>1. reply[Wire] \in Answer /\ reply' = [reply EXCEPT ![Wire] = NoAnswer]
      /\ reply[Wire] # NoAnswer
    BY ComingType DEF Arrive, Send
<1>2. reply' \in [Thread -> Answer \cup {NoAnswer}] /\ reply'[Wire] = NoAnswer
    BY <1>1, PlayerAssumption DEF TypeOK
<1> QED BY <1>1, <1>2, AppendPlaces DEF Arrive, Send, Coming, TypeOK

\* A lost answer is the last of those to come.
LEMMA LoseAnswerStep ==
    ASSUME TypeOK, LoseAnswer
    PROVE  /\ Coming = Append(answers, reply[Wire]) /\ reply[Wire] \in Answer
           /\ Coming' = answers /\ losses' = losses + 1
           /\ UNCHANGED <<machine, requests, answers, scene, restarts>>
           /\ reply' \in [Thread -> Answer \cup {NoAnswer}]
<1>1. reply[Wire] \in Answer /\ reply' = [reply EXCEPT ![Wire] = NoAnswer]
      /\ reply[Wire] # NoAnswer
    BY ComingType DEF LoseAnswer, Send
<1>2. reply' \in [Thread -> Answer \cup {NoAnswer}] /\ reply'[Wire] = NoAnswer
    BY <1>1, PlayerAssumption DEF TypeOK
<1> QED BY <1>1, <1>2 DEF LoseAnswer, Send, Coming, wire

\* The scene dispatches the first of the answers to come.
LEMMA DispatchStep ==
    ASSUME TypeOK, Dispatch
    PROVE  /\ Coming # <<>> /\ Coming' = Tail(Coming)
           /\ Head(answers) = Coming[1] /\ Head(answers) \in Answer
           /\ UNCHANGED <<machine, reply, requests, losses, restarts>>
           /\ answers' \in Seq(Answer)
<1>1. /\ answers # <<>> /\ answers' = Tail(answers) /\ answers \in Seq(Answer)
      /\ UNCHANGED <<machine, reply, requests, losses, restarts>>
    BY DEF Dispatch, TypeOK, acctVars
<1>2. Coming # <<>> /\ Coming' = Tail(Coming) /\ Head(Coming) = Head(answers)
    <2>1. CASE reply[Wire] = NoAnswer
        BY <1>1, <2>1 DEF Coming
    <2>2. CASE reply[Wire] # NoAnswer
        <3>1. reply[Wire] \in Answer
            BY <2>2, ComingType
        <3> QED BY <1>1, <2>2, <3>1, TailOfAppend DEF Coming
    <2> QED BY <2>1, <2>2
<1>3. Coming \in Seq(Answer)
    BY ComingType
<1> QED BY <1>1, <1>2, <1>3, TailPlaces

\* A press or a poll appends one request and leaves the rest of the wire.
LEMMA RequestStep ==
    ASSUME TypeOK, NEW type \in Asked, Request(type)
    PROVE  /\ loaded
           /\ requests' = Append(requests, type) /\ requests' \in Seq(Asked)
           /\ Coming' = Coming
           /\ UNCHANGED <<machine, reply, answers, loaded, replica, reels, target, label,
                          losses, restarts>>
BY AppendPlaces DEF Request, TypeOK, acctVars, picture, Coming

\* Every press and every poll sends one request; a start only from reels that
\* rest, while no other start is held.
LEMMA PressStep ==
    ASSUME Poll \/ PressPlus \/ PressMinus \/ PressStart \/ PressStop
    PROVE  \E type \in Asked \ {"LoadContent"} :
              /\ Request(type)
              /\ type = "SpinStart" => ~waitStartSpin /\ reels = "rest" /\ waitStartSpin'
              /\ type # "SpinStart" => waitStartSpin' = waitStartSpin
<1>1. CASE Poll
    BY <1>1, "Machine" \in Asked \ {"LoadContent"} DEF Poll, buttons, Asked
<1>2. CASE PressPlus
    BY <1>2, "AddBet" \in Asked \ {"LoadContent"} DEF PressPlus, buttons, Asked
<1>3. CASE PressMinus
    BY <1>3, "DelBet" \in Asked \ {"LoadContent"} DEF PressMinus, buttons, Asked
<1>4. CASE PressStart
    BY <1>4, "SpinStart" \in Asked \ {"LoadContent"} DEF PressStart, Asked
<1>5. CASE PressStop
    BY <1>5, "SpinStop" \in Asked \ {"LoadContent"} DEF PressStop, Asked
<1> QED BY <1>1, <1>2, <1>3, <1>4, <1>5

\* The timers, the reels and the passing of time leave the wire alone.
LEMMA QuietStep ==
    ASSUME FireTimer \/ ReelsStopped \/ UNCHANGED vars
    PROVE  /\ Coming' = Coming
           /\ UNCHANGED <<machine, reply, requests, answers, loaded, replica, waitStartSpin,
                          target, losses, restarts>>
           /\ reels' = reels \/ reels' = "rest"
BY DEF FireTimer, ReelsStopped, vars, acctVars, wire, scene, buttons, picture, Coming

\* What a restart leaves: new machines and the answers that had arrived.
LEMMA RestartStep ==
    ASSUME RestartServer
    PROVE  /\ machine'[Me] = NewMachine /\ Coming' = answers
           /\ restarts' = restarts + 1
           /\ UNCHANGED <<requests, answers, scene, losses>>
BY PlayerAssumption DEF RestartServer, Forget, Coming, wire

\* The answers that have arrived are the first of those to come.
LEMMA ArrivedFirst ==
    ASSUME TypeOK
    PROVE  /\ Len(answers) <= Len(Coming)
           /\ \A i \in DOMAIN answers : i \in DOMAIN Coming /\ answers[i] = Coming[i]
<1>1. CASE reply[Wire] = NoAnswer
    BY <1>1 DEF Coming, TypeOK
<1>2. CASE reply[Wire] # NoAnswer
    BY <1>2, ComingType, AppendPlaces DEF Coming, TypeOK
<1> QED BY <1>1, <1>2

-----------------------------------------------------------------------------
(* The types.                                                              *)

LEMMA CasinoTyped ==
    ASSUME TypeOK, [Next]_vars PROVE TypeOK'
<1>1. CASE Poll \/ PressPlus \/ PressMinus \/ PressStart \/ PressStop
    <2>1. PICK type \in Asked \ {"LoadContent"} :
            /\ Request(type)
            /\ type = "SpinStart" => waitStartSpin'
            /\ type # "SpinStart" => waitStartSpin' = waitStartSpin
        BY <1>1, PressStep
    <2>2. /\ requests' \in Seq(Asked)
          /\ UNCHANGED <<machine, reply, answers, loaded, replica, reels, target, label,
                         losses, restarts>>
        BY <2>1, RequestStep
    <2>3. waitStartSpin' \in BOOLEAN
        BY <1>1 DEF Poll, PressPlus, PressMinus, PressStart, PressStop, buttons, TypeOK
    <2>4. spinEnabled' \in BOOLEAN /\ betEnabled' \in BOOLEAN /\ timers' \in Nat
        <3>1. Freeze \/ UNCHANGED <<spinEnabled, betEnabled, timers>>
            BY <1>1 DEF Poll, PressPlus, PressMinus, PressStart, PressStop, buttons
        <3>2. CASE Freeze
            <4>1. spinEnabled' = FALSE /\ betEnabled' = betEnabled /\ timers' = timers + 1
                BY <3>2 DEF Freeze
            <4>2. timers' \in Nat
                BY <4>1 DEF TypeOK
            <4> QED BY <4>1, <4>2, Zenon DEF TypeOK
        <3>3. CASE UNCHANGED <<spinEnabled, betEnabled, timers>>
            BY <3>3 DEF TypeOK
        <3> QED BY <3>1, <3>2, <3>3
    <2> QED BY <2>2, <2>3, <2>4 DEF TypeOK
<1>2. CASE Serve
    BY <1>2, ServeStep, TailPlaces DEF TypeOK, scene, buttons, picture
<1>3. CASE Arrive
    BY <1>3, ArriveStep DEF TypeOK, scene, buttons, picture
<1>4. CASE LoseRequest
    BY <1>4, TailPlaces DEF LoseRequest, TypeOK, acctVars, scene, buttons, picture
<1>5. CASE LoseAnswer
    BY <1>5, LoseAnswerStep DEF TypeOK, scene, buttons, picture
<1>6. CASE RestartServer
    BY <1>6, NewMachineType DEF RestartServer, Forget, TypeOK, wire, scene, buttons, picture
<1>7. CASE Dispatch
    <2>1. /\ UNCHANGED <<machine, reply, requests, losses, restarts>>
          /\ answers' \in Seq(Answer)
          /\ Head(answers) \in Answer
        BY <1>7, DispatchStep
    <2>2. /\ Head(answers).value \in BOOLEAN
          /\ Head(answers).value /\ Head(answers).type \in MachineTypes
                => Head(answers).Machine \in Machine
        BY <2>1 DEF Answer
    <2>3. CASE Ignore \/ Load
        BY <2>1, <2>3, NewMachineType DEF Ignore, Load, TypeOK, scene, buttons, picture
    <2>4. CASE ShowMachine
        BY <2>1, <2>2, <2>4 DEF ShowMachine, UpdateMachine, MachineTypes, TypeOK, buttons, picture
    <2>5. CASE OnSpinStart
        BY <2>1, <2>2, <2>5 DEF OnSpinStart, UpdateMachine, MachineTypes, TypeOK
    <2>6. CASE OnSpinStop
        <3>1. replica' \in Machine
            BY <2>2, <2>6 DEF OnSpinStop, UpdateMachine, MachineTypes
        <3>2. replica'.matrix \in Matrices \cup {Zeros}
            BY <3>1 DEF Machine
        <3> QED BY <2>1, <2>6, <3>1, <3>2 DEF OnSpinStop, TypeOK, buttons
    <2> QED BY <1>7, <2>3, <2>4, <2>5, <2>6 DEF Dispatch
<1>8. CASE FireTimer
    BY <1>8 DEF FireTimer, TypeOK, acctVars, wire, picture
<1>9. CASE ReelsStopped
    <2>1. replica.winner \in Nat
        BY DEF TypeOK, Machine
    <2> QED BY <1>9, <2>1 DEF ReelsStopped, TypeOK, acctVars, wire
<1>10. CASE UNCHANGED vars
    BY <1>10 DEF vars, TypeOK, acctVars, wire, scene, buttons, picture
<1> QED BY <1>1, <1>2, <1>3, <1>4, <1>5, <1>6, <1>7, <1>8, <1>9, <1>10 DEF Next

-----------------------------------------------------------------------------
(* How the places of starts, stops and machines move with the queues.      *)

\* An answer joins those to come.
LEMMA ComingGrows ==
    ASSUME TypeOK, NEW a \in Answer, Coming' = Append(Coming, a)
    PROVE  /\ Len(Coming) \in Nat /\ Len(Coming') = Len(Coming) + 1
           /\ DOMAIN Coming = 1..Len(Coming)
           /\ \A i \in DOMAIN Coming' :
                \/ i \in DOMAIN Coming /\ Coming'[i] = Coming[i]
                \/ i = Len(Coming) + 1 /\ Coming'[i] = a
           /\ \A i \in DOMAIN Coming :
                i \in Int /\ i < Len(Coming) + 1 /\ i \in DOMAIN Coming' /\ Coming'[i] = Coming[i]
           /\ Len(Coming) + 1 \in DOMAIN Coming' /\ Coming'[Len(Coming) + 1] = a
BY ComingType, AppendPlaces

\* The first of the answers to come is dispatched.
LEMMA ComingShrinks ==
    ASSUME TypeOK, Coming # <<>>, Coming' = Tail(Coming)
    PROVE  /\ Len(Coming) \in Nat /\ Len(Coming) >= 1 /\ Len(Coming') = Len(Coming) - 1
           /\ 1 \in DOMAIN Coming /\ DOMAIN Coming = 1..Len(Coming)
           /\ \A i \in DOMAIN Coming' :
                i \in Nat /\ i >= 1 /\ i + 1 \in DOMAIN Coming /\ Coming'[i] = Coming[i + 1]
           /\ \A i \in DOMAIN Coming :
                i = 1 \/ (i - 1 \in DOMAIN Coming' /\ Coming'[i - 1] = Coming[i] /\ i \in Nat /\ i > 1)
BY ComingType, TailPlaces

\* A request joins its queue, or the first one leaves it.
LEMMA RequestsGrow ==
    ASSUME TypeOK, NEW type \in Asked, requests' = Append(requests, type)
    PROVE  /\ \A i \in DOMAIN requests' :
                \/ i \in DOMAIN requests /\ requests'[i] = requests[i]
                \/ i = Len(requests) + 1 /\ requests'[i] = type
           /\ Len(requests) \in Nat /\ Len(requests') = Len(requests) + 1
BY AppendPlaces DEF TypeOK

LEMMA RequestsShrink ==
    ASSUME TypeOK, requests # <<>>, requests' = Tail(requests)
    PROVE  /\ \A i \in DOMAIN requests' :
                i \in Nat /\ i >= 1 /\ i + 1 \in DOMAIN requests /\ requests'[i] = requests[i + 1]
           /\ 1 \in DOMAIN requests
           /\ Len(requests) \in Nat /\ Len(requests) >= 1 /\ Len(requests') = Len(requests) - 1
BY TailPlaces DEF TypeOK

\* Only the last of the answers to come can be lost.
LEMMA ComingCut ==
    ASSUME TypeOK, Coming' = answers
    PROVE  /\ Len(Coming') <= Len(Coming) /\ Len(Coming) \in Nat /\ Len(Coming') \in Nat
           /\ \A i \in DOMAIN Coming' : i \in DOMAIN Coming /\ Coming'[i] = Coming[i]
BY ArrivedFirst, ComingType DEF TypeOK

-----------------------------------------------------------------------------
(* The content first.                                                      *)

LEMMA LoadFirstStep ==
    ASSUME TypeOK, LoadFirst, [Next]_vars PROVE LoadFirst'
<1>1. CASE Poll \/ PressPlus \/ PressMinus \/ PressStart \/ PressStop
    <2>1. PICK type \in Asked \ {"LoadContent"} : Request(type)
        BY <1>1, PressStep
    <2> QED BY <2>1, RequestStep, RequestsGrow DEF LoadFirst
<1>2. CASE Serve
    <2>1. PICK drawn \in Matrices, type \in Asked :
            /\ type = requests[1]
            /\ machine'[Me] = Left(machine[Me], type, drawn)
            /\ Coming' = Append(Coming, Said(machine[Me], type, drawn))
        BY <1>2, ServeStep
    <2>2. Said(machine[Me], type, drawn) \in Answer /\ Said(machine[Me], type, drawn).type = type
        BY ComingType, SaidType
    <2>3. requests # <<>> /\ requests' = Tail(requests) /\ UNCHANGED scene
        BY <1>2, ServeStep
    <2>4. /\ \A i \in DOMAIN requests' : i + 1 \in DOMAIN requests /\ requests'[i] = requests[i + 1]
          /\ 1 \in DOMAIN requests
          /\ Len(requests) \in Nat /\ Len(requests') = Len(requests) - 1
        BY <2>3, RequestsShrink
    <2>5. /\ \A i \in DOMAIN Coming' :
                \/ i \in DOMAIN Coming /\ Coming'[i] = Coming[i]
                \/ Coming'[i].type = type
          /\ Len(Coming) \in Nat /\ Len(Coming') = Len(Coming) + 1
        BY <2>1, <2>2, ComingGrows
    <2>6. ~loaded => Told(machine'[Me]) = Told(machine[Me])
        BY <2>1, <2>4, ComingType, LeftFacts DEF LoadFirst
    <2>7. \A i \in DOMAIN requests' : requests'[i] = "LoadContent" <=> ~loaded
        BY <2>4 DEF LoadFirst
    <2>8. \A i \in DOMAIN Coming' : Coming'[i].type = "LoadContent" <=> ~loaded
        BY <2>1, <2>4, <2>5 DEF LoadFirst
    <2> QED BY <2>3, <2>4, <2>5, <2>6, <2>7, <2>8 DEF LoadFirst, scene, buttons, picture
<1>3. CASE Arrive
    BY <1>3, ArriveStep DEF LoadFirst, scene, buttons, picture
<1>4. CASE LoseRequest
    BY <1>4, RequestsShrink, ComingType
       DEF LoseRequest, LoadFirst, acctVars, scene, buttons, picture, Coming
<1>5. CASE LoseAnswer
    BY <1>5, LoseAnswerStep, ComingCut DEF LoadFirst, TypeOK, scene, buttons, picture
<1>6. CASE RestartServer
    BY <1>6, RestartStep, ComingCut DEF LoadFirst, TypeOK, scene, buttons, picture
<1>7. CASE Dispatch
    <2>1. /\ \A i \in DOMAIN Coming' : i + 1 \in DOMAIN Coming /\ Coming'[i] = Coming[i + 1]
          /\ 1 \in DOMAIN Coming /\ Head(answers) = Coming[1]
          /\ Len(Coming) \in Nat /\ Len(Coming') = Len(Coming) - 1
          /\ UNCHANGED <<machine, requests>>
        BY <1>7, DispatchStep, ComingShrinks
    <2>2. CASE Ignore
        BY <2>1, <2>2 DEF Ignore, LoadFirst, TypeOK, scene, buttons, picture
    <2>3. CASE Load
        <3>1. ~loaded /\ loaded'
            BY <2>1, <2>3 DEF Load, LoadFirst
        <3>2. DOMAIN requests = {} /\ DOMAIN Coming' = {}
            BY <2>1, <3>1, ComingType, TailPlaces, DispatchStep, <1>7 DEF LoadFirst, TypeOK
        <3> QED BY <2>1, <3>1, <3>2 DEF LoadFirst
    <2>4. CASE ShowMachine \/ OnSpinStart \/ OnSpinStop
        <3>1. loaded /\ loaded' = loaded
            BY <2>1, <2>4 DEF ShowMachine, OnSpinStart, OnSpinStop, LoadFirst
        <3> QED BY <2>1, <3>1 DEF LoadFirst
    <2> QED BY <1>7, <2>2, <2>3, <2>4 DEF Dispatch
<1>8. CASE FireTimer \/ ReelsStopped \/ UNCHANGED vars
    BY <1>8, QuietStep DEF LoadFirst
<1> QED BY <1>1, <1>2, <1>3, <1>4, <1>5, <1>6, <1>7, <1>8 DEF Next

-----------------------------------------------------------------------------
(* One start at a time.                                                    *)

LEMMA StartStep ==
    ASSUME TypeOK, LoadFirst, StartHeld, OneStartAtATime, [Next]_vars
    PROVE  StartHeld' /\ OneStartAtATime'
<1>1. CASE Poll \/ PressPlus \/ PressMinus \/ PressStart \/ PressStop
    <2>1. PICK type \in Asked \ {"LoadContent"} :
            /\ Request(type)
            /\ type = "SpinStart" => ~waitStartSpin /\ reels = "rest" /\ waitStartSpin'
            /\ type # "SpinStart" => waitStartSpin' = waitStartSpin
        BY <1>1, PressStep
    <2>2. /\ StartsAnswered' = StartsAnswered /\ reels' = reels
          /\ \A i \in StartsAsked' : \/ i \in StartsAsked
                                     \/ type = "SpinStart" /\ i = Len(requests) + 1
        BY <2>1, RequestStep, RequestsGrow DEF StartsAnswered, StartsAsked
    <2>3. CASE type = "SpinStart"
        BY <2>1, <2>2, <2>3 DEF StartHeld, OneStartAtATime
    <2>4. CASE type # "SpinStart"
        BY <2>1, <2>2, <2>4 DEF StartHeld, OneStartAtATime
    <2> QED BY <2>3, <2>4
<1>2. CASE Serve
    <2>1. PICK drawn \in Matrices, type \in Asked :
            /\ type = requests[1]
            /\ Coming' = Append(Coming, Said(machine[Me], type, drawn))
        BY <1>2, ServeStep
    <2>2. Said(machine[Me], type, drawn) \in Answer /\ Said(machine[Me], type, drawn).type = type
        BY ComingType, SaidType
    <2>3. requests # <<>> /\ requests' = Tail(requests) /\ UNCHANGED <<waitStartSpin, reels>>
        BY <1>2, ServeStep DEF scene, buttons, picture
    <2>4. /\ \A i \in StartsAsked' : i \in Nat /\ i >= 1 /\ i + 1 \in StartsAsked
          /\ type = "SpinStart" => 1 \in StartsAsked
        BY <2>1, <2>3, RequestsShrink DEF StartsAsked
    <2>5. \A i \in StartsAnswered' : \/ i \in StartsAnswered
                                     \/ i = Len(Coming) + 1 /\ type = "SpinStart"
        BY <2>1, <2>2, ComingGrows DEF StartsAnswered
    <2>6. CASE type = "SpinStart"
        <3>1. StartsAnswered = {} /\ StartsAsked' = {}
            BY <2>4, <2>6 DEF OneStartAtATime
        <3> QED BY <2>3, <2>4, <2>5, <2>6, <3>1 DEF StartHeld, OneStartAtATime
    <2>7. CASE type # "SpinStart"
        <3>1. \A i, j \in StartsAsked' : i = j
            BY <2>4 DEF OneStartAtATime
        <3> QED BY <2>3, <2>4, <2>5, <2>7, <3>1 DEF StartHeld, OneStartAtATime
    <2> QED BY <2>6, <2>7
<1>3. CASE Arrive
    BY <1>3, ArriveStep
       DEF StartHeld, OneStartAtATime, StartsAsked, StartsAnswered, scene, buttons, picture
<1>4. CASE LoseRequest
    <2>1. /\ requests # <<>> /\ requests' = Tail(requests) /\ Coming' = Coming
          /\ UNCHANGED <<waitStartSpin, reels>>
        BY <1>4 DEF LoseRequest, acctVars, scene, buttons, picture, Coming
    <2>2. \A i \in StartsAsked' : i \in Nat /\ i + 1 \in StartsAsked
        BY <2>1, RequestsShrink DEF StartsAsked
    <2>3. \A i, j \in StartsAsked' : i = j
        BY <2>2 DEF OneStartAtATime
    <2> QED BY <2>1, <2>2, <2>3 DEF StartHeld, OneStartAtATime, StartsAnswered
<1>5. CASE LoseAnswer \/ RestartServer
    <2>1. /\ Coming' = answers /\ UNCHANGED <<requests, waitStartSpin, reels>>
        BY <1>5, LoseAnswerStep, RestartStep DEF scene, buttons, picture
    <2>2. StartsAnswered' \subseteq StartsAnswered /\ StartsAsked' = StartsAsked
        BY <2>1, ComingCut DEF StartsAnswered, StartsAsked
    <2> QED BY <2>1, <2>2 DEF StartHeld, OneStartAtATime
<1>6. CASE Dispatch
    <2>1. /\ \A i \in DOMAIN Coming' : i \in Nat /\ i >= 1 /\ i + 1 \in DOMAIN Coming
                                       /\ Coming'[i] = Coming[i + 1]
          /\ 1 \in DOMAIN Coming /\ Head(answers) = Coming[1] /\ UNCHANGED requests
        BY <1>6, DispatchStep, ComingShrinks
    <2>2. /\ \A i \in StartsAnswered' : i \in Nat /\ i >= 1 /\ i + 1 \in StartsAnswered
          /\ StartsAsked' = StartsAsked
        BY <2>1 DEF StartsAnswered, StartsAsked
    <2>3. OneStartAtATime'
        <3>1. \A i, j \in StartsAnswered' : i = j
            BY <2>2 DEF OneStartAtATime
        <3> QED BY <2>2, <3>1 DEF OneStartAtATime
    <2>4. CASE OnSpinStart
        <3>1. 1 \in StartsAnswered
            BY <2>1, <2>4 DEF OnSpinStart, StartsAnswered
        <3>2. StartsAsked' = {} /\ StartsAnswered' = {}
            BY <2>2, <3>1 DEF OneStartAtATime
        <3> QED BY <2>3, <3>2 DEF StartHeld
    <2>5. CASE Ignore \/ Load \/ ShowMachine \/ OnSpinStop
        <3>1. waitStartSpin' = waitStartSpin /\ (reels = "rest" => reels' = "rest")
            BY <2>5 DEF Ignore, Load, ShowMachine, OnSpinStop, scene, buttons, picture
        <3> QED BY <2>2, <2>3, <3>1 DEF StartHeld
    <2> QED BY <1>6, <2>4, <2>5 DEF Dispatch
<1>7. CASE FireTimer \/ ReelsStopped \/ UNCHANGED vars
    BY <1>7, QuietStep DEF StartHeld, OneStartAtATime, StartsAsked, StartsAnswered
<1> QED BY <1>1, <1>2, <1>3, <1>4, <1>5, <1>6, <1>7 DEF Next

\* The scene begins with nothing but its request for the content.
LEMMA CasinoStart ==
    ASSUME Init
    PROVE  /\ TypeOK /\ LoadFirst /\ StartHeld /\ OneStartAtATime
           /\ StopsAnswered = {} /\ StartsAsked = {} /\ Carrying = {}
           /\ machine[Me] = NewMachine
<1>1. machine \in [GUID -> Machine] /\ machine[Me] = NewMachine
    BY NewMachineType, PlayerAssumption DEF Init, AcctInit
<1>2. reply \in [Thread -> Answer \cup {NoAnswer}] /\ reply[Wire] = NoAnswer
    BY PlayerAssumption DEF Init, AcctInit
<1>3. requests \in Seq(Asked) /\ answers \in Seq(Answer) /\ Len(requests) = 1
    BY DEF Init, Asked
<1>4. TypeOK
    BY <1>1, <1>2, <1>3, NewMachineType DEF Init, TypeOK
<1>5. Coming = <<>>
    BY <1>2 DEF Init, Coming
<1>6. /\ StartsAsked = {} /\ StartsAnswered = {}
      /\ StopsAnswered = {} /\ Carrying = {}
    BY <1>5 DEF Init, StartsAsked, StartsAnswered, StopsAnswered, Carrying
<1>7. LoadFirst
    BY <1>1, <1>3, <1>5 DEF Init, LoadFirst
<1> QED BY <1>1, <1>4, <1>5, <1>6, <1>7 DEF StartHeld, OneStartAtATime

\* One start at a time, through losses, restarts and early timers.
THEOREM OneStart == Spec => []OneStartAtATime
<1> DEFINE Inv == TypeOK /\ LoadFirst /\ StartHeld /\ OneStartAtATime
<1>1. Init => Inv
    BY CasinoStart
<1>2. Inv /\ [Next]_vars => Inv'
    BY CasinoTyped, LoadFirstStep, StartStep
<1> QED BY <1>1, <1>2, PTL DEF Spec

-----------------------------------------------------------------------------
(* A stop is the last word, and the round it ends is kept.                 *)

\* Up to the first restart.
RoundInv == StopIsLast /\ RoundIsKept /\ StartFromRest /\ SpinIsVisible

\* A press leaves the round as it is: no start is sent while the machine spins
\* or a stop is on its way.
LEMMA RoundPress ==
    ASSUME TypeOK, StartHeld, RoundInv, restarts = 0, restarts' = 0,
           Poll \/ PressPlus \/ PressMinus \/ PressStart \/ PressStop
    PROVE  RoundInv'
<1>1. PICK type \in Asked \ {"LoadContent"} :
        /\ Request(type)
        /\ type = "SpinStart" => ~waitStartSpin /\ reels = "rest" /\ waitStartSpin'
        /\ type # "SpinStart" => waitStartSpin' = waitStartSpin
    BY PressStep
<1>2. /\ UNCHANGED <<machine, Coming, reels, target, replica, restarts>>
      /\ requests' = Append(requests, type)
    BY <1>1, RequestStep
<1>3. \A i \in StartsAsked' : i \in StartsAsked \/ type = "SpinStart"
    BY <1>2, RequestsGrow DEF StartsAsked
<1>4. /\ StopsAnswered' = StopsAnswered /\ StartsAnswered' = StartsAnswered
      /\ Carrying' = Carrying
    BY <1>2 DEF StopsAnswered, StartsAnswered, Carrying
<1>5. type = "SpinStart" => StopsAnswered = {} /\ machine[Me].status # "Spin"
    BY <1>1 DEF RoundInv, StopIsLast, SpinIsVisible
<1>6. machine[Me].status \in {"Spin", "Stop"}
    BY ComingType DEF Machine, Status
<1>7. StopIsLast'
    BY <1>1, <1>2, <1>3, <1>4, <1>5 DEF RoundInv, StopIsLast
<1>8. RoundIsKept'
    BY <1>2, <1>4 DEF RoundInv, RoundIsKept
<1>9. StartFromRest'
    BY <1>2, <1>3, <1>5, <1>6 DEF RoundInv, StartFromRest
<1>10. SpinIsVisible'
    BY <1>1, <1>2 DEF RoundInv, SpinIsVisible
<1> QED BY <1>7, <1>8, <1>9, <1>10 DEF RoundInv

\* What the server does to a round.
LEMMA RoundServe ==
    ASSUME TypeOK, LoadFirst, StartHeld, OneStartAtATime, RoundInv, restarts = 0, Serve
    PROVE  RoundInv'
<1>1. PICK drawn \in Matrices, type \in Asked :
        /\ type = requests[1]
        /\ machine'[Me] = Left(machine[Me], type, drawn)
        /\ Coming' = Append(Coming, Said(machine[Me], type, drawn))
    BY ServeStep
<1> DEFINE m == machine[Me]
           left == Left(m, type, drawn)
           said == Said(m, type, drawn)
           ok == Accepts(m, type)
           last == Len(Coming) + 1
<1>2. /\ requests # <<>> /\ requests' = Tail(requests)
      /\ UNCHANGED <<loaded, waitStartSpin, reels, target, replica, restarts>>
    BY ServeStep DEF scene, buttons, picture
<1>3. m \in Machine /\ m.status \in {"Spin", "Stop"}
    BY ComingType DEF Machine, Status
<1>4. /\ said \in Answer /\ said.type = type /\ said.value = ok
      /\ ok /\ type \in MachineTypes => said.Machine = left
    BY <1>3, SaidType
<1>5. /\ type = "SpinStart" => (ok => m.status = "Stop") /\ (~ok => left = m)
      /\ type = "SpinStop" => (ok <=> m.status = "Spin") /\ left.status = "Stop" /\ (~ok => left = m)
      /\ type \in {"Machine", "AddBet", "DelBet"} =>
            left.matrix = m.matrix /\ left.winner = m.winner /\ left.status = m.status
      /\ type = "LoadContent" => left.status = m.status
    BY <1>3, LeftFacts, ZenonT(60) DEF Told
<1>6. /\ \A i \in StartsAsked' : i \in Nat /\ i >= 1 /\ i + 1 \in StartsAsked
      /\ type = "SpinStart" => 1 \in StartsAsked
      /\ type = "LoadContent" => ~loaded
    BY <1>1, <1>2, RequestsShrink DEF StartsAsked, LoadFirst
<1>7. machine'[Me] = left /\ Coming' = Append(Coming, said)
    BY <1>1
<1> HIDE DEF left, said, ok, m
<1>8. /\ \A i \in Carrying' : \/ i \in Carrying /\ Coming'[i] = Coming[i]
                              \/ i = last /\ ok /\ type \in MachineTypes /\ Coming'[i] = said
      /\ \A i \in StopsAnswered' : \/ i \in StopsAnswered /\ Coming'[i] = Coming[i]
                                   \/ i = last /\ type = "SpinStop" /\ ok /\ Coming'[i] = said
      /\ \A i \in StartsAnswered' : i \in StartsAnswered \/ (i = last /\ type = "SpinStart")
      /\ last \in Int
      /\ \A i \in Carrying \cup StopsAnswered \cup StartsAnswered : i \in Int /\ i < last
    <2>1. /\ \A i \in DOMAIN Coming' : \/ i \in DOMAIN Coming /\ Coming'[i] = Coming[i]
                                       \/ i = last /\ Coming'[i] = said
          /\ \A i \in DOMAIN Coming : i \in Int /\ i < last
          /\ last \in Int
        BY <1>4, <1>7, ComingGrows
    <2> HIDE DEF last
    <2>2. \A i \in Carrying' : \/ i \in Carrying /\ Coming'[i] = Coming[i]
                               \/ i = last /\ ok /\ type \in MachineTypes /\ Coming'[i] = said
        BY <1>4, <2>1 DEF Carrying
    <2>3. \A i \in StopsAnswered' : \/ i \in StopsAnswered /\ Coming'[i] = Coming[i]
                                    \/ i = last /\ type = "SpinStop" /\ ok /\ Coming'[i] = said
        BY <1>4, <2>1 DEF StopsAnswered
    <2>4. \A i \in StartsAnswered' : i \in StartsAnswered \/ (i = last /\ type = "SpinStart")
        BY <1>4, <2>1 DEF StartsAnswered
    <2>5. \A i \in Carrying \cup StopsAnswered \cup StartsAnswered : i \in Int /\ i < last
        BY <2>1 DEF Carrying, StopsAnswered, StartsAnswered
    <2> QED BY <2>1, <2>2, <2>3, <2>4, <2>5
<1>9. m = machine[Me]
    BY DEF m
<1> HIDE DEF last
<1>10. CASE type = "SpinStart"
    <2>1. StopsAnswered = {} /\ StopsAnswered' = {} /\ reels = "rest" /\ waitStartSpin
        BY <1>6, <1>8, <1>10 DEF RoundInv, StopIsLast, StartHeld
    <2>2. StartsAsked' = {}
        BY <1>6, <1>10 DEF OneStartAtATime
    <2> QED BY <1>2, <2>1, <2>2
            DEF RoundInv, StopIsLast, RoundIsKept, StartFromRest, SpinIsVisible
<1>11. CASE type = "SpinStop" /\ ok
    <2>1. m.status = "Spin" /\ left.status = "Stop" /\ (waitStartSpin \/ reels = "turn") /\ reels # "stop"
        BY <1>3, <1>5, <1>9, <1>11 DEF RoundInv, SpinIsVisible
    <2>2. StopsAnswered = {} /\ StartsAsked = {} /\ StartsAsked' = {}
        BY <1>6, <1>9, <2>1 DEF RoundInv, StopIsLast, StartFromRest
    <2>3. \A i \in StopsAnswered' : i = last /\ Coming'[i] = said
        BY <1>8, <2>2
    <2>4. \A i \in StartsAnswered' : i < last
        BY <1>8, <1>11
    <2>5. said.Machine = left
        BY <1>4, <1>11 DEF MachineTypes
    <2>6. \A i \in Carrying' : i >= last => Coming'[i] = said
        BY <1>8
    <2>7. StopIsLast'
        BY <1>2, <1>7, <2>1, <2>2, <2>3, <2>4, <2>5, <2>6 DEF StopIsLast
    <2> QED BY <1>2, <1>7, <2>1, <2>2, <2>7
            DEF RoundInv, RoundIsKept, StartFromRest, SpinIsVisible
<1>12. CASE type # "SpinStart" /\ ~(type = "SpinStop" /\ ok)
    <2>1. left.status = m.status
        BY <1>5, <1>12 DEF Asked
    <2>2. loaded => left.matrix = m.matrix /\ left.winner = m.winner
        BY <1>5, <1>6, <1>12 DEF Asked
    <2>3. ok /\ type \in MachineTypes => said.Machine = left
        BY <1>4
    <2>4. StopsAnswered # {} \/ reels = "stop" => loaded
        BY DEF LoadFirst, StopsAnswered
    <2>5. StartsAsked' # {} => StartsAsked # {}
        BY <1>6
    <2>6. StopsAnswered' = StopsAnswered
        BY <1>4, <1>7, <1>8, <1>12, ComingGrows DEF StopsAnswered
    <2>7. StopIsLast'
        <3> SUFFICES ASSUME NEW k \in StopsAnswered
                     PROVE  /\ left.status = "Stop"
                            /\ waitStartSpin \/ reels = "turn"
                            /\ StartsAsked' = {}
                            /\ \A i \in StartsAnswered' : i < k
                            /\ \A i \in StopsAnswered : i = k
                            /\ Coming'[k].Machine.matrix = left.matrix
                            /\ \A i \in Carrying' : i >= k => Coming'[i].Machine.winner = left.winner
            BY <1>2, <1>7, <2>6 DEF StopIsLast
        <3>1. k \in StopsAnswered' /\ Coming'[k] = Coming[k]
            BY <1>8, <2>6
        <3>2. \A i \in StartsAnswered' : i \in StartsAnswered
            BY <1>8, <1>12
        <3>3. left.matrix = m.matrix /\ left.winner = m.winner
            BY <2>2, <2>4
        <3> QED BY <1>8, <1>9, <2>1, <2>3, <2>5, <3>1, <3>2, <3>3 DEF RoundInv, StopIsLast
    <2>8. RoundIsKept'
        BY <1>2, <1>7, <1>8, <1>9, <2>2, <2>3, <2>4 DEF RoundInv, RoundIsKept
    <2>9. StartFromRest' /\ SpinIsVisible'
        BY <1>2, <1>7, <1>9, <2>1, <2>5 DEF RoundInv, StartFromRest, SpinIsVisible
    <2> QED BY <2>7, <2>8, <2>9 DEF RoundInv
<1> QED BY <1>10, <1>11, <1>12

\* An answer that is lost, or arrives, takes nothing from the others.
LEMMA RoundCut ==
    ASSUME TypeOK, RoundInv, UNCHANGED <<machine, waitStartSpin, reels, target, replica, restarts>>,
           StartsAsked' # {} => StartsAsked # {},
           \A i \in DOMAIN Coming' : i \in DOMAIN Coming /\ Coming'[i] = Coming[i]
    PROVE  RoundInv'
<1>1. /\ \A i \in Carrying' : i \in Carrying /\ Coming'[i] = Coming[i]
      /\ \A i \in StopsAnswered' : i \in StopsAnswered /\ Coming'[i] = Coming[i]
      /\ \A i \in StartsAnswered' : i \in StartsAnswered
    BY DEF Carrying, StopsAnswered, StartsAnswered
<1>2. StopIsLast'
    BY <1>1 DEF RoundInv, StopIsLast
<1> QED BY <1>1, <1>2 DEF RoundInv, RoundIsKept, StartFromRest, SpinIsVisible

\* What the scene makes of an answer.
LEMMA RoundDispatch ==
    ASSUME TypeOK, LoadFirst, StartHeld, OneStartAtATime, RoundInv, restarts = 0, Dispatch
    PROVE  RoundInv'
<1>1. /\ \A i \in DOMAIN Coming' : i \in Nat /\ i >= 1 /\ i + 1 \in DOMAIN Coming
                                   /\ Coming'[i] = Coming[i + 1]
      /\ 1 \in DOMAIN Coming /\ Head(answers) = Coming[1]
      /\ UNCHANGED <<machine, requests, restarts>>
    BY DispatchStep, ComingShrinks
<1>2. \A i \in Carrying' : /\ i \in Nat /\ i >= 1 /\ i + 1 \in Carrying
                           /\ Coming'[i] = Coming[i + 1]
    BY <1>1 DEF Carrying
<1>3. \A i \in StopsAnswered' : /\ i \in Nat /\ i >= 1 /\ i + 1 \in StopsAnswered
                                /\ Coming'[i] = Coming[i + 1]
    BY <1>1 DEF StopsAnswered
<1>4. \A i \in StartsAnswered' : i \in Nat /\ i >= 1 /\ i + 1 \in StartsAnswered
    BY <1>1 DEF StartsAnswered
<1>5. StartsAsked' = StartsAsked
    BY <1>1 DEF StartsAsked
<1>6. StartFromRest'
    BY <1>1, <1>5 DEF RoundInv, StartFromRest
<1>7. \A k \in StopsAnswered' :
        /\ machine'[Me].status = "Stop"
        /\ waitStartSpin \/ reels = "turn"
        /\ StartsAsked' = {}
        /\ \A i \in StartsAnswered' : i < k
        /\ \A i \in StopsAnswered' : i = k
        /\ Coming'[k].Machine.matrix = machine'[Me].matrix
        /\ \A i \in Carrying' : i >= k => Coming'[i].Machine.winner = machine'[Me].winner
    BY <1>1, <1>2, <1>3, <1>4, <1>5 DEF RoundInv, StopIsLast
<1>8. CASE Ignore \/ ShowMachine
    <2>1. /\ UNCHANGED <<waitStartSpin, reels, target>>
          /\ replica' = replica \/ (1 \in Carrying /\ replica' = Coming[1].Machine)
        BY <1>1, <1>8 DEF Ignore, ShowMachine, UpdateMachine, Carrying, MachineTypes,
                          scene, buttons, picture
    <2>2. StopIsLast'
        BY <1>7, <2>1 DEF StopIsLast
    <2>3. RoundIsKept'
        BY <1>1, <1>2, <2>1 DEF RoundInv, RoundIsKept
    <2> QED BY <1>1, <1>6, <2>1, <2>2, <2>3 DEF RoundInv, SpinIsVisible
<1>9. CASE Load
    <2>1. ~loaded
        BY <1>1, <1>9 DEF Load, LoadFirst
    <2>2. /\ UNCHANGED <<waitStartSpin, reels, target>> /\ reels = "rest" /\ ~waitStartSpin
        BY <1>9, <2>1 DEF Load, LoadFirst, buttons, picture
    <2>3. StopIsLast'
        BY <1>7, <2>2 DEF StopIsLast
    <2> QED BY <1>1, <1>6, <2>2, <2>3 DEF RoundInv, RoundIsKept, SpinIsVisible
<1>10. CASE OnSpinStart
    <2>1. reels' = "turn"
        BY <1>10 DEF OnSpinStart
    <2>2. StopIsLast'
        BY <1>7, <2>1 DEF StopIsLast
    <2> QED BY <1>6, <2>1, <2>2 DEF RoundInv, RoundIsKept, SpinIsVisible
<1>11. CASE OnSpinStop
    <2>1. 1 \in StopsAnswered /\ 1 \in Carrying
        BY <1>1, <1>11 DEF OnSpinStop, UpdateMachine, StopsAnswered, Carrying, MachineTypes
    <2>2. /\ machine[Me].status = "Stop"
          /\ Coming[1].Machine.matrix = machine[Me].matrix
          /\ \A i \in Carrying : i >= 1 => Coming[i].Machine.winner = machine[Me].winner
        BY <2>1 DEF RoundInv, StopIsLast
    <2>3. StopsAnswered' = {}
        BY <1>3, <2>1 DEF RoundInv, StopIsLast
    <2>4. /\ replica' = Coming[1].Machine /\ target' = Coming[1].Machine.matrix
        BY <1>1, <1>11 DEF OnSpinStop, UpdateMachine
    <2>5. RoundIsKept'
        BY <1>1, <1>2, <2>1, <2>2, <2>4 DEF RoundIsKept
    <2>6. SpinIsVisible'
        BY <1>1, <2>2 DEF SpinIsVisible
    <2> QED BY <1>6, <2>3, <2>5, <2>6 DEF RoundInv, StopIsLast
<1> QED BY <1>8, <1>9, <1>10, <1>11 DEF Dispatch

LEMMA RoundStep ==
    ASSUME TypeOK, LoadFirst, StartHeld, OneStartAtATime, restarts = 0 => RoundInv, [Next]_vars
    PROVE  (restarts = 0 => RoundInv)'
<1> SUFFICES ASSUME restarts' = 0 PROVE RoundInv'
    OBVIOUS
<1>1. CASE Poll \/ PressPlus \/ PressMinus \/ PressStart \/ PressStop
    <2>1. restarts = 0
        BY <1>1, PressStep, RequestStep
    <2> QED BY <1>1, <2>1, RoundPress
<1>2. CASE Serve
    BY <1>2, ServeStep, RoundServe
<1>3. CASE Arrive
    <2>1. /\ Coming' = Coming /\ UNCHANGED <<machine, requests, restarts>>
          /\ UNCHANGED <<waitStartSpin, reels, target, replica>>
        BY <1>3, ArriveStep DEF scene, buttons, picture
    <2> QED BY <2>1, RoundCut DEF StartsAsked
<1>4. CASE LoseRequest
    <2>1. /\ requests # <<>> /\ requests' = Tail(requests) /\ Coming' = Coming
          /\ UNCHANGED <<machine, waitStartSpin, reels, target, replica, restarts>>
        BY <1>4 DEF LoseRequest, acctVars, scene, buttons, picture, Coming
    <2>2. StartsAsked' # {} => StartsAsked # {}
        BY <2>1, RequestsShrink DEF StartsAsked
    <2> QED BY <2>1, <2>2, RoundCut
<1>5. CASE LoseAnswer
    <2>1. /\ Coming' = answers
          /\ UNCHANGED <<machine, requests, waitStartSpin, reels, target, replica, restarts>>
        BY <1>5, LoseAnswerStep DEF scene, buttons, picture
    <2>2. \A i \in DOMAIN Coming' : i \in DOMAIN Coming /\ Coming'[i] = Coming[i]
        BY <2>1, ComingCut
    <2> QED BY <2>1, <2>2, RoundCut DEF StartsAsked
<1>6. CASE RestartServer
    BY <1>6, RestartStep DEF TypeOK
<1>7. CASE Dispatch
    BY <1>7, DispatchStep, RoundDispatch
<1>8. CASE FireTimer \/ ReelsStopped \/ UNCHANGED vars
    <2>1. /\ UNCHANGED <<machine, requests, waitStartSpin, target, replica, restarts>>
          /\ Coming' = Coming
        BY <1>8, QuietStep
    <2>2. CASE reels' = reels
        BY <2>1, <2>2, RoundCut DEF StartsAsked
    <2>3. CASE reels' # reels
        <3>1. reels = "stop" /\ reels' = "rest"
            BY <1>8, <2>3 DEF FireTimer, ReelsStopped, vars, scene, picture
        <3>2. machine[Me].status = "Stop" /\ machine'[Me] = machine[Me]
            BY <2>1, <3>1 DEF RoundInv, SpinIsVisible
        <3>3. /\ StopsAnswered' = StopsAnswered /\ StartsAnswered' = StartsAnswered
              /\ Carrying' = Carrying /\ StartsAsked' = StartsAsked
            BY <2>1 DEF StopsAnswered, StartsAnswered, Carrying, StartsAsked
        <3>4. StopIsLast'
            BY <2>1, <3>1, <3>3 DEF RoundInv, StopIsLast
        <3> QED BY <2>1, <3>1, <3>2, <3>3, <3>4
                DEF RoundInv, RoundIsKept, StartFromRest, SpinIsVisible
    <2> QED BY <2>2, <2>3
<1> QED BY <1>1, <1>2, <1>3, <1>4, <1>5, <1>6, <1>7, <1>8 DEF Next

\* The invariant that TLC checks on the instance holds of every game.
LEMMA CasinoInductive == Spec => []CasinoInv
<1>1. Init => CasinoInv
    <2> SUFFICES ASSUME Init PROVE CasinoInv
        OBVIOUS
    <2>1. reels = "rest"
        BY DEF Init
    <2>2. StopIsLast /\ RoundIsKept /\ StartFromRest /\ SpinIsVisible
        BY <2>1, CasinoStart
           DEF StopIsLast, RoundIsKept, StartFromRest, SpinIsVisible, NewMachine
    <2> QED BY <2>2, CasinoStart DEF CasinoInv
<1>2. CasinoInv /\ [Next]_vars => CasinoInv'
    BY CasinoTyped, LoadFirstStep, StartStep, RoundStep DEF CasinoInv, RoundInv
<1> QED BY <1>1, <1>2, PTL DEF Spec

\* The server spins only where the player sees it, up to the first restart.
THEOREM SpinVisible == Spec => []SpinIsVisible
<1>1. CasinoInv => SpinIsVisible
    BY DEF CasinoInv, SpinIsVisible
<1> QED BY <1>1, CasinoInductive, PTL

\* The WIN field shows what the server has paid for the combination shown.
THEOREM WinIsPaid == Spec => WinShownIsWinPaid
<1>1. CasinoInv /\ [Next]_vars
        => (reels = "stop" /\ reels' = "rest" /\ restarts = 0
              => /\ label' = machine[Me].winner
                 /\ target = machine[Me].matrix
                 /\ machine[Me].status = "Stop")
    <2> SUFFICES ASSUME CasinoInv, [Next]_vars, reels = "stop", reels' = "rest", restarts = 0
                 PROVE  /\ label' = machine[Me].winner
                        /\ target = machine[Me].matrix
                        /\ machine[Me].status = "Stop"
        OBVIOUS
    <2>1. ReelsStopped
        <3>1. ~Dispatch
            BY DEF Dispatch, Ignore, Load, ShowMachine, OnSpinStart, OnSpinStop, scene, picture
        <3>2. ~(Poll \/ PressPlus \/ PressMinus \/ PressStart \/ PressStop)
            BY PressStep DEF Request, picture
        <3>3. ~(Serve \/ Arrive \/ LoseRequest \/ LoseAnswer \/ RestartServer \/ FireTimer)
            BY DEF Serve, Arrive, LoseRequest, LoseAnswer, RestartServer, FireTimer, scene, picture
        <3> QED BY <3>1, <3>2, <3>3 DEF Next, vars, scene, picture
    <2> QED BY <2>1 DEF ReelsStopped, CasinoInv, RoundIsKept, SpinIsVisible
<1> QED BY <1>1, CasinoInductive, PTL DEF Spec, WinShownIsWinPaid

-----------------------------------------------------------------------------
(* The scene follows the server.                                           *)

\* Where nothing has been lost a request told of is the last to be dispatched.
LEMMA FollowServe ==
    ASSUME TypeOK, ReplicaFollowsServer, Faultless, Serve
    PROVE  Awaits(Told(machine[Me]))'
<1>1. PICK drawn \in Matrices, type \in Asked :
        /\ machine'[Me] = Left(machine[Me], type, drawn)
        /\ Coming' = Append(Coming, Said(machine[Me], type, drawn))
    BY ServeStep
<1> DEFINE said == Said(machine[Me], type, drawn)
           ok == Accepts(machine[Me], type)
           last == Len(Coming) + 1
<1>2. machine[Me] \in Machine /\ replica' = replica
    BY ComingType, ServeStep DEF scene
<1>3. /\ said \in Answer /\ said.type = type /\ said.value = ok
      /\ ok /\ type \in MachineTypes => said.Machine = machine'[Me]
    BY <1>1, <1>2, SaidType
<1>4. ~(ok /\ type \in MachineTypes) => Told(machine'[Me]) = Told(machine[Me])
    BY <1>1, <1>2, LeftFacts DEF Left, Asked, MachineTypes
<1>5. Coming' = Append(Coming, said)
    BY <1>1
<1> HIDE DEF said, ok
<1>6. /\ \A i \in DOMAIN Coming' : \/ i \in DOMAIN Coming /\ Coming'[i] = Coming[i]
                                   \/ i = last /\ Coming'[i] = said
      /\ \A i \in DOMAIN Coming : /\ i \in Int /\ i < last
                                 /\ i \in DOMAIN Coming' /\ Coming'[i] = Coming[i]
      /\ last \in Int /\ last \in DOMAIN Coming' /\ Coming'[last] = said
    BY <1>3, <1>5, ComingGrows
<1> HIDE DEF last
<1>7. CASE ok /\ type \in MachineTypes
    <2>1. said.value /\ said.type \in MachineTypes
        BY <1>3, <1>7
    <2>2. last \in Carrying'
        BY <1>6, <2>1 DEF Carrying
    <2>3. \A i \in Carrying' : i <= last
        BY <1>6 DEF Carrying
    <2> QED BY <1>3, <1>6, <1>7, <2>2, <2>3 DEF Awaits
<1>8. CASE ~(ok /\ type \in MachineTypes)
    <2>1. Carrying' = Carrying
        BY <1>3, <1>6, <1>8 DEF Carrying
    <2>2. \A i \in Carrying : Coming'[i] = Coming[i]
        BY <1>6 DEF Carrying
    <2> QED BY <1>2, <1>4, <1>8, <2>1, <2>2 DEF ReplicaFollowsServer, Awaits
<1> QED BY <1>7, <1>8

\* A dispatched machine becomes the scene's, unless a later one is to come.
LEMMA FollowDispatch ==
    ASSUME TypeOK, LoadFirst, ReplicaFollowsServer, Faultless, Dispatch
    PROVE  Awaits(Told(machine[Me]))'
<1>1. /\ \A i \in DOMAIN Coming' : /\ i \in Nat /\ i >= 1 /\ i + 1 \in DOMAIN Coming
                                  /\ Coming'[i] = Coming[i + 1]
      /\ \A i \in DOMAIN Coming : \/ i = 1
                                  \/ /\ i - 1 \in DOMAIN Coming' /\ Coming'[i - 1] = Coming[i]
                                     /\ i \in Nat /\ i > 1
      /\ 1 \in DOMAIN Coming /\ Head(answers) = Coming[1]
      /\ machine' = machine
    BY DispatchStep, ComingShrinks
<1>2. 1 \in Carrying => replica' = Coming[1].Machine
    <2> SUFFICES ASSUME 1 \in Carrying PROVE replica' = Coming[1].Machine
        OBVIOUS
    <2>1. ~Ignore /\ ~Load
        BY <1>1 DEF Ignore, Load, Carrying, MachineTypes
    <2> QED BY <1>1, <2>1 DEF Dispatch, ShowMachine, OnSpinStart, OnSpinStop, UpdateMachine
<1>3. 1 \notin Carrying => Told(replica') = Told(replica)
    <2> SUFFICES ASSUME 1 \notin Carrying PROVE Told(replica') = Told(replica)
        OBVIOUS
    <2>1. Ignore \/ Load
        BY <1>1 DEF Dispatch, ShowMachine, OnSpinStart, OnSpinStop, UpdateMachine,
                    Carrying, MachineTypes
    <2>2. CASE Load
        BY <1>1, <2>2 DEF Load, LoadFirst
    <2> QED BY <2>1, <2>2 DEF Ignore, scene
<1>4. \A i \in Carrying' : i \in Nat /\ i >= 1 /\ i + 1 \in Carrying
    BY <1>1 DEF Carrying
<1>5. CASE Carrying = {}
    <2>1. Carrying' = {} /\ 1 \notin Carrying
        BY <1>4, <1>5
    <2> QED BY <1>1, <1>3, <1>5, <2>1 DEF ReplicaFollowsServer, Awaits
<1>6. CASE Carrying # {}
    <2>1. PICK last \in Carrying : /\ \A i \in Carrying : i <= last
                                   /\ Told(Coming[last].Machine) = Told(machine[Me])
        BY <1>6 DEF ReplicaFollowsServer, Awaits
    <2>2. CASE last = 1
        <3>1. Carrying' = {}
            BY <1>4, <2>1, <2>2
        <3> QED BY <1>1, <1>2, <2>1, <2>2, <3>1 DEF Awaits
    <2>3. CASE last # 1
        <3>1. /\ last - 1 \in Carrying' /\ Coming'[last - 1] = Coming[last]
              /\ last \in Nat
            BY <1>1, <2>1, <2>3 DEF Carrying
        <3>2. \A i \in Carrying' : i <= last - 1
            BY <1>4, <2>1, <3>1
        <3> QED BY <1>1, <2>1, <3>1, <3>2 DEF Awaits
    <2> QED BY <2>2, <2>3
<1> QED BY <1>5, <1>6

\* What the scene will show once the answers under way are dispatched is what
\* the server has, as long as nothing is lost.
THEOREM ReplicaFollows == Spec => []ReplicaFollowsServer
<1>1. Init => ReplicaFollowsServer
    <2> SUFFICES ASSUME Init PROVE ReplicaFollowsServer
        OBVIOUS
    <2>1. Carrying = {} /\ machine[Me] = NewMachine /\ replica = NewMachine
        BY CasinoStart DEF Init
    <2> QED BY <2>1 DEF ReplicaFollowsServer, Awaits
<1>2. CasinoInv /\ ReplicaFollowsServer /\ [Next]_vars => ReplicaFollowsServer'
    <2> SUFFICES ASSUME TypeOK, LoadFirst, ReplicaFollowsServer, [Next]_vars, Faultless'
                 PROVE  Awaits(Told(machine[Me]))'
        BY DEF CasinoInv, ReplicaFollowsServer
    <2>1. losses \in Nat /\ restarts \in Nat
        BY DEF TypeOK
    <2>2. ~LoseRequest /\ ~LoseAnswer /\ ~RestartServer
        BY <2>1 DEF LoseRequest, LoseAnswer, RestartServer, Faultless
    <2>3. CASE Poll \/ PressPlus \/ PressMinus \/ PressStart \/ PressStop
        <3>1. UNCHANGED <<machine, Coming, replica, losses, restarts>>
            BY <2>3, PressStep, RequestStep
        <3> QED BY <3>1 DEF ReplicaFollowsServer, Faultless, Awaits, Carrying
    <2>4. CASE Serve
        BY <2>4, ServeStep, FollowServe DEF Faultless
    <2>5. CASE Arrive
        <3>1. UNCHANGED <<machine, Coming, replica, losses, restarts>>
            BY <2>5, ArriveStep DEF scene
        <3> QED BY <3>1 DEF ReplicaFollowsServer, Faultless, Awaits, Carrying
    <2>6. CASE Dispatch
        BY <2>6, DispatchStep, FollowDispatch DEF Faultless
    <2>7. CASE FireTimer \/ ReelsStopped \/ UNCHANGED vars
        <3>1. UNCHANGED <<machine, Coming, replica, losses, restarts>>
            BY <2>7, QuietStep
        <3> QED BY <3>1 DEF ReplicaFollowsServer, Faultless, Awaits, Carrying
    <2> QED BY <2>2, <2>3, <2>4, <2>5, <2>6, <2>7 DEF Next
<1> QED BY <1>1, <1>2, CasinoInductive, PTL DEF Spec
=============================================================================
