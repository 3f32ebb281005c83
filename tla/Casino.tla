------------------------------- MODULE Casino -------------------------------
(***************************************************************************)
(* One player's game, end to end: GameScene (Classes/GameScene.cpp) and    *)
(* its MHttpClient, the wire between them and the server, and the server   *)
(* as module Accounts promises it (RequestHandler implements it).          *)
(*                                                                         *)
(* The wire: cocos2d's HttpClient sends the requests one at a time, in     *)
(* order, from a thread of its own, and hands the answers in the same      *)
(* order to the main thread, which dispatches them between frames.  A      *)
(* request or an answer may be lost (the client then sees an empty         *)
(* answer), and the server may be restarted.                               *)
(*                                                                         *)
(* The reels are those of module DrumNode, as its theorems describe them:  *)
(* they turn from startRotate on, and once stopRotate has been called      *)
(* while they turn they come to rest on the slots asked for.  The few      *)
(* frames before the first reel moves count as turning.                    *)
(***************************************************************************)
EXTENDS Accounts, Sequences

CONSTANTS
    Me,           \* the GUID of this player's client
    Wire,         \* the network thread of the client
    MaxPending,   \* bound: requests and answers under way
    MaxBet,       \* bound: the player stops pressing plus at this bet
    MaxTimers,    \* bound: timers that will enable the spin button
    MaxLosses,    \* bound: lost requests and answers
    MaxRestarts   \* bound: restarts of the server

ASSUME PlayerAssumption == GUID = {Me} /\ Thread = {Wire}
ASSUME BoundAssumption ==
    {MaxPending, MaxBet, MaxTimers, MaxLosses, MaxRestarts} \subseteq Nat

VARIABLES
    requests,       \* the types of the requests queued in HttpClient
    answers,        \* the answers not yet dispatched
    loaded,         \* has the content arrived and the game been built?
    replica,        \* GameScene::machine
    waitStartSpin,  \* has a start been sent and not confirmed?
    spinEnabled,    \* is the spin button enabled?
    betEnabled,     \* are the plus and minus buttons enabled?
    timers,         \* the running actions that will enable the spin button
    reels,          \* rest, turn, or stop when they look for their targets
    target,         \* the matrix the reels stop or have stopped at
    label,          \* the number in the WIN field, or Luck
    losses,         \* losses so far
    restarts        \* restarts so far

wire == <<requests, answers>>
buttons == <<waitStartSpin, spinEnabled, betEnabled, timers>>
picture == <<reels, target, label>>
scene == <<loaded, replica, buttons, picture>>
vars == <<acctVars, wire, scene, losses, restarts>>

Luck == -1
NoTarget == "none"

InFlight ==
    Len(requests) + Len(answers) + (IF reply[Wire] = NoAnswer THEN 0 ELSE 1)

-----------------------------------------------------------------------------
\* The scene has asked for the content (GameScene::init).
Init ==
    /\ AcctInit
    /\ requests = <<"LoadContent">>
    /\ answers = <<>>
    /\ loaded = FALSE
    /\ replica = NewMachine
    /\ waitStartSpin = FALSE
    /\ spinEnabled = TRUE
    /\ betEnabled = TRUE
    /\ timers = 0
    /\ reels = "rest"
    /\ target = NoTarget
    /\ label = 0
    /\ losses = 0
    /\ restarts = 0

\* MHttpClient::request.
Request(type) ==
    /\ loaded
    /\ InFlight < MaxPending
    /\ requests' = Append(requests, type)
    /\ UNCHANGED <<acctVars, answers, loaded, replica, picture, losses, restarts>>

\* update, every five seconds.
Poll ==
    /\ Request("Machine")
    /\ UNCHANGED buttons

PressPlus ==
    /\ betEnabled
    /\ machine[Me].totalBet < MaxBet
    /\ Request("AddBet")
    /\ UNCHANGED buttons

PressMinus ==
    /\ betEnabled
    /\ Request("DelBet")
    /\ UNCHANGED buttons

\* Mutant: the button is disabled and nothing will enable it.
FreezeForGood ==
    /\ spinEnabled' = FALSE
    /\ UNCHANGED <<timers, betEnabled>>

\* The button is disabled and an action set up that enables it again.
Freeze ==
    /\ timers < MaxTimers
    /\ spinEnabled' = FALSE
    /\ timers' = timers + 1
    /\ UNCHANGED betEnabled

\* onSpin while the machine is known to spin.
PressStop ==
    /\ spinEnabled
    /\ replica.status = "Spin"
    /\ Request("SpinStop")
    /\ Freeze
    /\ UNCHANGED waitStartSpin

\* Mutant: the reels may still be looking for their targets.
PressStartAnyReels ==
    /\ spinEnabled
    /\ replica.status = "Stop"
    /\ ~waitStartSpin
    /\ replica.totalBet > 0
    /\ Request("SpinStart")
    /\ Freeze
    /\ waitStartSpin' = TRUE

\* Mutant: an unconfirmed start does not hold back the next.
PressStartTwice ==
    /\ spinEnabled
    /\ replica.status = "Stop"
    /\ replica.totalBet > 0
    /\ reels = "rest"
    /\ Request("SpinStart")
    /\ Freeze
    /\ waitStartSpin' = TRUE

\* onSpin while the machine is known to stand.  In the cases it refuses the
\* press does nothing.
PressStart ==
    /\ spinEnabled
    /\ replica.status = "Stop"
    /\ ~waitStartSpin
    /\ replica.totalBet > 0
    /\ reels = "rest"
    /\ Request("SpinStart")
    /\ Freeze
    /\ waitStartSpin' = TRUE

\* One of the delayed actions enables the button, whatever has happened since.
FireTimer ==
    /\ timers > 0
    /\ timers' = timers - 1
    /\ spinEnabled' = TRUE
    /\ UNCHANGED <<acctVars, wire, loaded, replica, waitStartSpin, betEnabled, picture,
                   losses, restarts>>

-----------------------------------------------------------------------------
\* The server handles the request at the head of the queue.
Serve ==
    /\ requests # <<>>
    /\ \E drawn \in Matrices : Perform(Wire, Me, Head(requests), 0, drawn)
    /\ requests' = Tail(requests)
    /\ UNCHANGED <<answers, scene, losses, restarts>>

\* Its answer reaches the client.
Arrive ==
    /\ Send(Wire)
    /\ answers' = Append(answers, reply[Wire])
    /\ UNCHANGED <<requests, scene, losses, restarts>>

LoseRequest ==
    /\ losses < MaxLosses
    /\ losses' = losses + 1
    /\ requests # <<>>
    /\ reply[Wire] = NoAnswer
    /\ requests' = Tail(requests)
    /\ UNCHANGED <<acctVars, answers, scene, restarts>>

LoseAnswer ==
    /\ losses < MaxLosses
    /\ losses' = losses + 1
    /\ Send(Wire)
    /\ UNCHANGED <<wire, scene, restarts>>

\* The server process ends, with a request or without, and a new one starts.
RestartServer ==
    /\ restarts < MaxRestarts
    /\ restarts' = restarts + 1
    /\ Forget
    /\ UNCHANGED <<wire, scene, losses>>

-----------------------------------------------------------------------------
\* What MHttpClient::answer and the callbacks of GameScene do with an answer.
\* A refused request changes nothing.

Ignore ==
    /\ ~Head(answers).value
    /\ UNCHANGED scene

Load ==
    /\ Head(answers).type = "LoadContent"
    /\ loaded' = TRUE
    /\ replica' = NewMachine
    /\ UNCHANGED <<buttons, picture>>

\* onUpdateMachine.
UpdateMachine ==
    /\ Head(answers).value
    /\ replica' = Head(answers).Machine

ShowMachine ==
    /\ Head(answers).type \in {"Machine", "AddBet", "DelBet"}
    /\ UpdateMachine
    /\ UNCHANGED <<loaded, buttons, picture>>

\* Mutant: the answer to the start does not update the machine.
OnSpinStartBlind ==
    /\ Head(answers).type = "SpinStart"
    /\ Head(answers).value
    /\ reels' = "turn"
    /\ target' = NoTarget
    /\ betEnabled' = FALSE
    /\ waitStartSpin' = FALSE
    /\ label' = Luck
    /\ UNCHANGED <<loaded, replica, spinEnabled, timers>>

OnSpinStart ==
    /\ Head(answers).type = "SpinStart"
    /\ UpdateMachine
    /\ reels' = "turn"
    /\ target' = NoTarget
    /\ betEnabled' = FALSE
    /\ waitStartSpin' = FALSE
    /\ label' = Luck
    /\ UNCHANGED <<loaded, spinEnabled, timers>>

\* Mutant: the targets are read before the machine is updated.
OnSpinStopEarly ==
    /\ Head(answers).type = "SpinStop"
    /\ UpdateMachine
    /\ target' = replica.matrix
    /\ reels' = IF reels = "turn" THEN "stop" ELSE reels
    /\ UNCHANGED <<loaded, buttons, label>>

\* Mutant: the scene is not told to stop the reels.
OnSpinStopUntold ==
    /\ Head(answers).type = "SpinStop"
    /\ UpdateMachine
    /\ UNCHANGED <<loaded, buttons, picture>>

\* stopRotate gives the reels their targets, turning or not.
OnSpinStop ==
    /\ Head(answers).type = "SpinStop"
    /\ UpdateMachine
    /\ target' = replica'.matrix
    /\ reels' = IF reels = "turn" THEN "stop" ELSE reels
    /\ UNCHANGED <<loaded, buttons, label>>

Dispatch ==
    /\ answers # <<>>
    /\ answers' = Tail(answers)
    /\ Ignore \/ Load \/ ShowMachine \/ OnSpinStart \/ OnSpinStop
    /\ UNCHANGED <<acctVars, requests, losses, restarts>>

\* onStoppedDrum: the last reel has stopped.
ReelsStopped ==
    /\ reels = "stop"
    /\ reels' = "rest"
    /\ label' = replica.winner
    /\ betEnabled' = TRUE
    /\ spinEnabled' = TRUE
    /\ UNCHANGED <<acctVars, wire, loaded, replica, waitStartSpin, timers, target,
                   losses, restarts>>

-----------------------------------------------------------------------------
Next ==
    \/ Poll
    \/ PressPlus
    \/ PressMinus
    \/ PressStart
    \/ PressStop
    \/ FireTimer
    \/ Serve
    \/ Arrive
    \/ LoseRequest
    \/ LoseAnswer
    \/ RestartServer
    \/ Dispatch
    \/ ReelsStopped

\* The threads of the client and of the server run, the timers fire, the
\* scene polls, and turning reels find their targets (DrumNode,
\* StopLeadsToRest).  Nothing makes the player press a button.
Fairness ==
    /\ WF_vars(Serve)
    /\ WF_vars(Arrive)
    /\ WF_vars(Dispatch)
    /\ WF_vars(FireTimer)
    /\ WF_vars(ReelsStopped)
    /\ WF_vars(Poll)

Spec == Init /\ [][Next]_vars
FairSpec == Spec /\ Fairness

-----------------------------------------------------------------------------
\* The answers on their way to the scene, in the order it will dispatch them.
Coming == IF reply[Wire] = NoAnswer THEN answers ELSE Append(answers, reply[Wire])

\* What the protocol tells the client of its machine: all but the matrix,
\* which LoadContent draws without an answer that carries it.
Told(m) == [totalBet |-> m.totalBet, winner |-> m.winner, status |-> m.status]

\* The places in Coming whose answers replace the scene's machine.
Carrying == {i \in DOMAIN Coming : Coming[i].value /\ Coming[i].type \in MachineTypes}

\* What the scene will know once the answers under way are dispatched.
Awaits(told) ==
    \/ Carrying = {} /\ Told(replica) = told
    \/ \E last \in Carrying : /\ \A i \in Carrying : i <= last
                              /\ Told(Coming[last].Machine) = told

Faultless == losses = 0 /\ restarts = 0

\* The scene never misses a change: what it will show once the answers under
\* way are dispatched is what the server has.  (The answers carry the whole
\* machine and are dispatched in order, GameScene.cpp:135-140; a client that
\* dispatched a poll's answer after a spin's would break it.)
ReplicaFollowsServer ==
    Faultless => Awaits(Told(machine[Me]))

\* The server spins for this player only while the player can see it: the
\* start is on its way or the reels turn.  Once the reels look for their
\* targets the machine stands (GameScene.cpp:467, the three conditions of a
\* start).  Lost messages change nothing of it, a restart of the server does.
SpinIsVisible ==
    restarts = 0 =>
        /\ machine[Me].status = "Spin" => waitStartSpin \/ reels = "turn"
        /\ reels = "stop" => machine[Me].status = "Stop"

\* One press, one spin: waitStartSpin lets no second start leave while one
\* is anywhere between the button and its answer, also when messages are
\* lost or the button is thawed early by an old timer (GameScene.cpp:456).
StartsAsked == {i \in DOMAIN requests : requests[i] = "SpinStart"}
StartsAnswered == {i \in DOMAIN Coming : Coming[i].type = "SpinStart"}
OneStartAtATime ==
    /\ \A i, j \in StartsAsked : i = j
    /\ \A i, j \in StartsAnswered : i = j
    /\ StartsAsked = {} \/ StartsAnswered = {}

\* The WIN field tells the truth.  onStoppedDrum reads the scene's machine
\* when the reels have stopped, long after the answer that stopped them;
\* polls and bets may have replaced it in between.  It still shows what the
\* server has paid, and the reels show the combination it was paid for, as
\* long as the server has not been restarted meanwhile.
WinShownIsWinPaid ==
    [][reels = "stop" /\ reels' = "rest" /\ restarts = 0
          => /\ label' = machine[Me].winner
             /\ target = machine[Me].matrix
             /\ machine[Me].status = "Stop"]_vars

\* What the three properties and WinShownIsWinPaid rest on.

\* The values the variables take; the requests a scene sends.
Asked == {"LoadContent", "Machine", "AddBet", "DelBet", "SpinStart", "SpinStop"}
Answer == {a \in [GUID : {Me}, type : Asked, value : BOOLEAN, Machine : Machine \cup {NoMachine}] :
              a.value /\ a.type \in MachineTypes => a.Machine \in Machine}
TypeOK ==
    /\ machine \in [GUID -> Machine]
    /\ reply \in [Thread -> Answer \cup {NoAnswer}]
    /\ requests \in Seq(Asked)
    /\ answers \in Seq(Answer)
    /\ loaded \in BOOLEAN
    /\ replica \in Machine
    /\ waitStartSpin \in BOOLEAN /\ spinEnabled \in BOOLEAN /\ betEnabled \in BOOLEAN
    /\ timers \in Nat /\ losses \in Nat /\ restarts \in Nat
    /\ reels \in {"rest", "turn", "stop"}
    /\ target \in Matrices \cup {Zeros, NoTarget}
    /\ label \in Nat \cup {Luck}

\* The content is asked for once, and nothing else before it has arrived.
LoadFirst ==
    /\ \A i \in DOMAIN requests : requests[i] = "LoadContent" <=> ~loaded
    /\ \A i \in DOMAIN Coming : Coming[i].type = "LoadContent" <=> ~loaded
    /\ ~loaded => /\ Told(replica) = Told(machine[Me]) /\ Told(replica) = Told(NewMachine)
                  /\ reels = "rest" /\ ~waitStartSpin
                  /\ Len(requests) + Len(Coming) <= 1

\* While a start is under way the scene waits for it and the reels rest.
StartHeld ==
    StartsAsked # {} \/ StartsAnswered # {} => waitStartSpin /\ reels = "rest"

\* The answers that stop the reels.
StopsAnswered == {i \in DOMAIN Coming : Coming[i].type = "SpinStop" /\ Coming[i].value}

\* Up to the first restart a stop is the last word until it is dispatched: it
\* is the only one, no start follows it, and whatever is answered after it
\* shows the win it has paid.
StopIsLast ==
    \A k \in StopsAnswered :
        /\ machine[Me].status = "Stop"
        /\ waitStartSpin \/ reels = "turn"
        /\ StartsAsked = {}
        /\ \A i \in StartsAnswered : i < k
        /\ \A i \in StopsAnswered : i = k
        /\ Coming[k].Machine.matrix = machine[Me].matrix
        /\ \A i \in Carrying : i >= k => Coming[i].Machine.winner = machine[Me].winner

\* While the reels look for their targets the round is over and its win kept.
RoundIsKept ==
    reels = "stop" =>
        /\ target = machine[Me].matrix
        /\ replica.winner = machine[Me].winner
        /\ \A i \in Carrying : Coming[i].Machine.winner = machine[Me].winner

\* A start is asked for only from a machine that stands.
StartFromRest == StartsAsked # {} => machine[Me].status = "Stop"

CasinoInv ==
    /\ TypeOK
    /\ LoadFirst
    /\ StartHeld
    /\ OneStartAtATime
    /\ restarts = 0 => StopIsLast /\ RoundIsKept /\ StartFromRest /\ SpinIsVisible

\* A disabled spin button is enabled again: each of the two branches that
\* disable it sets up the action that enables it.
ButtonThaws == ~spinEnabled ~> spinEnabled

\* A press that stops the machine stops the reels, unless a message is lost
\* or the server restarted.
StopIsDelivered ==
    (\E i \in DOMAIN requests : requests[i] = "SpinStop")
        ~> (reels = "rest" \/ ~Faultless)

-----------------------------------------------------------------------------
\* "we freeze the button for a second after the stop or until the server's
\* answer" (GameScene.cpp:475): a start that has been sent does not block the
\* button for good.
StartIsConfirmed == waitStartSpin ~> ~waitStartSpin

\* "every five seconds we ask for the state of the machine, in case the
\* server has stopped the rotation" (GameScene.cpp:81): when the server has
\* stopped, the reels stop.
ServerStopIsSeen ==
    (reels = "turn" /\ machine[Me].status = "Stop" /\ ~waitStartSpin) ~> reels = "rest"
=============================================================================
