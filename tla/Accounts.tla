------------------------------ MODULE Accounts ------------------------------
(***************************************************************************)
(* What the game server promises its clients (the abstract specification   *)
(* of CasinoServer/Server): every GUID owns one machine, new until it is   *)
(* first used; a request is one indivisible operation on the machine of    *)
(* its own GUID; and the answer shows that machine exactly as the          *)
(* operation left it.  It knows nothing of threads or of the order of      *)
(* reads and writes inside a request.                                      *)
(***************************************************************************)
EXTENDS GameTypes

CONSTANTS
    GUID,         \* the clients
    Thread        \* the calls of service that can be under way

VARIABLES
    machine,      \* the machine of each client
    reply         \* the answer each call still has to send

acctVars == <<machine, reply>>

-----------------------------------------------------------------------------
(* One operator per request type: the machine after it, or the machine    *)
(* unchanged when the request is refused.                                  *)

Accepts(m, type) ==
    CASE type = "SpinStart" -> m.status = "Stop" /\ m.totalBet > 0
      [] type = "SpinStop"  -> m.status = "Spin"
      [] type = "DelBet"    -> m.totalBet > 0
      [] type = "Other"     -> FALSE
      [] OTHER              -> TRUE

\* drawn is the matrix the random generator delivers to this request.
After(m, type, value, drawn) ==
    CASE type = "SpinStart" -> [m EXCEPT !.winner = 0, !.status = "Spin"]
      [] type = "SpinStop"  -> [m EXCEPT !.matrix = drawn, !.status = "Stop",
                                         !.winner = Payout(drawn, m.totalBet)]
      [] type = "AddBet"    -> [m EXCEPT !.totalBet = @ + 10]
      [] type = "DelBet"    -> [m EXCEPT !.totalBet = NotNegative(@ - 10)]
      [] type = "SetBet"    -> [m EXCEPT !.totalBet = NotNegative(value)]
      [] type = "LoadContent" -> [m EXCEPT !.matrix = drawn]
      [] OTHER              -> m

-----------------------------------------------------------------------------
AcctInit ==
    /\ machine = [g \in GUID |-> NewMachine]
    /\ reply = [t \in Thread |-> NoAnswer]

\* A request of client g takes effect and its answer is settled.
Perform(t, g, type, value, drawn) ==
    /\ reply[t] = NoAnswer
    /\ LET ok == Accepts(machine[g], type)
           after == IF ok THEN After(machine[g], type, value, drawn) ELSE machine[g]
       IN  /\ machine' = [machine EXCEPT ![g] = after]
           /\ reply' = [reply EXCEPT ![t] = AnswerJson(g, type, ok, after)]

\* The answer leaves, as it was settled.
Send(t) ==
    /\ reply[t] # NoAnswer
    /\ reply' = [reply EXCEPT ![t] = NoAnswer]
    /\ UNCHANGED machine

\* The server process is restarted: the machines live in memory only.
Forget ==
    /\ machine' = [g \in GUID |-> NewMachine]
    /\ reply' = [t \in Thread |-> NoAnswer]

AcctNext ==
    \/ \E t \in Thread, g \in GUID, type \in Types \ {"Empty"},
          value \in Values \cup {0}, drawn \in Matrices : Perform(t, g, type, value, drawn)
    \/ \E t \in Thread : Send(t)
    \/ Forget

AcctSpec == AcctInit /\ [][AcctNext]_acctVars
=============================================================================
