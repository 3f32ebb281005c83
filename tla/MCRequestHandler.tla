-------------------------- MODULE MCRequestHandler --------------------------
(* Instances for TLC of the two programs that play the game: the servlet   *)
(* RequestHandler, and the offline client.  A behaviour has one of them    *)
(* (GameSpec, ServerSpec); the two share no state.                         *)
EXTENDS RequestHandler, FakeClient, TLC

CONSTANTS a, b      \* clients
CONSTANTS t1, t2    \* connection threads

MCClients == {a, b}
MCClient  == {a}
MCThreads == {t1, t2}

\* A losing matrix and one with two winning lines of three slots each; the
\* matrix of a new machine has twenty lines of five.
MCMatrices  == {"losing", "winning"}
MCWinning   == {"winning"}
MCLineCount == [m \in Matrices \cup {"zeros"} |->
                   CASE m = "losing" -> 0 [] m = "winning" -> 2 [] m = "zeros" -> 20]
MCLineUnits == [m \in Matrices \cup {"zeros"} |->
                   CASE m = "losing" -> 0 [] m = "winning" -> 10 [] m = "zeros" -> 300]

\* SetBet with a negative number and with one that AddBet cannot produce.
MCValues == {-1, 4}
MCNegative == {-1}
MCOfflineBets == {0, 4}

Symmetric == Permutations(MCThreads)

VARIABLE program    \* the one that runs in this behaviour

GameInit == Init /\ FakeInit /\ program \in {"server", "offline"}

GameNext ==
    /\ UNCHANGED program
    /\ \/ program = "server" /\ Next /\ UNCHANGED fakeVars
       \/ program = "offline" /\ FakeNext /\ UNCHANGED vars

GameSpec == GameInit /\ [][GameNext]_<<vars, fakeVars, program>>

\* The concurrent calls concern the servlet alone.
ServerSpec == GameInit /\ program = "server" /\ [][GameNext]_<<vars, fakeVars, program>>
=============================================================================
