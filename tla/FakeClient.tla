----------------------------- MODULE FakeClient -----------------------------
(***************************************************************************)
(* FakeClient (Classes/FakeClient.cpp), the offline client that the game   *)
(* is built with when USE_FAKE_CLIENT_ is defined: it holds the machine    *)
(* itself and answers every call of the scene with callbacks before it     *)
(* returns.  It is kept apart from Accounts, which it does not implement:  *)
(* it leaves the winnings of the last round when the next one starts, and  *)
(* a start it refuses leaves the machine spinning.                         *)
(***************************************************************************)
EXTENDS GameTypes

CONSTANTS
    OfflineBets,    \* the arguments of setBet; none is too large for an int
    MaxOfflineBet   \* bound: addBet is not called above it

ASSUME OfflineAssumption == OfflineBets \subseteq Nat /\ MaxOfflineBet \in Nat

VARIABLES
    offline,        \* FakeClient::machine
    told,           \* the scene's copy: the argument of the last onUpdateMachine
    turning,        \* the reels: onSpinStart was called later than onSpinStop
    won             \* the argument of the last onWinner

fakeVars == <<offline, told, turning, won>>

FakeInit ==
    /\ offline = NewMachine /\ told = NewMachine
    /\ turning = FALSE
    /\ won = 0

updateMachine == told' = offline'

\* A start that is refused for its bet has changed the status before.
spinStart ==
    /\ offline.status = "Stop"
    /\ offline' = [offline EXCEPT !.status = "Spin"]
    /\ updateMachine
    /\ turning' = (offline.totalBet > 0)
    /\ UNCHANGED won

\* Mutant: the scene is told before the round is settled.
spinStopTellsFirst ==
    /\ offline.status = "Spin"
    /\ \E drawn \in Matrices :
        LET res == Payout(drawn, offline.totalBet)
        IN  /\ offline' = [offline EXCEPT !.status = "Stop", !.matrix = drawn, !.winner = res]
            /\ told' = [offline EXCEPT !.status = "Stop", !.matrix = drawn]
            /\ won' = res
    /\ turning' = FALSE

spinStop ==
    /\ offline.status = "Spin"
    /\ \E drawn \in Matrices :
        LET res == Payout(drawn, offline.totalBet)
        IN  /\ offline' = [offline EXCEPT !.status = "Stop", !.matrix = drawn, !.winner = res]
            /\ won' = res
    /\ updateMachine
    /\ turning' = FALSE

ChangeBet(bet) ==
    /\ offline' = [offline EXCEPT !.totalBet = bet]
    /\ updateMachine
    /\ UNCHANGED <<turning, won>>

setBet == \E bet \in OfflineBets : ChangeBet(bet)

addBet == offline.totalBet < MaxOfflineBet /\ ChangeBet(offline.totalBet + 10)

delBet == offline.totalBet > 9 /\ ChangeBet(offline.totalBet - 10)

getMachine ==
    /\ told' = offline
    /\ UNCHANGED <<offline, turning, won>>

FakeNext == spinStart \/ spinStop \/ setBet \/ addBet \/ delBet \/ getMachine

FakeSpec == FakeInit /\ [][FakeNext]_fakeVars

-----------------------------------------------------------------------------
\* What the scene has been told is the round as it was played (FakeClient.cpp:
\* 21-60): its copy is the machine, the win announced is the one in it, and the
\* reels turn only while a call of spinStop would stop them.
OfflineRoundIsTold ==
    /\ told = offline
    /\ won = offline.winner
    /\ turning => offline.status = "Spin"
=============================================================================
