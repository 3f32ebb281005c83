----------------------------- MODULE GameTypes -----------------------------
(***************************************************************************)
(* What the server, the clients and the scene all know of a machine: the   *)
(* fields of the class Machine and the requests and answers of the JSON    *)
(* protocol.  A matrix is an element of a small set; all the protocol      *)
(* tells apart of it is how many lines win and how many multiples of their *)
(* stake they pay together (module SlotMachine computes both).             *)
(***************************************************************************)
EXTENDS Integers

CONSTANTS
    Matrices,     \* the matrices getRandomMatrix draws in the instance
    Zeros,        \* the matrix of a new Machine, all SLOT_1
    lineCount,    \* the number of winning lines of a matrix
    lineUnits,    \* the sum of the multipliers those lines pay
    Values        \* the numbers a SetBet request carries

ASSUME MatrixAssumption ==
    /\ Matrices # {}
    /\ lineCount \in [Matrices \cup {Zeros} -> Nat]
    /\ lineUnits \in [Matrices \cup {Zeros} -> Nat]
ASSUME ValueAssumption == Values \subseteq Int

Status == {"Spin", "Stop"}
Machine == [matrix : Matrices \cup {Zeros}, totalBet : Nat, winner : Nat, status : Status]

\* The constructor Machine().
NewMachine == [matrix |-> Zeros, totalBet |-> 0, winner |-> 0, status |-> "Stop"]

\* getResultBetFromResultList: the winning lines share the bet.
Payout(matrix, bet) ==
    IF lineCount[matrix] = 0 \/ bet = 0 THEN 0
    ELSE (bet \div lineCount[matrix]) * lineUnits[matrix]

\* The requests whose answer carries the machine when they are accepted.
MachineTypes == {"Machine", "SpinStart", "SpinStop", "AddBet", "DelBet", "SetBet"}

\* The types a request may carry: "Other" is any text the server does not
\* know, "Empty" is the empty text.
Types == MachineTypes \cup {"LoadContent", "Other", "Empty"}

\* The bet after the machine is asked for a bet below zero.
NotNegative(bet) == IF bet < 0 THEN 0 ELSE bet

\* The parts of an answer that are absent.
NoMachine == [matrix |-> "none"]
NoAnswer == [type |-> "none"]

\* The JSON answer of processResponce.
AnswerJson(guid, type, value, machine) ==
    [GUID |-> guid, type |-> type, value |-> value,
     Machine |-> IF value /\ type \in MachineTypes THEN machine ELSE NoMachine]
=============================================================================
