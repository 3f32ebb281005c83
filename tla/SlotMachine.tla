---------------------------- MODULE SlotMachine ----------------------------
(***************************************************************************)
(* The class Machine (Classes/Machine.h, Classes/Machine.cpp), which the   *)
(* server and the client both compile: one game round from the bet to the  *)
(* payout.  The reels are drawn column by column (getRandomMatrix), the    *)
(* winning lines are looked up (getResult) and paid one after another      *)
(* (getListResultBet, getResultBetFromResultList), and the sum is clamped  *)
(* into winner (resultWinner, setWinner).                                  *)
(*                                                                         *)
(* Columns are numbered from 1; rows and slots keep the numbers of the     *)
(* code.  The one-dimensional array of the code is the function            *)
(* matrix[column][row].  int has the range -INT_MAX-1 .. INT_MAX and wraps *)
(* around, as the builds of the project make it do.                        *)
(***************************************************************************)
EXTENDS Integers, FiniteSets

CONSTANTS
    SLOT_COUNT,   \* int(Slot::COUNT), the symbols on a reel
    Bets,         \* the values passed to setTotalBet
    INT_MAX       \* the largest int

ASSUME SlotAssumption == SLOT_COUNT \in Nat /\ SLOT_COUNT >= 3
ASSUME IntAssumption  == INT_MAX \in Nat
ASSUME BetAssumption  == Bets \subseteq 0..INT_MAX

COLS == 5
ROWS == 3
Colum == 1..COLS
Row   == 0..(ROWS - 1)
Slot  == 0..(SLOT_COUNT - 1)
Line  == 1..20

\* Machine::Multi: the length of the run that a line pays for.
None  == 0
X3    == 3
X4    == 4
X5    == 5
Multi == {None, X3, X4, X5}

VARIABLES
    matrix,    \* the matrix getRandomMatrix fills and randomize assigns
    drawn,     \* how many columns the loop of getRandomMatrix has filled
    totalBet,
    winner,
    paid,      \* the winning lines the payout loop has added up
    sum,       \* the accumulator of getResultBetFromResultList
    phase      \* where in the round the machine is

vars == <<matrix, drawn, totalBet, winner, paid, sum, phase>>

-----------------------------------------------------------------------------
(* The tables.                                                             *)

\* What every slot pays, as a multiple of the line's bet.
slotMap == [slot \in Slot |-> [multi \in Multi |-> CASE multi = None -> 0
                                                   [] multi = X3 -> 5
                                                   [] multi = X4 -> 10
                                                   [] multi = X5 -> 15]]

\* The row each line takes in each column, left to right.
linePointsMap ==
    << <<1, 1, 1, 1, 1>>, <<0, 0, 0, 0, 0>>, <<2, 2, 2, 2, 2>>,
       <<0, 1, 2, 1, 0>>, <<2, 1, 0, 1, 2>>, <<0, 0, 1, 0, 0>>,
       <<2, 2, 1, 2, 2>>, <<1, 2, 2, 2, 1>>, <<1, 0, 0, 0, 1>>,
       <<1, 0, 1, 0, 1>>, <<1, 2, 1, 2, 1>>, <<0, 1, 0, 1, 0>>,
       <<2, 1, 2, 1, 2>>, <<1, 1, 0, 1, 1>>, <<1, 1, 2, 1, 1>>,
       <<0, 1, 1, 1, 0>>, <<2, 1, 1, 1, 2>>, <<0, 2, 0, 2, 0>>,
       <<2, 0, 2, 0, 2>>, <<0, 2, 2, 2, 0>> >>

\* The value an int holds after an arithmetic operation whose result is x.
Int32(x) == ((x + INT_MAX + 1) % (2 * (INT_MAX + 1))) - (INT_MAX + 1)

-----------------------------------------------------------------------------
(* The pure part of Machine.                                               *)

\* Mutant: all three rows get the same symbol.
RandSlotRepeated(slot) == [row \in Row |-> slot]

\* randSlot: the three neighbouring symbols of a reel that stops with slot
\* in the middle; the reel is a ring.
randSlot(slot) ==
    [row \in Row |-> CASE row = 0 -> (slot + 1) % SLOT_COUNT
                       [] row = 1 -> slot
                       [] row = 2 -> (slot - 1) % SLOT_COUNT]

\* The slot the line shows in a column.
LineSlot(m, line, c) == m[c][linePointsMap[line][c]]

\* getLine: how long a run of the first column's slot the line starts with,
\* as the multiplier it pays.
getLine(m, line) ==
    LET Run(n) == \A c \in 1..n : LineSlot(m, line, c) = LineSlot(m, line, 1)
    IN  CASE Run(5) -> X5
          [] Run(4) /\ ~Run(5) -> X4
          [] Run(3) /\ ~Run(4) -> X3
          [] OTHER -> None

\* getResult: the lines that win.
getResult(m) == {line \in Line : getLine(m, line) # None}

\* Mutant: every winning line plays for the whole bet.
LineBetUndivided(m, bet) == bet

\* getListResultBet: the stake of one winning line, an integer division.
LineBet(m, bet) == bet \div Cardinality(getResult(m))

\* getListResultBet: what one winning line is paid.
LinePay(m, bet, line) ==
    Int32(LineBet(m, bet) * slotMap[LineSlot(m, line, 1)][getLine(m, line)])

\* setWinner: a negative amount becomes zero.
Clamp(win) == IF win < 0 THEN 0 ELSE win

-----------------------------------------------------------------------------
Init ==
    /\ matrix = [c \in Colum |-> [r \in Row |-> 0]]
    /\ drawn = 0
    /\ totalBet = 0
    /\ winner = 0
    /\ paid = {}
    /\ sum = 0
    /\ phase = "bet"

\* The bet is placed and the round begins.
setTotalBet(bet) ==
    /\ phase = "bet"
    /\ totalBet' = bet
    /\ phase' = "draw"
    /\ UNCHANGED <<matrix, drawn, winner, paid, sum>>

\* randomColum: the next column of the matrix.
randomColum(slot) ==
    /\ phase = "draw"
    /\ drawn < COLS
    /\ matrix' = [matrix EXCEPT ![drawn + 1] = randSlot(slot)]
    /\ drawn' = drawn + 1
    /\ phase' = IF drawn + 1 = COLS THEN "pay" ELSE "draw"
    /\ UNCHANGED <<totalBet, winner, paid, sum>>

\* Mutant: the sum is assigned, not added to.
PayLineAssigns(line) ==
    /\ phase = "pay"
    /\ totalBet # 0
    /\ line \in getResult(matrix) \ paid
    /\ \A other \in getResult(matrix) \ paid : line <= other
    /\ paid' = paid \cup {line}
    /\ sum' = LinePay(matrix, totalBet, line)
    /\ UNCHANGED <<matrix, drawn, totalBet, winner, phase>>

\* One turn of the payout loop.  getListResultBet returns an empty list for
\* an empty result or a bet of zero, and then nothing is added.
PayLine(line) ==
    /\ phase = "pay"
    /\ totalBet # 0
    /\ line \in getResult(matrix) \ paid
    /\ \A other \in getResult(matrix) \ paid : line <= other
    /\ paid' = paid \cup {line}
    /\ sum' = Int32(sum + LinePay(matrix, totalBet, line))
    /\ UNCHANGED <<matrix, drawn, totalBet, winner, phase>>

\* The end of resultWinner: the sum becomes the winner.
resultWinner ==
    /\ phase = "pay"
    /\ totalBet = 0 \/ paid = getResult(matrix)
    /\ winner' = Clamp(sum)
    /\ phase' = "done"
    /\ UNCHANGED <<matrix, drawn, totalBet, paid, sum>>

Next ==
    \/ \E bet \in Bets : setTotalBet(bet)
    \/ \E slot \in Slot : randomColum(slot)
    \/ \E line \in Line : PayLine(line)
    \/ resultWinner

Spec == Init /\ [][Next]_vars

-----------------------------------------------------------------------------
Int32Range == (-INT_MAX - 1)..INT_MAX

\* The types of the state, and how far each loop may have come.
TypeOK ==
    /\ matrix \in [Colum -> [Row -> Slot]]
    /\ drawn \in 0..COLS
    /\ totalBet \in 0..INT_MAX
    /\ winner \in 0..INT_MAX
    /\ paid \subseteq Line
    /\ sum \in Int32Range
    /\ phase \in {"bet", "draw", "pay", "done"}

\* A round can be paid within an int when its largest possible payout fits.
Representable == 15 * totalBet <= INT_MAX

\* No round pays more than the best line's fifteen times the whole bet: the
\* bet is divided among the winning lines before it is multiplied
\* (Machine.cpp:91-97), and no line is paid twice.
NoOverpay == Representable => winner <= 15 * totalBet

\* The loop invariant of the payout that makes NoOverpay inductive: before
\* the payout nothing is added up, and during it the sum is at most fifteen
\* stakes for each line paid so far (getResultBetFromResultList).
PayInv ==
    /\ phase # "done" => winner = 0
    /\ phase \in {"bet", "draw"} => paid = {}
    /\ paid = {} => sum = 0
    /\ paid # {} => totalBet # 0
    /\ phase = "pay" => paid \subseteq getResult(matrix)
    /\ phase = "pay" /\ Representable =>
           sum \in 0..(15 * (Cardinality(paid) * LineBet(matrix, totalBet)))
           \/ paid = {}

\* A round with a winning line pays at least a coin, although the bet is
\* divided by the number of winning lines with rounding down: a matrix that
\* getRandomMatrix draws has so few winning lines at once that a unit of ten
\* (the only step the plus and minus buttons take) survives the division.
WinningRoundPays ==
    phase = "done" /\ Representable /\ totalBet >= 10 /\ getResult(matrix) # {}
        => winner > 0

\* What a set of winning lines is worth, in stakes of one line.
WithRun(lines, n) == {l \in lines : getLine(matrix, l) = n}
Units(lines) ==
    5 * Cardinality(WithRun(lines, X3)) + 10 * Cardinality(WithRun(lines, X4))
        + 15 * Cardinality(WithRun(lines, X5))

\* A round pays its share of the bet (rounded down) once for every unit of
\* every winning line, no line left out and none paid twice: the payout
\* depends on the matrix only through the number of winning lines and the
\* sum of their multipliers, which is how the other modules use it.
PaysShareTimesUnits ==
    phase = "done" /\ Representable =>
        LET count == Cardinality(getResult(matrix))
        IN  winner = IF count = 0 THEN 0 ELSE (totalBet \div count) * Units(getResult(matrix))

\* The loop invariants that make the last two inductive: the lines paid so
\* far have been paid their units, and a drawn column shows no symbol twice.
SumInv ==
    phase = "pay" /\ Representable =>
        sum = IF paid = {} THEN 0 ELSE LineBet(matrix, totalBet) * Units(paid)

DrawInv ==
    /\ phase \in {"pay", "done"} => drawn = COLS
    /\ \A c \in 1..drawn : \A r, s \in Row : matrix[c][r] = matrix[c][s] => r = s
=============================================================================
