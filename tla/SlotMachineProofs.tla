-------------------------- MODULE SlotMachineProofs --------------------------
(* Proofs about SlotMachine: the types of its state, and what a round pays: *)
(* never more than fifteen bets, exactly the share of every unit won, and   *)
(* something for every win.                                                 *)
EXTENDS SlotMachine, FiniteSetTheorems, TLAPS

-----------------------------------------------------------------------------
(* Arithmetic of the payout.                                               *)

\* An int operation whose exact result is an int returns that result.
LEMMA Int32Exact ==
    ASSUME NEW x \in Int32Range
    PROVE  Int32(x) = x
<1> DEFINE n == 2 * (INT_MAX + 1)
           y == x + INT_MAX + 1
<1>1. n \in Nat /\ n > 0 /\ y \in 0..(n - 1)
    BY IntAssumption DEF Int32Range
<1>2. ASSUME NEW a \in Nat, NEW b \in Nat, b > 0, a < b
      PROVE  a % b = a
    BY <1>2
<1>3. y % n = y
    BY <1>1, <1>2
<1> QED BY <1>3, IntAssumption DEF Int32, Int32Range

\* An int operation returns an int.
LEMMA Int32Type ==
    ASSUME NEW x \in Int
    PROVE  Int32(x) \in Int32Range
<1> DEFINE n == 2 * (INT_MAX + 1)
           y == x + INT_MAX + 1
<1>1. n \in Nat /\ n > 0 /\ y \in Int
    BY IntAssumption
<1>2. y % n \in 0..(n - 1)
    BY <1>1
<1> QED BY <1>2, IntAssumption DEF Int32, Int32Range

\* The product of two naturals grows with each of its factors.
LEMMA ProductMonotone ==
    ASSUME NEW a \in Nat, NEW b \in Nat, NEW c \in Nat, a <= b
    PROVE  a * c <= b * c /\ a * c \in Nat /\ b * c \in Nat
OBVIOUS

\* Sharing a bet among n lines never hands out more than the bet.
LEMMA ShareBound ==
    ASSUME NEW t \in Nat, NEW n \in Nat \ {0}
    PROVE  t \div n \in Nat /\ n * (t \div n) <= t
OBVIOUS
-----------------------------------------------------------------------------
(* The tables and the winning lines.                                       *)

\* The winning lines are finitely many, and there is one when a line wins.
LEMMA WinningLines ==
    ASSUME NEW m
    PROVE  /\ getResult(m) \subseteq Line
           /\ IsFiniteSet(getResult(m))
           /\ Cardinality(getResult(m)) \in Nat
           /\ \A line \in getResult(m) : Cardinality(getResult(m)) # 0
<1>1. getResult(m) \subseteq Line
    BY DEF getResult
<1>2. IsFiniteSet(getResult(m))
    <2>1. 1 \in Int /\ 20 \in Int
        OBVIOUS
    <2>2. IsFiniteSet(1..20)
        BY ONLY <2>1, FS_Interval, Zenon
    <2> QED BY <1>1, <2>2, FS_Subset DEF Line
<1>3. Cardinality(getResult(m)) \in Nat
    BY <1>2, FS_CardinalityType
<1>4. \A line \in getResult(m) : Cardinality(getResult(m)) # 0
    BY <1>2, FS_EmptySet
<1> QED BY <1>1, <1>2, <1>3, <1>4

\* Every line starts on a row of the matrix and shows a slot there.
LEMMA LineSlotType ==
    ASSUME NEW m \in [Colum -> [Row -> Slot]], NEW line \in Line
    PROVE  LineSlot(m, line, 1) \in Slot
<1>1. linePointsMap[line][1] \in Row
    BY DEF linePointsMap, Line, Row, ROWS
<1> QED BY <1>1 DEF LineSlot, Colum, COLS

\* No slot pays more than fifteen times the line's bet.
LEMMA PaytableBound ==
    ASSUME NEW slot \in Slot, NEW m, NEW line
    PROVE  slotMap[slot][getLine(m, line)] \in 0..15
<1>1. getLine(m, line) \in Multi
    BY DEF getLine, Multi
<1>2. \A multi \in Multi : slotMap[slot][multi] \in 0..15
    BY DEF slotMap, Multi, None, X3, X4, X5
<1> QED BY <1>1, <1>2

\* The stake of a winning line, times the number of winning lines, is at
\* most the bet.
LEMMA LineBetBound ==
    ASSUME NEW m, NEW bet \in Nat, NEW line \in getResult(m)
    PROVE  /\ LineBet(m, bet) \in Nat
           /\ Cardinality(getResult(m)) * LineBet(m, bet) <= bet
           /\ LineBet(m, bet) <= bet
<1>1. Cardinality(getResult(m)) \in Nat \ {0}
    BY WinningLines
<1>2. /\ LineBet(m, bet) \in Nat
      /\ Cardinality(getResult(m)) * LineBet(m, bet) <= bet
    BY <1>1, ShareBound DEF LineBet
<1>3. 1 * LineBet(m, bet) <= Cardinality(getResult(m)) * LineBet(m, bet)
    BY <1>1, <1>2, ProductMonotone
<1> QED BY <1>1, <1>2, <1>3

\* A winning line of a representable round is paid at most fifteen stakes.
LEMMA LinePayBound ==
    ASSUME NEW m \in [Colum -> [Row -> Slot]], NEW bet \in Nat,
           15 * bet <= INT_MAX, NEW line \in getResult(m)
    PROVE  LinePay(m, bet, line) \in 0..(15 * LineBet(m, bet))
<1> DEFINE share == LineBet(m, bet)
           times == slotMap[LineSlot(m, line, 1)][getLine(m, line)]
<1>1. share \in Nat /\ share <= bet
    BY LineBetBound
<1>2. times \in 0..15
    BY LineSlotType, PaytableBound, WinningLines
<1>3. share * times \in 0..(15 * share)
    <2>1. times * share <= 15 * share /\ times * share \in Nat
        BY <1>1, <1>2, ProductMonotone
    <2>2. times * share = share * times
        BY <1>1, <1>2
    <2> QED BY <2>1, <2>2, <1>1
<1>4. share * times \in Int32Range
    BY <1>1, <1>3, IntAssumption DEF Int32Range
<1> QED BY <1>3, <1>4, Int32Exact DEF LinePay
-----------------------------------------------------------------------------
(* Type correctness.                                                       *)

\* The payout loop adds ints, so its accumulator stays an int.
LEMMA SumType ==
    ASSUME TypeOK, NEW line \in getResult(matrix)
    PROVE  Int32(sum + LinePay(matrix, totalBet, line)) \in Int32Range
<1>1. LineBet(matrix, totalBet) \in Int
    BY LineBetBound, IntAssumption DEF TypeOK
<1>2. slotMap[LineSlot(matrix, line, 1)][getLine(matrix, line)] \in Int
    BY LineSlotType, PaytableBound, WinningLines DEF TypeOK
<1>3. LineBet(matrix, totalBet)
        * slotMap[LineSlot(matrix, line, 1)][getLine(matrix, line)] \in Int
    BY <1>1, <1>2
<1>4. LinePay(matrix, totalBet, line) \in Int
    BY <1>3, Int32Type DEF LinePay, Int32Range
<1>5. sum + LinePay(matrix, totalBet, line) \in Int
    BY <1>4 DEF TypeOK, Int32Range
<1> QED BY <1>5, Int32Type

\* The three rows of a drawn column are slots of the reel.
LEMMA RandSlotType ==
    ASSUME NEW slot \in Slot
    PROVE  randSlot(slot) \in [Row -> Slot]
<1>1. (slot + 1) % SLOT_COUNT \in Slot /\ (slot - 1) % SLOT_COUNT \in Slot
    BY SlotAssumption DEF Slot
<1> QED BY <1>1 DEF randSlot, Row, ROWS

\* TypeOK holds in every state of every round, whatever the reel, the bets
\* and the width of int.
THEOREM TypeCorrect == Spec => []TypeOK
<1>1. Init => TypeOK
    BY SlotAssumption, IntAssumption
    DEF Init, TypeOK, Slot, COLS, Int32Range
<1>2. TypeOK /\ [Next]_vars => TypeOK'
    <2> SUFFICES ASSUME TypeOK, [Next]_vars PROVE TypeOK'
        OBVIOUS
    <2>1. ASSUME NEW bet \in Bets, setTotalBet(bet) PROVE TypeOK'
        BY <2>1, BetAssumption DEF TypeOK, setTotalBet
    <2>2. ASSUME NEW slot \in Slot, randomColum(slot) PROVE TypeOK'
        <3>1. matrix' \in [Colum -> [Row -> Slot]]
            BY <2>2, RandSlotType DEF TypeOK, randomColum
        <3>2. drawn' \in 0..COLS
            BY <2>2 DEF TypeOK, randomColum, COLS
        <3> QED BY <2>2, <3>1, <3>2 DEF TypeOK, randomColum
    <2>3. ASSUME NEW line \in Line, PayLine(line) PROVE TypeOK'
        <3>1. sum' \in Int32Range
            BY <2>3, SumType DEF PayLine
        <3> QED BY <2>3, <3>1 DEF TypeOK, PayLine
    <2>4. CASE resultWinner
        BY <2>4, IntAssumption DEF TypeOK, resultWinner, Clamp, Int32Range
    <2>5. CASE UNCHANGED vars
        BY <2>5 DEF TypeOK, vars
    <2> QED BY <2>1, <2>2, <2>3, <2>4, <2>5 DEF Next
<1> QED BY <1>1, <1>2, PTL DEF Spec

-----------------------------------------------------------------------------
(* The payout bound.                                                       *)

\* One more line adds at most fifteen stakes to the sum.
LEMMA PayStep ==
    ASSUME TypeOK, PayInv, NEW line \in Line, PayLine(line), Representable
    PROVE  /\ sum' \in 0..(15 * (Cardinality(paid') * LineBet(matrix, totalBet)))
           /\ paid' \subseteq getResult(matrix)
           /\ sum' = sum + LinePay(matrix, totalBet, line)
<1> DEFINE share == LineBet(matrix, totalBet)
           n == Cardinality(paid)
<1>1. line \in getResult(matrix) /\ line \notin paid /\ paid' = paid \cup {line}
    BY DEF PayLine
<1>2. paid \subseteq getResult(matrix) /\ paid' \subseteq getResult(matrix)
    BY <1>1 DEF PayInv, PayLine
<1>3. /\ n \in Nat /\ Cardinality(paid') = n + 1
      /\ n + 1 <= Cardinality(getResult(matrix))
    <2>1. IsFiniteSet(paid) /\ n \in Nat
        BY <1>2, WinningLines, FS_Subset, FS_CardinalityType
    <2>2. Cardinality(paid') = n + 1
        BY <1>1, <2>1, FS_AddElement
    <2>3. Cardinality(paid') <= Cardinality(getResult(matrix))
        BY <1>2, WinningLines, FS_Subset
    <2> QED BY <2>1, <2>2, <2>3
<1>4. /\ share \in Nat /\ totalBet \in Nat
      /\ Cardinality(getResult(matrix)) \in Nat
      /\ Cardinality(getResult(matrix)) * share <= totalBet
    BY <1>1, LineBetBound, WinningLines DEF TypeOK
<1>5. (n + 1) * share <= totalBet /\ (n + 1) * share \in Nat
    <2>1. (n + 1) * share <= Cardinality(getResult(matrix)) * share
        BY <1>3, <1>4, ProductMonotone
    <2> QED BY <2>1, <1>3, <1>4
<1>6. (n + 1) * share = n * share + share /\ n * share \in Nat
    BY <1>3, <1>4
<1>7. sum \in 0..(15 * (n * share))
    <2>1. CASE paid = {}
        BY <2>1, <1>6 DEF PayInv
    <2>2. CASE paid # {}
        BY <2>2 DEF PayInv, PayLine
    <2> QED BY <2>1, <2>2
<1>8. LinePay(matrix, totalBet, line) \in 0..(15 * share)
    BY <1>1, <1>4, LinePayBound DEF TypeOK, Representable
<1>9. sum + LinePay(matrix, totalBet, line) \in 0..(15 * ((n + 1) * share))
    BY <1>4, <1>5, <1>6, <1>7, <1>8
<1>10. sum + LinePay(matrix, totalBet, line) \in Int32Range
    BY <1>4, <1>5, <1>9, IntAssumption DEF Representable, Int32Range
<1>11. sum' = sum + LinePay(matrix, totalBet, line)
    BY <1>10, Int32Exact DEF PayLine
<1> QED BY <1>2, <1>3, <1>9, <1>11

\* The loop invariant and the bound itself are inductive.
LEMMA PayInvInductive ==
    TypeOK /\ PayInv /\ NoOverpay /\ [Next]_vars => (PayInv /\ NoOverpay)'
<1> SUFFICES ASSUME TypeOK, PayInv, NoOverpay, [Next]_vars
             PROVE  PayInv' /\ NoOverpay'
    OBVIOUS
<1>1. ASSUME NEW bet \in Bets, setTotalBet(bet) PROVE PayInv' /\ NoOverpay'
    BY <1>1, BetAssumption, IntAssumption
    DEF setTotalBet, PayInv, NoOverpay, Representable
<1>2. ASSUME NEW slot \in Slot, randomColum(slot) PROVE PayInv' /\ NoOverpay'
    BY <1>2 DEF randomColum, PayInv, NoOverpay, Representable
<1>3. ASSUME NEW line \in Line, PayLine(line) PROVE PayInv' /\ NoOverpay'
    <2>1. Representable => sum' \in 0..(15 * (Cardinality(paid') * LineBet(matrix, totalBet)))
        BY <1>3, PayStep
    <2>2. paid' \subseteq getResult(matrix) /\ paid' # {}
        BY <1>3 DEF PayLine, PayInv
    <2>3. UNCHANGED <<matrix, totalBet, winner, phase>> /\ phase = "pay" /\ totalBet # 0
        BY <1>3 DEF PayLine
    <2> QED BY <2>1, <2>2, <2>3 DEF PayInv, NoOverpay, Representable
<1>4. CASE resultWinner
    <2>1. PayInv'
        BY <1>4 DEF resultWinner, PayInv
    <2>2. Representable => Clamp(sum) <= 15 * totalBet
        <3> SUFFICES ASSUME Representable PROVE Clamp(sum) <= 15 * totalBet
            OBVIOUS
        <3>1. CASE paid = {}
            BY <3>1 DEF PayInv, TypeOK, Clamp
        <3>2. CASE paid # {}
            <4> DEFINE share == LineBet(matrix, totalBet)
                       n == Cardinality(paid)
            <4>1. phase = "pay" /\ paid \subseteq getResult(matrix)
                BY <1>4 DEF resultWinner, PayInv
            <4>2. PICK line : line \in getResult(matrix)
                BY <3>2, <4>1
            <4>3. /\ share \in Nat /\ totalBet \in Nat
                  /\ Cardinality(getResult(matrix)) \in Nat
                  /\ Cardinality(getResult(matrix)) * share <= totalBet
                BY <4>2, LineBetBound, WinningLines DEF TypeOK
            <4>4. n \in Nat /\ n <= Cardinality(getResult(matrix))
                BY <4>1, WinningLines, FS_Subset, FS_CardinalityType
            <4>5. n * share <= totalBet /\ n * share \in Nat
                <5>1. n * share <= Cardinality(getResult(matrix)) * share
                    BY <4>3, <4>4, ProductMonotone
                <5> QED BY <5>1, <4>3, <4>4
            <4>6. sum \in 0..(15 * (n * share))
                BY <3>2, <4>1 DEF PayInv
            <4> QED BY <4>3, <4>5, <4>6 DEF Clamp
        <3> QED BY <3>1, <3>2
    <2>3. NoOverpay'
        BY <1>4, <2>2 DEF resultWinner, NoOverpay, Representable
    <2> QED BY <2>1, <2>3
<1>5. CASE UNCHANGED vars
    BY <1>5 DEF vars, PayInv, NoOverpay, Representable
<1> QED BY <1>1, <1>2, <1>3, <1>4, <1>5 DEF Next

\* No round whose largest payout fits an int pays more than fifteen times
\* its bet.
THEOREM PayoutBounded == Spec => []NoOverpay
<1>1. Init => PayInv /\ NoOverpay
    BY DEF Init, PayInv, NoOverpay
<1>2. TypeOK /\ PayInv /\ NoOverpay /\ [Next]_vars => (PayInv /\ NoOverpay)'
    BY PayInvInductive
<1> QED BY <1>1, <1>2, TypeCorrect, PTL DEF Spec

-----------------------------------------------------------------------------
(* What a round pays, exactly.                                             *)

\* The multiplier of a winning line depends on the length of its run only.
Worth(n) == CASE n = X3 -> 5 [] n = X4 -> 10 [] n = X5 -> 15

\* A winning line has a run of three, four or five.
LEMMA WinningRun ==
    ASSUME NEW m, NEW line \in getResult(m)
    PROVE  getLine(m, line) \in {X3, X4, X5}
BY DEF getResult, getLine, X3, X4, X5, None

\* A winning line is paid its stake times its multiplier, without overflow.
LEMMA LinePayExact ==
    ASSUME NEW m \in [Colum -> [Row -> Slot]], NEW bet \in Nat,
           15 * bet <= INT_MAX, NEW line \in getResult(m)
    PROVE  LinePay(m, bet, line) = LineBet(m, bet) * Worth(getLine(m, line))
<1> DEFINE share == LineBet(m, bet)
           times == Worth(getLine(m, line))
<1>1. share \in Nat /\ share <= bet
    BY LineBetBound
<1>2. times \in 0..15 /\ slotMap[LineSlot(m, line, 1)][getLine(m, line)] = times
    BY LineSlotType, WinningRun, WinningLines DEF slotMap, Multi, Worth, None, X3, X4, X5
<1>3. share * times \in Int32Range
    <2>1. times * share <= 15 * share /\ times * share \in Nat
        BY <1>1, <1>2, ProductMonotone
    <2>2. times * share = share * times
        BY <1>1, <1>2
    <2> QED BY <1>1, <2>1, <2>2, IntAssumption DEF Int32Range
<1> QED BY <1>2, <1>3, Int32Exact DEF LinePay

\* Sets of lines are finite, and so is a part of them.
LEMMA LinesFinite ==
    ASSUME NEW lines \in SUBSET Line
    PROVE  IsFiniteSet(lines) /\ Cardinality(lines) \in Nat
<1>1. 1 \in Int /\ 20 \in Int
    OBVIOUS
<1>2. IsFiniteSet(1..20)
    BY ONLY <1>1, FS_Interval, Zenon
<1> QED BY <1>2, FS_Subset, FS_CardinalityType DEF Line

\* One more line is one more with its run, and no more with any other.
LEMMA WithRunStep ==
    ASSUME NEW lines \in SUBSET Line, NEW line \in Line, line \notin lines, NEW n
    PROVE  /\ Cardinality(WithRun(lines, n)) \in Nat
           /\ Cardinality(WithRun(lines \cup {line}, n)) =
                  Cardinality(WithRun(lines, n)) + (IF getLine(matrix, line) = n THEN 1 ELSE 0)
<1>1. WithRun(lines, n) \subseteq Line
    BY DEF WithRun
<1>2. IsFiniteSet(WithRun(lines, n)) /\ Cardinality(WithRun(lines, n)) \in Nat
    BY <1>1, LinesFinite
<1>3. CASE getLine(matrix, line) = n
    <2>1. WithRun(lines \cup {line}, n) = WithRun(lines, n) \cup {line} /\ line \notin WithRun(lines, n)
        BY <1>3 DEF WithRun
    <2> QED BY <1>2, <1>3, <2>1, FS_AddElement
<1>4. CASE getLine(matrix, line) # n
    <2>1. WithRun(lines \cup {line}, n) = WithRun(lines, n)
        BY <1>4 DEF WithRun
    <2> QED BY <1>2, <1>4, <2>1
<1> QED BY <1>3, <1>4

\* One more line adds its multiplier to the units.
LEMMA UnitsStep ==
    ASSUME NEW lines \in SUBSET Line, NEW line \in Line, line \notin lines,
           getLine(matrix, line) \in {X3, X4, X5}
    PROVE  /\ Units(lines) \in Nat
           /\ Units(lines \cup {line}) = Units(lines) + Worth(getLine(matrix, line))
BY WithRunStep DEF Units, Worth, X3, X4, X5

\* No lines are worth nothing.
LEMMA UnitsNone == Units({}) = 0
<1>1. \A n : WithRun({}, n) = {}
    BY DEF WithRun
<1>2. Cardinality({}) = 0
    BY FS_EmptySet
<1> QED BY <1>1, <1>2 DEF Units

\* A reel shows three different symbols, since it has at least three.
LEMMA RandSlotInjective ==
    ASSUME NEW slot \in Slot, NEW r \in Row, NEW s \in Row, randSlot(slot)[r] = randSlot(slot)[s]
    PROVE  r = s
<1>1. (slot + 1) % SLOT_COUNT = IF slot = SLOT_COUNT - 1 THEN 0 ELSE slot + 1
    BY SlotAssumption DEF Slot
<1>2. (slot - 1) % SLOT_COUNT = IF slot = 0 THEN SLOT_COUNT - 1 ELSE slot - 1
    BY SlotAssumption DEF Slot
<1>3. Row = {0, 1, 2}
    BY DEF Row, ROWS
<1>4. /\ randSlot(slot)[0] = (slot + 1) % SLOT_COUNT
      /\ randSlot(slot)[1] = slot
      /\ randSlot(slot)[2] = (slot - 1) % SLOT_COUNT
    BY <1>3 DEF randSlot
<1>5. slot \in Int /\ slot >= 0 /\ slot < SLOT_COUNT
    BY SlotAssumption DEF Slot
<1> QED BY <1>1, <1>2, <1>3, <1>4, <1>5, SlotAssumption

\* No two lines begin with the same three rows.
LEMMA LinesDiffer ==
    ASSUME NEW k \in Line, NEW l \in Line, \A c \in 1..3 : linePointsMap[k][c] = linePointsMap[l][c]
    PROVE  k = l
BY DEF linePointsMap, Line

\* Where no column shows a symbol twice, at most three lines win: one for each
\* row of the first column, since its symbol fixes the rows of the next two.
LEMMA FewLinesWin ==
    ASSUME NEW m, \A c \in 1..COLS : \A r, s \in Row : m[c][r] = m[c][s] => r = s
    PROVE  Cardinality(getResult(m)) <= 3
<1> DEFINE first == [line \in getResult(m) |-> linePointsMap[line][1]]
<1>1. getResult(m) \subseteq Line /\ IsFiniteSet(getResult(m)) /\ Cardinality(getResult(m)) \in Nat
    BY WinningLines
<1>2. \A line \in Line, c \in 1..COLS : linePointsMap[line][c] \in Row
    BY DEF linePointsMap, Line, Row, ROWS, COLS
<1>3. first \in [getResult(m) -> Row]
    BY <1>1, <1>2 DEF COLS
<1>4. ASSUME NEW k \in getResult(m), NEW l \in getResult(m), first[k] = first[l]
      PROVE  k = l
    <2>1. \A line \in getResult(m) : \A c \in 1..3 : LineSlot(m, line, c) = LineSlot(m, line, 1)
        BY DEF getResult, getLine, None, X3, X4, X5
    <2>2. ASSUME NEW c \in 1..3 PROVE linePointsMap[k][c] = linePointsMap[l][c]
        <3>1. m[c][linePointsMap[k][c]] = m[c][linePointsMap[l][c]]
            BY <2>1, <1>4 DEF LineSlot
        <3> QED BY <1>1, <1>2, <3>1 DEF COLS
    <2> QED BY <1>1, <2>2, LinesDiffer
<1>5. IsFiniteSet(Row) /\ Cardinality(Row) = 3
    <2>1. 0 \in Int /\ 2 \in Int /\ Row = 0..2
        BY DEF Row, ROWS
    <2>2. IsFiniteSet(0..2) /\ Cardinality(0..2) = IF 0 > 2 THEN 0 ELSE 2 - 0 + 1
        BY ONLY <2>1, FS_Interval, Zenon
    <2> QED BY <2>1, <2>2
<1> HIDE DEF first
<1>6. ~(Cardinality(Row) < Cardinality(getResult(m)))
    <2> SUFFICES ASSUME Cardinality(Row) < Cardinality(getResult(m)) PROVE FALSE
        OBVIOUS
    <2>1. \E k, l \in getResult(m) : k # l /\ first[k] = first[l]
        BY <1>1, <1>3, <1>5, FS_PigeonHole
    <2> QED BY <1>4, <2>1
<1> QED BY <1>1, <1>5, <1>6

\* The payout loop adds exactly the units of the lines it has come to, and the
\* columns that are drawn show three symbols each.
RoundInv == TypeOK /\ PayInv /\ NoOverpay /\ SumInv /\ DrawInv

LEMMA SumStep ==
    ASSUME RoundInv, NEW line \in Line, PayLine(line), Representable
    PROVE  sum' = LineBet(matrix, totalBet) * Units(paid')
<1> DEFINE share == LineBet(matrix, totalBet)
<1>1. /\ line \in getResult(matrix) /\ line \notin paid /\ paid' = paid \cup {line}
      /\ phase = "pay" /\ paid \subseteq Line
    BY DEF PayLine, RoundInv, TypeOK
<1>2. sum' = sum + LinePay(matrix, totalBet, line)
    BY PayStep DEF RoundInv
<1>3. LinePay(matrix, totalBet, line) = share * Worth(getLine(matrix, line))
    BY <1>1, LinePayExact, IntAssumption DEF RoundInv, TypeOK, Representable
<1>4. share \in Nat
    BY <1>1, LineBetBound DEF RoundInv, TypeOK
<1>5. getLine(matrix, line) \in {X3, X4, X5}
    BY <1>1, WinningRun
<1>6. Worth(getLine(matrix, line)) \in Nat
    BY <1>5 DEF Worth, X3, X4, X5
<1>7. Units(paid) \in Nat /\ Units(paid') = Units(paid) + Worth(getLine(matrix, line))
    BY <1>1, <1>5, UnitsStep
<1>8. sum = share * Units(paid)
    <2>1. CASE paid = {}
        BY <1>1, <1>4, <2>1, UnitsNone DEF RoundInv, SumInv
    <2>2. CASE paid # {}
        BY <1>1, <2>2 DEF RoundInv, SumInv
    <2> QED BY <2>1, <2>2
<1>9. share * (Units(paid) + Worth(getLine(matrix, line)))
        = share * Units(paid) + share * Worth(getLine(matrix, line))
    BY <1>4, <1>6, <1>7
<1> QED BY <1>2, <1>3, <1>7, <1>8, <1>9

LEMMA RoundStep == RoundInv /\ [Next]_vars => SumInv' /\ DrawInv'
<1> SUFFICES ASSUME RoundInv, [Next]_vars PROVE SumInv' /\ DrawInv'
    OBVIOUS
<1> USE DEF RoundInv
<1>1. ASSUME NEW bet \in Bets, setTotalBet(bet) PROVE SumInv' /\ DrawInv'
    BY <1>1 DEF setTotalBet, SumInv, DrawInv
<1>2. ASSUME NEW slot \in Slot, randomColum(slot) PROVE SumInv' /\ DrawInv'
    <2>1. SumInv'
        BY <1>2 DEF randomColum, SumInv, PayInv
    <2>2. DrawInv'
        <3>1. \A c \in 1..(drawn + 1) : c \in 1..drawn \/ c = drawn + 1
            BY DEF TypeOK
        <3>2. matrix'[drawn + 1] = randSlot(slot) /\ \A c \in 1..drawn : matrix'[c] = matrix[c]
            BY <1>2 DEF randomColum, TypeOK, Colum, COLS
        <3>3. \A c \in 1..drawn' : \A r, s \in Row : matrix'[c][r] = matrix'[c][s] => r = s
            BY <1>2, <3>1, <3>2, RandSlotInjective DEF randomColum, DrawInv
        <3> QED BY <1>2, <3>3 DEF randomColum, DrawInv
    <2> QED BY <2>1, <2>2
<1>3. ASSUME NEW line \in Line, PayLine(line) PROVE SumInv' /\ DrawInv'
    <2>1. Representable => sum' = LineBet(matrix, totalBet) * Units(paid')
        BY <1>3, SumStep
    <2>2. UNCHANGED <<matrix, totalBet, drawn, phase>> /\ paid' # {}
        BY <1>3 DEF PayLine
    <2>3. LineBet(matrix, totalBet)' = LineBet(matrix, totalBet) /\ Units(paid)' = Units(paid')
        BY <2>2 DEF LineBet, Units, WithRun
    <2> QED BY <2>1, <2>2, <2>3 DEF SumInv, DrawInv, Representable
<1>4. CASE resultWinner
    BY <1>4 DEF resultWinner, SumInv, DrawInv
<1>5. CASE UNCHANGED vars
    BY <1>5 DEF vars, SumInv, DrawInv, Units, WithRun, LineBet, Representable
<1> QED BY <1>1, <1>2, <1>3, <1>4, <1>5 DEF Next

\* The payout begins with nothing paid and ends with every winning line paid.
LEMMA RoundEnd ==
    ASSUME RoundInv, resultWinner, Representable
    PROVE  LET count == Cardinality(getResult(matrix))
           IN  /\ sum = IF count = 0 THEN 0 ELSE (totalBet \div count) * Units(getResult(matrix))
               /\ sum >= 0
<1> DEFINE count == Cardinality(getResult(matrix))
<1>1. phase = "pay" /\ (totalBet = 0 \/ paid = getResult(matrix)) /\ totalBet \in Nat
    BY DEF resultWinner, RoundInv, TypeOK
<1>2. /\ getResult(matrix) \subseteq Line /\ count \in Nat
      /\ count = 0 <=> getResult(matrix) = {}
    BY WinningLines, FS_EmptySet
<1>3. Units(getResult(matrix)) \in Nat
    <2>1. \A n : WithRun(getResult(matrix), n) \in SUBSET Line
        BY <1>2 DEF WithRun
    <2> QED BY <2>1, LinesFinite DEF Units
<1>4. CASE count = 0 \/ totalBet = 0
    <2>1. paid = {} /\ sum = 0
        BY <1>1, <1>2, <1>4 DEF RoundInv, PayInv
    <2>2. count # 0 => totalBet \div count = 0
        BY <1>2, <1>4
    <2> QED BY <1>2, <1>3, <2>1, <2>2
<1>5. CASE count # 0 /\ totalBet # 0
    <2>1. sum = (totalBet \div count) * Units(getResult(matrix))
        BY <1>1, <1>2, <1>5 DEF RoundInv, SumInv, LineBet
    <2>2. totalBet \div count \in Nat
        BY <1>1, <1>2, <1>5
    <2> QED BY <1>3, <1>5, <2>1, <2>2
<1> QED BY <1>2, <1>4, <1>5

\* A winning line makes the units at least five.
LEMMA WinningUnits ==
    ASSUME getResult(matrix) # {}
    PROVE  Units(getResult(matrix)) \in Nat /\ Units(getResult(matrix)) >= 5
<1>1. PICK line \in getResult(matrix) : TRUE
    OBVIOUS
<1>2. getResult(matrix) \in SUBSET Line
    BY DEF getResult
<1>3. getLine(matrix, line) \in {X3, X4, X5}
    BY WinningRun
<1>4. getResult(matrix) = (getResult(matrix) \ {line}) \cup {line}
    BY <1>1
<1>5. /\ Units(getResult(matrix) \ {line}) \in Nat
      /\ Units(getResult(matrix)) = Units(getResult(matrix) \ {line}) + Worth(getLine(matrix, line))
    BY <1>1, <1>2, <1>3, <1>4, UnitsStep
<1> QED BY <1>3, <1>5 DEF Worth, X3, X4, X5

LEMMA RoundInductive == Spec => []RoundInv
<1>1. Init => SumInv /\ DrawInv
    BY DEF Init, SumInv, DrawInv
<1>2. Init => PayInv /\ NoOverpay
    BY DEF Init, PayInv, NoOverpay
<1>3. TypeOK /\ PayInv /\ NoOverpay /\ [Next]_vars => (PayInv /\ NoOverpay)'
    BY PayInvInductive
<1>4. RoundInv /\ [Next]_vars => SumInv' /\ DrawInv'
    BY RoundStep
<1> QED BY <1>1, <1>2, <1>3, <1>4, TypeCorrect, PTL DEF Spec, RoundInv

\* Every round whose largest payout fits an int pays its share of the bet once
\* for every unit of every winning line.
THEOREM PayoutExact == Spec => []PaysShareTimesUnits
<1>1. Init => PaysShareTimesUnits
    BY DEF Init, PaysShareTimesUnits
<1>2. RoundInv /\ PaysShareTimesUnits /\ [Next]_vars => PaysShareTimesUnits'
    <2> SUFFICES ASSUME RoundInv, PaysShareTimesUnits, [Next]_vars, (phase = "done" /\ Representable)'
                 PROVE  PaysShareTimesUnits'
        BY DEF PaysShareTimesUnits
    <2>1. CASE resultWinner
        <3>1. Representable /\ UNCHANGED <<matrix, totalBet>> /\ winner' = Clamp(sum)
            BY <2>1 DEF resultWinner, Representable
        <3>2. sum \in Int /\ sum >= 0
            BY <2>1, <3>1, RoundEnd DEF RoundInv, TypeOK, Int32Range
        <3>3. winner' = sum
            BY <3>1, <3>2 DEF Clamp
        <3> QED BY <2>1, <3>1, <3>3, RoundEnd DEF PaysShareTimesUnits, Units, WithRun
    <2>2. CASE UNCHANGED vars
        BY <2>2 DEF vars, PaysShareTimesUnits, Units, WithRun, Representable
    <2>3. ~(\E bet \in Bets : setTotalBet(bet)) /\ ~(\E line \in Line : PayLine(line))
        BY DEF setTotalBet, PayLine
    <2>4. ~(\E slot \in Slot : randomColum(slot))
        BY DEF randomColum
    <2> QED BY <2>1, <2>2, <2>3, <2>4 DEF Next
<1> QED BY <1>1, <1>2, RoundInductive, PTL DEF Spec

\* On every reel of at least three symbols a bet of ten survives the division
\* among the winning lines.
THEOREM WinsAreNotRoundedAway == Spec => []WinningRoundPays
<1>1. RoundInv /\ PaysShareTimesUnits => WinningRoundPays
    <2> SUFFICES ASSUME RoundInv, PaysShareTimesUnits, phase = "done", Representable,
                        totalBet >= 10, getResult(matrix) # {}
                 PROVE  winner > 0
        BY DEF WinningRoundPays
    <2> DEFINE count == Cardinality(getResult(matrix))
               units == Units(getResult(matrix))
               share == totalBet \div count
    <2>1. count \in Nat /\ count # 0
        BY WinningLines
    <2>2. count <= 3
        BY FewLinesWin DEF RoundInv, DrawInv
    <2>3. totalBet \in Nat
        BY DEF RoundInv, TypeOK
    <2>4. share \in Nat /\ share >= 3
        BY <2>1, <2>2, <2>3
    <2>5. units \in Nat /\ units >= 5
        BY WinningUnits
    <2>6. winner = share * units
        BY <2>1 DEF PaysShareTimesUnits
    <2> HIDE DEF share, units
    <2>7. 3 * units <= share * units /\ share * units \in Nat
        BY <2>4, <2>5, ProductMonotone
    <2> QED BY <2>5, <2>6, <2>7
<1> QED BY <1>1, RoundInductive, PayoutExact, PTL
=============================================================================
