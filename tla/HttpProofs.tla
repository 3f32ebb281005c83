----------------------------- MODULE HttpProofs -----------------------------
(* Proofs about HttpExchange and SessionStore: however the network cuts the   *)
(* requests of a connection, they are served whole and in order, refused only *)
(* when they are too large, and answered so that the client understands what  *)
(* was written; and the data of a session lives as long as it is referred to. *)
EXTENDS SessionStore, HttpExchange, SequenceTheorems, FiniteSetTheorems, WellFoundedInduction, TLAPS

-----------------------------------------------------------------------------
(* The text of a request and where its lines end.                          *)

\* The kinds of pieces of a request, the pieces, and the requests a client sends.
Kinds == {"start", "old", "junk", "pad", "eol", "multipart", "close", "length", "data"}
Signs == [k : Kinds, n : Int]
Shape == [first : {"start", "old", "junk"}, pad : Nat, body : Nat, multi : BOOLEAN, close : BOOLEAN]

\* How many pieces of the text of a request lie before the end of each of its lines.
FirstEnd(s) == s.pad + 2
MultiEnd(s) == FirstEnd(s) + (IF s.multi THEN 2 ELSE 0)
CloseEnd(s) == MultiEnd(s) + (IF s.close THEN 2 ELSE 0)
LengthEnd(s) == CloseEnd(s) + (IF s.body > 0 THEN 2 ELSE 0)
HeadEnd(s) == LengthEnd(s) + 1
\* The number of pieces of the whole request.
Size(s) == HeadEnd(s) + s.body

\* A text of n equal pieces.
LEMMA Same ==
    ASSUME NEW S, NEW e \in S, NEW n \in Nat
    PROVE  /\ [i \in 1..n |-> e] \in Seq(S)
           /\ Len([i \in 1..n |-> e]) = n
           /\ \A i \in 1..n : [j \in 1..n |-> e][i] = e
    OBVIOUS

\* The texts of at most two pieces.
LEMMA Short ==
    ASSUME NEW S, NEW a \in S, NEW b \in S
    PROVE  /\ <<>> \in Seq(S) /\ Len(<<>>) = 0
           /\ <<a>> \in Seq(S) /\ Len(<<a>>) = 1 /\ <<a>>[1] = a
           /\ <<a, b>> \in Seq(S) /\ Len(<<a, b>>) = 2 /\ <<a, b>>[1] = a /\ <<a, b>>[2] = b
    OBVIOUS

\* t is a, of length n, followed by b, of length m.
Grows(S, t, a, n, b, m) ==
    /\ t \in Seq(S) /\ Len(t) = n + m
    /\ \A i \in 1..n : t[i] = a[i]
    /\ \A i \in 1..m : t[n + i] = b[i]

\* What SMT knows of a concatenation.
LEMMA Grown ==
    ASSUME NEW S, NEW a, NEW b, NEW n, NEW m,
           a \in Seq(S), b \in Seq(S), Len(a) = n, Len(b) = m
    PROVE  Grows(S, a \o b, a, n, b, m)
<1>1. /\ a \o b \in Seq(S)
      /\ Len(a \o b) = Len(a) + Len(b)
      /\ \A i \in 1..Len(a) : (a \o b)[i] = a[i]
      /\ \A i \in 1..Len(b) : (a \o b)[Len(a) + i] = b[i]
    OBVIOUS
<1> QED BY <1>1, Zenon DEF Grows

\* Least is the least of any set of numbers that is not empty.
LEMMA LeastIs ==
    ASSUME NEW S, S \subseteq Nat, S # {}
    PROVE  Least(S) \in S /\ \A x \in S : Least(S) <= x
<1> DEFINE less == {p \in Nat \X Nat : p[1] < p[2]}
<1>1. IsWellFoundedOn(less, Nat)
    BY NatLessThanWellFounded DEF OpToRel
<1>2. PICK x \in S : \A y \in S : ~ (<<y, x>> \in less)
    <2> HIDE DEF less
    <2> QED BY <1>1, WFMin
<1>3. \A y \in S : ~(y < x)
    <2> SUFFICES ASSUME NEW y \in S PROVE ~(y < x)
        OBVIOUS
    <2>1. <<y, x>> \notin less
        BY <1>2
    <2> QED BY <2>1, Zenon
<1>4. \A y \in S : x <= y
    BY <1>3
<1> QED
    BY <1>4 DEF Least

\* What the text of a request is, piece by piece.
LEMMA EncodeText ==
    ASSUME NEW id \in Nat, NEW s \in Shape
    PROVE  /\ Encode(id, s) \in Seq(Signs)
           /\ Len(Encode(id, s)) = Size(s)
           /\ Encode(id, s)[1] = Symbol(s.first, id)
           /\ \A i \in 2..(s.pad + 1) : Encode(id, s)[i] = Symbol("pad", 0)
           /\ Encode(id, s)[FirstEnd(s)] = Eol
           /\ s.multi => /\ Encode(id, s)[FirstEnd(s) + 1] = Symbol("multipart", 0)
                         /\ Encode(id, s)[MultiEnd(s)] = Eol
           /\ s.close => /\ Encode(id, s)[MultiEnd(s) + 1] = Symbol("close", 0)
                         /\ Encode(id, s)[CloseEnd(s)] = Eol
           /\ s.body > 0 => /\ Encode(id, s)[CloseEnd(s) + 1] = Symbol("length", s.body)
                            /\ Encode(id, s)[LengthEnd(s)] = Eol
           /\ Encode(id, s)[HeadEnd(s)] = Eol
           /\ \A i \in (HeadEnd(s) + 1)..Size(s) : Encode(id, s)[i] = Symbol("data", id)
<1> DEFINE a1 == <<Symbol(s.first, id)>>
           a2 == [i \in 1..s.pad |-> Symbol("pad", 0)]
           a3 == <<Eol>>
           a4 == IF s.multi THEN <<Symbol("multipart", 0), Eol>> ELSE <<>>
           a5 == IF s.close THEN <<Symbol("close", 0), Eol>> ELSE <<>>
           a6 == IF s.body > 0 THEN <<Symbol("length", s.body), Eol>> ELSE <<>>
           a7 == Data(id, s.body)
           n6 == IF s.body > 0 THEN 2 ELSE 0
           n5 == IF s.close THEN 2 ELSE 0
           n4 == IF s.multi THEN 2 ELSE 0
<1> DEFINE p2 == a1 \o a2
           p3 == p2 \o a3
           p4 == p3 \o a4
           p5 == p4 \o a5
           p6 == p5 \o a6
           p7 == p6 \o a3
           p8 == p7 \o a7
<1>1. Encode(id, s) = p8
    BY DEF Encode
<1>2. /\ \A k \in Kinds, n \in Int : Symbol(k, n) \in Signs
      /\ Eol \in Signs
    BY DEF Symbol, Signs, Eol, Kinds
<1>4. "pad" \in Kinds /\ "multipart" \in Kinds /\ "close" \in Kinds /\ "length" \in Kinds /\ "data" \in Kinds
    BY DEF Kinds
<1>3. /\ s.pad \in Nat /\ s.body \in Nat /\ s.multi \in BOOLEAN /\ s.close \in BOOLEAN /\ s.first \in Kinds
    BY DEF Shape, Kinds
<1>11. a1 \in Seq(Signs) /\ Len(a1) = 1 /\ a1[1] = Symbol(s.first, id)
    BY <1>2, <1>3, <1>4, Short
<1>12. a2 \in Seq(Signs) /\ Len(a2) = s.pad /\ \A i \in 1..s.pad : a2[i] = Symbol("pad", 0)
    BY <1>2, <1>3, <1>4, Same
<1>13. a3 \in Seq(Signs) /\ Len(a3) = 1 /\ a3[1] = Eol
    BY <1>2, Short
<1>14. /\ a4 \in Seq(Signs) /\ Len(a4) = n4
       /\ s.multi => a4[1] = Symbol("multipart", 0) /\ a4[2] = Eol
    BY <1>2, <1>3, <1>4, Short
<1>15. /\ a5 \in Seq(Signs) /\ Len(a5) = n5
       /\ s.close => a5[1] = Symbol("close", 0) /\ a5[2] = Eol
    BY <1>2, <1>3, <1>4, Short
<1>16. /\ a6 \in Seq(Signs) /\ Len(a6) = n6
       /\ s.body > 0 => a6[1] = Symbol("length", s.body) /\ a6[2] = Eol
    BY <1>2, <1>3, <1>4, Short
<1>17. /\ a7 \in Seq(Signs) /\ Len(a7) = s.body
       /\ \A i \in 1..s.body : a7[i] = Symbol("data", id)
    BY <1>2, <1>3, <1>4, Same DEF Data
<1>18. /\ MultiEnd(s) = FirstEnd(s) + n4
       /\ CloseEnd(s) = MultiEnd(s) + n5
       /\ LengthEnd(s) = CloseEnd(s) + n6
       /\ s.multi => n4 = 2
       /\ s.close => n5 = 2
       /\ s.body > 0 => n6 = 2
    BY DEF MultiEnd, CloseEnd, LengthEnd
<1> HIDE DEF n4, n5, n6, a1, a2, a3, a4, a5, a6, a7
<1>31. /\ FirstEnd(s) \in Nat /\ MultiEnd(s) \in Nat /\ CloseEnd(s) \in Nat /\ LengthEnd(s) \in Nat
       /\ HeadEnd(s) \in Nat /\ Size(s) \in Nat
    BY <1>3 DEF FirstEnd, MultiEnd, CloseEnd, LengthEnd, HeadEnd, Size
<1>22. /\ p2 \in Seq(Signs) /\ Len(p2) = s.pad + 1
       /\ \A i \in 1..1 : p2[i] = a1[i]
       /\ \A i \in 1..s.pad : p2[1 + i] = a2[i]
    <2>1. Grows(Signs, p2, a1, 1, a2, s.pad)
        BY <1>11, <1>12, Grown, Zenon
    <2>2. s.pad + 1 = 1 + s.pad
        BY <1>3, <1>31 DEF FirstEnd, MultiEnd, CloseEnd, LengthEnd, HeadEnd, Size
    <2> QED BY <2>1, <2>2, Zenon DEF Grows
<1> HIDE DEF p2
<1>23. /\ p3 \in Seq(Signs) /\ Len(p3) = FirstEnd(s)
       /\ \A i \in 1..(s.pad + 1) : p3[i] = p2[i]
       /\ \A i \in 1..1 : p3[(s.pad + 1) + i] = a3[i]
    <2>1. Grows(Signs, p3, p2, (s.pad + 1), a3, 1)
        BY <1>22, <1>13, Grown, Zenon
    <2>2. FirstEnd(s) = (s.pad + 1) + 1
        BY <1>3, <1>31 DEF FirstEnd, MultiEnd, CloseEnd, LengthEnd, HeadEnd, Size
    <2> QED BY <2>1, <2>2, Zenon DEF Grows
<1> HIDE DEF p3
<1>24. /\ p4 \in Seq(Signs) /\ Len(p4) = MultiEnd(s)
       /\ \A i \in 1..FirstEnd(s) : p4[i] = p3[i]
       /\ \A i \in 1..n4 : p4[FirstEnd(s) + i] = a4[i]
    <2>1. Grows(Signs, p4, p3, FirstEnd(s), a4, n4)
        BY <1>23, <1>14, Grown, Zenon
    <2> QED BY <2>1, <1>18, Zenon DEF Grows
<1> HIDE DEF p4
<1>25. /\ p5 \in Seq(Signs) /\ Len(p5) = CloseEnd(s)
       /\ \A i \in 1..MultiEnd(s) : p5[i] = p4[i]
       /\ \A i \in 1..n5 : p5[MultiEnd(s) + i] = a5[i]
    <2>1. Grows(Signs, p5, p4, MultiEnd(s), a5, n5)
        BY <1>24, <1>15, Grown, Zenon
    <2> QED BY <2>1, <1>18, Zenon DEF Grows
<1> HIDE DEF p5
<1>26. /\ p6 \in Seq(Signs) /\ Len(p6) = LengthEnd(s)
       /\ \A i \in 1..CloseEnd(s) : p6[i] = p5[i]
       /\ \A i \in 1..n6 : p6[CloseEnd(s) + i] = a6[i]
    <2>1. Grows(Signs, p6, p5, CloseEnd(s), a6, n6)
        BY <1>25, <1>16, Grown, Zenon
    <2> QED BY <2>1, <1>18, Zenon DEF Grows
<1> HIDE DEF p6
<1>27. /\ p7 \in Seq(Signs) /\ Len(p7) = HeadEnd(s)
       /\ \A i \in 1..LengthEnd(s) : p7[i] = p6[i]
       /\ \A i \in 1..1 : p7[LengthEnd(s) + i] = a3[i]
    <2>1. Grows(Signs, p7, p6, LengthEnd(s), a3, 1)
        BY <1>26, <1>13, Grown, Zenon
    <2>2. HeadEnd(s) = LengthEnd(s) + 1
        BY <1>3, <1>31 DEF FirstEnd, MultiEnd, CloseEnd, LengthEnd, HeadEnd, Size
    <2> QED BY <2>1, <2>2, Zenon DEF Grows
<1> HIDE DEF p7
<1>28. /\ p8 \in Seq(Signs) /\ Len(p8) = Size(s)
       /\ \A i \in 1..HeadEnd(s) : p8[i] = p7[i]
       /\ \A i \in 1..s.body : p8[HeadEnd(s) + i] = a7[i]
    <2>1. Grows(Signs, p8, p7, HeadEnd(s), a7, s.body)
        BY <1>27, <1>17, Grown, Zenon
    <2>2. Size(s) = HeadEnd(s) + s.body
        BY <1>3, <1>31 DEF FirstEnd, MultiEnd, CloseEnd, LengthEnd, HeadEnd, Size
    <2> QED BY <2>1, <2>2, Zenon DEF Grows
<1> HIDE DEF p8
<1>41. /\ 1 <= FirstEnd(s) /\ s.pad + 1 <= FirstEnd(s) /\ FirstEnd(s) <= MultiEnd(s) /\ MultiEnd(s) <= CloseEnd(s)
       /\ CloseEnd(s) <= LengthEnd(s) /\ LengthEnd(s) <= HeadEnd(s)
       /\ s.multi => MultiEnd(s) = FirstEnd(s) + 2
       /\ s.close => CloseEnd(s) = MultiEnd(s) + 2
       /\ s.body > 0 => LengthEnd(s) = CloseEnd(s) + 2
    BY <1>3 DEF FirstEnd, MultiEnd, CloseEnd, LengthEnd, HeadEnd
<1>51. \A i \in 1..LengthEnd(s) : p8[i] = p6[i]
    BY <1>27, <1>28, <1>41, <1>31
<1>52. \A i \in 1..CloseEnd(s) : p8[i] = p5[i]
    BY <1>26, <1>51, <1>41, <1>31
<1>53. \A i \in 1..MultiEnd(s) : p8[i] = p4[i]
    BY <1>25, <1>52, <1>41, <1>31
<1>54. \A i \in 1..FirstEnd(s) : p8[i] = p3[i]
    BY <1>24, <1>53, <1>41, <1>31
<1>55. \A i \in 1..(s.pad + 1) : p8[i] = p2[i]
    BY <1>23, <1>54, <1>41, <1>31, <1>3
<1>61. p8[1] = Symbol(s.first, id)
    <2>1. 1 \in 1..1 /\ 1 \in 1..(s.pad + 1)
        BY <1>3
    <2> QED BY <2>1, <1>22, <1>11, <1>55, Zenon
<1>62. ASSUME NEW i \in 2..(s.pad + 1)
       PROVE  p8[i] = Symbol("pad", 0)
    <2>1. i - 1 \in 1..s.pad /\ i \in 1..(s.pad + 1) /\ i = 1 + (i - 1)
        BY <1>3
    <2> QED BY <2>1, <1>22, <1>12, <1>55, Zenon
<1>63. p8[FirstEnd(s)] = Eol
    <2>1. FirstEnd(s) = (s.pad + 1) + 1 /\ 1 \in 1..1 /\ FirstEnd(s) \in 1..FirstEnd(s)
        BY <1>3 DEF FirstEnd
    <2> QED BY <2>1, <1>23, <1>13, <1>54, Zenon
<1>64. ASSUME s.multi
       PROVE  /\ p8[FirstEnd(s) + 1] = Symbol("multipart", 0)
              /\ p8[MultiEnd(s)] = Eol
    BY <1>64, <1>18, <1>24, <1>14, <1>53, <1>41, <1>31
<1>65. ASSUME s.close
       PROVE  /\ p8[MultiEnd(s) + 1] = Symbol("close", 0)
              /\ p8[CloseEnd(s)] = Eol
    BY <1>65, <1>18, <1>25, <1>15, <1>52, <1>41, <1>31
<1>66. ASSUME s.body > 0
       PROVE  /\ p8[CloseEnd(s) + 1] = Symbol("length", s.body)
              /\ p8[LengthEnd(s)] = Eol
    BY <1>66, <1>18, <1>26, <1>16, <1>51, <1>41, <1>31
<1>67. p8[HeadEnd(s)] = Eol
    BY <1>27, <1>13, <1>28, <1>31 DEF HeadEnd
<1>68. ASSUME NEW i \in (HeadEnd(s) + 1)..Size(s)
       PROVE  p8[i] = Symbol("data", id)
    <2>1. i - HeadEnd(s) \in 1..s.body /\ i = HeadEnd(s) + (i - HeadEnd(s))
        BY <1>3, <1>31 DEF Size
    <2> QED BY <2>1, <1>28, <1>17, Zenon
<1> QED
    BY <1>1, <1>28, <1>61, <1>62, <1>63, <1>64, <1>65, <1>66, <1>67, <1>68, Zenon

\* The places of the lines of a request are in order.
LEMMA Places ==
    ASSUME NEW s \in Shape
    PROVE  /\ FirstEnd(s) \in Nat /\ MultiEnd(s) \in Nat /\ CloseEnd(s) \in Nat /\ LengthEnd(s) \in Nat
           /\ HeadEnd(s) \in Nat /\ Size(s) \in Nat /\ s.body \in Nat /\ s.pad \in Nat
           /\ s.multi \in BOOLEAN /\ s.close \in BOOLEAN
           /\ 2 <= FirstEnd(s) /\ FirstEnd(s) <= MultiEnd(s) /\ MultiEnd(s) <= CloseEnd(s)
           /\ CloseEnd(s) <= LengthEnd(s) /\ HeadEnd(s) = LengthEnd(s) + 1 /\ Size(s) = HeadEnd(s) + s.body
           /\ MultiEnd(s) = IF s.multi THEN FirstEnd(s) + 2 ELSE FirstEnd(s)
           /\ CloseEnd(s) = IF s.close THEN MultiEnd(s) + 2 ELSE MultiEnd(s)
           /\ LengthEnd(s) = IF s.body > 0 THEN CloseEnd(s) + 2 ELSE CloseEnd(s)
    BY DEF Shape, FirstEnd, MultiEnd, CloseEnd, LengthEnd, HeadEnd, Size

-----------------------------------------------------------------------------
(* Reading one line.                                                       *)

\* A line that comes in more pieces is never counted as less.
LEMMA Piled ==
    ASSUME NEW a \in Nat, NEW b \in Nat, a <= b
    PROVE  Pieces(a) \in Nat /\ Pieces(a) <= Pieces(b)
<1>1. a * (a + 1) \in Nat /\ b * (b + 1) \in Nat
    OBVIOUS
<1>2. a * (a + 1) <= b * (b + 1)
    OBVIOUS
<1> DEFINE p == a * (a + 1)
           q == b * (b + 1)
<1>3. p \in Nat /\ q \in Nat /\ p <= q
    BY <1>1, <1>2
<1>4. Pieces(a) = p \div 2 /\ Pieces(b) = q \div 2
    BY DEF Pieces
<1> HIDE DEF p, q
<1> QED BY <1>3, <1>4

\* Another look at a line counts at least what the line has by then.
LEMMA OneMorePiece ==
    ASSUME NEW o \in Nat, NEW n \in Nat, n >= 1
    PROVE  Pieces(o) \in Nat /\ Pieces(o + n) \in Nat /\ Pieces(o) + (o + n) <= Pieces(o + n)
<1> DEFINE m == o + n - 1
           p == m * (m + 1)
<1>1. m \in Nat /\ o <= m /\ o + n = m + 1
    OBVIOUS
<1>2. p \in Nat /\ (m + 1) * ((m + 1) + 1) = p + 2 * (m + 1)
    BY <1>1
<1>3. Pieces(m) = p \div 2 /\ Pieces(m + 1) = (p + 2 * (m + 1)) \div 2
    BY <1>2 DEF Pieces
<1>4. Pieces(m + 1) = Pieces(m) + (m + 1)
    <2> HIDE DEF p, m
    <2> QED BY <1>1, <1>2, <1>3
<1>5. Pieces(o) \in Nat /\ Pieces(o) <= Pieces(m) /\ Pieces(m) \in Nat
    BY <1>1, Piled
<1> HIDE DEF m, p
<1> QED BY <1>1, <1>4, <1>5

\* The lines of the headers come in at most two pieces.
LEMMA SmallPieces == Pieces(0) = 0 /\ Pieces(1) = 1 /\ Pieces(2) = 3
    BY DEF Pieces

\* What has come is the text after its first o symbols.
Comes(text, o) == \A i \in 1..Len(input) : o + i <= Len(text) => input[i] = text[o + i]

\* In the text a line goes from behind b to e.
Line(text, b, e) ==
    /\ b < e /\ e <= Len(text) /\ text[e] = Eol
    /\ \A i \in (b + 1)..(e - 1) : text[i] # Eol

\* The text from behind b to m.
Part(text, b, m) == SubSeq(text, b + 1, m)

\* A beginning of a line holds the end of the line only when it is all of it.
LEMMA LinePart ==
    ASSUME NEW text \in Seq(Signs), NEW b \in Nat, NEW e \in Nat, Line(text, b, e),
           NEW m \in Nat, b < m, m <= e
    PROVE  /\ Part(text, b, m) \in Seq(Signs)
           /\ Len(Part(text, b, m)) = m - b
           /\ Part(text, b, m)[1] = text[b + 1]
           /\ Contains(Part(text, b, m), Eol) <=> m = e
<1>1. e <= Len(text) /\ Len(text) \in Nat /\ text[e] = Eol
    BY DEF Line
<1>2. \A i \in (b + 1)..m : text[i] \in Signs
    BY <1>1
<1> DEFINE part == SubSeq(text, b + 1, m)
<1>3. /\ part \in Seq(Signs) /\ Len(part) = m - b
      /\ \A i \in 1..(m - b) : part[i] = text[b + i]
    BY <1>2, SubSeqProperties
<1> HIDE DEF part
<1>4. ASSUME m = e PROVE Contains(part, Eol)
    <2>1. m - b \in 1..Len(part) /\ part[m - b] = Eol
        BY <1>1, <1>3, <1>4
    <2> QED BY <2>1, <1>3, <1>4 DEF Contains
<1>5. ASSUME m # e PROVE ~Contains(part, Eol)
    <2>1. \A i \in 1..(m - b) : part[i] # Eol
        BY <1>3, <1>5 DEF Line
    <2> QED BY <2>1, <1>3, <1>5 DEF Contains
<1>6. part \in Seq(Signs) /\ Len(part) = m - b /\ part[1] = text[b + 1]
    BY <1>3
<1>7. part = Part(text, b, m)
    BY DEF part, Part
<1> QED BY <1>4, <1>5, <1>6, <1>7

\* The next n symbols of the input continue that part of the text.
Continues(text, b, o, n) == Part(text, b, o) \o SubSeq(input, 1, n) = Part(text, b, o + n)

\* readLine() takes no more than the rest of the line.
LEMMA LineRead ==
    ASSUME NEW text \in Seq(Signs), NEW b \in Nat, NEW e \in Nat, Line(text, b, e),
           NEW o \in Nat, b <= o, o < e, NEW limit \in Nat, limit >= 1,
           input \in Seq(Signs), input # <<>>, Comes(text, o)
    PROVE  /\ LineLength(limit) \in 1..Len(input)
           /\ o + LineLength(limit) <= e
           /\ Continues(text, b, o, LineLength(limit))
<1> DEFINE ends == {Len(input), limit} \cup {i \in 1..Len(input) : input[i] = Eol}
           n == LineLength(limit)
<1>1. Len(input) \in Nat /\ Len(input) >= 1 /\ e <= Len(text) /\ Len(text) \in Nat /\ text[e] = Eol
    BY DEF Line
<1>2. n = Least(ends)
    BY DEF LineLength
<1>3. ends \subseteq Nat /\ Len(input) \in ends
    BY <1>1
<1>4. n \in ends /\ \A x \in ends : n <= x
    <2> HIDE DEF ends, n
    <2> QED BY <1>2, <1>3, LeastIs
<1>5. n \in 1..Len(input)
    BY <1>1, <1>3, <1>4
<1>6. o + n <= e
    <2> SUFFICES ASSUME o + n > e PROVE FALSE
        BY <1>5, <1>1
    <2>1. e - o \in 1..Len(input) /\ o + (e - o) = e
        BY <1>5, <1>1
    <2>2. input[e - o] = Eol
        BY <2>1, <1>1 DEF Comes
    <2>3. e - o \in ends
        BY <2>1, <2>2
    <2> QED BY <2>3, <1>4, <1>5, SMTT(20)
<1> HIDE DEF n, ends
<1>7. SubSeq(text, b + 1, o) \o SubSeq(input, 1, n) = SubSeq(text, b + 1, o + n)
    <2>1. /\ \A i \in (b + 1)..o : text[i] \in Signs
          /\ \A i \in 1..n : input[i] \in Signs
          /\ \A i \in (b + 1)..(o + n) : text[i] \in Signs
        BY <1>1, <1>5, <1>6
    <2>2. /\ SubSeq(text, b + 1, o) \in Seq(Signs)
          /\ Len(SubSeq(text, b + 1, o)) = o - b
          /\ \A i \in 1..(o - b) : SubSeq(text, b + 1, o)[i] = text[b + i]
        BY <2>1, SubSeqProperties
    <2>3. /\ SubSeq(input, 1, n) \in Seq(Signs)
          /\ Len(SubSeq(input, 1, n)) = n
          /\ \A i \in 1..n : SubSeq(input, 1, n)[i] = input[i]
        BY <2>1, <1>5, <1>1, SubSeqProperties
    <2>4. /\ SubSeq(text, b + 1, o + n) \in Seq(Signs)
          /\ Len(SubSeq(text, b + 1, o + n)) = o + n - b
          /\ \A i \in 1..(o + n - b) : SubSeq(text, b + 1, o + n)[i] = text[b + i]
        BY <2>1, <1>5, <1>1, SubSeqProperties
    <2> DEFINE x == SubSeq(text, b + 1, o)
               y == SubSeq(input, 1, n)
               z == SubSeq(text, b + 1, o + n)
    <2>5. Grows(Signs, x \o y, x, o - b, y, n)
        <3>1. x \in Seq(Signs) /\ y \in Seq(Signs) /\ Len(x) = o - b /\ Len(y) = n
            BY <2>2, <2>3
        <3> HIDE DEF x, y
        <3> QED BY <3>1, Grown
    <2>6. ASSUME NEW i \in 1..(o + n - b) PROVE (x \o y)[i] = z[i]
        <3>1. CASE i <= o - b
            BY <3>1, <2>2, <2>4, <2>5, <1>1, <1>5 DEF Grows
        <3>2. CASE i > o - b
            <4>1. i - (o - b) \in 1..n /\ i = (o - b) + (i - (o - b))
                BY <3>2, <1>1, <1>5
            <4>2. (x \o y)[i] = y[i - (o - b)]
                BY <4>1, <2>5, Zenon DEF Grows
            <4>3. y[i - (o - b)] = input[i - (o - b)]
                BY <4>1, <2>3, Zenon
            <4>4. /\ i - (o - b) \in 1..Len(input) /\ o + (i - (o - b)) = b + i /\ b + i <= Len(text)
                BY <4>1, <1>1, <1>5, <1>6
            <4>5. input[i - (o - b)] = text[b + i]
                BY <4>4 DEF Comes
            <4> QED BY <4>2, <4>3, <4>5, <2>4, Zenon
        <3> QED BY <3>1, <3>2, <1>5
    <2>7. x \o y \in Seq(Signs) /\ Len(x \o y) = o + n - b
        BY <2>5, <1>5 DEF Grows
    <2> HIDE DEF x, y, z
    <2>8. z \in Seq(Signs) /\ Len(z) = o + n - b
        BY <2>4 DEF z
    <2> QED BY <2>6, <2>7, <2>8, SeqEqual DEF x, y, z
<1>8. Continues(text, b, o, n)
    BY <1>7 DEF Continues, Part
<1> QED BY <1>5, <1>6, <1>8 DEF n

-----------------------------------------------------------------------------
(* Reading a request.                                                      *)

\* The HttpRequest of a handler.
Request ==
    [status : {"waitForRequest", "waitForHeader", "waitForBody", "complete", "abort"},
     currentSize : Nat, lineBuffer : Seq(Signs), id : Int, old : BOOLEAN, close : BOOLEAN,
     multipart : BOOLEAN, expectedBodySize : Nat, boundary : BOOLEAN, bodyData : Seq(Signs)]

\* The reasons of RefusedIsTooLarge.
Refused(s) ==
    \/ s.first = "junk"
    \/ s.multi /\ WorstCount(s) + s.body >= MaxMultiPart
    \/ WorstCount(s) > MaxSize

\* Twice what may have been counted when the lines up to b have been read.
Counted(s, b) == 2 * Pieces(FirstEnd(s)) + 3 * (b - FirstEnd(s))

\* The request has been read up to symbol o of its text, which is in one of four parts.
FirstLine(r, id, s, o) ==
    /\ r.status = "waitForRequest"
    /\ o < FirstEnd(s) /\ r.lineBuffer = Part(Encode(id, s), 0, o)
    /\ r.currentSize <= Pieces(o) /\ r.currentSize <= MaxSize
    /\ ~r.multipart /\ ~r.boundary /\ r.expectedBodySize = 0 /\ r.bodyData = <<>>

\* o pieces of the request have been read, the last line read ends at b, and the next is a header line.
HeaderAt(r, id, s, o, b) ==
    /\ r.status = "waitForHeader" /\ r.id = id
    /\ o = b \/ (o = b + 1 /\ b < LengthEnd(s))
    /\ r.lineBuffer = Part(Encode(id, s), b, o)
    /\ r.multipart <=> (s.multi /\ b >= MultiEnd(s))
    /\ r.expectedBodySize = IF b = LengthEnd(s) THEN s.body ELSE 0
    /\ ~r.boundary /\ r.bodyData = <<>>
    /\ 2 * r.currentSize <= Counted(s, b) + 2 * (o - b) /\ r.currentSize <= MaxSize

\* The request is among its header lines.
HeaderLine(r, id, s, o) ==
    \E b \in {FirstEnd(s), MultiEnd(s), CloseEnd(s), LengthEnd(s)} : HeaderAt(r, id, s, o, b)

\* The request is in its body.
Body(r, id, s, o) ==
    /\ r.status = "waitForBody" /\ r.id = id
    /\ s.body > 0 /\ (r.boundary <=> s.multi) /\ r.expectedBodySize = s.body
    /\ HeadEnd(s) <= o /\ o < Size(s) /\ r.bodyData = Data(id, o - HeadEnd(s))
    /\ r.currentSize <= WorstCount(s) - s.body + (IF s.multi THEN 0 ELSE o - HeadEnd(s))

\* The request has been read.
Whole(r, id, s, o) ==
    /\ r.status = "complete" /\ r.id = id
    /\ o = Size(s) /\ r.bodyData = Data(id, s.body)

\* After o pieces of the request s with number id, r is what the handler must have made of them.
Reads(r, id, s, o) ==
    FirstLine(r, id, s, o) \/ HeaderLine(r, id, s, o) \/ Body(r, id, s, o) \/ Whole(r, id, s, o)

\* One call has taken some of the input, and the request is read further or refused.
ReadOn(c, id, s, o) ==
    /\ c.taken \in 1..Len(input) /\ o + c.taken <= Size(s)
    /\ Limited(c.req) \in Request
    /\ IF Limited(c.req).status = "abort" THEN Refused(s)
       ELSE Reads(Limited(c.req), id, s, o + c.taken)

\* WorstCount bounds what can be counted up to any line.
LEMMA CountedIs ==
    ASSUME NEW s \in Shape
    PROVE  /\ WorstCount(s) \in Nat
           /\ Pieces(FirstEnd(s)) \in Nat
           /\ Counted(s, LengthEnd(s)) + 2 + 2 * s.body = 2 * WorstCount(s)
           /\ \A b \in Nat : FirstEnd(s) <= b /\ b <= LengthEnd(s) =>
                 Counted(s, b) \in Nat /\ Counted(s, b) + 2 + 2 * s.body <= 2 * WorstCount(s)
           /\ Pieces(FirstEnd(s)) <= WorstCount(s)
<1> DEFINE p == Pieces(FirstEnd(s))
<1>1. p \in Nat
    BY Places, Piled
<1>2. p = Pieces(s.pad + 2)
    BY DEF FirstEnd
<1> HIDE DEF p
<1>3. WorstCount(s) = p + (IF s.multi THEN 3 ELSE 0) + (IF s.close THEN 3 ELSE 0)
                        + (IF s.body > 0 THEN 3 ELSE 0) + 1 + s.body
    BY <1>2, SmallPieces DEF WorstCount
<1>4. \A b : Counted(s, b) = 2 * p + 3 * (b - FirstEnd(s))
    BY DEF Counted, p
<1>5. WorstCount(s) \in Nat
    BY <1>1, <1>3, Places
<1>6. Counted(s, LengthEnd(s)) + 2 + 2 * s.body = 2 * WorstCount(s)
    <2> DEFINE x == (IF s.multi THEN 3 ELSE 0) + (IF s.close THEN 3 ELSE 0) + (IF s.body > 0 THEN 3 ELSE 0)
    <2>1. 3 * (LengthEnd(s) - FirstEnd(s)) = 2 * x /\ x \in Nat
        BY Places
    <2>2. WorstCount(s) = p + x + 1 + s.body
        BY <1>3, <1>1, Places
    <2>3. Counted(s, LengthEnd(s)) = 2 * p + 2 * x
        BY <2>1, <1>4
    <2> HIDE DEF x
    <2> QED BY <2>1, <2>2, <2>3, <1>1, Places
<1>7. ASSUME NEW b \in Nat, FirstEnd(s) <= b, b <= LengthEnd(s)
      PROVE  Counted(s, b) \in Nat /\ Counted(s, b) + 2 + 2 * s.body <= 2 * WorstCount(s)
    <2>1. Counted(s, b) \in Nat /\ Counted(s, b) <= Counted(s, LengthEnd(s)) /\ Counted(s, LengthEnd(s)) \in Int
        BY <1>1, <1>4, <1>7, Places
    <2> QED BY <2>1, <1>5, <1>6, Places
<1>8. p <= WorstCount(s)
    BY <1>1, <1>3, Places
<1> QED BY <1>1, <1>5, <1>6, <1>7, <1>8 DEF p

\* The check at the end of readFromSocket refuses what exceeds the limit, and changes nothing else.
LEMMA LimitedIs ==
    ASSUME NEW r \in Request
    PROVE  /\ Limited(r) \in Request
           /\ Limited(r).status # "abort" =>
                 /\ Limited(r) = r
                 /\ r.currentSize <= (IF r.boundary THEN MaxMultiPart ELSE MaxSize)
           /\ Limited(r).status = "abort" =>
                 \/ r.status = "abort"
                 \/ r.currentSize > (IF r.boundary THEN MaxMultiPart ELSE MaxSize)
<1>1. r.currentSize \in Nat /\ MaxSize \in Nat /\ MaxMultiPart \in Nat
    BY SizeAssumption DEF Request
<1>2. [r EXCEPT !.status = "abort"] \in Request /\ [r EXCEPT !.status = "abort"].status = "abort"
    BY DEF Request
<1> QED BY <1>1, <1>2 DEF Limited

\* The buffer takes n symbols more of the line from b to e.
Collects(r, text, b, e, o, n) ==
    /\ Collected(r).taken = n
    /\ o + n <= e
    /\ Collected(r).req = [r EXCEPT !.lineBuffer = Part(text, b, o + n),
                                    !.currentSize = r.currentSize + ((o + n) - b)]

\* readLine() adds to the line what has come of it.
LEMMA CollectedIs ==
    ASSUME NEW s \in Shape, NEW id \in Nat, NEW o \in Nat, NEW b \in Nat, NEW e \in Nat,
           Line(Encode(id, s), b, e), b <= o, o < e,
           input \in Seq(Signs), input # <<>>, Comes(Encode(id, s), o),
           NEW r \in Request, r.lineBuffer = Part(Encode(id, s), b, o), r.currentSize <= MaxSize
    PROVE  \E n \in 1..Len(input) : Collects(r, Encode(id, s), b, e, o, n)
<1> DEFINE text == Encode(id, s)
           limit == MaxSize - r.currentSize + 1
<1>1. limit \in Nat /\ limit >= 1 /\ r.currentSize \in Nat
    BY SizeAssumption DEF Request
<1>2. text \in Seq(Signs) /\ Line(text, b, e) /\ Comes(text, o) /\ r.lineBuffer = Part(text, b, o)
    BY EncodeText
<1>3. LineLength(limit) \in 1..Len(input) /\ o + LineLength(limit) <= e /\ Continues(text, b, o, LineLength(limit))
    <2> HIDE DEF limit, text
    <2> QED BY <1>1, <1>2, LineRead
<1> DEFINE n == LineLength(limit)
           line == r.lineBuffer \o SubSeq(input, 1, n)
<1>20. n \in 1..Len(input) /\ o + n <= e /\ line = Part(text, b, o + n)
    BY <1>2, <1>3 DEF Continues
<1>4. Len(line) = (o + n) - b
    <2>1. o + n \in Nat /\ b < o + n
        BY <1>20
    <2>2. \A m \in Nat : b < m /\ m <= e => Len(Part(text, b, m)) = m - b
        <3> HIDE DEF text
        <3> QED BY <1>2, LinePart
    <2> HIDE DEF text, n, line
    <2>3. Len(line) = (o + n) - b
        BY <1>20, <2>1, <2>2, Zenon
    <2> QED BY <2>3, <1>20
<1>5. Collected(r) = [req |-> [r EXCEPT !.lineBuffer = line, !.currentSize = r.currentSize + Len(line)],
                      taken |-> n]
    BY DEF Collected, Request
<1> HIDE DEF n, line, limit, text
<1>6. /\ Collected(r).taken = n
      /\ Collected(r).req = [r EXCEPT !.lineBuffer = line, !.currentSize = r.currentSize + Len(line)]
    BY <1>5
<1>7. Collects(r, text, b, e, o, n)
    BY <1>20, <1>4, <1>6 DEF Collects
<1> QED BY <1>20, <1>7 DEF text

\* Where the lines of a request are.
LEMMA Lines ==
    ASSUME NEW s \in Shape, NEW id \in Nat
    PROVE  /\ Line(Encode(id, s), 0, FirstEnd(s))
           /\ Encode(id, s)[1].k = s.first /\ Encode(id, s)[1].n = id
           /\ s.multi => /\ Line(Encode(id, s), FirstEnd(s), MultiEnd(s))
                         /\ Encode(id, s)[FirstEnd(s) + 1].k = "multipart"
           /\ s.close => /\ Line(Encode(id, s), MultiEnd(s), CloseEnd(s))
                         /\ Encode(id, s)[MultiEnd(s) + 1].k = "close"
           /\ s.body > 0 => /\ Line(Encode(id, s), CloseEnd(s), LengthEnd(s))
                            /\ Encode(id, s)[CloseEnd(s) + 1].k = "length"
                            /\ Encode(id, s)[CloseEnd(s) + 1].n = s.body
           /\ Line(Encode(id, s), LengthEnd(s), HeadEnd(s))
           /\ Encode(id, s)[LengthEnd(s) + 1] = Eol
<1> DEFINE text == Encode(id, s)
<1>1. /\ \A k, n : Symbol(k, n).k = k /\ Symbol(k, n).n = n
      /\ Eol.k = "eol"
    BY DEF Symbol, Eol
<1>2. \A k, n : k # "eol" => Symbol(k, n) # Eol
    BY <1>1
<1>3. /\ Len(text) = Size(s)
      /\ text[1] = Symbol(s.first, id)
      /\ \A i \in 2..(s.pad + 1) : text[i] = Symbol("pad", 0)
      /\ text[FirstEnd(s)] = Eol
      /\ s.multi => text[FirstEnd(s) + 1] = Symbol("multipart", 0) /\ text[MultiEnd(s)] = Eol
      /\ s.close => text[MultiEnd(s) + 1] = Symbol("close", 0) /\ text[CloseEnd(s)] = Eol
      /\ s.body > 0 => text[CloseEnd(s) + 1] = Symbol("length", s.body) /\ text[LengthEnd(s)] = Eol
      /\ text[HeadEnd(s)] = Eol
    BY EncodeText
<1>4. s.first # "eol"
    BY DEF Shape
<1> HIDE DEF text
<1>5. FirstEnd(s) = s.pad + 2
    BY DEF FirstEnd
<1>6. Line(text, 0, FirstEnd(s))
    <2>1. \A i \in 2..(s.pad + 1) : text[i] # Eol
        BY <1>2, <1>3
    <2>2. text[1] # Eol
        BY <1>2, <1>3, <1>4
    <2>3. \A i \in (0 + 1)..(FirstEnd(s) - 1) : text[i] # Eol
        BY <2>1, <2>2, <1>5, Places
    <2> QED BY <2>3, <1>3, Places DEF Line
<1>7. ASSUME NEW b \in Nat, b + 2 <= Size(s), text[b + 1] # Eol, text[b + 2] = Eol
      PROVE  Line(text, b, b + 2)
    <2>1. \A i \in (b + 1)..(b + 2 - 1) : i = b + 1
        OBVIOUS
    <2> QED BY <1>7, <1>3, <2>1, Places DEF Line
<1>8. ASSUME s.multi PROVE Line(text, FirstEnd(s), MultiEnd(s)) /\ text[FirstEnd(s) + 1].k = "multipart"
    <2>1. MultiEnd(s) = FirstEnd(s) + 2 /\ MultiEnd(s) <= Size(s) /\ FirstEnd(s) \in Nat
        BY <1>8, Places
    <2> QED BY <2>1, <1>1, <1>2, <1>3, <1>7, <1>8
<1>9. ASSUME s.close PROVE Line(text, MultiEnd(s), CloseEnd(s)) /\ text[MultiEnd(s) + 1].k = "close"
    <2>1. CloseEnd(s) = MultiEnd(s) + 2 /\ CloseEnd(s) <= Size(s) /\ MultiEnd(s) \in Nat
        BY <1>9, Places
    <2> QED BY <2>1, <1>1, <1>2, <1>3, <1>7, <1>9
<1>10. ASSUME s.body > 0
       PROVE  /\ Line(text, CloseEnd(s), LengthEnd(s))
              /\ text[CloseEnd(s) + 1].k = "length" /\ text[CloseEnd(s) + 1].n = s.body
    <2>1. LengthEnd(s) = CloseEnd(s) + 2 /\ LengthEnd(s) <= Size(s) /\ CloseEnd(s) \in Nat
        BY <1>10, Places
    <2> QED BY <2>1, <1>1, <1>2, <1>3, <1>7, <1>10
<1>11. Line(text, LengthEnd(s), HeadEnd(s)) /\ text[LengthEnd(s) + 1] = Eol
    <2>1. \A i \in (LengthEnd(s) + 1)..(HeadEnd(s) - 1) : FALSE
        BY Places
    <2>2. HeadEnd(s) = LengthEnd(s) + 1 /\ HeadEnd(s) <= Size(s) /\ LengthEnd(s) \in Nat
        BY Places
    <2> QED BY <2>1, <2>2, <1>3 DEF Line
<1> QED BY <1>1, <1>3, <1>6, <1>8, <1>9, <1>10, <1>11 DEF text

\* A line is the empty one when it is an end of line only.
LEMMA OnlyEol ==
    ASSUME NEW line \in Seq(Signs)
    PROVE  line = <<Eol>> <=> Len(line) = 1 /\ line[1] = Eol
    OBVIOUS

\* What readRequest() makes of the line it has.
LEMMA ReadRequestIs ==
    ASSUME NEW r
    PROVE  LET c == Collected(r)
               line == c.req.lineBuffer
               after == [c.req EXCEPT !.lineBuffer = <<>>]
           IN  /\ readRequest(r).taken = c.taken
               /\ ~Contains(line, Eol) => readRequest(r).req = c.req
               /\ Contains(line, Eol) /\ line # <<Eol>> /\ line[1].k = "junk" =>
                     readRequest(r).req = [after EXCEPT !.status = "abort"]
               /\ Contains(line, Eol) /\ line # <<Eol>> /\ line[1].k # "junk" =>
                     readRequest(r).req = [after EXCEPT !.status = "waitForHeader", !.id = line[1].n,
                                                        !.old = line[1].k = "old"]
    BY Zenon DEF readRequest, Collected

\* Reading goes on in the first line.
LEMMA FirstLineRead ==
    ASSUME NEW s \in Shape, NEW id \in Nat, NEW o \in Nat, NEW r \in Request,
           input \in Seq(Signs), input # <<>>, Comes(Encode(id, s), o), FirstLine(r, id, s, o)
    PROVE  ReadOn(Reading(r), id, s, o)
<1> DEFINE text == Encode(id, s)
           c == Collected(r)
           e == FirstEnd(s)
<1>1. Line(text, 0, e) /\ text[1].k = s.first /\ text[1].n = id
    BY Lines
<1>2. /\ e \in Nat /\ e >= 2 /\ e <= Size(s) /\ e <= LengthEnd(s) /\ e <= MultiEnd(s) /\ o < e
      /\ (s.multi => e # MultiEnd(s)) /\ (s.body > 0 => e # LengthEnd(s)) /\ text \in Seq(Signs)
      /\ s.body \in Nat /\ LengthEnd(s) \in Nat /\ Size(s) \in Nat
    <2>1. o < e
        BY DEF FirstLine
    <2>2. text \in Seq(Signs)
        BY EncodeText
    <2> QED BY <2>1, <2>2, Places, SMTT(20)
<1>21. PICK n \in 1..Len(input) : Collects(r, text, 0, e, o, n)
    <2>1. 0 \in Nat /\ 0 <= o
        OBVIOUS
    <2>2. r.lineBuffer = Part(text, 0, o) /\ r.currentSize <= MaxSize
        BY DEF FirstLine
    <2> HIDE DEF e
    <2> QED BY <2>1, <2>2, <1>1, <1>2, CollectedIs
<1>3. /\ n \in 1..Len(input) /\ c.taken = n
      /\ o + n <= e
      /\ c.req = [r EXCEPT !.lineBuffer = Part(text, 0, o + n),
                           !.currentSize = r.currentSize + ((o + n) - 0)]
    BY <1>21 DEF Collects
<1> DEFINE m == o + n
           line == Part(text, 0, m)
           after == [c.req EXCEPT !.lineBuffer = <<>>]
<1>4. m \in Nat /\ 0 < m /\ m <= e /\ o + n = m
    BY <1>2, <1>3
<1>5. /\ line \in Seq(Signs) /\ Len(line) = m /\ line[1] = text[1]
      /\ Contains(line, Eol) <=> m = e
    <2>1. \A x \in Nat : 0 < x /\ x <= e =>
             /\ Part(text, 0, x) \in Seq(Signs) /\ Len(Part(text, 0, x)) = x - 0
             /\ Part(text, 0, x)[1] = text[0 + 1] /\ (Contains(Part(text, 0, x), Eol) <=> x = e)
        <3> HIDE DEF text, e
        <3> QED BY <1>1, <1>2, LinePart
    <2> QED BY <2>1, <1>4
<1> HIDE DEF text, e, m, line
<1>6. r.currentSize + m \in Nat /\ r.currentSize + m <= Pieces(m)
    <2>1. Pieces(o) + m <= Pieces(m) /\ Pieces(o) \in Nat /\ Pieces(m) \in Nat
        BY <1>3, <1>4, OneMorePiece
    <2>2. r.currentSize <= Pieces(o) /\ r.currentSize \in Nat
        BY DEF FirstLine, Request
    <2> QED BY <2>1, <2>2, <1>4
<1>7. c.req = [r EXCEPT !.lineBuffer = line, !.currentSize = r.currentSize + m]
    <2>1. (o + n) - 0 = m
        BY <1>4
    <2>2. line = Part(text, 0, o + n)
        BY DEF line, m
    <2> QED BY <2>1, <2>2, <1>3, Zenon
<1> HIDE DEF c
<1>8. /\ c.req \in Request /\ c.req.status = "waitForRequest"
      /\ c.req.lineBuffer = line /\ c.req.currentSize = r.currentSize + m
      /\ ~c.req.multipart /\ ~c.req.boundary /\ c.req.expectedBodySize = 0 /\ c.req.bodyData = <<>>
    BY <1>5, <1>6, <1>7 DEF FirstLine, Request
<1>9. Pieces(m) <= WorstCount(s) /\ Pieces(m) \in Nat /\ WorstCount(s) \in Nat
    <2>1. Pieces(e) <= WorstCount(s)
        BY CountedIs DEF e
    <2>2. Pieces(m) <= Pieces(e) /\ Pieces(m) \in Nat /\ Pieces(e) \in Nat
        BY <1>2, <1>4, Piled
    <2> QED BY <2>1, <2>2, CountedIs
<1>10. Reading(r) = readRequest(r)
    BY DEF Reading, FirstLine
<1>11. CASE m # e
    <2>1. readRequest(r).req = c.req /\ readRequest(r).taken = n
        BY <1>3, <1>5, <1>8, <1>11, ReadRequestIs DEF c
    <2> DEFINE q == Limited(c.req)
    <2>2. q \in Request
        BY <1>8, LimitedIs
    <2>3. ASSUME q.status = "abort" PROVE Refused(s)
        <3>1. c.req.currentSize > MaxSize
            BY <2>3, <1>8, LimitedIs
        <3> QED BY <3>1, <1>6, <1>8, <1>9, SizeAssumption DEF Refused
    <2>4. ASSUME q.status # "abort" PROVE FirstLine(q, id, s, m)
        <3>1. q = c.req /\ q.currentSize <= MaxSize
            BY <2>4, <1>8, LimitedIs
        <3>2. m < e
            BY <1>2, <1>4, <1>11
        <3> QED BY <3>1, <3>2, <1>6, <1>8 DEF FirstLine, e, line, text
    <2> QED BY <1>2, <1>3, <1>4, <1>10, <2>1, <2>2, <2>3, <2>4 DEF ReadOn, Reads, m
<1>12. CASE m = e
    <2>1. line # <<Eol>> /\ Len(line) = e
        <3>1. Len(line) = e /\ Len(line) # 1
            BY <1>2, <1>5, <1>12
        <3> QED BY <3>1, <1>5, OnlyEol, Zenon
    <2> DEFINE junk == [after EXCEPT !.status = "abort"]
               good == [after EXCEPT !.status = "waitForHeader", !.id = line[1].n, !.old = line[1].k = "old"]
               k == readRequest(r).req
    <2>2. /\ line[1].k = "junk" => k = junk
          /\ line[1].k # "junk" => k = good
          /\ readRequest(r).taken = n
        BY <1>3, <1>5, <1>8, <1>12, <2>1, ReadRequestIs, Zenon DEF c
    <2>3. line[1].k = s.first /\ line[1].n = id
        BY <1>1, <1>5
    <2>4. /\ after \in Request
          /\ after.lineBuffer = <<>> /\ after.currentSize = r.currentSize + m
          /\ ~after.multipart /\ ~after.boundary /\ after.expectedBodySize = 0 /\ after.bodyData = <<>>
        BY <1>8 DEF Request
    <2> HIDE DEF after, k
    <2>5. k \in Request
        <3>1. junk \in Request
            BY <2>4 DEF Request
        <3>2. \A x \in Int, y \in BOOLEAN : [after EXCEPT !.status = "waitForHeader", !.id = x, !.old = y] \in Request
            BY <2>4 DEF Request
        <3>3. line[1].n \in Int /\ (line[1].k = "old") \in BOOLEAN
            BY <2>3
        <3>4. good \in Request
            BY <3>2, <3>3, Zenon
        <3> QED BY <3>1, <3>4, <2>2
    <2>6. CASE s.first = "junk"
        <3>1. k.status = "abort"
            BY <2>2, <2>3, <2>4, <2>6 DEF Request
        <3>2. Limited(k).status = "abort"
            BY <3>1, <2>5, LimitedIs
        <3>3. Limited(k) \in Request /\ Refused(s)
            BY <2>5, <2>6, LimitedIs DEF Refused
        <3> QED BY <1>2, <1>3, <1>4, <1>10, <2>2, <3>2, <3>3 DEF ReadOn, m, k
    <2>7. CASE s.first # "junk"
        <3>1. /\ k.status = "waitForHeader" /\ k.id = id
              /\ k.lineBuffer = <<>> /\ k.currentSize = r.currentSize + m
              /\ ~k.multipart /\ ~k.boundary /\ k.expectedBodySize = 0 /\ k.bodyData = <<>>
            BY <2>2, <2>3, <2>4, <2>7 DEF Request
        <3>2. Limited(k) \in Request
            BY <2>5, LimitedIs
        <3>3. ASSUME Limited(k).status = "abort" PROVE Refused(s)
            <4>1. k.currentSize > MaxSize
                BY <2>5, <3>1, <3>3, LimitedIs
            <4> QED BY <4>1, <1>6, <1>9, <3>1, SizeAssumption DEF Refused
        <3>4. ASSUME Limited(k).status # "abort" PROVE HeaderAt(Limited(k), id, s, e, e)
            <4>1. Limited(k) = k /\ k.currentSize <= MaxSize
                BY <2>5, <3>1, <3>4, LimitedIs
            <4>2. Part(text, e, e) = <<>>
                BY <1>2, SubSeqEmpty DEF Part
            <4>3. 2 * k.currentSize <= Counted(s, e) + 2 * (e - e)
                <5>1. Counted(s, e) = 2 * Pieces(e)
                    BY <1>2, <1>9, <1>12 DEF Counted, e
                <5> QED BY <5>1, <1>2, <1>6, <1>9, <1>12, <3>1
            <4>4. k.multipart <=> (s.multi /\ e >= MultiEnd(s))
                BY <1>2, <3>1, Places
            <4>5. k.expectedBodySize = IF e = LengthEnd(s) THEN s.body ELSE 0
                BY <1>2, <3>1
            <4> QED BY <4>1, <4>2, <4>3, <4>4, <4>5, <3>1 DEF HeaderAt, text
        <3>5. Limited(k).status # "abort" => HeaderLine(Limited(k), id, s, e)
            BY <3>4 DEF HeaderLine, e
        <3> QED BY <1>2, <1>3, <1>4, <1>10, <1>12, <2>2, <3>2, <3>3, <3>5 DEF ReadOn, Reads, m, k
    <2> QED BY <2>6, <2>7
<1> QED BY <1>11, <1>12

\* What readHeader() makes of the line it has.
LEMMA ReadHeaderIs ==
    ASSUME NEW r
    PROVE  LET c == Collected(r)
               line == c.req.lineBuffer
               after == [c.req EXCEPT !.lineBuffer = <<>>]
               h == readHeader(r).req
           IN  /\ readHeader(r).taken = c.taken
               /\ ~Contains(line, Eol) => h = c.req
               /\ Contains(line, Eol) =>
                    /\ line = <<Eol>> => h = HeadersDone(after)
                    /\ line # <<Eol>> =>
                         /\ line[1].k = "length" => h = [after EXCEPT !.expectedBodySize = line[1].n]
                         /\ line[1].k = "multipart" => h = [after EXCEPT !.multipart = TRUE]
                         /\ line[1].k = "close" => h = [after EXCEPT !.close = TRUE]
<1> DEFINE c == Collected(r)
           line == c.req.lineBuffer
           after == [c.req EXCEPT !.lineBuffer = <<>>]
           h == IF ~Contains(line, Eol) THEN c.req
                ELSE CASE line = <<Eol>> -> HeadersDone(after)
                   [] line[1].k = "length" -> [after EXCEPT !.expectedBodySize = line[1].n]
                   [] line[1].k = "multipart" -> [after EXCEPT !.multipart = TRUE]
                   [] line[1].k = "close" -> [after EXCEPT !.close = TRUE]
                   [] OTHER -> after
<1>1. readHeader(r) = [c EXCEPT !.req = h]
    BY DEF readHeader
<1>2. readHeader(r).req = h /\ readHeader(r).taken = c.taken
    <2> HIDE DEF h
    <2>1. c = [req |-> c.req, taken |-> c.taken]
        BY DEF Collected
    <2> HIDE DEF c
    <2> QED BY <1>1, <2>1
<1> HIDE DEF c, after, line
<1>3. ~Contains(line, Eol) => h = c.req
    OBVIOUS
<1>4. Contains(line, Eol) /\ line = <<Eol>> /\ line[1].k = "eol" => h = HeadersDone(after)
    OBVIOUS
<1>5. <<Eol>>[1].k = "eol"
    BY DEF Eol, Symbol
<1>6. Contains(line, Eol) /\ line # <<Eol>> =>
         /\ line[1].k = "length" => h = [after EXCEPT !.expectedBodySize = line[1].n]
         /\ line[1].k = "multipart" => h = [after EXCEPT !.multipart = TRUE]
         /\ line[1].k = "close" => h = [after EXCEPT !.close = TRUE]
    OBVIOUS
<1> HIDE DEF h
<1> QED BY <1>2, <1>3, <1>4, <1>5, <1>6 DEF line, after, c

\* Where the header line that follows b ends, and what the line is.
HeaderEnd(s, b) == IF b = LengthEnd(s) THEN HeadEnd(s) ELSE b + 2

\* The places where a header line can begin.
LEMMA HeaderKinds ==
    ASSUME NEW s \in Shape, NEW b \in {FirstEnd(s), MultiEnd(s), CloseEnd(s), LengthEnd(s)}
    PROVE  /\ b \in Nat /\ FirstEnd(s) <= b /\ b <= LengthEnd(s)
           /\ \/ b = LengthEnd(s)
              \/ b # LengthEnd(s) /\ b = FirstEnd(s) /\ s.multi
              \/ b # LengthEnd(s) /\ b = MultiEnd(s) /\ s.close
              \/ b # LengthEnd(s) /\ b = CloseEnd(s) /\ s.body > 0
           /\ b # LengthEnd(s) => b + 2 <= LengthEnd(s)
           /\ HeaderEnd(s, b) \in Nat /\ b < HeaderEnd(s, b) /\ HeaderEnd(s, b) <= Size(s)
    BY Places DEF HeaderEnd

\* The header lines of a request are lines of its text.
LEMMA HeaderLines ==
    ASSUME NEW s \in Shape, NEW id \in Nat, NEW b \in {FirstEnd(s), MultiEnd(s), CloseEnd(s), LengthEnd(s)}
    PROVE  Line(Encode(id, s), b, HeaderEnd(s, b))
<1>1. CASE b = LengthEnd(s)
    BY <1>1, Lines DEF HeaderEnd
<1>2. CASE b # LengthEnd(s) /\ b = FirstEnd(s) /\ s.multi
    <2>1. HeaderEnd(s, b) = MultiEnd(s)
        BY <1>2, Places DEF HeaderEnd
    <2> QED BY <1>2, <2>1, Lines
<1>3. CASE b # LengthEnd(s) /\ b = MultiEnd(s) /\ s.close
    <2>1. HeaderEnd(s, b) = CloseEnd(s)
        BY <1>3, Places DEF HeaderEnd
    <2> QED BY <1>3, <2>1, Lines
<1>4. CASE b # LengthEnd(s) /\ b = CloseEnd(s) /\ s.body > 0
    <2>1. HeaderEnd(s, b) = LengthEnd(s)
        BY <1>4, Places DEF HeaderEnd
    <2> QED BY <1>4, <2>1, Lines
<1> QED BY <1>1, <1>2, <1>3, <1>4, HeaderKinds

\* What follows the headers: the body, nothing, or the refusal of a body that is too long.
LEMMA HeadersDoneIs ==
    ASSUME NEW r \in Request
    PROVE  /\ HeadersDone(r) \in Request
           /\ HeadersDone(r).id = r.id /\ HeadersDone(r).boundary = r.multipart
           /\ HeadersDone(r).expectedBodySize = r.expectedBodySize
           /\ HeadersDone(r).currentSize = r.currentSize /\ HeadersDone(r).bodyData = r.bodyData
           /\ r.expectedBodySize = 0 => HeadersDone(r).status = "complete"
           /\ r.expectedBodySize > 0 =>
                 \/ HeadersDone(r).status = "waitForBody"
                 \/ /\ HeadersDone(r).status = "abort"
                    /\ \/ ~r.multipart /\ r.expectedBodySize + r.currentSize > MaxSize
                       \/ r.multipart /\ r.expectedBodySize > MaxMultiPart
<1> DEFINE st == HeadersDone(r).status
           status == CASE r.expectedBodySize = 0 -> "complete"
               [] r.expectedBodySize > 0 /\ ~r.multipart ->
                     IF r.expectedBodySize + r.currentSize > MaxSize THEN "abort" ELSE "waitForBody"
               [] r.expectedBodySize > 0 /\ r.multipart ->
                     IF r.expectedBodySize > MaxMultiPart THEN "abort" ELSE "waitForBody"
<1>1. HeadersDone(r) = [r EXCEPT !.boundary = r.multipart, !.status = status]
    BY DEF HeadersDone
<1>2. r.expectedBodySize \in Nat /\ r.multipart \in BOOLEAN
    BY DEF Request
<1>3. r.expectedBodySize = 0 => status = "complete"
    BY <1>2
<1>4. r.expectedBodySize > 0 /\ ~r.multipart =>
         status = IF r.expectedBodySize + r.currentSize > MaxSize THEN "abort" ELSE "waitForBody"
    BY <1>2
<1>5. r.expectedBodySize > 0 /\ r.multipart =>
         status = IF r.expectedBodySize > MaxMultiPart THEN "abort" ELSE "waitForBody"
    BY <1>2
<1> HIDE DEF status
<1>6. status \in {"complete", "waitForBody", "abort"}
    BY <1>2, <1>3, <1>4, <1>5
<1>7. /\ HeadersDone(r) \in Request
      /\ HeadersDone(r).id = r.id /\ HeadersDone(r).boundary = r.multipart
      /\ HeadersDone(r).expectedBodySize = r.expectedBodySize
      /\ HeadersDone(r).currentSize = r.currentSize /\ HeadersDone(r).bodyData = r.bodyData
      /\ HeadersDone(r).status = status
    BY <1>1, <1>6 DEF Request
<1> QED BY <1>2, <1>3, <1>4, <1>5, <1>7


\* The arithmetic of the counted size within a header line of two pieces.
LEMMA HeaderSizes ==
    ASSUME NEW cs \in Nat, NEW counted \in Nat, NEW b \in Nat, NEW o \in Nat, NEW m \in Nat,
           NEW worst \in Nat, NEW body \in Nat, b <= o, o < m,
           2 * cs <= counted + 2 * (o - b), counted + 2 + 2 * body <= 2 * worst
    PROVE  /\ cs + (m - b) \in Nat
           /\ o = b /\ m = b + 1 => /\ 2 * (cs + (m - b)) <= counted + 2 * (m - b)
                                   /\ cs + (m - b) + body <= worst
                                   /\ cs + (m - b) <= worst
           /\ o <= b + 1 /\ m = b + 2 => 2 * (cs + (m - b)) <= counted + 6
    OBVIOUS

\* What counts more than it may is refused with reason.
LEMMA MoreThanAllowed ==
    ASSUME NEW s \in Shape, NEW x \in Nat, x <= WorstCount(s)
    PROVE  /\ x > MaxSize => Refused(s)
           /\ s.multi /\ x > MaxMultiPart => Refused(s)
<1> DEFINE w == WorstCount(s)
           body == s.body
<1>1. w \in Nat /\ body \in Nat /\ x <= w
    BY CountedIs, Places
<1> HIDE DEF w, body
<1>2. x > MaxSize => w > MaxSize
    BY <1>1, SizeAssumption
<1>3. x > MaxMultiPart => w + body >= MaxMultiPart
    BY <1>1, SizeAssumption
<1> QED BY <1>2, <1>3 DEF Refused, w, body

\* A header line more is counted as at most three.
LEMMA CountedNext ==
    ASSUME NEW s \in Shape, NEW b \in Nat
    PROVE  Counted(s, b + 2) = Counted(s, b) + 6
<1> DEFINE p == Pieces(FirstEnd(s))
           f == FirstEnd(s)
<1>1. p \in Nat /\ f \in Nat
    BY CountedIs, Places
<1> HIDE DEF p, f
<1>2. 2 * p + 3 * ((b + 2) - f) = 2 * p + 3 * (b - f) + 6
    BY <1>1
<1> QED BY <1>2 DEF Counted, p, f

\* Reading goes on in the headers.
LEMMA HeaderLineRead ==
    ASSUME NEW s \in Shape, NEW id \in Nat, NEW o \in Nat, NEW r \in Request,
           input \in Seq(Signs), input # <<>>, Comes(Encode(id, s), o), HeaderLine(r, id, s, o)
    PROVE  ReadOn(Reading(r), id, s, o)
<1>1. PICK b \in {FirstEnd(s), MultiEnd(s), CloseEnd(s), LengthEnd(s)} : HeaderAt(r, id, s, o, b)
    BY DEF HeaderLine
<1> DEFINE text == Encode(id, s)
           c == Collected(r)
           e == HeaderEnd(s, b)
<1>2. /\ b \in Nat /\ FirstEnd(s) <= b /\ b <= LengthEnd(s) /\ e \in Nat /\ b < e /\ e <= Size(s)
      /\ LengthEnd(s) \in Nat /\ Size(s) \in Nat /\ s.body \in Nat /\ text \in Seq(Signs)
      /\ b = LengthEnd(s) => e = b + 1 /\ e = HeadEnd(s)
      /\ b # LengthEnd(s) => e = b + 2 /\ e <= LengthEnd(s)
    <2>1. text \in Seq(Signs)
        BY EncodeText
    <2> QED BY <2>1, HeaderKinds, Places DEF HeaderEnd
<1>3. Line(text, b, e)
    BY HeaderLines
<1>4. b <= o /\ o < e /\ (b = LengthEnd(s) => o = b) /\ o <= b + 1
    BY <1>1, <1>2 DEF HeaderAt
<1> HIDE DEF e
<1>5. PICK n \in 1..Len(input) : Collects(r, text, b, e, o, n)
    <2>1. r.lineBuffer = Part(text, b, o) /\ r.currentSize <= MaxSize
        BY <1>1 DEF HeaderAt
    <2> QED BY <2>1, <1>2, <1>3, <1>4, CollectedIs
<1> DEFINE m == o + n
           line == Part(text, b, m)
           size == r.currentSize + (m - b)
<1>6. m \in Nat /\ b < m /\ m <= e /\ o < m /\ c.taken = n
      /\ c.req = [r EXCEPT !.lineBuffer = line, !.currentSize = size]
    BY <1>2, <1>4, <1>5 DEF Collects
<1>7. /\ line \in Seq(Signs) /\ Len(line) = m - b /\ line[1] = text[b + 1]
      /\ Contains(line, Eol) <=> m = e
    <2>1. b \in Nat /\ text \in Seq(Signs)
        BY <1>2
    <2>2. \A x \in Nat : b < x /\ x <= e =>
             /\ Part(text, b, x) \in Seq(Signs) /\ Len(Part(text, b, x)) = x - b
             /\ Part(text, b, x)[1] = text[b + 1] /\ (Contains(Part(text, b, x), Eol) <=> x = e)
        <3> HIDE DEF text
        <3>1. e \in Nat
            BY <1>2
        <3> QED BY <2>1, <1>3, <3>1, LinePart
    <2> HIDE DEF text, m
    <2> QED BY <1>6, <2>2, Zenon
<1> HIDE DEF text, line
<1> HIDE DEF m
<1>9. /\ 2 * r.currentSize <= Counted(s, b) + 2 * (o - b) /\ Counted(s, b) \in Nat
      /\ Counted(s, b) + 2 + 2 * s.body <= 2 * WorstCount(s) /\ WorstCount(s) \in Nat
      /\ r.currentSize \in Nat
    BY <1>1, <1>2, CountedIs DEF HeaderAt, Request
<1>8. /\ size \in Nat
      /\ o = b /\ m = b + 1 => /\ 2 * size <= Counted(s, b) + 2 * (m - b)
                              /\ size + s.body <= WorstCount(s) /\ size <= WorstCount(s)
      /\ o <= b + 1 /\ m = b + 2 => 2 * size <= Counted(s, b) + 6
    BY <1>2, <1>4, <1>6, <1>9, HeaderSizes
<1> HIDE DEF size, c
<1>10. /\ c.req \in Request /\ c.req.status = "waitForHeader" /\ c.req.id = id
       /\ c.req.lineBuffer = line /\ c.req.currentSize = size
       /\ c.req.multipart <=> (s.multi /\ b >= MultiEnd(s))
       /\ c.req.expectedBodySize = IF b = LengthEnd(s) THEN s.body ELSE 0
       /\ ~c.req.boundary /\ c.req.bodyData = <<>>
    BY <1>1, <1>6, <1>7, <1>8 DEF HeaderAt, Request
<1>11. Reading(r) = readHeader(r)
    BY <1>1 DEF Reading, HeaderAt
<1> DEFINE h == readHeader(r).req
           q == Limited(h)
<1>12. readHeader(r).taken = n
    BY <1>6, ReadHeaderIs DEF c
<1>13. SUFFICES /\ h \in Request
                /\ h.status = "abort" => Refused(s)
                /\ h.status # "abort" /\ q.status = "abort" => Refused(s)
                /\ h.status # "abort" /\ q = h => Reads(h, id, s, m)
    <2> HIDE DEF h
    <2>1. q \in Request /\ (q.status # "abort" => q = h)
        BY <1>13, LimitedIs
    <2>2. IF q.status = "abort" THEN Refused(s) ELSE Reads(q, id, s, m)
        BY <1>13, <2>1
    <2>3. o + n <= Size(s) /\ m = o + n
        BY <1>2, <1>6 DEF m
    <2> HIDE DEF q
    <2> QED BY <1>11, <1>12, <2>1, <2>2, <2>3 DEF ReadOn, q, h
<1>14. CASE m # e
    <2>1. h = c.req
        BY <1>7, <1>10, <1>14, ReadHeaderIs DEF c
    <2>2. b # LengthEnd(s) /\ o = b /\ m = b + 1
        BY <1>2, <1>4, <1>6, <1>14
    <2>3. 2 * size <= Counted(s, b) + 2 * (m - b) /\ size <= WorstCount(s)
        BY <1>8, <2>2
    <2>4. ASSUME q.status = "abort" PROVE Refused(s)
        <3>1. size > MaxSize
            BY <1>10, <2>1, <2>4, LimitedIs
        <3> QED BY <3>1, <1>8, <2>3, MoreThanAllowed
    <2>5. ASSUME q = h, h.status # "abort" PROVE HeaderAt(h, id, s, m, b)
        <3>1. size <= MaxSize
            BY <1>10, <2>1, <2>5, LimitedIs
        <3>2. m = b + 1 /\ b < LengthEnd(s)
            BY <1>2, <2>2
        <3> QED BY <1>10, <2>1, <2>3, <3>1, <3>2 DEF HeaderAt, line, text
    <2> HIDE DEF h, q
    <2> QED BY <1>10, <2>1, <2>4, <2>5 DEF Reads, HeaderLine
<1> DEFINE after == [c.req EXCEPT !.lineBuffer = <<>>]
<1>15. /\ after \in Request /\ after.status = "waitForHeader" /\ after.id = id
       /\ after.lineBuffer = <<>> /\ after.currentSize = size
       /\ after.multipart <=> (s.multi /\ b >= MultiEnd(s))
       /\ after.expectedBodySize = IF b = LengthEnd(s) THEN s.body ELSE 0
       /\ ~after.boundary /\ after.bodyData = <<>>
    BY <1>10 DEF Request
<1> HIDE DEF after
<1>16. CASE m = e /\ b # LengthEnd(s)
    <2>1. e = b + 2 /\ e <= LengthEnd(s) /\ Contains(line, Eol) /\ line # <<Eol>>
        <3>1. Len(line) = 2 /\ Len(line) # 1
            BY <1>2, <1>7, <1>16
        <3>2. line # <<Eol>>
            BY <3>1, <1>7, OnlyEol, Zenon
        <3> QED BY <1>2, <1>7, <1>16, <3>2
    <2>2. 2 * size <= Counted(s, e) /\ Counted(s, e) \in Nat /\ Counted(s, e) + 2 + 2 * s.body <= 2 * WorstCount(s)
        <3>1. Counted(s, e) \in Nat /\ Counted(s, e) + 2 + 2 * s.body <= 2 * WorstCount(s)
            <4>1. e \in Nat /\ FirstEnd(s) <= e /\ e <= LengthEnd(s)
                BY <1>2, <2>1, Places
            <4> QED BY <4>1, CountedIs
        <3>2. Counted(s, e) = Counted(s, b) + 6
            BY <1>2, <2>1, CountedNext
        <3>3. 2 * size <= Counted(s, e)
            BY <3>2, <1>4, <1>8, <1>16, <2>1
        <3> QED BY <3>1, <3>3
    <2>20. size <= WorstCount(s)
        <3> DEFINE w == WorstCount(s)
                   body == s.body
                   k == Counted(s, e)
        <3>1. w \in Nat /\ body \in Nat /\ k \in Nat /\ size \in Nat /\ 2 * size <= k /\ k + 2 + 2 * body <= 2 * w
            BY <1>2, <1>8, <1>9, <2>2
        <3> HIDE DEF w, body, k
        <3>2. size <= w
            BY <3>1
        <3> QED BY <3>2 DEF w
    <2>3. /\ h \in Request /\ h.status = "waitForHeader" /\ h.id = id
          /\ h.lineBuffer = <<>> /\ h.currentSize = size
          /\ h.multipart <=> (s.multi /\ e >= MultiEnd(s))
          /\ h.expectedBodySize = IF e = LengthEnd(s) THEN s.body ELSE 0
          /\ ~h.boundary /\ h.bodyData = <<>>
          /\ e \in {FirstEnd(s), MultiEnd(s), CloseEnd(s), LengthEnd(s)}
        <3>1. CASE b = FirstEnd(s) /\ s.multi
            <4>1. line[1].k = "multipart"
                BY <1>7, <3>1, Lines DEF text
            <4>2. h = [after EXCEPT !.multipart = TRUE]
                BY <1>10, <2>1, <4>1, ReadHeaderIs DEF c, after
            <4>3. e = MultiEnd(s) /\ (e = LengthEnd(s) => s.body = 0)
                BY <1>2, <2>1, <3>1, Places, SMTT(20)
            <4>4. /\ e >= MultiEnd(s) /\ h.multipart = TRUE /\ h.expectedBodySize = 0
                BY <1>15, <1>16, <4>2, <4>3, Places DEF Request
            <4> HIDE DEF h
            <4> QED BY <1>15, <1>16, <3>1, <4>2, <4>3, <4>4 DEF Request
        <3>2. CASE b = MultiEnd(s) /\ s.close
            <4>1. line[1].k = "close"
                BY <1>7, <3>2, Lines DEF text
            <4>2. h = [after EXCEPT !.close = TRUE]
                BY <1>10, <2>1, <4>1, ReadHeaderIs DEF c, after
            <4>3. e = CloseEnd(s) /\ e >= MultiEnd(s) /\ b >= MultiEnd(s) /\ (e = LengthEnd(s) => s.body = 0)
                <5>1. CloseEnd(s) = MultiEnd(s) + 2
                    BY <3>2, Places
                <5>2. e = CloseEnd(s) /\ b \in Nat
                    BY <1>2, <2>1, <3>2, <5>1
                <5>3. e >= MultiEnd(s) /\ b >= MultiEnd(s)
                    BY <5>1, <5>2, <3>2
                <5>4. CloseEnd(s) = LengthEnd(s) => s.body = 0
                    BY Places
                <5> QED BY <5>2, <5>3, <5>4
            <4> HIDE DEF h
            <4> QED BY <1>15, <1>16, <3>2, <4>2, <4>3, Places DEF Request
        <3>3. CASE b = CloseEnd(s) /\ s.body > 0
            <4>1. line[1].k = "length" /\ line[1].n = s.body
                BY <1>7, <3>3, Lines DEF text
            <4>2. h = [after EXCEPT !.expectedBodySize = s.body]
                BY <1>10, <2>1, <4>1, ReadHeaderIs DEF c, after
            <4>3. e = LengthEnd(s) /\ e >= MultiEnd(s) /\ b >= MultiEnd(s) /\ s.body \in Nat
                BY <1>2, <2>1, <3>3, Places
            <4> HIDE DEF h
            <4> QED BY <1>15, <1>16, <3>3, <4>2, <4>3 DEF Request
        <3> QED BY <1>16, <3>1, <3>2, <3>3, HeaderKinds
    <2> HIDE DEF h
    <2>4. ASSUME q.status = "abort" PROVE Refused(s)
        <3>1. size > MaxSize
            BY <2>3, <2>4, LimitedIs
        <3> QED BY <3>1, <1>8, <2>20, MoreThanAllowed
    <2>5. ASSUME q = h, h.status # "abort" PROVE HeaderAt(h, id, s, e, e)
        <3>1. size <= MaxSize
            BY <2>3, <2>5, LimitedIs
        <3>2. Part(text, e, e) = <<>>
            BY <1>2, SubSeqEmpty DEF Part
        <3>3. 2 * size <= Counted(s, e) + 2 * (e - e)
            BY <1>2, <2>2
        <3> QED BY <2>3, <3>1, <3>2, <3>3 DEF HeaderAt, text
    <2> HIDE DEF q
    <2> QED BY <1>16, <2>3, <2>4, <2>5 DEF Reads, HeaderLine
<1>17. CASE m = e /\ b = LengthEnd(s)
    <2>1. e = b + 1 /\ e = HeadEnd(s) /\ o = b /\ MultiEnd(s) <= b
        BY <1>2, <1>4, <1>17, Places
    <2>2. Contains(line, Eol) /\ line = <<Eol>>
        <3>1. Len(line) = 1 /\ line[1] = Eol
            <4>1. text[LengthEnd(s) + 1] = Eol
                BY Lines DEF text
            <4>2. m - b = 1
                BY <1>2, <1>17, <2>1
            <4> QED BY <1>7, <1>17, <4>1, <4>2
        <3> QED BY <3>1, <1>7, <1>17, OnlyEol
    <2>3. h = HeadersDone(after)
        BY <1>10, <2>2, ReadHeaderIs DEF c, after
    <2>4. after.multipart = s.multi /\ after.expectedBodySize = s.body
        BY <1>2, <1>15, <1>17, <2>1, Places DEF Request
    <2>5. size + s.body <= WorstCount(s) /\ size <= WorstCount(s)
        BY <1>8, <1>17, <2>1
    <2>6. /\ h \in Request /\ h.id = id /\ h.boundary = s.multi /\ h.expectedBodySize = s.body
          /\ h.currentSize = size /\ h.bodyData = <<>>
          /\ s.body = 0 => h.status = "complete"
          /\ s.body > 0 =>
                 \/ h.status = "waitForBody"
                 \/ /\ h.status = "abort"
                    /\ \/ ~s.multi /\ s.body + size > MaxSize
                       \/ s.multi /\ s.body > MaxMultiPart
        <3> HIDE DEF h
        <3> QED BY <1>15, <2>3, <2>4, HeadersDoneIs
    <2> HIDE DEF h
    <2>7. ASSUME h.status = "abort" PROVE Refused(s)
        <3>1. \/ ~s.multi /\ s.body + size > MaxSize
              \/ s.multi /\ s.body > MaxMultiPart
            BY <1>2, <2>6, <2>7
        <3>2. s.body + size \in Nat /\ s.body \in Nat /\ s.body + size <= WorstCount(s) /\ s.body <= WorstCount(s)
            <4> DEFINE w == WorstCount(s)
                       body == s.body
            <4>1. w \in Nat /\ body \in Nat /\ size + body <= w
                BY <1>2, <1>9, <2>5
            <4> HIDE DEF w, body
            <4>2. body + size \in Nat /\ body \in Nat /\ body + size <= w /\ body <= w
                BY <4>1, <1>8
            <4> QED BY <4>2 DEF w, body
        <3> QED BY <3>1, <3>2, MoreThanAllowed
    <2>8. ASSUME h.status # "abort", q.status = "abort" PROVE Refused(s)
        <3>1. size > (IF s.multi THEN MaxMultiPart ELSE MaxSize)
            BY <2>6, <2>8, LimitedIs
        <3> QED BY <3>1, <2>5, <1>8, MoreThanAllowed
    <2>9. Data(id, 0) = <<>>
        BY DEF Data
    <2>10. CASE s.body = 0
        <3>1. Size(s) = HeadEnd(s)
            BY <2>10, Places
        <3> QED BY <1>17, <2>1, <2>6, <2>7, <2>8, <2>9, <2>10, <3>1 DEF Reads, Whole
    <2>11. CASE s.body > 0 /\ h.status # "abort"
        <3>1. HeadEnd(s) < Size(s) /\ HeadEnd(s) - HeadEnd(s) = 0 /\ HeadEnd(s) \in Nat
            BY <2>11, Places, SMTT(20)
        <3>2. size <= WorstCount(s) - s.body + (IF s.multi THEN 0 ELSE HeadEnd(s) - HeadEnd(s))
            <4> DEFINE w == WorstCount(s)
                       body == s.body
                       z == HeadEnd(s)
            <4>1. w \in Nat /\ body \in Nat /\ size + body <= w /\ z \in Nat
                BY <1>2, <1>9, <2>5, <3>1
            <4> HIDE DEF w, body, z
            <4>2. size <= w - body + (IF s.multi THEN 0 ELSE z - z)
                BY <4>1, <1>8
            <4> QED BY <4>2 DEF w, body, z
        <3>3. Body(h, id, s, e)
            BY <2>1, <2>6, <2>9, <2>11, <3>1, <3>2 DEF Body
        <3> QED BY <1>17, <2>6, <2>7, <2>8, <3>3 DEF Reads
    <2>12. CASE s.body > 0 /\ h.status = "abort"
        BY <2>6, <2>7, <2>12
    <2> QED BY <1>2, <2>10, <2>11, <2>12
<1> QED BY <1>14, <1>16, <1>17

\* The text of a body.
LEMMA DataIs ==
    ASSUME NEW id \in Int, NEW n \in Nat
    PROVE  /\ Data(id, n) \in Seq(Signs) /\ Len(Data(id, n)) = n
           /\ \A i \in 1..n : Data(id, n)[i] = Symbol("data", id)
<1>1. Symbol("data", id) \in Signs
    BY DEF Symbol, Signs, Kinds
<1> QED BY <1>1, Same DEF Data

\* t is n pieces of the body with number id.
IsData(t, id, n) ==
    t \in Seq(Signs) /\ Len(t) = n /\ \A i \in 1..n : t[i] = Symbol("data", id)

\* Such a text is the body.
LEMMA OnlyData ==
    ASSUME NEW id \in Int, NEW n \in Nat, NEW t, IsData(t, id, n)
    PROVE  t = Data(id, n)
<1> DEFINE b == Data(id, n)
<1>1. b \in Seq(Signs) /\ Len(b) = n /\ \A i \in 1..n : b[i] = Symbol("data", id)
    BY DataIs
<1> HIDE DEF b
<1>2. t = b
    BY <1>1, SeqEqual DEF IsData
<1> QED BY <1>2 DEF b

\* Bodies that follow each other are a longer one.
LEMMA MoreData ==
    ASSUME NEW id \in Int, NEW d \in Nat, NEW n \in Nat, NEW t, IsData(t, id, n)
    PROVE  IsData(Data(id, d) \o t, id, d + n)
<1> DEFINE a == Data(id, d)
<1>0. t \in Seq(Signs) /\ Len(t) = n /\ \A i \in 1..n : t[i] = Symbol("data", id)
    BY DEF IsData
<1>1. /\ a \in Seq(Signs) /\ Len(a) = d /\ \A i \in 1..d : a[i] = Symbol("data", id)
    BY DataIs
<1> HIDE DEF a
<1>2. Grows(Signs, a \o t, a, d, t, n)
    BY <1>0, <1>1, Grown
<1>3. ASSUME NEW i \in 1..(d + n) PROVE (a \o t)[i] = Symbol("data", id)
    <2>1. CASE i <= d
        BY <1>1, <1>2, <2>1 DEF Grows
    <2>2. CASE i > d
        <3>1. i - d \in 1..n /\ i = d + (i - d)
            BY <2>2
        <3> QED BY <3>1, <1>0, <1>2, Zenon DEF Grows
    <2>3. i <= d \/ i > d
        OBVIOUS
    <2> QED BY <2>1, <2>2, <2>3, Zenon
<1>4. a \o t \in Seq(Signs) /\ Len(a \o t) = d + n
    BY <1>2 DEF Grows
<1> QED BY <1>3, <1>4, Zenon DEF IsData, a

\* body is what readBody() has after it has taken n pieces.
Joins(r, n, body) == body = r.bodyData \o SubSeq(input, 1, n)

\* What one call of readBody makes of the request, with n symbols more of the body.
BodyMade(r, n, body) ==
    /\ readBody(r).taken = n
    /\ readBody(r).req \in Request
    /\ readBody(r).req.bodyData = body
    /\ readBody(r).req.id = r.id /\ readBody(r).req.boundary = r.boundary
    /\ readBody(r).req.expectedBodySize = r.expectedBodySize
    /\ ~r.boundary =>
          /\ readBody(r).req.currentSize = r.currentSize + n
          /\ readBody(r).req.status = IF Len(body) >= r.expectedBodySize THEN "complete" ELSE r.status
    /\ r.boundary =>
          /\ readBody(r).req.currentSize =
                IF Len(body) >= r.expectedBodySize /\ Len(body) < MaxMultiPart
                THEN r.currentSize + Len(body) ELSE r.currentSize
          /\ readBody(r).req.status = IF Len(body) >= MaxMultiPart THEN "abort"
                                      ELSE IF Len(body) >= r.expectedBodySize THEN "complete" ELSE r.status

\* What readBody() makes of the pieces it takes.
LEMMA ReadBodyIs ==
    ASSUME NEW r \in Request, NEW n, n = Least({Len(input), r.expectedBodySize - Len(r.bodyData)}),
           NEW body \in Seq(Signs), Joins(r, n, body), n \in Nat
    PROVE  BodyMade(r, n, body)
<1> DEFINE whole == Len(body) >= r.expectedBodySize
           size == IF whole /\ Len(body) < MaxMultiPart THEN r.currentSize + Len(body) ELSE r.currentSize
           st1 == IF whole THEN "complete" ELSE r.status
           st2 == IF Len(body) >= MaxMultiPart THEN "abort" ELSE IF whole THEN "complete" ELSE r.status
           plain == [r EXCEPT !.bodyData = body, !.currentSize = r.currentSize + n, !.status = st1]
           multi == [r EXCEPT !.bodyData = body, !.currentSize = size, !.status = st2]
<1>1. readBody(r) = [req |-> IF r.boundary THEN multi ELSE plain, taken |-> n]
    BY DEF readBody, Request, Joins
<1>2. size \in Nat /\ r.currentSize + n \in Nat
    BY SizeAssumption DEF Request
<1>3. /\ st1 \in {"waitForRequest", "waitForHeader", "waitForBody", "complete", "abort"}
      /\ st2 \in {"waitForRequest", "waitForHeader", "waitForBody", "complete", "abort"}
      /\ r.boundary \in BOOLEAN
    BY DEF Request
<1> HIDE DEF size, st1, st2
<1>4. /\ plain \in Request /\ plain.bodyData = body /\ plain.currentSize = r.currentSize + n /\ plain.status = st1
      /\ plain.id = r.id /\ plain.boundary = r.boundary /\ plain.expectedBodySize = r.expectedBodySize
    BY <1>2, <1>3 DEF Request
<1>5. /\ multi \in Request /\ multi.bodyData = body /\ multi.currentSize = size /\ multi.status = st2
      /\ multi.id = r.id /\ multi.boundary = r.boundary /\ multi.expectedBodySize = r.expectedBodySize
    BY <1>2, <1>3 DEF Request
<1> HIDE DEF plain, multi
<1>6. readBody(r).taken = n /\ readBody(r).req = IF r.boundary THEN multi ELSE plain
    BY <1>1
<1>7. CASE r.boundary
    <2>1. readBody(r).req = multi
        BY <1>6, <1>7
    <2> QED BY <1>5, <1>6, <1>7, <2>1 DEF size, st2, BodyMade
<1>8. CASE ~r.boundary
    <2>1. readBody(r).req = plain
        BY <1>6, <1>8
    <2> QED BY <1>4, <1>6, <1>8, <2>1 DEF st1, BodyMade
<1> QED BY <1>7, <1>8

\* The arithmetic of the counted size within the body.
LEMMA BodySizes ==
    ASSUME NEW cs \in Nat, NEW n \in Nat, NEW d \in Nat, NEW worst \in Nat, NEW body \in Nat,
           d + n <= body, body <= worst
    PROVE  /\ cs <= worst - body + d => cs + n <= worst - body + (d + n) /\ cs + n <= worst
           /\ cs <= worst - body + 0 => cs + body <= worst /\ cs <= worst
    OBVIOUS

\* Reading goes on in the body.
LEMMA BodyRead ==
    ASSUME NEW s \in Shape, NEW id \in Nat, NEW o \in Nat, NEW r \in Request,
           input \in Seq(Signs), input # <<>>, Comes(Encode(id, s), o), Body(r, id, s, o)
    PROVE  ReadOn(Reading(r), id, s, o)
<1> DEFINE text == Encode(id, s)
           d == o - HeadEnd(s)
           n == Least({Len(input), r.expectedBodySize - Len(r.bodyData)})
           b == readBody(r).req
           worst == WorstCount(s)
<1>1. /\ d \in Nat /\ d < s.body /\ HeadEnd(s) \in Nat /\ Size(s) = HeadEnd(s) + s.body /\ s.body \in Nat
      /\ o = HeadEnd(s) + d
    <2>1. HeadEnd(s) <= o /\ o < Size(s)
        BY DEF Body
    <2>2. HeadEnd(s) \in Nat /\ Size(s) = HeadEnd(s) + s.body /\ s.body \in Nat
        BY Places
    <2> QED BY <2>1, <2>2
<1>2. /\ r.bodyData = Data(id, d) /\ r.expectedBodySize = s.body /\ r.status = "waitForBody" /\ r.id = id
      /\ r.boundary \in BOOLEAN /\ (r.boundary <=> s.multi) /\ r.currentSize \in Nat
    BY DEF Body, Request
<1>3. Len(input) \in Nat /\ Len(input) >= 1
    OBVIOUS
<1>4. n \in 1..Len(input) /\ d + n <= s.body
    <2>1. Len(r.bodyData) = d
        BY <1>1, <1>2, DataIs
    <2>2. {Len(input), s.body - d} \subseteq Nat /\ {Len(input), s.body - d} # {}
        BY <1>1, <1>3
    <2>3. Least({Len(input), s.body - d}) \in {Len(input), s.body - d}
          /\ Least({Len(input), s.body - d}) <= Len(input)
          /\ Least({Len(input), s.body - d}) <= s.body - d
        BY <2>2, LeastIs
    <2>4. n = Least({Len(input), s.body - d})
        BY <1>2, <2>1
    <2> HIDE DEF n, d
    <2> QED BY <1>1, <1>3, <2>3, <2>4
<1>20. n = Least({Len(input), r.expectedBodySize - Len(r.bodyData)})
    OBVIOUS
<1>21. d = o - HeadEnd(s)
    OBVIOUS
<1> HIDE DEF n, d
<1>5. r.bodyData \o SubSeq(input, 1, n) = Data(id, d + n) /\ Data(id, d + n) \in Seq(Signs)
      /\ Len(Data(id, d + n)) = d + n
    <2>1. \A i \in 1..n : input[i] \in Signs
        BY <1>3, <1>4
    <2>2. /\ SubSeq(input, 1, n) \in Seq(Signs) /\ Len(SubSeq(input, 1, n)) = n
          /\ \A i \in 1..n : SubSeq(input, 1, n)[i] = input[i]
        BY <2>1, <1>4, SubSeqProperties
    <2>3. ASSUME NEW i \in 1..n PROVE input[i] = Symbol("data", id)
        <3>1. o + i \in (HeadEnd(s) + 1)..Size(s) /\ i \in 1..Len(input)
            BY <1>1, <1>3, <1>4
        <3>2. text[o + i] = Symbol("data", id) /\ Len(text) = Size(s)
            BY <3>1, EncodeText
        <3> QED BY <3>1, <3>2 DEF Comes
    <2>4. n \in Nat /\ d + n \in Nat
        BY <1>1, <1>4
    <2>5. \A i \in 1..n : SubSeq(input, 1, n)[i] = Symbol("data", id)
        BY <2>2, <2>3
    <2>6. id \in Int
        OBVIOUS
    <2>7. Data(id, d) \o SubSeq(input, 1, n) = Data(id, d + n)
        <3>1. IsData(SubSeq(input, 1, n), id, n)
            BY <2>2, <2>5 DEF IsData
        <3>2. IsData(Data(id, d) \o SubSeq(input, 1, n), id, d + n)
            BY <1>1, <2>4, <2>6, <3>1, MoreData, Zenon
        <3> QED BY <2>4, <2>6, <3>2, OnlyData, Zenon
    <2>8. Data(id, d + n) \in Seq(Signs) /\ Len(Data(id, d + n)) = d + n
        BY <2>4, <2>6, DataIs
    <2> QED BY <1>2, <2>7, <2>8
<1>6. /\ readBody(r).taken = n /\ b \in Request /\ b.bodyData = Data(id, d + n) /\ b.id = id
      /\ b.boundary = r.boundary /\ b.expectedBodySize = s.body
      /\ ~r.boundary =>
            /\ b.currentSize = r.currentSize + n
            /\ b.status = IF d + n >= s.body THEN "complete" ELSE "waitForBody"
      /\ r.boundary =>
            /\ b.currentSize = IF d + n >= s.body /\ d + n < MaxMultiPart
                               THEN r.currentSize + (d + n) ELSE r.currentSize
            /\ b.status = IF d + n >= MaxMultiPart THEN "abort"
                          ELSE IF d + n >= s.body THEN "complete" ELSE "waitForBody"
    <2> DEFINE t == Data(id, d + n)
    <2>1. t \in Seq(Signs) /\ t = r.bodyData \o SubSeq(input, 1, n) /\ n \in Nat /\ Len(t) = d + n
        BY <1>4, <1>5
    <2> HIDE DEF t, b
    <2>2. Joins(r, n, t)
        BY <2>1 DEF Joins
    <2>3. BodyMade(r, n, t)
        BY <2>1, <2>2, <1>20, ReadBodyIs, Zenon
    <2> QED BY <1>2, <2>1, <2>3 DEF t, b, BodyMade
<1> HIDE DEF b
<1>7. worst \in Nat /\ s.body <= worst
      /\ r.currentSize <= worst - s.body + (IF s.multi THEN 0 ELSE d)
    <2>1. s.body <= worst /\ worst \in Nat
        <3> DEFINE k == Counted(s, LengthEnd(s))
                   body == s.body
        <3>1. k \in Nat /\ worst \in Nat /\ body \in Nat /\ k + 2 + 2 * body <= 2 * worst
            <4>1. LengthEnd(s) \in Nat /\ FirstEnd(s) <= LengthEnd(s)
                BY Places
            <4> QED BY <1>1, <4>1, CountedIs
        <3> HIDE DEF k, body, worst
        <3>2. body <= worst
            BY <3>1
        <3> QED BY <3>1, <3>2 DEF body
    <2> QED BY <2>1, <1>21 DEF Body
<1> HIDE DEF worst
<1>8. /\ ~s.multi => /\ r.currentSize + n <= worst - s.body + (d + n)
                     /\ r.currentSize + n <= worst
      /\ s.multi => r.currentSize + s.body <= worst /\ r.currentSize <= worst
    <2>1. n \in Nat
        BY <1>4
    <2>2. CASE s.multi
        <3>1. r.currentSize <= worst - s.body + 0
            BY <1>7, <2>2
        <3> QED BY <1>1, <1>2, <1>4, <1>7, <2>1, <2>2, <3>1, BodySizes
    <2>3. CASE ~s.multi
        <3>1. r.currentSize <= worst - s.body + d
            BY <1>7, <2>3
        <3> QED BY <1>1, <1>2, <1>4, <1>7, <2>1, <2>3, <3>1, BodySizes
    <2> QED BY <2>2, <2>3
<1>9. b.status = "abort" => Refused(s)
    <2> SUFFICES ASSUME b.status = "abort" PROVE Refused(s)
        OBVIOUS
    <2>1. s.multi /\ d + n >= MaxMultiPart
        BY <1>2, <1>6
    <2>2. worst + s.body >= MaxMultiPart
        BY <1>1, <1>4, <1>7, <2>1, SizeAssumption
    <2> QED BY <2>1, <2>2 DEF Refused, worst
<1>10. b.currentSize \in Nat /\ b.currentSize <= worst
    <2>1. n \in Nat /\ d + n \in Nat /\ (d + n >= s.body => d + n = s.body)
        BY <1>1, <1>4
    <2>2. CASE s.multi
        <3>1. b.currentSize = r.currentSize \/ b.currentSize = r.currentSize + s.body
            BY <1>2, <1>6, <2>1, <2>2
        <3> QED BY <3>1, <1>1, <1>2, <1>8, <2>2
    <2>3. CASE ~s.multi
        <3>1. b.currentSize = r.currentSize + n
            BY <1>2, <1>6, <2>3
        <3> QED BY <3>1, <1>2, <1>8, <2>1, <2>3
    <2> QED BY <2>2, <2>3
<1> DEFINE q == Limited(b)
<1>11. ASSUME q.status = "abort", b.status # "abort" PROVE Refused(s)
    <2>1. b.currentSize > (IF b.boundary THEN MaxMultiPart ELSE MaxSize)
        BY <1>6, <1>11, LimitedIs
    <2> QED BY <2>1, <1>2, <1>6, <1>10, MoreThanAllowed DEF worst
<1>12. ASSUME b.status # "abort" PROVE Reads(b, id, s, o + n)
    <2>1. CASE d + n >= s.body
        <3>1. d + n = s.body /\ o + n = Size(s)
            BY <1>1, <1>4, <2>1
        <3>2. b.status = "complete"
            BY <1>2, <1>6, <1>12, <2>1
        <3> QED BY <1>6, <3>1, <3>2 DEF Reads, Whole
    <2>2. CASE d + n < s.body
        <3>1. HeadEnd(s) <= o + n /\ o + n < Size(s) /\ (o + n) - HeadEnd(s) = d + n /\ s.body > 0
            BY <1>1, <1>4, <2>2
        <3>2. b.status = "waitForBody"
            BY <1>1, <1>2, <1>4, <1>6, <1>12, <2>2
        <3>3. b.currentSize <= worst - s.body + (IF s.multi THEN 0 ELSE (o + n) - HeadEnd(s))
            <4>1. CASE s.multi
                BY <1>1, <1>2, <1>4, <1>6, <1>7, <2>2, <4>1
            <4>2. CASE ~s.multi
                BY <1>2, <1>6, <1>8, <3>1, <4>2
            <4> QED BY <4>1, <4>2
        <3> QED BY <1>2, <1>6, <3>1, <3>2, <3>3 DEF Reads, Body, worst
    <2> QED BY <1>1, <1>4, <2>1, <2>2
<1>13. Reading(r) = readBody(r)
    BY <1>2 DEF Reading
<1>14. q \in Request /\ (q.status # "abort" => q = b)
    BY <1>6, LimitedIs
<1>15. IF q.status = "abort" THEN Refused(s) ELSE Reads(q, id, s, o + n)
    BY <1>9, <1>11, <1>12, <1>14
<1>16. o + n <= Size(s)
    BY <1>1, <1>4
<1> HIDE DEF q
<1> QED BY <1>4, <1>6, <1>13, <1>14, <1>15, <1>16 DEF ReadOn, q, b

\* Reading goes on wherever the request is.
LEMMA RequestRead ==
    ASSUME NEW s \in Shape, NEW id \in Nat, NEW o \in Nat, NEW r \in Request,
           input \in Seq(Signs), input # <<>>, Comes(Encode(id, s), o), Reads(r, id, s, o),
           r.status # "complete"
    PROVE  ReadOn(Reading(r), id, s, o)
<1>1. FirstLine(r, id, s, o) \/ HeaderLine(r, id, s, o) \/ Body(r, id, s, o)
    BY DEF Reads, Whole
<1> QED BY <1>1, FirstLineRead, HeaderLineRead, BodyRead

\* A new HttpRequest is at the beginning of any request.
LEMMA NewRequestReads ==
    ASSUME NEW s \in Shape, NEW id \in Nat
    PROVE  NewRequest \in Request /\ Reads(NewRequest, id, s, 0) /\ NewRequest.status = "waitForRequest"
<1>1. NewRequest \in Request
    BY DEF NewRequest, Request
<1>2. Part(Encode(id, s), 0, 0) = <<>>
    BY SubSeqEmpty DEF Part
<1>3. 0 < FirstEnd(s) /\ 0 <= Pieces(0) /\ 0 <= MaxSize
    BY Places, SmallPieces, SizeAssumption
<1> QED BY <1>1, <1>2, <1>3 DEF NewRequest, Reads, FirstLine

-----------------------------------------------------------------------------
(* What is on its way from the client.                                     *)

\* Cut at the places given, the text holds the requests from k on; the first o
\* symbols of request k have been read.
Cut(at, text, snt, k, o) ==
    /\ at[k] = 0 - o /\ at[Len(snt) + 1] = Len(text)
    /\ \A i, j \in k..(Len(snt) + 1) : i <= j => at[i] <= at[j]
    /\ \A j \in k..Len(snt) : at[j + 1] = at[j] + Len(Encode(j, snt[j]))
    /\ \A j \in k..Len(snt) : \A i \in 1..Len(Encode(j, snt[j])) :
          at[j] + i >= 1 => text[at[j] + i] = Encode(j, snt[j])[i]

\* text continues the requests of snt after the first o pieces of the k-th.
Follows(text, snt, k, o) ==
    /\ k \in 1..(Len(snt) + 1) /\ o \in Nat /\ text \in Seq(Signs)
    /\ \E at \in [k..(Len(snt) + 1) -> Int] : Cut(at, text, snt, k, o)

\* rest is the text without its first n symbols.
IsRest(rest, text, n) ==
    /\ n \in 0..Len(text) /\ rest \in Seq(Signs) /\ Len(rest) = Len(text) - n
    /\ \A i \in 1..Len(rest) : rest[i] = text[n + i]

\* Of no requests there is no text.
LEMMA NothingFollows == Follows(<<>>, <<>>, 1, 0)
<1> DEFINE at == [j \in 1..1 |-> 0]
<1>1. at \in [1..(Len(<<>>) + 1) -> Int] /\ at[1] = 0
    OBVIOUS
<1>2. Cut(at, <<>>, <<>>, 1, 0)
    BY <1>1 DEF Cut
<1>3. <<>> \in Seq(Signs)
    OBVIOUS
<1> QED BY <1>1, <1>2, <1>3 DEF Follows

\* The text of a request that was sent.
LEMMA SentLength ==
    ASSUME NEW snt \in Seq(Shape), NEW j \in 1..Len(snt)
    PROVE  /\ snt[j] \in Shape
           /\ Encode(j, snt[j]) \in Seq(Signs)
           /\ Len(Encode(j, snt[j])) = Size(snt[j]) /\ Size(snt[j]) \in Nat /\ Size(snt[j]) >= 1
<1>1. snt[j] \in Shape
    OBVIOUS
<1>2. j \in Nat
    OBVIOUS
<1>3. \A s \in Shape : Size(s) \in Nat /\ Size(s) >= 1
    <2> SUFFICES ASSUME NEW s \in Shape PROVE Size(s) \in Nat /\ Size(s) >= 1
        OBVIOUS
    <2>1. LengthEnd(s) \in Nat /\ s.body \in Nat /\ Size(s) = (LengthEnd(s) + 1) + s.body
        BY Places
    <2> QED BY <2>1
<1> QED BY <1>1, <1>2, <1>3, EncodeText, Zenon

\* The text goes on with request k.
FrontText(text, snt, k, o) ==
    \A i \in 1..Len(text) : o + i <= Size(snt[k]) => text[i] = Encode(k, snt[k])[o + i]

\* What follows begins with the rest of the k-th request.
LEMMA FollowsFront ==
    ASSUME NEW snt \in Seq(Shape), NEW k, NEW o, NEW text, Follows(text, snt, k, o)
    PROVE  /\ k \in 1..(Len(snt) + 1) /\ Len(snt) \in Nat
           /\ k = Len(snt) + 1 => Len(text) = 0
           /\ k <= Len(snt) => FrontText(text, snt, k, o)
<1>1. k \in 1..(Len(snt) + 1) /\ o \in Nat /\ text \in Seq(Signs) /\ Len(snt) \in Nat /\ Len(text) \in Nat
    BY DEF Follows
<1>2. PICK at \in [k..(Len(snt) + 1) -> Int] : Cut(at, text, snt, k, o)
    BY DEF Follows
<1>3. k = Len(snt) + 1 => Len(text) = 0
    BY <1>1, <1>2 DEF Cut
<1>4. ASSUME k <= Len(snt), NEW i \in 1..Len(text), o + i <= Size(snt[k])
      PROVE  text[i] = Encode(k, snt[k])[o + i]
    <2>1. k \in k..Len(snt) /\ at[k] = 0 - o /\ k \in 1..Len(snt)
        BY <1>1, <1>2, <1>4 DEF Cut
    <2>2. o + i \in 1..Len(Encode(k, snt[k]))
        BY <1>1, <1>4, <2>1, SentLength
    <2>3. at[k] + (o + i) = i
        BY <1>1, <2>1
    <2>4. \A j \in 1..Len(Encode(k, snt[k])) : at[k] + j >= 1 => text[at[k] + j] = Encode(k, snt[k])[j]
        BY <1>2, <2>1, Zenon DEF Cut
    <2>5. at[k] + (o + i) >= 1
        BY <2>3
    <2> QED BY <2>2, <2>3, <2>4, <2>5, Zenon
<1> QED BY <1>1, <1>3, <1>4 DEF FrontText

\* Reading n pieces of the k-th request.
LEMMA FollowsTaken ==
    ASSUME NEW snt \in Seq(Shape), NEW k, NEW o, NEW text, Follows(text, snt, k, o),
           k <= Len(snt), NEW n \in Nat, o + n <= Size(snt[k]), NEW rest, IsRest(rest, text, n)
    PROVE  Follows(rest, snt, k, o + n)
<1>1. k \in 1..(Len(snt) + 1) /\ o \in Nat /\ text \in Seq(Signs) /\ Len(snt) \in Nat /\ Len(text) \in Nat
    BY DEF Follows
<1>2. PICK at \in [k..(Len(snt) + 1) -> Int] : Cut(at, text, snt, k, o)
    BY DEF Follows
<1> DEFINE last == Len(snt)
           bt == [j \in k..(last + 1) |-> at[j] - n]
<1>3. rest \in Seq(Signs) /\ Len(rest) = Len(text) - n /\ n \in 0..Len(text)
      /\ \A i \in 1..Len(rest) : rest[i] = text[n + i]
    BY DEF IsRest
<1>4. /\ at[k] = 0 - o /\ at[last + 1] = Len(text)
      /\ \A i, j \in k..(last + 1) : i <= j => at[i] <= at[j]
      /\ \A j \in k..last : at[j + 1] = at[j] + Len(Encode(j, snt[j]))
      /\ \A j \in k..last : \A i \in 1..Len(Encode(j, snt[j])) :
            at[j] + i >= 1 => text[at[j] + i] = Encode(j, snt[j])[i]
    BY <1>2 DEF Cut
<1>5. last \in Nat
    BY <1>1
<1> HIDE DEF last
<1>6. \A j \in k..(last + 1) : at[j] \in Int /\ bt[j] = at[j] - n /\ bt[j] \in Int
    BY <1>2 DEF last
<1>7. bt \in [k..(last + 1) -> Int]
    BY <1>6
<1> HIDE DEF bt
<1>8. bt[k] = 0 - (o + n) /\ bt[last + 1] = Len(rest)
    <2>1. k \in k..(last + 1) /\ last + 1 \in k..(last + 1)
        BY <1>1 DEF last
    <2>2. bt[k] = at[k] - n /\ bt[last + 1] = at[last + 1] - n
        BY <2>1, <1>6
    <2>3. at[k] = 0 - o /\ at[last + 1] = Len(text)
        BY <1>4
    <2> QED BY <2>2, <2>3, <1>1, <1>3
<1>9. ASSUME NEW i \in k..(last + 1), NEW j \in k..(last + 1), i <= j PROVE bt[i] <= bt[j]
    <2>1. at[i] <= at[j]
        BY <1>4, <1>9
    <2> QED BY <2>1, <1>6
<1>10. ASSUME NEW j \in k..last PROVE bt[j + 1] = bt[j] + Len(Encode(j, snt[j]))
    <2>1. j \in k..(last + 1) /\ j + 1 \in k..(last + 1) /\ j \in 1..Len(snt)
        BY <1>1, <1>5 DEF last
    <2>2. at[j + 1] = at[j] + Len(Encode(j, snt[j])) /\ Len(Encode(j, snt[j])) \in Nat
        BY <1>4, <2>1, SentLength
    <2> QED BY <2>1, <2>2, <1>6
<1>11. ASSUME NEW j \in k..last, NEW i \in 1..Len(Encode(j, snt[j])), bt[j] + i >= 1
       PROVE  rest[bt[j] + i] = Encode(j, snt[j])[i]
    <2>1. j \in k..(last + 1) /\ j + 1 \in k..(last + 1) /\ j \in 1..Len(snt) /\ last + 1 \in k..(last + 1)
        BY <1>1, <1>5 DEF last
    <2>2. Len(Encode(j, snt[j])) \in Nat /\ at[j] \in Int /\ bt[j] = at[j] - n /\ bt[j] \in Int
        BY <2>1, <1>6, SentLength
    <2>3. at[j] + i >= 1 /\ (at[j] + i) = n + (bt[j] + i)
        BY <1>11, <2>2
    <2>4. text[at[j] + i] = Encode(j, snt[j])[i]
        BY <1>4, <2>3, Zenon
    <2>5. bt[j + 1] <= bt[last + 1]
        BY <1>5, <1>9, <2>1
    <2>6. bt[j] + i <= Len(rest)
        BY <1>8, <1>10, <2>1, <2>2, <2>5, <1>6
    <2>7. bt[j] + i \in 1..Len(rest)
        BY <2>2, <2>6, <1>11, <1>3
    <2> QED BY <1>3, <2>3, <2>4, <2>7, Zenon
<1>12. Cut(bt, rest, snt, k, o + n)
    BY <1>8, <1>9, <1>10, <1>11, Zenon DEF Cut, last
<1>13. o + n \in Nat
    BY <1>1
<1> QED BY <1>1, <1>3, <1>7, <1>12, <1>13, Zenon DEF Follows, last

\* The k-th request has been read.
LEMMA FollowsNext ==
    ASSUME NEW snt \in Seq(Shape), NEW k, NEW text, k <= Len(snt), Follows(text, snt, k, Size(snt[k]))
    PROVE  Follows(text, snt, k + 1, 0)
<1>1. k \in 1..(Len(snt) + 1) /\ text \in Seq(Signs) /\ Len(snt) \in Nat
    BY DEF Follows
<1>2. PICK at \in [k..(Len(snt) + 1) -> Int] : Cut(at, text, snt, k, Size(snt[k]))
    BY DEF Follows
<1> DEFINE bt == [j \in (k + 1)..(Len(snt) + 1) |-> at[j]]
<1>3. k \in 1..Len(snt) /\ k \in k..Len(snt) /\ k + 1 \in 1..(Len(snt) + 1)
    BY <1>1
<1>4. at[k + 1] = 0
    <2>1. at[k + 1] = at[k] + Len(Encode(k, snt[k])) /\ at[k] = 0 - Size(snt[k])
        BY <1>2, <1>3 DEF Cut
    <2> QED BY <2>1, <1>3, SentLength
<1>5. \A j \in (k + 1)..(Len(snt) + 1) : bt[j] = at[j] /\ at[j] \in Int
    BY <1>1
<1>6. bt \in [(k + 1)..(Len(snt) + 1) -> Int]
    BY <1>5
<1> HIDE DEF bt
<1>7. /\ \A j \in (k + 1)..Len(snt) :
            j \in k..Len(snt) /\ j \in (k + 1)..(Len(snt) + 1) /\ j + 1 \in (k + 1)..(Len(snt) + 1)
      /\ \A j \in (k + 1)..(Len(snt) + 1) : j \in k..(Len(snt) + 1)
      /\ k + 1 \in (k + 1)..(Len(snt) + 1) /\ Len(snt) + 1 \in (k + 1)..(Len(snt) + 1)
    BY <1>1
<1>8. bt[k + 1] = 0 /\ bt[Len(snt) + 1] = Len(text)
    BY <1>2, <1>4, <1>5, <1>7, Zenon DEF Cut
<1>9. \A i, j \in (k + 1)..(Len(snt) + 1) : i <= j => bt[i] <= bt[j]
    BY <1>2, <1>5, <1>7, Zenon DEF Cut
<1>10. \A j \in (k + 1)..Len(snt) : bt[j + 1] = bt[j] + Len(Encode(j, snt[j]))
    BY <1>2, <1>5, <1>7, Zenon DEF Cut
<1>11. ASSUME NEW j \in (k + 1)..Len(snt), NEW i \in 1..Len(Encode(j, snt[j])), bt[j] + i >= 1
       PROVE  text[bt[j] + i] = Encode(j, snt[j])[i]
    <2>1. bt[j] = at[j] /\ j \in k..Len(snt)
        BY <1>5, <1>7
    <2> QED BY <1>2, <1>11, <2>1, Zenon DEF Cut
<1>12. 0 - 0 = 0
    OBVIOUS
<1>13. Cut(bt, text, snt, k + 1, 0)
    BY <1>8, <1>9, <1>10, <1>11, <1>12, Zenon DEF Cut
<1>14. 0 \in Nat
    OBVIOUS
<1> QED BY <1>1, <1>3, <1>6, <1>13, <1>14, Zenon DEF Follows

\* Another request is sent.
LEMMA FollowsSent ==
    ASSUME NEW snt \in Seq(Shape), NEW k, NEW o, NEW text, Follows(text, snt, k, o), NEW s \in Shape,
           NEW longer, longer \in Seq(Signs),
           Grows(Signs, longer, text, Len(text), Encode(Len(snt) + 1, s), Size(s))
    PROVE  Follows(longer, Append(snt, s), k, o)
<1>1. k \in 1..(Len(snt) + 1) /\ o \in Nat /\ text \in Seq(Signs) /\ Len(snt) \in Nat /\ Len(text) \in Nat
    BY DEF Follows
<1>2. PICK at \in [k..(Len(snt) + 1) -> Int] : Cut(at, text, snt, k, o)
    BY DEF Follows
<1> DEFINE last == Len(snt) + 1
           more == Append(snt, s)
           bt == [j \in k..(last + 1) |-> IF j <= last THEN at[j] ELSE Len(longer)]
<1>3. /\ more \in Seq(Shape) /\ Len(more) = last /\ more[last] = s
      /\ \A j \in 1..Len(snt) : more[j] = snt[j]
    BY <1>1
<1>4. last \in Nat /\ k \in 1..last /\ Len(snt) = last - 1 /\ last \in k..last
    BY <1>1
<1>5. /\ Len(longer) = Len(text) + Size(s) /\ Size(s) \in Nat
      /\ \A i \in 1..Len(text) : longer[i] = text[i]
      /\ \A i \in 1..Size(s) : longer[Len(text) + i] = Encode(last, s)[i]
      /\ Len(Encode(last, s)) = Size(s)
    BY <1>1, EncodeText, Places DEF Grows
<1>6. /\ at[k] = 0 - o /\ at[last] = Len(text)
      /\ \A i, j \in k..last : i <= j => at[i] <= at[j]
      /\ \A j \in k..Len(snt) : at[j + 1] = at[j] + Len(Encode(j, snt[j]))
      /\ \A j \in k..Len(snt) : \A i \in 1..Len(Encode(j, snt[j])) :
            at[j] + i >= 1 => text[at[j] + i] = Encode(j, snt[j])[i]
    BY <1>2 DEF Cut
<1>7. \A j \in k..last : at[j] \in Int
    BY <1>2
<1> HIDE DEF last, more
<1>8. /\ \A j \in k..last : bt[j] = at[j] /\ bt[j] \in Int
      /\ bt[last + 1] = Len(longer) /\ Len(longer) \in Int
      /\ bt \in [k..(last + 1) -> Int]
    BY <1>1, <1>4, <1>5, <1>7
<1> HIDE DEF bt
<1>9. bt[k] = 0 - o /\ bt[last + 1] = Len(longer)
    BY <1>4, <1>6, <1>8
<1>10. ASSUME NEW i \in k..(last + 1), NEW j \in k..(last + 1), i <= j PROVE bt[i] <= bt[j]
    <2>1. CASE j <= last
        <3>1. i \in k..last /\ j \in k..last
            BY <2>1, <1>4, <1>10
        <3> QED BY <3>1, <1>6, <1>8, <1>10
    <2>2. CASE i <= last /\ j = last + 1
        <3>1. i \in k..last
            BY <2>2, <1>4
        <3>2. at[i] <= at[last] /\ at[i] \in Int
            BY <3>1, <1>4, <1>6, <1>7, <2>2
        <3> QED BY <3>1, <3>2, <2>2, <1>1, <1>5, <1>6, <1>8
    <2>3. CASE i = last + 1
        <3>1. j = i
            BY <2>3, <1>4, <1>10
        <3> QED BY <3>1, <2>3, <1>8
    <2> QED BY <2>1, <2>2, <2>3, <1>4
<1>11. ASSUME NEW j \in k..last PROVE bt[j + 1] = bt[j] + Len(Encode(j, more[j]))
    <2>1. CASE j = last
        <3>1. bt[j] = Len(text) /\ bt[j + 1] = Len(text) + Size(s) /\ more[j] = s
            BY <2>1, <1>3, <1>4, <1>5, <1>6, <1>8
        <3> QED BY <3>1, <2>1, <1>5
    <2>2. CASE j # last
        <3>1. j \in k..Len(snt) /\ j + 1 \in k..last /\ j \in 1..Len(snt)
            BY <2>2, <1>4
        <3>2. more[j] = snt[j] /\ bt[j] = at[j] /\ bt[j + 1] = at[j + 1]
            BY <3>1, <1>3, <1>8
        <3> QED BY <3>1, <3>2, <1>6
    <2> QED BY <2>1, <2>2
<1>12. ASSUME NEW j \in k..last, NEW i \in 1..Len(Encode(j, more[j])), bt[j] + i >= 1
       PROVE  longer[bt[j] + i] = Encode(j, more[j])[i]
    <2>1. CASE j = last
        <3>1. bt[j] = Len(text) /\ more[j] = s
            BY <2>1, <1>3, <1>4, <1>6, <1>8
        <3>2. i \in 1..Size(s)
            BY <2>1, <3>1, <1>5
        <3> QED BY <2>1, <3>1, <3>2, <1>5, Zenon
    <2>2. CASE j # last
        <3>1. j \in k..Len(snt) /\ j + 1 \in k..last /\ j \in 1..Len(snt) /\ j \in k..last
            BY <2>2, <1>4
        <3>2. more[j] = snt[j] /\ bt[j] = at[j] /\ at[j] \in Int
            BY <3>1, <1>3, <1>7, <1>8
        <3>3. text[at[j] + i] = Encode(j, snt[j])[i]
            BY <3>1, <3>2, <1>6, <1>12, Zenon
        <3>4. at[j + 1] = at[j] + Len(Encode(j, snt[j])) /\ at[j + 1] <= at[last] /\ at[j + 1] \in Int
            BY <3>1, <1>4, <1>6, <1>7
        <3>5. Len(Encode(j, snt[j])) \in Nat /\ i \in 1..Len(Encode(j, snt[j]))
            BY <3>1, <3>2, SentLength
        <3>6. at[j] + i \in 1..Len(text)
            BY <3>2, <3>4, <3>5, <1>1, <1>6, <1>12, SMTT(20)
        <3> QED BY <3>2, <3>3, <3>6, <1>5, Zenon
    <2> QED BY <2>1, <2>2
<1>13. Cut(bt, longer, more, k, o)
    BY <1>3, <1>9, <1>10, <1>11, <1>12, Zenon DEF Cut
<1>14. k \in 1..(Len(more) + 1) /\ bt \in [k..(Len(more) + 1) -> Int]
    BY <1>3, <1>4, <1>8
<1> QED BY <1>1, <1>13, <1>14, Zenon DEF Follows, more

-----------------------------------------------------------------------------
(* Reading answers.                                                        *)

\* The pieces the server writes.
Datum == [k : {"data"}, n : Int \cup {"413"}]
OutSigns == Datum \cup [k : {"size", "end"}, n : Int] \cup [k : {"head"}, n : Int, chunked : BOOLEAN]
\* A client that reads an answer, and one that has read n answers.
Clients == [mode : {"head", "body", "chunks", "chunk", "close"}, left : Int, got : Seq(Datum)]
Readers == [c : Clients, n : Nat]

\* The client after one symbol more, with the number of answers it has understood.
After(q, s) ==
    IF ClientNext(q.c, s).mode = "done" THEN [c |-> NewClient, n |-> q.n + 1]
    ELSE [c |-> ClientNext(q.c, s), n |-> q.n]

\* The symbol makes sense, and an answer that it ends is the one that was told.
Understands(q, s, told) ==
    /\ ClientNext(q.c, s).mode # "error"
    /\ ClientNext(q.c, s).mode = "done" =>
          q.n + 1 <= Len(told) /\ ClientNext(q.c, s).got = told[q.n + 1]

\* run takes the reader q through the text to r, and no answer is counted beyond those of r.
Run(run, q, text, r, told) ==
    /\ run[0] = q /\ run[Len(text)] = r
    /\ \A i \in 0..Len(text) : run[i].n <= r.n
    /\ \A i \in 1..Len(text) : Understands(run[i - 1], text[i], told) /\ run[i] = After(run[i - 1], text[i])

\* The text takes the client from q to r.
Leads(q, text, r, told) ==
    /\ text \in Seq(OutSigns)
    /\ \E run \in [0..Len(text) -> Readers] : Run(run, q, text, r, told)

\* A client that waits for an answer is a reader.
LEMMA NewClientReads == NewClient \in Clients
    BY DEF NewClient, Clients

\* What the client makes of each kind of symbol.
LEMMA ClientNextIs ==
    ASSUME NEW c \in Clients, NEW s
    PROVE  /\ c.mode = "head" /\ s.k = "head" =>
                 ClientNext(c, s) = [c EXCEPT !.left = s.n,
                      !.mode = IF s.chunked THEN "chunks" ELSE IF s.n = 0 THEN "done"
                               ELSE IF s.n > 0 THEN "body" ELSE "close"]
           /\ c.mode = "body" /\ s.k = "data" =>
                 ClientNext(c, s) = [mode |-> IF c.left = 1 THEN "done" ELSE "body",
                                     left |-> c.left - 1, got |-> Append(c.got, s)]
           /\ c.mode = "chunks" /\ s.k = "size" => ClientNext(c, s) = [c EXCEPT !.left = s.n, !.mode = "chunk"]
           /\ c.mode = "chunks" /\ s.k = "end" => ClientNext(c, s) = [c EXCEPT !.mode = "done"]
           /\ c.mode = "chunk" /\ s.k = "data" =>
                 ClientNext(c, s) = [mode |-> IF c.left = 1 THEN "chunks" ELSE "chunk",
                                     left |-> c.left - 1, got |-> Append(c.got, s)]
           /\ c.mode = "close" /\ s.k = "data" =>
                 ClientNext(c, s) = [mode |-> "close", left |-> c.left - 1, got |-> Append(c.got, s)]
<1>1. CASE c.mode = "head" /\ s.k = "head"
    BY <1>1 DEF ClientNext
<1>2. CASE c.mode = "body" /\ s.k = "data"
    BY <1>2 DEF ClientNext, More, Clients
<1>3. CASE c.mode = "chunks" /\ s.k = "size"
    BY <1>3 DEF ClientNext
<1>4. CASE c.mode = "chunks" /\ s.k = "end"
    BY <1>4 DEF ClientNext
<1>5. CASE c.mode = "chunk" /\ s.k = "data"
    BY <1>5 DEF ClientNext, More, Clients
<1>6. CASE c.mode = "close" /\ s.k = "data"
    BY <1>6 DEF ClientNext, More, Clients
<1> QED BY <1>1, <1>2, <1>3, <1>4, <1>5, <1>6

\* No text leads nowhere.
LEMMA NothingLeads ==
    ASSUME NEW q \in Readers, NEW told
    PROVE  Leads(q, <<>>, q, told)
<1> DEFINE run == [i \in 0..0 |-> q]
<1>1. <<>> \in Seq(OutSigns) /\ Len(<<>>) = 0
    OBVIOUS
<1>2. run \in [0..0 -> Readers] /\ run[0] = q /\ q.n \in Nat
    BY DEF Readers
<1> HIDE DEF run
<1>3. Run(run, q, <<>>, q, told)
    BY <1>1, <1>2 DEF Run
<1> QED BY <1>1, <1>2, <1>3 DEF Leads

\* One piece leads to the next state of the reader.
LEMMA OneLeads ==
    ASSUME NEW q \in Readers, NEW s \in OutSigns, NEW told, Understands(q, s, told), After(q, s) \in Readers
    PROVE  Leads(q, <<s>>, After(q, s), told)
<1> DEFINE r == After(q, s)
           text == <<s>>
           run == [i \in 0..1 |-> IF i = 0 THEN q ELSE r]
<1>1. text \in Seq(OutSigns) /\ Len(text) = 1 /\ text[1] = s
    OBVIOUS
<1>2. q.n \in Nat /\ r.n \in Nat /\ q.n <= r.n
    BY DEF Readers, After
<1> HIDE DEF r, text
<1>3. run \in [0..1 -> Readers] /\ run[0] = q /\ run[1] = r
    BY DEF r
<1> HIDE DEF run
<1>4. \A i \in 0..1 : run[i].n <= r.n
    BY <1>2, <1>3
<1>5. \A i \in 1..1 : i = 1 /\ i - 1 = 0
    OBVIOUS
<1>6. Run(run, q, text, r, told)
    BY <1>1, <1>3, <1>4, <1>5 DEF Run, r
<1> QED BY <1>1, <1>3, <1>6 DEF Leads, r, text

\* One text after the other: long is text followed by more.
LEMMA LeadsOn ==
    ASSUME NEW q, NEW r, NEW z, NEW told, NEW text, NEW more, NEW long,
           Leads(q, text, r, told), Leads(r, more, z, told),
           Grows(OutSigns, long, text, Len(text), more, Len(more))
    PROVE  Leads(q, long, z, told)
<1>1. text \in Seq(OutSigns) /\ more \in Seq(OutSigns) /\ long \in Seq(OutSigns)
    BY DEF Leads, Grows
<1> DEFINE a == Len(text)
           b == Len(more)
<1>2. PICK f \in [0..a -> Readers] : Run(f, q, text, r, told)
    BY DEF Leads
<1>3. PICK g \in [0..b -> Readers] : Run(g, r, more, z, told)
    BY DEF Leads
<1>4. a \in Nat /\ b \in Nat
    BY <1>1
<1>5. /\ Len(long) = a + b
      /\ \A i \in 1..a : long[i] = text[i]
      /\ \A i \in 1..b : long[a + i] = more[i]
    BY DEF Grows
<1>6. /\ f[0] = q /\ f[a] = r
      /\ \A i \in 0..a : f[i].n <= r.n
      /\ \A i \in 1..a : Understands(f[i - 1], text[i], told) /\ f[i] = After(f[i - 1], text[i])
    BY <1>2 DEF Run
<1>7. /\ g[0] = r /\ g[b] = z
      /\ \A i \in 0..b : g[i].n <= z.n
      /\ \A i \in 1..b : Understands(g[i - 1], more[i], told) /\ g[i] = After(g[i - 1], more[i])
    BY <1>3 DEF Run
<1> HIDE DEF a, b
<1> DEFINE run == [i \in 0..(a + b) |-> IF i <= a THEN f[i] ELSE g[i - a]]
<1>8. /\ \A i \in 0..a : i \in 0..(a + b) /\ run[i] = f[i] /\ f[i] \in Readers
      /\ \A i \in 0..b : g[i] \in Readers
      /\ \A i \in 1..b : a + i \in 0..(a + b) /\ run[a + i] = g[i]
    BY <1>4, <1>2, <1>3
<1>9. run \in [0..(a + b) -> Readers]
    <2>1. ASSUME NEW i \in 0..(a + b) PROVE run[i] \in Readers
        <3>1. CASE i \in 0..a
            BY <3>1, <1>8
        <3>2. CASE i \notin 0..a
            <4>1. i - a \in 0..b /\ ~(i <= a)
                BY <3>2, <1>4
            <4> QED BY <4>1, <1>8
        <3> QED BY <3>1, <3>2
    <2> QED BY <2>1
<1> HIDE DEF run
<1>10. run[0] = q /\ run[a] = r
    BY <1>4, <1>6, <1>8
<1>11. \A i \in 0..b : run[a + i] = g[i]
    <2>1. ASSUME NEW i \in 0..b PROVE run[a + i] = g[i]
        <3>1. CASE i = 0
            BY <3>1, <1>4, <1>7, <1>10
        <3>2. CASE i # 0
            BY <3>2, <1>4, <1>8
        <3> QED BY <3>1, <3>2
    <2> QED BY <2>1
<1>12. run[a + b] = z
    BY <1>4, <1>7, <1>11
<1>13. r.n <= z.n /\ r.n \in Nat /\ z.n \in Nat
    <2>1. 0 \in 0..b /\ b \in 0..b
        BY <1>4
    <2>2. r \in Readers /\ z \in Readers
        BY <2>1, <1>7, <1>8, Zenon
    <2> QED BY <2>1, <2>2, <1>7 DEF Readers
<1>14. ASSUME NEW i \in 0..(a + b) PROVE run[i].n <= z.n
    <2>1. CASE i \in 0..a
        <3>1. run[i] = f[i] /\ f[i].n <= r.n /\ f[i].n \in Nat
            BY <2>1, <1>6, <1>8 DEF Readers
        <3> QED BY <3>1, <1>13
    <2>2. CASE i \notin 0..a
        <3>1. i - a \in 0..b /\ i = a + (i - a)
            BY <2>2, <1>4
        <3> QED BY <3>1, <1>7, <1>11
    <2> QED BY <2>1, <2>2
<1>15. ASSUME NEW i \in 1..(a + b)
       PROVE  Understands(run[i - 1], long[i], told) /\ run[i] = After(run[i - 1], long[i])
    <2>1. CASE i \in 1..a
        <3>1. i - 1 \in 0..a /\ i \in 0..a
            BY <2>1, <1>4
        <3> QED BY <2>1, <3>1, <1>5, <1>6, <1>8, Zenon
    <2>2. CASE i \notin 1..a
        <3>1. i - a \in 1..b /\ i - a \in 0..b /\ (i - a) - 1 \in 0..b /\ i = a + (i - a) /\ i - 1 = a + ((i - a) - 1)
            BY <2>2, <1>4
        <3>2. run[i - 1] = g[(i - a) - 1] /\ run[i] = g[i - a] /\ long[i] = more[i - a]
            BY <3>1, <1>5, <1>11, Zenon
        <3>3. Understands(g[(i - a) - 1], more[i - a], told) /\ g[i - a] = After(g[(i - a) - 1], more[i - a])
            BY <3>1, <1>7, Zenon
        <3> QED BY <3>2, <3>3, Zenon
    <2> QED BY <2>1, <2>2
<1>16. Run(run, q, long, z, told)
    BY <1>5, <1>10, <1>12, <1>14, <1>15, Zenon DEF Run
<1>17. run \in [0..Len(long) -> Readers]
    BY <1>5, <1>9
<1> QED BY <1>1, <1>16, <1>17, Zenon DEF Leads

\* The first symbol read, the rest of the text still leads to the same place.
LEMMA LeadsFromNext ==
    ASSUME NEW q, NEW r, NEW told, NEW text, Leads(q, text, r, told), text # <<>>
    PROVE  /\ text[1] \in OutSigns
           /\ Understands(q, text[1], told)
           /\ q \in Readers /\ After(q, text[1]) \in Readers /\ After(q, text[1]).n <= r.n
           /\ Leads(After(q, text[1]), Tail(text), r, told)
<1> DEFINE a == Len(text)
           rest == Tail(text)
<1>1. text \in Seq(OutSigns) /\ a \in Nat /\ a >= 1
    BY DEF Leads
<1>2. PICK f \in [0..a -> Readers] : Run(f, q, text, r, told)
    BY DEF Leads
<1>3. /\ f[0] = q /\ f[a] = r
      /\ \A i \in 0..a : f[i].n <= r.n
      /\ \A i \in 1..a : Understands(f[i - 1], text[i], told) /\ f[i] = After(f[i - 1], text[i])
    BY <1>2 DEF Run
<1>4. /\ rest \in Seq(OutSigns) /\ Len(rest) = a - 1 /\ \A i \in 1..(a - 1) : rest[i] = text[i + 1]
    BY <1>1, HeadTailProperties
<1>5. text[1] \in OutSigns
    BY <1>1
<1> HIDE DEF a, rest
<1> DEFINE run == [i \in 0..(a - 1) |-> f[i + 1]]
<1>6. /\ run \in [0..(a - 1) -> Readers]
      /\ \A i \in 0..(a - 1) : run[i] = f[i + 1]
    BY <1>1, <1>2
<1> HIDE DEF run
<1>7. 1 \in 1..a /\ 0 \in 0..a /\ 1 \in 0..a /\ 1 - 1 = 0
    BY <1>1
<1>8. Understands(q, text[1], told) /\ f[1] = After(q, text[1]) /\ f[0] \in Readers /\ f[1] \in Readers /\ f[1].n <= r.n
    BY <1>2, <1>3, <1>7
<1>9. run[0] = f[1] /\ run[a - 1] = r
    BY <1>1, <1>3, <1>6
<1>10. ASSUME NEW i \in 0..(a - 1) PROVE run[i].n <= r.n
    <2>1. i + 1 \in 0..a
        BY <1>1
    <2> QED BY <2>1, <1>3, <1>6, Zenon
<1>11. ASSUME NEW i \in 1..(a - 1)
       PROVE  Understands(run[i - 1], rest[i], told) /\ run[i] = After(run[i - 1], rest[i])
    <2>1. i + 1 \in 1..a /\ (i + 1) - 1 = i /\ i - 1 \in 0..(a - 1) /\ i \in 0..(a - 1) /\ (i - 1) + 1 = i
        BY <1>1
    <2>2. run[i - 1] = f[i] /\ run[i] = f[i + 1] /\ rest[i] = text[i + 1]
        BY <2>1, <1>4, <1>6, Zenon
    <2>3. Understands(f[i], text[i + 1], told) /\ f[i + 1] = After(f[i], text[i + 1])
        BY <2>1, <1>3, Zenon
    <2> QED BY <2>2, <2>3
<1>12. Run(run, f[1], rest, r, told)
    BY <1>4, <1>9, <1>10, <1>11, Zenon DEF Run
<1>13. Leads(f[1], rest, r, told)
    BY <1>4, <1>6, <1>12, Zenon DEF Leads
<1> QED BY <1>3, <1>5, <1>8, <1>13 DEF rest

\* No text leads nowhere else.
LEMMA NowhereLeft ==
    ASSUME NEW q, NEW r, NEW told, Leads(q, <<>>, r, told)
    PROVE  q = r
<1>1. Len(<<>>) = 0
    OBVIOUS
<1> QED BY <1>1, Zenon DEF Leads, Run

\* Readers read on, and count no answer back.
LEMMA LeadsBounds ==
    ASSUME NEW q, NEW r, NEW told, NEW text, Leads(q, text, r, told)
    PROVE  q \in Readers /\ r \in Readers /\ q.n <= r.n /\ text \in Seq(OutSigns)
<1>1. text \in Seq(OutSigns) /\ Len(text) \in Nat
    BY DEF Leads
<1>2. PICK f \in [0..Len(text) -> Readers] : Run(f, q, text, r, told)
    BY DEF Leads
<1>3. 0 \in 0..Len(text) /\ Len(text) \in 0..Len(text)
    BY <1>1
<1>4. f[0] = q /\ f[Len(text)] = r /\ f[0].n <= r.n
    BY <1>2, <1>3 DEF Run
<1> QED BY <1>1, <1>2, <1>3, <1>4

\* What is told of later answers does not matter.
LEMMA LeadsToldMore ==
    ASSUME NEW q, NEW r, NEW told, NEW more, NEW text, Leads(q, text, r, told),
           Len(told) \in Nat, Len(more) \in Nat, Len(told) <= Len(more),
           \A i \in 1..r.n : more[i] = told[i]
    PROVE  Leads(q, text, r, more)
<1>1. text \in Seq(OutSigns) /\ Len(text) \in Nat
    BY DEF Leads
<1> DEFINE a == Len(text)
<1>2. PICK f \in [0..a -> Readers] : Run(f, q, text, r, told)
    BY DEF Leads
<1>3. /\ f[0] = q /\ f[a] = r
      /\ \A i \in 0..a : f[i].n <= r.n
      /\ \A i \in 1..a : Understands(f[i - 1], text[i], told) /\ f[i] = After(f[i - 1], text[i])
    BY <1>2 DEF Run
<1> HIDE DEF a
<1>4. a \in Nat
    BY <1>1 DEF a
<1>5. r.n \in Nat
    <2>1. a \in 0..a
        BY <1>4
    <2> QED BY <2>1, <1>2, <1>3 DEF Readers
<1>6. ASSUME NEW i \in 1..a PROVE Understands(f[i - 1], text[i], more)
    <2> DEFINE p == f[i - 1]
               c == ClientNext(p.c, text[i])
    <2>1. i - 1 \in 0..a /\ i \in 0..a
        BY <1>4
    <2>2. p \in Readers /\ p.n \in Nat /\ f[i] = After(p, text[i]) /\ f[i].n <= r.n /\ Understands(p, text[i], told)
        BY <2>1, <1>2, <1>3 DEF Readers
    <2> HIDE DEF p
    <2>3. c.mode # "error"
        BY <2>2 DEF Understands
    <2>4. ASSUME c.mode = "done" PROVE p.n + 1 <= Len(more) /\ c.got = more[p.n + 1]
        <3>1. f[i].n = p.n + 1
            BY <2>2, <2>4 DEF After
        <3>2. p.n + 1 \in 1..r.n
            BY <2>2, <3>1, <1>5
        <3>3. p.n + 1 <= Len(told) /\ c.got = told[p.n + 1]
            BY <2>2, <2>4 DEF Understands
        <3> QED BY <2>2, <3>2, <3>3
    <2> QED BY <2>3, <2>4 DEF Understands, p
<1>7. Run(f, q, text, r, more)
    BY <1>3, <1>6, Zenon DEF Run, a
<1> QED BY <1>1, <1>2, <1>7, Zenon DEF Leads, a

\* What has come and what is still on the wire.
Coming(i, w) == i \o w

\* What comes is what has been received and then what is on its way.
LEMMA ComingIs ==
    ASSUME NEW i \in Seq(Signs), NEW w \in Seq(Signs)
    PROVE  /\ Coming(i, w) \in Seq(Signs) /\ Len(Coming(i, w)) = Len(i) + Len(w)
           /\ \A j \in 1..Len(i) : Coming(i, w)[j] = i[j]
           /\ \A j \in 1..Len(w) : Coming(i, w)[Len(i) + j] = w[j]
    BY DEF Coming

\* What is sent comes last.
LEMMA ComingSent ==
    ASSUME NEW i \in Seq(Signs), NEW w \in Seq(Signs), NEW e \in Seq(Signs), NEW longer \in Seq(Signs),
           longer = w \o e
    PROVE  Grows(Signs, Coming(i, longer), Coming(i, w), Len(Coming(i, w)), e, Len(e))
<1> DEFINE t == Coming(i, w)
           u == Coming(i, longer)
           a == Len(i)
           b == Len(w)
           c == Len(e)
<1>1. a \in Nat /\ b \in Nat /\ c \in Nat
    OBVIOUS
<1>2. /\ t \in Seq(Signs) /\ Len(t) = a + b
      /\ \A j \in 1..a : t[j] = i[j]
      /\ \A j \in 1..b : t[a + j] = w[j]
    BY ComingIs
<1>3. /\ u \in Seq(Signs) /\ Len(u) = a + Len(longer)
      /\ \A j \in 1..a : u[j] = i[j]
      /\ \A j \in 1..Len(longer) : u[a + j] = longer[j]
    BY ComingIs
<1>4. /\ Len(longer) = b + c
      /\ \A j \in 1..b : longer[j] = w[j]
      /\ \A j \in 1..c : longer[b + j] = e[j]
    OBVIOUS
<1> HIDE DEF t, u, a, b, c
<1>5. ASSUME NEW j \in 1..(a + b) PROVE u[j] = t[j]
    <2>1. CASE j \in 1..a
        BY <2>1, <1>2, <1>3
    <2>2. CASE j \notin 1..a
        <3>1. j - a \in 1..b /\ j - a \in 1..(b + c) /\ j = a + (j - a)
            BY <2>2, <1>1
        <3>2. u[j] = longer[j - a] /\ longer[j - a] = w[j - a] /\ t[j] = w[j - a]
            BY <3>1, <1>2, <1>3, <1>4, Zenon
        <3> QED BY <3>2
    <2> QED BY <2>1, <2>2
<1>6. ASSUME NEW j \in 1..c PROVE u[(a + b) + j] = e[j]
    <2>1. b + j \in 1..(b + c) /\ (a + b) + j = a + (b + j)
        BY <1>1
    <2> QED BY <2>1, <1>3, <1>4, Zenon
<1>7. Len(u) = (a + b) + c
    BY <1>1, <1>3, <1>4
<1>8. Grows(Signs, u, t, Len(t), e, c)
    BY <1>2, <1>3, <1>5, <1>6, <1>7, Zenon DEF Grows
<1> QED BY <1>8 DEF u, t, c

\* The network changes nothing of what comes.
LEMMA ComingMoved ==
    ASSUME NEW i \in Seq(Signs), NEW w \in Seq(Signs), w # <<>>
    PROVE  /\ Append(i, w[1]) \in Seq(Signs) /\ Tail(w) \in Seq(Signs)
           /\ Coming(Append(i, w[1]), Tail(w)) = Coming(i, w)
<1> DEFINE x == Append(i, w[1])
           y == Tail(w)
           t == Coming(i, w)
           u == Coming(x, y)
           a == Len(i)
           b == Len(w)
<1>1. a \in Nat /\ b \in Nat /\ b >= 1 /\ w[1] \in Signs
    OBVIOUS
<1>2. /\ x \in Seq(Signs) /\ Len(x) = a + 1 /\ x[a + 1] = w[1]
      /\ \A j \in 1..a : x[j] = i[j]
    BY <1>1
<1>3. y \in Seq(Signs) /\ Len(y) = b - 1 /\ \A j \in 1..(b - 1) : y[j] = w[j + 1]
    BY <1>1, HeadTailProperties
<1>4. /\ t \in Seq(Signs) /\ Len(t) = a + b
      /\ \A j \in 1..a : t[j] = i[j]
      /\ \A j \in 1..b : t[a + j] = w[j]
    BY ComingIs
<1> HIDE DEF x, y
<1>5. /\ u \in Seq(Signs) /\ Len(u) = Len(x) + Len(y)
      /\ \A j \in 1..Len(x) : u[j] = x[j]
      /\ \A j \in 1..Len(y) : u[Len(x) + j] = y[j]
    BY <1>2, <1>3, ComingIs
<1> HIDE DEF t, u, a, b
<1>6. Len(u) = Len(t) /\ \A j \in 1..(b - 1) : u[(a + 1) + j] = y[j]
    BY <1>1, <1>2, <1>3, <1>4, <1>5
<1>7. ASSUME NEW j \in 1..(a + b) PROVE u[j] = t[j]
    <2>1. CASE j \in 1..a
        <3>1. j \in 1..(a + 1)
            BY <2>1, <1>1
        <3> QED BY <2>1, <3>1, <1>2, <1>4, <1>5
    <2>2. CASE j = a + 1
        <3>1. j \in 1..(a + 1) /\ 1 \in 1..b
            BY <2>2, <1>1
        <3> QED BY <2>2, <3>1, <1>2, <1>4, <1>5
    <2>3. CASE j \notin 1..(a + 1)
        <3>1. /\ (j - a) - 1 \in 1..(b - 1) /\ j = (a + 1) + ((j - a) - 1)
              /\ j - a \in 1..b /\ j = a + (j - a) /\ ((j - a) - 1) + 1 = j - a
            BY <2>3, <1>1
        <3>2. u[j] = y[(j - a) - 1] /\ y[(j - a) - 1] = w[j - a] /\ t[j] = w[j - a]
            BY <3>1, <1>3, <1>4, <1>6, Zenon
        <3> QED BY <3>2
    <2> QED BY <2>1, <2>2, <2>3, <1>1
<1>8. u = t
    <2>1. \A j \in 1..Len(t) : u[j] = t[j]
        BY <1>4, <1>7
    <2> QED BY <2>1, <1>4, <1>5, <1>6, SeqEqual
<1> QED BY <1>2, <1>3, <1>8 DEF u, t, x, y

\* What has been received is read first.
LEMMA ComingTaken ==
    ASSUME NEW i \in Seq(Signs), NEW w \in Seq(Signs), NEW n \in 0..Len(i)
    PROVE  /\ SubSeq(i, n + 1, Len(i)) \in Seq(Signs)
           /\ IsRest(Coming(SubSeq(i, n + 1, Len(i)), w), Coming(i, w), n)
<1> DEFINE x == SubSeq(i, n + 1, Len(i))
           t == Coming(i, w)
           u == Coming(x, w)
           a == Len(i)
           b == Len(w)
<1>1. a \in Nat /\ b \in Nat /\ n \in Nat /\ n <= a
    OBVIOUS
<1>2. \A j \in (n + 1)..a : i[j] \in Signs
    BY <1>1
<1>3. x \in Seq(Signs) /\ Len(x) = a - n /\ \A j \in 1..(a - n) : x[j] = i[n + j]
    <2>1. /\ x \in Seq(Signs)
          /\ Len(x) = IF n + 1 <= a THEN (a - (n + 1)) + 1 ELSE 0
          /\ \A j \in 1..((a - (n + 1)) + 1) : x[j] = i[((n + 1) + j) - 1]
        BY <1>1, <1>2, SubSeqProperties
    <2>2. (a - (n + 1)) + 1 = a - n /\ (n + 1 <= a \/ a - n = 0)
        BY <1>1
    <2>3. Len(x) = a - n
        BY <2>1, <2>2, <1>1
    <2>4. ASSUME NEW j \in 1..(a - n) PROVE x[j] = i[n + j]
        <3>1. ((n + 1) + j) - 1 = n + j
            BY <1>1
        <3> QED BY <2>1, <2>2, <3>1
    <2> QED BY <2>1, <2>3, <2>4
<1>4. /\ t \in Seq(Signs) /\ Len(t) = a + b
      /\ \A j \in 1..a : t[j] = i[j]
      /\ \A j \in 1..b : t[a + j] = w[j]
    BY ComingIs
<1> HIDE DEF x
<1>5. /\ u \in Seq(Signs) /\ Len(u) = (a - n) + b
      /\ \A j \in 1..(a - n) : u[j] = x[j]
      /\ \A j \in 1..b : u[(a - n) + j] = w[j]
    <2>1. /\ u \in Seq(Signs) /\ Len(u) = Len(x) + b
          /\ \A j \in 1..Len(x) : u[j] = x[j]
          /\ \A j \in 1..b : u[Len(x) + j] = w[j]
        BY <1>3, ComingIs, Zenon
    <2> QED BY <2>1, <1>3, Zenon
<1> HIDE DEF t, u, a, b
<1>6. Len(u) = Len(t) - n /\ n \in 0..Len(t)
    BY <1>1, <1>4, <1>5
<1>7. ASSUME NEW j \in 1..((a - n) + b) PROVE u[j] = t[n + j]
    <2>1. CASE j \in 1..(a - n)
        <3>1. n + j \in 1..a
            BY <2>1, <1>1
        <3> QED BY <2>1, <3>1, <1>3, <1>4, <1>5, Zenon
    <2>2. CASE j \notin 1..(a - n)
        <3>1. j - (a - n) \in 1..b /\ j = (a - n) + (j - (a - n)) /\ n + j = a + (j - (a - n))
            BY <2>2, <1>1
        <3> QED BY <3>1, <1>4, <1>5, Zenon
    <2> QED BY <2>1, <2>2
<1>8. IsRest(u, t, n)
    BY <1>5, <1>6, <1>7, Zenon DEF IsRest
<1> QED BY <1>3, <1>8 DEF u, t, x

-----------------------------------------------------------------------------
(* The invariant of reading.                                               *)

\* What the application does with a response, and an HttpResponse.
Plan == [parts : Seq(Nat), length : Nat \cup {-1}, close : {"no", "connection", "Connection"},
         last : BOOLEAN, throws : BOOLEAN]
Response == [plan : Plan, close : BOOLEAN, length : Nat \cup {-1},
             sentHeaders : BOOLEAN, sentLastPart : BOOLEAN, chunkedMode : BOOLEAN]

\* The placeholders are no requests and no responses.
LEMMA NothingThere ==
    /\ NoRequest \notin Request /\ NoRequest.status = "none"
    /\ NoResponse \notin Response
<1>1. NoRequest.status = "none" /\ \A r \in Request : r.status # "none"
    BY DEF NoRequest, Request
<1>2. DOMAIN NoResponse = {"plan"} /\ \A r \in Response : "close" \in DOMAIN r
    BY DEF NoResponse, Response
<1>3. "close" \notin {"plan"}
    OBVIOUS
<1> QED BY <1>1, <1>2, <1>3

\* The types of what the server reads.
ReadTypeOK ==
    /\ open \in BOOLEAN
    /\ wire \in Seq(Signs) /\ input \in Seq(Signs)
    /\ request \in Request \cup {NoRequest}
    /\ response \in Response \cup {NoResponse}
    /\ sent \in Seq(Shape) /\ Len(sent) <= MaxAsked
    /\ served \in Seq([id : Int, body : Seq(Signs)])

\* Without a connection nothing is read, and no request is served before it is whole.
Attached ==
    /\ ~open => wire = <<>> /\ input = <<>> /\ request = NoRequest /\ response = NoResponse
    /\ response # NoResponse => request.status = "complete" /\ request.id = Len(served)

\* The request that is read next.
Current == Len(served) + 1

\* What has not been read continues the text that the client has sent, from
\* the place up to which the current request has been read.
Along(o) ==
    IF request = NoRequest \/ response # NoResponse THEN o = 0
    ELSE Current <= Len(sent) /\ Reads(request, Current, sent[Current], o)

\* What comes continues the current request where the handler is.
Following == \E o \in Nat : Follows(Coming(input, wire), sent, Current, o) /\ Along(o)

\* While the connection is open, what comes continues what was read; a refused request may be counted as too large.
ReadInv ==
    /\ open /\ request.status # "abort" => Following
    /\ request.status = "abort" => Current <= Len(sent) /\ Refused(sent[Current])

\* The inductive invariant of the reading.
Read == ReadTypeOK /\ Attached /\ ReadInv

\* Read survives each step: the client sends,
LEMMA SentReads ==
    ASSUME Read, NEW s \in Shapes, ClientSend(s)
    PROVE  Read'
<1> DEFINE e == Encode(Len(sent) + 1, s)
<1>1. /\ open /\ Len(sent) < MaxAsked
      /\ wire' = wire \o e /\ sent' = Append(sent, s)
      /\ open' = open /\ input' = input /\ request' = request /\ response' = response /\ served' = served
    BY DEF ClientSend
<1>2. s \in Shape
    BY ShapeAssumption DEF Shape
<1>3. /\ Len(sent) \in Nat /\ MaxAsked \in Nat /\ Len(sent) + 1 \in Nat
      /\ sent' \in Seq(Shape) /\ Len(sent') = Len(sent) + 1
      /\ \A j \in 1..Len(sent) : sent'[j] = sent[j]
    BY <1>1, <1>2, SizeAssumption DEF Read, ReadTypeOK
<1>4. e \in Seq(Signs) /\ Len(e) = Size(s)
    BY <1>2, <1>3, EncodeText
<1> HIDE DEF e
<1>5. wire' \in Seq(Signs)
    BY <1>1, <1>4 DEF Read, ReadTypeOK
<1>6. ReadTypeOK'
    BY <1>1, <1>3, <1>5 DEF Read, ReadTypeOK
<1>7. Attached'
    BY <1>1 DEF Read, Attached
<1>8. Len(served) \in Nat /\ Current' = Current /\ Current \in Nat /\ Current >= 1
    BY <1>1 DEF Read, ReadTypeOK, Current
<1>9. ASSUME request.status # "abort" PROVE Following'
    <2>1. PICK o \in Nat : Follows(Coming(input, wire), sent, Current, o) /\ Along(o)
        BY <1>1, <1>9 DEF Read, ReadInv, Following
    <2>2. Grows(Signs, Coming(input, wire'), Coming(input, wire), Len(Coming(input, wire)), e, Size(s))
        BY <1>1, <1>4, <1>5, ComingSent DEF Read, ReadTypeOK
    <2>3. Coming(input, wire') \in Seq(Signs)
        BY <2>2 DEF Grows
    <2>4. Follows(Coming(input, wire'), Append(sent, s), Current, o)
        BY <2>1, <2>2, <2>3, <1>2, FollowsSent DEF Read, ReadTypeOK, e
    <2>5. Along(o)'
        <3>1. CASE request = NoRequest \/ response # NoResponse
            BY <3>1, <2>1, <1>1 DEF Along
        <3>2. CASE ~(request = NoRequest \/ response # NoResponse)
            <4>1. Current <= Len(sent) /\ Reads(request, Current, sent[Current], o)
                BY <3>2, <2>1 DEF Along
            <4>2. sent'[Current] = sent[Current] /\ Current <= Len(sent')
                BY <4>1, <1>3, <1>8
            <4>3. Current' <= Len(sent') /\ Reads(request', Current', sent'[Current'], o)
                BY <4>1, <4>2, <1>1, <1>8
            <4> QED BY <3>2, <4>3, <1>1 DEF Along
        <3> QED BY <3>1, <3>2
    <2> QED BY <2>4, <2>5, <1>1, <1>8 DEF Following
<1>10. ASSUME request.status = "abort" PROVE (Current <= Len(sent) /\ Refused(sent[Current]))'
    <2>1. Current <= Len(sent) /\ Refused(sent[Current])
        BY <1>10 DEF Read, ReadInv
    <2>2. sent'[Current] = sent[Current] /\ Current <= Len(sent')
        BY <2>1, <1>3, <1>8
    <2>3. Refused(sent'[Current'])
        BY <2>1, <2>2, <1>8
    <2> QED BY <2>2, <2>3, <1>8 DEF Refused
<1>11. ReadInv'
    BY <1>1, <1>9, <1>10 DEF ReadInv
<1> QED BY <1>6, <1>7, <1>11 DEF Read

\* the network delivers,
LEMMA DeliveredReads ==
    ASSUME Read, Deliver
    PROVE  Read'
<1>1. /\ open /\ wire # <<>>
      /\ input' = Append(input, wire[1]) /\ wire' = Tail(wire)
      /\ open' = open /\ request' = request /\ response' = response /\ served' = served /\ sent' = sent
    BY DEF Deliver, pastVars
<1>2. input' \in Seq(Signs) /\ wire' \in Seq(Signs) /\ Coming(input', wire') = Coming(input, wire)
    BY <1>1, ComingMoved DEF Read, ReadTypeOK
<1>3. Current' = Current
    BY <1>1 DEF Current
<1>4. ReadTypeOK'
    BY <1>1, <1>2 DEF Read, ReadTypeOK
<1>5. Attached'
    BY <1>1 DEF Read, Attached
<1>6. Following => Following'
    BY <1>1, <1>2, <1>3, Zenon DEF Following, Along
<1>7. ReadInv'
    BY <1>1, <1>3, <1>6, Zenon DEF Read, ReadInv
<1> QED BY <1>4, <1>5, <1>7 DEF Read

\* the handler reads,
LEMMA SocketReads ==
    ASSUME Read, ReadFromSocket
    PROVE  Read'
<1> DEFINE r == IF request = NoRequest THEN NewRequest ELSE request
           c == Reading(r)
           s == sent[Current]
<1>1. /\ open /\ input # <<>> /\ response = NoResponse /\ request.status \notin {"complete", "abort"}
      /\ request' = Limited(c.req) /\ input' = SubSeq(input, c.taken + 1, Len(input))
      /\ open' = open /\ wire' = wire /\ response' = response /\ sent' = sent /\ served' = served
    BY DEF ReadFromSocket, pastVars
<1>2. /\ input \in Seq(Signs) /\ wire \in Seq(Signs) /\ sent \in Seq(Shape)
      /\ Len(served) \in Nat /\ Current \in Nat /\ Current' = Current
    BY <1>1 DEF Read, ReadTypeOK, Current
<1>3. PICK o \in Nat : Follows(Coming(input, wire), sent, Current, o) /\ Along(o)
    BY <1>1 DEF Read, ReadInv, Following
<1>4. /\ Len(Coming(input, wire)) = Len(input) + Len(wire)
      /\ \A j \in 1..Len(input) : Coming(input, wire)[j] = input[j]
      /\ Len(input) \in Nat /\ Len(wire) \in Nat /\ Len(input) >= 1
    <2>1. Len(input) \in Nat /\ Len(wire) \in Nat /\ Len(input) >= 1
        BY <1>1, <1>2
    <2> QED BY <2>1, <1>2, ComingIs, Zenon
<1>5. /\ Current \in 1..(Len(sent) + 1) /\ Len(sent) \in Nat
      /\ Current = Len(sent) + 1 => Len(Coming(input, wire)) = 0
      /\ Current <= Len(sent) =>
            \A i \in 1..Len(Coming(input, wire)) :
                o + i <= Size(s) => Coming(input, wire)[i] = Encode(Current, s)[o + i]
    <2>1. /\ Current \in 1..(Len(sent) + 1) /\ Len(sent) \in Nat
          /\ Current = Len(sent) + 1 => Len(Coming(input, wire)) = 0
          /\ Current <= Len(sent) => FrontText(Coming(input, wire), sent, Current, o)
        BY <1>2, <1>3, FollowsFront, Zenon
    <2> QED BY <2>1 DEF FrontText
<1>6. Current \in 1..Len(sent) /\ s \in Shape
    BY <1>2, <1>4, <1>5
<1>7. Len(Encode(Current, s)) = Size(s)
    BY <1>2, <1>6, EncodeText
<1>8. Comes(Encode(Current, s), o)
    BY <1>4, <1>5, <1>6, <1>7 DEF Comes
<1>9. r \in Request /\ Reads(r, Current, s, o) /\ r.status # "complete"
    <2>1. CASE request = NoRequest
        <3>1. o = 0
            BY <2>1, <1>3 DEF Along
        <3>2. NewRequest \in Request /\ Reads(NewRequest, Current, s, 0) /\ NewRequest.status = "waitForRequest"
            BY <1>2, <1>6, NewRequestReads
        <3> QED BY <2>1, <3>1, <3>2
    <2>2. CASE request # NoRequest
        <3>1. Reads(request, Current, s, o)
            BY <2>2, <1>1, <1>3 DEF Along
        <3>2. request \in Request
            BY <2>2 DEF Read, ReadTypeOK
        <3> QED BY <2>2, <3>1, <3>2, <1>1
    <2> QED BY <2>1, <2>2
<1> HIDE DEF r, s
<1>10. ReadOn(c, Current, s, o)
    BY <1>1, <1>2, <1>6, <1>8, <1>9, RequestRead, Zenon
<1> HIDE DEF c
<1>11. /\ c.taken \in 1..Len(input) /\ c.taken \in 0..Len(input) /\ c.taken \in Nat
       /\ o + c.taken <= Size(s) /\ o + c.taken \in Nat
       /\ request' \in Request
       /\ request'.status = "abort" => Refused(s)
       /\ request'.status # "abort" => Reads(request', Current, s, o + c.taken)
    BY <1>1, <1>4, <1>10 DEF ReadOn
<1>12. input' \in Seq(Signs) /\ IsRest(Coming(input', wire), Coming(input, wire), c.taken)
    BY <1>1, <1>2, <1>11, ComingTaken
<1>13. Follows(Coming(input', wire), sent, Current, o + c.taken)
    BY <1>2, <1>3, <1>6, <1>11, <1>12, FollowsTaken DEF s
<1>14. ReadTypeOK'
    BY <1>1, <1>11, <1>12 DEF Read, ReadTypeOK
<1>15. Attached'
    BY <1>1 DEF Read, Attached
<1>16. ASSUME request'.status # "abort" PROVE Following'
    <2>1. PICK n \in Nat : n = o + c.taken
        BY <1>11
    <2>2. Current' <= Len(sent') /\ Reads(request', Current', sent'[Current'], n)
        BY <2>1, <1>1, <1>2, <1>6, <1>11, <1>16 DEF s
    <2>3. request' # NoRequest /\ response' = NoResponse
        BY <1>1, <1>11, NothingThere
    <2>4. Along(n)'
        BY <2>2, <2>3 DEF Along
    <2>5. Follows(Coming(input', wire'), sent', Current', n)
        BY <2>1, <1>1, <1>2, <1>13
    <2> QED BY <2>4, <2>5 DEF Following
<1>17. ASSUME request'.status = "abort" PROVE (Current <= Len(sent) /\ Refused(sent[Current]))'
    <2>1. Refused(sent'[Current']) /\ Current' <= Len(sent')
        BY <1>1, <1>2, <1>6, <1>11, <1>17 DEF s
    <2> QED BY <2>1 DEF Refused
<1>18. ReadInv'
    BY <1>16, <1>17 DEF ReadInv
<1> QED BY <1>14, <1>15, <1>18 DEF Read

\* the request is served, and it is the one that was sent next,
LEMMA DispatchReads ==
    ASSUME Read, NEW plan \in Plans, Dispatch(plan)
    PROVE  /\ Read'
           /\ response' \in Response
           /\ Current <= Len(sent) /\ Current \in 1..Len(sent)
           /\ served' = Append(served, Asked(Current, sent[Current]))
<1> DEFINE s == sent[Current]
           a == [plan |-> plan, close |-> request.close \/ request.old \/ plan.close = "Connection",
                 length |-> plan.length,
                 sentHeaders |-> FALSE, sentLastPart |-> FALSE, chunkedMode |-> FALSE]
           b == [id |-> request.id, body |-> request.bodyData]
<1>1. /\ open /\ request.status = "complete" /\ response = NoResponse
      /\ response' = a /\ served' = Append(served, b)
      /\ open' = open /\ wire' = wire /\ input' = input /\ request' = request /\ sent' = sent
    BY DEF Dispatch
<1>2. /\ input \in Seq(Signs) /\ wire \in Seq(Signs) /\ sent \in Seq(Shape) /\ Len(sent) \in Nat
      /\ served \in Seq([id : Int, body : Seq(Signs)])
      /\ Len(served) \in Nat /\ Current = Len(served) + 1
    BY DEF Read, ReadTypeOK, Current
<1>3. request # NoRequest /\ request \in Request
    BY <1>1, NothingThere DEF Read, ReadTypeOK
<1>4. plan \in Plan
    BY PlanAssumption DEF Plan
<1>5. a \in Response
    <2>1. (request.close \/ request.old \/ plan.close = "Connection") \in BOOLEAN
        OBVIOUS
    <2>2. plan.length \in Nat \cup {-1}
        BY <1>4 DEF Plan
    <2> QED BY <1>4, <2>1, <2>2 DEF Response
<1>6. b \in [id : Int, body : Seq(Signs)]
    BY <1>3 DEF Request
<1>7. response' \in Response /\ response' # NoResponse
    BY <1>1, <1>5, NothingThere
<1> HIDE DEF a, b
<1>8. /\ served' \in Seq([id : Int, body : Seq(Signs)]) /\ Len(served') = Current
    BY <1>1, <1>2, <1>6
<1>9. PICK o \in Nat : Follows(Coming(input, wire), sent, Current, o) /\ Along(o)
    BY <1>1 DEF Read, ReadInv, Following
<1>10. Current <= Len(sent) /\ Reads(request, Current, s, o)
    BY <1>1, <1>3, <1>9 DEF Along
<1>11. Whole(request, Current, s, o)
    BY <1>1, <1>10 DEF Reads, FirstLine, HeaderLine, HeaderAt, Body
<1>12. o = Size(s) /\ request.id = Current /\ request.bodyData = Data(Current, s.body)
    BY <1>11 DEF Whole
<1>13. b = Asked(Current, s)
    BY <1>12 DEF b, Asked
<1>14. Current \in 1..Len(sent)
    BY <1>2, <1>10
<1>15. Follows(Coming(input, wire), sent, Current + 1, 0)
    BY <1>2, <1>9, <1>10, <1>12, FollowsNext
<1>16. Current' = Current + 1
    BY <1>8 DEF Current
<1>17. Following'
    <2>1. Along(0)'
        BY <1>7 DEF Along
    <2>2. Follows(Coming(input', wire'), sent', Current', 0)
        BY <1>1, <1>15, <1>16
    <2> QED BY <2>1, <2>2 DEF Following
<1>18. ReadTypeOK'
    BY <1>1, <1>7, <1>8 DEF Read, ReadTypeOK
<1>19. Attached'
    BY <1>1, <1>7, <1>8, <1>12 DEF Read, Attached
<1>20. ReadInv'
    BY <1>1, <1>17 DEF ReadInv
<1> QED BY <1>1, <1>7, <1>10, <1>13, <1>14, <1>18, <1>19, <1>20 DEF Read

\* While a request is served nothing is read.
LEMMA ServingReads ==
    ASSUME Read, response \in Response, response' \in Response,
           UNCHANGED <<open, wire, input, request, sent, served>>
    PROVE  Read'
<1>1. /\ response # NoResponse /\ response' # NoResponse
      /\ open' = open /\ wire' = wire /\ input' = input /\ request' = request /\ sent' = sent /\ served' = served
    BY NothingThere
<1>2. ReadTypeOK' /\ Attached'
    BY <1>1 DEF Read, ReadTypeOK, Attached
<1>3. Current' = Current
    BY <1>1 DEF Current
<1>4. Following => Following'
    BY <1>1, <1>3 DEF Following, Along
<1>5. request.status # "abort"
    BY <1>1 DEF Read, Attached
<1>6. ReadInv'
    BY <1>1, <1>4, <1>5 DEF Read, ReadInv
<1> QED BY <1>2, <1>6 DEF Read

\* While there is a response, its request has been read and is the last one served.
LEMMA ResponseIs ==
    ASSUME Read, response # NoResponse
    PROVE  /\ open /\ response \in Response /\ request \in Request /\ request.status = "complete"
           /\ request.id = Len(served) /\ Len(served) \in Nat
           /\ response.plan \in Plan /\ response.plan.parts \in Seq(Nat)
<1>1. open /\ response \in Response /\ request.status = "complete" /\ request.id = Len(served) /\ Len(served) \in Nat
    BY DEF Read, ReadTypeOK, Attached
<1>2. request \in Request
    BY <1>1, NothingThere DEF Read, ReadTypeOK
<1>3. response.plan \in Plan
    BY <1>1 DEF Response
<1>4. response.plan.parts \in Seq(Nat)
    BY <1>3 DEF Plan
<1> QED BY <1>1, <1>2, <1>3, <1>4

\* The first part of an answer leaves a response.
LEMMA StartedIs ==
    ASSUME NEW a \in Response, NEW size \in Nat, NEW lastPart \in BOOLEAN
    PROVE  /\ Started(a, size, lastPart) \in Response
           /\ [Started(a, size, lastPart) EXCEPT !.sentLastPart = lastPart] \in Response
<1>1. (~lastPart /\ ~a.close /\ a.plan.close # "connection") \in BOOLEAN
    OBVIOUS
<1>2. Started(a, size, lastPart) \in Response
    <2>1. CASE a.sentHeaders
        BY <2>1 DEF Started
    <2>2. CASE ~a.sentHeaders /\ lastPart
        BY <2>2 DEF Started, Response
    <2>3. CASE ~a.sentHeaders /\ ~lastPart
        BY <2>3 DEF Started, Response
    <2> QED BY <2>1, <2>2, <2>3
<1>3. \A w \in Response : [w EXCEPT !.sentLastPart = lastPart] \in Response
    BY DEF Response
<1> QED BY <1>2, <1>3

\* The response with the first part of its plan taken off, as AppWrite hands it to write.
Popped(a) == [a EXCEPT !.plan.parts = Tail(a.plan.parts)]

\* The plan without its next part.
LEMMA PoppedIs ==
    ASSUME NEW a \in Response, a.plan.parts # <<>>
    PROVE  /\ Popped(a) \in Response
           /\ Popped(a).plan.parts = Tail(a.plan.parts)
           /\ Popped(a).plan.close = a.plan.close /\ Popped(a).plan.throws = a.plan.throws
           /\ Popped(a).close = a.close /\ Popped(a).length = a.length
           /\ Popped(a).sentHeaders = a.sentHeaders /\ Popped(a).sentLastPart = a.sentLastPart
           /\ Popped(a).chunkedMode = a.chunkedMode
           /\ a.plan.parts[1] \in Nat
           /\ (a.plan.last /\ Len(a.plan.parts) = 1) \in BOOLEAN
<1>1. a.plan \in Plan /\ a.plan.parts \in Seq(Nat)
    BY DEF Response, Plan
<1>2. Tail(a.plan.parts) \in Seq(Nat) /\ a.plan.parts[1] \in Nat
    BY <1>1
<1>3. [a.plan EXCEPT !.parts = Tail(a.plan.parts)] \in Plan
    BY <1>1, <1>2 DEF Plan
<1>4. Popped(a) = [a EXCEPT !.plan = [a.plan EXCEPT !.parts = Tail(a.plan.parts)]]
    BY DEF Popped
<1> DEFINE p == [a.plan EXCEPT !.parts = Tail(a.plan.parts)]
<1>5. p.parts = Tail(a.plan.parts) /\ p.close = a.plan.close /\ p.throws = a.plan.throws
    BY <1>1 DEF Plan
<1> HIDE DEF p
<1>6. Popped(a) \in Response /\ Popped(a).plan = p
      /\ Popped(a).close = a.close /\ Popped(a).length = a.length
      /\ Popped(a).sentHeaders = a.sentHeaders /\ Popped(a).sentLastPart = a.sentLastPart
      /\ Popped(a).chunkedMode = a.chunkedMode
    BY <1>3, <1>4 DEF Response, p
<1> QED BY <1>2, <1>5, <1>6

\* The plan that the application has broken off.
LEMMA ThrownIs ==
    ASSUME NEW a \in Response
    PROVE  /\ [a EXCEPT !.plan.parts = <<>>] \in Response
           /\ [a EXCEPT !.plan.parts = <<>>].plan = [a.plan EXCEPT !.parts = <<>>]
<1>1. a.plan \in Plan /\ <<>> \in Seq(Nat)
    BY DEF Response
<1>2. [a.plan EXCEPT !.parts = <<>>] \in Plan
    BY <1>1 DEF Plan
<1> QED BY <1>1, <1>2 DEF Response

\* Before the first request nothing comes.
LEMMA NothingComing == Coming(<<>>, <<>>) = <<>>
    BY DEF Coming

\* Read holds at first,
LEMMA InitReads == HttpInit => Read
<1> SUFFICES ASSUME HttpInit PROVE Read
    OBVIOUS
<1>1. /\ open = TRUE /\ wire = <<>> /\ input = <<>> /\ request = NoRequest /\ response = NoResponse
      /\ sent = <<>> /\ served = <<>>
    BY DEF HttpInit
<1>2. Current = 1 /\ Len(sent) = 0
    BY <1>1 DEF Current
<1>3. ReadTypeOK
    BY <1>1, <1>2, SizeAssumption DEF ReadTypeOK
<1>4. Attached
    BY <1>1 DEF Attached
<1>5. Follows(Coming(input, wire), sent, Current, 0)
    BY <1>1, <1>2, NothingComing, NothingFollows
<1>6. Along(0) /\ request.status # "abort"
    BY <1>1, NothingThere DEF Along
<1>7. ReadInv
    BY <1>5, <1>6 DEF ReadInv, Following
<1> QED BY <1>3, <1>4, <1>7 DEF Read

\* on a new connection,
LEMMA ReconnectReads ==
    ASSUME Read, Reconnect
    PROVE  Read'
<1>1. /\ ~open /\ open' = TRUE /\ sent' = <<>> /\ served' = <<>>
      /\ wire' = wire /\ input' = input /\ request' = request /\ response' = response
    BY DEF Reconnect
<1>2. wire' = <<>> /\ input' = <<>> /\ request' = NoRequest /\ response' = NoResponse
    BY <1>1 DEF Read, Attached
<1>3. Len(served') = 0 /\ Len(sent') = 0
    BY <1>1
<1>4. Current' = 1
    BY <1>3 DEF Current
<1>5. ReadTypeOK'
    BY <1>1, <1>2, <1>3, SizeAssumption DEF ReadTypeOK
<1>6. Attached'
    BY <1>1, <1>2 DEF Attached
<1>7. Follows(Coming(input', wire'), sent', Current', 0)
    BY <1>1, <1>2, <1>4, NothingComing, NothingFollows
<1>8. Along(0)' /\ request'.status # "abort"
    BY <1>2, NothingThere DEF Along
<1>9. Following'
    BY <1>7, <1>8 DEF Following
<1>10. ReadInv'
    BY <1>8, <1>9 DEF ReadInv
<1> QED BY <1>5, <1>6, <1>10 DEF Read

\* when the connection ends,
LEMMA HangupReads ==
    ASSUME Read, Hangup, sent' = sent, served' = served
    PROVE  Read'
<1>1. open' = FALSE /\ wire' = <<>> /\ input' = <<>> /\ request' = NoRequest /\ response' = NoResponse
    BY DEF Hangup
<1>2. request'.status # "abort"
    BY <1>1, NothingThere
<1>3. Attached'
    BY <1>1 DEF Attached
<1>5. open' \in BOOLEAN /\ wire' \in Seq(Signs) /\ input' \in Seq(Signs)
    <2>1. <<>> \in Seq(Signs)
        OBVIOUS
    <2> QED BY <1>1, <2>1, Zenon
<1>6. ReadTypeOK'
    BY <1>1, <1>5 DEF Read, ReadTypeOK
<1>4. ReadInv'
    BY <1>1, <1>2 DEF ReadInv
<1> QED BY <1>3, <1>4, <1>6 DEF Read

\* after an answer,
LEMMA FinishReads ==
    ASSUME Read, Finish
    PROVE  Read'
<1>1. response # NoResponse /\ sent' = sent /\ served' = served
    BY DEF Finish, pastVars
<1>2. CASE MustClose
    <2>1. Hangup
        BY <1>2 DEF Finish
    <2> QED BY <1>1, <2>1, HangupReads
<1>3. CASE ~MustClose
    <2>1. /\ open' = open /\ wire' = wire /\ input' = input
          /\ request' = NoRequest /\ response' = NoResponse
        BY <1>3 DEF Finish
    <2>2. Current' = Current
        BY <1>1 DEF Current
    <2>3. request.status # "abort" /\ request'.status # "abort" /\ open
        BY <1>1, <2>1, NothingThere DEF Read, Attached
    <2>4. PICK o \in Nat : Follows(Coming(input, wire), sent, Current, o) /\ Along(o)
        BY <2>3 DEF Read, ReadInv, Following
    <2>5. o = 0
        BY <2>4, <1>1 DEF Along
    <2>6. Along(0)'
        BY <2>1 DEF Along
    <2>7. Follows(Coming(input', wire'), sent', Current', 0)
        BY <1>1, <2>1, <2>2, <2>4, <2>5
    <2>8. Following'
        BY <2>6, <2>7 DEF Following
    <2>9. ReadTypeOK' /\ Attached'
        BY <1>1, <2>1, <2>3 DEF Read, ReadTypeOK, Attached
    <2>10. ReadInv'
        BY <2>3, <2>8 DEF ReadInv
    <2> QED BY <2>9, <2>10 DEF Read
<1> QED BY <1>2, <1>3

\* and whenever the other side acts.
LEMMA SameReads ==
    ASSUME Read, UNCHANGED connVars, sent' = sent, served' = served
    PROVE  Read'
<1>1. open' = open /\ wire' = wire /\ input' = input /\ request' = request /\ response' = response
    BY DEF connVars
<1>2. Current' = Current
    BY DEF Current
<1>3. ReadTypeOK' /\ Attached'
    BY <1>1 DEF Read, ReadTypeOK, Attached
<1>4. Following => Following'
    BY <1>1, <1>2 DEF Following, Along
<1>5. ASSUME request.status = "abort" PROVE (Current <= Len(sent) /\ Refused(sent[Current]))'
    <2>1. Current <= Len(sent) /\ Refused(sent[Current])
        BY <1>5 DEF Read, ReadInv
    <2>2. Current' <= Len(sent') /\ Refused(sent'[Current'])
        BY <2>1, <1>2
    <2> QED BY <2>2 DEF Refused
<1>6. ReadInv'
    BY <1>1, <1>4, <1>5 DEF Read, ReadInv
<1> QED BY <1>3, <1>6 DEF Read

\* Writing leaves a response.
LEMMA WriteResponds ==
    ASSUME NEW a \in Response, NEW size \in Nat, NEW lastPart \in BOOLEAN, Write(a, size, lastPart)
    PROVE  response' \in Response
<1>1. response' = [Started(a, size, lastPart) EXCEPT !.sentLastPart = lastPart]
    BY DEF Write
<1> QED BY <1>1, StartedIs

\* Every step keeps Read.
LEMMA StepReads == Read /\ [HttpNext]_httpVars => Read'
<1> SUFFICES ASSUME Read, [HttpNext]_httpVars PROVE Read'
    OBVIOUS
<1>1. ASSUME NEW s \in Shapes, ClientSend(s) PROVE Read'
    BY <1>1, SentReads
<1>2. CASE Deliver
    BY <1>2, DeliveredReads
<1>3. CASE ReadFromSocket
    BY <1>3, SocketReads
<1>4. CASE Abort
    <2>1. Hangup /\ sent' = sent /\ served' = served
        BY <1>4 DEF Abort
    <2> QED BY <2>1, HangupReads
<1>5. ASSUME NEW plan \in Plans, Dispatch(plan) PROVE Read'
    BY <1>5, DispatchReads
<1>6. CASE AppWrite
    <2>1. /\ response # NoResponse /\ response.plan.parts # <<>>
          /\ Write(Popped(response), response.plan.parts[1],
                   response.plan.last /\ Len(response.plan.parts) = 1)
          /\ UNCHANGED <<open, wire, input, request, sent, served>>
        BY <1>6 DEF AppWrite, Popped
    <2>2. response \in Response
        BY <2>1, ResponseIs
    <2>3. response' \in Response
        BY <2>1, <2>2, PoppedIs, WriteResponds
    <2> QED BY <2>1, <2>2, <2>3, ServingReads
<1>7. CASE AppThrow
    <2>1. /\ response # NoResponse
          /\ response' = [response EXCEPT !.plan.parts = <<>>]
          /\ UNCHANGED <<open, wire, input, request, sent, served>>
        BY <1>7 DEF AppThrow, pastVars
    <2>2. response \in Response
        BY <2>1, ResponseIs
    <2>3. response' \in Response
        BY <2>1, <2>2, ThrownIs
    <2> QED BY <2>1, <2>2, <2>3, ServingReads
<1>8. CASE Finalize
    <2>1. /\ response # NoResponse /\ Write(response, 0, TRUE)
          /\ UNCHANGED <<open, wire, input, request, sent, served>>
        BY <1>8 DEF Finalize
    <2>2. response \in Response
        BY <2>1, ResponseIs
    <2>3. response' \in Response
        BY <2>1, <2>2, WriteResponds
    <2> QED BY <2>1, <2>2, <2>3, ServingReads
<1>9. CASE Finish
    BY <1>9, FinishReads
<1>10. CASE RequestTimeout
    <2>1. Hangup /\ sent' = sent /\ served' = served
        BY <1>10 DEF RequestTimeout, pastVars
    <2> QED BY <2>1, HangupReads
<1>11. CASE ClientRead
    <2>1. UNCHANGED connVars /\ sent' = sent /\ served' = served
        BY <1>11 DEF ClientRead
    <2> QED BY <2>1, SameReads
<1>12. CASE ClientEnd
    <2>1. UNCHANGED connVars /\ sent' = sent /\ served' = served
        BY <1>12 DEF ClientEnd
    <2> QED BY <2>1, SameReads
<1>13. CASE Reconnect
    BY <1>13, ReconnectReads
<1>14. CASE UNCHANGED httpVars
    <2>1. UNCHANGED connVars /\ sent' = sent /\ served' = served
        BY <1>14 DEF httpVars, connVars
    <2> QED BY <2>1, SameReads
<1> QED BY <1>1, <1>2, <1>3, <1>4, <1>5, <1>6, <1>7, <1>8, <1>9, <1>10, <1>11, <1>12, <1>13, <1>14
        DEF HttpNext, ConnectionStep

\* What HttpConnectionHandler and HttpRequest read of the stream: the request that
\* is read is always the next one the client has sent, its lines and its body are
\* cut where the client ended them, and what is left over begins the one after it.
THEOREM RequestsAreReadWhole == HttpSpec => []Read
    BY InitReads, StepReads, PTL DEF HttpSpec

\* A request is refused (httprequest.cpp:24-314) only when it is not one or when it
\* is too large as it is counted, for every limit, request and cutting of the text.
THEOREM OnlyTooLargeIsRefused == HttpSpec => []RefusedIsTooLarge
<1>1. Read => RefusedIsTooLarge
    BY DEF Read, ReadInv, RefusedIsTooLarge, Refused, Current
<1> QED BY <1>1, RequestsAreReadWhole, PTL

-----------------------------------------------------------------------------
(* Reading what is written.                                                *)

\* The numbers of bodies, and that of the refusal.
Ids == Int \cup {"413"}

\* What is there of an answer, and a text of n symbols after it.
Got(w, id, n) == w \o Data(id, n)

\* The text of a body, as the server writes it.
LEMMA DatumIs ==
    ASSUME NEW id \in Ids, NEW n \in Nat
    PROVE  /\ Symbol("data", id) \in Datum /\ Symbol("data", id) \in OutSigns /\ Symbol("data", id).k = "data"
           /\ Data(id, n) \in Seq(Datum) /\ Data(id, n) \in Seq(OutSigns) /\ Len(Data(id, n)) = n
           /\ \A i \in 1..n : Data(id, n)[i] = Symbol("data", id)
<1> DEFINE d == Symbol("data", id)
<1>1. d \in Datum /\ d \in OutSigns /\ d.k = "data"
    BY DEF Symbol, Datum, OutSigns, Ids
<1> HIDE DEF d
<1>2. Data(id, n) = [i \in 1..n |-> d]
    BY DEF Data, d
<1>3. /\ [i \in 1..n |-> d] \in Seq(Datum) /\ [i \in 1..n |-> d] \in Seq(OutSigns)
      /\ Len([i \in 1..n |-> d]) = n /\ \A i \in 1..n : [j \in 1..n |-> d][i] = d
    BY <1>1, Same, Zenon
<1> QED BY <1>1, <1>2, <1>3, Zenon DEF d

\* A client that has got w gets n pieces more.
LEMMA GotIs ==
    ASSUME NEW w \in Seq(Datum), NEW id \in Ids, NEW n \in Nat
    PROVE  /\ Grows(Datum, Got(w, id, n), w, Len(w), Data(id, n), n)
           /\ Got(w, id, n) \in Seq(Datum) /\ Len(w) \in Nat /\ Len(Got(w, id, n)) = Len(w) + n
           /\ n = 0 => Got(w, id, n) = w
<1> DEFINE d == Data(id, n)
           a == Len(w)
           g == w \o d
<1>1. d \in Seq(Datum) /\ Len(d) = n /\ a \in Nat
    BY DatumIs
<1> HIDE DEF d
<1>2. Grows(Datum, g, w, a, d, n)
    BY <1>1, Grown, Zenon
<1>3. g = Got(w, id, n)
    BY DEF Got, d
<1> HIDE DEF g, a
<1>4. g \in Seq(Datum) /\ Len(g) = a + n
    BY <1>2 DEF Grows
<1>5. ASSUME n = 0 PROVE g = w
    <2>1. Len(g) = Len(w) /\ \A i \in 1..Len(g) : g[i] = w[i]
        BY <1>1, <1>2, <1>4, <1>5 DEF Grows, a
    <2> QED BY <2>1, <1>4, SeqEqual
<1> QED BY <1>1, <1>2, <1>3, <1>4, <1>5, Zenon DEF d, a

\* One piece more.
LEMMA GotMore ==
    ASSUME NEW w \in Seq(Datum), NEW id \in Ids, NEW n \in Nat
    PROVE  Append(Got(w, id, n), Symbol("data", id)) = Got(w, id, n + 1)
<1> DEFINE d == Symbol("data", id)
           g == Got(w, id, n)
           h == Got(w, id, n + 1)
           x == Append(g, d)
           a == Len(w)
<1>0. n + 1 \in Nat /\ d \in Datum
    BY DatumIs
<1>1. /\ Grows(Datum, g, w, a, Data(id, n), n) /\ g \in Seq(Datum) /\ a \in Nat /\ Len(g) = a + n
      /\ \A i \in 1..n : Data(id, n)[i] = d
    BY GotIs, DatumIs
<1>2. /\ Grows(Datum, h, w, a, Data(id, n + 1), n + 1) /\ h \in Seq(Datum) /\ Len(h) = a + (n + 1)
      /\ \A i \in 1..(n + 1) : Data(id, n + 1)[i] = d
    BY <1>0, GotIs, DatumIs
<1> HIDE DEF g, h, a, d
<1>3. /\ x \in Seq(Datum) /\ Len(x) = (a + n) + 1 /\ x[(a + n) + 1] = d
      /\ \A i \in 1..(a + n) : x[i] = g[i]
    BY <1>0, <1>1
<1> HIDE DEF x
<1>4. ASSUME NEW i \in 1..((a + n) + 1) PROVE x[i] = h[i]
    <2>1. CASE i \in 1..a
        <3>1. i \in 1..(a + n)
            BY <2>1, <1>1
        <3> QED BY <2>1, <3>1, <1>1, <1>2, <1>3, Zenon DEF Grows
    <2>2. CASE i \notin 1..a /\ i # (a + n) + 1
        <3>1. i - a \in 1..n /\ i - a \in 1..(n + 1) /\ i = a + (i - a) /\ i \in 1..(a + n)
            BY <2>2, <1>1
        <3>2. g[i] = d /\ h[i] = d
            BY <3>1, <1>1, <1>2, Zenon DEF Grows
        <3> QED BY <3>1, <3>2, <1>3
    <2>3. CASE i = (a + n) + 1
        <3>1. n + 1 \in 1..(n + 1) /\ i = a + (n + 1)
            BY <2>3, <1>1
        <3>2. h[i] = d
            BY <3>1, <1>2, Zenon DEF Grows
        <3> QED BY <2>3, <3>2, <1>3
    <2> QED BY <2>1, <2>2, <2>3
<1>5. x = h
    <2>1. Len(x) = Len(h) /\ \A i \in 1..Len(x) : x[i] = h[i]
        BY <1>1, <1>2, <1>3, <1>4
    <2> QED BY <2>1, <1>2, <1>3, SeqEqual
<1> QED BY <1>5 DEF x, g, h, d

\* A client that reads a body reads a piece of it,
LEMMA DataNext ==
    ASSUME NEW c \in Clients, NEW s, s.k = "data", c.mode \in {"body", "chunk", "close"},
           c.mode # "close" => c.left # 1
    PROVE  ClientNext(c, s) = [mode |-> c.mode, left |-> c.left - 1, got |-> Append(c.got, s)]
<1>1. CASE c.mode = "body"
    BY <1>1 DEF ClientNext, More, Clients
<1>2. CASE c.mode = "chunk"
    BY <1>2 DEF ClientNext, More, Clients
<1>3. CASE c.mode = "close"
    BY <1>3 DEF ClientNext, More, Clients
<1> QED BY <1>1, <1>2, <1>3

\* The client takes the data that does not yet end an answer or a chunk.
LEMMA DataLeads ==
    ASSUME NEW m \in {"body", "chunk", "close"}, NEW l \in Int, NEW w \in Seq(Datum), NEW n \in Nat,
           NEW id \in Ids, NEW size \in Nat, m # "close" => size < l, NEW told
    PROVE  Leads([c |-> [mode |-> m, left |-> l, got |-> w], n |-> n], Data(id, size),
                 [c |-> [mode |-> m, left |-> l - size, got |-> Got(w, id, size)], n |-> n], told)
<1> DEFINE step(i) == [c |-> [mode |-> m, left |-> l - i, got |-> Got(w, id, i)], n |-> n]
           text == Data(id, size)
           d == Symbol("data", id)
           run == [i \in 0..size |-> step(i)]
<1>1. /\ d \in Datum /\ d.k = "data" /\ text \in Seq(OutSigns) /\ Len(text) = size
      /\ \A i \in 1..size : text[i] = d
    BY DatumIs
<1>2. \A i \in Nat : Got(w, id, i) \in Seq(Datum)
    BY GotIs
<1>3. ASSUME NEW i \in 0..size PROVE step(i).c \in Clients
    <2>1. Got(w, id, i) \in Seq(Datum) /\ l - i \in Int
        BY <1>2
    <2> QED BY <2>1 DEF Clients
<1>4. \A i \in 0..size : step(i) \in Readers /\ step(i).n = n
    BY <1>3 DEF Readers
<1>5. Got(w, id, 0) = w /\ l - 0 = l
    BY GotIs
<1>6. step(0) = [c |-> [mode |-> m, left |-> l, got |-> w], n |-> n]
    BY <1>5
<1> HIDE DEF d, text
<1>7. ASSUME NEW i \in 1..size
      PROVE  Understands(step(i - 1), d, told) /\ step(i) = After(step(i - 1), d)
    <2> DEFINE p == step(i - 1)
               c == p.c
    <2>1. i - 1 \in 0..size /\ i - 1 \in Nat /\ (i - 1) + 1 = i
        OBVIOUS
    <2>2. c \in Clients /\ c.mode = m /\ c.left = l - (i - 1) /\ c.got = Got(w, id, i - 1) /\ p.n = n
        BY <2>1, <1>3
    <2>3. Append(c.got, d) = Got(w, id, i)
        <3>1. Append(Got(w, id, i - 1), d) = Got(w, id, (i - 1) + 1)
            BY <2>1, GotMore DEF d
        <3> QED BY <2>1, <2>2, <3>1
    <2>4. m # "close" => c.left # 1
        BY <2>2
    <2>5. c.left - 1 = l - i
        BY <2>2
    <2> HIDE DEF c, p
    <2>6. ClientNext(c, d) = [mode |-> m, left |-> l - i, got |-> Got(w, id, i)]
        <3>1. ClientNext(c, d) = [mode |-> c.mode, left |-> c.left - 1, got |-> Append(c.got, d)]
            BY <2>2, <2>4, <1>1, DataNext
        <3> QED BY <3>1, <2>2, <2>3, <2>5
    <2>7. ClientNext(c, d).mode # "done" /\ ClientNext(c, d).mode # "error"
        BY <2>6
    <2>8. Understands(p, d, told) /\ After(p, d) = [c |-> ClientNext(c, d), n |-> n]
        BY <2>2, <2>7 DEF Understands, After, c
    <2> QED BY <2>6, <2>8 DEF p
<1> HIDE DEF step
<1>8. run \in [0..size -> Readers] /\ \A i \in 0..size : run[i] = step(i)
    BY <1>4
<1> HIDE DEF run
<1>9. Run(run, step(0), text, step(size), told)
    <2>1. run[0] = step(0) /\ run[size] = step(size)
        BY <1>8
    <2>2. \A i \in 0..size : run[i].n <= step(size).n
        BY <1>4, <1>8
    <2>3. ASSUME NEW i \in 1..size
          PROVE  Understands(run[i - 1], text[i], told) /\ run[i] = After(run[i - 1], text[i])
        <3>1. i - 1 \in 0..size /\ i \in 0..size
            OBVIOUS
        <3> QED BY <3>1, <1>1, <1>7, <1>8
    <2> QED BY <2>1, <2>2, <2>3, <1>1 DEF Run
<1>10. Leads(step(0), text, step(size), told)
    BY <1>1, <1>8, <1>9 DEF Leads
<1> QED BY <1>6, <1>10 DEF step, text

\* or the last piece of it or of a chunk.
LEMMA DataLast ==
    ASSUME NEW c \in Clients, NEW s, s.k = "data", c.mode \in {"body", "chunk"}, c.left = 1
    PROVE  /\ ClientNext(c, s).mode = IF c.mode = "body" THEN "done" ELSE "chunks"
           /\ ClientNext(c, s).got = Append(c.got, s)
           /\ ClientNext(c, s) = [mode |-> ClientNext(c, s).mode, left |-> 0, got |-> Append(c.got, s)]
<1>1. CASE c.mode = "body"
    <2>1. ClientNext(c, s) = [mode |-> IF c.left = 1 THEN "done" ELSE "body",
                              left |-> c.left - 1, got |-> Append(c.got, s)]
        BY <1>1, ClientNextIs, Zenon
    <2> QED BY <2>1, <1>1
<1>2. CASE c.mode = "chunk"
    <2>1. ClientNext(c, s) = [mode |-> IF c.left = 1 THEN "chunks" ELSE "chunk",
                              left |-> c.left - 1, got |-> Append(c.got, s)]
        BY <1>2, ClientNextIs, Zenon
    <2> QED BY <2>1, <1>2
<1> QED BY <1>1, <1>2

\* The client takes the data that ends an answer or a chunk.
LEMMA DataEnds ==
    ASSUME NEW m \in {"body", "chunk"}, NEW w \in Seq(Datum), NEW n \in Nat,
           NEW id \in Ids, NEW size \in Nat, size >= 1, NEW told,
           m = "body" => n + 1 <= Len(told) /\ Got(w, id, size) = told[n + 1]
    PROVE  Leads([c |-> [mode |-> m, left |-> size, got |-> w], n |-> n], Data(id, size),
                 IF m = "body" THEN [c |-> NewClient, n |-> n + 1]
                 ELSE [c |-> [mode |-> "chunks", left |-> 0, got |-> Got(w, id, size)], n |-> n], told)
<1> DEFINE q == [c |-> [mode |-> m, left |-> size, got |-> w], n |-> n]
           p == [c |-> [mode |-> m, left |-> size - (size - 1), got |-> Got(w, id, size - 1)], n |-> n]
           z == IF m = "body" THEN [c |-> NewClient, n |-> n + 1]
                ELSE [c |-> [mode |-> "chunks", left |-> 0, got |-> Got(w, id, size)], n |-> n]
           d == Symbol("data", id)
           text == Data(id, size - 1)
           long == Data(id, size)
           more == <<d>>
           g == Got(w, id, size)
<1>1. size - 1 \in Nat /\ size \in Int /\ size - 1 < size /\ (size - 1) + 1 = size /\ size - (size - 1) = 1
    OBVIOUS
<1>2. Leads(q, text, p, told)
    BY <1>1, DataLeads
<1>3. /\ d \in OutSigns /\ d.k = "data"
      /\ text \in Seq(OutSigns) /\ Len(text) = size - 1 /\ \A i \in 1..(size - 1) : text[i] = d
      /\ long \in Seq(OutSigns) /\ Len(long) = size /\ \A i \in 1..size : long[i] = d
    BY <1>1, DatumIs
<1>4. g \in Seq(Datum) /\ Got(w, id, size - 1) \in Seq(Datum) /\ Append(Got(w, id, size - 1), d) = g
    <2>1. \A e \in Nat : Got(w, id, e) \in Seq(Datum) /\ Append(Got(w, id, e), d) = Got(w, id, e + 1)
        BY GotIs, GotMore
    <2> QED BY <2>1, <1>1
<1>5. p.n = n /\ p.c.mode = m /\ p.c.left = 1 /\ p.c.got = Got(w, id, size - 1) /\ p.c \in Clients
    BY <1>1, <1>4 DEF Clients
<1> HIDE DEF d, text, long, g, p
<1>6. more \in Seq(OutSigns) /\ Len(more) = 1 /\ more[1] = d
    BY <1>3
<1> HIDE DEF more
<1>7. Grows(OutSigns, long, text, Len(text), more, Len(more))
    <2>1. \A i \in 1..(size - 1) : long[i] = text[i]
        BY <1>3
    <2>2. \A i \in 1..1 : long[(size - 1) + i] = more[i]
        BY <1>3, <1>6
    <2>3. Len(long) = (size - 1) + 1
        BY <1>1, <1>3
    <2> QED BY <2>1, <2>2, <2>3, <1>3, <1>6, Zenon DEF Grows
<1>8. p \in Readers
    BY <1>5, <1>1 DEF Readers, p
<1>9. Understands(p, d, told) /\ After(p, d) = z
    <2>1. CASE m = "body"
        <3>1. ClientNext(p.c, d) = [mode |-> "done", left |-> 0, got |-> g]
            <4>1. p.c \in Clients /\ d.k = "data" /\ p.c.mode \in {"body", "chunk"} /\ p.c.left = 1 /\ p.c.mode = "body"
                BY <2>1, <1>3, <1>5
            <4>2. Append(p.c.got, d) = g
                BY <1>4, <1>5
            <4>3. /\ ClientNext(p.c, d).mode = IF p.c.mode = "body" THEN "done" ELSE "chunks"
                  /\ ClientNext(p.c, d) = [mode |-> ClientNext(p.c, d).mode, left |-> 0, got |-> Append(p.c.got, d)]
                BY <4>1, DataLast, Zenon
            <4> QED BY <4>1, <4>2, <4>3
        <3>2. g = told[n + 1] /\ n + 1 <= Len(told)
            BY <2>1 DEF g
        <3> QED BY <2>1, <3>1, <3>2, <1>5 DEF Understands, After
    <2>2. CASE m = "chunk"
        <3>1. ClientNext(p.c, d) = [mode |-> "chunks", left |-> 0, got |-> g]
            BY <2>2, <1>3, <1>4, <1>5, DataLast
        <3> QED BY <2>2, <3>1, <1>5 DEF Understands, After, g
    <2> QED BY <2>1, <2>2
<1>10. z \in Readers
    <2>1. n + 1 \in Nat /\ [mode |-> "chunks", left |-> 0, got |-> g] \in Clients
        BY <1>4 DEF Clients
    <2> QED BY <2>1, NewClientReads DEF Readers, g
<1> HIDE DEF z, q
<1>11. Leads(p, more, z, told)
    BY <1>3, <1>8, <1>9, <1>10, OneLeads DEF more
<1>12. Leads(q, long, z, told)
    BY <1>2, <1>7, <1>11, LeadsOn
<1> QED BY <1>12 DEF q, long, z

-----------------------------------------------------------------------------
(* What is written.                                                        *)

\* No parts add up to nothing.
LEMMA AddsUpNone ==
    ASSUME NEW t \in Nat
    PROVE  AddsUp(<<>>, t) <=> t = 0
<1>1. Len(<<>>) = 0
    OBVIOUS
<1>2. ASSUME AddsUp(<<>>, t) PROVE t = 0
    BY <1>1, <1>2 DEF AddsUp
<1>3. ASSUME t = 0 PROVE AddsUp(<<>>, t)
    <2> DEFINE ends == [i \in 0..0 |-> 0]
    <2>1. ends \in [0..Len(<<>>) -> 0..t] /\ ends[0] = 0 /\ ends[Len(<<>>)] = t
        BY <1>1, <1>3
    <2>2. \A i \in DOMAIN <<>> : ends[i] = ends[i - 1] + <<>>[i]
        OBVIOUS
    <2> HIDE DEF ends
    <2> QED BY <2>1, <2>2 DEF AddsUp
<1> QED BY <1>2, <1>3

\* Without its first part the rest adds up to what is left.
LEMMA AddsUpNext ==
    ASSUME NEW parts \in Seq(Nat), parts # <<>>, NEW t \in Nat, AddsUp(parts, t)
    PROVE  parts[1] <= t /\ AddsUp(Tail(parts), t - parts[1])
<1> DEFINE n == Len(parts)
           p == parts[1]
           rest == Tail(parts)
<1>1. n \in Nat /\ n >= 1 /\ p \in Nat /\ \A i \in 1..n : parts[i] \in Nat
    OBVIOUS
<1>2. DOMAIN parts = 1..n
    OBVIOUS
<1>3. PICK ends \in [0..n -> 0..t] :
          ends[0] = 0 /\ ends[n] = t /\ \A i \in 1..n : ends[i] = ends[i - 1] + parts[i]
    BY <1>2 DEF AddsUp
<1>4. /\ rest \in Seq(Nat) /\ Len(rest) = n - 1
      /\ \A i \in 1..(n - 1) : rest[i] = parts[i + 1]
      /\ DOMAIN rest = 1..(n - 1)
    BY <1>1, HeadTailProperties
<1> HIDE DEF n, rest
<1>5. ends[1] = p /\ \A i \in 0..n : ends[i] \in 0..t
    BY <1>1, <1>3
<1>6. p <= t
    BY <1>1, <1>5
<1>7. \A i \in 1..n : p <= ends[i]
    <2> DEFINE S == {i \in 1..n : ends[i] < p}
    <2>1. SUFFICES ASSUME S # {} PROVE FALSE
        BY <1>1, <1>5, SMTT(20)
    <2>2. S \subseteq Nat
        OBVIOUS
    <2>3. PICK m \in S : \A x \in S : m <= x
        <3> HIDE DEF S
        <3> QED BY <2>1, <2>2, LeastIs
    <2>4. m \in 1..n /\ ends[m] < p /\ m # 1
        BY <1>1, <1>5
    <2>5. m - 1 \in 1..n /\ m - 1 \notin S
        BY <2>3, <2>4, <1>1
    <2>6. p <= ends[m - 1]
        BY <2>5, <1>1, <1>5
    <2>7. ends[m] = ends[m - 1] + parts[m] /\ parts[m] \in Nat
        BY <2>4, <1>1, <1>3
    <2> QED BY <2>4, <2>5, <2>6, <2>7, <1>1, <1>5
<1> HIDE DEF p
<1> DEFINE fs == [i \in 0..(n - 1) |-> ends[i + 1] - p]
<1>8. ASSUME NEW i \in 0..(n - 1) PROVE fs[i] = ends[i + 1] - p /\ fs[i] \in 0..(t - p)
    <2>1. i + 1 \in 1..n /\ i + 1 \in 0..n
        BY <1>1
    <2>2. p <= ends[i + 1] /\ ends[i + 1] \in 0..t
        BY <2>1, <1>5, <1>7
    <2> QED BY <2>2, <1>1
<1>9. fs \in [0..(n - 1) -> 0..(t - p)]
    BY <1>8
<1> HIDE DEF fs
<1>10. fs[0] = 0 /\ fs[n - 1] = t - p
    <2>1. 0 \in 0..(n - 1) /\ n - 1 \in 0..(n - 1) /\ 0 + 1 = 1 /\ (n - 1) + 1 = n
        BY <1>1
    <2>2. fs[0] = ends[1] - p /\ fs[n - 1] = ends[n] - p
        BY <2>1, <1>8
    <2> QED BY <2>2, <1>1, <1>3, <1>5
<1>11. ASSUME NEW i \in 1..(n - 1) PROVE fs[i] = fs[i - 1] + rest[i]
    <2>1. /\ i \in 0..(n - 1) /\ i - 1 \in 0..(n - 1) /\ (i - 1) + 1 = i /\ i + 1 \in 1..n /\ (i + 1) - 1 = i
          /\ i \in 0..n /\ i + 1 \in 0..n
        BY <1>1
    <2>2. fs[i] = ends[i + 1] - p /\ fs[i - 1] = ends[i] - p
        BY <2>1, <1>8
    <2>3. ends[i + 1] = ends[i] + parts[i + 1]
        BY <2>1, <1>3
    <2>4. rest[i] = parts[i + 1] /\ parts[i + 1] \in Nat /\ ends[i] \in Nat
        BY <2>1, <1>1, <1>4, <1>5, SMTT(20)
    <2> QED BY <2>2, <2>3, <2>4, <1>1, SMTT(20)
<1>12. AddsUp(rest, t - p)
    BY <1>4, <1>9, <1>10, <1>11 DEF AddsUp
<1> QED BY <1>6, <1>12 DEF p, rest

\* The client is in the n-th answer, of which it has read w.
Reader(r, mode, w, n) == r.n = n - 1 /\ r.c.mode = mode /\ r.c.got = w

\* The client is behind the n-th answer.
Between(r, n) == r = [c |-> NewClient, n |-> n]

\* The headers are written and lead the client to r, w is written and size more
\* is being written: the answer and its framing still come together.
Ready(a, w, n, r, size) ==
    /\ a.sentHeaders
    /\ a.chunkedMode => IF a.sentLastPart THEN Between(r, n) /\ a.plan.parts = <<>>
                        ELSE Reader(r, "chunks", w, n)
    /\ ~a.chunkedMode /\ a.length >= 0 =>
          /\ Len(w) + size <= a.length
          /\ IF Len(w) = a.length THEN Between(r, n)
             ELSE Reader(r, "body", w, n) /\ r.c.left = a.length - Len(w)
          /\ a.close \/ ~a.plan.throws \/ Len(w) + size = a.length
          /\ AddsUp(a.plan.parts, a.length - (Len(w) + size)) \/ (a.plan.parts = <<>> /\ a.close)
    /\ ~a.chunkedMode /\ a.length < 0 => Reader(r, "close", w, n)

\* Nothing is written yet.
Unsent(a, w, n, r) ==
    /\ ~a.sentHeaders /\ ~a.sentLastPart /\ ~a.chunkedMode
    /\ Between(r, n - 1) /\ w = <<>>
    /\ a.length >= 0 => AddsUp(a.plan.parts, a.length) \/ a.plan.parts = <<>>
    /\ a.length >= 0 /\ a.plan.close = "connection" /\ ~a.close => ~a.plan.throws

\* What has been written of an answer keeps the client where the rest of the answer needs it.
Promised(a, w, n, r) == IF a.sentHeaders THEN Ready(a, w, n, r, 0) ELSE Unsent(a, w, n, r)

\* One symbol more and the client is at r.
LEMMA SymbolLeads ==
    ASSUME NEW c \in Clients, NEW n \in Nat, NEW s \in OutSigns, NEW d, d = ClientNext(c, s), NEW told
    PROVE  /\ d \in Clients => Leads([c |-> c, n |-> n], <<s>>, [c |-> d, n |-> n], told)
           /\ d.mode = "done" /\ n + 1 <= Len(told) /\ d.got = told[n + 1] =>
                 Leads([c |-> c, n |-> n], <<s>>, [c |-> NewClient, n |-> n + 1], told)
<1> DEFINE q == [c |-> c, n |-> n]
<1>1. q.c = c /\ q.n = n /\ q \in Readers
    BY DEF Readers
<1> HIDE DEF q
<1>2. ASSUME d \in Clients PROVE Leads(q, <<s>>, [c |-> d, n |-> n], told)
    <2>1. d.mode # "done" /\ d.mode # "error"
        BY <1>2 DEF Clients
    <2>2. After(q, s) = [c |-> d, n |-> n] /\ Understands(q, s, told)
        BY <2>1, <1>1 DEF After, Understands
    <2>3. [c |-> d, n |-> n] \in Readers
        BY <1>2 DEF Readers
    <2> QED BY <2>2, <2>3, <1>1, OneLeads
<1>3. ASSUME d.mode = "done", n + 1 <= Len(told), d.got = told[n + 1]
      PROVE  Leads(q, <<s>>, [c |-> NewClient, n |-> n + 1], told)
    <2>2. After(q, s) = [c |-> NewClient, n |-> n + 1] /\ Understands(q, s, told)
        BY <1>1, <1>3 DEF After, Understands
    <2>3. [c |-> NewClient, n |-> n + 1] \in Readers
        BY NewClientReads DEF Readers
    <2> QED BY <2>2, <2>3, <1>1, OneLeads
<1> QED BY <1>2, <1>3 DEF q

\* A reader in parts.
LEMMA ReaderIs ==
    ASSUME NEW r \in Readers
    PROVE  /\ r = [c |-> r.c, n |-> r.n] /\ r.c \in Clients /\ r.n \in Nat
           /\ r.c = [mode |-> r.c.mode, left |-> r.c.left, got |-> r.c.got]
           /\ r.c.mode \in {"head", "body", "chunks", "chunk", "close"}
           /\ r.c.left \in Int /\ r.c.got \in Seq(Datum)
<1>1. r = [c |-> r.c, n |-> r.n] /\ r.c \in Clients /\ r.n \in Nat
    BY DEF Readers
<1> DEFINE c == r.c
<1>2. c \in Clients
    BY <1>1
<1> HIDE DEF c
<1>3. /\ c = [mode |-> c.mode, left |-> c.left, got |-> c.got]
      /\ c.mode \in {"head", "body", "chunks", "chunk", "close"}
      /\ c.left \in Int /\ c.got \in Seq(Datum)
    BY <1>2 DEF Clients
<1> QED BY <1>1, <1>3 DEF c

\* The headers, and the signs of chunks.
LEMMA HeadSigns ==
    ASSUME NEW n \in Int, NEW b \in BOOLEAN
    PROVE  /\ Headers(n, b) \in OutSigns
           /\ Headers(n, b).k = "head" /\ Headers(n, b).n = n /\ Headers(n, b).chunked = b
           /\ Symbol("size", n) \in OutSigns /\ Symbol("size", n).k = "size" /\ Symbol("size", n).n = n
           /\ Symbol("end", n) \in OutSigns /\ Symbol("end", n).k = "end"
    BY DEF Headers, Symbol, OutSigns

\* What the headers lead to.
HeadLeft(length, chunked) ==
    [mode |-> IF chunked THEN "chunks" ELSE IF length > 0 THEN "body" ELSE "close", left |-> length, got |-> <<>>]

\* What the headers tell the client.
LEMMA HeadersLead ==
    ASSUME NEW n \in Nat, NEW length \in Int, NEW chunked \in BOOLEAN, NEW told
    PROVE  /\ chunked \/ length # 0 =>
                 /\ HeadLeft(length, chunked) \in Clients
                 /\ Leads([c |-> NewClient, n |-> n], <<Headers(length, chunked)>>,
                          [c |-> HeadLeft(length, chunked), n |-> n], told)
           /\ ~chunked /\ length = 0 /\ n + 1 <= Len(told) /\ <<>> = told[n + 1] =>
                 Leads([c |-> NewClient, n |-> n], <<Headers(length, chunked)>>,
                       [c |-> NewClient, n |-> n + 1], told)
<1> DEFINE h == Headers(length, chunked)
           d == ClientNext(NewClient, h)
<1>1. h \in OutSigns /\ h.k = "head" /\ h.n = length /\ h.chunked = chunked
    BY HeadSigns
<1> HIDE DEF h
<1>2. NewClient \in Clients /\ NewClient = [mode |-> "head", left |-> 0, got |-> <<>>]
    BY NewClientReads DEF NewClient
<1>3. d = [mode |-> IF chunked THEN "chunks" ELSE IF length = 0 THEN "done"
                    ELSE IF length > 0 THEN "body" ELSE "close", left |-> length, got |-> <<>>]
    BY <1>1, <1>2 DEF ClientNext
<1> HIDE DEF d
<1>4. ASSUME chunked \/ length # 0
      PROVE  d = HeadLeft(length, chunked) /\ d \in Clients
    <2>1. d = HeadLeft(length, chunked)
        BY <1>3, <1>4 DEF HeadLeft
    <2>2. <<>> \in Seq(Datum)
        OBVIOUS
    <2> QED BY <2>1, <2>2 DEF HeadLeft, Clients
<1>5. ASSUME ~chunked, length = 0 PROVE d.mode = "done" /\ d.got = <<>>
    BY <1>3, <1>5
<1>6. /\ d \in Clients => Leads([c |-> NewClient, n |-> n], <<h>>, [c |-> d, n |-> n], told)
      /\ d.mode = "done" /\ n + 1 <= Len(told) /\ d.got = told[n + 1] =>
            Leads([c |-> NewClient, n |-> n], <<h>>, [c |-> NewClient, n |-> n + 1], told)
    BY <1>1, <1>2, SymbolLeads DEF d
<1> QED BY <1>4, <1>5, <1>6 DEF h

\* What holds before the first call of write, for the part that it is given.
Opening(a, w, n, r, size, lastPart) ==
    /\ ~a.sentHeaders /\ ~a.sentLastPart /\ ~a.chunkedMode
    /\ Between(r, n - 1) /\ w = <<>>
    /\ lastPart => a.plan.parts = <<>>
    /\ ~lastPart /\ a.length >= 0 => size <= a.length /\ AddsUp(a.plan.parts, a.length - size)
    /\ a.length >= 0 /\ a.plan.close = "connection" /\ ~a.close => ~a.plan.throws

\* The first write decides how the end of the body is told.
LEMMA StartedFields ==
    ASSUME NEW a \in Response, NEW size \in Nat, NEW lastPart \in BOOLEAN, ~a.sentHeaders, ~a.sentLastPart
    PROVE  LET b == Started(a, size, lastPart)
           IN  /\ b.sentHeaders /\ ~b.sentLastPart /\ b.plan = a.plan /\ b.close = a.close
               /\ b.length = (IF lastPart THEN size ELSE a.length) /\ b.length \in Int
               /\ b.chunkedMode = (~lastPart /\ ~a.close /\ a.plan.close # "connection")
               /\ b.chunkedMode \in BOOLEAN
<1>1. CASE lastPart
    BY <1>1 DEF Started, Response
<1>2. CASE ~lastPart
    BY <1>2 DEF Started, Response
<1> QED BY <1>1, <1>2

\* The headers prepare the client for what the plan will write.
LEMMA OpeningLeads ==
    ASSUME NEW a \in Response, NEW w, NEW n \in Nat, n >= 1, NEW r, NEW size \in Nat, NEW lastPart \in BOOLEAN,
           NEW id \in Ids, Opening(a, w, n, r, size, lastPart),
           NEW told, n <= Len(told), told[n] = Got(w, id, size), NEW b, b = Started(a, size, lastPart)
    PROVE  \E z \in Readers : /\ Leads(r, <<Headers(b.length, b.chunkedMode)>>, z, told)
                              /\ Ready(b, w, n, z, size)
<1>1. /\ ~a.sentHeaders /\ ~a.sentLastPart /\ ~a.chunkedMode
      /\ r = [c |-> NewClient, n |-> n - 1] /\ w = <<>>
      /\ lastPart => a.plan.parts = <<>>
      /\ ~lastPart /\ a.length >= 0 => size <= a.length /\ AddsUp(a.plan.parts, a.length - size)
      /\ a.length >= 0 /\ a.plan.close = "connection" /\ ~a.close => ~a.plan.throws
    BY DEF Opening, Between
<1>2. /\ b.sentHeaders /\ ~b.sentLastPart /\ b.plan = a.plan /\ b.close = a.close
      /\ b.length = (IF lastPart THEN size ELSE a.length) /\ b.length \in Int
      /\ b.chunkedMode = (~lastPart /\ ~a.close /\ a.plan.close # "connection")
      /\ b.chunkedMode \in BOOLEAN
    BY <1>1, StartedFields
<1>3. n - 1 \in Nat /\ (n - 1) + 1 = n /\ Len(w) = 0 /\ w \in Seq(Datum)
    BY <1>1
<1> DEFINE h == <<Headers(b.length, b.chunkedMode)>>
           left == HeadLeft(b.length, b.chunkedMode)
           z == [c |-> left, n |-> n - 1]
<1>4. /\ b.chunkedMode \/ b.length # 0 => left \in Clients /\ Leads(r, h, z, told)
      /\ ~b.chunkedMode /\ b.length = 0 /\ n <= Len(told) /\ <<>> = told[n] =>
            Leads(r, h, [c |-> NewClient, n |-> n], told)
    BY <1>1, <1>2, <1>3, HeadersLead
<1>5. b.length >= 0 /\ ~b.chunkedMode =>
          /\ Len(w) + size <= b.length
          /\ b.close \/ ~b.plan.throws \/ Len(w) + size = b.length
          /\ AddsUp(b.plan.parts, b.length - (Len(w) + size))
    <2>1. CASE lastPart
        <3>0. b.length = size /\ b.plan = a.plan /\ a.plan.parts = <<>>
            BY <2>1, <1>1, <1>2, Zenon
        <3>1. b.length - (Len(w) + size) = 0 /\ Len(w) + size = b.length /\ b.plan.parts = <<>>
            BY <3>0, <1>3
        <3>2. AddsUp(<<>>, 0)
            BY AddsUpNone
        <3> QED BY <3>1, <3>2
    <2>2. CASE ~lastPart
        <3>1. Len(w) + size = size
            BY <1>3
        <3>2. b.length = a.length
            BY <2>2, <1>2
        <3> QED BY <2>2, <3>1, <3>2, <1>1, <1>2
    <2> QED BY <2>1, <2>2
<1>6. CASE b.chunkedMode
    <2>1. left = [mode |-> "chunks", left |-> b.length, got |-> <<>>]
        BY <1>6 DEF HeadLeft
    <2>2. z \in Readers
        BY <1>3, <1>4, <1>6 DEF Readers
    <2>3. Reader(z, "chunks", w, n)
        BY <2>1, <1>1 DEF Reader
    <2>4. Ready(b, w, n, z, size)
        BY <2>3, <1>2, <1>6 DEF Ready
    <2> QED BY <2>2, <2>4, <1>4, <1>6
<1>7. CASE ~b.chunkedMode /\ b.length = 0
    <2> DEFINE y == [c |-> NewClient, n |-> n]
    <2>1. size = 0
        BY <1>3, <1>5, <1>7
    <2>2. Got(w, id, size) = <<>>
        BY <2>1, <1>1, <1>3, GotIs
    <2>3. Leads(r, h, y, told)
        BY <2>2, <1>4, <1>7
    <2>4. y \in Readers
        BY NewClientReads DEF Readers
    <2>5. Ready(b, w, n, y, size)
        BY <1>2, <1>3, <1>5, <1>7 DEF Ready, Between
    <2> QED BY <2>3, <2>4, <2>5
<1>8. CASE ~b.chunkedMode /\ b.length # 0
    <2>1. left = [mode |-> IF b.length > 0 THEN "body" ELSE "close", left |-> b.length, got |-> <<>>]
        BY <1>8 DEF HeadLeft
    <2>2. z \in Readers
        BY <1>3, <1>4, <1>8 DEF Readers
    <2>3. CASE b.length > 0
        <3>1. Reader(z, "body", w, n) /\ z.c.left = b.length
            BY <2>1, <2>3, <1>1 DEF Reader
        <3>2. Len(w) # b.length /\ b.length - Len(w) = b.length
            BY <2>3, <1>2, <1>3
        <3>3. Ready(b, w, n, z, size)
            BY <3>1, <3>2, <2>3, <1>2, <1>5, <1>8 DEF Ready
        <3> QED BY <3>3, <2>2, <1>4, <1>8
    <2>4. CASE b.length < 0
        <3>0. ~(b.length > 0)
            BY <2>4, <1>2
        <3>1. Reader(z, "close", w, n)
            BY <2>1, <3>0, <1>1 DEF Reader
        <3>2. Ready(b, w, n, z, size)
            BY <3>1, <2>4, <1>2, <1>8 DEF Ready
        <3> QED BY <3>2, <2>2, <1>4, <1>8
    <2> QED BY <2>3, <2>4, <1>2, <1>8
<1> QED BY <1>2, <1>6, <1>7, <1>8

\* What a write sends besides the part, and what it notes.
SizeSign(b, size) == IF b.chunkedMode /\ size > 0 THEN <<Symbol("size", size)>> ELSE <<>>
EndSign(b, lastPart) == IF b.chunkedMode /\ lastPart THEN <<Symbol("end", 0)>> ELSE <<>>
WroteLast(b, lastPart) == [b EXCEPT !.sentLastPart = lastPart]

\* Noting the last part changes nothing else.
LEMMA WroteLastIs ==
    ASSUME NEW b \in Response, NEW lastPart \in BOOLEAN
    PROVE  /\ WroteLast(b, lastPart).plan = b.plan /\ WroteLast(b, lastPart).close = b.close
           /\ WroteLast(b, lastPart).length = b.length /\ WroteLast(b, lastPart).sentHeaders = b.sentHeaders
           /\ WroteLast(b, lastPart).chunkedMode = b.chunkedMode /\ WroteLast(b, lastPart).sentLastPart = lastPart
           /\ b.length \in Int /\ b.chunkedMode \in BOOLEAN
    BY DEF WroteLast, Response

\* The way of a reader through what one call of write sends after the headers.
Follow(b, r, size, id, lastPart, x, y, z, told) ==
    /\ Leads(r, SizeSign(b, size), x, told)
    /\ Leads(x, Data(id, size), y, told)
    /\ Leads(y, EndSign(b, lastPart), z, told)

\* A chunk starts with its size.
LEMMA ChunkStarts ==
    ASSUME NEW l, NEW w, NEW s, s.k = "size"
    PROVE  ClientNext([mode |-> "chunks", left |-> l, got |-> w], s) = [mode |-> "chunk", left |-> s.n, got |-> w]
    BY DEF ClientNext

\* A write in chunks keeps the client ready,
LEMMA ChunksLead ==
    ASSUME NEW b \in Response, NEW w \in Seq(Datum), NEW n \in Nat, n >= 1, NEW r \in Readers, NEW size \in Nat,
           NEW lastPart \in BOOLEAN, NEW id \in Ids, b.chunkedMode, b.sentHeaders, ~b.sentLastPart,
           Reader(r, "chunks", w, n), lastPart => b.plan.parts = <<>>,
           NEW told, n <= Len(told), told[n] = Got(w, id, size)
    PROVE  \E x, y, z \in Readers : /\ Follow(b, r, size, id, lastPart, x, y, z, told)
                                    /\ Ready(WroteLast(b, lastPart), Got(w, id, size), n, z, 0)
<1> DEFINE g == Got(w, id, size)
           c == [mode |-> "chunks", left |-> 0, got |-> g]
<1>1. /\ r = [c |-> r.c, n |-> n - 1] /\ r.c \in Clients /\ n - 1 \in Nat /\ (n - 1) + 1 = n
      /\ r.c = [mode |-> "chunks", left |-> r.c.left, got |-> w]
    <2>1. r.n = n - 1 /\ r.c.mode = "chunks" /\ r.c.got = w
        BY DEF Reader
    <2>2. /\ r = [c |-> r.c, n |-> r.n] /\ r.c \in Clients
          /\ r.c = [mode |-> r.c.mode, left |-> r.c.left, got |-> r.c.got]
        BY ReaderIs
    <2>3. n - 1 \in Nat /\ (n - 1) + 1 = n
        OBVIOUS
    <2> QED BY <2>1, <2>2, <2>3
<1>2. g \in Seq(Datum) /\ (size = 0 => g = w)
    BY GotIs
<1> HIDE DEF g
<1>3. \E x, y \in Readers : /\ Leads(r, SizeSign(b, size), x, told)
                            /\ Leads(x, Data(id, size), y, told)
                            /\ Reader(y, "chunks", g, n)
    <2>1. CASE size = 0
        <3>1. SizeSign(b, size) = <<>>
            BY <2>1 DEF SizeSign
        <3>2. Data(id, size) = <<>>
            <4>1. Data(id, size) \in Seq(Datum) /\ Len(Data(id, size)) = 0
                BY <2>1, DatumIs
            <4> QED BY <4>1
        <3>3. Leads(r, <<>>, r, told)
            BY NothingLeads
        <3>4. Reader(r, "chunks", g, n)
            BY <2>1, <1>2
        <3> QED BY <3>1, <3>2, <3>3, <3>4
    <2>2. CASE size # 0
        <3> DEFINE s == Symbol("size", size)
                   d == [mode |-> "chunk", left |-> size, got |-> w]
                   x == [c |-> d, n |-> n - 1]
                   y == [c |-> c, n |-> n - 1]
        <3>1. size > 0 /\ size >= 1 /\ size \in Int
            BY <2>2
        <3>2. SizeSign(b, size) = <<s>>
            BY <3>1 DEF SizeSign
        <3>3. s \in OutSigns /\ s.k = "size" /\ s.n = size
            BY <3>1, HeadSigns
        <3> HIDE DEF s
        <3>4. ClientNext(r.c, s) = d
            <4>1. ClientNext([mode |-> "chunks", left |-> r.c.left, got |-> w], s)
                  = [mode |-> "chunk", left |-> s.n, got |-> w]
                BY <3>3, ChunkStarts
            <4> QED BY <4>1, <3>3, <1>1, Zenon
        <3>5. d \in Clients /\ c \in Clients
            BY <3>1, <1>2 DEF Clients
        <3>6. x \in Readers /\ y \in Readers
            BY <3>5, <1>1 DEF Readers
        <3>7. Leads([c |-> r.c, n |-> n - 1], <<s>>, x, told)
            BY <3>3, <3>4, <3>5, <1>1, SymbolLeads
        <3>8. Leads(r, SizeSign(b, size), x, told)
            BY <3>2, <3>7, <1>1
        <3>9. Leads(x, Data(id, size), y, told)
            <4>1. "chunk" \in {"body", "chunk"} /\ "chunk" # "body"
                OBVIOUS
            <4>2. Leads(x, Data(id, size), IF "chunk" = "body" THEN [c |-> NewClient, n |-> (n - 1) + 1]
                     ELSE [c |-> [mode |-> "chunks", left |-> 0, got |-> Got(w, id, size)], n |-> n - 1], told)
                BY <4>1, <3>1, <1>1, DataEnds
            <4> QED BY <4>2 DEF g
        <3>10. Reader(y, "chunks", g, n)
            BY DEF Reader
        <3> QED BY <3>6, <3>8, <3>9, <3>10
    <2> QED BY <2>1, <2>2
<1>4. PICK x \in Readers, y \in Readers : /\ Leads(r, SizeSign(b, size), x, told)
                                          /\ Leads(x, Data(id, size), y, told)
                                          /\ Reader(y, "chunks", g, n)
    BY <1>3
<1>5. /\ WroteLast(b, lastPart).plan = b.plan /\ WroteLast(b, lastPart).sentHeaders
      /\ WroteLast(b, lastPart).chunkedMode /\ WroteLast(b, lastPart).sentLastPart = lastPart
    BY WroteLastIs
<1>6. \E z \in Readers : Leads(y, EndSign(b, lastPart), z, told) /\ Ready(WroteLast(b, lastPart), g, n, z, 0)
    <2>1. CASE ~lastPart
        <3>1. EndSign(b, lastPart) = <<>> /\ Leads(y, <<>>, y, told)
            BY <2>1, NothingLeads DEF EndSign
        <3>2. Ready(WroteLast(b, lastPart), g, n, y, 0)
            BY <2>1, <1>4, <1>5 DEF Ready
        <3> QED BY <3>1, <3>2
    <2>2. CASE lastPart
        <3> DEFINE s == Symbol("end", 0)
                   z == [c |-> NewClient, n |-> n]
                   d == ClientNext(y.c, s)
        <3>1. EndSign(b, lastPart) = <<s>>
            BY <2>2 DEF EndSign
        <3>2. s \in OutSigns /\ s.k = "end"
            BY HeadSigns
        <3> HIDE DEF s
        <3>3. /\ y.c.mode = "chunks" /\ y.c.got = g /\ y.c \in Clients /\ y = [c |-> y.c, n |-> n - 1]
            BY <1>4, ReaderIs DEF Reader
        <3>4. d = [y.c EXCEPT !.mode = "done"]
            BY <3>2, <3>3, ClientNextIs, Zenon
        <3>5. d.mode = "done" /\ d.got = g
            BY <3>3, <3>4 DEF Clients
        <3> HIDE DEF d
        <3>6. (n - 1) + 1 <= Len(told) /\ d.got = told[(n - 1) + 1]
            BY <3>5, <1>1 DEF g
        <3>7. Leads([c |-> y.c, n |-> n - 1], <<s>>, [c |-> NewClient, n |-> (n - 1) + 1], told)
            BY <3>2, <3>3, <3>5, <3>6, <1>1, SymbolLeads DEF d
        <3>8. Leads(y, EndSign(b, lastPart), z, told)
            BY <3>1, <3>3, <3>7, <1>1
        <3>9. z \in Readers
            BY NewClientReads DEF Readers
        <3>10. Ready(WroteLast(b, lastPart), g, n, z, 0)
            BY <2>2, <1>5 DEF Ready, Between
        <3> QED BY <3>8, <3>9, <3>10
    <2> QED BY <2>1, <2>2
<1> QED BY <1>4, <1>6 DEF Follow, g

\* Without chunks, the data only.
LEMMA PlainLeads ==
    ASSUME NEW b \in Response, NEW w \in Seq(Datum), NEW n \in Nat, n >= 1, NEW r \in Readers, NEW size \in Nat,
           NEW lastPart \in BOOLEAN, NEW id \in Ids, ~b.chunkedMode, Ready(b, w, n, r, size),
           NEW told, n <= Len(told), told[n] = Got(w, id, size)
    PROVE  \E y \in Readers : /\ Leads(r, Data(id, size), y, told)
                              /\ Ready(WroteLast(b, lastPart), Got(w, id, size), n, y, 0)
<1> DEFINE g == Got(w, id, size)
           a == WroteLast(b, lastPart)
<1>1. /\ b.sentHeaders
      /\ b.length >= 0 =>
            /\ Len(w) + size <= b.length
            /\ IF Len(w) = b.length THEN Between(r, n)
               ELSE Reader(r, "body", w, n) /\ r.c.left = b.length - Len(w)
            /\ b.close \/ ~b.plan.throws \/ Len(w) + size = b.length
            /\ AddsUp(b.plan.parts, b.length - (Len(w) + size)) \/ (b.plan.parts = <<>> /\ b.close)
      /\ b.length < 0 => Reader(r, "close", w, n)
    BY DEF Ready
<1>2. /\ a.plan = b.plan /\ a.close = b.close /\ a.length = b.length /\ a.sentHeaders /\ ~a.chunkedMode
      /\ b.length \in Int
    BY <1>1, WroteLastIs
<1>3. g \in Seq(Datum) /\ Len(w) \in Nat /\ Len(g) = Len(w) + size /\ (size = 0 => g = w)
    BY GotIs
<1>4. n - 1 \in Nat /\ (n - 1) + 1 = n
    OBVIOUS
<1>5. /\ r = [c |-> [mode |-> r.c.mode, left |-> r.c.left, got |-> r.c.got], n |-> r.n]
      /\ r.c.left \in Int
    BY ReaderIs
<1> HIDE DEF g, a
<1>6. b.length >= 0 =>
          /\ Len(g) + 0 <= b.length /\ Len(g) + 0 = Len(w) + size
          /\ a.close \/ ~a.plan.throws \/ Len(g) + 0 = b.length
          /\ AddsUp(a.plan.parts, b.length - (Len(g) + 0)) \/ (a.plan.parts = <<>> /\ a.close)
    <2>1. Len(g) + 0 = Len(w) + size
        BY <1>3
    <2> QED BY <2>1, <1>1, <1>2
<1>7. CASE b.length >= 0 /\ Len(w) = b.length
    <2>1. size = 0 /\ Between(r, n)
        BY <1>1, <1>2, <1>3, <1>7
    <2>2. Data(id, size) = <<>>
        <3>1. Data(id, size) \in Seq(Datum) /\ Len(Data(id, size)) = 0
            BY <2>1, DatumIs
        <3> QED BY <3>1
    <2>3. Leads(r, Data(id, size), r, told)
        BY <2>2, NothingLeads
    <2>4. Ready(a, g, n, r, 0)
        BY <2>1, <1>2, <1>3, <1>6, <1>7 DEF Ready
    <2> QED BY <2>3, <2>4 DEF a, g
<1>8. CASE b.length >= 0 /\ Len(w) # b.length
    <2>1. Reader(r, "body", w, n) /\ r.c.left = b.length - Len(w) /\ Len(w) + size <= b.length
        BY <1>1, <1>8
    <2> DEFINE l == b.length - Len(w)
    <2>2. l \in Int /\ size <= l /\ l >= 1 /\ (size = l <=> Len(g) = b.length)
        BY <1>2, <1>3, <1>8, <2>1, SMTT(20)
    <2>3. r = [c |-> [mode |-> "body", left |-> l, got |-> w], n |-> n - 1]
        BY <2>1, <1>5 DEF Reader
    <2>7. b.length - Len(g) = l - size
        BY <1>2, <1>3
    <2> HIDE DEF l
    <2>4. CASE size = l
        <3> DEFINE y == [c |-> NewClient, n |-> n]
        <3>1. Leads(r, Data(id, size), IF "body" = "body" THEN [c |-> NewClient, n |-> (n - 1) + 1]
                    ELSE [c |-> [mode |-> "chunks", left |-> 0, got |-> Got(w, id, size)], n |-> n - 1], told)
            <4>1. "body" \in {"body", "chunk"} /\ size >= 1
                BY <2>2, <2>4
            <4>2. (n - 1) + 1 <= Len(told) /\ Got(w, id, size) = told[(n - 1) + 1]
                BY <1>4
            <4> QED BY <4>1, <4>2, <2>3, <2>4, <1>4, DataEnds
        <3>2. Leads(r, Data(id, size), y, told)
            BY <3>1, <1>4
        <3>3. y \in Readers
            BY NewClientReads DEF Readers
        <3>4. Ready(a, g, n, y, 0)
            BY <2>2, <2>4, <1>2, <1>6, <1>8 DEF Ready, Between
        <3> QED BY <3>2, <3>3, <3>4 DEF a, g
    <2>5. CASE size # l
        <3> DEFINE y == [c |-> [mode |-> "body", left |-> l - size, got |-> g], n |-> n - 1]
        <3>1. "body" \in {"body", "chunk", "close"} /\ size < l
            BY <2>2, <2>5
        <3>2. Leads(r, Data(id, size), y, told)
            BY <3>1, <2>2, <2>3, <1>4, DataLeads DEF g
        <3>3. y \in Readers
            BY <3>2, LeadsBounds
        <3>4. Reader(y, "body", g, n) /\ y.c.left = a.length - Len(g)
            BY <2>7, <1>2 DEF Reader
        <3>5. Ready(a, g, n, y, 0)
            BY <3>4, <2>2, <2>5, <1>2, <1>6, <1>8 DEF Ready
        <3> QED BY <3>2, <3>3, <3>5 DEF a, g
    <2> QED BY <2>4, <2>5
<1>9. CASE b.length < 0
    <2> DEFINE y == [c |-> [mode |-> "close", left |-> r.c.left - size, got |-> g], n |-> n - 1]
    <2>1. Reader(r, "close", w, n)
        BY <1>1, <1>9
    <2>2. r = [c |-> [mode |-> "close", left |-> r.c.left, got |-> w], n |-> n - 1]
        BY <2>1, <1>5 DEF Reader
    <2>3. "close" \in {"body", "chunk", "close"} /\ r.c.left \in Int
        BY <1>5
    <2>4. PICK l \in Int : l = r.c.left
        BY <1>5
    <2>5. Leads([c |-> [mode |-> "close", left |-> l, got |-> w], n |-> n - 1], Data(id, size),
                [c |-> [mode |-> "close", left |-> l - size, got |-> g], n |-> n - 1], told)
        BY <2>3, <1>4, DataLeads DEF g
    <2>6. Leads(r, Data(id, size), y, told)
        BY <2>2, <2>4, <2>5
    <2>7. y \in Readers
        BY <2>6, LeadsBounds
    <2>8. Reader(y, "close", g, n)
        BY DEF Reader
    <2>9. Ready(a, g, n, y, 0)
        <3>1. ~(a.length >= 0)
            BY <1>2, <1>9
        <3> QED BY <2>8, <3>1, <1>2 DEF Ready
    <2> QED BY <2>6, <2>7, <2>9 DEF a, g
<1> QED BY <1>2, <1>7, <1>8, <1>9

\* and so does any write.
LEMMA ReadyLeads ==
    ASSUME NEW b \in Response, NEW w \in Seq(Datum), NEW n \in Nat, n >= 1, NEW r \in Readers, NEW size \in Nat,
           NEW lastPart \in BOOLEAN, NEW id \in Ids, Ready(b, w, n, r, size),
           b.chunkedMode => ~b.sentLastPart, lastPart => b.plan.parts = <<>>,
           NEW told, n <= Len(told), told[n] = Got(w, id, size)
    PROVE  \E x, y, z \in Readers : /\ Follow(b, r, size, id, lastPart, x, y, z, told)
                                    /\ Ready(WroteLast(b, lastPart), Got(w, id, size), n, z, 0)
<1>1. CASE b.chunkedMode
    <2>1. b.sentHeaders /\ ~b.sentLastPart /\ Reader(r, "chunks", w, n)
        BY <1>1 DEF Ready
    <2> QED BY <2>1, <1>1, ChunksLead
<1>2. CASE ~b.chunkedMode
    <2>1. PICK y \in Readers : /\ Leads(r, Data(id, size), y, told)
                               /\ Ready(WroteLast(b, lastPart), Got(w, id, size), n, y, 0)
        BY <1>2, PlainLeads
    <2>2. SizeSign(b, size) = <<>> /\ EndSign(b, lastPart) = <<>>
        BY <1>2 DEF SizeSign, EndSign
    <2>3. Leads(r, <<>>, r, told) /\ Leads(y, <<>>, y, told)
        BY NothingLeads
    <2>4. Follow(b, r, size, id, lastPart, r, y, y, told)
        BY <2>1, <2>2, <2>3 DEF Follow
    <2> QED BY <2>1, <2>4
<1> QED BY <1>1, <1>2

\* The headers, when they have not been sent.
HeadSign(a, b) == IF a.sentHeaders THEN <<>> ELSE <<Headers(b.length, b.chunkedMode)>>

\* What holds before a call of write with a part of the given size.
Poised(a, w, n, r, size, lastPart) ==
    IF a.sentHeaders
    THEN /\ Ready(a, w, n, r, size)
         /\ a.chunkedMode => ~a.sentLastPart
         /\ lastPart => a.plan.parts = <<>>
    ELSE Opening(a, w, n, r, size, lastPart)

\* A planned part can be written,
LEMMA PoppedPoised ==
    ASSUME NEW a \in Response, NEW w \in Seq(Datum), NEW n, NEW r, Promised(a, w, n, r), a.plan.parts # <<>>
    PROVE  Poised(Popped(a), w, n, r, a.plan.parts[1], a.plan.last /\ Len(a.plan.parts) = 1)
<1> DEFINE parts == a.plan.parts
           size == parts[1]
           lastPart == a.plan.last /\ Len(parts) = 1
           b == Popped(a)
<1>1. /\ b.plan.parts = Tail(parts) /\ b.plan.close = a.plan.close /\ b.plan.throws = a.plan.throws
      /\ b.close = a.close /\ b.length = a.length /\ b.sentHeaders = a.sentHeaders
      /\ b.sentLastPart = a.sentLastPart /\ b.chunkedMode = a.chunkedMode
      /\ size \in Nat
    BY PoppedIs
<1>2. parts \in Seq(Nat) /\ parts # <<>> /\ a.length \in Nat \cup {-1} /\ a.sentHeaders \in BOOLEAN
      /\ a.chunkedMode \in BOOLEAN /\ a.sentLastPart \in BOOLEAN /\ a.close \in BOOLEAN
    BY DEF Response, Plan
<1>3. lastPart => Tail(parts) = <<>>
    <2>1. ASSUME Len(parts) = 1 PROVE Tail(parts) = <<>>
        <3>1. Tail(parts) \in Seq(Nat) /\ Len(Tail(parts)) = 0
            BY <1>2, <2>1, HeadTailProperties
        <3> HIDE DEF parts
        <3> QED BY <3>1, EmptySeq, Zenon
    <2> QED BY <2>1
<1> HIDE DEF b
<1>4. \A t \in Nat : AddsUp(parts, t) => size <= t /\ AddsUp(Tail(parts), t - size)
    BY <1>2, AddsUpNext
<1>5. Len(w) \in Nat
    OBVIOUS
<1> HIDE DEF parts, size, lastPart
<1>6. CASE a.sentHeaders
    <2>1. /\ a.chunkedMode => IF a.sentLastPart THEN Between(r, n) /\ parts = <<>> ELSE Reader(r, "chunks", w, n)
          /\ ~a.chunkedMode /\ a.length >= 0 =>
                /\ Len(w) + 0 <= a.length
                /\ IF Len(w) = a.length THEN Between(r, n)
                   ELSE Reader(r, "body", w, n) /\ r.c.left = a.length - Len(w)
                /\ a.close \/ ~a.plan.throws \/ Len(w) + 0 = a.length
                /\ AddsUp(parts, a.length - (Len(w) + 0)) \/ (parts = <<>> /\ a.close)
          /\ ~a.chunkedMode /\ a.length < 0 => Reader(r, "close", w, n)
        BY <1>6 DEF Promised, Ready, parts
    <2>2. ASSUME ~a.chunkedMode, a.length >= 0
          PROVE  /\ Len(w) + size <= a.length
                 /\ a.close \/ ~a.plan.throws \/ Len(w) + size = a.length
                 /\ AddsUp(Tail(parts), a.length - (Len(w) + size))
        <3>1. AddsUp(parts, a.length - Len(w)) /\ Len(w) <= a.length
              /\ (a.close \/ ~a.plan.throws \/ Len(w) = a.length)
            <4>1. Len(w) + 0 = Len(w)
                BY <1>5
            <4> QED BY <4>1, <2>1, <2>2, <1>2
        <3>2. a.length - Len(w) \in Nat
            BY <3>1, <1>2, <1>5, <2>2
        <3>3. size <= a.length - Len(w) /\ AddsUp(Tail(parts), (a.length - Len(w)) - size)
            BY <3>1, <3>2, <1>4
        <3>4. (a.length - Len(w)) - size = a.length - (Len(w) + size) /\ Len(w) + size <= a.length
              /\ (Len(w) = a.length => Len(w) + size = a.length)
            BY <3>1, <3>2, <3>3, <1>1, <1>2, <1>5
        <3> QED BY <3>1, <3>3, <3>4
    <2>3. Ready(b, w, n, r, size)
        BY <1>1, <1>2, <1>6, <2>1, <2>2 DEF Ready
    <2>4. b.chunkedMode => ~b.sentLastPart
        BY <1>1, <1>2, <2>1
    <2> QED BY <1>1, <1>3, <1>6, <2>3, <2>4 DEF Poised, b, parts, size, lastPart
<1>7. CASE ~a.sentHeaders
    <2>1. /\ ~a.sentLastPart /\ ~a.chunkedMode /\ Between(r, n - 1) /\ w = <<>>
          /\ a.length >= 0 => AddsUp(parts, a.length)
          /\ a.length >= 0 /\ a.plan.close = "connection" /\ ~a.close => ~a.plan.throws
        BY <1>2, <1>7 DEF Promised, Unsent, parts
    <2>2. a.length >= 0 => size <= a.length /\ AddsUp(Tail(parts), a.length - size)
        BY <2>1, <1>2, <1>4
    <2>3. Opening(b, w, n, r, size, lastPart)
        BY <2>1, <2>2, <1>1, <1>3, <1>7 DEF Opening
    <2> QED BY <2>3, <1>1, <1>7 DEF Poised, b, parts, size, lastPart
<1> QED BY <1>6, <1>7

\* and so can the empty one at the end.
LEMMA FinalPoised ==
    ASSUME NEW a \in Response, NEW w, NEW n, NEW r, Promised(a, w, n, r), a.plan.parts = <<>>, ~a.sentLastPart
    PROVE  Poised(a, w, n, r, 0, TRUE)
<1>1. CASE a.sentHeaders
    BY <1>1 DEF Promised, Poised
<1>2. CASE ~a.sentHeaders
    BY <1>2 DEF Promised, Poised, Unsent, Opening
<1> QED BY <1>1, <1>2

\* Writing a part, from the headers to the last sign.
LEMMA PoisedLeads ==
    ASSUME NEW a \in Response, NEW w \in Seq(Datum), NEW n \in Nat, n >= 1, NEW r \in Readers, NEW size \in Nat,
           NEW lastPart \in BOOLEAN, NEW id \in Ids, Poised(a, w, n, r, size, lastPart),
           NEW told, n <= Len(told), told[n] = Got(w, id, size), NEW b, b = Started(a, size, lastPart)
    PROVE  /\ b \in Response /\ WroteLast(b, lastPart) \in Response
           /\ \E v, x, y, z \in Readers : /\ Leads(r, HeadSign(a, b), v, told)
                                          /\ Follow(b, v, size, id, lastPart, x, y, z, told)
                                          /\ Ready(WroteLast(b, lastPart), Got(w, id, size), n, z, 0)
<1>1. b \in Response /\ WroteLast(b, lastPart) \in Response
    BY StartedIs DEF WroteLast
<1>2. \E v \in Readers : /\ Leads(r, HeadSign(a, b), v, told) /\ Ready(b, w, n, v, size)
                         /\ b.chunkedMode => ~b.sentLastPart
                         /\ lastPart => b.plan.parts = <<>>
    <2>1. CASE a.sentHeaders
        <3>1. b = a /\ HeadSign(a, b) = <<>>
            BY <2>1 DEF Started, HeadSign
        <3>2. Leads(r, <<>>, r, told)
            BY NothingLeads
        <3> QED BY <2>1, <3>1, <3>2 DEF Poised
    <2>2. CASE ~a.sentHeaders
        <3>1. Opening(a, w, n, r, size, lastPart)
            BY <2>2 DEF Poised
        <3>2. ~a.sentLastPart /\ (lastPart => a.plan.parts = <<>>)
            BY <3>1 DEF Opening
        <3>3. ~b.sentLastPart /\ b.plan = a.plan
            BY <2>2, <3>2, StartedFields
        <3>4. HeadSign(a, b) = <<Headers(b.length, b.chunkedMode)>>
            BY <2>2 DEF HeadSign
        <3>5. \E v \in Readers : Leads(r, <<Headers(b.length, b.chunkedMode)>>, v, told) /\ Ready(b, w, n, v, size)
            BY <3>1, OpeningLeads
        <3> QED BY <3>2, <3>3, <3>4, <3>5
    <2> QED BY <2>1, <2>2
<1>3. PICK v \in Readers : /\ Leads(r, HeadSign(a, b), v, told) /\ Ready(b, w, n, v, size)
                           /\ b.chunkedMode => ~b.sentLastPart
                           /\ lastPart => b.plan.parts = <<>>
    BY <1>2
<1>4. PICK x \in Readers, y \in Readers, z \in Readers :
          /\ Follow(b, v, size, id, lastPart, x, y, z, told)
          /\ Ready(WroteLast(b, lastPart), Got(w, id, size), n, z, 0)
    BY <1>1, <1>3, ReadyLeads
<1> QED BY <1>1, <1>3, <1>4

\* What write sends, after what is already there.
Sending(text, h, s, d, e) == text \o h \o s \o d \o e

\* All that a write sends, after what is still to be read.
LEMMA SendingLeads ==
    ASSUME NEW q, NEW r, NEW v, NEW x, NEW y, NEW z, NEW told, NEW text, NEW h, NEW s, NEW d, NEW e,
           Leads(q, text, r, told), Leads(r, h, v, told), Leads(v, s, x, told),
           Leads(x, d, y, told), Leads(y, e, z, told)
    PROVE  Leads(q, Sending(text, h, s, d, e), z, told)
<1> DEFINE t1 == text \o h
           t2 == t1 \o s
           t3 == t2 \o d
           t4 == t3 \o e
<1>1. /\ text \in Seq(OutSigns) /\ h \in Seq(OutSigns) /\ s \in Seq(OutSigns)
      /\ d \in Seq(OutSigns) /\ e \in Seq(OutSigns)
    BY DEF Leads
<1>2. Grows(OutSigns, t1, text, Len(text), h, Len(h))
    BY <1>1, Grown, Zenon
<1>3. t1 \in Seq(OutSigns)
    BY <1>2 DEF Grows
<1>4. Sending(text, h, s, d, e) = t4
    BY DEF Sending
<1> HIDE DEF t1
<1>5. Leads(q, t1, v, told)
    BY <1>2, LeadsOn
<1>6. Grows(OutSigns, t2, t1, Len(t1), s, Len(s))
    BY <1>1, <1>3, Grown, Zenon
<1>7. t2 \in Seq(OutSigns)
    BY <1>6 DEF Grows
<1> HIDE DEF t2
<1>8. Leads(q, t2, x, told)
    BY <1>5, <1>6, LeadsOn
<1>9. Grows(OutSigns, t3, t2, Len(t2), d, Len(d))
    BY <1>1, <1>7, Grown, Zenon
<1>10. t3 \in Seq(OutSigns)
    BY <1>9 DEF Grows
<1> HIDE DEF t3
<1>11. Leads(q, t3, y, told)
    BY <1>8, <1>9, LeadsOn
<1>12. Grows(OutSigns, t4, t3, Len(t3), e, Len(e))
    BY <1>1, <1>10, Grown, Zenon
<1> HIDE DEF t4
<1>13. Leads(q, t4, z, told)
    BY <1>11, <1>12, LeadsOn
<1> QED BY <1>4, <1>13

-----------------------------------------------------------------------------
(* The invariant of answering.                                             *)

\* The answer that is being written.
Written == produced[Len(produced)]

\* The client as a reader of answers.
Here == [c |-> client, n |-> Len(answers)]

\* Where the client will be when it has read all that is written.
Told(r) ==
    /\ r.n <= Len(produced)
    /\ open /\ response = NoResponse => Between(r, Len(produced))
    /\ response # NoResponse => Len(produced) >= 1 /\ Promised(response, Written, Len(produced), r)
    /\ ~open /\ r.c.mode = "close" =>
          Len(produced) >= 1 /\ r.n = Len(produced) - 1 /\ r.c.got = Written

\* The parts the application has yet to write are parts of a plan.
Planned ==
    response # NoResponse =>
        \E p \in Plans : \A j \in 1..Len(response.plan.parts) :
            \E i \in 1..Len(p.parts) : response.plan.parts[j] = p.parts[i]

\* Whatever is still to be read leads the client to all that was written.
Answered ==
    /\ produced \in Seq(Seq(Datum)) /\ answers \in Seq(Seq(Datum))
    /\ open => Len(produced) = Len(served)
    /\ \E r \in Readers : Leads(Here, out, r, produced) /\ Told(r)

\* A sequence of answers, one of them longer.
LEMMA Lengthened ==
    ASSUME NEW S, NEW p \in Seq(S), NEW e \in S
    PROVE  /\ Append(p, e) \in Seq(S) /\ Len(Append(p, e)) = Len(p) + 1 /\ Len(p) \in Nat
           /\ Append(p, e)[Len(p) + 1] = e
           /\ \A i \in 1..Len(p) : Append(p, e)[i] = p[i]
           /\ Len(p) >= 1 =>
                 /\ [p EXCEPT ![Len(p)] = e] \in Seq(S) /\ Len([p EXCEPT ![Len(p)] = e]) = Len(p)
                 /\ [p EXCEPT ![Len(p)] = e][Len(p)] = e
                 /\ \A i \in 1..(Len(p) - 1) : [p EXCEPT ![Len(p)] = e][i] = p[i]
                 /\ p[Len(p)] \in S
                 /\ p[Len(p)] = e => [p EXCEPT ![Len(p)] = e] = p
<1>1. /\ Append(p, e) \in Seq(S) /\ Len(Append(p, e)) = Len(p) + 1 /\ Len(p) \in Nat
      /\ Append(p, e)[Len(p) + 1] = e
      /\ \A i \in 1..Len(p) : Append(p, e)[i] = p[i]
    OBVIOUS
<1>2. ASSUME Len(p) >= 1
      PROVE  /\ [p EXCEPT ![Len(p)] = e] \in Seq(S) /\ Len([p EXCEPT ![Len(p)] = e]) = Len(p)
             /\ [p EXCEPT ![Len(p)] = e][Len(p)] = e
             /\ \A i \in 1..(Len(p) - 1) : [p EXCEPT ![Len(p)] = e][i] = p[i]
             /\ p[Len(p)] \in S
    BY <1>2
<1>3. ASSUME Len(p) >= 1, p[Len(p)] = e PROVE [p EXCEPT ![Len(p)] = e] = p
    <2> DEFINE q == [p EXCEPT ![Len(p)] = e]
    <2>1. q \in Seq(S) /\ Len(q) = Len(p) /\ q[Len(p)] = e /\ \A i \in 1..(Len(p) - 1) : q[i] = p[i]
        BY <1>2, <1>3
    <2> HIDE DEF q
    <2>2. \A i \in 1..Len(q) : q[i] = p[i]
        BY <2>1, <1>1, <1>3
    <2> QED BY <2>1, <2>2, SeqEqual DEF q
<1> QED BY <1>1, <1>2, <1>3

\* What is read or written by others does not matter to the client.
LEMMA SameAnswers ==
    ASSUME Answered, UNCHANGED <<open, response, out, client, produced, answers>>, open => served' = served
    PROVE  Answered'
<1>1. PICK r \in Readers : Leads(Here, out, r, produced) /\ Told(r)
    BY DEF Answered
<1>2. Leads(Here, out, r, produced)'
    BY <1>1 DEF Here
<1>3. Told(r)'
    BY <1>1 DEF Told, Written
<1>4. (produced \in Seq(Seq(Datum)) /\ answers \in Seq(Seq(Datum)) /\ (open => Len(produced) = Len(served)))'
    BY DEF Answered
<1> QED BY <1>2, <1>3, <1>4 DEF Answered

\* Answered survives each step: the connection ends,
LEMMA HungUpAnswers ==
    ASSUME Answered, open, response = NoResponse, Hangup,
           UNCHANGED <<out, client, sent, served, produced, answers>>
    PROVE  Answered'
<1>1. PICK r \in Readers : Leads(Here, out, r, produced) /\ Told(r)
    BY DEF Answered
<1>2. open' = FALSE /\ response' = NoResponse
    BY DEF Hangup
<1>3. Leads(Here', out', r, produced')
    BY <1>1 DEF Here
<1>4. r.n <= Len(produced) /\ r = [c |-> NewClient, n |-> Len(produced)]
    BY <1>1 DEF Told, Between
<1>5. r.c.mode = "head"
    BY <1>4 DEF NewClient
<1>6. Told(r)'
    BY <1>2, <1>4, <1>5 DEF Told
<1>7. (produced \in Seq(Seq(Datum)) /\ answers \in Seq(Seq(Datum)))'
    BY DEF Answered
<1> QED BY <1>2, <1>3, <1>6, <1>7 DEF Answered

\* the handler is done with an answer,
LEMMA FinishAnswers ==
    ASSUME Read, Answered, Finish
    PROVE  Answered'
<1>1. /\ response # NoResponse /\ response.plan.parts = <<>> /\ response.sentLastPart
      /\ out' = out /\ client' = client /\ served' = served /\ produced' = produced /\ answers' = answers
    BY DEF Finish, peerVars, pastVars
<1>2. PICK r \in Readers : Leads(Here, out, r, produced) /\ Told(r)
    BY DEF Answered
<1> DEFINE n == Len(produced)
           w == Written
           a == response
<1>3. a \in Response /\ open /\ a.length \in Int /\ a.chunkedMode \in BOOLEAN
    BY <1>1, ResponseIs DEF Response
<1>4. n \in Nat /\ n >= 1 /\ Promised(a, w, n, r) /\ r.n <= n /\ n = Len(served)
    BY <1>1, <1>2, <1>3 DEF Told, Answered
<1>5. w \in Seq(Datum) /\ Len(w) \in Nat
    BY <1>4 DEF Answered, Written
<1>6. Ready(a, w, n, r, 0)
    BY <1>1, <1>4 DEF Promised, Unsent
<1>7. Leads(Here', out', r, produced')
    BY <1>1, <1>2 DEF Here
<1>8. (produced \in Seq(Seq(Datum)) /\ answers \in Seq(Seq(Datum)) /\ (open => Len(produced) = Len(served)))'
    BY <1>1, <1>4 DEF Answered
<1>9. CASE MustClose
    <2>1. open' = FALSE /\ response' = NoResponse
        BY <1>9 DEF Finish, Hangup
    <2>2. ASSUME r.c.mode = "close" PROVE r.n = n - 1 /\ r.c.got = w
        <3>1. NewClient.mode # "close"
            BY DEF NewClient
        <3> QED BY <2>2, <3>1, <1>3, <1>6 DEF Ready, Between, Reader
    <2>3. Told(r)'
        BY <2>1, <2>2, <1>1, <1>4 DEF Told, Written
    <2> QED BY <2>1, <2>3, <1>7, <1>8 DEF Answered
<1>10. CASE ~MustClose
    <2>1. open' = open /\ response' = NoResponse
        BY <1>10 DEF Finish
    <2>2. ~a.close /\ (a.length >= 0 \/ a.chunkedMode)
        BY <1>3, <1>10 DEF MustClose
    <2>3. Between(r, n)
        <3>1. CASE a.chunkedMode
            BY <3>1, <1>1, <1>6 DEF Ready
        <3>2. CASE ~a.chunkedMode
            <4>1. AddsUp(a.plan.parts, a.length - (Len(w) + 0)) /\ Len(w) + 0 <= a.length
                BY <3>2, <2>2, <1>6 DEF Ready
            <4>2. a.length - (Len(w) + 0) \in Nat
                BY <4>1, <1>3, <1>5
            <4>3. a.length - (Len(w) + 0) = 0
                BY <4>1, <4>2, <1>1, AddsUpNone
            <4>4. Len(w) = a.length
                BY <4>3, <1>3, <1>5
            <4> QED BY <4>4, <3>2, <2>2, <1>6 DEF Ready
        <3> QED BY <3>1, <3>2
    <2>4. Told(r)'
        BY <2>1, <2>3, <1>1, <1>3, <1>4 DEF Told
    <2> QED BY <2>1, <2>4, <1>7, <1>8, <1>3, <1>4, <1>1 DEF Answered
<1> QED BY <1>9, <1>10

\* A text of one more answer does not change what is told of the others.
LEMMA ToldOfMore ==
    ASSUME Answered, NEW e \in Seq(Datum), NEW r, Leads(Here, out, r, produced), r.n <= Len(produced)
    PROVE  /\ Append(produced, e) \in Seq(Seq(Datum)) /\ Len(Append(produced, e)) = Len(produced) + 1
           /\ Append(produced, e)[Len(produced) + 1] = e /\ Len(produced) \in Nat
           /\ Leads(Here, out, r, Append(produced, e))
<1>1. /\ Append(produced, e) \in Seq(Seq(Datum)) /\ Len(Append(produced, e)) = Len(produced) + 1
      /\ Append(produced, e)[Len(produced) + 1] = e /\ Len(produced) \in Nat
      /\ \A i \in 1..Len(produced) : Append(produced, e)[i] = produced[i]
    BY Lengthened DEF Answered
<1> DEFINE more == Append(produced, e)
<1> HIDE DEF more
<1>2. r.n \in Nat
    BY LeadsBounds DEF Readers
<1>3. /\ Len(produced) \in Nat /\ Len(more) \in Nat /\ Len(produced) <= Len(more)
      /\ \A i \in 1..r.n : more[i] = produced[i]
    BY <1>1, <1>2 DEF more
<1>4. Leads(Here, out, r, more)
    BY <1>3, LeadsToldMore
<1> QED BY <1>1, <1>4 DEF more

\* (the answer to a request that is refused)
LEMMA TooLargeLeads ==
    ASSUME NEW n \in Nat, NEW told
    PROVE  /\ TooLarge \in Seq(Datum)
           /\ \E r \in Readers, z \in Readers :
                 /\ Leads([c |-> NewClient, n |-> n], <<Headers(-1, FALSE)>>, r, told)
                 /\ Leads(r, TooLarge, z, told)
                 /\ z.n = n /\ z.c.mode = "close" /\ z.c.got = TooLarge
<1>0. "413" \in Ids /\ 1 \in Nat /\ -1 \in Int /\ -1 # 0 /\ ~(-1 > 0) /\ FALSE \in BOOLEAN
    BY DEF Ids
<1>1. TooLarge \in Seq(Datum)
    BY <1>0, DatumIs DEF TooLarge
<1> DEFINE l == HeadLeft(-1, FALSE)
           r == [c |-> l, n |-> n]
<1>2. l \in Clients /\ Leads([c |-> NewClient, n |-> n], <<Headers(-1, FALSE)>>, r, told)
    BY <1>0, HeadersLead
<1>3. l = [mode |-> "close", left |-> -1, got |-> <<>>]
    BY <1>0 DEF HeadLeft
<1>4. r \in Readers
    BY <1>2 DEF Readers
<1> DEFINE z == [c |-> [mode |-> "close", left |-> -1 - 1, got |-> Got(<<>>, "413", 1)], n |-> n]
<1>5. <<>> \in Seq(Datum) /\ "close" \in {"body", "chunk", "close"}
    OBVIOUS
<1>6. Leads([c |-> [mode |-> "close", left |-> -1, got |-> <<>>], n |-> n], Data("413", 1), z, told)
    BY <1>0, <1>5, DataLeads
<1>7. Leads(r, TooLarge, z, told)
    BY <1>3, <1>6 DEF TooLarge
<1>8. Got(<<>>, "413", 1) = TooLarge
    <2> DEFINE d == Data("413", 1)
    <2>1. d \in Seq(Datum)
        BY <1>1 DEF TooLarge
    <2> HIDE DEF d
    <2>2. <<>> \o d = d
        BY <2>1
    <2> QED BY <2>2 DEF Got, TooLarge, d
<1>9. z \in Readers
    BY <1>6, LeadsBounds
<1> QED BY <1>1, <1>2, <1>4, <1>7, <1>8, <1>9

\* a request is refused,
LEMMA AbortAnswers ==
    ASSUME Read, Answered, Abort
    PROVE  Answered'
<1>1. /\ open /\ request.status = "abort"
      /\ out' = out \o <<Headers(-1, FALSE)>> \o TooLarge
      /\ produced' = Append(produced, TooLarge)
      /\ open' = FALSE /\ response' = NoResponse
      /\ client' = client /\ answers' = answers
    BY DEF Abort, Hangup
<1>2. response = NoResponse
    BY <1>1 DEF Read, Attached
<1>3. PICK r \in Readers : Leads(Here, out, r, produced) /\ Told(r)
    BY DEF Answered
<1>4. r = [c |-> NewClient, n |-> Len(produced)] /\ r.n <= Len(produced)
    BY <1>1, <1>2, <1>3 DEF Told, Between
<1>5. Len(produced) \in Nat
    BY DEF Answered
<1>6. TooLarge \in Seq(Datum)
    BY <1>5, TooLargeLeads
<1>7. /\ produced' \in Seq(Seq(Datum)) /\ Len(produced') = Len(produced) + 1
      /\ produced'[Len(produced) + 1] = TooLarge
      /\ Leads(Here, out, r, produced')
    BY <1>1, <1>3, <1>4, <1>6, ToldOfMore
<1>8. PICK x \in Readers, z \in Readers :
          /\ Leads(r, <<Headers(-1, FALSE)>>, x, produced')
          /\ Leads(x, TooLarge, z, produced')
          /\ z.n = Len(produced) /\ z.c.mode = "close" /\ z.c.got = TooLarge
    <2>1. \E x, z \in Readers :
              /\ Leads([c |-> NewClient, n |-> Len(produced)], <<Headers(-1, FALSE)>>, x, produced')
              /\ Leads(x, TooLarge, z, produced')
              /\ z.n = Len(produced) /\ z.c.mode = "close" /\ z.c.got = TooLarge
        BY <1>5, TooLargeLeads, Zenon
    <2> QED BY <2>1, <1>4
<1> DEFINE h == <<Headers(-1, FALSE)>>
           t == out \o h
           u == t \o TooLarge
<1>9. out \in Seq(OutSigns) /\ h \in Seq(OutSigns) /\ TooLarge \in Seq(OutSigns)
    BY <1>3, <1>8 DEF Leads
<1> HIDE DEF h
<1>10. Grows(OutSigns, t, out, Len(out), h, Len(h))
    BY <1>9, Grown, Zenon
<1>11. t \in Seq(OutSigns)
    BY <1>10 DEF Grows
<1> HIDE DEF t
<1>12. Grows(OutSigns, u, t, Len(t), TooLarge, Len(TooLarge))
    BY <1>9, <1>11, Grown, Zenon
<1> HIDE DEF u
<1>13. Leads(r, h, x, produced')
    BY <1>8 DEF h
<1>14. Leads(Here, t, x, produced')
    BY <1>7, <1>10, <1>13, LeadsOn
<1>15. Leads(Here, u, z, produced')
    BY <1>8, <1>12, <1>14, LeadsOn
<1>16. Leads(Here', out', z, produced')
    BY <1>1, <1>15 DEF Here, u, t, h
<1>17. Told(z)'
    BY <1>1, <1>5, <1>7, <1>8 DEF Told, Written
<1>18. answers' \in Seq(Seq(Datum))
    BY <1>1 DEF Answered
<1> QED BY <1>1, <1>7, <1>16, <1>17, <1>18 DEF Answered

\* a request is served,
LEMMA DispatchAnswers ==
    ASSUME Read, Answered, NEW plan \in Plans, Dispatch(plan)
    PROVE  Answered' /\ Planned'
<1>1. /\ open /\ response = NoResponse /\ produced' = Append(produced, <<>>)
      /\ response' = [plan |-> plan, close |-> request.close \/ request.old \/ plan.close = "Connection",
                      length |-> plan.length,
                      sentHeaders |-> FALSE, sentLastPart |-> FALSE, chunkedMode |-> FALSE]
      /\ open' = open /\ out' = out /\ client' = client /\ answers' = answers
      /\ served' = Append(served, [id |-> request.id, body |-> request.bodyData])
    BY DEF Dispatch, peerVars
<1>2. response' \in Response /\ response' # NoResponse
    BY DispatchReads, NothingThere
<1>3. PICK r \in Readers : Leads(Here, out, r, produced) /\ Told(r)
    BY DEF Answered
<1>4. r = [c |-> NewClient, n |-> Len(produced)] /\ r.n <= Len(produced) /\ Len(produced) = Len(served)
    BY <1>1, <1>3 DEF Told, Between, Answered
<1>5. <<>> \in Seq(Datum)
    OBVIOUS
<1>6. /\ produced' \in Seq(Seq(Datum)) /\ Len(produced') = Len(produced) + 1 /\ Len(produced) \in Nat
      /\ produced'[Len(produced) + 1] = <<>>
      /\ Leads(Here, out, r, produced')
    BY <1>1, <1>3, <1>4, <1>5, ToldOfMore
<1>7. Len(served') = Len(served) + 1
    BY <1>1 DEF Read, ReadTypeOK
<1>8. Leads(Here', out', r, produced')
    BY <1>1, <1>6 DEF Here
<1>9. /\ ~response'.sentHeaders /\ ~response'.sentLastPart /\ ~response'.chunkedMode
      /\ response'.plan = plan /\ response'.length = plan.length
    BY <1>1
<1>10. Unsent(response', <<>>, Len(produced'), r)
    <2>1. Between(r, Len(produced') - 1)
        BY <1>4, <1>6 DEF Between
    <2>2. plan.length >= 0 => AddsUp(plan.parts, plan.length) /\ (plan.close = "connection" => ~plan.throws)
        BY LengthAssumption
    <2> QED BY <1>9, <2>1, <2>2 DEF Unsent
<1>11. Promised(response', Written', Len(produced'), r)
    BY <1>6, <1>9, <1>10 DEF Promised, Written
<1>12. Told(r)'
    <2>1. (r.n <= Len(produced))' /\ Len(produced') >= 1
        BY <1>4, <1>6
    <2> QED BY <2>1, <1>1, <1>2, <1>11 DEF Told
<1>13. Answered'
    BY <1>1, <1>4, <1>6, <1>7, <1>8, <1>12 DEF Answered
<1>14. Planned'
    <2>1. response'.plan.parts = plan.parts
        BY <1>9
    <2> QED BY <2>1 DEF Planned
<1> QED BY <1>13, <1>14

\* the application breaks off,
LEMMA ThrowAnswers ==
    ASSUME Read, Answered, Planned, AppThrow
    PROVE  Answered' /\ Planned'
<1>1. /\ response # NoResponse /\ response.plan.parts # <<>> /\ response.plan.throws
      /\ response' = [response EXCEPT !.plan.parts = <<>>]
      /\ open' = open /\ out' = out /\ client' = client
      /\ served' = served /\ produced' = produced /\ answers' = answers
    BY DEF AppThrow, peerVars, pastVars
<1> DEFINE a == response
           b == response'
           n == Len(produced)
           w == Written
<1>2. a \in Response /\ open /\ a.plan \in Plan
    BY <1>1, ResponseIs
<1>3. /\ b \in Response /\ b # NoResponse /\ b.plan = [a.plan EXCEPT !.parts = <<>>]
    BY <1>1, <1>2, ThrownIs, NothingThere
<1>4. /\ b.plan.parts = <<>> /\ b.plan.close = a.plan.close /\ b.plan.throws = a.plan.throws
      /\ b.close = a.close /\ b.length = a.length /\ b.sentHeaders = a.sentHeaders
      /\ b.sentLastPart = a.sentLastPart /\ b.chunkedMode = a.chunkedMode
    <2>1. b.plan.parts = <<>> /\ b.plan.close = a.plan.close /\ b.plan.throws = a.plan.throws
        BY <1>2, <1>3 DEF Plan
    <2>2. /\ b.close = a.close /\ b.length = a.length /\ b.sentHeaders = a.sentHeaders
          /\ b.sentLastPart = a.sentLastPart /\ b.chunkedMode = a.chunkedMode
        BY <1>1, <1>2 DEF Response
    <2> QED BY <2>1, <2>2
<1>5. PICK r \in Readers : Leads(Here, out, r, produced) /\ Told(r)
    BY DEF Answered
<1>6. n \in Nat /\ n >= 1 /\ Promised(a, w, n, r) /\ r.n <= n
    BY <1>1, <1>2, <1>5 DEF Told, Answered
<1>7. w \in Seq(Datum) /\ Len(w) \in Nat /\ a.length \in Int /\ a.sentHeaders \in BOOLEAN
    BY <1>2, <1>6 DEF Answered, Written, Response
<1> HIDE DEF b
<1>8. Promised(b, w, n, r)
    <2>1. CASE a.sentHeaders
        <3>1. Ready(a, w, n, r, 0)
            BY <2>1, <1>6 DEF Promised
        <3>2. ASSUME ~a.chunkedMode, a.length >= 0
              PROVE  AddsUp(b.plan.parts, a.length - (Len(w) + 0)) \/ (b.plan.parts = <<>> /\ b.close)
            <4>1. a.close \/ Len(w) + 0 = a.length
                BY <3>1, <3>2, <1>1 DEF Ready
            <4>2. CASE a.close
                BY <4>2, <1>4
            <4>3. CASE Len(w) + 0 = a.length
                <5>1. a.length - (Len(w) + 0) = 0
                    BY <4>3, <1>7
                <5> QED BY <5>1, <1>4, AddsUpNone
            <4> QED BY <4>1, <4>2, <4>3
        <3> QED BY <2>1, <3>1, <3>2, <1>4 DEF Promised, Ready
    <2>2. CASE ~a.sentHeaders
        BY <2>2, <1>4, <1>6 DEF Promised, Unsent
    <2> QED BY <2>1, <2>2
<1>9. Leads(Here', out', r, produced')
    BY <1>1, <1>5 DEF Here
<1>10. Told(r)'
    BY <1>1, <1>2, <1>3, <1>6, <1>8 DEF Told, Written, b
<1>11. Answered'
    BY <1>1, <1>9, <1>10 DEF Answered
<1>12. Planned'
    <2>1. Len(response'.plan.parts) = 0
        BY <1>4 DEF b
    <2>2. \E p \in Plans : TRUE
        BY <1>1 DEF Planned
    <2> QED BY <2>1, <2>2 DEF Planned
<1> QED BY <1>11, <1>12

\* A call of write, and what the application is called to write by it.
LEMMA WriteAnswers ==
    ASSUME Read, Answered, response # NoResponse, NEW a \in Response, NEW size \in Nat, NEW lastPart \in BOOLEAN,
           \A r : Promised(response, Written, Len(produced), r) =>
                    Poised(a, Written, Len(produced), r, size, lastPart),
           a.sentHeaders = response.sentHeaders,
           Write(a, size, lastPart), UNCHANGED <<open, client, served, answers>>
    PROVE  /\ Answered'
           /\ response' = WroteLast(Started(a, size, lastPart), lastPart)
           /\ response' \in Response
           /\ produced' = [produced EXCEPT ![Len(produced)] = @ \o Data(request.id, size)]
           /\ Len(answers) < Len(produced) \/ produced' = produced
<1> DEFINE n == Len(produced)
           w == Written
           id == request.id
           b == Started(a, size, lastPart)
           g == Got(w, id, size)
           e == EndSign(b, lastPart)
           s == SizeSign(b, size)
           d == Data(id, size)
           h == HeadSign(a, b)
<1>1. response \in Response /\ open /\ id \in Ids
    BY ResponseIs DEF Ids, Request
<1>2. /\ out' = out \o h \o s \o d \o e
      /\ response' = WroteLast(b, lastPart)
      /\ produced' = [produced EXCEPT ![n] = @ \o d]
      /\ open' = open /\ client' = client /\ served' = served /\ answers' = answers
    BY DEF Write, HeadSign, SizeSign, EndSign, WroteLast
<1>3. PICK r \in Readers : Leads(Here, out, r, produced) /\ Told(r)
    BY DEF Answered
<1>4. /\ n \in Nat /\ n >= 1 /\ Promised(response, w, n, r) /\ r.n <= n /\ n = Len(served)
      /\ Poised(a, w, n, r, size, lastPart)
    BY <1>1, <1>3 DEF Told, Answered
<1>5. w \in Seq(Datum) /\ Len(w) \in Nat
    BY <1>4 DEF Answered, Written
<1>6. g \in Seq(Datum) /\ (size = 0 => g = w)
    BY <1>1, <1>5, GotIs
<1>7. produced' = [produced EXCEPT ![n] = g]
    <2>1. w \o d = g
        BY DEF Got
    <2> QED BY <2>1, <1>2, <1>4 DEF Written, Answered
<1> HIDE DEF g
<1>8. /\ produced' \in Seq(Seq(Datum)) /\ Len(produced') = n /\ produced'[n] = g
      /\ \A i \in 1..(n - 1) : produced'[i] = produced[i]
      /\ w = g => produced' = produced
    <2>1. produced \in Seq(Seq(Datum)) /\ produced[n] = w
        BY DEF Answered, Written
    <2> QED BY <2>1, <1>4, <1>6, <1>7, Lengthened
<1> HIDE DEF w, b, e, s, d, h
<1>9. r.n <= n - 1 \/ (size = 0 /\ r.n = n)
    <2>1. CASE a.sentHeaders
        <3>1. Ready(response, w, n, r, 0) /\ Ready(a, w, n, r, size)
            BY <2>1, <1>4 DEF Promised, Poised
        <3>2. a.length \in Int /\ r.n \in Nat
            BY DEF Response, Readers
        <3>3. CASE a.chunkedMode
            <4>1. ~a.sentLastPart
                BY <2>1, <3>3, <1>4 DEF Poised
            <4> QED BY <4>1, <3>1, <3>2, <3>3, <1>4 DEF Ready, Reader
        <3>4. CASE ~a.chunkedMode /\ a.length >= 0 /\ Len(w) = a.length
            <4>1. Len(w) + size <= a.length /\ Between(r, n)
                BY <3>1, <3>4 DEF Ready
            <4> QED BY <4>1, <3>4, <1>5 DEF Between
        <3>5. CASE ~a.chunkedMode /\ ~(a.length >= 0 /\ Len(w) = a.length)
            <4>1. Reader(r, "body", w, n) \/ Reader(r, "close", w, n)
                BY <3>1, <3>2, <3>5 DEF Ready
            <4> QED BY <4>1, <3>2, <1>4 DEF Reader
        <3> QED BY <3>3, <3>4, <3>5
    <2>2. CASE ~a.sentHeaders
        <3>1. Between(r, n - 1)
            BY <2>2, <1>4 DEF Poised, Opening
        <3> QED BY <3>1, <1>4 DEF Between
    <2> QED BY <2>1, <2>2
<1>10. Leads(Here, out, r, produced')
    <2>1. CASE r.n <= n - 1
        <3>1. \A i \in 1..r.n : produced'[i] = produced[i]
            BY <2>1, <1>4, <1>8 DEF Readers
        <3> QED BY <3>1, <1>3, <1>4, <1>8, LeadsToldMore
    <2>2. CASE size = 0
        BY <2>2, <1>3, <1>6, <1>8
    <2> QED BY <2>1, <2>2, <1>9
<1>11. n <= Len(produced') /\ produced'[n] = Got(w, id, size)
    BY <1>4, <1>8 DEF g
<1>12. /\ WroteLast(b, lastPart) \in Response
       /\ \E v, x, y, z \in Readers : /\ Leads(r, h, v, produced')
                                      /\ Follow(b, v, size, id, lastPart, x, y, z, produced')
                                      /\ Ready(WroteLast(b, lastPart), Got(w, id, size), n, z, 0)
    BY <1>1, <1>4, <1>5, <1>11, PoisedLeads, ZenonT(60) DEF b, h
<1>13. PICK v \in Readers, x \in Readers, y \in Readers, z \in Readers :
           /\ Leads(r, h, v, produced')
           /\ Follow(b, v, size, id, lastPart, x, y, z, produced')
           /\ Ready(WroteLast(b, lastPart), g, n, z, 0)
    BY <1>12 DEF g
<1>14. Leads(v, s, x, produced') /\ Leads(x, d, y, produced') /\ Leads(y, e, z, produced')
    BY <1>13 DEF Follow, s, d, e
<1>15. Leads(Here, Sending(out, h, s, d, e), z, produced')
    BY <1>10, <1>13, <1>14, SendingLeads
<1>16. Leads(Here', out', z, produced')
    BY <1>2, <1>15 DEF Here, Sending
<1>17. z.n <= n
    <2>1. WroteLast(b, lastPart).length \in Int /\ WroteLast(b, lastPart).chunkedMode \in BOOLEAN
        BY <1>12 DEF Response
    <2> QED BY <2>1, <1>4, <1>13 DEF Ready, Between, Reader
<1>18. response' \in Response /\ response' # NoResponse
    BY <1>2, <1>12, NothingThere
<1>19. Promised(response', g, n, z)
    <2>1. Ready(response', g, n, z, 0)
        BY <1>2, <1>13
    <2>2. response'.sentHeaders
        BY <2>1 DEF Ready
    <2> QED BY <2>1, <2>2 DEF Promised
<1>20. Written' = g
    BY <1>8 DEF Written
<1>21. Told(z)'
    BY <1>1, <1>2, <1>4, <1>8, <1>17, <1>18, <1>19, <1>20 DEF Told
<1>22. Answered'
    BY <1>2, <1>4, <1>8, <1>16, <1>21 DEF Answered
<1>23. Len(answers) < n \/ produced' = produced
    <2>1. Len(answers) <= r.n /\ r.n \in Nat /\ Len(answers) \in Nat
        <3>1. Here \in Readers /\ r \in Readers /\ Here.n <= r.n
            BY <1>3, LeadsBounds
        <3> QED BY <3>1 DEF Here, Readers
    <2>2. CASE r.n <= n - 1
        BY <2>1, <2>2, <1>4
    <2>3. CASE size = 0
        BY <2>3, <1>6, <1>8
    <2> QED BY <2>2, <2>3, <1>9
<1> QED BY <1>2, <1>18, <1>22, <1>23 DEF b, d

\* the application writes, to an answer nobody has finished reading,
LEMMA AppWriteAnswers ==
    ASSUME Read, Answered, Planned, AppWrite
    PROVE  /\ Answered' /\ Planned'
           /\ response # NoResponse /\ response.plan.parts # <<>>
           /\ produced' = [produced EXCEPT ![Len(produced)] = @ \o Data(request.id, response.plan.parts[1])]
           /\ Len(answers) < Len(produced) \/ produced' = produced
<1> DEFINE parts == response.plan.parts
           size == parts[1]
           lastPart == response.plan.last /\ Len(parts) = 1
           a == Popped(response)
<1>1. /\ response # NoResponse /\ parts # <<>>
      /\ Write(a, size, lastPart)
      /\ UNCHANGED <<open, client, served, answers>>
    BY DEF AppWrite, Popped
<1>2. response \in Response /\ open /\ parts \in Seq(Nat)
    BY <1>1, ResponseIs
<1>3. /\ a \in Response /\ size \in Nat /\ lastPart \in BOOLEAN
      /\ a.sentHeaders = response.sentHeaders /\ a.sentLastPart = response.sentLastPart
      /\ a.plan.parts = Tail(parts)
    BY <1>1, <1>2, PoppedIs
<1>4. Len(produced) \in Nat /\ Len(produced) >= 1 /\ Written \in Seq(Datum)
    <2>1. Len(produced) \in Nat /\ Len(produced) >= 1
        BY <1>1 DEF Answered, Told
    <2> QED BY <2>1 DEF Answered, Written
<1>5. \A r : Promised(response, Written, Len(produced), r) => Poised(a, Written, Len(produced), r, size, lastPart)
    BY <1>1, <1>2, <1>4, PoppedPoised
<1> HIDE DEF a, size, lastPart
<1>6. /\ Answered'
      /\ response' = WroteLast(Started(a, size, lastPart), lastPart)
      /\ response' \in Response
      /\ produced' = [produced EXCEPT ![Len(produced)] = @ \o Data(request.id, size)]
      /\ Len(answers) < Len(produced) \/ produced' = produced
    BY <1>1, <1>3, <1>5, WriteAnswers
<1>7. Planned'
    <2>1. Started(a, size, lastPart) \in Response /\ Started(a, size, lastPart).plan = a.plan
        <3>1. CASE a.sentHeaders
            BY <3>1, <1>3 DEF Started
        <3>2. CASE ~a.sentHeaders
            BY <3>2, <1>3 DEF Started, Response
        <3>3. Started(a, size, lastPart) \in Response
            BY <1>3, StartedIs
        <3> QED BY <3>1, <3>2, <3>3
    <2>2. response'.plan.parts = Tail(parts)
        BY <2>1, <1>3, <1>6, WroteLastIs
    <2>3. PICK p \in Plans : \A j \in 1..Len(parts) : \E i \in 1..Len(p.parts) : parts[j] = p.parts[i]
        BY <1>1 DEF Planned
    <2>4. /\ Len(Tail(parts)) = Len(parts) - 1 /\ Len(parts) \in Nat
          /\ \A j \in 1..Len(Tail(parts)) : Tail(parts)[j] = parts[j + 1]
        BY <1>1, <1>2, HeadTailProperties
    <2> HIDE DEF parts
    <2>5. ASSUME NEW j \in 1..Len(Tail(parts)) PROVE \E i \in 1..Len(p.parts) : Tail(parts)[j] = p.parts[i]
        <3>1. j + 1 \in 1..Len(parts)
            BY <2>4
        <3> QED BY <3>1, <2>3, <2>4
    <2> QED BY <2>2, <2>5 DEF Planned
<1> QED BY <1>1, <1>6, <1>7 DEF size

\* the handler writes the end,
LEMMA FinalizeAnswers ==
    ASSUME Read, Answered, Planned, Finalize
    PROVE  /\ Answered' /\ Planned'
           /\ produced' = produced
<1>1. /\ response # NoResponse /\ response.plan.parts = <<>> /\ ~response.sentLastPart
      /\ Write(response, 0, TRUE)
      /\ UNCHANGED <<open, client, served, answers>>
    BY DEF Finalize
<1>2. response \in Response /\ open /\ request.id \in Ids
    BY <1>1, ResponseIs DEF Ids
<1>3. \A r : Promised(response, Written, Len(produced), r) => Poised(response, Written, Len(produced), r, 0, TRUE)
    BY <1>1, <1>2, FinalPoised
<1>4. 0 \in Nat /\ TRUE \in BOOLEAN
    OBVIOUS
<1>5. /\ Answered'
      /\ response' = WroteLast(Started(response, 0, TRUE), TRUE)
      /\ produced' = [produced EXCEPT ![Len(produced)] = @ \o Data(request.id, 0)]
    BY <1>1, <1>2, <1>3, <1>4, WriteAnswers
<1>6. produced' = produced
    <2> DEFINE n == Len(produced)
               g == Got(produced[n], request.id, 0)
    <2>1. n \in Nat /\ n >= 1 /\ produced \in Seq(Seq(Datum))
        BY <1>1 DEF Answered, Told
    <2>2. produced[n] \in Seq(Datum)
        BY <2>1
    <2>3. g = produced[n]
        BY <2>2, <1>2, <1>4, GotIs
    <2>4. produced' = [produced EXCEPT ![n] = g]
        BY <1>5, <2>1 DEF Got
    <2> HIDE DEF g
    <2>5. g \in Seq(Datum)
        BY <2>2, <2>3
    <2> QED BY <2>1, <2>3, <2>4, <2>5, Lengthened
<1>7. Planned'
    <2>1. Started(response, 0, TRUE) \in Response /\ Started(response, 0, TRUE).plan = response.plan
        <3>1. CASE response.sentHeaders
            BY <3>1, <1>2 DEF Started
        <3>2. CASE ~response.sentHeaders
            BY <3>2, <1>2 DEF Started, Response
        <3>3. Started(response, 0, TRUE) \in Response
            BY <1>2, <1>4, StartedIs
        <3> QED BY <3>1, <3>2, <3>3
    <2>2. response'.plan = response.plan
        BY <2>1, <1>5, WroteLastIs
    <2> QED BY <2>2, <1>1 DEF Planned
<1> QED BY <1>5, <1>6, <1>7

\* The client understands nothing but what it was told.
LEMMA ClientReadAnswers ==
    ASSUME Answered, ClientRead
    PROVE  /\ Answered'
           /\ \/ answers' = answers
              \/ /\ Len(answers) < Len(produced)
                 /\ answers' = Append(answers, produced[Len(answers) + 1])
<1> DEFINE c == ClientNext(client, out[1])
<1>1. /\ out # <<>> /\ out' = Tail(out)
      /\ client' = (IF c.mode = "done" THEN NewClient ELSE c)
      /\ answers' = (IF c.mode = "done" THEN Append(answers, c.got) ELSE answers)
      /\ open' = open /\ response' = response /\ served' = served /\ produced' = produced
    BY DEF ClientRead, Understood, connVars
<1>2. PICK r \in Readers : Leads(Here, out, r, produced) /\ Told(r)
    BY DEF Answered
<1>3. /\ Understands(Here, out[1], produced)
      /\ After(Here, out[1]) \in Readers
      /\ Leads(After(Here, out[1]), Tail(out), r, produced)
    BY <1>1, <1>2, LeadsFromNext
<1>4. Len(answers) \in Nat /\ Len(produced) \in Nat /\ answers \in Seq(Seq(Datum)) /\ produced \in Seq(Seq(Datum))
    BY DEF Answered
<1>5. /\ c.mode = "done" => Len(answers) + 1 <= Len(produced) /\ c.got = produced[Len(answers) + 1]
      /\ After(Here, out[1]) = IF c.mode = "done" THEN [c |-> NewClient, n |-> Len(answers) + 1]
                               ELSE [c |-> c, n |-> Len(answers)]
    BY <1>3 DEF Understands, After, Here
<1> HIDE DEF c
<1>6. /\ answers' \in Seq(Seq(Datum)) /\ Len(answers') = (IF c.mode = "done" THEN Len(answers) + 1 ELSE Len(answers))
      /\ \/ answers' = answers
         \/ Len(answers) < Len(produced) /\ answers' = Append(answers, produced[Len(answers) + 1])
    <2>1. CASE c.mode = "done"
        <3>1. c.got \in Seq(Datum)
            <4>1. Len(answers) + 1 \in 1..Len(produced)
                BY <2>1, <1>4, <1>5
            <4> QED BY <4>1, <2>1, <1>4, <1>5
        <3>2. answers' = Append(answers, c.got)
            BY <2>1, <1>1
        <3>3. answers' \in Seq(Seq(Datum)) /\ Len(answers') = Len(answers) + 1
            BY <3>1, <3>2, <1>4, Lengthened
        <3>4. Len(answers) < Len(produced)
            BY <2>1, <1>4, <1>5
        <3> QED BY <3>2, <3>3, <3>4, <2>1, <1>5
    <2>2. CASE c.mode # "done"
        BY <2>2, <1>1, <1>4
    <2> QED BY <2>1, <2>2
<1>7. Here' = After(Here, out[1])
    BY <1>1, <1>5, <1>6 DEF Here
<1>8. Leads(Here', out', r, produced')
    BY <1>1, <1>3, <1>7
<1>9. Told(r)'
    BY <1>1, <1>2 DEF Told, Written
<1>10. (produced \in Seq(Seq(Datum)) /\ (open => Len(produced) = Len(served)))'
    BY <1>1 DEF Answered
<1> QED BY <1>6, <1>8, <1>9, <1>10 DEF Answered

\* the client sees the end of the connection,
LEMMA ClientEndAnswers ==
    ASSUME Read, Answered, ClientEnd
    PROVE  /\ Answered'
           /\ Len(answers) < Len(produced)
           /\ answers' = Append(answers, produced[Len(answers) + 1])
<1>1. /\ ~open /\ out = <<>> /\ client.mode = "close"
      /\ client' = NewClient /\ answers' = Append(answers, [client EXCEPT !.mode = "done"].got)
      /\ open' = open /\ response' = response /\ served' = served /\ produced' = produced /\ out' = out
    <2>1. Understood([client EXCEPT !.mode = "done"]) /\ ~open /\ out = <<>> /\ client.mode = "close"
          /\ UNCHANGED connVars /\ UNCHANGED <<out, sent, served, produced>>
        BY DEF ClientEnd
    <2>2. PICK r \in Readers : Leads(Here, out, r, produced)
        BY DEF Answered
    <2>3. client \in Clients
        BY <2>2, LeadsBounds DEF Here, Readers
    <2>4. [client EXCEPT !.mode = "done"].mode = "done"
        BY <2>3 DEF Clients
    <2> QED BY <2>1, <2>4 DEF Understood, connVars
<1>2. PICK r \in Readers : Leads(Here, out, r, produced) /\ Told(r)
    BY DEF Answered
<1>3. Here = r
    BY <1>1, <1>2, NowhereLeft
<1>4. /\ r.c = client /\ r.n = Len(answers) /\ client \in Clients
    BY <1>3 DEF Here, Readers
<1>5. [client EXCEPT !.mode = "done"].got = client.got
    BY <1>4 DEF Clients
<1>6. Len(produced) >= 1 /\ Len(answers) = Len(produced) - 1 /\ client.got = Written
    BY <1>1, <1>2, <1>4 DEF Told
<1>7. Len(answers) \in Nat /\ Len(produced) \in Nat /\ answers \in Seq(Seq(Datum)) /\ produced \in Seq(Seq(Datum))
    BY DEF Answered
<1>8. /\ Len(answers) < Len(produced) /\ Len(answers) + 1 = Len(produced)
      /\ answers' = Append(answers, Written) /\ Written \in Seq(Datum)
    BY <1>1, <1>5, <1>6, <1>7 DEF Written
<1>9. answers' \in Seq(Seq(Datum)) /\ Len(answers') = Len(produced)
    BY <1>7, <1>8, Lengthened
<1> DEFINE z == [c |-> NewClient, n |-> Len(produced)]
<1>10. z \in Readers
    BY <1>7, NewClientReads DEF Readers
<1>11. Here' = z
    BY <1>1, <1>9 DEF Here
<1>12. Leads(Here', out', z, produced')
    BY <1>1, <1>10, <1>11, NothingLeads
<1>13. response = NoResponse
    BY <1>1 DEF Read, Attached
<1>14. Told(z)'
    <2>1. z.n <= Len(produced) /\ z.c.mode # "close"
        BY <1>7 DEF NewClient
    <2> QED BY <2>1, <1>1, <1>13 DEF Told
<1>15. Answered'
    BY <1>1, <1>7, <1>9, <1>10, <1>12, <1>14 DEF Answered
<1> QED BY <1>8, <1>15 DEF Written

\* A connection without anything on it.
NewConnection ==
    /\ open /\ response = NoResponse /\ client = NewClient /\ out = <<>>
    /\ served = <<>> /\ produced = <<>> /\ answers = <<>>

\* and a new connection begins.
LEMMA FreshAnswers == NewConnection => Answered
<1> SUFFICES ASSUME NewConnection PROVE Answered
    OBVIOUS
<1> USE DEF NewConnection
<1> DEFINE r == [c |-> NewClient, n |-> 0]
<1>1. r \in Readers
    BY NewClientReads DEF Readers
<1>2. Len(produced) = 0 /\ Len(answers) = 0 /\ Len(served) = 0
      /\ produced \in Seq(Seq(Datum)) /\ answers \in Seq(Seq(Datum))
    OBVIOUS
<1>3. Leads(Here, out, r, produced)
    BY <1>1, <1>2, NothingLeads DEF Here
<1>4. Told(r)
    BY <1>2 DEF Told, Between
<1> QED BY <1>1, <1>2, <1>3, <1>4 DEF Answered

\* Planned is about the response only.
LEMMA SamePlanned ==
    ASSUME Planned, response' = response \/ response' = NoResponse
    PROVE  Planned'
    BY DEF Planned

\* The inductive invariant of a connection.
Kept == Read /\ Answered /\ Planned

\* It holds at first,
LEMMA InitKept == HttpInit => Kept
<1> SUFFICES ASSUME HttpInit PROVE Kept
    OBVIOUS
<1>1. Answered
    BY FreshAnswers DEF HttpInit, NewConnection
<1>2. Planned
    BY DEF HttpInit, Planned
<1> QED BY <1>1, <1>2, InitReads DEF Kept

\* and every step keeps it.
LEMMA StepKept == Kept /\ [HttpNext]_httpVars => Kept'
<1> SUFFICES ASSUME Kept, [HttpNext]_httpVars PROVE Kept'
    OBVIOUS
<1> USE DEF Kept
<1>0. Read'
    BY StepReads
<1>1. ASSUME NEW s \in Shapes, ClientSend(s) PROVE Kept'
    BY <1>0, <1>1, SameAnswers, SamePlanned DEF ClientSend, peerVars
<1>2. CASE Deliver
    BY <1>0, <1>2, SameAnswers, SamePlanned DEF Deliver, peerVars, pastVars
<1>3. CASE ReadFromSocket
    BY <1>0, <1>3, SameAnswers, SamePlanned DEF ReadFromSocket, peerVars, pastVars
<1>4. CASE Abort
    BY <1>0, <1>4, AbortAnswers, SamePlanned DEF Abort, Hangup
<1>5. ASSUME NEW plan \in Plans, Dispatch(plan) PROVE Kept'
    BY <1>0, <1>5, DispatchAnswers
<1>6. CASE AppWrite
    BY <1>0, <1>6, AppWriteAnswers
<1>7. CASE AppThrow
    BY <1>0, <1>7, ThrowAnswers
<1>8. CASE Finalize
    BY <1>0, <1>8, FinalizeAnswers
<1>9. CASE Finish
    BY <1>0, <1>9, FinishAnswers, SamePlanned DEF Finish, Hangup
<1>10. CASE RequestTimeout
    BY <1>0, <1>10, HungUpAnswers, SamePlanned DEF RequestTimeout, Hangup, peerVars, pastVars
<1>11. CASE ClientRead
    BY <1>0, <1>11, ClientReadAnswers, SamePlanned DEF ClientRead, connVars
<1>12. CASE ClientEnd
    BY <1>0, <1>12, ClientEndAnswers, SamePlanned DEF ClientEnd, connVars
<1>13. CASE Reconnect
    <2>1. /\ open' = TRUE /\ client' = NewClient /\ out' = <<>>
          /\ served' = <<>> /\ produced' = <<>> /\ answers' = <<>> /\ response' = response /\ ~open
        BY <1>13 DEF Reconnect
    <2>2. response' = NoResponse
        BY <2>1 DEF Read, Attached
    <2>3. NewConnection'
        BY <2>1, <2>2 DEF NewConnection
    <2>4. Answered'
        BY <2>3, FreshAnswers, PTL
    <2> QED BY <1>0, <2>2, <2>4, SamePlanned
<1>14. CASE UNCHANGED httpVars
    BY <1>0, <1>14, SameAnswers, SamePlanned DEF httpVars
<1> QED BY <1>1, <1>2, <1>3, <1>4, <1>5, <1>6, <1>7, <1>8, <1>9, <1>10, <1>11, <1>12, <1>13, <1>14
        DEF HttpNext, ConnectionStep

\* The invariant of a connection: what is not read continues the requests that
\* were sent, what is not understood completes the answers that were written
\* (httpconnectionhandler.cpp:119-241, httpresponse.cpp:80-160).
THEOREM AnswersComeTogether == HttpSpec => []Kept
    BY InitKept, StepKept, PTL DEF HttpSpec

-----------------------------------------------------------------------------
(* The connection keeps the promise of HttpStream.                         *)

\* The requests as HttpStream sees them.
Asks == [i \in DOMAIN sent |-> Asked(i, sent[i])]
\* The requests that can be asked, and what can be written to an answer.
AskedFor == {Asked(i, s) : i \in 1..MaxAsked, s \in Shapes}
Said == UNION {{Data(i, p.parts[j]) : j \in DOMAIN p.parts} : i \in 1..MaxAsked, p \in Plans}

\* The requests asked, as HttpStream has them, with one more.
LEMMA OneMoreAsk ==
    ASSUME NEW t \in Seq(Shape), NEW s \in Shape
    PROVE  [i \in DOMAIN Append(t, s) |-> Asked(i, Append(t, s)[i])]
           = Append([i \in DOMAIN t |-> Asked(i, t[i])], Asked(Len(t) + 1, s))
<1> DEFINE n == Len(t)
           u == Append(t, s)
           a == [i \in DOMAIN t |-> Asked(i, t[i])]
           b == [i \in DOMAIN u |-> Asked(i, u[i])]
           c == Append(a, Asked(n + 1, s))
           V == {Asked(i, x) : i \in 1..(n + 1), x \in Shape}
<1>1. /\ n \in Nat /\ DOMAIN t = 1..n /\ \A i \in 1..n : t[i] \in Shape
      /\ DOMAIN u = 1..(n + 1) /\ u[n + 1] = s /\ \A i \in 1..n : u[i] = t[i]
    OBVIOUS
<1> HIDE DEF u
<1>2. a = [i \in 1..n |-> Asked(i, t[i])] /\ b = [i \in 1..(n + 1) |-> Asked(i, u[i])]
    BY <1>1
<1>3. \A i \in 1..n : Asked(i, t[i]) \in V
    BY <1>1
<1>4. \A i \in 1..(n + 1) : Asked(i, u[i]) \in V
    BY <1>1
<1>5. Asked(n + 1, s) \in V
    BY <1>1
<1> HIDE DEF V, n
<1>6. a \in Seq(V) /\ Len(a) = n /\ \A i \in 1..n : a[i] = Asked(i, t[i])
    <2> HIDE DEF a
    <2> QED BY <1>1, <1>2, <1>3
<1>7. b \in Seq(V) /\ Len(b) = n + 1 /\ \A i \in 1..(n + 1) : b[i] = Asked(i, u[i])
    <2> HIDE DEF b
    <2> QED BY <1>1, <1>2, <1>4
<1> HIDE DEF a, b
<1>8. c \in Seq(V) /\ Len(c) = n + 1 /\ c[n + 1] = Asked(n + 1, s) /\ \A i \in 1..n : c[i] = a[i]
    BY <1>1, <1>5, <1>6
<1> HIDE DEF c
<1>9. \A i \in 1..(n + 1) : b[i] = c[i]
    <2>1. \A i \in 1..n : b[i] = c[i]
        BY <1>1, <1>6, <1>7, <1>8
    <2>2. b[n + 1] = c[n + 1]
        BY <1>1, <1>7, <1>8
    <2> QED BY <2>1, <2>2, <1>1
<1>10. b = c
    BY <1>7, <1>8, <1>9, SeqEqual
<1> QED BY <1>10 DEF a, b, c, u, n

\* The requests asked, one by one.
LEMMA AsksAre ==
    ASSUME sent \in Seq(Shape)
    PROVE  Len(Asks) = Len(sent) /\ \A i \in 1..Len(sent) : Asks[i] = Asked(i, sent[i])
    BY DEF Asks

\* The steps of HttpStream: sending is asking,
LEMMA SendRefines ==
    ASSUME Read, NEW s \in Shapes, ClientSend(s)
    PROVE  Stream!StreamNext
<1> DEFINE r == Asked(Len(sent) + 1, s)
<1>1. /\ Len(sent) < MaxAsked /\ sent' = Append(sent, s)
      /\ served' = served /\ produced' = produced /\ answers' = answers
    BY DEF ClientSend
<1>2. s \in Shape /\ sent \in Seq(Shape) /\ Len(sent) \in Nat /\ MaxAsked \in Nat
    BY ShapeAssumption, SizeAssumption DEF Shape, Read, ReadTypeOK
<1>3. Asks' = Append(Asks, r)
    <2>1. [i \in DOMAIN Append(sent, s) |-> Asked(i, Append(sent, s)[i])] = Append(Asks, r)
        BY <1>2, OneMoreAsk DEF Asks
    <2> QED BY <2>1, <1>1 DEF Asks
<1>4. r \in AskedFor
    <2>1. Len(sent) + 1 \in 1..MaxAsked
        BY <1>1, <1>2
    <2> QED BY <2>1 DEF AskedFor
<1>5. Stream!Ask(r)
    BY <1>1, <1>3 DEF Stream!Ask, Asks
<1> QED BY <1>4, <1>5 DEF Stream!StreamNext, AskedFor

\* handing the request to the application is serving,
LEMMA DispatchRefines ==
    ASSUME Read, Answered, NEW plan \in Plans, Dispatch(plan)
    PROVE  Stream!StreamNext
<1>1. /\ open /\ sent' = sent /\ answers' = answers /\ produced' = Append(produced, <<>>)
    BY DEF Dispatch
<1>2. /\ Current \in 1..Len(sent) /\ served' = Append(served, Asked(Current, sent[Current]))
    BY DispatchReads
<1>3. sent \in Seq(Shape) /\ Len(served) \in Nat /\ Len(sent) \in Nat /\ Current = Len(served) + 1
    BY DEF Read, ReadTypeOK, Current
<1>4. Len(served) < Len(Asks) /\ Asks[Len(served) + 1] = Asked(Current, sent[Current])
    BY <1>2, <1>3, AsksAre
<1>5. Len(produced) = Len(served)
    BY <1>1 DEF Answered
<1>6. Asks' = Asks
    BY <1>1 DEF Asks
<1>7. Stream!Serve
    BY <1>1, <1>2, <1>4, <1>5, <1>6 DEF Stream!Serve, Asks
<1> QED BY <1>7 DEF Stream!StreamNext

\* refusing is refusing,
LEMMA AbortRefines ==
    ASSUME Read, Answered, Abort
    PROVE  Stream!StreamNext
<1>1. /\ open /\ request.status = "abort" /\ sent' = sent /\ served' = served /\ answers' = answers
      /\ produced' = Append(produced, TooLarge)
    BY DEF Abort
<1>2. sent \in Seq(Shape) /\ Len(served) \in Nat /\ Len(sent) \in Nat /\ Len(served) + 1 <= Len(sent)
    BY <1>1 DEF Read, ReadTypeOK, ReadInv, Current
<1>3. Len(served) < Len(Asks)
    BY <1>2, AsksAre
<1>4. Len(produced) = Len(served)
    BY <1>1 DEF Answered
<1>5. Asks' = Asks
    BY <1>1 DEF Asks
<1>6. Stream!Refuse
    BY <1>1, <1>3, <1>4, <1>5 DEF Stream!Refuse, Asks
<1> QED BY <1>6 DEF Stream!StreamNext

\* A request that is being served is one that was sent.
LEMMA ServedWasAsked ==
    ASSUME Read, Answered, response # NoResponse
    PROVE  request.id \in 1..MaxAsked /\ Len(produced) = Len(served)
<1>1. open /\ request.status = "complete" /\ request.id = Len(served) /\ Len(served) \in Nat
    BY ResponseIs
<1>2. Len(produced) = Len(served) /\ Len(produced) >= 1
    BY <1>1 DEF Answered, Told
<1>3. PICK o \in Nat : Follows(Coming(input, wire), sent, Current, o)
    BY <1>1 DEF Read, ReadInv, Following
<1>4. Current \in 1..(Len(sent) + 1)
    BY <1>3 DEF Follows
<1>5. Len(sent) <= MaxAsked /\ MaxAsked \in Nat /\ Len(sent) \in Nat
    BY SizeAssumption DEF Read, ReadTypeOK
<1>6. request.id >= 1 /\ request.id <= MaxAsked
    BY <1>1, <1>2, <1>4, <1>5 DEF Current
<1> QED BY <1>1, <1>2, <1>5, <1>6

\* writing is producing, or nothing when the part is empty,
LEMMA AppWriteRefines ==
    ASSUME Read, Answered, Planned, AppWrite
    PROVE  Stream!StreamNext \/ UNCHANGED <<Asks, served, produced, answers>>
<1> DEFINE size == response.plan.parts[1]
           d == Data(request.id, size)
<1>1. /\ response # NoResponse /\ response.plan.parts # <<>>
      /\ produced' = [produced EXCEPT ![Len(produced)] = @ \o d]
      /\ Len(answers) < Len(produced) \/ produced' = produced
    BY AppWriteAnswers
<1>2. sent' = sent /\ served' = served /\ answers' = answers
    BY DEF AppWrite
<1>3. Asks' = Asks
    BY <1>2 DEF Asks
<1>4. d \in Said
    <2>1. request.id \in 1..MaxAsked
        BY <1>1, ServedWasAsked
    <2>2. 1 \in 1..Len(response.plan.parts)
        BY <1>1, ResponseIs
    <2>3. PICK p \in Plans : \E i \in 1..Len(p.parts) : size = p.parts[i]
        BY <1>1, <2>2 DEF Planned
    <2>4. p.parts \in Seq(Nat)
        BY PlanAssumption
    <2>5. PICK i \in DOMAIN p.parts : size = p.parts[i]
        BY <2>3, <2>4
    <2> DEFINE W(k, q) == {Data(k, q.parts[j]) : j \in DOMAIN q.parts}
    <2>6. d \in W(request.id, p)
        BY <2>5, Zenon
    <2>7. Said = UNION {W(k, q) : k \in 1..MaxAsked, q \in Plans}
        BY DEF Said
    <2> HIDE DEF d, W
    <2>8. PICK k : k = request.id
        OBVIOUS
    <2>9. W(k, p) \in {W(x, q) : x \in 1..MaxAsked, q \in Plans}
        BY <2>1, <2>8
    <2> QED BY <2>6, <2>7, <2>8, <2>9
<1> HIDE DEF d
<1>5. Len(produced) = Len(served)
    BY <1>1, ServedWasAsked
<1>6. CASE produced' = produced
    BY <1>2, <1>3, <1>6
<1>7. CASE Len(answers) < Len(produced)
    <2>1. Stream!Produce(d)
        BY <1>1, <1>2, <1>3, <1>5, <1>7 DEF Stream!Produce, Asks
    <2> QED BY <2>1, <1>4 DEF Stream!StreamNext, Said
<1> QED BY <1>1, <1>6, <1>7

\* reading an answer to its end is receiving,
LEMMA ReadingRefines ==
    ASSUME Len(answers) < Len(produced), answers' = Append(answers, produced[Len(answers) + 1]),
           UNCHANGED <<sent, served, produced>>
    PROVE  Stream!StreamNext
<1>1. Asks' = Asks
    BY DEF Asks
<1>2. Stream!Receive
    BY <1>1 DEF Stream!Receive, Asks
<1> QED BY <1>2 DEF Stream!StreamNext

\* and a new connection starts again.
LEMMA ReconnectRefines ==
    ASSUME Reconnect
    PROVE  Stream!StreamNext
<1>1. sent' = <<>> /\ served' = <<>> /\ produced' = <<>> /\ answers' = <<>>
    BY DEF Reconnect
<1>2. Asks' = <<>>
    BY <1>1 DEF Asks
<1>3. Stream!Reconnect
    BY <1>1, <1>2 DEF Stream!Reconnect, Asks
<1> QED BY <1>3 DEF Stream!StreamNext

\* Every step is one of HttpStream, or none.
LEMMA StepStreams ==
    Kept /\ [HttpNext]_httpVars => [Stream!StreamNext]_<<Asks, served, produced, answers>>
<1> SUFFICES ASSUME Kept, [HttpNext]_httpVars
             PROVE  Stream!StreamNext \/ UNCHANGED <<Asks, served, produced, answers>>
    OBVIOUS
<1> USE DEF Kept
<1>0. UNCHANGED pastVars => UNCHANGED <<Asks, served, produced, answers>>
    BY DEF pastVars, Asks
<1>1. ASSUME NEW s \in Shapes, ClientSend(s) PROVE Stream!StreamNext
    BY <1>1, SendRefines
<1>2. CASE Deliver
    BY <1>0, <1>2 DEF Deliver
<1>3. CASE ReadFromSocket
    BY <1>0, <1>3 DEF ReadFromSocket
<1>4. CASE Abort
    BY <1>4, AbortRefines
<1>5. ASSUME NEW plan \in Plans, Dispatch(plan) PROVE Stream!StreamNext
    BY <1>5, DispatchRefines
<1>6. CASE AppWrite
    BY <1>6, AppWriteRefines
<1>7. CASE AppThrow
    BY <1>0, <1>7 DEF AppThrow
<1>8. CASE Finalize
    <2>1. produced' = produced
        BY <1>8, FinalizeAnswers
    <2>2. UNCHANGED pastVars
        BY <1>8, <2>1 DEF Finalize, pastVars
    <2> QED BY <1>0, <2>2
<1>9. CASE Finish
    BY <1>0, <1>9 DEF Finish
<1>10. CASE RequestTimeout
    BY <1>0, <1>10 DEF RequestTimeout
<1>11. CASE ClientRead
    <2>1. UNCHANGED <<sent, served, produced>>
        BY <1>11 DEF ClientRead
    <2>2. CASE answers' = answers
        BY <1>0, <2>1, <2>2 DEF pastVars
    <2>3. CASE Len(answers) < Len(produced) /\ answers' = Append(answers, produced[Len(answers) + 1])
        BY <2>1, <2>3, ReadingRefines
    <2> QED BY <1>11, <2>2, <2>3, ClientReadAnswers
<1>12. CASE ClientEnd
    <2>1. UNCHANGED <<sent, served, produced>>
        BY <1>12 DEF ClientEnd
    <2> QED BY <1>12, <2>1, ClientEndAnswers, ReadingRefines
<1>13. CASE Reconnect
    BY <1>13, ReconnectRefines
<1>14. CASE UNCHANGED httpVars
    BY <1>14, <1>0 DEF httpVars, pastVars
<1> QED BY <1>1, <1>2, <1>3, <1>4, <1>5, <1>6, <1>7, <1>8, <1>9, <1>10, <1>11, <1>12, <1>13, <1>14
        DEF HttpNext, ConnectionStep

\* The client understands all that it reads.
LEMMA KeptIsUnderstood == Kept => client.mode # "error"
<1> SUFFICES ASSUME Kept PROVE client.mode # "error"
    OBVIOUS
<1>1. PICK r \in Readers : Leads(Here, out, r, produced)
    BY DEF Kept, Answered
<1>2. client \in Clients
    BY <1>1, LeadsBounds DEF Here, Readers
<1> QED BY <1>2 DEF Clients

\* Whatever the network cuts and the client sends ahead, a connection serves
\* requests whole and in order, and the client takes for the answer to each
\* what was written for it (httpconnectionhandler.cpp:119-241,
\* httprequest.cpp:24-314, httpresponse.cpp:64-160); for any requests, limits
\* and applications that keep the lengths they announce.
THEOREM ConnectionKeepsItsPromise == HttpSpec => ServesAndAnswersInOrder
<1>1. HttpInit => Stream!StreamInit
    BY DEF HttpInit, Stream!StreamInit
<1>2. Kept /\ [HttpNext]_httpVars => [Stream!StreamNext]_(Stream!streamVars)
    BY StepStreams DEF Stream!streamVars, Asks
<1> QED BY <1>1, <1>2, AnswersComeTogether, KeptIsUnderstood, PTL
        DEF HttpSpec, ServesAndAnswersInOrder, Stream!StreamSpec

-----------------------------------------------------------------------------
(* What the promise of HttpStream comes to.                                *)

\* A beginning of a text is one of a longer text, and can itself be longer.
LEMMA BeginsMore ==
    ASSUME NEW S, NEW p \in Seq(S), NEW w \in Seq(S), NEW e \in S, Stream!Begins(p, w)
    PROVE  /\ Stream!Begins(p, Append(w, e))
           /\ Len(p) < Len(w) => Stream!Begins(Append(p, w[Len(p) + 1]), w)
<1>1. Len(p) \in Nat /\ Len(w) \in Nat /\ DOMAIN p = 1..Len(p) /\ Len(p) <= Len(w)
      /\ \A i \in 1..Len(p) : p[i] = w[i]
    BY DEF Stream!Begins
<1>2. Stream!Begins(p, Append(w, e))
    BY <1>1 DEF Stream!Begins
<1>3. ASSUME Len(p) < Len(w) PROVE Stream!Begins(Append(p, w[Len(p) + 1]), w)
    <2> DEFINE x == w[Len(p) + 1]
               q == Append(p, x)
    <2>1. x \in S
        BY <1>1, <1>3
    <2>2. Len(q) = Len(p) + 1 /\ DOMAIN q = 1..(Len(p) + 1) /\ q[Len(p) + 1] = x /\ \A i \in 1..Len(p) : q[i] = p[i]
        BY <2>1
    <2> HIDE DEF q
    <2>3. \A i \in 1..(Len(p) + 1) : q[i] = w[i]
        BY <1>1, <2>2
    <2>4. Stream!Begins(q, w)
        BY <1>1, <1>3, <2>2, <2>3 DEF Stream!Begins
    <2> QED BY <2>4 DEF q
<1> QED BY <1>2, <1>3

\* A shorter beginning does not see how the last element changes.
LEMMA BeginsLast ==
    ASSUME NEW S, NEW p \in Seq(S), NEW w \in Seq(S), NEW v \in Seq(S), Stream!Begins(p, w), Len(p) < Len(w),
           Len(v) = Len(w), \A i \in 1..(Len(w) - 1) : v[i] = w[i]
    PROVE  Stream!Begins(p, v)
    BY DEF Stream!Begins

\* The type of the requests asked.
LEMMA AsksType == sent \in Seq(Shape) => Asks \in Seq([id : Int, body : Seq(Signs)])
<1> SUFFICES ASSUME sent \in Seq(Shape) PROVE Asks \in Seq([id : Int, body : Seq(Signs)])
    OBVIOUS
<1> DEFINE S == [id : Int, body : Seq(Signs)]
<1>1. ASSUME NEW i \in DOMAIN sent PROVE Asked(i, sent[i]) \in S
    <2>1. i \in Nat /\ sent[i] \in Shape /\ i \in Int
        OBVIOUS
    <2>2. sent[i].body \in Nat
        BY <2>1 DEF Shape
    <2>3. Data(i, sent[i].body) \in Seq(Signs)
        BY <2>1, <2>2, DataIs
    <2> QED BY <2>1, <2>3 DEF Asked
<1> HIDE DEF S
<1>2. DOMAIN sent = 1..Len(sent) /\ Len(sent) \in Nat
    OBVIOUS
<1>3. Asks \in Seq(S)
    BY <1>1, <1>2 DEF Asks
<1> QED BY <1>3 DEF S

\* Every step keeps client and server in step.
LEMMA StepInStep ==
    Kept /\ Stream!InStep /\ [HttpNext]_httpVars => Stream!InStep'
<1> SUFFICES ASSUME Kept, Stream!InStep, [HttpNext]_httpVars PROVE Stream!InStep'
    OBVIOUS
<1> DEFINE S == [id : Int, body : Seq(Signs)]
           T == Seq(Datum)
           n == Len(produced)
<1>1. Kept'
    BY StepKept
<1>2. /\ Asks \in Seq(S) /\ Asks' \in Seq(S) /\ served \in Seq(S) /\ served' \in Seq(S)
      /\ produced \in Seq(T) /\ produced' \in Seq(T) /\ answers \in Seq(T) /\ answers' \in Seq(T)
    <2>1. sent \in Seq(Shape) /\ served \in Seq(S) /\ produced \in Seq(T) /\ answers \in Seq(T)
        BY DEF Kept, Read, ReadTypeOK, Answered
    <2>2. sent' \in Seq(Shape) /\ served' \in Seq(S) /\ produced' \in Seq(T) /\ answers' \in Seq(T)
        BY <1>1 DEF Kept, Read, ReadTypeOK, Answered
    <2>3. Asks \in Seq(S)
        BY <2>1, AsksType
    <2>4. Asks' \in Seq(S)
        <3>1. (sent \in Seq(Shape))'
            BY <2>2
        <3>2. (Asks \in Seq([id : Int, body : Seq(Signs)]))'
            BY <3>1, AsksType, PTL
        <3> QED BY <3>2
    <2> QED BY <2>1, <2>2, <2>3, <2>4
<1> HIDE DEF S, T
<1>3. /\ Stream!Begins(served, Asks) /\ Stream!Begins(answers, produced)
      /\ n \in {Len(served), Len(served) + 1} /\ n <= Len(Asks)
    BY DEF Stream!InStep, Asks
<1>4. n \in Nat /\ Len(served) \in Nat /\ Len(Asks) \in Nat /\ Len(answers) \in Nat
    BY <1>2
<1>5. SUFFICES /\ Stream!Begins(served, Asks)' /\ Stream!Begins(answers, produced)'
               /\ (Len(produced) \in {Len(served), Len(served) + 1} /\ Len(produced) <= Len(Asks))'
    BY DEF Stream!InStep, Asks
<1>6. Stream!StreamNext \/ UNCHANGED <<Asks, served, produced, answers>>
    BY StepStreams
<1>7. ASSUME NEW r \in AskedFor, Stream!Ask(r)
      PROVE  /\ Stream!Begins(served', Asks') /\ Stream!Begins(answers', produced')
             /\ Len(produced') \in {Len(served'), Len(served') + 1} /\ Len(produced') <= Len(Asks')
    <2>1. Asks' = Append(Asks, r) /\ served' = served /\ produced' = produced /\ answers' = answers
        BY <1>7 DEF Stream!Ask, Asks
    <2>2. r \in S
        <3>1. PICK i \in 1..MaxAsked, s \in Shapes : r = Asked(i, s)
            BY DEF AskedFor
        <3>2. s.body \in Nat /\ i \in Int
            BY ShapeAssumption
        <3>3. Data(i, s.body) \in Seq(Signs)
            BY <3>2, DataIs
        <3> QED BY <3>1, <3>2, <3>3 DEF Asked, S
    <2>3. Stream!Begins(served, Append(Asks, r)) /\ Len(Append(Asks, r)) = Len(Asks) + 1
        BY <1>2, <1>3, <2>2, BeginsMore
    <2> QED BY <2>1, <2>3, <1>3, <1>4
<1>8. ASSUME Stream!Serve
      PROVE  /\ Stream!Begins(served', Asks') /\ Stream!Begins(answers', produced')
             /\ Len(produced') \in {Len(served'), Len(served') + 1} /\ Len(produced') <= Len(Asks')
    <2>1. /\ Len(served) < Len(Asks) /\ n = Len(served) /\ Asks' = Asks /\ answers' = answers
          /\ served' = Append(served, Asks[Len(served) + 1]) /\ produced' = Append(produced, <<>>)
        BY <1>8 DEF Stream!Serve, Asks
    <2>2. <<>> \in T
        BY DEF T
    <2>3. Stream!Begins(served', Asks) /\ Stream!Begins(answers, produced')
        <3>1. Asks[Len(served) + 1] \in S
            BY <1>2, <1>4, <2>1
        <3> QED BY <1>2, <1>3, <2>1, <2>2, <3>1, BeginsMore
    <2>4. Len(produced') = n + 1 /\ Len(served') = Len(served) + 1
        BY <1>2, <2>1
    <2> QED BY <2>1, <2>3, <2>4, <1>4
<1>9. ASSUME NEW text, Stream!Produce(text)
      PROVE  /\ Stream!Begins(served', Asks') /\ Stream!Begins(answers', produced')
             /\ Len(produced') \in {Len(served'), Len(served') + 1} /\ Len(produced') <= Len(Asks')
    <2>1. /\ Len(answers) < n /\ Asks' = Asks /\ served' = served /\ answers' = answers
          /\ produced' = [produced EXCEPT ![n] = @ \o text]
        BY <1>9 DEF Stream!Produce, Asks
    <2> DEFINE longer == produced[n] \o text
    <2>2. produced' = [produced EXCEPT ![n] = longer]
        BY <2>1
    <2> HIDE DEF longer
    <2>3. n >= 1 /\ n \in DOMAIN produced
        BY <1>2, <1>4, <2>1
    <2>4. longer = produced'[n] /\ DOMAIN produced' = DOMAIN produced
        BY <2>2, <2>3, Zenon
    <2>5. longer \in T
        BY <1>2, <2>3, <2>4
    <2>6. produced' \in Seq(T) /\ Len(produced') = n /\ \A i \in 1..(n - 1) : produced'[i] = produced[i]
        BY <1>2, <2>2, <2>3, <2>5, Lengthened
    <2>7. Stream!Begins(answers, produced')
        BY <1>2, <1>3, <2>1, <2>6, BeginsLast
    <2> QED BY <2>1, <2>6, <2>7, <1>3, <1>4
<1>10. ASSUME Stream!Refuse
       PROVE  /\ Stream!Begins(served', Asks') /\ Stream!Begins(answers', produced')
              /\ Len(produced') \in {Len(served'), Len(served') + 1} /\ Len(produced') <= Len(Asks')
    <2>1. /\ Len(served) < Len(Asks) /\ n = Len(served) /\ Asks' = Asks /\ served' = served /\ answers' = answers
          /\ produced' = Append(produced, TooLarge)
        BY <1>10 DEF Stream!Refuse, Asks
    <2>2. TooLarge \in T
        <3>1. "413" \in Ids /\ 1 \in Nat
            BY DEF Ids
        <3> QED BY <3>1, DatumIs DEF TooLarge, T
    <2>3. Stream!Begins(answers, produced') /\ Len(produced') = n + 1
        BY <1>2, <1>3, <2>1, <2>2, BeginsMore
    <2> QED BY <2>1, <2>3, <1>3, <1>4
<1>11. ASSUME Stream!Receive
       PROVE  /\ Stream!Begins(served', Asks') /\ Stream!Begins(answers', produced')
              /\ Len(produced') \in {Len(served'), Len(served') + 1} /\ Len(produced') <= Len(Asks')
    <2>1. /\ Len(answers) < n /\ Asks' = Asks /\ served' = served /\ produced' = produced
          /\ answers' = Append(answers, produced[Len(answers) + 1])
        BY <1>11 DEF Stream!Receive, Asks
    <2>2. produced[Len(answers) + 1] \in T
        BY <1>2, <1>4, <2>1
    <2>3. Stream!Begins(answers', produced)
        BY <1>2, <1>3, <2>1, <2>2, BeginsMore
    <2> QED BY <2>1, <2>3, <1>3, <1>4
<1>12. ASSUME Stream!Reconnect
       PROVE  /\ Stream!Begins(served', Asks') /\ Stream!Begins(answers', produced')
              /\ Len(produced') \in {Len(served'), Len(served') + 1} /\ Len(produced') <= Len(Asks')
    <2>1. Asks' = <<>> /\ served' = <<>> /\ produced' = <<>> /\ answers' = <<>>
        BY <1>12 DEF Stream!Reconnect, Asks
    <2>2. Stream!Begins(<<>>, <<>>)
        BY DEF Stream!Begins
    <2> QED BY <2>1, <2>2
<1>13. CASE UNCHANGED <<Asks, served, produced, answers>>
    BY <1>3, <1>13
<1> QED BY <1>6, <1>7, <1>8, <1>9, <1>10, <1>11, <1>12, <1>13 DEF Stream!StreamNext, AskedFor

\* The application is called with a beginning of what the client has sent, and
\* what the client has for answers is a beginning of what was written for them
\* (httpconnectionhandler.cpp:119-241).
THEOREM ClientAndServerAreInStep == HttpSpec => []Stream!InStep
<1>1. HttpInit => Stream!InStep
    <2> SUFFICES ASSUME HttpInit PROVE Stream!InStep
        OBVIOUS
    <2>1. Asks = <<>> /\ served = <<>> /\ produced = <<>> /\ answers = <<>>
        BY DEF HttpInit, Asks
    <2> QED BY <2>1 DEF Stream!InStep, Stream!Begins, Asks
<1> QED BY <1>1, StepInStep, AnswersComeTogether, PTL DEF HttpSpec

-----------------------------------------------------------------------------
(* SessionStore: counting the references of one thread.                    *)

\* One for what is so.
One(b) == IF b THEN 1 ELSE 0

\* The threads that refer to a session in each of three ways.
Holding(s) == {t \in Server : thread[t].held = s}
Passing(s) == {t \in Server : thread[t].temp = s}
Leaving(s) == {t \in Server : Doing(t, "detach") /\ thread[t].id = s}

\* What one thread refers to, and what the map and the timer do.
Own(t, s) == One(thread[t].held = s) + One(thread[t].temp = s)
             + One(thread[t].at = "detach" /\ thread[t].id = s)
\* The references from the map and from the slot of the timer.
Entry(s) == One(s \in sessions) + One(timer.session = s)

\* Two sets of threads that agree on all but one thread.
LEMMA Recount ==
    ASSUME NEW A \in SUBSET Server, NEW B \in SUBSET Server, NEW t \in Server,
           A \ {t} = B \ {t}
    PROVE  /\ Cardinality(A) \in Nat /\ Cardinality(B) \in Nat
           /\ Cardinality(B) + One(t \in A) = Cardinality(A) + One(t \in B)
           /\ One(t \in A) <= Cardinality(A)
<1> DEFINE C == A \ {t}
<1>1. IsFiniteSet(A) /\ IsFiniteSet(B) /\ IsFiniteSet(C)
    BY ServerAssumption, FS_Subset
<1>2. /\ Cardinality(C) \in Nat /\ t \notin C
      /\ Cardinality(C \cup {t}) = Cardinality(C) + 1
    BY <1>1, FS_CardinalityType, FS_AddElement
<1>3. /\ t \in A => A = C \cup {t}
      /\ t \notin A => A = C
      /\ t \in B => B = C \cup {t}
      /\ t \notin B => B = C
    OBVIOUS
<1> HIDE DEF C
<1> QED BY <1>2, <1>3 DEF One

\* When one thread moves, the references of the threads change by its own.
LEMMA OneThreadMoves ==
    ASSUME NEW t \in Server, NEW s \in Session,
           \A u \in Server : u # t => thread'[u] = thread[u],
           \A x \in Session : refCount[x] = References(x),
           refCount'[s] = refCount[s] + (Own(t, s)' - Own(t, s)) + (Entry(s)' - Entry(s))
    PROVE  refCount'[s] = References(s)'
<1>1. /\ Holding(s) \in SUBSET Server /\ Holding(s)' \in SUBSET Server
      /\ Passing(s) \in SUBSET Server /\ Passing(s)' \in SUBSET Server
      /\ Leaving(s) \in SUBSET Server /\ Leaving(s)' \in SUBSET Server
    BY DEF Holding, Passing, Leaving
<1>2. /\ Holding(s) \ {t} = Holding(s)' \ {t}
      /\ Passing(s) \ {t} = Passing(s)' \ {t}
      /\ Leaving(s) \ {t} = Leaving(s)' \ {t}
    BY DEF Holding, Passing, Leaving, Doing
<1>3. /\ Cardinality(Holding(s)) \in Nat /\ Cardinality(Holding(s)') \in Nat
      /\ Cardinality(Holding(s)') + One(t \in Holding(s)) = Cardinality(Holding(s)) + One(t \in Holding(s)')
    BY <1>1, <1>2, Recount
<1>4. /\ Cardinality(Passing(s)) \in Nat /\ Cardinality(Passing(s)') \in Nat
      /\ Cardinality(Passing(s)') + One(t \in Passing(s)) = Cardinality(Passing(s)) + One(t \in Passing(s)')
    BY <1>1, <1>2, Recount
<1>5. /\ Cardinality(Leaving(s)) \in Nat /\ Cardinality(Leaving(s)') \in Nat
      /\ Cardinality(Leaving(s)') + One(t \in Leaving(s)) = Cardinality(Leaving(s)) + One(t \in Leaving(s)')
    BY <1>1, <1>2, Recount
<1>6. /\ Own(t, s) = One(t \in Holding(s)) + One(t \in Passing(s)) + One(t \in Leaving(s))
      /\ Own(t, s)' = One(t \in Holding(s)') + One(t \in Passing(s)') + One(t \in Leaving(s)')
    BY DEF Own, Holding, Passing, Leaving, Doing, One
<1>7. /\ References(s) = Entry(s) + Cardinality(Holding(s)) + Cardinality(Passing(s)) + Cardinality(Leaving(s))
      /\ References(s)' = Entry(s)' + Cardinality(Holding(s)') + Cardinality(Passing(s)') + Cardinality(Leaving(s)')
    BY DEF References, Entry, One, Holding, Passing, Leaving
<1>8. refCount[s] = References(s)
    OBVIOUS
<1>9. Entry(s) \in Nat /\ Entry(s)' \in Nat
    BY DEF Entry, One
<1>10. \A b : One(b) \in Nat
    BY DEF One
<1> DEFINE H == Cardinality(Holding(s))
           HH == Cardinality(Holding(s)')
           P == Cardinality(Passing(s))
           PP == Cardinality(Passing(s)')
           L == Cardinality(Leaving(s))
           LL == Cardinality(Leaving(s)')
<1> HIDE DEF H, HH, P, PP, L, LL
<1> QED BY <1>3, <1>4, <1>5, <1>6, <1>7, <1>8, <1>9, <1>10, SMTT(20)

-----------------------------------------------------------------------------
(* Attaching and detaching.                                                *)

\* Whoever is referred to is alive and counted.
LEMMA ReferredIsAlive ==
    ASSUME SessInv
    PROVE  /\ \A s \in Session : References(s) \in Nat /\ (s \in alive <=> refCount[s] > 0)
           /\ \A t \in Server : {thread[t].held, thread[t].temp} \subseteq alive \cup {Nobody}
           /\ \A t \in Server : thread[t].at = "detach" => thread[t].id \in alive \cup {Nobody}
<1>1. ASSUME NEW s \in Session
      PROVE  /\ Cardinality(Holding(s)) \in Nat /\ Cardinality(Passing(s)) \in Nat
             /\ Cardinality(Leaving(s)) \in Nat
             /\ Holding(s) # {} => Cardinality(Holding(s)) > 0
             /\ Passing(s) # {} => Cardinality(Passing(s)) > 0
             /\ Leaving(s) # {} => Cardinality(Leaving(s)) > 0
    <2>1. /\ Holding(s) \in SUBSET Server /\ Passing(s) \in SUBSET Server
          /\ Leaving(s) \in SUBSET Server
        BY DEF Holding, Passing, Leaving
    <2>2. IsFiniteSet(Holding(s)) /\ IsFiniteSet(Passing(s)) /\ IsFiniteSet(Leaving(s))
        BY <2>1, ServerAssumption, FS_Subset
    <2>3. /\ Cardinality(Holding(s)) \in Nat /\ Cardinality(Passing(s)) \in Nat
          /\ Cardinality(Leaving(s)) \in Nat
        BY <2>2, FS_CardinalityType
    <2>4. /\ Cardinality(Holding(s)) = 0 <=> Holding(s) = {}
          /\ Cardinality(Passing(s)) = 0 <=> Passing(s) = {}
          /\ Cardinality(Leaving(s)) = 0 <=> Leaving(s) = {}
        BY <2>2, FS_EmptySet
    <2> QED BY <2>3, <2>4
<1>2. \A s \in Session :
        /\ References(s) = Entry(s) + Cardinality(Holding(s)) + Cardinality(Passing(s))
                              + Cardinality(Leaving(s))
        /\ Entry(s) \in Nat
    BY DEF References, Entry, One, Holding, Passing, Leaving
<1>3. \A s \in Session : /\ References(s) \in Nat
                         /\ Holding(s) # {} => References(s) > 0
                         /\ Passing(s) # {} => References(s) > 0
                         /\ Leaving(s) # {} => References(s) > 0
    BY <1>1, <1>2
<1>4. ASSUME NEW t \in Server
      PROVE  /\ thread[t].held \in Session => thread[t].held \in alive
             /\ thread[t].temp \in Session => thread[t].temp \in alive
             /\ thread[t].at = "detach" /\ thread[t].id \in Session => thread[t].id \in alive
    <2>1. /\ t \in Holding(thread[t].held) /\ t \in Passing(thread[t].temp)
          /\ thread[t].at = "detach" => t \in Leaving(thread[t].id)
        BY DEF Holding, Passing, Leaving, Doing
    <2> QED BY <1>3, <2>1 DEF SessInv, DataLivesWhileReferenced
<1> QED BY <1>3, <1>4 DEF SessInv, DataLivesWhileReferenced, ThreadPlaces

\* What copying and destroying an HttpSession do to the counts.
LEMMA AttachCounts ==
    ASSUME SessInv, NEW x \in alive \cup {Nobody}, Attach(x)
    PROVE  /\ refCount' \in [Session -> Nat]
           /\ \A s \in Session : /\ refCount'[s] = refCount[s] + One(x = s)
                                 /\ s \in alive' <=> refCount'[s] > 0
<1>1. refCount \in [Session -> Nat] /\ alive \subseteq Session
    BY DEF SessInv, SessTypeOK
<1>2. \A s \in Session : s \in alive <=> refCount[s] > 0
    BY ReferredIsAlive
<1> QED BY <1>1, <1>2, SessionAssumption DEF Attach, One

LEMMA DetachCounts ==
    ASSUME SessInv, NEW x \in alive \cup {Nobody}, Detach(x)
    PROVE  /\ refCount' \in [Session -> Nat] /\ alive' \subseteq alive
           /\ \A s \in Session : /\ refCount'[s] = refCount[s] - One(x = s)
                                 /\ s \in alive' <=> refCount'[s] > 0
<1>1. refCount \in [Session -> Nat] /\ alive \subseteq Session
    BY DEF SessInv, SessTypeOK
<1>2. \A s \in Session : s \in alive <=> refCount[s] > 0
    BY ReferredIsAlive
<1> QED BY <1>1, <1>2, SessionAssumption DEF Detach, One

\* It is enough that every step changes each count by the references it makes.
LEMMA CountsSuffice ==
    ASSUME SessInv, NEW t \in Server,
           \A u \in Server : u # t => thread'[u] = thread[u],
           refCount' \in [Session -> Nat],
           \A s \in Session :
              /\ refCount'[s] = refCount[s] + (Own(t, s)' - Own(t, s)) + (Entry(s)' - Entry(s))
              /\ s \in alive' <=> refCount'[s] > 0
    PROVE  DataLivesWhileReferenced'
<1>1. \A s \in Session : refCount'[s] = References(s)'
    BY OneThreadMoves DEF SessInv, DataLivesWhileReferenced
<1> QED BY <1>1 DEF DataLivesWhileReferenced

\* What is in the map or copied by the timer is alive, because it is counted.
LEMMA EntriesAreAlive ==
    ASSUME DataLivesWhileReferenced', sessions' \subseteq Session,
           timer'.session \in Session \cup {Nobody}
    PROVE  sessions' \subseteq alive' /\ timer'.session \in alive' \cup {Nobody}
<1>1. ASSUME NEW s \in Session, s \in sessions' \/ timer'.session = s PROVE s \in alive'
    <2>1. /\ Holding(s)' \in SUBSET Server /\ Passing(s)' \in SUBSET Server
          /\ Leaving(s)' \in SUBSET Server
        BY DEF Holding, Passing, Leaving
    <2>2. IsFiniteSet(Holding(s)') /\ IsFiniteSet(Passing(s)') /\ IsFiniteSet(Leaving(s)')
        BY <2>1, ServerAssumption, FS_Subset
    <2>3. /\ Cardinality(Holding(s)') \in Nat /\ Cardinality(Passing(s)') \in Nat
          /\ Cardinality(Leaving(s)') \in Nat
        BY <2>2, FS_CardinalityType
    <2>4. References(s)' = Entry(s)' + Cardinality(Holding(s)') + Cardinality(Passing(s)')
                              + Cardinality(Leaving(s)')
        BY DEF References, Entry, One, Holding, Passing, Leaving
    <2>5. Entry(s)' \in Nat /\ Entry(s)' > 0
        BY <1>1 DEF Entry, One
    <2>6. References(s)' > 0
        BY <2>3, <2>4, <2>5
    <2> QED BY <2>6 DEF DataLivesWhileReferenced
<1> QED BY <1>1

-----------------------------------------------------------------------------
(* Every step keeps the invariant.                                         *)

\* What a step has still to show when its counts are right.
LEMMA Completed ==
    ASSUME ThreadPlaces', TimerPlaces', DataLivesWhileReferenced',
           refCount' \in [Session -> Nat], age' \in [Session -> 0..MaxAge],
           alive' \subseteq Session, sessions' \subseteq Session,
           browser' \in Session \cup {Nobody}
    PROVE  SessInv'
<1>1. timer'.session \in Session \cup {Nobody}
    BY DEF TimerPlaces
<1>2. sessions' \subseteq alive' /\ timer'.session \in alive' \cup {Nobody}
    BY <1>1, EntriesAreAlive
<1> QED BY <1>2 DEF SessInv, SessTypeOK

\* An access keeps the ages in their bounds.
LEMMA TouchedType ==
    ASSUME SessInv, NEW s \in Session \cup {Nobody}
    PROVE  Touched(s) \in [Session -> 0..MaxAge]
<1>1. 0 \in 0..MaxAge
    BY SessionAssumption DEF MaxAge
<1> QED BY <1>1 DEF Touched, SessInv, SessTypeOK

\* The map does not change while the timer has the mutex.
LEMMA TimerKept ==
    ASSUME TimerPlaces, timer' = timer, sessions' = sessions \/ timer.at = "idle"
    PROVE  TimerPlaces'
BY DEF TimerPlaces

\* What a thread is at, as a record.
ThreadState ==
    [at : {"idle", "service", "lookup", "refresh", "touch", "assign", "detach", "destroy", "remove"},
     cookie : Session \cup {Nobody}, set : BOOLEAN, id : Session \cup {Nobody},
     held : Session \cup {Nobody}, temp : Session \cup {Nobody}]

\* A thread that is past its lookup may hold on to any session.
LEMMA PlacesKept ==
    ASSUME ThreadPlaces, NEW t \in Server, NEW r \in ThreadState,
           thread' = [thread EXCEPT ![t] = r],
           thread'[t].at \notin {"idle", "service", "lookup"}
    PROVE  ThreadPlaces'
<1>1. thread \in [Server -> ThreadState] /\ thread' \in [Server -> ThreadState]
    BY DEF ThreadPlaces, ThreadState
<1>2. \A u \in Server : u # t => thread'[u] = thread[u]
    BY <1>1
<1>3. \A u \in Server :
        /\ thread'[u].at \in {"idle", "service", "lookup"} => thread'[u].temp = Nobody
        /\ thread'[u].at = "idle" => thread'[u].held = Nobody
    BY <1>2 DEF ThreadPlaces
<1> QED BY <1>1, <1>3 DEF ThreadPlaces, ThreadState

\* A step of a thread that attaches no object and detaches none.
LEMMA PlainStep ==
    ASSUME SessInv, NEW t \in Server,
           Serve(t) \/ GetSession(t) \/ NullSession(t) \/ Refresh(t) \/ Touch(t)
    PROVE  SessInv'
<1>1. /\ UNCHANGED <<refCount, alive, sessions, browser, timer>>
      /\ \A u \in Server : u # t => thread'[u] = thread[u]
    BY DEF Serve, GetSession, NullSession, Refresh, Touch, SessInv, ThreadPlaces
<1>2. age' \in [Session -> 0..MaxAge]
    <2>1. age' = age \/ age' = Touched(thread[t].temp)
        BY DEF Serve, GetSession, NullSession, Refresh, Touch
    <2>2. thread[t].temp \in Session \cup {Nobody}
        BY DEF SessInv, ThreadPlaces
    <2> QED BY <2>1, <2>2, TouchedType DEF SessInv, SessTypeOK
<1>3. ThreadPlaces' /\ \A s : Own(t, s)' = Own(t, s)
    <2>1. CASE Serve(t)
        BY <2>1 DEF Serve, Doing, Idle, SessInv, SessTypeOK, ThreadPlaces, Own
    <2>2. CASE GetSession(t)
        BY <2>2, ZenonT(60) DEF GetSession, Doing, SessInv, ThreadPlaces, Own
    <2>3. CASE NullSession(t)
        BY <2>3, ZenonT(60) DEF NullSession, Doing, SessInv, ThreadPlaces, Own
    <2>4. CASE Refresh(t)
        BY <2>4, ZenonT(60) DEF Refresh, Doing, SessInv, ThreadPlaces, Own
    <2>5. CASE Touch(t)
        BY <2>5 DEF Touch, Doing, SessInv, ThreadPlaces, Own
    <2> QED BY <2>1, <2>2, <2>3, <2>4, <2>5
<1>4. DataLivesWhileReferenced'
    <2>1. /\ refCount' \in [Session -> Nat]
          /\ \A s \in Session : refCount[s] \in Nat /\ (s \in alive <=> refCount[s] > 0)
        BY <1>1, ReferredIsAlive DEF SessInv, SessTypeOK
    <2>2. \A s : Own(t, s) \in Nat /\ Entry(s)' = Entry(s) /\ Entry(s) \in Nat
        BY <1>1 DEF Own, Entry, One
    <2> QED BY <1>1, <1>3, <2>1, <2>2, CountsSuffice
<1> QED BY <1>1, <1>2, <1>3, <1>4, TimerKept, Completed DEF SessInv, SessTypeOK

\* A thread attaches an object.
LEMMA AttachingStep ==
    ASSUME SessInv, NEW t \in Server,
           Found(t) \/ GetSessionById(t) \/ Assign(t) \/ RemoveSession(t)
    PROVE  SessInv'
<1>1. /\ UNCHANGED <<sessions, browser, timer>>
      /\ \A u \in Server : u # t => thread'[u] = thread[u]
    BY DEF Found, GetSessionById, Assign, RemoveSession, SessInv, ThreadPlaces
<1>2. /\ sessions \subseteq alive /\ alive \subseteq Session
      /\ {thread[t].held, thread[t].temp} \subseteq alive \cup {Nobody}
    BY ReferredIsAlive DEF SessInv, SessTypeOK
<1>3. PICK y \in alive \cup {Nobody} :
        /\ Attach(y) /\ ThreadPlaces'
        /\ \A s \in Session : Own(t, s)' = Own(t, s) + One(y = s)
    <2>1. CASE Found(t)
        <3>1. thread[t].id \in alive
            BY <1>2, <2>1 DEF Found
        <3>2. ThreadPlaces' /\ \A s \in Session : Own(t, s)' = Own(t, s) + One(thread[t].id = s)
            BY <2>1, <3>1, SessionAssumption
               DEF Found, Doing, SessInv, SessTypeOK, ThreadPlaces, Own, One
        <3> QED BY <2>1, <3>1, <3>2 DEF Found
    <2>2. CASE GetSessionById(t)
        <3> DEFINE z == IF thread[t].cookie \in sessions THEN thread[t].cookie ELSE Nobody
        <3>1. z \in alive \cup {Nobody}
            BY <1>2
        <3>2. /\ thread' = [thread EXCEPT ![t].at = "touch", ![t].temp = z]
              /\ thread[t].at = "service" /\ thread[t].temp = Nobody
            BY <2>2 DEF GetSessionById, Doing, SessInv, ThreadPlaces
        <3> HIDE DEF z
        <3>3. /\ ThreadPlaces' /\ thread'[t].at = "touch" /\ thread'[t].temp = z
              /\ thread'[t].held = thread[t].held
            <4>1. z \in Session \cup {Nobody}
                BY <1>2, <3>1
            <4>2. /\ thread'[t].at = "touch" /\ thread'[t].temp = z
                  /\ thread'[t].held = thread[t].held
                  /\ \A u \in Server : u # t => thread'[u] = thread[u]
                BY <3>2 DEF SessInv, ThreadPlaces
            <4>3. ThreadPlaces'
                <5>1. thread' = [thread EXCEPT ![t] = [thread[t] EXCEPT !.at = "touch", !.temp = z]]
                    BY <3>2 DEF SessInv, ThreadPlaces
                <5>2. [thread[t] EXCEPT !.at = "touch", !.temp = z] \in ThreadState
                    BY <4>1 DEF SessInv, ThreadPlaces, ThreadState
                <5> QED BY <4>2, <5>1, <5>2, PlacesKept DEF SessInv
            <4> QED BY <4>2, <4>3
        <3>4. \A s \in Session : Own(t, s)' = Own(t, s) + One(z = s)
            BY <3>2, <3>3, SessionAssumption DEF Own, One
        <3> QED BY <2>2, <3>1, <3>3, <3>4 DEF GetSessionById, z
    <2>3. CASE Assign(t)
        <3>1. /\ ThreadPlaces' /\ thread[t].at = "assign"
              /\ thread'[t].at = "detach" /\ thread'[t].temp = thread[t].temp
              /\ thread'[t].held = thread[t].temp /\ thread'[t].id = thread[t].held
            BY <2>3, ZenonT(60) DEF Assign, Doing, SessInv, ThreadPlaces
        <3>2. \A s \in Session : Own(t, s)' = Own(t, s) + One(thread[t].temp = s)
            BY <3>1 DEF Own, One
        <3> QED BY <1>2, <2>3, <3>1, <3>2 DEF Assign
    <2>4. CASE RemoveSession(t)
        <3>1. /\ ThreadPlaces' /\ thread[t].at = "service" /\ thread[t].temp = Nobody
              /\ thread'[t].at = "remove" /\ thread'[t].temp = thread[t].held
              /\ thread'[t].held = thread[t].held
            BY <2>4, ZenonT(60) DEF RemoveSession, Doing, SessInv, ThreadPlaces
        <3>2. \A s \in Session : Own(t, s)' = Own(t, s) + One(thread[t].held = s)
            BY <3>1, SessionAssumption DEF Own, One
        <3> QED BY <1>2, <2>4, <3>1, <3>2 DEF RemoveSession
    <2> QED BY <2>1, <2>2, <2>3, <2>4
<1>4. age' \in [Session -> 0..MaxAge]
    <2>1. age' = age \/ age' = Touched(thread[t].temp)
        BY DEF Found, GetSessionById, Assign, RemoveSession
    <2>2. thread[t].temp \in Session \cup {Nobody}
        BY DEF SessInv, ThreadPlaces
    <2> QED BY <2>1, <2>2, TouchedType DEF SessInv, SessTypeOK
<1>5. refCount' \in [Session -> Nat] /\ alive' = alive /\ DataLivesWhileReferenced'
    <2>1. /\ refCount' \in [Session -> Nat] /\ refCount \in [Session -> Nat]
          /\ \A s \in Session : /\ refCount'[s] = refCount[s] + One(y = s)
                                /\ s \in alive' <=> refCount'[s] > 0
        BY <1>3, AttachCounts DEF SessInv, SessTypeOK
    <2>2. \A s : Own(t, s) \in Nat /\ Entry(s)' = Entry(s) /\ Entry(s) \in Nat /\ One(y = s) \in Nat
        BY <1>1 DEF Own, Entry, One
    <2> QED BY <1>1, <1>3, <2>1, <2>2, CountsSuffice DEF Attach
<1> QED BY <1>1, <1>2, <1>3, <1>4, <1>5, TimerKept, Completed DEF SessInv, SessTypeOK

\* A thread detaches an object, or one that an entry of the map held.
LEMMA DetachingStep ==
    ASSUME SessInv, NEW t \in Server,
           DetachOld(t) \/ Destroy(t) \/ RemoveEntry(t) \/ Answer(t)
    PROVE  SessInv'
<1>1. /\ timer' = timer /\ age' = age
      /\ \A u \in Server : u # t => thread'[u] = thread[u]
    BY DEF DetachOld, Destroy, RemoveEntry, Answer, SessInv, ThreadPlaces
<1>2. /\ alive \subseteq Session /\ sessions \subseteq alive
      /\ thread[t].cookie \in Session \cup {Nobody} /\ browser \in Session \cup {Nobody}
      /\ {thread[t].held, thread[t].temp} \subseteq alive \cup {Nobody}
      /\ thread[t].at = "detach" => thread[t].id \in alive \cup {Nobody}
    BY ReferredIsAlive DEF SessInv, SessTypeOK, ThreadPlaces
<1>3. PICK y \in alive \cup {Nobody} :
        /\ Detach(y) /\ ThreadPlaces'
        /\ \A s \in Session : Own(t, s)' + Entry(s)' = Own(t, s) + Entry(s) - One(y = s)
    <2>1. CASE DetachOld(t)
        <3>1. /\ ThreadPlaces' /\ thread[t].at = "detach" /\ thread'[t].at = "destroy"
              /\ thread'[t].temp = thread[t].temp /\ thread'[t].held = thread[t].held
            BY <2>1, ZenonT(60) DEF DetachOld, Doing, SessInv, ThreadPlaces
        <3>3. \A s \in Session : Own(t, s)' = Own(t, s) - One(thread[t].id = s)
            BY <3>1 DEF Own, One
        <3>2. \A s : Entry(s)' = Entry(s) /\ Own(t, s) \in Nat /\ Entry(s) \in Nat
            BY <2>1 DEF DetachOld, Entry, Own, One
        <3> QED BY <1>2, <2>1, <3>1, <3>2, <3>3 DEF DetachOld, One
    <2>2. CASE Destroy(t)
        <3>1. /\ ThreadPlaces' /\ thread[t].at = "destroy" /\ thread'[t].at = "service"
              /\ thread'[t].temp = Nobody /\ thread'[t].held = thread[t].held
            BY <2>2, ZenonT(60) DEF Destroy, Doing, SessInv, ThreadPlaces
        <3>3. \A s \in Session : Own(t, s)' = Own(t, s) - One(thread[t].temp = s)
            BY <3>1, SessionAssumption DEF Own, One
        <3>2. \A s : Entry(s)' = Entry(s) /\ Own(t, s) \in Nat /\ Entry(s) \in Nat
            BY <2>2 DEF Destroy, Entry, Own, One
        <3> QED BY <1>2, <2>2, <3>1, <3>2, <3>3 DEF Destroy, One
    <2>3. CASE RemoveEntry(t)
        <3> DEFINE z == IF thread[t].temp \in sessions THEN thread[t].temp ELSE Nobody
        <3>1. ThreadPlaces' /\ \A s : Own(t, s)' = Own(t, s) /\ Own(t, s) \in Nat
            BY <2>3 DEF RemoveEntry, Doing, SessInv, ThreadPlaces, Own, One
        <3>2. \A s \in Session : Entry(s)' = Entry(s) - One(z = s) /\ Entry(s) \in Nat /\ One(z = s) \in Nat
            BY <2>3, SessionAssumption DEF RemoveEntry, Entry, One
        <3>3. z \in alive \cup {Nobody}
            BY <1>2
        <3> QED BY <2>3, <3>1, <3>2, <3>3 DEF RemoveEntry
    <2>4. CASE Answer(t)
        <3>1. ThreadPlaces' /\ \A s \in Session : Own(t, s)' = Own(t, s) - One(thread[t].held = s)
            BY <2>4, SessionAssumption DEF Answer, Doing, Idle, SessInv, ThreadPlaces, Own, One
        <3>2. \A s : Entry(s)' = Entry(s) /\ Own(t, s) \in Nat /\ Entry(s) \in Nat
            BY <2>4 DEF Answer, Entry, Own, One
        <3> QED BY <1>2, <2>4, <3>1, <3>2 DEF Answer, One
    <2> QED BY <2>1, <2>2, <2>3, <2>4
<1>4. /\ refCount' \in [Session -> Nat] /\ alive' \subseteq alive
      /\ DataLivesWhileReferenced'
    <2>1. /\ refCount' \in [Session -> Nat] /\ refCount \in [Session -> Nat]
          /\ alive' \subseteq alive
          /\ \A s \in Session : /\ refCount'[s] = refCount[s] - One(y = s)
                                /\ s \in alive' <=> refCount'[s] > 0
        BY <1>3, DetachCounts DEF SessInv, SessTypeOK
    <2>2. \A s : /\ Own(t, s) \in Nat /\ Own(t, s)' \in Nat /\ One(y = s) \in Nat
                /\ Entry(s) \in Nat /\ Entry(s)' \in Nat
        BY DEF Own, Entry, One
    <2>3. \A s \in Session :
            refCount'[s] = refCount[s] + (Own(t, s)' - Own(t, s)) + (Entry(s)' - Entry(s))
        <3> TAKE s \in Session
        <3>1. Own(t, s)' + Entry(s)' = Own(t, s) + Entry(s) - One(y = s)
            BY <1>3
        <3>2. /\ refCount'[s] = refCount[s] - One(y = s)
              /\ refCount[s] \in Nat
            BY <2>1
        <3> QED BY <2>2, <3>1, <3>2
    <2> QED BY <1>1, <2>1, <2>3, CountsSuffice
<1>5. /\ sessions' = sessions \/ timer.at = "idle"
      /\ sessions' \subseteq sessions /\ browser' \in Session \cup {Nobody}
    BY <1>2 DEF DetachOld, Destroy, RemoveEntry, Answer, MutexFree
<1> QED BY <1>1, <1>2, <1>3, <1>4, <1>5, TimerKept, Completed DEF SessInv, SessTypeOK

\* A new session is counted twice, for the map and for the thread that made it.
LEMMA CreatingStep ==
    ASSUME SessInv, NEW t \in Server, CreateSession(t)
    PROVE  SessInv'
<1>1. PICK x \in Session :
        /\ Fresh(x)
        /\ refCount' = [refCount EXCEPT ![x] = 2]
        /\ age' = [age EXCEPT ![x] = 0]
        /\ alive' = alive \cup {x}
        /\ sessions' = sessions \cup {x}
        /\ thread' = [thread EXCEPT ![t].at = "assign", ![t].temp = x, ![t].cookie = x,
                                    ![t].set = TRUE, ![t].id = Nobody]
    BY DEF CreateSession
<1>2. /\ thread[t].at = "lookup" /\ timer.at = "idle" /\ UNCHANGED <<browser, timer>>
      /\ thread[t].temp = Nobody /\ timer.session = Nobody
    BY DEF CreateSession, Doing, MutexFree, SessInv, ThreadPlaces, TimerPlaces
<1>3. x \notin alive /\ refCount[x] = 0 /\ x \notin sessions /\ alive \subseteq Session
    BY <1>1, ReferredIsAlive DEF Fresh, SessInv, SessTypeOK
<1>4. /\ ThreadPlaces'
      /\ thread'[t].at = "assign" /\ thread'[t].temp = x /\ thread'[t].held = thread[t].held
      /\ \A u \in Server : u # t => thread'[u] = thread[u]
    <2>1. /\ thread'[t].at = "assign" /\ thread'[t].temp = x /\ thread'[t].held = thread[t].held
          /\ \A u \in Server : u # t => thread'[u] = thread[u]
        BY <1>1 DEF SessInv, ThreadPlaces
    <2>2. ThreadPlaces'
        <3> DEFINE r == [thread[t] EXCEPT !.at = "assign", !.temp = x, !.cookie = x,
                                          !.set = TRUE, !.id = Nobody]
        <3>1. thread' = [thread EXCEPT ![t] = r]
            BY <1>1 DEF SessInv, ThreadPlaces
        <3>2. r \in ThreadState
            BY DEF SessInv, ThreadPlaces, ThreadState
        <3> HIDE DEF r
        <3> QED BY <2>1, <3>1, <3>2, PlacesKept DEF SessInv
    <2> QED BY <2>1, <2>2
<1>5. \A s \in Session : /\ Own(t, s)' = Own(t, s) + One(x = s)
                         /\ Entry(s)' = Entry(s) + One(x = s)
    BY <1>1, <1>2, <1>3, <1>4, SessionAssumption DEF Own, Entry, One
<1>6. \A s \in Session : Own(t, s) \in Nat /\ Entry(s) \in Nat /\ One(x = s) \in Nat
    BY DEF Own, Entry, One
<1>7. /\ refCount' \in [Session -> Nat]
      /\ \A s \in Session : /\ refCount[s] \in Nat
                            /\ refCount'[s] = refCount[s] + One(x = s) + One(x = s)
                            /\ s \in alive' <=> refCount'[s] > 0
    BY <1>1, <1>3, ReferredIsAlive DEF SessInv, SessTypeOK, One
<1>8. DataLivesWhileReferenced'
    <2>1. \A s \in Session :
            refCount'[s] = refCount[s] + (Own(t, s)' - Own(t, s)) + (Entry(s)' - Entry(s))
        BY <1>5, <1>6, <1>7
    <2> QED BY <1>4, <1>7, <2>1, CountsSuffice
<1>9. age' \in [Session -> 0..MaxAge] /\ TimerPlaces'
    <2>1. 0 \in 0..MaxAge
        BY SessionAssumption DEF MaxAge
    <2> QED BY <1>1, <1>2, <2>1, TimerKept DEF SessInv, SessTypeOK
<1> QED BY <1>1, <1>2, <1>3, <1>4, <1>7, <1>8, <1>9, Completed DEF SessInv, SessTypeOK

-----------------------------------------------------------------------------
(* The timer and the clock.                                                *)

\* Where no thread moves a step is accounted for by the map and the timer.
LEMMA NoThreadMoves ==
    ASSUME SessInv, UNCHANGED thread, refCount' \in [Session -> Nat],
           \A s \in Session : /\ refCount'[s] = refCount[s] + (Entry(s)' - Entry(s))
                              /\ s \in alive' <=> refCount'[s] > 0
    PROVE  DataLivesWhileReferenced' /\ ThreadPlaces'
<1>1. ASSUME NEW s \in Session PROVE refCount'[s] = References(s)'
    <2>1. /\ Holding(s)' = Holding(s) /\ Passing(s)' = Passing(s) /\ Leaving(s)' = Leaving(s)
        BY DEF Holding, Passing, Leaving, Doing
    <2>2. /\ Holding(s) \in SUBSET Server /\ Passing(s) \in SUBSET Server
          /\ Leaving(s) \in SUBSET Server
        BY DEF Holding, Passing, Leaving
    <2>3. IsFiniteSet(Holding(s)) /\ IsFiniteSet(Passing(s)) /\ IsFiniteSet(Leaving(s))
        BY <2>2, ServerAssumption, FS_Subset
    <2>4. /\ Cardinality(Holding(s)) \in Nat /\ Cardinality(Passing(s)) \in Nat
          /\ Cardinality(Leaving(s)) \in Nat
        BY <2>3, FS_CardinalityType
    <2>5. /\ References(s) = Entry(s) + Cardinality(Holding(s)) + Cardinality(Passing(s))
                                + Cardinality(Leaving(s))
          /\ References(s)' = Entry(s)' + Cardinality(Holding(s)') + Cardinality(Passing(s)')
                                + Cardinality(Leaving(s)')
          /\ Entry(s) \in Nat /\ Entry(s)' \in Nat
        BY DEF References, Entry, One, Holding, Passing, Leaving
    <2>6. refCount[s] = References(s)
        BY DEF SessInv, DataLivesWhileReferenced
    <2> QED BY <2>1, <2>4, <2>5, <2>6
<1> QED BY <1>1 DEF DataLivesWhileReferenced, SessInv, ThreadPlaces

\* The slot of the timer keeps the invariant.
LEMMA TimerKeeps ==
    ASSUME SessInv, TimerStart \/ TimerStep \/ Tick
    PROVE  SessInv'
<1>1. UNCHANGED <<thread, browser>>
    BY DEF TimerStart, TimerStep, TimerCopy, TimerTest, TimerErase, TimerNext, TimerDone, Tick
<1>2. /\ refCount \in [Session -> Nat] /\ alive \subseteq Session /\ sessions \subseteq alive
      /\ age \in [Session -> 0..MaxAge] /\ browser \in Session \cup {Nobody}
      /\ timer.session \in alive \cup {Nobody}
      /\ \A s \in Session : /\ refCount[s] \in Nat
                            /\ s \in alive <=> refCount[s] > 0
    BY ReferredIsAlive DEF SessInv, SessTypeOK
<1>3. \A s \in Session : Entry(s) \in Nat /\ Entry(s)' \in Nat
    BY DEF Entry, One
<1>4. CASE TimerStart \/ TimerTest \/ TimerDone \/ Tick
    <2>1. UNCHANGED <<refCount, alive, sessions>>
        BY <1>4 DEF TimerStart, TimerTest, TimerDone, Tick
    <2>2. age' \in [Session -> 0..MaxAge]
        <3>1. \A s \in Session : Older(age[s]) \in 0..MaxAge /\ 0 \in 0..MaxAge
            BY <1>2, SessionAssumption DEF Older, MaxAge
        <3> QED BY <1>2, <1>4, <3>1 DEF TimerStart, TimerTest, TimerDone, Tick
    <2>3. TimerPlaces' /\ timer'.session = timer.session
        <3>1. CASE TimerStart
            BY <1>2, <3>1, SessionAssumption DEF TimerStart, SessInv, TimerPlaces
        <3>2. CASE TimerTest
            BY <3>2 DEF TimerTest, SessInv, TimerPlaces
        <3>3. CASE TimerDone
            BY <3>3, SessionAssumption DEF TimerDone, NoTimer, SessInv, TimerPlaces
        <3>4. CASE Tick
            BY <3>4, SessionAssumption DEF Tick, SessInv, TimerPlaces
        <3> QED BY <1>4, <3>1, <3>2, <3>3, <3>4
    <2>4. \A s \in Session : Entry(s)' = Entry(s)
        BY <2>1, <2>3 DEF Entry
    <2>5. DataLivesWhileReferenced' /\ ThreadPlaces'
        BY <1>1, <1>2, <1>3, <2>1, <2>4, NoThreadMoves
    <2> QED BY <1>1, <1>2, <2>1, <2>2, <2>3, <2>5, Completed
<1>5. CASE TimerCopy
    <2>1. PICK x \in timer.todo :
            /\ Attach(x)
            /\ timer' = [timer EXCEPT !.at = "test", !.session = x, !.todo = @ \ {x}]
        BY <1>5 DEF TimerCopy
    <2>2. /\ UNCHANGED <<age, sessions>> /\ timer.at = "loop" /\ timer.session = Nobody
          /\ x \in sessions
        BY <1>5, <2>1 DEF TimerCopy, SessInv, TimerPlaces
    <2>3. TimerPlaces' /\ timer'.session = x
        BY <1>2, <2>1, <2>2 DEF SessInv, TimerPlaces
    <2>4. \A s \in Session : Entry(s)' = Entry(s) + One(x = s)
        BY <2>2, <2>3, SessionAssumption DEF Entry, One
    <2>5. /\ refCount' \in [Session -> Nat] /\ alive' = alive
          /\ \A s \in Session : /\ refCount'[s] = refCount[s] + One(x = s)
                                /\ s \in alive' <=> refCount'[s] > 0
        BY <1>2, <2>1, <2>2, AttachCounts DEF Attach
    <2>6. \A s \in Session : refCount'[s] = refCount[s] + (Entry(s)' - Entry(s))
        <3> TAKE s \in Session
        <3> QED BY <1>2, <1>3, <2>4, <2>5 DEF One
    <2>7. DataLivesWhileReferenced' /\ ThreadPlaces'
        BY <1>1, <2>5, <2>6, NoThreadMoves
    <2> QED BY <1>1, <1>2, <2>2, <2>3, <2>5, <2>7, Completed
<1>6. CASE TimerErase \/ TimerNext
    <2>1. /\ age' = age /\ Detach(timer.session) /\ sessions' \subseteq sessions
        BY <1>6 DEF TimerErase, TimerNext
    <2>2. TimerPlaces' /\ \A s \in Session : Entry(s)' = Entry(s) - One(timer.session = s)
        <3>1. CASE TimerErase
            <4>1. TimerPlaces' /\ timer'.session = timer.session /\ timer.session \in sessions
                BY <3>1 DEF TimerErase, SessInv, TimerPlaces
            <4> QED BY <3>1, <4>1 DEF TimerErase, Entry, One
        <3>2. CASE TimerNext
            <4>1. TimerPlaces' /\ timer'.session = Nobody /\ sessions' = sessions
                BY <3>2, SessionAssumption DEF TimerNext, SessInv, SessTypeOK, TimerPlaces
            <4> QED BY <4>1, SessionAssumption DEF Entry, One
        <3> QED BY <1>6, <3>1, <3>2
    <2>3. /\ refCount' \in [Session -> Nat] /\ alive' \subseteq alive
          /\ \A s \in Session : /\ refCount'[s] = refCount[s] - One(timer.session = s)
                                /\ s \in alive' <=> refCount'[s] > 0
        BY <1>2, <2>1, DetachCounts
    <2>4. \A s \in Session : refCount'[s] = refCount[s] + (Entry(s)' - Entry(s))
        <3> TAKE s \in Session
        <3> QED BY <1>2, <1>3, <2>2, <2>3 DEF One
    <2>5. DataLivesWhileReferenced' /\ ThreadPlaces'
        BY <1>1, <2>3, <2>4, NoThreadMoves
    <2> QED BY <1>1, <1>2, <2>1, <2>2, <2>3, <2>5, Completed
<1> QED BY <1>4, <1>5, <1>6 DEF TimerStep

-----------------------------------------------------------------------------
\* The invariant of the sessions holds always.
LEMMA SessInductive == SessSpec => []SessInv
<1>1. SessInit => SessInv
    <2> SUFFICES ASSUME SessInit PROVE SessInv
        OBVIOUS
    <2>1. 0 \in 0..MaxAge
        BY SessionAssumption DEF MaxAge
    <2>2. SessTypeOK /\ TimerPlaces
        BY <2>1, SessionAssumption DEF SessInit, SessTypeOK, TimerPlaces, NoTimer
    <2>3. ThreadPlaces
        BY DEF SessInit, ThreadPlaces, Idle
    <2>4. \A s \in Session : Holding(s) = {} /\ Passing(s) = {} /\ Leaving(s) = {} /\ Entry(s) = 0
        BY SessionAssumption
           DEF SessInit, Holding, Passing, Leaving, Doing, Idle, Entry, One, NoTimer
    <2>5. \A s \in Session : References(s) = 0
        <3>1. \A s \in Session :
                References(s) = Entry(s) + Cardinality(Holding(s)) + Cardinality(Passing(s))
                                + Cardinality(Leaving(s))
            BY DEF References, Entry, One, Holding, Passing, Leaving
        <3> QED BY <2>4, <3>1, FS_EmptySet
    <2>6. DataLivesWhileReferenced
        BY <2>5 DEF SessInit, DataLivesWhileReferenced
    <2> QED BY <2>2, <2>3, <2>6 DEF SessInv
<1>2. SessInv /\ [SessNext]_sessVars => SessInv'
    <2> SUFFICES ASSUME SessInv, [SessNext]_sessVars PROVE SessInv'
        OBVIOUS
    <2>1. ASSUME NEW t \in Server, Serve(t) \/ ThreadStep(t) \/ AppCall(t) \/ Answer(t)
          PROVE  SessInv'
        BY <2>1, PlainStep, AttachingStep, DetachingStep, CreatingStep DEF ThreadStep, AppCall
    <2>2. CASE UNCHANGED sessVars
        BY <2>2 DEF sessVars, SessInv, SessTypeOK, ThreadPlaces, TimerPlaces,
                    DataLivesWhileReferenced, References, Doing
    <2> QED BY <2>1, <2>2, TimerKeeps DEF SessNext
<1> QED BY <1>1, <1>2, PTL DEF SessSpec

\* The data of a session lives exactly as long as somebody refers to it, for
\* any number of threads and sessions.
THEOREM SessionDataLives == SessSpec => []DataLivesWhileReferenced
<1>1. SessInv => DataLivesWhileReferenced
    BY DEF SessInv
<1> QED BY <1>1, SessInductive, PTL

\* The types of the sessions; what is in the map, and what the timer looks at, is alive.
THEOREM SessionsTyped == SessSpec => []SessTypeOK
<1>1. SessInv => SessTypeOK
    BY DEF SessInv
<1> QED BY <1>1, SessInductive, PTL
=============================================================================
