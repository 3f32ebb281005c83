--------------------------- MODULE JsonSerializer ---------------------------
(***************************************************************************)
(* The serializer of the JSON library (detail/output/serializer.hpp, and   *)
(* of conversions/to_chars.hpp what lays the digits of a float out): from  *)
(* a value and a style to a text.                                          *)
(*                                                                         *)
(* A style says whether lines are broken, whether all but ASCII is         *)
(* escaped, and how far a level is indented.                               *)
(***************************************************************************)
EXTENDS JsonLexer

CONSTANT MaxExp   \* floats with more digits before the point have an exponent

MinExp == -4

-----------------------------------------------------------------------------
(* UTF-8: the automaton of decode, from the table utf8d.                   *)

Accept == 0
Reject == 1

ByteType(byte) ==
    CASE byte \in \h00..\h7F -> 0
      [] byte \in \h80..\h8F -> 1
      [] byte \in \h90..\h9F -> 9
      [] byte \in \hA0..\hBF -> 7
      [] byte \in \hC2..\hDF -> 2
      [] byte = \hE0 -> 10
      [] byte \in (\hE1..\hEF) \ {\hED} -> 3
      [] byte = \hED -> 4
      [] byte = \hF0 -> 11
      [] byte \in \hF1..\hF3 -> 6
      [] byte = \hF4 -> 5
      [] byte \in {\hC0, \hC1} \cup \hF5..\hFF -> 8

\* The rows of the table for the states 0 to 8.
Transitions ==
    << <<0, 1, 2, 3, 5, 8, 7, 1, 1, 1, 4, 6>>,
       <<1, 1, 1, 1, 1, 1, 1, 1, 1, 1, 1, 1>>,
       <<1, 0, 1, 1, 1, 1, 1, 0, 1, 0, 1, 1>>,
       <<1, 2, 1, 1, 1, 1, 1, 2, 1, 2, 1, 1>>,
       <<1, 1, 1, 1, 1, 1, 1, 2, 1, 1, 1, 1>>,
       <<1, 2, 1, 1, 1, 1, 1, 1, 1, 2, 1, 1>>,
       <<1, 1, 1, 1, 1, 1, 1, 3, 1, 3, 1, 1>>,
       <<1, 3, 1, 1, 1, 1, 1, 3, 1, 3, 1, 1>>,
       <<1, 3, 1, 1, 1, 1, 1, 1, 1, 1, 1, 1>> >>

\* Mutant: the row of the state after F4 is that of the state after F1 to F3.
NextStateLate(state, type) == Transitions[(IF state = 8 THEN 7 ELSE state) + 1][type + 1]

NextState(state, type) == Transitions[state + 1][type + 1]

DecodeStart == [state |-> Accept, codep |-> 0]

Decode(d, byte) ==
    LET type == ByteType(byte)
    IN  [state |-> NextState(d.state, type),
         codep |-> IF d.state # Accept THEN d.codep * 64 + (byte % 64)
                   ELSE IF type > 8 THEN 0 ELSE byte % 2^(8 - type)]

-----------------------------------------------------------------------------
(* Strings: dump_escaped.                                                  *)

HexText(n) == IF n < 10 THEN Zero + n ELSE \h57 + n
Hex4(n) == <<HexText(n \div 4096), HexText((n \div 256) % 16), HexText((n \div 16) % 16), HexText(n % 16)>>
Unicode(n) == <<Backslash, \h75>> \o Hex4(n)

\* What is written for a code point, of which byte is the last.
Escaped(cp, byte, ascii) ==
    CASE cp = \h08 -> <<Backslash, \h62>>
      [] cp = \h09 -> <<Backslash, \h74>>
      [] cp = \h0A -> <<Backslash, \h6E>>
      [] cp = \h0C -> <<Backslash, \h66>>
      [] cp = \h0D -> <<Backslash, \h72>>
      [] cp \in {Quote, Backslash} -> <<Backslash, cp>>
      [] OTHER ->
            IF ~(cp <= \h1F \/ (ascii /\ cp >= \h7F)) THEN <<byte>>
            ELSE IF cp <= \hFFFF THEN Unicode(cp)
            ELSE Unicode(\hD7C0 + (cp \div 1024)) \o Unicode(\hDC00 + (cp % 1024))

\* The string is read byte by byte; an exception ends it where the automaton
\* rejects, or at its end when the automaton does not accept.
DumpEscaped(bytes, ascii) ==
    FoldLeft(LAMBDA done, byte :
                LET d == Decode(done.d, byte)
                IN  [d |-> d,
                     text |-> done.text \o (CASE d.state = Accept -> Escaped(d.codep, byte, ascii)
                                              [] d.state = Reject -> <<>>
                                              [] OTHER -> IF ascii THEN <<>> ELSE <<byte>>)],
             [d |-> DecodeStart, text |-> <<>>], bytes)

IsUtf8(bytes) == DumpEscaped(bytes, FALSE).d.state = Accept
Quoted(bytes, ascii) == <<Quote>> \o DumpEscaped(bytes, ascii).text \o <<Quote>>

-----------------------------------------------------------------------------
(* Numbers.                                                                *)

DigitTexts(digits) == [i \in DOMAIN digits |-> Zero + digits[i]]
Zeros(n) == [i \in 1..n |-> Zero]

\* dump_integer: the digits from the last one on, turned round at the end.
RECURSIVE Digits(_)
Digits(n) == IF n = 0 THEN <<>> ELSE Append(Digits(n \div 10), Zero + (n % 10))

DumpInteger(n) ==
    CASE n = 0 -> <<Zero>>
      [] n < 0 -> <<Minus>> \o Digits(-n)
      [] n > 0 -> Digits(n)

\* append_exponent: at least two digits.
AppendExponent(e) ==
    LET k == IF e < 0 THEN -e ELSE e
    IN  <<IF e < 0 THEN Minus ELSE Plus>> \o Zeros(IF k < 10 THEN 1 ELSE 0) \o DumpInteger(k)

\* Mutant: an integral float is written like an integer.
PointZeroMissing == <<>>

\* What makes an integral float look like one.
PointZero == <<Point, Zero>>

\* format_buffer: k digits, with the decimal point behind the n-th.
FormatBuffer(digits, exponent) ==
    LET text == DigitTexts(digits)
        k == Len(digits)
        n == k + exponent
    IN  CASE k <= n /\ n <= MaxExp -> text \o Zeros(n - k) \o PointZero
          [] 0 < n /\ n <= MaxExp /\ k > n -> SubSeq(text, 1, n) \o <<Point>> \o SubSeq(text, n + 1, k)
          [] MinExp < n /\ n <= 0 -> <<Zero, Point>> \o Zeros(-n) \o text
          [] OTHER -> <<text[1]>> \o (IF k = 1 THEN <<>> ELSE <<Point>> \o Tail(text))
                      \o <<\h65>> \o AppendExponent(n - 1)

\* dump_float and to_chars; the digits are those of Grisu2 (external).
DumpFloat(f) ==
    IF ~f.finite THEN NullText
    ELSE (IF f.neg THEN <<Minus>> ELSE <<>>)
         \o (IF f.digits = <<>> THEN <<Zero, Point, Zero>> ELSE FormatBuffer(f.digits, f.exponent))

-----------------------------------------------------------------------------
Indent(n) == [i \in 1..n |-> \h20]

\* A container with at least one part, at the given indentation: in a pretty
\* style every part has a line of its own.
Container(open, parts, close, style, indent) ==
    LET between == IF style.pretty THEN <<\h2C, \h0A>> \o Indent(indent + style.step) ELSE <<\h2C>>
        first == IF style.pretty THEN <<\h0A>> \o Indent(indent + style.step) ELSE <<>>
        last == IF style.pretty THEN <<\h0A>> \o Indent(indent) ELSE <<>>
    IN  <<open>> \o first
        \o FoldLeft(LAMBDA text, part : text \o between \o part, parts[1], Tail(parts))
        \o last \o <<close>>

Colon(style) == IF style.pretty THEN <<\h3A, \h20>> ELSE <<\h3A>>

\* dump, of a value that does not throw.
RECURSIVE DumpAt(_, _, _)
DumpAt(v, style, indent) ==
    LET inner(w) == DumpAt(w, style, indent + (IF style.pretty THEN style.step ELSE 0))
        member(key) == Quoted(key, style.ascii) \o Colon(style) \o inner(v.obj[key])
    IN  CASE v.t = "object" ->
                IF v = EmptyObject THEN <<\h7B, \h7D>>
                ELSE Container(\h7B, [i \in DOMAIN Keys(v) |-> member(Keys(v)[i])], \h7D, style, indent)
          [] v.t = "array" ->
                IF v = EmptyArray THEN <<\h5B, \h5D>>
                ELSE Container(\h5B, [i \in DOMAIN v.arr |-> inner(v.arr[i])], \h5D, style, indent)
          [] v.t = "string" -> Quoted(v.str, style.ascii)
          [] v.t = "boolean" -> IF v.bool THEN TrueText ELSE FalseText
          [] v.t = "number_integer" -> DumpInteger(v.int)
          [] v.t = "number_unsigned" -> DumpInteger(v.uint)
          [] v.t = "number_float" -> DumpFloat(v.float)
          [] v.t = "null" -> NullText

Dump(v, style) == DumpAt(v, style, 0)

\* The values that can be dumped: all strings and keys are UTF-8.
RECURSIVE Dumpable(_)
Dumpable(v) ==
    CASE v.t = "object" -> \A key \in DOMAIN v.obj : IsUtf8(key) /\ Dumpable(v.obj[key])
      [] v.t = "array" -> \A i \in DOMAIN v.arr : Dumpable(v.arr[i])
      [] v.t = "string" -> IsUtf8(v.str)
      [] OTHER -> TRUE
=============================================================================
