----------------------------- MODULE JsonLexer -----------------------------
(***************************************************************************)
(* The lexer of the JSON library (detail/input/lexer.hpp): from a text,    *)
(* a sequence of bytes, and a place in it to the next token and the place  *)
(* behind it.  A token of a value carries the value.                       *)
(***************************************************************************)
EXTENDS JsonValue

CONSTANT MaxPoint   \* floats with more digits before the point are infinite

Eof == -1
Quote == \h22
Backslash == \h5C
Digit == \h30..\h39
Whitespace == {\h20, \h09, \h0A, \h0D}

\* get(): the character at i; behind the end there is only Eof.
Char(text, i) == IF i \in DOMAIN text THEN text[i] ELSE Eof

Token(type, next) == [type |-> type, next |-> next]
ValueToken(type, next, value) == [type |-> type, next |-> next, value |-> value]
ParseError(next) == Token("parse_error", next)

-----------------------------------------------------------------------------
(* Strings.                                                                *)

HexDigit(c) ==
    CASE c \in Digit -> c - \h30
      [] c \in \h41..\h46 -> c - \h37
      [] c \in \h61..\h66 -> c - \h57
      [] OTHER -> -1

\* get_codepoint: the four digits from i on, or -1.
Codepoint(text, i) ==
    LET digit(k) == HexDigit(Char(text, i + k))
    IN  IF \E k \in 0..3 : digit(k) = -1 THEN -1
        ELSE digit(0) * \h1000 + digit(1) * \h100 + digit(2) * \h10 + digit(3)

\* A code point in UTF-8.
Sixth(cp, power) == \h80 + ((cp \div power) % 64)
Utf8(cp) ==
    CASE cp < \h80 -> <<cp>>
      [] cp \in \h80..\h7FF -> <<\hC0 + (cp \div 64), Sixth(cp, 1)>>
      [] cp \in \h800..\hFFFF -> <<\hE0 + (cp \div 4096), Sixth(cp, 64), Sixth(cp, 1)>>
      [] cp > \hFFFF -> <<\hF0 + (cp \div 262144), Sixth(cp, 4096), Sixth(cp, 64), Sixth(cp, 1)>>

High == \hD800..\hDBFF
Low == \hDC00..\hDFFF

NoBytes == [bytes |-> <<>>, next |-> 0]

\* \u and its four digits; two of them for a pair of surrogates.
UnicodeEscape(text, i) ==
    LET first == Codepoint(text, i)
        second == Codepoint(text, i + 6)
        pair == Char(text, i + 4) = Backslash /\ Char(text, i + 5) = \h75
    IN  CASE first = -1 \/ first \in Low -> NoBytes
          [] first \in High ->
                IF pair /\ second \in Low
                THEN [bytes |-> Utf8(first * 1024 + second - \h35FDC00), next |-> i + 10]
                ELSE NoBytes
          [] OTHER -> [bytes |-> Utf8(first), next |-> i + 4]

\* The character after a backslash.
Escape(text, i) ==
    LET c == Char(text, i)
        one(byte) == [bytes |-> <<byte>>, next |-> i + 1]
    IN  CASE c \in {Quote, Backslash, \h2F} -> one(c)
          [] c = \h62 -> one(\h08)
          [] c = \h66 -> one(\h0C)
          [] c = \h6E -> one(\h0A)
          [] c = \h72 -> one(\h0D)
          [] c = \h74 -> one(\h09)
          [] c = \h75 -> UnicodeEscape(text, i + 1)
          [] OTHER -> NoBytes

\* The bytes that may begin a character, and the ranges of those that follow.
Leading == (\h20..\h7F \cup \hC2..\hF4) \ {Quote, Backslash}
Tail80 == <<\h80, \hBF>>
Following(c) ==
    CASE c \in \h20..\h7F -> <<>>
      [] c \in \hC2..\hDF -> <<Tail80>>
      [] c = \hE0 -> << <<\hA0, \hBF>>, Tail80>>
      [] c \in \hE1..\hEC \cup {\hEE, \hEF} -> <<Tail80, Tail80>>
      [] c = \hED -> << <<\h80, \h9F>>, Tail80>>
      [] c = \hF0 -> << <<\h90, \hBF>>, Tail80, Tail80>>
      [] c \in \hF1..\hF3 -> <<Tail80, Tail80, Tail80>>
      [] c = \hF4 -> << <<\h80, \h8F>>, Tail80, Tail80>>

\* next_byte_in_range
InRange(c, range) == c \in range[1]..range[2]

\* scan_string, from i on, after the bytes in buffer.
RECURSIVE ScanString(_, _, _)
ScanString(text, i, buffer) ==
    LET c == Char(text, i)
        escaped == Escape(text, i + 1)
        n == Len(Following(c))
    IN  CASE c = Quote -> ValueToken("value_string", i + 1, String(buffer))
          [] c = Backslash ->
                IF escaped = NoBytes THEN ParseError(i)
                ELSE ScanString(text, escaped.next, buffer \o escaped.bytes)
          [] c \in Leading ->
                IF \A k \in 1..n : InRange(Char(text, i + k), Following(c)[k])
                THEN ScanString(text, i + 1 + n, buffer \o SubSeq(text, i, i + n))
                ELSE ParseError(i)
          [] OTHER -> ParseError(i)

-----------------------------------------------------------------------------
(* Numbers.                                                                *)

Minus == \h2D
Plus == \h2B
Point == \h2E
Exponents == {\h65, \h45}
Zero == \h30

\* The states of scan_number: the one after the character c, "done" when c
\* does not belong to the number, "error" when the number cannot end there.
IntegerPart == {"init", "minus", "zero", "any1"}

IntegerState(state, c) ==
    CASE state \in {"init", "minus"} /\ c = Zero -> "zero"
      [] state \in {"init", "minus"} /\ c \in Digit \ {Zero} -> "any1"
      [] state = "init" /\ c = Minus -> "minus"
      [] state = "any1" /\ c \in Digit -> "any1"
      [] state \in {"zero", "any1"} /\ c = Point -> "decimal1"
      [] state \in {"zero", "any1"} /\ c \in Exponents -> "exponent"
      [] state = "minus" /\ c \notin Digit -> "error"
      [] OTHER -> "done"

FractionState(state, c) ==
    CASE state \in {"decimal1", "decimal2"} /\ c \in Digit -> "decimal2"
      [] state = "decimal2" /\ c \in Exponents -> "exponent"
      [] state = "exponent" /\ c \in {Plus, Minus} -> "sign"
      [] state \in {"exponent", "sign", "any2"} /\ c \in Digit -> "any2"
      [] state = "decimal2" /\ c \notin Digit \cup Exponents -> "done"
      [] state = "any2" /\ c \notin Digit -> "done"
      [] OTHER -> "error"

NumberState(state, c) == IF state \in IntegerPart THEN IntegerState(state, c) ELSE FractionState(state, c)

\* A number_float is read when a point or an exponent has been seen.
FloatStates == {"decimal1", "exponent"}

\* The states of the scanner from place i on, and where the number ends.
RECURSIVE ScanDigits(_, _, _, _)
ScanDigits(text, i, state, isFloat) ==
    LET next == NumberState(state, Char(text, i))
    IN  IF next \in {"done", "error"} THEN [end |-> i - 1, state |-> next, isFloat |-> isFloat]
        ELSE ScanDigits(text, i + 1, next, isFloat \/ next \in FloatStates)

DigitValues(bytes) == [i \in DOMAIN bytes |-> bytes[i] - Zero]
FirstOf(bytes, S) == SelectInSeq(bytes, LAMBDA b : b \in S)

\* strtod (external): the digits before and behind the point and the exponent,
\* without leading and trailing zeros; what is too large is infinite.
RECURSIVE Trimmed(_, _)
Trimmed(digits, exponent) ==
    IF digits = <<>> THEN [digits |-> <<>>, exponent |-> 0]
    ELSE IF Head(digits) = 0 THEN Trimmed(Tail(digits), exponent)
    ELSE IF Last(digits) = 0 THEN Trimmed(Front(digits), exponent + 1)
    ELSE [digits |-> digits, exponent |-> exponent]

Strtod(bytes) ==
    LET neg == bytes[1] = Minus
        unsigned == IF neg THEN Tail(bytes) ELSE bytes
        e == FirstOf(unsigned, Exponents)
        mantissa == IF e = 0 THEN unsigned ELSE SubSeq(unsigned, 1, e - 1)
        power == IF e = 0 THEN <<Zero>> ELSE SubSeq(unsigned, e + 1, Len(unsigned))
        size == Number(DigitValues(SelectSeq(power, LAMBDA b : b \in Digit)))
        point == FirstOf(mantissa, {Point})
        behind == IF point = 0 THEN 0 ELSE Len(mantissa) - point
        value == Trimmed(DigitValues(SelectSeq(mantissa, LAMBDA b : b # Point)),
                         (IF power[1] = Minus THEN -size ELSE size) - behind)
    IN  IF Len(value.digits) + value.exponent > MaxPoint THEN Infinite(neg)
        ELSE Decimal(neg, value.digits, value.exponent)

\* strtoull and strtoll report an overflow: the number is read as a float then.
Overflows(bytes) ==
    IF bytes[1] = Minus THEN -Number(DigitValues(Tail(bytes))) < -MaxInteger - 1
    ELSE Number(DigitValues(bytes)) > MaxUnsigned

\* scan_number
ScanNumber(text, i) ==
    LET scan == ScanDigits(text, i, "init", FALSE)
        bytes == SubSeq(text, i, scan.end)
        next == scan.end + 1
    IN  IF scan.state = "error" THEN ParseError(next)
        ELSE IF scan.isFloat \/ Overflows(bytes) THEN ValueToken("value_float", next, Float(Strtod(bytes)))
        ELSE IF bytes[1] = Minus
             THEN ValueToken("value_integer", next, Integer(-Number(DigitValues(Tail(bytes)))))
        ELSE ValueToken("value_unsigned", next, Unsigned(Number(DigitValues(bytes))))

-----------------------------------------------------------------------------
TrueText == <<\h74, \h72, \h75, \h65>>
FalseText == <<\h66, \h61, \h6C, \h73, \h65>>
NullText == <<\h6E, \h75, \h6C, \h6C>>

\* scan_literal
ScanLiteral(text, i, literal, type, value) ==
    IF \A k \in DOMAIN literal : Char(text, i + k - 1) = literal[k]
    THEN ValueToken(type, i + Len(literal), value) ELSE ParseError(i + 1)

Structural(c) ==
    CASE c = \h5B -> "begin_array"
      [] c = \h5D -> "end_array"
      [] c = \h7B -> "begin_object"
      [] c = \h7D -> "end_object"
      [] c = \h3A -> "name_separator"
      [] c = \h2C -> "value_separator"
      [] OTHER -> "none"

\* skip_bom, before the first token: where the text begins, or 0.
SkipBom(text) ==
    IF Char(text, 1) # \hEF THEN 1
    ELSE IF Char(text, 2) = \hBB /\ Char(text, 3) = \hBF THEN 4 ELSE 0

\* scan
RECURSIVE Scan(_, _)
Scan(text, i) ==
    LET c == Char(text, i)
    IN  CASE c \in Whitespace -> Scan(text, i + 1)
          [] Structural(c) # "none" -> Token(Structural(c), i + 1)
          [] c = TrueText[1] -> ScanLiteral(text, i, TrueText, "literal_true", Boolean(TRUE))
          [] c = FalseText[1] -> ScanLiteral(text, i, FalseText, "literal_false", Boolean(FALSE))
          [] c = NullText[1] -> ScanLiteral(text, i, NullText, "literal_null", Null)
          [] c = Quote -> ScanString(text, i + 1, <<>>)
          [] c \in Digit \cup {Minus} -> ScanNumber(text, i)
          [] c \in {0, Eof} -> Token("end_of_input", i + 1)
          [] OTHER -> ParseError(i)

\* All tokens of a text, up to its end or an error; a null byte is taken for its end.
RECURSIVE TokensFrom(_, _)
TokensFrom(text, i) ==
    LET token == Scan(text, i)
    IN  IF token.type \in {"end_of_input", "parse_error"} THEN <<token>>
        ELSE <<token>> \o TokensFrom(text, token.next)

Tokens(text) == IF SkipBom(text) = 0 THEN <<ParseError(1)>> ELSE TokensFrom(text, SkipBom(text))
=============================================================================
