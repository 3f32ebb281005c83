----------------------------- MODULE JsonBinary -----------------------------
(***************************************************************************)
(* The binary formats of the JSON library: detail/output/binary_writer.hpp *)
(* and detail/input/binary_reader.hpp for CBOR, MessagePack and UBJSON.    *)
(*                                                                         *)
(* In this module an integer is the eight bytes of its two's complement    *)
(* and a float the eight bytes of a double, most significant byte first.   *)
(* A set of at most one pair of a value and the place behind it stands for *)
(* what is read: it is empty where the reader reports an error.            *)
(***************************************************************************)
EXTENDS JsonLexer

Byte == 0..255

-----------------------------------------------------------------------------
(* Numbers.                                                                *)

Filled(n, byte) == [i \in 1..n |-> byte]
Negative(b) == b[1] >= 128
Complement(b) == [i \in DOMAIN b |-> 255 - b[i]]   \* -1 - n
Narrow(b, k) == SubSeq(b, 9 - k, 8)                \* a cast to k bytes

\* Casts from fewer bytes, of an unsigned and of a signed number.
Wide(b) == Filled(8 - Len(b), 0) \o b
SignWide(b) == Filled(8 - Len(b), IF Negative(b) THEN 255 ELSE 0) \o b

FitsUnsigned(b, k) == Wide(Narrow(b, k)) = b
FitsSigned(b, k) == SignWide(Narrow(b, k)) = b

\* A size, and a size_type as a number; what is larger than any text is Huge.
Sized(n) == Wide(<<n \div 65536, (n \div 256) % 256, n % 256>>)
Huge == 2^24
SizeOf(b) == IF FitsUnsigned(b, 3) /\ ~Negative(b) THEN b[6] * 65536 + b[7] * 256 + b[8] ELSE Huge

Bits(bytes) == FlattenSeq([i \in DOMAIN bytes |-> [k \in 1..8 |-> (bytes[i] \div 2^(8 - k)) % 2]])
BitsOf(n, w) == [k \in 1..w |-> (n \div 2^(w - k)) % 2]
ValueOf(bits) == FoldLeft(LAMBDA n, b : 2 * n + b, 0, bits)
BytesOf(bits) == [i \in 1..(Len(bits) \div 8) |-> ValueOf(SubSeq(bits, 8 * i - 7, 8 * i))]

\* A half (w = 5) or single (w = 8) precision float as a double; a signalling
\* NaN becomes quiet, and the NaNs of half precision become one.
Widened(bytes, w) ==
    LET bits == Bits(bytes)
        e == ValueOf(SubSeq(bits, 2, 1 + w))
        m == SubSeq(bits, 2 + w, Len(bits))
        bias == 2^(w - 1) - 1
        first == FirstOf(m, {1})
        double(exp, mant) == BytesOf(<<bits[1]>> \o BitsOf(exp, 11) \o mant \o Filled(52 - Len(mant), 0))
    IN  CASE e = 2^w - 1 /\ first = 0 -> double(2047, m)
          [] e = 2^w - 1 /\ first # 0 -> double(2047, IF w = 5 THEN <<1>> ELSE <<1>> \o Tail(m))
          [] e = 0 /\ first = 0 -> double(0, m)
          [] e = 0 /\ first # 0 -> double(1024 - bias - first, SubSeq(m, first + 1, Len(m)))
          [] OTHER -> double(e + 1023 - bias, m)

NumberBytes(v) == IF v.t = "number_integer" THEN v.int ELSE v.uint
IsNumber(v) == v.t \in {"number_integer", "number_unsigned"}
IsNegative(v) == v.t = "number_integer" /\ Negative(v.int)

-----------------------------------------------------------------------------
(* Writing CBOR and MessagePack.                                           *)

Widths == {1, 2, 4, 8}
Width(b) == CHOOSE k \in Widths : FitsUnsigned(b, k) /\ \A j \in Widths : FitsUnsigned(b, j) => k <= j
SignedWidth(b) == CHOOSE k \in Widths : FitsSigned(b, k) /\ \A j \in Widths : FitsSigned(b, j) => k <= j

\* The place of a width among the codes of a format: 0 for one byte.
Step(k) == CHOOSE s \in 0..3 : 2^s = k

\* A value up to 23 or a size in the first byte, or one to eight bytes behind it.
CborHead(major, b) ==
    IF Width(b) = 1 /\ b[8] <= \h17 THEN <<major + b[8]>>
    ELSE <<major + \h18 + Step(Width(b))>> \o Narrow(b, Width(b))

CborNumber(v) == IF IsNegative(v) THEN CborHead(\h20, Complement(v.int)) ELSE CborHead(\h00, NumberBytes(v))

RECURSIVE write_cbor(_)
write_cbor(v) ==
    CASE v.t = "null" -> <<\hF6>>
      [] v.t = "boolean" -> IF v.bool THEN <<\hF5>> ELSE <<\hF4>>
      [] IsNumber(v) -> CborNumber(v)
      [] v.t = "number_float" -> <<\hFB>> \o v.float
      [] v.t = "string" -> CborHead(\h60, Sized(Len(v.str))) \o v.str
      [] v.t = "array" ->
            CborHead(\h80, Sized(Len(v.arr))) \o FlattenSeq([i \in DOMAIN v.arr |-> write_cbor(v.arr[i])])
      [] v.t = "object" ->
            CborHead(\hA0, Sized(Cardinality(DOMAIN v.obj)))
            \o FlattenSeq([i \in DOMAIN Keys(v) |->
                              write_cbor(String(Keys(v)[i])) \o write_cbor(v.obj[Keys(v)[i]])])

\* A size in the first byte if it is less than fix, or in a code of the format.
MsgpackSize(fix, limit, code, b) ==
    IF FitsUnsigned(b, 1) /\ b[8] < limit THEN <<fix + b[8]>>
    ELSE IF code # \hD9 /\ Width(b) = 1 THEN <<code>> \o Narrow(b, 2)
    ELSE <<code + Step(Width(b)) - (IF code = \hD9 THEN 0 ELSE 1)>> \o Narrow(b, Width(b))

\* A small number is one byte, any other has a code for its kind and width.
MsgpackNumber(v) ==
    LET b == NumberBytes(v)
    IN  IF IsNegative(v)
        THEN IF FitsSigned(b, 1) /\ b[8] >= \hE0 THEN <<b[8]>>
             ELSE <<\hD0 + Step(SignedWidth(b))>> \o Narrow(b, SignedWidth(b))
        ELSE IF Width(b) = 1 /\ b[8] < 128 THEN <<b[8]>>
             ELSE <<\hCC + Step(Width(b))>> \o Narrow(b, Width(b))

RECURSIVE write_msgpack(_)
write_msgpack(v) ==
    CASE v.t = "null" -> <<\hC0>>
      [] v.t = "boolean" -> IF v.bool THEN <<\hC3>> ELSE <<\hC2>>
      [] IsNumber(v) -> MsgpackNumber(v)
      [] v.t = "number_float" -> <<\hCB>> \o v.float
      [] v.t = "string" -> MsgpackSize(\hA0, 32, \hD9, Sized(Len(v.str))) \o v.str
      [] v.t = "array" ->
            MsgpackSize(\h90, 16, \hDC, Sized(Len(v.arr)))
            \o FlattenSeq([i \in DOMAIN v.arr |-> write_msgpack(v.arr[i])])
      [] v.t = "object" ->
            MsgpackSize(\h80, 16, \hDE, Sized(Cardinality(DOMAIN v.obj)))
            \o FlattenSeq([i \in DOMAIN Keys(v) |->
                              write_msgpack(String(Keys(v)[i])) \o write_msgpack(v.obj[Keys(v)[i]])])

-----------------------------------------------------------------------------
(* Writing UBJSON, whose codes are letters.                                *)

Letter == [Z |-> \h5A, T |-> \h54, F |-> \h46, N |-> \h4E, U |-> \h55, i |-> \h69, I |-> \h49, l |-> \h6C,
           L |-> \h4C, d |-> \h64, D |-> \h44, C |-> \h43, S |-> \h53, open |-> \h5B, close |-> \h5D,
           begin |-> \h7B, end |-> \h7D, type |-> \h24, count |-> \h23]

\* The smallest type of a number, and the bytes it has.
UbjsonType(b) ==
    CASE FitsSigned(b, 1) -> Letter.i
      [] FitsUnsigned(b, 1) /\ ~FitsSigned(b, 1) -> Letter.U
      [] ~FitsUnsigned(b, 1) /\ SignedWidth(b) = 2 -> Letter.I
      [] SignedWidth(b) = 4 -> Letter.l
      [] SignedWidth(b) = 8 -> Letter.L

UbjsonWidth(type) ==
    CASE type \in {Letter.i, Letter.U} -> 1
      [] type = Letter.I -> 2
      [] type = Letter.l -> 4
      [] type = Letter.L -> 8

\* ubjson_prefix
UbjsonPrefix(v) ==
    CASE v.t = "null" -> Letter.Z
      [] v.t = "boolean" -> IF v.bool THEN Letter.T ELSE Letter.F
      [] v.t = "number_unsigned" /\ Negative(v.uint) -> Letter.L
      [] IsNumber(v) /\ ~(v.t = "number_unsigned" /\ Negative(v.uint)) -> UbjsonType(NumberBytes(v))
      [] v.t = "number_float" -> Letter.D
      [] v.t = "string" -> Letter.S
      [] v.t = "array" -> Letter.open
      [] v.t = "object" -> Letter.begin

UbjsonNumber(b) == Narrow(b, UbjsonWidth(UbjsonType(b)))
UbjsonCount(n) == <<UbjsonType(Sized(n))>> \o UbjsonNumber(Sized(n))

\* Mutant: the elements of a container are thought of one type if two of them are.
OneTypeHasty(values) == Len(values) < 2 \/ UbjsonPrefix(values[1]) = UbjsonPrefix(values[2])

OneType(values) == \A i \in DOMAIN values : UbjsonPrefix(values[i]) = UbjsonPrefix(values[1])

\* style says whether sizes are counted and types named (types only with sizes).
RECURSIVE write_ubjson(_, _, _)
write_ubjson(v, style, prefix) ==
    LET members == [i \in DOMAIN Keys(v) |-> v.obj[Keys(v)[i]]]
        values == IF v.t = "array" THEN v.arr ELSE members
        typed == style.type /\ values # <<>> /\ OneType(values)
        head == (IF typed THEN <<Letter.type, UbjsonPrefix(values[1])>> ELSE <<>>)
                \o (IF style.count THEN <<Letter.count>> \o UbjsonCount(Len(values)) ELSE <<>>)
        key(i) == IF v.t = "array" THEN <<>> ELSE UbjsonCount(Len(Keys(v)[i])) \o Keys(v)[i]
        last == IF style.count THEN <<>> ELSE IF v.t = "array" THEN <<Letter.close>> ELSE <<Letter.end>>
    IN  (IF prefix THEN <<UbjsonPrefix(v)>> ELSE <<>>) \o
        CASE v.t \in {"null", "boolean"} -> <<>>
          [] IsNumber(v) -> UbjsonNumber(NumberBytes(v))
          [] v.t = "number_float" -> v.float
          [] v.t = "string" -> UbjsonCount(Len(v.str)) \o v.str
          [] v.t \in {"array", "object"} ->
                head \o FlattenSeq([i \in DOMAIN values |-> key(i) \o write_ubjson(values[i], style, ~typed)])
                \o last

\* UBJSON has no number above the largest number_integer_t: an exception.
RECURSIVE HasUbjson(_)
HasUbjson(v) ==
    CASE v.t = "number_unsigned" -> ~Negative(v.uint)
      [] v.t = "array" -> \A i \in DOMAIN v.arr : HasUbjson(v.arr[i])
      [] v.t = "object" -> \A key \in DOMAIN v.obj : HasUbjson(v.obj[key])
      [] OTHER -> TRUE

-----------------------------------------------------------------------------
(* Reading: what the formats share.                                        *)

\* get_number and get_string: the next k bytes, if there are as many.
Taken(bytes, i, k) == IF i + k - 1 <= Len(bytes) THEN {SubSeq(bytes, i, i + k - 1)} ELSE {}

StringAt(bytes, i, size) == {<<String(b), i + size>> : b \in Taken(bytes, i, size)}
FloatAt(bytes, i, k, w) ==
    {<<Float(IF k = 8 THEN b ELSE Widened(b, w)), i + k>> : b \in Taken(bytes, i, k)}
UnsignedAt(bytes, i, k) == {<<Unsigned(Wide(b)), i + k>> : b \in Taken(bytes, i, k)}
IntegerAt(bytes, i, k) == {<<Integer(SignWide(b)), i + k>> : b \in Taken(bytes, i, k)}

\* get_ignore_noop
RECURSIVE Noop(_, _)
Noop(bytes, i) == IF Char(bytes, i) = Letter.N THEN Noop(bytes, i + 1) ELSE i

-----------------------------------------------------------------------------
(* CBOR.                                                                   *)

Break == \hFF
NoLimit == -1

\* The number in the first byte or behind it, and the place behind that.
CborArgument(bytes, i) ==
    LET low == Char(bytes, i) % 32
        k == 2^(low - \h18)
    IN  CASE low <= \h17 -> {<<Wide(<<low>>), i + 1>>}
          [] low \in \h18..\h1B -> {<<Wide(b), i + 1 + k>> : b \in Taken(bytes, i + 1, k)}
          [] OTHER -> {}

\* The size of a container; the largest size_type is no_limit.
CborSize(bytes, i) ==
    IF Char(bytes, i) % 32 = \h1F THEN {<<NoLimit, i + 1>>}
    ELSE {<<IF a[1] = Filled(8, 255) THEN NoLimit ELSE SizeOf(a[1]), a[2]>> : a \in CborArgument(bytes, i)}

\* get_cbor_string: one string, or chunks up to a break, any of them in chunks.
RECURSIVE CborString(_, _), CborChunks(_, _, _)
CborChunks(bytes, i, done) ==
    IF Char(bytes, i) = Break THEN {<<String(done), i + 1>>}
    ELSE UNION {CborChunks(bytes, r[2], done \o r[1].str) : r \in CborString(bytes, i)}
CborString(bytes, i) ==
    LET c == Char(bytes, i)
    IN  CASE c \in \h60..\h7B -> UNION {StringAt(bytes, a[2], SizeOf(a[1])) : a \in CborArgument(bytes, i)}
          [] c = \h7F -> CborChunks(bytes, i + 1, <<>>)
          [] OTHER -> {}

CborInteger(bytes, i) ==
    IF Char(bytes, i) < \h20 THEN {<<Unsigned(a[1]), a[2]>> : a \in CborArgument(bytes, i)}
    ELSE {<<Integer(Complement(a[1])), a[2]>> : a \in CborArgument(bytes, i)}

CborFloat(bytes, i) ==
    CASE Char(bytes, i) = \hF9 -> FloatAt(bytes, i + 1, 2, 5)
      [] Char(bytes, i) = \hFA -> FloatAt(bytes, i + 1, 4, 8)
      [] Char(bytes, i) = \hFB -> FloatAt(bytes, i + 1, 8, 11)

\* parse_cbor_internal, get_cbor_array and get_cbor_object
RECURSIVE Cbor(_, _), CborItems(_, _, _, _), CborMembers(_, _, _, _)
CborItems(bytes, i, size, done) ==
    IF size = 0 THEN {<<done, i>>}
    ELSE IF size = NoLimit /\ Char(bytes, i) = Break THEN {<<done, i + 1>>}
    ELSE UNION {CborItems(bytes, r[2], IF size = NoLimit THEN size ELSE size - 1,
                          Array(Append(done.arr, r[1]))) : r \in Cbor(bytes, i)}
CborMembers(bytes, i, size, done) ==
    IF size = 0 THEN {<<done, i>>}
    ELSE IF size = NoLimit /\ Char(bytes, i) = Break THEN {<<done, i + 1>>}
    ELSE UNION {UNION {CborMembers(bytes, r[2], IF size = NoLimit THEN size ELSE size - 1,
                                   With(done, key[1].str, r[1])) : r \in Cbor(bytes, key[2])} :
                   key \in CborString(bytes, i)}
Cbor(bytes, i) ==
    LET c == Char(bytes, i)
    IN  CASE c \in \h00..\h1B \cup \h20..\h3B -> CborInteger(bytes, i)
          [] c \in \h60..\h7B \cup {\h7F} -> CborString(bytes, i)
          [] c \in \h80..\h9B \cup {\h9F} ->
                UNION {CborItems(bytes, s[2], s[1], EmptyArray) : s \in CborSize(bytes, i)}
          [] c \in \hA0..\hBB \cup {\hBF} ->
                UNION {CborMembers(bytes, s[2], s[1], EmptyObject) : s \in CborSize(bytes, i)}
          [] c \in {\hF4, \hF5} -> {<<Boolean(c = \hF5), i + 1>>}
          [] c = \hF6 -> {<<Null, i + 1>>}
          [] c \in \hF9..\hFB -> CborFloat(bytes, i)
          [] OTHER -> {}

-----------------------------------------------------------------------------
(* MessagePack.                                                            *)

MsgpackSized(bytes, i, k) == {<<SizeOf(Wide(b)), i + k>> : b \in Taken(bytes, i, k)}

MsgpackString(bytes, i) ==
    LET c == Char(bytes, i)
    IN  CASE c \in \hA0..\hBF -> StringAt(bytes, i + 1, c % 32)
          [] c \in \hD9..\hDB ->
                UNION {StringAt(bytes, s[2], s[1]) : s \in MsgpackSized(bytes, i + 1, 2^(c - \hD9))}
          [] OTHER -> {}

\* Numbers: in the first byte, or behind it.
MsgpackFixint(bytes, i) ==
    LET c == Char(bytes, i)
    IN  {<<IF c < \h80 THEN Unsigned(Wide(<<c>>)) ELSE Integer(SignWide(<<c>>)), i + 1>>}

MsgpackNumberAt(bytes, i) ==
    LET c == Char(bytes, i)
    IN  CASE c = \hCA -> FloatAt(bytes, i + 1, 4, 8)
          [] c = \hCB -> FloatAt(bytes, i + 1, 8, 11)
          [] c \in \hCC..\hCF -> UnsignedAt(bytes, i + 1, 2^(c - \hCC))
          [] c \in \hD0..\hD3 -> IntegerAt(bytes, i + 1, 2^(c - \hD0))

RECURSIVE Msgpack(_, _), MsgpackItems(_, _, _, _), MsgpackMembers(_, _, _, _)
MsgpackItems(bytes, i, size, done) ==
    IF size = 0 THEN {<<done, i>>}
    ELSE UNION {MsgpackItems(bytes, r[2], size - 1, Array(Append(done.arr, r[1]))) : r \in Msgpack(bytes, i)}
MsgpackMembers(bytes, i, size, done) ==
    IF size = 0 THEN {<<done, i>>}
    ELSE UNION {UNION {MsgpackMembers(bytes, r[2], size - 1, With(done, key[1].str, r[1])) :
                          r \in Msgpack(bytes, key[2])} :
                   key \in MsgpackString(bytes, i)}
Msgpack(bytes, i) ==
    LET c == Char(bytes, i)
    IN  CASE c \in \h00..\h7F \cup \hE0..\hFF -> MsgpackFixint(bytes, i)
          [] c \in \h80..\h8F -> MsgpackMembers(bytes, i + 1, c % 16, EmptyObject)
          [] c \in \h90..\h9F -> MsgpackItems(bytes, i + 1, c % 16, EmptyArray)
          [] c \in \hA0..\hBF \cup \hD9..\hDB -> MsgpackString(bytes, i)
          [] c = \hC0 -> {<<Null, i + 1>>}
          [] c \in {\hC2, \hC3} -> {<<Boolean(c = \hC3), i + 1>>}
          [] c \in \hCA..\hD3 -> MsgpackNumberAt(bytes, i)
          [] c \in {\hDC, \hDD} ->
                UNION {MsgpackItems(bytes, s[2], s[1], EmptyArray) :
                          s \in MsgpackSized(bytes, i + 1, 2 * (c - \hDB))}
          [] c \in {\hDE, \hDF} ->
                UNION {MsgpackMembers(bytes, s[2], s[1], EmptyObject) :
                          s \in MsgpackSized(bytes, i + 1, 2 * (c - \hDD))}
          [] OTHER -> {}

-----------------------------------------------------------------------------
(* UBJSON.                                                                 *)

UbjsonIntegers == {Letter.i, Letter.I, Letter.l, Letter.L}

\* A number of the type, from i on.
UbjsonNumberAt(bytes, i, type) ==
    CASE type = Letter.U -> UnsignedAt(bytes, i, 1)
      [] type \in UbjsonIntegers -> IntegerAt(bytes, i, UbjsonWidth(type))
      [] OTHER -> {}

\* get_ubjson_string: a negative length is none.
UbjsonString(bytes, i) ==
    UNION {IF IsNegative(n[1]) THEN {<<String(<<>>), n[2]>>}
           ELSE StringAt(bytes, n[2], SizeOf(NumberBytes(n[1]))) :
              n \in UbjsonNumberAt(bytes, i + 1, Char(bytes, i))}

\* get_ubjson_size_value: a negative size is refused as too large, or at the
\* next byte that is looked for.
UbjsonSize(bytes, i) ==
    {<<SizeOf(NumberBytes(n[1])), n[2]>> :
        n \in {m \in UbjsonNumberAt(bytes, Noop(bytes, i) + 1, Char(bytes, Noop(bytes, i))) : ~IsNegative(m[1])}}

\* get_ubjson_size_type: the size or none, the type or 0, the place behind.
UbjsonSizeType(bytes, i) ==
    LET j == Noop(bytes, i)
        h == Noop(bytes, j + 2)
    IN  CASE Char(bytes, j) = Letter.type ->
                IF Char(bytes, j + 1) # Eof /\ Char(bytes, h) = Letter.count
                THEN {<<s[1], Char(bytes, j + 1), s[2]>> : s \in UbjsonSize(bytes, h + 1)} ELSE {}
          [] Char(bytes, j) = Letter.count -> {<<s[1], 0, s[2]>> : s \in UbjsonSize(bytes, j + 1)}
          [] OTHER -> {<<NoLimit, 0, j>>}

\* get_ubjson_value behind its type, get_ubjson_array and get_ubjson_object
RECURSIVE Ubjson(_, _, _), UbjsonItems(_, _, _, _, _), UbjsonMembers(_, _, _, _, _)

\* A value of the type, or with its own type if that is 0.
UbjsonItem(bytes, i, type) ==
    IF type # 0 THEN Ubjson(bytes, i, type)
    ELSE Ubjson(bytes, Noop(bytes, i) + 1, Char(bytes, Noop(bytes, i)))

UbjsonItems(bytes, i, size, type, done) ==
    IF size = 0 \/ (size # NoLimit /\ type = Letter.N) THEN {<<done, i>>}
    ELSE IF size = NoLimit /\ Char(bytes, Noop(bytes, i)) = Letter.close THEN {<<done, Noop(bytes, i) + 1>>}
    ELSE UNION {UbjsonItems(bytes, r[2], IF size = NoLimit THEN size ELSE size - 1, type,
                            Array(Append(done.arr, r[1]))) : r \in UbjsonItem(bytes, i, type)}

UbjsonMembers(bytes, i, size, type, done) ==
    LET j == IF size = NoLimit THEN Noop(bytes, i) ELSE i
    IN  IF size = 0 THEN {<<done, i>>}
        ELSE IF size = NoLimit /\ Char(bytes, j) = Letter.end THEN {<<done, j + 1>>}
        ELSE UNION {UNION {UbjsonMembers(bytes, r[2], IF size = NoLimit THEN size ELSE size - 1, type,
                                         With(done, key[1].str, r[1])) : r \in UbjsonItem(bytes, key[2], type)} :
                       key \in UbjsonString(bytes, j)}

Ubjson(bytes, i, type) ==
    CASE type \in {Letter.T, Letter.F} -> {<<Boolean(type = Letter.T), i>>}
      [] type = Letter.Z -> {<<Null, i>>}
      [] type \in UbjsonIntegers \cup {Letter.U} -> UbjsonNumberAt(bytes, i, type)
      [] type = Letter.d -> FloatAt(bytes, i, 4, 8)
      [] type = Letter.D -> FloatAt(bytes, i, 8, 11)
      [] type = Letter.C -> {s \in StringAt(bytes, i, 1) : s[1].str[1] <= 127}
      [] type = Letter.S -> UbjsonString(bytes, i)
      [] type = Letter.open ->
            UNION {UbjsonItems(bytes, s[3], s[1], s[2], EmptyArray) : s \in UbjsonSizeType(bytes, i)}
      [] type = Letter.begin ->
            UNION {UbjsonMembers(bytes, s[3], s[1], s[2], EmptyObject) : s \in UbjsonSizeType(bytes, i)}
      [] OTHER -> {}

-----------------------------------------------------------------------------
(* The calls: to_cbor, from_cbor and the like.                             *)

Written(v, format, style) ==
    CASE format = "cbor" -> write_cbor(v)
      [] format = "msgpack" -> write_msgpack(v)
      [] format = "ubjson" -> write_ubjson(v, style, TRUE)

\* sax_parse: behind the value must be the end.
Read(bytes, format) ==
    LET results == CASE format = "cbor" -> Cbor(bytes, 1)
                     [] format = "msgpack" -> Msgpack(bytes, 1)
                     [] format = "ubjson" -> UbjsonItem(bytes, 1, 0)
        behind(i) == IF format = "ubjson" THEN Noop(bytes, i) ELSE i
    IN  {r[1] : r \in {s \in results : Char(bytes, behind(s[2])) = Eof}}
=============================================================================
