------------------------------- MODULE MCJson -------------------------------
(* Instances of Json for TLC.                                              *)
EXTENDS Json

a == <<\h61>>
ValueOfString(text) == ValueToken("value_string", 0, String(text))

MCAlphabet ==
    {Token(type, 0) : type \in {"begin_object", "end_object", "begin_array", "end_array",
                                "name_separator", "value_separator"}}
    \cup {ValueOfString(a), ValueOfString(<<>>), ValueToken("literal_true", 0, Boolean(TRUE)),
          ValueToken("value_float", 0, Float(Infinite(FALSE)))}

\* Text: numbers up to the limits, floats of every layout, strings with all
\* that is escaped and characters of one to four bytes, nested containers.
MCFloats ==
    {Decimal(neg, digits, e) : neg \in BOOLEAN, digits \in {<<1>>, <<1, 5>>, <<9, 0, 7>>}, e \in -7..5}
    \cup {Decimal(FALSE, <<>>, 0), Decimal(TRUE, <<>>, 0), Infinite(TRUE)}
MCStrings ==
    {<<>>, a, <<Quote>>, <<Backslash, Slash>>, <<8, 9, 10, 12, 13>>, <<0, \h1F, \h7F>>, <<\hC2, \h80>>,
     <<\hE2, \h82, \hAC, \h61>>, <<\hED, \h9F, \hBF>>, <<\hEF, \hBF, \hBF>>, <<\hF0, \h90, \h80, \h80>>,
     <<\hF0, \h9F, \h98, \h80>>, <<\hF4, \h8F, \hBF, \hBF>>}
MCScalars ==
    {Null, Boolean(TRUE), Boolean(FALSE)} \cup {Integer(n) : n \in {-MaxInteger - 1, -1, 0, MaxInteger}}
    \cup {Unsigned(n) : n \in {0, 9, 10, MaxUnsigned}}
    \cup {Float(f) : f \in MCFloats} \cup {String(s) : s \in MCStrings}
MCFew == {Null, Integer(-1), Float(Decimal(FALSE, <<1>>, 0)), String(<<Quote>>)}
MCDocuments ==
    MCScalars \cup {EmptyArray, EmptyObject} \cup {Array(<<v>>) : v \in MCScalars}
    \cup {Array(<<v, Array(<<w, EmptyObject>>), v>>) : v, w \in MCFew}
    \cup {Object(s :> v @@ a :> Object(<<>> :> w @@ s :> EmptyArray)) : s \in MCStrings \ {a}, v, w \in MCFew}
MCStyles == [pretty : BOOLEAN, ascii : BOOLEAN, step : {1}]

\* The bytes at the edges of the ranges that the table of UTF-8 tells apart.
MCStringBytes ==
    {\h7F, \h80, \h8F, \h90, \h9F, \hA0, \hBF, \hC1, \hC2, \hDF, \hE0, \hE1, \hEC, \hED, \hEF,
     \hF0, \hF1, \hF3, \hF4, \hF5}

\* Edits: keys with what is escaped in a pointer and what looks like an index,
\* numbers that are equal although of other kinds, and nested containers.
MCKeys == {<<>>, a, <<Tilde, \h31>>, <<Slash>>, <<\h30>>}
MCLeaves == {Null, Unsigned(1), Integer(-1), Unsigned(MaxUnsigned), Float(Decimal(FALSE, <<1>>, 0))}
MCFlat ==
    MCLeaves \cup {EmptyArray, EmptyObject, Array([i \in 1..11 |-> Unsigned(i)])}
    \cup {Array(<<v, w>>) : v, w \in {Null, Unsigned(1)}} \cup {Array(<<v>>) : v \in MCLeaves}
    \cup {Object(k :> v @@ l :> w) : k, l \in MCKeys, v, w \in {Null, Unsigned(1)}}
MCNested ==
    {Array(<<v, w, v>>) : v, w \in {Unsigned(1), Array(<<Null>>), Object(a :> Null), EmptyArray}}
    \cup {Object(a :> v @@ <<Slash>> :> w) :
             v, w \in {Unsigned(1), Array(<<Unsigned(1), Null, Null>>), Object(a :> Null), Object(<<>> :> Unsigned(1)), EmptyObject}}
MCPairs == (MCFlat \cup MCNested) \X (MCFlat \cup MCNested)

\* The binary formats: the numbers at the edges of every width, strings and
\* containers whose sizes are at the edges of every way to write a size.
Eight(tail) == Filled(8 - Len(tail), 0) \o tail
MCWords ==
    UNION {{Eight(tail), Complement(Eight(tail))} :
              tail \in {<<0>>, <<\h17>>, <<\h18>>, <<31>>, <<32>>, <<127>>, <<128>>, <<255>>, <<1, 0>>, <<127, 255>>,
                        <<128, 0>>, <<255, 255>>, <<1, 0, 0>>, <<127, 255, 255, 255>>, <<128, 0, 0, 0>>,
                        <<255, 255, 255, 255>>, <<1, 0, 0, 0, 0>>, <<127, 255, 255, 255, 255, 255, 255, 255>>}}
MCNumbers == {Integer(w) : w \in MCWords} \cup {Unsigned(w) : w \in MCWords}
MCDouble == Float(<<\h40, \h09, 0, 0, 0, 0, 0, 1>>)
MCText(n) == String(Filled(n, \h61))
MCSmall == {Null, Boolean(TRUE), Boolean(FALSE), Integer(Eight(<<5>>)), Unsigned(Eight(<<200>>)), MCDouble, MCText(1)}
MCSizes == {0, 15, 16, 23, 24, 31, 32, 127, 128, 255, 256}
MCBinaryValues ==
    MCNumbers \cup MCSmall \cup {MCText(n) : n \in MCSizes}
    \cup {Array(Filled(n, v)) : n \in {0, 15, 16, 23, 24}, v \in {Null, Integer(Eight(<<1>>))}}
    \cup {Array(<<v, v, w>>) : v, w \in MCSmall}
    \cup {Object([key \in {<<k>> : k \in 1..n} |-> Boolean(TRUE)]) : n \in {0, 16, 24}}
    \cup {Object(a :> v @@ <<>> :> Array(<<w, w>>)) : v, w \in MCSmall}
    \cup {Array(<<Array(<<v, v>>), Array(<<>>), Array(<<w>>)>>) : v, w \in MCSmall}
    \cup {Array(<<Object(a :> v), Object(a :> v)>>) : v \in MCSmall}

MCBinaryBytes ==
    [cbor |-> {0, 1, \h18, \h38, \h61, \h78, \h7F, \h81, \h98, \h9F, \hA1, \hBF, \hF9, \hFA, \hFF},
     msgpack |-> {0, 1, \h7F, \h81, \h91, \hA1, \hC1, \hCA, \hCC, \hD0, \hD9, \hDC, \hDE, \hFF},
     ubjson |-> {1, \hFF} \cup {Letter[x] : x \in {"T", "N", "U", "i", "C", "S", "open", "close",
                                                   "begin", "end", "type", "count"}}]
MCMaxBytes == [string |-> 4, read |-> 5]
\* Floats with the widths of the build scaled down: 7 bits instead of 53 in a
\* diyfp of 18 instead of 64, and a step of one in the table of powers.  Every
\* float of 24 exponents but zero.
MCFloatBits == ((0..23) \X (0..63)) \ {<<0, 0>>}
MCAlpha == -14
MCGamma == -9
MCMinDecExp == -5
Power(f, e, k) == [f |-> f, e |-> e, k |-> k]
MCPowers ==
    <<Power(171799, -34, -5), Power(214748, -31, -4), Power(134218, -27, -3), Power(167772, -24, -2),
      Power(209715, -21, -1), Power(131072, -17, 0), Power(163840, -14, 1), Power(204800, -11, 2),
      Power(256000, -8, 3), Power(160000, -4, 4), Power(200000, -1, 5), Power(250000, 2, 6), Power(156250, 6, 7)>>

\* Values in every kind of container, each with every callback.
MCFiltered ==
    LET one == Unsigned(1) b == <<\h62>>
    IN  {one, EmptyArray, EmptyObject, Array(<<one, Array(<<one>>), one>>), Array(<<Object(a :> one), one>>),
         Object(a :> one @@ b :> one), Object(a :> Array(<<one>>) @@ b :> one),
         Object(a :> Object(a :> one) @@ b :> Object(b :> one)), Array(<<Array(<<Array(<<one>>), one>>), one>>),
         Object(a :> Object(a :> Object(a :> one))), Object(a :> one @@ b :> Object(a :> Array(<<one>>)))}
=============================================================================
