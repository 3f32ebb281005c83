-------------------------------- MODULE Json --------------------------------
(***************************************************************************)
(* The calls of the JSON library (class basic_json of json.hpp): parse of  *)
(* any tokens, parse of what dump has written, the strings of the text     *)
(* format, the binary formats, and the edits of a value.                   *)
(*                                                                         *)
(* A behaviour is one call, or a call for every beginning of an input that *)
(* grows byte by byte: the input of a reader is cut at any place.          *)
(***************************************************************************)
EXTENDS JsonParser, JsonFilter, JsonEdit, JsonBinary

CONSTANTS
    kPrecision, kMantissa, kBias, kAlpha, kGamma,                     \* see Grisu
    kCachedPowers, kCachedPowersMinDecExp, kCachedPowersDecStep,
    Floats,          \* exponents and fractions of floating-point numbers
    Filtered,        \* values whose texts are parsed with a callback
    Documents,       \* values that are written as text
    Styles,          \* the styles they are written in
    Pairs,           \* pairs of values that are edited into each other
    BinaryValues,    \* values that are written in the binary formats
    StringBytes,     \* bytes of strings
    BinaryBytes,     \* for each binary format bytes of its inputs
    MaxBytes         \* for each call the length of the input that grows

VARIABLES
    call,      \* the call
    subject,   \* the value it is made on, or what it is made with
    bytes      \* the input that grows

Grisu2 == INSTANCE Grisu

jsonVars == <<call, subject, bytes, parserVars>>

Formats == {"cbor", "msgpack", "ubjson"}
UbjsonStyles == {[count |-> FALSE, type |-> FALSE], [count |-> TRUE, type |-> FALSE],
                 [count |-> TRUE, type |-> TRUE]}

Idle == ParserInit /\ ~strict /\ ahead = <<>>

JsonInit ==
    /\ bytes = <<>>
    /\ \/ call = "parse" /\ subject = Null /\ ParserInit /\ ahead = <<>>
       \/ /\ call = "dump" /\ ParserInit /\ strict
          /\ \E v \in Documents, style \in Styles : subject = v /\ ahead = Tokens(Dump(v, style))
       \/ /\ call = "float" /\ Idle
          /\ \E bits \in Floats : subject = [E |-> bits[1], F |-> bits[2]]
       \/ /\ call = "filter" /\ Idle
          /\ \E v \in Filtered : \E refused \in SUBSET (1..EventCount(v)) :
                subject = [value |-> v, refused |-> refused]
       \/ call = "string" /\ subject = Null /\ Idle
       \/ /\ call = "write" /\ Idle
          /\ \E v \in BinaryValues, format \in Formats, style \in UbjsonStyles :
                /\ format = "ubjson" => HasUbjson(v)
                /\ format # "ubjson" => ~style.count
                /\ subject = [value |-> v, format |-> format, style |-> style]
       \/ call = "read" /\ Idle /\ \E format \in Formats : subject = [format |-> format]
       \/ call = "edit" /\ Idle /\ \E pair \in Pairs : subject = [source |-> pair[1], target |-> pair[2]]

\* The input grows by a byte.
Grow ==
    /\ call \in {"string", "read"}
    /\ Len(bytes) < MaxBytes[call]
    /\ \E byte \in IF call = "string" THEN StringBytes ELSE BinaryBytes[subject.format] :
          bytes' = Append(bytes, byte)
    /\ UNCHANGED <<call, subject, parserVars>>

JsonNext ==
    \/ Grow
    \/ call \in {"parse", "dump"} /\ ParserNext /\ UNCHANGED <<call, subject, bytes>>

JsonSpec == JsonInit /\ [][JsonNext]_jsonVars

-----------------------------------------------------------------------------
(* Properties.                                                             *)

\* parse on any tokens (json.hpp:6002-6028): it accepts the sentences of the
\* JSON grammar and nothing else, builds the value they stand for although it
\* does so through pointers into a value that grows (the last of two members
\* with one key counts), and refuses a text where no way to go on is left.
\* With a callback it leaves out what is refused, as json.hpp:1089-1095 has it.
ParsesJson ==
    /\ call = "parse" => ParsesTheGrammar
    /\ call = "filter" => FiltersAsAsked(subject.value, subject.refused)

\* What a text keeps of a value: a float that is not finite becomes null, and
\* an integer that is not negative is read as unsigned.
RECURSIVE AsText(_)
AsText(v) ==
    CASE v.t = "array" -> Array([i \in DOMAIN v.arr |-> AsText(v.arr[i])])
      [] v.t = "object" -> Object([key \in DOMAIN v.obj |-> AsText(v.obj[key])])
      [] v.t = "number_float" -> IF v.float.finite THEN v ELSE Null
      [] v.t = "number_integer" -> IF v.int < 0 THEN v ELSE Unsigned(v.int)
      [] OTHER -> v

\* The digits of a float stand for a number that is nearer to this float than
\* to any other, and are no more than any float needs; no assertion fails.
DigitsReadBack(E, F) ==
    LET decimal == Grisu2!grisu2(E, F)
    IN  /\ Len(decimal.digits) \in 1..Grisu2!EnoughDigits
        /\ \A i \in DOMAIN decimal.digits : decimal.digits[i] \in 0..9
        /\ Head(decimal.digits) # 0 /\ Last(decimal.digits) # 0
        /\ Grisu2!ReadsAs(Number(decimal.digits), decimal.exponent, E, F)

\* A value that dump has written (serializer.hpp, to_chars.hpp) is parsed to the
\* same value in every style: escapes, surrogates, exponents and indentation of
\* the writer are those of the lexer, and a float comes back as a float, the
\* same by its digits (to_chars.hpp:858-861).
TextSurvives ==
    /\ call = "dump" => at # "error" /\ (at = "done" => root = AsText(subject))
    /\ call = "float" => DigitsReadBack(subject.E, subject.F)

\* The strings that the lexer takes (lexer.hpp:531-650) are those that dump
\* does not refuse (the table of serializer.hpp:578-596): what is parsed can be
\* written, and what can be written can be parsed.
SameStrings ==
    call = "string" =>
        (ScanString(Append(bytes, Quote), 1, <<>>).type = "value_string") = IsUtf8(bytes)

\* A number without the kind it is stored as.
RECURSIVE Plain(_)
Plain(v) ==
    CASE v.t = "array" -> Array([i \in DOMAIN v.arr |-> Plain(v.arr[i])])
      [] v.t = "object" -> Object([key \in DOMAIN v.obj |-> Plain(v.obj[key])])
      [] v.t = "number_integer" -> IF IsNegative(v) THEN v ELSE Unsigned(v.int)
      [] OTHER -> v

\* What is read back is the value, from all bytes and from no fewer.
ComesBack(v, format, style) ==
    LET text == Written(v, format, style)
    IN  /\ \A w \in Read(text, format) : Plain(w) = Plain(v)
        /\ Read(text, format) # {}
        /\ \A n \in 0..(Len(text) - 1) : Read(SubSeq(text, 1, n), format) = {}

\* What a binary writer has written (binary_writer.hpp) its reader reads
\* (binary_reader.hpp) as the same value, whatever width or optimisation was
\* chosen, and of a part of it the reader makes nothing; what a reader makes of
\* any other bytes is a value that comes back in the same way.
BinarySurvives ==
    /\ call = "write" => ComesBack(subject.value, subject.format, subject.style)
    /\ call = "read" => \A v \in Read(bytes, subject.format), style \in UbjsonStyles :
                            HasUbjson(v) \/ subject.format # "ubjson" => ComesBack(v, subject.format, style)

\* A merge patch that is to make the target of the source: what is gone becomes null.
RECURSIVE MergePatchFor(_, _)
MergePatchFor(v, w) ==
    IF v.t # "object" \/ w.t # "object" THEN w
    ELSE Object([key \in {k \in DOMAIN v.obj \cup DOMAIN w.obj :
                             k \notin DOMAIN v.obj \cap DOMAIN w.obj \/ v.obj[k] # w.obj[k]} |->
                    IF key \notin DOMAIN w.obj THEN Null
                    ELSE IF key \notin DOMAIN v.obj THEN w.obj[key]
                    ELSE MergePatchFor(v.obj[key], w.obj[key])])

RECURSIVE HasNullMember(_)
HasNullMember(v) ==
    CASE v.t = "object" -> \E key \in DOMAIN v.obj : v.obj[key] = Null \/ HasNullMember(v.obj[key])
      [] OTHER -> FALSE

\* Values that flatten loses a part of, or whose member "0" unflatten takes for
\* the first element of an array.
RECURSIVE LostByFlatten(_)
LostByFlatten(v) ==
    CASE v.t = "array" -> v = EmptyArray \/ \E i \in DOMAIN v.arr : LostByFlatten(v.arr[i])
      [] v.t = "object" ->
            \/ v = EmptyObject \/ <<\h30>> \in DOMAIN v.obj
            \/ \E key \in DOMAIN v.obj : LostByFlatten(v.obj[key])
      [] OTHER -> FALSE

\* source.patch(diff(source, target)) == target, as json.hpp:7394-7398 has it,
\* with removals and additions in arrays and any key in the pointers; a merge
\* patch reaches every target without null members; and j.flatten().unflatten()
\* is j (json.hpp:7047-7048) unless there is an empty container in it or a
\* member "0".
EditsReachTheTarget ==
    call = "edit" =>
        LET source == subject.source
            target == subject.target
        IN  /\ Same(Patch(source, Diff(source, target)), target)
            /\ ~HasNullMember(target) => Merge(source, MergePatchFor(source, target)) = target
            /\ ~LostByFlatten(source) => Unflatten(Flatten(source)) = source
=============================================================================
