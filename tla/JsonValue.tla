----------------------------- MODULE JsonValue -----------------------------
(***************************************************************************)
(* The values of the JSON library (nlohmann, class basic_json): null,      *)
(* booleans, the three kinds of numbers, strings of bytes, arrays and      *)
(* objects.  A floating-point number is known by its shortest decimal      *)
(* digits d1...dk and an exponent e, and stands for d1...dk * 10^e.        *)
(***************************************************************************)
EXTENDS Integers, Sequences, FiniteSets, SequencesExt

CONSTANTS
    MaxInteger,   \* the largest number_integer_t
    MaxUnsigned   \* the largest number_unsigned_t

ASSUME NumberAssumption == MaxInteger \in Nat /\ MaxUnsigned = 2 * MaxInteger + 1

Decimal(neg, digits, exponent) ==
    [finite |-> TRUE, neg |-> neg, digits |-> digits, exponent |-> exponent]
Infinite(neg) == [finite |-> FALSE, neg |-> neg, digits |-> <<>>, exponent |-> 0]

Null == [t |-> "null"]
Boolean(b) == [t |-> "boolean", bool |-> b]
Integer(n) == [t |-> "number_integer", int |-> n]
Unsigned(n) == [t |-> "number_unsigned", uint |-> n]
Float(f) == [t |-> "number_float", float |-> f]
String(bytes) == [t |-> "string", str |-> bytes]
Array(elements) == [t |-> "array", arr |-> elements]
Object(members) == [t |-> "object", obj |-> members]

EmptyArray == Array(<<>>)
EmptyObject == Object(<<>>)

\* What an exception leaves of the value that was asked for.
Thrown == [t |-> "thrown"]

\* std::map orders the keys of an object byte by byte.
Before(a, b) ==
    \/ IsStrictPrefix(a, b)
    \/ \E i \in DOMAIN a \cap DOMAIN b : a[i] < b[i] /\ SubSeq(a, 1, i - 1) = SubSeq(b, 1, i - 1)

RECURSIVE Ordered(_)
Ordered(keys) ==
    IF keys = {} THEN <<>>
    ELSE LET first == CHOOSE k \in keys : \A l \in keys \ {k} : Before(k, l)
         IN  <<first>> \o Ordered(keys \ {first})

Keys(v) == Ordered(DOMAIN v.obj)

\* operator[] and erase of an object's members.
With(v, key, member) == Object([k \in DOMAIN v.obj \cup {key} |-> IF k = key THEN member ELSE v.obj[k]])
WithoutKey(v, key) == Object([k \in DOMAIN v.obj \ {key} |-> v.obj[k]])

\* A number_unsigned_t cast to number_integer_t.
Cast(n) == IF n > MaxInteger THEN n - (MaxUnsigned + 1) ELSE n

\* A pointer to a part of a value is the path that leads there.
RECURSIVE Get(_, _)
Get(v, path) ==
    IF path = <<>> THEN v
    ELSE Get(IF v.t = "array" THEN v.arr[Head(path)] ELSE v.obj[Head(path)], Tail(path))

RECURSIVE Put(_, _, _)
Put(v, path, w) ==
    CASE path = <<>> -> w
      [] path # <<>> /\ v.t = "array" -> Array([v.arr EXCEPT ![Head(path)] = Put(@, Tail(path), w)])
      [] path # <<>> /\ v.t = "object" -> Object([v.obj EXCEPT ![Head(path)] = Put(@, Tail(path), w)])

\* The number that digits stand for.
Number(digits) == FoldLeft(LAMBDA n, d : 10 * n + d, 0, digits)

\* operator==: integers of the two kinds are compared as number_integer_t, an
\* integer and a float as floats.
Equals(f, n) ==
    /\ f.finite /\ f.exponent >= 0
    /\ (IF f.neg THEN -1 ELSE 1) * Number(f.digits) * 10^f.exponent = n

RECURSIVE Same(_, _)
Same(v, w) ==
    CASE v.t = "array" /\ w.t = "array" ->
            /\ Len(v.arr) = Len(w.arr)
            /\ \A i \in DOMAIN v.arr : Same(v.arr[i], w.arr[i])
      [] v.t = "object" /\ w.t = "object" ->
            /\ DOMAIN v.obj = DOMAIN w.obj
            /\ \A k \in DOMAIN v.obj : Same(v.obj[k], w.obj[k])
      [] v.t = "number_unsigned" /\ w.t = "number_integer" -> Cast(v.uint) = w.int
      [] v.t = "number_integer" /\ w.t = "number_unsigned" -> v.int = Cast(w.uint)
      [] v.t = "number_float" /\ w.t = "number_float" -> v = w \/ (Equals(v.float, 0) /\ Equals(w.float, 0))
      [] v.t = "number_float" /\ w.t = "number_integer" -> Equals(v.float, w.int)
      [] v.t = "number_integer" /\ w.t = "number_float" -> Equals(w.float, v.int)
      [] v.t = "number_float" /\ w.t = "number_unsigned" -> Equals(v.float, w.uint)
      [] v.t = "number_unsigned" /\ w.t = "number_float" -> Equals(w.float, v.uint)
      [] OTHER -> v = w
=============================================================================
