------------------------------ MODULE JsonEdit ------------------------------
(***************************************************************************)
(* JSON pointers (detail/json_pointer.hpp) and what the library does with  *)
(* them: flatten and unflatten, patch and diff, and merge_patch            *)
(* (json.hpp).  What has no result because an exception is thrown is       *)
(* Thrown; a set of at most one result stands for a lookup that may throw. *)
(***************************************************************************)
EXTENDS JsonSerializer

Slash == \h2F
Tilde == \h7E
Blanks == \h09..\h0D \cup {\h20}

-----------------------------------------------------------------------------
(* Pointers.                                                               *)

\* replace_substring: what has been put in is not looked at again.
RECURSIVE Replaced(_, _, _)
Replaced(bytes, f, t) ==
    IF bytes = <<>> THEN <<>>
    ELSE IF IsPrefix(f, bytes) THEN t \o Replaced(SubSeq(bytes, Len(f) + 1, Len(bytes)), f, t)
    ELSE <<bytes[1]>> \o Replaced(Tail(bytes), f, t)

\* escape and unescape, two replacements each, the order of which matters.
escape(bytes) == Replaced(Replaced(bytes, <<Tilde>>, <<Tilde, \h30>>), <<Slash>>, <<Tilde, \h31>>)

unescape(bytes) ==
    Replaced(Replaced(bytes, <<Tilde, \h31>>, <<Slash>>), <<Tilde, \h30>>, <<Tilde>>)

WellEscaped(token) ==
    \A i \in DOMAIN token : token[i] = Tilde => Char(token, i + 1) \in {\h30, \h31}

\* split: the tokens of a pointer, or nothing.
RECURSIVE Parts(_)
Parts(text) ==
    LET slash == FirstOf(text, {Slash})
    IN  IF slash = 0 THEN <<text>>
        ELSE <<SubSeq(text, 1, slash - 1)>> \o Parts(SubSeq(text, slash + 1, Len(text)))

Split(text) ==
    IF text = <<>> THEN {<<>>}
    ELSE IF text[1] # Slash \/ ~ \A i \in DOMAIN Parts(Tail(text)) : WellEscaped(Parts(Tail(text))[i])
         THEN {}
    ELSE {[i \in DOMAIN Parts(Tail(text)) |-> unescape(Parts(Tail(text))[i])]}

\* array_index with std::stoi: blanks, a sign and digits; a negative index is
\* huge as a size_type.
RECURSIVE Index(_)
Index(token) ==
    LET digits == IF Char(token, 1) \in {Minus, Plus} THEN Tail(token) ELSE token
        n == Number(DigitValues(digits))
    IN  IF Char(token, 1) \in Blanks THEN Index(Tail(token))
        ELSE IF digits = <<>> \/ ~(ToSet(digits) \subseteq Digit) \/ (token[1] = Minus /\ n > 0) THEN {}
        ELSE {n}

IndexText(i) == DumpInteger(i)

\* get_checked: a member or an element that exists.
LeadingZero(token) == Len(token) > 1 /\ token[1] = \h30

Existing(v, token) ==
    CASE v.t = "object" -> {token} \cap DOMAIN v.obj
      [] v.t = "array" -> IF LeadingZero(token) THEN {} ELSE {i + 1 : i \in Index(token)} \cap DOMAIN v.arr
      [] OTHER -> {}

RECURSIVE Checked(_, _)
Checked(v, tokens) ==
    IF tokens = <<>> THEN {<<>>}
    ELSE UNION {{<<step>> \o rest : rest \in Checked(Get(v, <<step>>), Tail(tokens))} :
                   step \in Existing(v, Head(tokens))}

At(v, tokens) == {Get(v, path) : path \in Checked(v, tokens)}

\* operator[]: an array is filled with nulls, an object gets a null.
WithElement(v, i) == Array(v.arr \o [k \in 1..(i + 1 - Len(v.arr)) |-> Null])
WithMember(v, key) == IF key \in DOMAIN v.obj THEN v ELSE With(v, key, Null)

Opened(v, step) == [value |-> v, step |-> step]

\* One step of get_and_create and of get_unchecked: a null becomes a container.
Creating(v, token) ==
    CASE v.t = "null" -> IF token = <<\h30>> THEN {Opened(Array(<<Null>>), 1)}
                         ELSE {Opened(With(EmptyObject, token, Null), token)}
      [] v.t = "object" -> {Opened(WithMember(v, token), token)}
      [] v.t = "array" -> {Opened(WithElement(v, i), i + 1) : i \in Index(token)}
      [] OTHER -> {}

RECURSIVE Unchecking(_, _)
Unchecking(v, token) ==
    CASE v.t = "null" ->
            Unchecking(IF ToSet(token) \subseteq Digit \/ token = <<Minus>> THEN EmptyArray ELSE EmptyObject,
                       token)
      [] v.t = "object" -> {Opened(WithMember(v, token), token)}
      [] v.t = "array" ->
            IF LeadingZero(token) THEN {}
            ELSE IF token = <<Minus>> THEN {Opened(WithElement(v, Len(v.arr)), Len(v.arr) + 1)}
            ELSE {Opened(WithElement(v, i), i + 1) : i \in Index(token)}
      [] OTHER -> {}

\* The value with all that is created on the way, and the path that was taken.
Reference(value, path) == [value |-> value, path |-> path]

RECURSIVE Referenced(_, _, _)
Referenced(v, tokens, create) ==
    IF tokens = <<>> THEN {Reference(v, <<>>)}
    ELSE UNION {{Reference(Put(o.value, <<o.step>>, r.value), <<o.step>> \o r.path) :
                    r \in Referenced(Get(o.value, <<o.step>>), Tail(tokens), create)} :
                   o \in IF create THEN Creating(v, Head(tokens)) ELSE Unchecking(v, Head(tokens))}

OnlyOf(S) == IF S = {} THEN Thrown ELSE CHOOSE v \in S : TRUE

-----------------------------------------------------------------------------
(* flatten and unflatten.                                                  *)

IsContainer(v) == v.t \in {"array", "object"}
Parted(v) == (v.t = "array" /\ v # EmptyArray) \/ (v.t = "object" /\ v # EmptyObject)

RECURSIVE FlattenAt(_, _)
FlattenAt(text, v) ==
    CASE v.t = "array" /\ Parted(v) ->
            FoldFunction(@@, <<>>, [i \in DOMAIN v.arr |->
                FlattenAt(text \o <<Slash>> \o IndexText(i - 1), v.arr[i])])
      [] v.t = "object" /\ Parted(v) ->
            FoldFunction(@@, <<>>, [key \in DOMAIN v.obj |->
                FlattenAt(text \o <<Slash>> \o escape(key), v.obj[key])])
      [] OTHER -> text :> (IF IsContainer(v) THEN Null ELSE v)

Flatten(v) == Object(FlattenAt(<<>>, v))

\* The value at a place that get_and_create makes, or Thrown for good.
Assign(v, text, w) ==
    IF v = Thrown THEN Thrown
    ELSE OnlyOf(UNION {{Put(r.value, r.path, w) : r \in Referenced(v, tokens, TRUE)} : tokens \in Split(text)})

Unflatten(v) ==
    IF v.t # "object" \/ \E key \in DOMAIN v.obj : IsContainer(v.obj[key]) THEN Thrown
    ELSE FoldLeft(LAMBDA done, key : Assign(done, key, v.obj[key]), Null, Keys(v))

-----------------------------------------------------------------------------
(* patch: an operation is a record of the members it has.                  *)

\* What assert(false) leaves.
Asserted == [t |-> "asserted"]

\* The pointer in a member of an operation.
Pointer(operation, member) ==
    IF member \in DOMAIN operation /\ operation[member].t = "string" THEN Split(operation[member].str) ELSE {}

Values(operation) == IF "value" \in DOMAIN operation THEN {operation.value} ELSE {}

\* pop_back: the parent of what a pointer names, and its last token.
PopBack(tokens) == [parent |-> Front(tokens), last |-> Last(tokens)]

\* operation_add at the parent.
AddTo(parent, last, val) ==
    CASE parent.t \in {"null", "object"} ->
            {With(IF parent = Null THEN EmptyObject ELSE parent, last, val)}
      [] parent.t = "array" /\ last = <<Minus>> -> {Array(Append(parent.arr, val))}
      [] parent.t = "array" /\ last # <<Minus>> ->
            {Array(InsertAt(parent.arr, i + 1, val)) : i \in {j \in Index(last) : j <= Len(parent.arr)}}
      [] OTHER -> {Asserted}

OperationAdd(v, tokens, val) ==
    IF tokens = <<>> THEN {val}
    ELSE IF Len(tokens) > 1 /\ Checked(v, <<tokens[1]>>) = {} THEN {}
    ELSE LET at == PopBack(tokens) IN
         UNION {{IF p = Asserted THEN Asserted ELSE Put(r.value, r.path, p) :
                    p \in AddTo(Get(r.value, r.path), at.last, val)} :
                   r \in Referenced(v, at.parent, FALSE)}

\* operation_remove at the parent; what is not a container stays as it is.
RemoveFrom(parent, last) ==
    CASE parent.t = "object" -> {WithoutKey(parent, key) : key \in {last} \cap DOMAIN parent.obj}
      [] parent.t = "array" -> {Array(RemoveAt(parent.arr, i + 1)) : i \in {j \in Index(last) : j < Len(parent.arr)}}
      [] OTHER -> {parent}

OperationRemove(v, tokens) ==
    IF tokens = <<>> THEN {}
    ELSE LET at == PopBack(tokens) IN
         UNION {{Put(v, path, p) : p \in RemoveFrom(Get(v, path), at.last)} :
                   path \in Checked(v, at.parent)}

\* One operation.
Operate(v, operation) ==
    IF ~{"op", "path"} \subseteq DOMAIN operation THEN {}
    ELSE UNION {
        CASE operation.op = "add" -> UNION {OperationAdd(v, tokens, val) : val \in Values(operation)}
          [] operation.op = "remove" -> OperationRemove(v, tokens)
          [] operation.op = "replace" ->
                {Put(v, path, val) : path \in Checked(v, tokens), val \in Values(operation)}
          [] operation.op = "move" ->
                UNION {UNION {OperationAdd(w, tokens, val) : val \in At(v, from), w \in OperationRemove(v, from)} :
                          from \in Pointer(operation, "from")}
          [] operation.op = "copy" ->
                UNION {UNION {OperationAdd(v, tokens, val) : val \in At(v, from)} :
                          from \in Pointer(operation, "from")}
          [] operation.op = "test" ->
                IF \E found \in At(v, tokens), val \in Values(operation) : Same(found, val) THEN {v} ELSE {}
          [] OTHER -> {} : tokens \in Pointer(operation, "path")}

\* All operations, one after the other, on a copy of the value.
Patch(v, operations) ==
    FoldLeft(LAMBDA done, operation :
                IF done \in {Thrown, Asserted} THEN done ELSE OnlyOf(Operate(done, operation)),
             v, operations)

-----------------------------------------------------------------------------
(* diff.                                                                   *)

Removal(text) == [op |-> "remove", path |-> String(text)]
Addition(text, v) == [op |-> "add", path |-> String(text), value |-> v]
Replacement(text, v) == [op |-> "replace", path |-> String(text), value |-> v]

\* Mutant: the removals of the elements at the end in their own order.
RemovalsForward(text, from, to) == [k \in 1..(to - from) |-> Removal(text \o <<Slash>> \o IndexText(from + k - 1))]

\* The removals of the elements at the end, each inserted before the one before.
Removals(text, from, to) == [k \in 1..(to - from) |-> Removal(text \o <<Slash>> \o IndexText(to - k))]

RECURSIVE DiffAt(_, _, _)
DiffAt(source, target, text) ==
    LET n == IF Len(source.arr) < Len(target.arr) THEN Len(source.arr) ELSE Len(target.arr)
        element(i) == text \o <<Slash>> \o IndexText(i - 1)
        member(key) == text \o <<Slash>> \o escape(key)
        shared(key) == IF key \in DOMAIN target.obj
                       THEN DiffAt(source.obj[key], target.obj[key], member(key))
                       ELSE <<Removal(member(key))>>
        new == SelectSeq(Keys(target), LAMBDA key : key \notin DOMAIN source.obj)
    IN  CASE Same(source, target) -> <<>>
          [] ~Same(source, target) /\ source.t = "array" /\ target.t = "array" ->
                FlattenSeq([i \in 1..n |-> DiffAt(source.arr[i], target.arr[i], element(i))])
                \o Removals(text, n, Len(source.arr))
                \o [k \in 1..(Len(target.arr) - n) |-> Addition(element(n + k), target.arr[n + k])]
          [] ~Same(source, target) /\ source.t = "object" /\ target.t = "object" ->
                FlattenSeq([i \in DOMAIN Keys(source) |-> shared(Keys(source)[i])])
                \o [i \in DOMAIN new |-> Addition(member(new[i]), target.obj[new[i]])]
          [] OTHER -> <<Replacement(text, target)>>

Diff(source, target) == DiffAt(source, target, <<>>)

-----------------------------------------------------------------------------
(* merge_patch.                                                            *)

RECURSIVE Merge(_, _)
Merge(v, p) ==
    IF p.t # "object" THEN p
    ELSE FoldLeft(LAMBDA done, key :
                     IF p.obj[key] = Null THEN WithoutKey(done, key)
                     ELSE With(done, key, Merge(WithMember(done, key).obj[key], p.obj[key])),
                  IF v.t = "object" THEN v ELSE EmptyObject, Keys(p))
=============================================================================
