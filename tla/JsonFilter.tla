----------------------------- MODULE JsonFilter -----------------------------
(***************************************************************************)
(* The parser with a callback (json_sax.hpp, json_sax_dom_callback_parser):*)
(* the callback says of every event whether what it announces or completes *)
(* is to be kept.  The events are those of a text without repeated keys;   *)
(* the callback is the set of the events that it refuses.                  *)
(*                                                                         *)
(* A pointer into the value is the path to what it points to.              *)
(***************************************************************************)
EXTENDS JsonValue

Discarded == [t |-> "discarded"]

To(path) == [null |-> FALSE, path |-> path]
NullPointer == [null |-> TRUE, path |-> <<>>]

FilterStart ==
    [root |-> Null, refs |-> <<>>, keeps |-> <<TRUE>>, keyKeeps |-> <<>>, element |-> <<>>,
     placed |-> NullPointer, crashed |-> FALSE]

Ref(s) == Last(s.refs)
Target(s) == Get(s.root, Ref(s).path)
Dropped(s) == [s EXCEPT !.placed = NullPointer]
\* A null pointer is dereferenced.
Crash(s) == [s EXCEPT !.crashed = TRUE]

\* handle_value; keep is what the callback says of the value.
HandleValue(s, v, keep) ==
    CASE ~Last(s.keeps) \/ ~keep -> Dropped(s)
      [] Last(s.keeps) /\ keep /\ s.refs = <<>> -> [s EXCEPT !.root = v, !.placed = To(<<>>)]
      [] Last(s.keeps) /\ keep /\ s.refs # <<>> ->
            IF Ref(s).null THEN Crash(s)
            ELSE IF Target(s).t = "array"
            THEN [s EXCEPT !.root = Put(@, Ref(s).path, Array(Append(Target(s).arr, v))),
                           !.placed = To(Append(Ref(s).path, Len(Target(s).arr) + 1))]
            ELSE IF ~Last(s.keyKeeps) THEN Dropped([s EXCEPT !.keyKeeps = Front(@)])
            ELSE [s EXCEPT !.keyKeeps = Front(@), !.root = Put(@, s.element, v), !.placed = To(s.element)]

\* start_object and start_array
StartContainer(s, container, keep) ==
    LET placing == HandleValue([s EXCEPT !.keeps = Append(@, keep)], container, TRUE)
    IN  [placing EXCEPT !.refs = Append(@, placing.placed)]

\* The member is Discarded until its value comes.
FilterKey(s, key, keep) ==
    LET announced == [s EXCEPT !.keyKeeps = Append(@, keep)]
    IN  IF ~keep \/ Ref(s).null THEN announced
        ELSE [announced EXCEPT !.root = Put(@, Ref(s).path, With(Target(s), key, Discarded)),
                               !.element = Append(Ref(s).path, key)]

Refused(s, keep) == ~Ref(s).null /\ ~keep
\* A container that is refused when it is complete; the stacks go back by one.
Completed(s, keep) ==
    [s EXCEPT !.root = IF Refused(s, keep) THEN Put(@, Ref(s).path, Discarded) ELSE @,
              !.refs = Front(@), !.keeps = Front(@)]

\* One discarded member of the object around is removed.
WithoutDiscarded(v) ==
    LET discarded == SelectSeq(Keys(v), LAMBDA key : v.obj[key] = Discarded)
    IN  IF discarded = <<>> THEN v ELSE WithoutKey(v, Head(discarded))

EndObject(s, keep) ==
    LET outer == Completed(s, keep)
    IN  IF outer.refs = <<>> \/ Ref(outer).null \/ Target(outer).t # "object" THEN outer
        ELSE [outer EXCEPT !.root = Put(@, Ref(outer).path, WithoutDiscarded(Target(outer)))]

EndArray(s, keep) ==
    LET outer == Completed(s, keep)
    IN  IF ~Refused(s, keep) \/ outer.refs = <<>> \/ Target(outer).t # "array" THEN outer
        ELSE [outer EXCEPT !.root = Put(@, Ref(outer).path, Array(Front(Target(outer).arr)))]

-----------------------------------------------------------------------------
Event(type, value) == [type |-> type, value |-> value]

\* The events of the text of a value.
RECURSIVE Events(_)
Events(v) ==
    CASE v.t = "array" ->
            <<Event("array_start", Null)>> \o FlattenSeq([i \in DOMAIN v.arr |-> Events(v.arr[i])])
            \o <<Event("array_end", Null)>>
      [] v.t = "object" ->
            <<Event("object_start", Null)>>
            \o FlattenSeq([i \in DOMAIN Keys(v) |->
                              <<Event("key", String(Keys(v)[i]))>> \o Events(v.obj[Keys(v)[i]])])
            \o <<Event("object_end", Null)>>
      [] OTHER -> <<Event("value", v)>>

Handled(s, event, keep) ==
    IF s.crashed THEN s
    ELSE CASE event.type = "value" -> HandleValue(s, event.value, keep)
           [] event.type = "key" -> FilterKey(s, event.value.str, keep)
           [] event.type = "object_start" -> StartContainer(s, EmptyObject, keep)
           [] event.type = "array_start" -> StartContainer(s, EmptyArray, keep)
           [] event.type = "object_end" -> EndObject(s, keep)
           [] event.type = "array_end" -> EndArray(s, keep)

\* parse with a callback that refuses the events at some places.
ParseFiltered(v, refused) ==
    LET events == Events(v)
        parse[i \in 0..Len(events)] ==
            IF i = 0 THEN FilterStart ELSE Handled(parse[i - 1], events[i], i \notin refused)
        end == parse[Len(events)]
    IN  [crashed |-> end.crashed, value |-> IF end.root = Discarded THEN Null ELSE end.root]

-----------------------------------------------------------------------------
(* What the documentation of parser_callback_t says (json.hpp:1089-1095):  *)
(* a value that is refused is as if it had never been read, and at the top *)
(* it is replaced by null.                                                 *)

EventCount(v) == Len(Events(v))

\* Where the n-th child of a container begins that begins at i itself; a
\* member begins with its key.
ChildAt(v, i, n) ==
    LET before == [j \in 1..(n - 1) |-> IF v.t = "array" THEN Events(v.arr[j])
                                        ELSE <<Event("key", Null)>> \o Events(v.obj[Keys(v)[j]])]
    IN  i + 1 + Len(FlattenSeq(before))

\* The value with what is refused in it left out, none if it is refused itself.
RECURSIVE Kept(_, _, _)
Kept(v, i, refused) ==
    IF i \in refused \/ (i + EventCount(v) - 1) \in refused THEN {}
    ELSE CASE v.t = "array" ->
                LET kept == [n \in DOMAIN v.arr |-> Kept(v.arr[n], ChildAt(v, i, n), refused)]
                IN  {Array(FlattenSeq([n \in DOMAIN kept |-> SetToSeq(kept[n])]))}
           [] v.t = "object" ->
                LET kept == [n \in DOMAIN Keys(v) |->
                                IF ChildAt(v, i, n) \in refused THEN {}
                                ELSE Kept(v.obj[Keys(v)[n]], ChildAt(v, i, n) + 1, refused)]
                    left == {n \in DOMAIN kept : kept[n] # {}}
                IN  {Object([key \in {Keys(v)[n] : n \in left} |->
                                CHOOSE w \in kept[CHOOSE n \in left : Keys(v)[n] = key] : TRUE])}
           [] OTHER -> {v}

Documented(v, refused) ==
    LET kept == Kept(v, 1, refused) IN IF kept = {} THEN Null ELSE CHOOSE w \in kept : TRUE

\* The parts of a value, as [value, at, inside]: the place of its first event
\* and the type of the container it is in.
RECURSIVE PartsOf(_, _, _)
PartsOf(v, i, inside) ==
    {[value |-> v, at |-> i, inside |-> inside]} \cup
    CASE v.t = "array" -> UNION {PartsOf(v.arr[n], ChildAt(v, i, n), "array") : n \in DOMAIN v.arr}
      [] v.t = "object" ->
            UNION {PartsOf(v.obj[Keys(v)[n]], ChildAt(v, i, n) + 1, "object") : n \in DOMAIN Keys(v)}
      [] OTHER -> {}

\* Whatever is in a part that is refused is refused as well.
RefusesAll(v, refused) ==
    \A part \in PartsOf(v, 1, "none") :
        LET events == part.at..(part.at + EventCount(part.value) - 1)
        IN  /\ part.at \in refused => events \subseteq refused
            /\ part.inside = "object" /\ (part.at - 1) \in refused => events \subseteq refused

\* A part is refused at the first event that there is of it.
RefusesAtOnce(v, refused) ==
    \A part \in PartsOf(v, 1, "none") :
        LET events == part.at..(part.at + EventCount(part.value) - 1)
        IN  /\ (part.at + EventCount(part.value) - 1) \in refused => part.at \in refused
            /\ part.inside = "object" /\ part.at \in refused => (part.at - 1) \in refused

\* The value without the marks of what was discarded.
RECURSIVE Cleaned(_)
Cleaned(v) ==
    CASE v.t = "array" ->
            LET left == SelectSeq(v.arr, LAMBDA w : w # Discarded) IN Array([i \in DOMAIN left |-> Cleaned(left[i])])
      [] v.t = "object" ->
            Object([key \in {k \in DOMAIN v.obj : v.obj[k] # Discarded} |-> Cleaned(v.obj[key])])
      [] OTHER -> v

\* If the callback refuses all that is in a part it refuses, the parser keeps
\* what it should, up to marks that it leaves behind, and leaves none if every
\* part is refused at once.
FiltersAsAsked(v, refused) ==
    LET parsed == ParseFiltered(v, refused)
    IN  RefusesAll(v, refused) =>
            /\ ~parsed.crashed
            /\ Cleaned(parsed.value) = Documented(v, refused)
            /\ RefusesAtOnce(v, refused) => parsed.value = Documented(v, refused)
=============================================================================
