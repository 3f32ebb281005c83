---------------------------- MODULE JsonParser ----------------------------
(***************************************************************************)
(* The parser of the JSON library (detail/input/parser.hpp, with the dom   *)
(* parser of json_sax.hpp): a loop over the tokens of the lexer with a     *)
(* stack of the containers that are open, which builds the value in place  *)
(* through pointers into it.  A pointer is the path to what it points to.  *)
(*                                                                         *)
(* The tokens are those of a given text, or any at all: then the lexer     *)
(* delivers at every call a token of Alphabet, MaxTokens at most.          *)
(***************************************************************************)
EXTENDS JsonLexer

CONSTANTS
    Alphabet,     \* the tokens of an arbitrary text
    MaxTokens     \* the most of them

VARIABLES
    ahead,          \* the tokens of a given text that are not yet read
    strict,         \* whether the text must end with the value
    read,           \* the tokens read, the last of them is last_token
    at,             \* where the loop of sax_parse_internal stands
    states,         \* for every open container whether it is an array
    root,           \* the value as far as it is built
    refStack,       \* pointers to the open containers
    objectElement   \* pointer to the member whose value comes next

parserVars == <<ahead, strict, read, at, states, root, refStack, objectElement>>

Places == {"start", "value", "array", "object", "key", "colon", "fetch", "evaluate", "end", "done", "error"}

EndOfInput == Token("end_of_input", 0)

\* What get_token may deliver.
Offered ==
    IF ahead # <<>> THEN {Head(ahead)}
    ELSE IF Len(read) < MaxTokens THEN Alphabet \cup {EndOfInput}
    ELSE {EndOfInput}

GetToken(token) ==
    /\ token \in Offered
    /\ read' = Append(read, token)
    /\ ahead' = IF ahead = <<>> THEN <<>> ELSE Tail(ahead)
    /\ UNCHANGED strict

NoToken == UNCHANGED <<ahead, strict, read>>

-----------------------------------------------------------------------------
(* The value under construction.                                           *)

Innermost == Get(root, Last(refStack))

\* handle_value: the value becomes the root, the next element, or the member
\* that is waiting for it.
Place(v) ==
    IF refStack = <<>> THEN v
    ELSE IF Innermost.t = "array" THEN Put(root, Last(refStack), Array(Append(Innermost.arr, v)))
    ELSE Put(root, objectElement, v)

\* Where handle_value has put it.
Placed ==
    IF refStack = <<>> THEN <<>>
    ELSE IF Innermost.t = "array" THEN Append(Last(refStack), Len(Innermost.arr) + 1)
    ELSE objectElement

AddValue(v) == root' = Place(v) /\ UNCHANGED <<refStack, objectElement>>

\* start_array and start_object
Open(container) ==
    /\ root' = Place(container)
    /\ refStack' = Append(refStack, Placed)
    /\ UNCHANGED objectElement

\* end_array and end_object
Close == refStack' = Front(refStack) /\ UNCHANGED <<root, objectElement>>

\* key: the member is null until its value comes, unless there is one already.
Key(key) ==
    /\ root' = IF key \in DOMAIN Innermost.obj THEN root
               ELSE Put(root, Last(refStack), With(Innermost, key, Null))
    /\ objectElement' = Append(Last(refStack), key)
    /\ UNCHANGED refStack

Unbuilt == UNCHANGED <<root, refStack, objectElement>>
Goto(place) == at' = place /\ UNCHANGED states
Fail == Goto("error") /\ Unbuilt

-----------------------------------------------------------------------------
ParserInit ==
    /\ strict \in BOOLEAN
    /\ read = <<>> /\ at = "start" /\ states = <<>>
    /\ root = Null /\ refStack = <<>> /\ objectElement = <<>>

\* The constructor reads the first token.
FirstToken ==
    /\ at = "start"
    /\ \E token \in Offered : GetToken(token)
    /\ Goto("value") /\ Unbuilt

Scalars == {"value_float", "literal_false", "literal_null", "literal_true",
            "value_integer", "value_string", "value_unsigned"}

ReadValue ==
    /\ at = "value"
    /\ LET token == Last(read)
       IN  \/ token.type \in Scalars
              /\ ~(token.type = "value_float" /\ ~token.value.float.finite)
              /\ AddValue(token.value) /\ Goto("evaluate")
           \/ token.type = "value_float" /\ ~token.value.float.finite /\ Fail
           \/ token.type = "begin_object" /\ Open(EmptyObject) /\ Goto("object")
           \/ token.type = "begin_array" /\ Open(EmptyArray) /\ Goto("array")
           \/ token.type \notin Scalars \cup {"begin_object", "begin_array"} /\ Fail
    /\ NoToken

\* Behind [ comes ] or a value.
FirstElement ==
    /\ at = "array"
    /\ \E token \in Offered :
          /\ GetToken(token)
          /\ \/ token.type = "end_array" /\ Close /\ Goto("evaluate")
             \/ /\ token.type # "end_array" /\ Unbuilt
                /\ states' = Append(states, TRUE) /\ at' = "value"

\* Behind { comes } or a key, behind a comma a key.
ReadKey ==
    /\ at \in {"object", "key"}
    /\ \E token \in Offered :
          /\ GetToken(token)
          /\ \/ at = "object" /\ token.type = "end_object" /\ Close /\ Goto("evaluate")
             \/ /\ token.type = "value_string" /\ Key(token.value.str) /\ at' = "colon"
                /\ states' = IF at = "object" THEN Append(states, FALSE) ELSE states
             \/ token.type \notin {"value_string"} \cup (IF at = "object" THEN {"end_object"} ELSE {})
                /\ Fail

\* Behind a key comes a colon, and the token of the value is fetched.
ReadColon ==
    /\ at = "colon"
    /\ \E token \in Offered :
          /\ GetToken(token)
          /\ \/ token.type = "name_separator" /\ Goto("fetch") /\ Unbuilt
             \/ token.type # "name_separator" /\ Fail

Fetch ==
    /\ at = "fetch"
    /\ \E token \in Offered : GetToken(token)
    /\ Goto("value") /\ Unbuilt

\* Mutant: either bracket ends a container.
EvaluateAnyEnd ==
    /\ at = "evaluate" /\ states # <<>>
    /\ \E token \in Offered :
          /\ GetToken(token)
          /\ \/ /\ token.type = "value_separator" /\ Unbuilt
                /\ Goto(IF Last(states) THEN "fetch" ELSE "key")
             \/ /\ token.type \in {"end_array", "end_object"}
                /\ Close /\ states' = Front(states) /\ UNCHANGED at
             \/ token.type \notin {"value_separator", "end_array", "end_object"} /\ Fail

\* Behind a value in a container comes a comma or the end of the container,
\* after which the container is a value itself.
Evaluate ==
    /\ at = "evaluate" /\ states # <<>>
    /\ \E token \in Offered :
          /\ GetToken(token)
          /\ \/ /\ token.type = "value_separator" /\ Unbuilt
                /\ Goto(IF Last(states) THEN "fetch" ELSE "key")
             \/ /\ token.type = (IF Last(states) THEN "end_array" ELSE "end_object")
                /\ Close /\ states' = Front(states) /\ UNCHANGED at
             \/ token.type \notin {"value_separator", IF Last(states) THEN "end_array" ELSE "end_object"}
                /\ Fail

\* The value is complete; a strict parser wants the end of the text.
Complete ==
    /\ at = "evaluate" /\ states = <<>>
    /\ \/ ~strict /\ NoToken /\ Goto("done") /\ Unbuilt
       \/ /\ strict /\ Unbuilt
          /\ \E token \in Offered :
                GetToken(token) /\ Goto(IF token.type = "end_of_input" THEN "done" ELSE "error")

ParserNext ==
    FirstToken \/ ReadValue \/ FirstElement \/ ReadKey \/ ReadColon \/ Fetch \/ Evaluate \/ Complete

-----------------------------------------------------------------------------
(* The grammar: the values a sequence of tokens stands for, none or one.   *)

Is(tokens, i, type) == i \in DOMAIN tokens /\ tokens[i].type = type
From(tokens, i) == SubSeq(tokens, i, Len(tokens))
Until(tokens, i) == SubSeq(tokens, 1, i)

RECURSIVE Meaning(_), Elements(_), Members(_)

\* A value, or a value, a comma and elements.
Elements(s) ==
    {<<v>> : v \in Meaning(s)} \cup
    UNION {{<<v>> \o rest : v \in Meaning(Until(s, i - 1)), rest \in Elements(From(s, i + 1))} :
              i \in {j \in DOMAIN s : s[j].type = "value_separator"}}

\* The same of members; the last of two members with one key counts.
Members(s) ==
    IF ~(Is(s, 1, "value_string") /\ Is(s, 2, "name_separator")) THEN {}
    ELSE {<< <<s[1].value.str, v>> >> : v \in Meaning(From(s, 3))} \cup
         UNION {{<< <<s[1].value.str, v>> >> \o rest :
                    v \in Meaning(SubSeq(s, 3, i - 1)), rest \in Members(From(s, i + 1))} :
                   i \in {j \in DOMAIN s : s[j].type = "value_separator"}}

Meaning(s) ==
    CASE s = <<>> -> {}
      [] Len(s) = 1 ->
            IF s[1].type \notin Scalars \/ (s[1].type = "value_float" /\ ~s[1].value.float.finite) THEN {}
            ELSE {s[1].value}
      [] Is(s, 1, "begin_array") /\ Is(s, Len(s), "end_array") ->
            IF Len(s) = 2 THEN {EmptyArray} ELSE {Array(e) : e \in Elements(SubSeq(s, 2, Len(s) - 1))}
      [] Is(s, 1, "begin_object") /\ Is(s, Len(s), "end_object") ->
            IF Len(s) = 2 THEN {EmptyObject}
            ELSE {FoldLeft(LAMBDA v, m : With(v, m[1], m[2]), EmptyObject, members) :
                     members \in Members(SubSeq(s, 2, Len(s) - 1))}
      [] OTHER -> {}

\* The parser accepts the sentences of the grammar and builds what they stand
\* for, and refuses a text at a token behind which it cannot become a sentence
\* any more (with up to two further tokens).
ParsesTheGrammar ==
    /\ at = "done" => Meaning(IF strict THEN Front(read) ELSE read) = {root}
    /\ at = "done" /\ strict => Last(read).type = "end_of_input"
    /\ at = "error" => \A more \in BoundedSeq(Alphabet, 2) : Meaning(read \o more) = {}
=============================================================================
