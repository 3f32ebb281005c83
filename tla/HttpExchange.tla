---------------------------- MODULE HttpExchange ----------------------------
(***************************************************************************)
(* One connection of the HTTP server of QtWebApp, from the bytes that come *)
(* in to those that go out: HttpConnectionHandler::read, HttpRequest and   *)
(* HttpResponse.  The client may send its next request before the last one *)
(* is answered, and the network cuts the stream where it likes.            *)
(*                                                                         *)
(* A symbol stands for a piece of text; it is also the unit of size.       *)
(***************************************************************************)
EXTENDS Integers, Sequences, SequencesExt

CONSTANTS
    Shapes,       \* the kinds of requests clients send
    Plans,        \* what the application does with one
    MaxSize,      \* the setting maxRequestSize
    MaxMultiPart, \* the setting maxMultiPartSize
    MaxAsked      \* bound: the requests of one connection

ASSUME SizeAssumption == MaxSize \in Nat /\ MaxMultiPart \in Nat /\ MaxAsked \in Nat

ASSUME ShapeAssumption ==
    Shapes \subseteq [first : {"start", "old", "junk"}, pad : Nat, body : Nat, multi : BOOLEAN, close : BOOLEAN]

ASSUME PlanAssumption ==
    Plans \subseteq [parts : Seq(Nat), length : Nat \cup {-1}, close : {"no", "connection", "Connection"},
                    last : BOOLEAN, throws : BOOLEAN]

\* The parts together have the given size: the i-th one ends at ends[i].
AddsUp(parts, total) ==
    \E ends \in [0..Len(parts) -> 0..total] :
        /\ ends[0] = 0 /\ ends[Len(parts)] = total
        /\ \A i \in DOMAIN parts : ends[i] = ends[i - 1] + parts[i]

\* HttpResponse takes the word of the application: one that sets Content-Length
\* writes as much, and when it closes the connection by the header that
\* HttpConnectionHandler does not find it does not break off.
ASSUME LengthAssumption ==
    \A p \in Plans : p.length >= 0 => /\ AddsUp(p.parts, p.length)
                                      /\ p.close = "connection" => ~p.throws

VARIABLES
    open,         \* the socket is connected
    wire,         \* sent by the client, not yet received
    input,        \* received, not yet read (bytesAvailable)
    request,      \* currentRequest, or NoRequest
    response,     \* the HttpResponse of the request being served, or NoResponse
    out,          \* written to the socket, not yet read by the client
    client,       \* how far the client is in the answer it reads
    sent, served, produced, answers   \* as in HttpStream; nothing reads them

connVars == <<open, wire, input, request, response>>
peerVars == <<out, client>>
pastVars == <<sent, served, produced, answers>>
httpVars == <<open, wire, input, request, response, out, client, sent, served, produced, answers>>

-----------------------------------------------------------------------------
(* The text of requests and answers.                                       *)

Symbol(kind, n) == [k |-> kind, n |-> n]
Eol == Symbol("eol", 0)
Data(id, size) == [i \in 1..size |-> Symbol("data", id)]
Headers(length, chunked) == [k |-> "head", n |-> length, chunked |-> chunked]

\* A request of the given shape.  A first line may be longer than one piece;
\* "junk" is one that is not HTTP, old one that says HTTP/1.0.
Encode(id, s) ==
    <<Symbol(s.first, id)>> \o [i \in 1..s.pad |-> Symbol("pad", 0)] \o <<Eol>>
    \o (IF s.multi THEN <<Symbol("multipart", 0), Eol>> ELSE <<>>)
    \o (IF s.close THEN <<Symbol("close", 0), Eol>> ELSE <<>>)
    \o (IF s.body > 0 THEN <<Symbol("length", s.body), Eol>> ELSE <<>>)
    \o <<Eol>> \o Data(id, s.body)

NoRequest == [status |-> "none"]
NoResponse == [plan |-> "none"]
TooLarge == Data("413", 1)

\* The constructor of HttpRequest.
NewRequest ==
    [status |-> "waitForRequest", currentSize |-> 0, lineBuffer |-> <<>>, id |-> 0, old |-> FALSE,
     close |-> FALSE, multipart |-> FALSE, expectedBodySize |-> 0, boundary |-> FALSE, bodyData |-> <<>>]

Least(S) == CHOOSE x \in S : \A y \in S : x <= y

-----------------------------------------------------------------------------
(* Reading: each operator gives the request after the call and how much of *)
(* the input it has taken.                                                 *)

\* QTcpSocket::readLine: up to the end of the line, the limit, or what is there.
LineLength(limit) ==
    Least({Len(input), limit} \cup {i \in 1..Len(input) : input[i] = Eol})

\* A piece of a line is appended to the buffer; the size of the whole
\* buffer is added to the count each time.
Collected(r) ==
    LET n == LineLength(MaxSize - r.currentSize + 1)
        line == r.lineBuffer \o SubSeq(input, 1, n)
    IN  [req |-> [r EXCEPT !.lineBuffer = line, !.currentSize = @ + Len(line)], taken |-> n]

\* A line that ends is taken out of the buffer; its first symbol tells its kind.
readRequest(r) ==
    LET c == Collected(r)
        line == c.req.lineBuffer
        after == [c.req EXCEPT !.lineBuffer = <<>>]
    IN  [c EXCEPT !.req =
            IF ~Contains(line, Eol) THEN c.req
            ELSE IF line = <<Eol>> THEN after
            ELSE IF line[1].k = "junk" THEN [after EXCEPT !.status = "abort"]
            ELSE [after EXCEPT !.status = "waitForHeader", !.id = line[1].n, !.old = line[1].k = "old"]]

\* Mutant: a request exactly as large as allowed is refused.
HeadersDoneAtLimit(r) ==
    [r EXCEPT !.boundary = r.multipart,
              !.status =
        CASE r.expectedBodySize = 0 -> "complete"
          [] r.expectedBodySize > 0 /\ ~r.multipart ->
                IF r.expectedBodySize + r.currentSize >= MaxSize THEN "abort" ELSE "waitForBody"
          [] r.expectedBodySize > 0 /\ r.multipart ->
                IF r.expectedBodySize > MaxMultiPart THEN "abort" ELSE "waitForBody"]

\* The empty line that ends the headers decides on the body.
HeadersDone(r) ==
    [r EXCEPT !.boundary = r.multipart,
              !.status =
        CASE r.expectedBodySize = 0 -> "complete"
          [] r.expectedBodySize > 0 /\ ~r.multipart ->
                IF r.expectedBodySize + r.currentSize > MaxSize THEN "abort" ELSE "waitForBody"
          [] r.expectedBodySize > 0 /\ r.multipart ->
                IF r.expectedBodySize > MaxMultiPart THEN "abort" ELSE "waitForBody"]

readHeader(r) ==
    LET c == Collected(r)
        line == c.req.lineBuffer
        after == [c.req EXCEPT !.lineBuffer = <<>>]
    IN  [c EXCEPT !.req =
            IF ~Contains(line, Eol) THEN c.req
            ELSE CASE line = <<Eol>> -> HeadersDone(after)
                   [] line[1].k = "length" -> [after EXCEPT !.expectedBodySize = line[1].n]
                   [] line[1].k = "multipart" -> [after EXCEPT !.multipart = TRUE]
                   [] line[1].k = "close" -> [after EXCEPT !.close = TRUE]
                   [] OTHER -> after]

\* Mutant: everything that has come is taken for the body.
readBodyGreedy(r) ==
    [req |-> [r EXCEPT !.bodyData = @ \o input, !.currentSize = @ + Len(input), !.status = "complete"],
     taken |-> Len(input)]

\* A multi-part body is stored in a file and, when it is whole, parsed; the
\* fields of its form are counted once more (parseMultiPartFile).
readBody(r) ==
    LET n == Least({Len(input), r.expectedBodySize - Len(r.bodyData)})
        body == r.bodyData \o SubSeq(input, 1, n)
        whole == Len(body) >= r.expectedBodySize
        plain == [r EXCEPT !.bodyData = body, !.currentSize = @ + n,
                           !.status = IF whole THEN "complete" ELSE @]
        multi == [r EXCEPT !.bodyData = body,
                           !.currentSize = IF whole /\ Len(body) < MaxMultiPart THEN @ + Len(body) ELSE @,
                           !.status = IF Len(body) >= MaxMultiPart THEN "abort"
                                      ELSE IF whole THEN "complete" ELSE @]
    IN  [req |-> IF r.boundary THEN multi ELSE plain, taken |-> n]

Limited(r) ==
    IF r.currentSize > (IF r.boundary THEN MaxMultiPart ELSE MaxSize)
    THEN [r EXCEPT !.status = "abort"] ELSE r

Reading(r) ==
    CASE r.status = "waitForRequest" -> readRequest(r)
      [] r.status = "waitForHeader" -> readHeader(r)
      [] r.status = "waitForBody" -> readBody(r)

-----------------------------------------------------------------------------
NewClient == [mode |-> "head", left |-> 0, got |-> <<>>]

\* A new connection: its socket, its handler's request and the client's view.
HttpInit ==
    /\ open = TRUE
    /\ wire = <<>> /\ input = <<>> /\ out = <<>>
    /\ request = NoRequest
    /\ response = NoResponse
    /\ client = NewClient
    /\ sent = <<>> /\ served = <<>> /\ produced = <<>> /\ answers = <<>>

ClientSend(s) ==
    /\ open /\ Len(sent) < MaxAsked
    /\ LET id == Len(sent) + 1
       IN  /\ wire' = wire \o Encode(id, s)
           /\ sent' = Append(sent, s)
    /\ UNCHANGED <<open, input, request, response, served, produced, answers>> /\ UNCHANGED peerVars

\* TCP hands over the next part of the stream.
Deliver ==
    /\ open /\ wire # <<>>
    /\ input' = Append(input, wire[1])
    /\ wire' = Tail(wire)
    /\ UNCHANGED <<open, request, response>> /\ UNCHANGED peerVars /\ UNCHANGED pastVars

\* One call of readFromSocket in the loop of read(), on a new request if there is none.
ReadFromSocket ==
    /\ open /\ input # <<>> /\ response = NoResponse
    /\ request.status \notin {"complete", "abort"}
    /\ LET c == Reading(IF request = NoRequest THEN NewRequest ELSE request)
       IN  /\ request' = Limited(c.req)
           /\ input' = SubSeq(input, c.taken + 1, Len(input))
    /\ UNCHANGED <<open, wire, response>> /\ UNCHANGED peerVars /\ UNCHANGED pastVars

\* disconnectFromHost after everything has been written; what has not been read is lost.
Hangup ==
    /\ open' = FALSE
    /\ wire' = <<>> /\ input' = <<>>
    /\ request' = NoRequest
    /\ response' = NoResponse

Abort ==
    /\ open /\ request.status = "abort"
    /\ out' = out \o <<Headers(-1, FALSE)>> \o TooLarge
    /\ produced' = Append(produced, TooLarge)
    /\ Hangup
    /\ UNCHANGED <<client, sent, served, answers>>

\* The request mapper is called: the answer closes the connection when the
\* request asks for it or is of HTTP/1.0.  plan is what the application does:
\* its calls of write, the Content-Length it sets (-1 when it does not) and whether
\* it closes the connection before the first (the header is found in two spellings
\* by write, in one by read), whether it says which call is the last, and whether
\* it may throw.
Dispatch(plan) ==
    /\ open /\ request.status = "complete" /\ response = NoResponse
    /\ response' = [plan |-> plan, close |-> request.close \/ request.old \/ plan.close = "Connection",
                    length |-> plan.length,
                    sentHeaders |-> FALSE, sentLastPart |-> FALSE, chunkedMode |-> FALSE]
    /\ served' = Append(served, [id |-> request.id, body |-> request.bodyData])
    /\ produced' = Append(produced, <<>>)
    /\ UNCHANGED <<open, wire, input, request, sent, answers>> /\ UNCHANGED peerVars

\* The headers that the first call of write settles.
Started(r, size, lastPart) ==
    IF r.sentHeaders THEN r
    ELSE [r EXCEPT !.sentHeaders = TRUE,
                   !.length = IF lastPart THEN size ELSE @,
                   !.chunkedMode = ~lastPart /\ ~r.close /\ r.plan.close # "connection"]

\* HttpResponse::write.
Write(r, size, lastPart) ==
    LET w == Started(r, size, lastPart)
        data == Data(request.id, size)
    IN  /\ out' = out \o (IF r.sentHeaders THEN <<>> ELSE <<Headers(w.length, w.chunkedMode)>>)
                      \o (IF w.chunkedMode /\ size > 0 THEN <<Symbol("size", size)>> ELSE <<>>)
                      \o data
                      \o (IF w.chunkedMode /\ lastPart THEN <<Symbol("end", 0)>> ELSE <<>>)
        /\ response' = [w EXCEPT !.sentLastPart = lastPart]
        /\ produced' = [produced EXCEPT ![Len(produced)] = @ \o data]

\* The application writes the next part of its answer.
AppWrite ==
    /\ response # NoResponse /\ response.plan.parts # <<>>
    /\ LET parts == response.plan.parts
       IN  Write([response EXCEPT !.plan.parts = Tail(parts)], parts[1],
                 response.plan.last /\ Len(parts) = 1)
    /\ UNCHANGED <<open, wire, input, request, client, sent, served, answers>>

\* The application throws before it has written everything.
AppThrow ==
    /\ response # NoResponse /\ response.plan.parts # <<>> /\ response.plan.throws
    /\ response' = [response EXCEPT !.plan.parts = <<>>]
    /\ UNCHANGED <<open, wire, input, request>> /\ UNCHANGED peerVars /\ UNCHANGED pastVars

\* The application has returned: read() writes the last part if it did not.
Finalize ==
    /\ response # NoResponse /\ response.plan.parts = <<>> /\ ~response.sentLastPart
    /\ Write(response, 0, TRUE)
    /\ UNCHANGED <<open, wire, input, request, client, sent, served, answers>>

\* The connection is closed on demand, or when only its end can end the answer.
MustClose == response.close \/ (response.length < 0 /\ ~response.chunkedMode)

Finish ==
    /\ response # NoResponse /\ response.plan.parts = <<>> /\ response.sentLastPart
    /\ IF MustClose THEN Hangup
       ELSE /\ request' = NoRequest
            /\ response' = NoResponse
            /\ UNCHANGED <<open, wire, input>>
    /\ UNCHANGED peerVars /\ UNCHANGED pastVars

\* Mutant: the timer runs between two requests only.
RequestTimeoutIdle ==
    /\ open /\ input = <<>> /\ request = NoRequest
    /\ Hangup
    /\ UNCHANGED peerVars /\ UNCHANGED pastVars

\* Ten seconds without a complete request (or without a part of its body).
RequestTimeout ==
    /\ open /\ input = <<>> /\ response = NoResponse
    /\ request.status \notin {"complete", "abort"}
    /\ Hangup
    /\ UNCHANGED peerVars /\ UNCHANGED pastVars

-----------------------------------------------------------------------------
(* The client reads answers by the rules of HTTP/1.1 (external).           *)

Understood(c) ==
    LET whole == c.mode = "done"
    IN  /\ client' = IF whole THEN NewClient ELSE c
        /\ answers' = IF whole THEN Append(answers, c.got) ELSE answers

More(c, symbol) == [c EXCEPT !.got = Append(@, symbol), !.left = @ - 1]

\* What the next symbol of an answer means to the client.
ClientNext(c, s) ==
    CASE c.mode = "head" /\ s.k = "head" ->
            [c EXCEPT !.left = s.n,
                      !.mode = IF s.chunked THEN "chunks" ELSE IF s.n = 0 THEN "done"
                               ELSE IF s.n > 0 THEN "body" ELSE "close"]
      [] c.mode = "body" /\ s.k = "data" -> [More(c, s) EXCEPT !.mode = IF c.left = 1 THEN "done" ELSE @]
      [] c.mode = "chunks" /\ s.k = "size" -> [c EXCEPT !.left = s.n, !.mode = "chunk"]
      [] c.mode = "chunks" /\ s.k = "end" -> [c EXCEPT !.mode = "done"]
      [] c.mode = "chunk" /\ s.k = "data" -> [More(c, s) EXCEPT !.mode = IF c.left = 1 THEN "chunks" ELSE @]
      [] c.mode = "close" /\ s.k = "data" -> More(c, s)
      [] OTHER -> [c EXCEPT !.mode = "error"]

ClientRead ==
    /\ out # <<>> /\ client.mode # "error"
    /\ out' = Tail(out)
    /\ Understood(ClientNext(client, out[1]))
    /\ UNCHANGED connVars /\ UNCHANGED <<sent, served, produced>>

\* The end of the connection ends an answer without a length, and breaks off any other.
ClientEnd ==
    /\ ~open /\ out = <<>> /\ client.mode = "close"
    /\ Understood([client EXCEPT !.mode = "done"])
    /\ UNCHANGED connVars /\ UNCHANGED <<out, sent, served, produced>>

Reconnect ==
    /\ ~open /\ out = <<>> /\ client.mode # "close"
    /\ open' = TRUE
    /\ client' = NewClient
    /\ sent' = <<>> /\ served' = <<>> /\ produced' = <<>> /\ answers' = <<>>
    /\ UNCHANGED <<wire, input, request, response, out>>

-----------------------------------------------------------------------------
ConnectionStep ==
    \/ ReadFromSocket \/ Abort \/ (\E plan \in Plans : Dispatch(plan))
    \/ AppWrite \/ AppThrow \/ Finalize \/ Finish
    \/ RequestTimeout

HttpNext ==
    \/ \E s \in Shapes : ClientSend(s)
    \/ Deliver
    \/ ConnectionStep
    \/ ClientRead \/ ClientEnd \/ Reconnect

HttpSpec == HttpInit /\ [][HttpNext]_httpVars

-----------------------------------------------------------------------------
(* Properties                                                              *)

\* The connection keeps the promise of HttpStream: whatever the network cuts
\* and the client sends ahead, requests are served whole and in order, and the
\* client takes for the answer to each exactly what was written for it.
Asked(i, s) == [id |-> i, body |-> Data(i, s.body)]

Stream == INSTANCE HttpStream WITH
    Requests <- {Asked(i, s) : i \in 1..MaxAsked, s \in Shapes},
    sent <- [i \in DOMAIN sent |-> Asked(i, sent[i])],
    Texts <- UNION {{Data(i, p.parts[j]) : j \in DOMAIN p.parts} : i \in 1..MaxAsked, p \in Plans}

ServesAndAnswersInOrder == Stream!StreamSpec /\ [](client.mode # "error")

\* Liveness: a client that waits for an answer gets it, or the connection is
\* ended, though the rest of its request may never arrive.
Waiting == open /\ Len(answers) < Len(sent)
RequestsAnswered == Waiting ~> ~Waiting

\* The size that is counted for a request whose lines come in the smallest
\* pieces: each piece counts the whole of the line so far.
Pieces(n) == (n * (n + 1)) \div 2

WorstCount(s) ==
    Pieces(s.pad + 2) + (IF s.multi THEN Pieces(2) ELSE 0) + (IF s.close THEN Pieces(2) ELSE 0)
    + (IF s.body > 0 THEN Pieces(2) ELSE 0) + Pieces(1) + s.body

\* A request is refused (httprequest.cpp:24-314) only when it is not one, or
\* when it is larger than the limit as it is counted; a multi-part one, whose
\* form is counted again, already when it comes to its limit.  That holds
\* however the network cuts the text and whatever was sent before it.
RefusedIsTooLarge ==
    request.status = "abort" =>
        LET s == sent[Len(served) + 1]
        IN  \/ s.first = "junk"
            \/ s.multi /\ WorstCount(s) + s.body >= MaxMultiPart
            \/ WorstCount(s) > MaxSize

\* The event loop of the handler runs, with its read timer, and the client reads.
HttpFairness ==
    /\ WF_httpVars(ConnectionStep)
    /\ WF_httpVars(ClientRead \/ ClientEnd)
=============================================================================
