--------------------------- MODULE MCHttpExchange ---------------------------
(* Instances of HttpExchange for TLC.                                      *)
EXTENDS HttpExchange

Shape(first, pad, body, multi, close) ==
    [first |-> first, pad |-> pad, body |-> body, multi |-> multi, close |-> close]
Plan(parts, length, close, last, throws) ==
    [parts |-> parts, length |-> length, close |-> close, last |-> last, throws |-> throws]

\* Requests with and without a body, at the limit of a multi-part one and
\* over it, with a first line in pieces, of HTTP/1.0, closing, not of HTTP.
MCShapes ==
    {Shape("start", 0, 8, TRUE, FALSE), Shape("start", 0, 0, FALSE, FALSE), Shape("start", 1, 1, FALSE, TRUE),
     Shape("old", 0, 2, TRUE, FALSE), Shape("start", 0, 1, TRUE, FALSE), Shape("start", 0, 2, FALSE, FALSE),
     Shape("junk", 0, 0, FALSE, FALSE)}

\* Answers in one part and in two, with a length or closed by the application.
MCPlans ==
    {Plan(<<1, 1>>, -1, "connection", TRUE, TRUE), Plan(<<1>>, -1, "no", TRUE, FALSE),
     Plan(<<1, 2>>, -1, "no", FALSE, TRUE), Plan(<<1, 1>>, 2, "connection", TRUE, FALSE),
     Plan(<<1, 1>>, -1, "Connection", FALSE, TRUE), Plan(<<1, 1>>, 2, "Connection", FALSE, TRUE)}

HttpFairSpec == HttpSpec /\ HttpFairness
=============================================================================
