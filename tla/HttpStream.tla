----------------------------- MODULE HttpStream -----------------------------
(***************************************************************************)
(* What one connection of the HTTP server promises its client: requests    *)
(* are served whole, once, and in the order they were sent; each has one   *)
(* answer, and what the client takes for the answer to a request is all    *)
(* that the application wrote for it.  Packets, lines, chunks and limits   *)
(* are unknown here.                                                       *)
(***************************************************************************)
EXTENDS Naturals, Sequences

CONSTANTS
    Requests,       \* what clients may ask
    Texts,          \* what one call of the application may write
    TooLarge        \* the text of the answer that refuses a request

VARIABLES
    sent,           \* the requests of the client
    served,         \* those the application was called with
    produced,       \* for each of them what the application has written
    answers         \* the answers the client has understood

streamVars == <<sent, served, produced, answers>>

StreamInit ==
    /\ sent = <<>>
    /\ served = <<>>
    /\ produced = <<>>
    /\ answers = <<>>

Ask(r) ==
    /\ sent' = Append(sent, r)
    /\ UNCHANGED <<served, produced, answers>>

\* The application is called with the next request, unless one was refused.
Serve ==
    /\ Len(served) < Len(sent)
    /\ Len(produced) = Len(served)
    /\ served' = Append(served, sent[Len(served) + 1])
    /\ produced' = Append(produced, <<>>)
    /\ UNCHANGED <<sent, answers>>

\* An answer that the client has taken for complete does not grow any more.
Produce(data) ==
    /\ Len(answers) < Len(produced)
    /\ Len(produced) = Len(served)
    /\ produced' = [produced EXCEPT ![Len(produced)] = @ \o data]
    /\ UNCHANGED <<sent, served, answers>>

\* The next request is too large or broken; it is the last one.
Refuse ==
    /\ Len(produced) = Len(served)
    /\ Len(served) < Len(sent)
    /\ produced' = Append(produced, TooLarge)
    /\ UNCHANGED <<sent, served, answers>>

Receive ==
    /\ Len(answers) < Len(produced)
    /\ answers' = Append(answers, produced[Len(answers) + 1])
    /\ UNCHANGED <<sent, served, produced>>

\* The connection has ended and the client makes another one.
Reconnect ==
    /\ sent' = <<>>
    /\ served' = <<>>
    /\ produced' = <<>>
    /\ answers' = <<>>

StreamNext ==
    \/ \E r \in Requests : Ask(r)
    \/ Serve
    \/ \E text \in Texts : Produce(text)
    \/ Refuse
    \/ Receive
    \/ Reconnect

StreamSpec == StreamInit /\ [][StreamNext]_streamVars

-----------------------------------------------------------------------------
Begins(part, whole) == Len(part) <= Len(whole) /\ \A i \in DOMAIN part : part[i] = whole[i]

\* What it comes to: the application is called with the first requests that were
\* sent (httpconnectionhandler.cpp:119), the client has the first answers that were
\* written, and at most one answer, which refuses, is not to a request served.
InStep ==
    /\ Begins(served, sent) /\ Begins(answers, produced)
    /\ Len(produced) \in {Len(served), Len(served) + 1} /\ Len(produced) <= Len(sent)
=============================================================================
