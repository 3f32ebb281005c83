-------------------------- MODULE MCConnectionPool --------------------------
(* Instances of ConnectionPool for TLC.  MCWebServer has a larger one.     *)
EXTENDS ConnectionPool

CONSTANTS h1, h2, c1, c2, c3

MCHandlers == {h1, h2}
MCThree == {c1, c2, c3}
=============================================================================
