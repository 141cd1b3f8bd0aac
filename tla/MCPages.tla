------------------------------- MODULE MCPages -------------------------------
(* TLC instance of Pages. *)
EXTENDS Pages

CONSTANTS t1, t2, p1, c1, c2, x, k1, g1, g2, h1, h2, b1, b2, w1, w2, w3, i1, a1, l1, demo, none

Plain == [path |-> "/api/nats", access |-> None, key |-> k1, method |-> "GET", item |-> x,
          body |-> << >>, ifMatch |-> 0, ifNone |-> FALSE, ttlQuery |-> FALSE,
          ttlHeader |-> FALSE]
PutBytes(bytes) == [Plain EXCEPT !.method = "PUT", !.body = bytes]

\* Calls of every kind, with bodies of every length modulo three.
ApiCalls ==
    {Plain, [Plain EXCEPT !.access = g1], [Plain EXCEPT !.method = "DELETE"],
     [PutBytes(<<251, 2, 63, 9, 128>>) EXCEPT !.ifMatch = 1, !.ttlQuery = TRUE],
     [PutBytes(<<0, 1, 128>>) EXCEPT !.ifNone = TRUE, !.key = None],
     [PutBytes(<<255>>) EXCEPT !.path = "/api/cosmos"], [Plain EXCEPT !.path = "/api/cosmos"]}
=============================================================================
