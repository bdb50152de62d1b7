-------------------------- MODULE MCRequestExchange --------------------------
(* Requests and streams are interchangeable: RequestExchange only compares *)
(* them, and no property names one.                                        *)
EXTENDS RequestExchange, TLC

Symmetry == Permutations(Requests) \cup Permutations(Streams)
=============================================================================
