--------------------------- MODULE MCStreamServer ---------------------------
(* Instances of StreamServer for TLC: one client, every kind of source.    *)
EXTENDS StreamServer
=============================================================================
