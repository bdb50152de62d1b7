---------------------------- MODULE RequestUnits ----------------------------
(***************************************************************************)
(* What a request is made of, as far as HttpIpcCodec::decode tells it      *)
(* apart (src/src/codec.rs), and a few requests.                           *)
(*                                                                         *)
(* A unit stands for one byte; the two line ends are kept apart, for a cut *)
(* may fall between them and a body may hold them.  What else is in a head *)
(* is one unit per thing the decoder looks at: something httparse refuses, *)
(* a method or URI the http crate refuses, a Content-Length it can parse,  *)
(* and one it cannot, which it ignores.                                    *)
(***************************************************************************)
EXTENDS Sequences

CR == "r"
LF == "l"
Malformed == "x"
BadUri    == "u"
Lengths   == [l0 |-> 0, l1 |-> 1, l2 |-> 2, l4 |-> 4]
Units     == {CR, LF, Malformed, BadUri, "a", "lz"} \cup DOMAIN Lengths

HeaderEnd == <<CR, LF, CR, LF>>

-----------------------------------------------------------------------------
(* Conversations of up to two requests, one of them served next to one     *)
(* that is not: bodies that hold a head's end, two lengths, an unparsable  *)
(* length, errors found at the head or after the body, blank lines first,  *)
(* a head of more than nine bytes, a request of more than twelve.          *)
R(fields, body) == [head |-> fields \o HeaderEnd, body |-> body]

Plain  == R(<<"a">>, <<>>)
Post   == R(<<"a", CR, LF, "l1">>, <<"a">>)
Nested == R(<<"l4">>, HeaderEnd)
Twice  == R(<<"l4", CR, LF, "l2">>, <<CR, LF>>)
Padded == R(<<CR, LF, "a">>, <<>>)
Odd    == R(<<"a", "lz">>, <<>>)
Broken == R(<<"x", "l2">>, <<"a", "a">>)
NoUri  == R(<<"u", "l1">>, <<"a">>)
Long   == R(<<"a", "a", "a", "a", "a", "a", "a", "a">>, <<>>)
Big    == R(<<"a", "a", "a", "a", "l4">>, <<CR, "a", "a", LF>>)
Nothing == R(<<>>, <<>>)

Served == {Plain, Post, Nested, Twice, Padded, Odd}
NotServed == {Broken, NoUri, Long, Big, Nothing}
Pairs == {<<q, r>> : q \in Served, r \in Served \cup NotServed}
Mixed == Pairs \cup {<<r>> : r \in Served \cup NotServed}
         \cup {<<Post, Nested, Plain>>, <<Plain, Plain, Plain, Twice>>}
=============================================================================
