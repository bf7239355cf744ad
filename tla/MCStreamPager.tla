--------------------------- MODULE MCStreamPager ----------------------------
(***************************************************************************)
(* Instances of StreamPager: two streams that share a selector, at the same*)
(* time or one after the other (streams on selectors of their own have     *)
(* nothing in common), over objects that fill up to two pages.             *)
(***************************************************************************)
EXTENDS StreamPager

CONSTANTS s1, s2, x1

TwoStreams   == {s1, s2}
OneSelector  == {x1}
ThreeObjects == 1 .. 3
=============================================================================
