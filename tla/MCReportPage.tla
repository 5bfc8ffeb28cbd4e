---------------------------- MODULE MCReportPage ----------------------------
(***************************************************************************)
(* Alice and Bob sign in in one browser, one after the other, and the      *)
(* browser repeats the first callback.  The bounds are three: sign in and  *)
(* out only, while time passes; one page opened twice and left open while  *)
(* the other user signs in; one page in full.                              *)
(***************************************************************************)
EXTENDS ReportPage

CONSTANTS alice, bob, none, a, b, a1, a2, b1, f, g

MCLoginOf == [c \in {a1, a2, b1} |-> IF c = b1 THEN b ELSE a]
MCAccount == [l \in {a, b} |-> IF l = a THEN alice ELSE bob]

Bound(callbacks, ticks, pages, forms, questions, others) ==
  [callbacks |-> callbacks, ticks |-> ticks, pages |-> pages,
   forms |-> forms, questions |-> questions, others |-> others]

MCBounds ==
  {Bound({a1, a2, b1}, 2, 0, {}, 0, 0), Bound({a1, b1}, 0, 1, {f}, 0, 0),
   Bound({a1}, 0, 1, {f, g}, 1, 0),
   Bound({a1}, 0, 1, {f}, 2, 1), Bound({a1}, 0, 2, {f}, 1, 0)}
=============================================================================
