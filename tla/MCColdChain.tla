----------------------------- MODULE MCColdChain -----------------------------
(* Cold-chain inspections of one product on a small instance. *)
EXTENDS ColdChain, TLC

Interchangeable == Permutations(Writers)

Lasting == [min |-> 0, max |-> 8]
SomeRanges == {Lasting}

\* A clean photo, a frame with a warm and a frozen spot, and a tripped indicator
\* beside a display that shows 5 degrees.
Nothing == [spots |-> {}, displayed |-> {}, triggered |-> FALSE, flags |-> 0, labels |-> 0, damaged |-> FALSE]
SomeFindings ==
  {Nothing,
   [Nothing EXCEPT !.spots = {[peak |-> 6, area |-> 3], [peak |-> -8, area |-> 1]}],
   [Nothing EXCEPT !.displayed = {5}, !.triggered = TRUE, !.damaged = TRUE]}

=============================================================================
