---------------------------- MODULE MCViewport ----------------------------
(* The instances of Viewport.                                              *)
EXTENDS Viewport

\* An empty line, one that ends where a row does and one that does not, two lines of
\* which one takes three rows, with and without a menu, and a search.
Holds(lines, row, col, menu, width, prompt) ==
  [lines |-> lines, row |-> row, col |-> col, menu |-> menu, menuAt |-> Most(0, menu - 1), item |-> 14,
   width |-> width, prompt |-> prompt, search |-> FALSE, found |-> 0]
MCInputs ==
  {Holds(<<0>>, 1, 0, 0, 1, 2), Holds(<<0>>, 1, 0, 0, 1, 9), Holds(<<18>>, 1, 18, 0, 1, 2),
   Holds(<<3, 50>>, 2, 7, 5, 1, 9), Holds(<<25, 5>>, 1, 25, 5, 2, 2),
   [Holds(<<0>>, 1, 0, 0, 1, 2) EXCEPT !.search = TRUE, !.found = 9]}

Terminal(columns, rows, chrome, reflows) ==
  [columns |-> columns, rows |-> rows, chrome |-> chrome, reflows |-> reflows]
MCWindows ==
  UNION {{Terminal(16, 9, d[1], d[2]), Terminal(22, 9, d[1], d[2]), Terminal(22, 4, d[1], d[2]),
          Terminal(31, 9, d[1], d[2])} :
           d \in {<<"none", TRUE>>, <<"none", FALSE>>, <<"rule", TRUE>>, <<"box", FALSE>>}}
=============================================================================
