------------------------------- MODULE MCFiles -------------------------------
(* An instance of Files for TLC: two paths and three contents, of which one  *)
(* ends without a newline and one holds a text the log does not keep.        *)
EXTENDS Files

MCContents == {File("a", "a", FALSE), File("b", "a", FALSE), File("b", "a", TRUE)}
MCProposed == {File("b", "a", FALSE), File("b", "a", TRUE)}
MCInitial == {[f \in Paths |-> IF f = "p" THEN x ELSE Absent] : x \in {File("a", "a", FALSE), Dir}}
MCForeign == {File("a", "a", FALSE), Absent, Dir}
MCSlices == {{"top"}, Regions}
=============================================================================
