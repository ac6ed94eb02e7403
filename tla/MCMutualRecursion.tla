-------------------------- MODULE MCMutualRecursion -------------------------
(* An instance of MutualRecursion.tla.  On thread gui: f1 is answered with   *)
(* the functions h1 and h2, h1 forks f2, and that is answered with h3; h0    *)
(* comes at any time.  On thread other: f3, answered with h4.                *)
EXTENDS MutualRecursion

CONSTANTS f1, f2, f3, h0, h1, h2, h3, h4, gui, other

MCCaller == [f \in Forks |-> IF f = f3 THEN other ELSE gui]
MCWithin == [c \in Forks \cup Handles |->
               CASE c \in {h1, h2} -> f1
                 [] c = f2 -> h1
                 [] c = h3 -> f2
                 [] c = h4 -> f3
                 [] OTHER -> NoCall]
=============================================================================
