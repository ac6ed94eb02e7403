--------------------------- MODULE MCNativeObjects ---------------------------
(* The instance of NativeObjects.tla for TLC.                                *)
EXTENDS NativeObjects

\* Objects with at most two of the interfaces, or all but at most two.
FewOrMost(interfaces) ==
  LET few == {{}} \cup {{a, b} : a \in interfaces, b \in interfaces}
  IN few \cup {interfaces \ f : f \in few}

\* The information about the second class cannot be had.
ClassTable == <<TRUE, FALSE, TRUE>>
=============================================================================
