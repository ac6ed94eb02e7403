--------------------------- MODULE MCAudioSession ---------------------------
(* Instances of AudioSession.tla.  "x" is a double that is no float: the    *)
(* plugin keeps it as "xf".                                                 *)
EXTENDS AudioSession

MCValues == {"zero", "x", "xf"}
MCToFloat == [v \in MCValues |-> IF v = "x" THEN "xf" ELSE v]
MCSetValues == {"x"}
MCInitial == [i \in ParamIds |-> "zero"]
MCBlocks == 1 .. MaxBlocks
=============================================================================
