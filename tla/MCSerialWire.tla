---------------------------- MODULE MCSerialWire ----------------------------
(* Instances of SerialWire.tla: doubles and float32 samples as their bytes. *)
EXTENDS SerialWire

Half == <<0, 0, 0, 0, 0, 0, 224, 63>>                     \* 0.5
Tenth == <<154, 153, 153, 153, 153, 153, 185, 63>>        \* 0.1
TenthF == <<0, 0, 0, 160, 153, 153, 185, 63>>             \* (float)0.1
Zero == <<0, 0, 0, 0, 0, 0, 0, 0>>
\* Two doubles whose bytes the VST3 host reads as the tag of a PROCESS frame.
Denormal == <<2, 0, 0, 0, 0, 0, 0, 0>>                    \* 2^-1073
Minute == <<0, 0, 0, 0, 0, 0, 0, 2>>                      \* about 2^-991

MCValues == {Zero, Half, Tenth, TenthF, Denormal, Minute}
MCSetValues == {Half, Tenth}
MCSetValuesVst3 == {Zero, Denormal, Minute}
MCToFloat == [v \in MCValues |-> CASE v = Tenth -> TenthF
                                     [] v \in {Denormal, Minute} -> Zero
                                     [] OTHER -> v]
MCIds == {0, 300}
MCIdsVst3 == {0, 33554432}    \* 2^25: a zero, a zero, a zero and a two
MCInitial == [i \in MCIds |-> Zero]
MCInitialVst3 == [i \in MCIdsVst3 |-> Zero]

S1 == <<0, 0, 0, 63>>      \* 0.5f
S2 == <<0, 0, 0, 64>>      \* 2.0f

\* No input connected; one channel; two channels of two samples.
MCBlocks == {<<>>, <<<<S1>>>>, <<<<S1, S2>>, <<S2, F32Zero>>>>}
MCBlocksVst3 == {<<<<S1>>>>}
=============================================================================
