---------------------------- MODULE ProcessCycle ----------------------------
(***************************************************************************)
(* A host runs process() through either bridge: format is the plugin's and *)
(* the rest of the state is that of Vst3Process.tla or ClapProcess.tla.    *)
(***************************************************************************)
CONSTANTS Vst3HostData, Vst3Output, ClapHostData, ClapOutput,
          InChannels, OutChannels, MaxCycles, Null, Default

VARIABLES format, phase, cycle, data, native, wine, shm, seen, gave, got

Vst3 == INSTANCE Vst3Process WITH HostData <- Vst3HostData, PluginOutput <- Vst3Output
Clap == INSTANCE ClapProcess WITH HostData <- ClapHostData, PluginOutput <- ClapOutput

\* What a host and a plugin may pass, in either format.
ASSUME CycleAssumption == Vst3!DataAssumption /\ Clap!DataAssumption

cycleVars == <<format, phase, cycle, data, native, wine, shm, seen, gave, got>>

Init ==
  \/ format = "vst3" /\ Vst3!Init
  \/ format = "clap" /\ Clap!Init

Next ==
  /\ \/ format = "vst3" /\ Vst3!Next
     \/ format = "clap" /\ Clap!Next
  /\ UNCHANGED format

Spec == Init /\ [][Next]_cycleVars
-----------------------------------------------------------------------------
\* In either format the plugin is given this cycle's audio, events and changes,
\* empty output lists and nothing of an earlier cycle (repopulate(),
\* reconstruct(), and the objects that are kept and filled again); in CLAP the audio
\* only if the host has no more channels than the plugin.
PluginSeesThisCycle ==
  IF format = "vst3" THEN Vst3!PluginSeesThisCycle ELSE Clap!PluginSeesThisCycle

\* In either format the host gets what the plugin put out in this cycle, once and
\* in order (create_response(), write_back_outputs()).
HostGetsThisCycle ==
  IF format = "vst3" THEN Vst3!HostGetsThisCycle ELSE Clap!HostGetsThisCycle
=============================================================================
