---------------------------- MODULE ObjectProxy ----------------------------
(***************************************************************************)
(* How one half of the VST3 bridge stands in for an object of the other    *)
(* half (src/common/serialization/vst3/*-proxy.cpp, plugin-factory.cpp):   *)
(* the object is asked for every interface it may have, what it said is    *)
(* sent as the proxy's ConstructArgs, and the proxy answers                *)
(* queryInterface() from them.  A plugin object is asked again after       *)
(* initialize().  Classes are created by identifiers whose bytes are in    *)
(* another order in the other half (WineUID, NativeUID of base.cpp).       *)
(***************************************************************************)
EXTENDS Vst3Messages, Naturals, Sequences, FiniteSets

CONSTANTS
  ObjectsOf(_),   \* per set of interfaces: the objects to stand in for
  Classes         \* of the factory: per index, whether its info can be had

VARIABLES
  kind,       \* of proxy
  object,     \* the interfaces of the original object
  args,       \* ConstructArgs under way, at most one
  proxy,      \* <<what the proxy was last given>>, <<>> before it is made
  cid         \* the identifier given to createInstance() and the index it was at

proxyVars == <<kind, object, args, proxy, cid>>

\* The proxy classes, and the base class each answers FUnknown through.
InterfacesOf(k) ==
  CASE k = "plugin" -> DOMAIN PluginInterfaces
    [] k = "view" -> DOMAIN ViewInterfaces
    [] k = "handler" -> DOMAIN HandlerInterfaces
    [] k = "context" -> DOMAIN ContextInterfaces
    [] k = "frame" -> {"YaPlugFrame"}
    [] k = "menu" -> {"YaContextMenu"}
    [] k = "factory" -> {"IPluginFactory", "IPluginFactory2", "IPluginFactory3"}

BaseOf(k) ==
  CASE k = "plugin" -> "YaPluginBase"
    [] k = "view" -> "YaPlugView"
    [] k = "handler" -> "YaComponentHandler"
    [] k = "context" -> "YaHostApplication"
    [] k = "frame" -> "YaPlugFrame"
    [] k = "menu" -> "YaContextMenu"
    [] k = "factory" -> "IPluginFactory"

Kinds == {"plugin", "view", "handler", "context", "frame", "menu", "factory"}

\* An object is what its SDK base classes make it: the editing and the audio
\* classes derive from IPluginBase, and a newer factory from the older one.
IsObject(k, o) ==
  CASE k = "plugin" ->
         o \cap {"YaComponent", "YaEditController"} # {} => "YaPluginBase" \in o
    [] k = "factory" -> /\ "IPluginFactory3" \in o => "IPluginFactory2" \in o
                        /\ "IPluginFactory2" \in o => "IPluginFactory" \in o
    [] OTHER -> TRUE

\* The original answers what it is; anything is an FUnknown.
Answers(o) == o \cup {"FUnknown"}

-----------------------------------------------------------------------------
(* The interfaces each class goes through, as its lists name them: those   *)
(* ConstructArgs(object) asks for, those serialize() sends, those          *)
(* queryInterface() answers and those update_supported_interfaces() sets.  *)
(* The constructors' lists are the compiler's affair: no base class but    *)
(* takes its own arguments.                                                *)

PluginAsked ==
  {"YaAudioPresentationLatency", "YaAudioProcessor", "YaAutomationState",
   "YaComponent", "YaConnectionPoint", "YaEditController", "YaEditController2",
   "YaEditControllerHostEditing", "YaInfoListener", "YaKeyswitchController",
   "YaMidiLearn", "YaMidiMapping", "YaNoteExpressionController",
   "YaParameterFunctionName", "YaPluginBase", "YaPrefetchableSupport",
   "YaProcessContextRequirements", "YaProgramListData", "YaUnitData",
   "YaUnitInfo", "YaXmlRepresentationController"}

PluginSent ==
  {"YaAudioPresentationLatency", "YaAudioProcessor", "YaAutomationState",
   "YaComponent", "YaConnectionPoint", "YaEditController", "YaEditController2",
   "YaEditControllerHostEditing", "YaInfoListener", "YaKeyswitchController",
   "YaMidiLearn", "YaMidiMapping", "YaNoteExpressionController",
   "YaNoteExpressionPhysicalUIMapping", "YaParameterFunctionName",
   "YaPluginBase", "YaPrefetchableSupport", "YaProcessContextRequirements",
   "YaProgramListData", "YaUnitData", "YaUnitInfo",
   "YaXmlRepresentationController"}

PluginAnswered ==
  {"YaPluginBase", "YaAudioPresentationLatency", "YaAudioProcessor",
   "YaAutomationState", "YaComponent", "YaConnectionPoint", "YaEditController",
   "YaEditController2", "YaEditControllerHostEditing", "YaInfoListener",
   "YaKeyswitchController", "YaMidiLearn", "YaMidiMapping",
   "YaNoteExpressionController", "YaNoteExpressionPhysicalUIMapping",
   "YaParameterFunctionName", "YaPrefetchableSupport",
   "YaProcessContextRequirements", "YaProgramListData", "YaUnitData",
   "YaUnitInfo", "YaXmlRepresentationController"}

\* Mutant: unit_data_args is not updated.
PluginUpdatedNoUnitData ==
  {"YaAudioPresentationLatency", "YaAudioProcessor", "YaAutomationState",
   "YaComponent", "YaConnectionPoint", "YaEditController", "YaEditController2",
   "YaEditControllerHostEditing", "YaInfoListener", "YaKeyswitchController",
   "YaMidiLearn", "YaMidiMapping", "YaNoteExpressionController",
   "YaNoteExpressionPhysicalUIMapping", "YaParameterFunctionName",
   "YaPluginBase", "YaPrefetchableSupport", "YaProcessContextRequirements",
   "YaProgramListData", "YaUnitInfo", "YaXmlRepresentationController"}

PluginUpdated ==
  {"YaAudioPresentationLatency", "YaAudioProcessor", "YaAutomationState",
   "YaComponent", "YaConnectionPoint", "YaEditController", "YaEditController2",
   "YaEditControllerHostEditing", "YaInfoListener", "YaKeyswitchController",
   "YaMidiLearn", "YaMidiMapping", "YaNoteExpressionController",
   "YaNoteExpressionPhysicalUIMapping", "YaParameterFunctionName",
   "YaPluginBase", "YaPrefetchableSupport", "YaProcessContextRequirements",
   "YaProgramListData", "YaUnitData", "YaUnitInfo",
   "YaXmlRepresentationController"}

ViewAsked ==
  {"YaPlugView", "YaParameterFinder", "YaPlugViewContentScaleSupport"}

ViewSent ==
  {"YaPlugView", "YaParameterFinder", "YaPlugViewContentScaleSupport"}

ViewAnswered ==
  {"YaPlugView", "YaParameterFinder", "YaPlugViewContentScaleSupport"}

HandlerAsked ==
  {"YaComponentHandler", "YaComponentHandler2", "YaComponentHandler3",
   "YaComponentHandlerBusActivation", "YaProgress", "YaUnitHandler",
   "YaUnitHandler2"}

\* Mutant: unit_handler_2_args is not serialized.
HandlerSentNoUnitHandler2 ==
  {"YaComponentHandler", "YaComponentHandler2", "YaComponentHandler3",
   "YaComponentHandlerBusActivation", "YaProgress", "YaUnitHandler"}

HandlerSent ==
  {"YaComponentHandler", "YaComponentHandler2", "YaComponentHandler3",
   "YaComponentHandlerBusActivation", "YaProgress", "YaUnitHandler",
   "YaUnitHandler2"}

\* Mutant: queryInterface() does not know IProgress.
HandlerAnsweredNoProgress ==
  {"YaComponentHandler", "YaComponentHandler2", "YaComponentHandler3",
   "YaComponentHandlerBusActivation", "YaUnitHandler", "YaUnitHandler2"}

HandlerAnswered ==
  {"YaComponentHandler", "YaComponentHandler2", "YaComponentHandler3",
   "YaComponentHandlerBusActivation", "YaProgress", "YaUnitHandler",
   "YaUnitHandler2"}

ContextAsked ==
  {"YaHostApplication", "YaPlugInterfaceSupport"}

ContextSent ==
  {"YaHostApplication", "YaPlugInterfaceSupport"}

ContextAnswered ==
  {"YaHostApplication", "YaPlugInterfaceSupport"}

Asked(k) ==
  CASE k = "plugin" -> PluginAsked
    [] k = "view" -> ViewAsked
    [] k = "handler" -> HandlerAsked
    [] k = "context" -> ContextAsked
    [] k = "frame" -> {"YaPlugFrame"}
    [] k = "menu" -> {"YaContextMenu"}

Sent(k) ==
  CASE k = "plugin" -> PluginSent
    [] k = "view" -> ViewSent
    [] k = "handler" -> HandlerSent
    [] k = "context" -> ContextSent
    [] k = "frame" -> {"YaPlugFrame"}
    [] k = "menu" -> {"YaContextMenu"}
    [] k = "factory" -> InterfacesOf(k)

Answered(k) ==
  CASE k = "plugin" -> PluginAnswered
    [] k = "view" -> ViewAnswered
    [] k = "handler" -> HandlerAnswered
    [] k = "context" -> ContextAnswered
    [] k = "frame" -> {"YaPlugFrame"}
    [] k = "menu" -> {"YaContextMenu"}
    [] k = "factory" -> {"IPluginFactory", "IPluginFactory2", "IPluginFactory3"}

-----------------------------------------------------------------------------
(* Each `supported' is a bool that ConstructArgs() leaves uninitialised: one *)
(* that no list sets is anything (`junk').                                 *)

NotAsked(k) == InterfacesOf(k) \ Asked(k)
NotSent(k) == InterfacesOf(k) \ Sent(k)

\* Mutant: an interface more is not asked for.
ConstructArgsForgetful(k, o, junk) ==
  ((o \cap Asked(k)) \ {"YaUnitData", "YaProgress"}) \cup junk

\* ConstructArgs(object): one FUnknownPtr cast per interface.
ConstructArgs(k, o, junk) == (o \cap Asked(k)) \cup junk

\* The arguments as the other half reads them into its own.
Received(k, a, junk) == (a \cap Sent(k)) \cup junk

\* YaPluginFactory3::ConstructArgs goes from one version of the interface to the
\* next and returns at the first the object does not have.
FactoryArgs(o) ==
  IF "IPluginFactory" \notin o THEN {}
  ELSE IF "IPluginFactory2" \notin o THEN {"IPluginFactory"}
  ELSE IF "IPluginFactory3" \notin o THEN {"IPluginFactory", "IPluginFactory2"}
  ELSE {"IPluginFactory", "IPluginFactory2", "IPluginFactory3"}

\* queryInterface(): FUnknown is answered with the class's main interface.
queryInterface(k, p) ==
  (p \cap Answered(k)) \cup (IF BaseOf(k) \in p THEN {"FUnknown"} ELSE {})

-----------------------------------------------------------------------------
\* A TUID as INLINE_UID lays it out: four words, big endian; where the SDK is COM
\* compatible the first is little endian and the second two little endian halves.
TUID(com) ==
  IF com THEN <<4, 3, 2, 1, 6, 5, 8, 7, 9, 10, 11, 12, 13, 14, 15, 16>>
  ELSE [i \in 1..16 |-> i]

\* Mutant: the halves of the second word stay in their place.
ConvertUidHalf(uid) ==
  [i \in 1..16 |-> uid[CASE i <= 4 -> 5 - i [] OTHER -> i]]

\* WineUID::get_native_uid() and NativeUID::get_wine_uid().
ConvertUid(uid) ==
  [i \in 1..16 |->
     uid[CASE i <= 4 -> 5 - i
           [] i \in {5, 7} -> i + 1
           [] i \in {6, 8} -> i - 1
           [] OTHER -> i]]

\* getClassInfo(i): what is in the table, or no answer.
getClassInfo(i) ==
  IF i \in DOMAIN Classes /\ Classes[i] THEN <<i, ConvertUid(TUID(TRUE))>> ELSE <<>>

-----------------------------------------------------------------------------
Init ==
  /\ kind \in Kinds
  /\ object \in {o \in ObjectsOf(InterfacesOf(kind)) : IsObject(kind, o)}
  /\ args = <<>>
  /\ proxy = <<>>
  /\ cid = <<>>

\* The object is asked, on its own side.
Read ==
  /\ args = <<>> /\ proxy = <<>>
  /\ IF kind = "factory" THEN args' = <<FactoryArgs(object)>>
     ELSE \E junk \in SUBSET NotAsked(kind) : args' = <<ConstructArgs(kind, object, junk)>>
  /\ UNCHANGED <<kind, object, proxy, cid>>

\* The proxy is made from the arguments.
Make ==
  /\ args # <<>> /\ proxy = <<>>
  /\ \E junk \in SUBSET NotSent(kind) : proxy' = <<Received(kind, args[1], junk)>>
  /\ args' = <<>>
  /\ UNCHANGED <<kind, object, cid>>

\* IPluginBase::initialize(): afterwards some plugins have interfaces they did
\* not have before, so they are all asked again.
Initialize ==
  /\ kind = "plugin" /\ proxy # <<>> /\ args = <<>>
  /\ "YaPluginBase" \in proxy[1]
  /\ \E new \in SUBSET {"YaEditController", "YaUnitData"}, junk \in SUBSET NotAsked(kind) :
       /\ object' = object \cup new
       /\ args' = <<ConstructArgs(kind, object \cup new, junk)>>
  /\ UNCHANGED <<kind, proxy, cid>>

\* Mutant: what the plugin had before is kept.
update_supported_interfaces_Adds ==
  /\ kind = "plugin" /\ proxy # <<>> /\ args # <<>>
  /\ proxy' = proxy
  /\ args' = <<>>
  /\ UNCHANGED <<kind, object, cid>>

\* The answer to initialize() replaces the arguments of the classes it names.
update_supported_interfaces ==
  /\ kind = "plugin" /\ proxy # <<>> /\ args # <<>>
  /\ \E junk \in SUBSET NotSent(kind) :
       proxy' = <<(Received(kind, args[1], junk) \cap PluginUpdated)
                    \cup (proxy[1] \ PluginUpdated)>>
  /\ args' = <<>>
  /\ UNCHANGED <<kind, object, cid>>

\* The host creates an object of a class it was told of; the other half gets the
\* identifier in its own order.
CreateInstance(i) ==
  /\ kind = "factory" /\ proxy # <<>> /\ "IPluginFactory" \in proxy[1]
  /\ getClassInfo(i) # <<>>
  /\ cid' = <<i, getClassInfo(i)[2], ConvertUid(getClassInfo(i)[2])>>
  /\ UNCHANGED <<kind, object, args, proxy>>

Next ==
  \/ Read \/ Make \/ Initialize \/ update_supported_interfaces
  \/ \E i \in 0..Len(Classes) + 1 : CreateInstance(i)

Spec == Init /\ [][Next]_proxyVars
-----------------------------------------------------------------------------
\* All interfaces but the one PluginAsked lacks, of which a proxy says what its
\* memory happens to hold.
Known(k) == InterfacesOf(k) \ {"YaNoteExpressionPhysicalUIMapping"}

\* A host that casts the proxy gets what it would get from the plugin, and a
\* plugin what it would get from the host, before and after initialize()
\* (plugin-proxy.h:63-66 "essentially perfectly mimicing the original object").
ProxyMimics ==
  proxy # <<>> /\ args = <<>> =>
    /\ queryInterface(kind, proxy[1]) \cap Known(kind) = Answers(object) \cap Known(kind)
    /\ BaseOf(kind) \in object => "FUnknown" \in queryInterface(kind, proxy[1])

\* A class has the identifier on this side it would have if the plugin had been
\* built for it, and creating it creates that class on the other side
\* (base.h:76-80, "to be compatible").
ClassesCreatedAsListed ==
  cid # <<>> => cid[2] = TUID(FALSE) /\ cid[3] = TUID(TRUE)

\* What the object answered, to what it is asked.
Faithful(a) ==
  IF kind = "factory" THEN a = FactoryArgs(object)
  ELSE a \cap Known(kind) = object \cap Known(kind)

\* Inductive: the arguments under way, or else the proxy's, are what the object, as
\* it is now, answered.
ProxyInv ==
  /\ kind \in Kinds
  /\ kind = "factory" => IsObject(kind, object)
  /\ args # <<>> => args = <<args[1]>> /\ Faithful(args[1])
  /\ args = <<>> /\ proxy # <<>> => proxy = <<proxy[1]>> /\ Faithful(proxy[1])
  /\ ClassesCreatedAsListed
=============================================================================
