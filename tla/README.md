# A verification of wasivst

wasivst runs Windows VST plugins in a web browser: a page starts an emulated PC,
a small host process in it loads the plugin, and audio and parameters travel
between the browser's audio thread, the page and the host process.  The
repository is a fork of yabridge and keeps that project's library for talking to
plugin hosts over sockets.

This directory holds TLA+ models of that code, the instances TLC checks, and
theorems TLAPS checks.  Paths below are those of the repository, `src/...`.

## 1. Inventory

### 1.1 The bridge in the browser

| Part | State it keeps | Operations |
|---|---|---|
| Page object `WasiVST`, `src/worklet/wasivst.js` | `#rxBuf`, the bytes received and not yet taken; `#paramResolvers`, one resolver per parameter; the emulator; its message port | `load` / `#startV86`, `setParam`, `getParam`, `dispose`, `#onWorkletMessage`, `#serialWrite`, the listener for a byte with `#drainAndDispatch` |
| Audio thread `WasivstProcessor`, `src/worklet/wasivst-worklet.js` | `_ready`, `_pendingOutput` | `_onMessage`, `process` |
| Guest process, `src/host/main.cpp` | the plugin and its parameters | read LOAD, construct a host, `run` |
| Channel, `src/host/ipc/serial-channel.cpp` | a stream each way | readers and writers of each frame |
| VST2 host, `src/host/vst2` | the plugin | `process_block`, `handle_set_param`, `handle_get_param` |
| VST3 host, `src/host/vst3` | none | answers PROCESS with silence, passes over other tags |
| Emulator, UART, guest image | bytes under way | external: modelled from its use |

Interaction: `process()` posts a block to the page (message port); the page
writes it to the serial line as a PROCESS frame; the host process reads it and
writes PROCESS_RESP; the emulator calls the page's listener for each byte; the
drain loop finds whole frames and posts the block back to the audio thread, which
writes it out at its next `process()`.  Parameters go from the page to the host
over the same line, and a `getParam` promise is settled by the reply for its
parameter.

Hard behaviours: three threads and an emulator with four queues between them;
frames cut anywhere by the byte-wise listener; two implementations of one wire
format in two languages; a timer that polls what a callback empties; a resolver
that a later call overwrites; `dispose()` with everything under way.

What makes these parts correct:

* framing is never lost, in either direction, and no whole frame waits in `#rxBuf`;
* the host process sees LOAD first;
* blocks come out in the order they went in, none twice, and none is lost but by
  a newer one replacing it in `_pendingOutput`;
* a value read is the value last written before the call, as a float;
* a registered resolver has its answer on the way, and promises settle.

### 1.2 The library kept from yabridge, `src/common`

| Part | State | Operations | What makes it correct |
|---|---|---|---|
| `AdHocSocketHandler`, `communication/common.h` | primary socket, its mutex, `sent_first_event_`, acceptor, `currently_listening_`, threads | `connect`, `send`, `receive_multi`, `accept_requests`, `close` | each call has its event handled at most once, gets its own answer, and ends; nothing of `receive_multi` outlives it |
| `TypedMessageHandler`, `read_object` / `write_object` | an object per receiving loop that is read into again and again | `send_message`, `receive_into`, `receive_messages` | a handler sees what was sent and nothing of an earlier request; the log pairs requests and answers, and a call that throws does not upset the pairs |
| `Vst3Sockets`, `ClapSockets` | maps of per-instance sockets, each half its own, with a mutex | add and connect, add and listen, send, remove | nobody connects too early, no thread receives on sockets that are gone, nobody waits under the mutex for ever |
| Messages, `serialization/vst3`, `serialization/clap` | none | one structure per API call, with its response and the variant of the socket it is for | every request is in one variant and has a line in the log |
| Process data, `process-data.cpp`, `clap/process.cpp` | objects kept on both sides, and the shared audio | `repopulate`, `reconstruct`, `create_response`, `write_back_outputs` | the plugin sees this cycle's input and the host gets this cycle's output |
| Proxies, `vst3/*-proxy.cpp`, the class table | arguments read from an object, flags per interface | construct, `queryInterface`, `update_supported_interfaces`, `getClassInfo` | a proxy answers as its object; classes are created as listed |
| `Vst3Logger`, `ClapLogger` | verbosity | `log_request`, `log_response` | the processing cycle is not printed at normal verbosity; a failed call's data is not shown |
| `MutualRecursionHelper`, `mutual-recursion.h` | a stack of contexts | `fork`, `handle`, `maybe_handle` | a function handed over runs once; nothing waits for itself |
| `AudioShmBuffer`, `audio-shm.cpp` | descriptor, mapping, size, mark of a move | construct, move, resize, destroy | both halves map one object of one size |
| `Process::Handle`, `process.cpp` | process identifier, `detached_` | spawn, move, `terminate`, `wait`, `detach` | a child has one owner, however its handle is moved, and ends with it |
| `YaBStream`, `clap::stream::Stream` | buffer, seek position | copy, read, write, seek, resize, write back | as good as the host's stream |
| Value caches, `utils.h`; `Configuration`; `notifications.cpp`; VST2 sockets, messages and logging; `plugins.cpp`, `linking.cpp` | a value; none; a handle; sockets; none | | not modelled |

Nothing in this repository instantiates the library (the host process uses the
serial channel); it is modelled as the library it is, with callers that use it as
its documentation says.  The two ends of its sockets are called the plugin's half
(native, loaded by the plugin host) and the Wine half.

Left aside: `src/include`, third-party code, the command line tool, demo, spikes,
build files and CI.

`PROJECT.json` lists these parts under `components` and what is hard to test in
them, line by line, under `hazards`.

## 2. Plan

The modules, in the order they were written:

1. `FrameCodec`: the wire format, both sides, as operators on byte sequences.
2. `FrameLink`: the abstract line, two queues of whole frames.
3. `SerialWire`: the line byte by byte; implements `FrameLink`.  `SerialWireProofs`.
4. `AudioSession`: audio thread, page and guest over `FrameLink`, and
   `AudioSessionProofs`.
5. `EventCalls` and `AdHocSocket`: calls over ad hoc sockets, abstract and detailed.
6. `MutualRecursion`: `fork` and `handle`, nested and on two threads.
7. `Messages`, `Vst3Messages`, `ClapMessages`, `Vst3Log`, `ClapLog`: what is sent and
   what is printed; `TypedCalls` composes them into calls.
8. `InstanceSockets`: the sockets of instances that come and go, in both halves.
9. `Vst3Process`, `ClapProcess`, composed by `ProcessCycle`: the processing cycle;
   `ProcessCycleProofs`.
10. `ObjectProxy`, `AudioShm`, `StateStream`, `ProcessHandle`, put side by side by
    `NativeObjects`.

Abstract specifications: `FrameLink`, `EventCalls`; within `StateStream`, a file with
a position, run beside the copy.

Theorems: the safety properties of the runs, and the safety part of the refinements of
`FrameLink` and `EventCalls` (section 5).

## 3. Modules and code

**`FrameCodec`.**  `encode*` and the drain loop are `wasivst.js`; `write_*` and
`read_*_frame_body` are `serial-channel.cpp`.  A byte is a number, an integer field
four of them, little endian; a float is the tuple of its bytes and never looked
into; text is a run of equal bytes.  `drainAndDispatch` is a recursive function from
a buffer to what one call of the loop leaves, hands on, and whether it threw;
`DrainTurn` is one turn of the loop.

**`SerialWire`.**  `down` and `up` are the bytes under way, `rxBuf` the page's
buffer.  Page: `EmulatorReady`, `Poll` (the timer of `load()`), `PageSends`,
`SerialByte` (the listener).  Guest: `HostLoad`, `process_block`,
`handle_set_param`, `handle_get_param`; with `Vst3`, `Vst3Process` and `Vst3Skip`.
A blocking read of the host is a guard on its whole body being there.  The
auxiliary variables `requests`, `replies` and `dispatched` name the frames in the
bytes; no action reads them.  Two assumptions about v86: its UART loses nothing, and
an exception that leaves the listener does not stop it.

**`FrameLink`.**  The same line as two queues of frames.  `partial` says that the
beginning of the next reply is in `rxBuf`, because `load()` looks at exactly that.
The host may fail to load (`HostLoadFails`).

**`AudioSession`.**  One action per task: `_onMessage` and `process` on the audio
thread; `EmulatorReady`, `Poll`, `onWorkletMessage`, `setParam`, `getParam`,
`dispose` on the main thread; `Guest`, `ListenerBegins`, `drainAndDispatch` in the
emulator.  Blocks are numbered in the order they are posted, which is what lets
properties speak of order.  `wanted` (what was last written) and the fields `shared`
and `expect` of a promise are auxiliary.  `port.close()` may or may not deliver what
is queued, as the browser likes.  After `dispose()` the processor goes on and the
object's methods still work, as in the code.

**`AdHocSocket`.**  `pc` says where each call of `send()` is: holding the mutex
(`locked`, `primary`), on its way to a secondary connection (`connecting`,
`secondary`), in the exception handler (`refused`, `locking`) or done.  The listening
side is `listener` (where `receive_multi()` is), the acceptor's thread, the threads of
the connections, and one `handler` per event; `closer` is `close()`.  `Within` says which
calls are made by the handler of another event, so that a handler ends only after them.
`backlog` are connections not accepted, `dropped` those that never will be, `accepted` the
one the acceptor's handler has, `threads` those with a thread.  The end of
`receive_multi()` is the code's, step by step: `StopAccepting` (the mutex of the threads
is locked, the context stopped, the acceptor destroyed), `ClearFlag` (and the mutex is
left), `JoinAcceptor`, `JoinThreads`.  A connection whose handler waited for the mutex
(`StartThread` needs `MutexFree`) gets its thread after the flag was cleared and is
handled; its handler then calls `async_accept` on an acceptor that is gone, which is
undefined: `AcceptAgain` goes on as if nothing had happened or ends in `undefined`, of
which `ListenerReturns` claims nothing.

**`EventCalls`** is what a caller may rely on: one handling at most, its own answer,
failure only after a close or if it was made before the other side had answered
anything, and an end.

**`MutualRecursion`.**  `mutual_recursion_contexts_` is the stack, a context named by
the `fork()` that owns it; `tasks` are the functions posted to each.  What the code does
under its mutex is one step: `fork` (push), `FnReturns` (the sending thread resets the
work guard and erases the context, wherever in the stack it is), `handle` (post to the
last context, or run on the calling thread).  `RunTask`, `TaskEnds` and `ForkReturns`
are `run()` of the context: oldest function first, and no return while one is left.
`Within` says during which call another one is made, `Caller` which thread forks of its
own accord.  `handle()` is called only by threads outside `fork()`, as its comment says.
`maybe_handle()` is the same step for its caller when there is a context.

**`Messages`, `Vst3Messages`, `ClapMessages`.**  A message is a record: its
arguments, which of them `serialize()` writes, which are optional, and its response.
The messages of an interface are a record of such records named after the structures,
`Vst3Interfaces` and `ClapInterfaces` are all of them, and `Vst3ControlRequest` and so on
are the variants of the sockets.  A type, a name or a number in a field is left out, as
is the instance identifier nearly every message has.

**`Vst3Log`, `ClapLog`.**  For each message the verbosity from which there is a line, and
whether the line of the answer shows its data always, on success or never.  Each
definition stands for a run of overloads of `log_request()` or `log_response()`.

**`TypedCalls`.**  `Send` and `Return` are the two halves of `receive_into()`,
`Receive` and `Answer` those of the callback of `receive_messages()`.  `persistent` is
the `thread_local` object requests are read into; `InPlaceVariant`, `InPlaceOptional`
and `MessageReference` are the serialization extensions that decide what survives in
it.  `Default` is what an argument has when nothing was read into it.  A call that does
not get the primary socket (`AdHocSocket`) has an object of its own.  `lines` are, per
thread, what was printed of its calls by either half.  `Close` is any half closing its
sockets; `Throw` is the exception that then leaves `receive_into()`, from writing the
request or from reading the response, when the request has been printed, and `thrown` are
the threads it happened to, which make no other call.  The other half may be handling the
request and print its part.

**`InstanceSockets`.**  `main` is the thread of the plugin's half that makes and removes
an instance, `listener` the threads of both halves that listen for it, `sockets` and
`mutex` the maps.  A socket is `control` or, for CLAP, `callback` too; `acceptors` and
`backlog` are what is known of it to the operating system.  `Construct` and `Destroy`
stand for the handlers of the callers.  `early` marks instances removed before their
threads were receiving.

**`Vst3Process`, `ClapProcess`, `ProcessCycle`.**  `native` and `wine` are the objects
each half keeps, `shm` the audio buffer, `seen` what the plugin was called with, `gave`
and `got` what it put out and what the host received.  A channel of audio is one value.
The action `Process` or `ProcessCall` is `repopulate()`, then `Receive`
(`reconstruct()`), `PluginProcesses`, `Respond`, `WriteBack`.  Silence flags and constant
masks come from the host and are the plugin's only if it sets them (`Silence`, `Mask`);
the size of VST3's samples is `mode`, that of CLAP's one per port.

**`ObjectProxy`.**  `object` are the interfaces an object has, `args` what was read of
it, `proxy` the flags the proxy answers from.  Each class has the lists of the code, one
by one: what its arguments ask for (`PluginAsked`), what is serialized (`PluginSent`),
what `queryInterface()` answers (`PluginAnswered`) and what is updated after
`initialize()` (`PluginUpdated`).  A flag no list sets is a choice of either value
(`junk`), which is how the one the code forgets is found, and how any other would be.
`cid` is a class identifier on its way through both halves, a sequence of byte
positions.

**`AudioShm`.**  Per half the member and the temporary a new buffer is made in; `maps`
are mappings, `length` the sizes of shared objects.  A failed lock or a failed mapping
are alternatives of `SetupMapping`; after a resize from nothing there is no second mapping
to try, because the `munmap` before it is of 0 bytes and its assertion fails.

**`StateStream`.**  `buffer_` and `seek_position_` are the copy, `file` and
`filePosition` the stream of the host as it would be had the plugin used it; `result`
and `expected` are the answers of both, a number and bytes.  `SetStreamSize` takes any size,
also one that leaves the position behind the end.  `failed` says that the host failed to be
read, in one call (VST3) or in any of the loop (CLAP).

**`ProcessHandle`.**  Per place a handle may be in, a process identifier and
`detached_`; per identifier the state of the process.  `released` are the children somebody
detached from, `assigned` those a handle of which was in an assignment, on either side: the
code loses both (`MoveAssign`).

**`NativeObjects`** has the last four side by side, one of them active in a behaviour.

`map` in `PROJECT.json` gives the lines of each definition.

## 4. Runs

| Run | Question | Instance |
|---|---|---|
| `wire_vst2` | Is framing kept both ways, and is the byte line the frame line of `FrameLink` (fairness included)? `HostInSync`, `PageInSync`, `NothingHeldBack`, `LinkImplemented` | two frames after LOAD, any of each kind; ids 0 and 300; blocks without channel, with one sample, with two channels of two; doubles that are floats and one that is not |
| `wire_vst3` | Does the page keep its framing whatever the VST3 host makes of the line? | three frames after LOAD; ids and doubles that hold the byte 2, so that what is in the body of a SET_PARAM or GET_PARAM frame is read as a PROCESS frame and answered with whatever it holds |
| `wire_vst3_params` | violation: the VST3 host loses the framing at the first SET_PARAM or GET_PARAM (`HostInSync`) | same |
| `session` | Order, loss and start-up under every interleaving: `LoadFirst`, `NoBlockLost`, `PlaysInOrder`; parameters: `ResolverHasAnswer`, `ReadYourWrites`; with fair threads, `GetParamSettles` and `BlockReturns` | three blocks, two parameters, two reads, one write |
| `socket_calls` | Does `AdHocSocket` implement `EventCalls`; are the sockets consistent (`SocketInv`, `PrimaryIsExclusive`), and does `receive_multi()` end (`ListenerReturns`) with all of its threads (`NothingOutlivesListener`)? | four calls: two independent, one made in the handler of the first, one in the handler of that |
| `socket_close` | violation: `close()` returns before `receive_multi()` does (`CloseWaitsForListener`) | two independent calls |
| `recursion_threads` | Is a function in one queue once (`NoTaskStranded`), on the thread that waits for it if only one forks (`RunsOnForkingThread`), the stack right (`RecursionInv`), every call ended (`CallsReturn`)? | a nested pair of forks on one thread, one fork on the other; five functions, one unrelated to any fork |
| `plugin_calls` | Does a handler see what was sent (`NothingStale`), is the log in pairs (`LinesPaired`), silent about processing (`ProcessingIsQuiet`) and about data a failed call did not set (`FailuresShowNoData`)? | every message of both bridges, two threads, each verbosity, two calls, the sockets closed at any point |
| `instance_sockets` | `InstanceInv`, `ConnectFindsListener`, `ReceivingHasSocket`, `InstanceComesUp`, `RemovalEnds` | two instances, in both formats |
| `process_cycle` | `PluginSeesThisCycle`, `HostGetsThisCycle` | two cycles, each with any of some fifty inputs and a dozen outputs: no bus, fewer and more channels than the plugin's, missing lists, unknown events, both sample sizes, silence flags and masks the plugin sets or leaves |
| `native_objects` | `ProxyMimics`, `ClassesCreatedAsListed`, `HalvesShareAudio`, `ReadsAsHostStream`, `StateArrives`, `OwnedUntilAssigned` | each kind of proxy with few or most of its interfaces; three sizes, two shared objects, four mappings; streams of three bytes and four operations; three places, two children |
| `process_assign` | violation: an assignment leaves a child nobody terminates (`ChildHasOneOwner`) | three places, two children |

**Bounds.**  `MaxRequests`, `MaxBlocks`, `MaxCalls`, `MaxSets`, `MaxCycles`, `MaxOps`
and the set of calls bound what applications, hosts and plugins do, never the queues.
Two frames after LOAD put every pair of kinds next to each other on the wire, which is
where a lost boundary shows; the VST3 host, which loses it, gets a third one to read
into.  Three blocks are in three of the four stages of the pipeline at once, with one
that replaces another before it is played.  Two parameters and two reads give a call
that is overwritten and one for another id.  Four socket calls give a primary and two
secondary connections beside a waiting one, with a handler that waits for a handler that
waits for a handler.  In `recursion_threads` contexts leave the stack at its top, in its
middle and at its bottom.  In `plugin_calls` what a second request finds in the kept
object was left by the first, of the same class or the same message; a class meets only
its own messages, because fields of different alternatives never share an object.  Two
instances are what can hold each other up under one mutex.  In `process_cycle` the
second cycle meets the remains of any first one.  In `native_objects` two shared objects
and four mappings are one more than a buffer that is replaced and resized needs, and a
stream of three bytes has a beginning, a middle and an end on either side of a header.

**Deadlock** is not checked: every system here stops when the application and the
audio engine do, or when the sockets are closed.  `InstanceComesUp` and `RemovalEnds`
say where it must not: as long as an instance is on its way up or down, some thread can
go on (these steps are finite in number, so that it gets there).

**Fairness.**  Weak fairness of each thread's next step: an event loop empties its
queue, the emulator runs a guest that has input and hands over its output.  In
`AudioSession` the timer is *not* fair, because a byte may be there only between ticks.
Nothing is assumed about the application or the audio engine.  In `AdHocSocket` the
listening side is assumed to call `receive_multi()` in the end, and handlers to end once
the calls they make have.  In `MutualRecursion` each thread runs, and `fn` returns once
the functions run on its behalf have; whether a `fork()` or a `handle()` is made at all
is left open.  The other modules state safety only.

**Violations.**  Each is a sentence of the repository that the code does not keep;
`findings` quotes them.  The VST3 host reads bodies as tags.  `close()` is said to spin
until `receive_multi()` has exited (`common.h:615`) and waits for a flag that is cleared
before its threads are joined (`common.h:804`).  The destructor of `Process::Handle`
"Terminates the process when it gets dropped." (`process.h:155`), but `operator=` sets the
other's `detached_` before it copies it (`process.cpp:211`), and forgets the child the
target had.

**Also noticed**, without a run:

* `load()` looks every 500 ms whether `#rxBuf` holds a byte (`wasivst.js:104`), but the
  drain loop empties it at the end of each frame: an answer between two ticks is missed,
  and nothing else is sent before `load()` returns.  A plugin that cannot be loaded ends
  the guest without a word, with the same effect.
* The drain loop reads the length of a LOG message at an offset behind the bytes it has
  (`wasivst.js:159`) and throws a `RangeError` per byte until the subsystem name is
  complete; framing survives (`PageInSync`).
* `process()` writes out whichever reply came last, not that of the "previous frame"
  (`wasivst-worklet.js:40`).
* `Vst3PluginProxy`'s arguments do not ask for `note_expression_physical_ui_mapping_args`
  (`plugin-proxy.cpp:21`), whose `supported` is never set: the proxy of an object without
  that interface may answer for it, before and after `initialize()`, since the update
  carries the same flag.  `ProxyMimics` is about the other interfaces.
* A CLAP SysEx event is put into a variable nobody reads (`clap/events.cpp:80`) and dropped,
  although there is a payload for it; `PluginSeesThisCycle` is about the events the code
  does parse.
* A call refused during start-up throws with both sides listening if the first event is
  answered before it looks at `sent_first_event_` (`common.h:684`), where the comment expects
  that "the plugin side is no longer listening"; `CallsImplemented` lets such calls fail.
* A second `getParam` for a parameter overwrites the resolver of the first
  (`wasivst.js:60`), whose promise then stays pending; `GetParamSettles` and
  `ReadYourWrites` are about calls that are not superseded.
* `Process::Handle::terminate()` is documented to send SIGKILL (`process.h:181`) and sends
  SIGINT (`process.cpp:232`).
* `setStreamSize()` leaves the position behind the new end, and `read()` then reports a
  negative number of bytes (`bstream.cpp:157`); `ReadsAsHostStream` allows for the sign and
  for nothing else.  A stream that was cut off is not cut off at the host.
* A CLAP stream whose read fails is taken to be at its end (`clap/stream.cpp:43`): the plugin
  gets the part that was read.
* `GetNotePhysicalUIMapping` does not send its list
  (`note-expression-physical-ui-mapping.h:107`), though the comment above has the host
  fill part of it in.
* The audio of a CLAP port is copied for as many channels as the host has, into a buffer
  with as many as the plugin has (`clap/process.cpp:69`), and so into that of another channel
  or behind the buffer.
* What the target of `AudioShmBuffer::operator=` had mapped is never unmapped
  (`audio-shm.cpp:56`).
* An instance removed before its thread calls `receive_messages()` takes the sockets from
  under it (`communication/vst3.h:154`).
* `ScopedValueCache::set()` is documented to throw when a value is cached already; it is
  `noexcept` and overwrites it (`utils.h:272`).
* The documentation's table gives GET_PARAM_RESP no index, the code sends one; it sends
  parameters through the audio thread, the code writes them from the page; the comment at
  `wasivst-worklet.js:17` names a `#waitForReady` that does not exist; `handle(foo)` is
  said to run `foo` on the thread that called `fork(fn)` (`mutual-recursion.h:53`), which
  with two threads inside `fork()` is the one that forked last.

## 5. Proofs

Eight modules prove theorems for every value of the constants: any number of blocks,
parameters, calls, threads, sockets, instances, messages, sizes and bytes.

| Module | Theorems | Of the specification |
|---|---|---|
| `AudioSessionProofs` | `TypeCorrect`, `LoadIsFirst`, `NoBlockIsLost`, `OutputInOrder`, `NoResolverOrphaned`, `YourWritesAreRead` | `TypeOK`, `LoadFirst`, `NoBlockLost`, `PlaysInOrder`, `ResolverHasAnswer`, `ReadYourWrites` |
| `SerialWireProofs` | `WireInvariant`, `WireTypeCorrect`, `PageStaysInSync`, `NothingIsHeldBack`, `HostStaysInSync`, `LineCarriesFrames` | `WireTypeOK`, `PageInSync`, `NothingHeldBack`, `HostInSync`, and each step is one of `FrameLink` or none |
| `AdHocSocketProofs` | `SocketsConsistent`, `OneEventOnPrimary`, `ThreadsEndFirst`, `SocketImplementsCalls` | `SocketInv`, `PrimaryIsExclusive`, `NothingOutlivesListener`, and each step is one of `EventCalls` or none |
| `MutualRecursionProofs` | `RecursionConsistent`, `EveryTaskServed`, `AnswersOnForkingThread` | `RecursionInv`, `NoTaskStranded`, `RunsOnForkingThread` |
| `InstanceSocketsProofs` | `InstancesConsistent`, `NobodyRefused`, `NoSocketLost` | `InstanceInv`, `ConnectFindsListener`, `ReceivingHasSocket` |
| `NativeObjectsProofs` | `OneOwner`, `CopyReadsAsStream`, `SavedStateArrives`, `ProxiesMimic`, `ClassIdentifiersAgree`, `AudioIsShared` | `OwnedUntilAssigned`, `ReadsAsHostStream`, `StateArrives`, `ProxyMimics`, `ClassesCreatedAsListed`, `HalvesShareAudio` |
| `TypedCallsProofs` | `HandlersSeeRequest`, `RequestsAnsweredInLog`, `CyclesAreQuiet`, `FailuresAreBlank` | `NothingStale`, `LinesPaired`, `ProcessingIsQuiet`, `FailuresShowNoData` |
| `ProcessCycleProofs` | `CycleInvariant`, `PluginsSeeTheirCycle`, `HostsGetTheirCycle` | `PluginSeesThisCycle`, `HostGetsThisCycle`, in both formats |

**Assumptions.**  Each is an `ASSUME` of the module it is about, which TLC evaluates in
that module's run: `WireAssumption` (parameters' ids are 32-bit numbers, values eight
bytes, samples four, and what a frame says of its own length fits the field it is said
in), `ConversionAssumption` (rounding to float twice is rounding once, the plugin's
initial values are floats), `SessionAssumption`, `SocketAssumption`,
`RecursionAssumption`, `NativeAssumption`, `TypedCallsAssumption` and `CycleAssumption`
(bounds and sizes are numbers, `None` and its like are none of the things they stand
beside, only arguments a message has are sent, a host passes no bus or port the plugin
has not announced and gives each CLAP port with channels a type).  So the theorems of
`ProcessCycleProofs` are about such hosts: with a bus or port more the code reads the
buffer's offsets out of bounds (`audio-shm.h:143-149`), which has no outcome to model.
Of CLAP hosts with more *channels* they say everything but what the audio is
(`ExtraChannels`).  `CyclesAreQuiet` and `FailuresAreBlank` are about any tables of the
loggers and have a hypothesis on them: `CyclicAtHighest`, what is called in every cycle
has the highest verbosity, and `AnswersGuarded`, data shown always is that of a call
that cannot fail or has none when it does.  That the tables of the two loggers are such
is the part of the same properties that `plugin_calls` checks, with every message,
verbosity and result. `HostStaysInSync` and `LineCarriesFrames` are about VST2 plugins
(`wire_vst3_params` shows why), and the latter about blocks whose channels are as long
as the first (`EvenBlocks`), as the AudioWorklet hands them over; the encoder pads
others, which changes the block.

**Arguments.**  Hardly a property is inductive as it stands.

* *Byte line.*  `WireInv` says that what is under way in each direction is the bytes of
  the frames that have been sent and not taken (`HostInSync`; `PageInSync` and
  `NothingHeldBack`, whose stream begins in `rxBuf`), and that these frames are ones an
  encoder makes.  The encoders and readers then have to agree about frames of any size:
  a body is readable exactly when it is there whole, gives the frame that was written,
  and leaves the rest of the stream as it was.  The recursive functions, the drain loop
  and the joining of frames among them, are unfolded by induction on a set of numbers
  (`NatInd`), not by the library's theorem, whose operator argument the provers cannot
  take.  A byte from the guest then either is kept in `rxBuf` (`ByteKept`) or completes
  the first reply, which is handed on (`ByteCompletes`).  For the refinement `Opened`
  adds that the line is closed exactly until LOAD, its first frame.
* *Audio session.*  `LoadInv` describes everything that can exist before the host has
  read LOAD.  `OrderInv` says that, seen from the output back to the input, block
  numbers ascend within each of the four queues (`QueuesAscend`), from each queue to the
  next (`StagesAscend`) and at both ends (`EndsAscend`); with `NoBlockLost` it is kept by
  every step, because each takes the head of one queue and appends to the next.
  `ResolverHasAnswer` needs only the types.  `ReadInv` follows a parameter down the line
  and back: behind the last write of it on the line, or in the plugin if there is none,
  is what was last asked for, and a promise that was alone for its parameter expects it.
* *Sockets.*  `SocketInv` relates where a call is to the mutex and the primary socket
  (`PrimaryIsExclusive`, `LineInv`), the listener, its acceptor and its queue
  (`ListenerInv`), its handler (`EventInv`) and to what has been answered or closed before it
  (`EarlyInv`).  `ThreadsEndFirst` follows from it: a call that still waits on a connection
  of its own has a handler that is done or is among those that are dropped, accepted or have
  a thread.
  With it every step maps to one of `EventCalls` under the refinement mapping.
* *Mutual recursion.*  `RecursionInv`: the contexts on the stack are those of the calls
  of `fork()` that have not returned, a function waits in one queue exactly until its
  turn ends (`NoTaskStranded`), and a thread that `handle()` was called by has run its
  function itself (`ThreadInv`).
* *Instances.*  `LifeInv` says how far an instance is in each half, for each place in the
  thread that makes and removes it; `ConnectionInv` which sockets then listen, are
  connected or not there; `RemovalInv` who still needs the sockets while they are
  removed.  `InstanceInv` is their conjunction with the types, and `instance_sockets`
  checks it too.
* *Native objects.*  Each object has an invariant of its own, and a step of one leaves
  the others alone: `OwnersInv` (no child has two owners, and without one it was
  terminated, released or assigned), `StreamInv` (what has been copied in each phase, and that
  copy and stream have the same position, wherever that is, and, unless the host failed to be
  read, the same bytes), `ProxyInv` (the arguments are what the object answered, with junk
  only in the flag nobody sets) and `ShmInv`
  (`MappingsInv`: a mapping belongs to the temporary until that is moved, then to the
  member; `SizesInv`: the Wine half has the size of the configuration, the other half
  when that has arrived, and the object is at least as long).
* *Typed calls.*  `CallsInv` says of each thread what its call is about and whether its
  last line is a request that waits for its response (`Pending`), and of each kept object
  only that it is one: `ReadObjectGives` shows that what was sent is read, whatever the
  object held.  The lines of a thread are printed by itself while it calls and by the
  handler while it waits, which is why they alternate; when its call threw, the handler may
  still print the one line that is missing, and the thread prints no other.

* *Processing cycle.*  `CycleInv` says for each point of a cycle what the two objects and
  the buffer hold then: `Vst3Sent`, `Vst3Processing` and `Vst3Answer` for VST3 and their
  like for CLAP.  It says nothing of what the lists a plugin fills hold while the object is
  sent (VST3 sends those of the last cycle along), which is why the emptying of them in
  `reconstruct()` is needed.  `BufferInv` gives the buffer its channels, so that what is
  written and what is read are the same ones.  `QueuesGathered` is about the host alone:
  queues added one by one end up as one for each parameter, with its points in order.

Properties of sequences (what appending to, taking from and overwriting in one gives)
are lemmas in front of each module's proofs; each action has a lemma of its own.

**Only model-checked.**  Liveness and the fairness in the two refinements
(`GetParamSettles`, `BlockReturns`, `ListenerReturns`, `CallsReturn`, the temporal parts
of `SocketImplementsCalls` and of `LineCarriesFrames`, which is `LinkImplemented`), and
what is stated with `ENABLED` (`InstanceComesUp`, `RemovalEnds`): both are beyond the
prover.

## 6. Not modelled

Contents of audio and text; the fetching of the root file system; `connect` and
`disconnect` of the audio node; the debug registry; a plugin that crashes after it was
loaded; exceptions of a function given to `fork()`, which end the process.  Of section
1.2: the main thread's sockets and the closing of everything at the end; VST2 sockets,
events and logging, which follow the pattern of the others with one union as payload;
the attributes of messages and streams, maps with setters and getters; caches used by
one thread each; configuration, libdbus, library discovery and the environment of
processes, which are input and output; wording, files and time stamps of the log.  The
sizes of reused buffers, the encoding of fields, and races on the containers themselves
(a map that is looked up while another thread inserts) are below this level.  Hosts with
more buses or ports than the plugin announced (section 5).
