----------------------------- MODULE TypedCalls -----------------------------
(***************************************************************************)
(* TypedMessageHandler of src/common/communication/common.h: threads make  *)
(* calls by sending request objects over sockets, a receiving loop reads   *)
(* each into an object it keeps from one request to the next, has it       *)
(* handled and writes the response.  The plugin's half of the bridge logs  *)
(* both: what it sends before and after, what it receives around the       *)
(* handler.  Which thread gets the primary socket is AdHocSocket.tla; here *)
(* a call that does not get it has a loop, and an object, of its own.      *)
(***************************************************************************)
EXTENDS Naturals, Sequences, SequencesExt

CONSTANTS
  Interfaces,    \* the record of the classes and their messages
  Variants,      \* per socket: the messages of its request variant
  RequestLevel,  \* per message: the verbosity from which its request is printed
  AnswerShows,   \* per message: when its answer's line shows the data
  Cyclic,        \* the messages of every processing cycle
  Described,     \* those whose answer is described whatever the result
  Threads, NoThread,
  Values,        \* of an argument
  Absent,        \* the value of an optional that has none
  Default,       \* the value of a field nothing was read into
  MaxCalls       \* bound: calls in a behaviour

ASSUME TypedCallsAssumption ==
  /\ NoThread \notin Threads
  /\ Absent \notin Values /\ Default \notin Values /\ Absent # Default
  /\ \A s \in DOMAIN Variants : Variants[s] \subseteq DOMAIN RequestLevel
  /\ \A s \in DOMAIN Variants : \A id \in Variants[s] :
       Interfaces[id[1]].messages[id[2]].sent \subseteq Interfaces[id[1]].messages[id[2]].args
  /\ MaxCalls \in Nat

VARIABLES
  interface,   \* the class whose functions are called
  verbosity_,  \* Logger::verbosity_
  caller,      \* per thread: its call
  seen,        \* per thread: the request as its handler sees it
  persistent,  \* per socket: persistent_object of the loop on its primary
  primary,     \* per socket: the thread whose call is on its primary
  open,        \* neither side has closed the sockets
  thrown,      \* the threads whose call ended with an exception
  made,        \* calls made
  lines        \* per thread: what the logger printed of its calls

callVars == <<interface, verbosity_, caller, seen, persistent, primary, open, thrown, made,
              lines>>

Sockets == DOMAIN Variants
MessageOf(id) == Interfaces[id[1]].messages[id[2]]

\* What is sent over a socket in this behaviour.
MessagesOn(s) == {id \in Variants[s] : id[1] = interface}

\* Requests from the host to the plugin, as opposed to callbacks.
HostToPlugin(s) == s \in {"control", "audio"}

NoCall == [at |-> "idle"]
Empty == [id |-> <<>>, args |-> <<>>, process_request_ |-> <<>>]

\* Objects of a fresh type: nothing was read into the fields yet.
Fresh(id) == [a \in MessageOf(id).args |-> Default]

\* The process request is sent by reference and read into an object beside the
\* variant, which is kept whatever else arrives in between.
IsReference(id) == id \in {<<"YaAudioProcessor", "Process">>, <<"plugin", "Process">>}

Start(i, v) ==
  /\ interface = i /\ verbosity_ = v
  /\ caller = [t \in Threads |-> NoCall]
  /\ seen = [t \in Threads |-> <<>>]
  /\ persistent = [s \in Sockets |-> Empty]
  /\ primary = [s \in Sockets |-> NoThread]
  /\ open = TRUE /\ thrown = {}
  /\ made = 0
  /\ lines = [t \in Threads |-> <<>>]

Init == \E i \in DOMAIN Interfaces, v \in 0..2 : Start(i, v)
-----------------------------------------------------------------------------
(* Logging.                                                                *)

\* log_request_base(): whether it printed is kept for the response.
Printed(id) == verbosity_ >= RequestLevel[id]

RequestLine(t, s, id) ==
  [thread |-> t, id |-> id, kind |-> "request", data |-> {},
   from |-> IF HostToPlugin(s) THEN "host" ELSE "plugin",
   to |-> IF HostToPlugin(s) THEN "plugin" ELSE "host"]

\* log_response_base(), with the flag negated by the caller: the arrow points
\* back at the side that made the request.
ResponseLine(t, s, id, succeeded, data) ==
  [thread |-> t, id |-> id, kind |-> "response",
   data |-> CASE AnswerShows[id] = "always" -> data
              [] AnswerShows[id] = "success" /\ succeeded -> data
              [] OTHER -> {},
   from |-> IF ~HostToPlugin(s) THEN "host" ELSE "plugin",
   to |-> IF ~HostToPlugin(s) THEN "plugin" ELSE "host"]

Log(t, printed, line) ==
  lines' = IF printed THEN [lines EXCEPT ![t] = Append(@, line)] ELSE lines
-----------------------------------------------------------------------------
(* Reading a request.                                                      *)

\* Mutant: an optional that is not there leaves the one before it in place.
InPlaceOptionalKeeps(old, value) == IF value = Absent THEN old ELSE value

\* InPlaceOptional: the object in it is read into, or it is reset.
InPlaceOptional(old, value) == IF value = Absent THEN Absent ELSE value

\* Only the fields that were sent are read; the others stay as they are.
ReadFields(id, old, args) ==
  [a \in MessageOf(id).args |->
     IF a \notin MessageOf(id).sent THEN old[a]
     ELSE IF a \in MessageOf(id).optional THEN InPlaceOptional(old[a], args[a])
     ELSE args[a]]

\* Mutant: the variant keeps its alternative whatever is read.
InPlaceVariantKeeps(object, id, args) ==
  [object EXCEPT !.args = IF object.id = <<>> THEN ReadFields(id, Fresh(id), args)
                          ELSE object.args,
                 !.id = id]

\* InPlaceVariant: an object of the same type is read into, another replaced.
InPlaceVariant(object, id, args) ==
  [object EXCEPT
     !.id = id,
     !.args = ReadFields(id, IF object.id = id THEN object.args ELSE Fresh(id), args)]

\* MessageReference: the object beside the variant is created when it is first
\* needed; the reference in the variant is pointed at it.
MessageReference(object, id, args) ==
  [object EXCEPT
     !.id = id,
     !.args = <<>>,
     !.process_request_ =
       ReadFields(id, IF @ = <<>> THEN Fresh(id) ELSE @, args)]

ReadObject(object, id, args) ==
  IF IsReference(id) THEN MessageReference(object, id, args)
  ELSE InPlaceVariant(object, id, args)

\* What the visited object gives the handler.
Visited(object) ==
  IF IsReference(object.id) THEN object.process_request_ ELSE object.args
-----------------------------------------------------------------------------
(* A call.                                                                 *)

\* receive_into(): the request is logged and written, which it is to no avail once
\* the sockets were closed.  If the primary is busy a connection of its own is made.
Send(t, s, id, v, given) ==
  /\ caller[t].at \in {"idle", "returned"}
  /\ given => MessageOf(id).optional # {}
  /\ caller' = [caller EXCEPT ![t] =
       [at |-> "sent", socket |-> s, id |-> id,
        args |-> [a \in MessageOf(id).args |->
                    IF a \in MessageOf(id).optional /\ ~given THEN Absent ELSE v],
        should_log |-> HostToPlugin(s) /\ Printed(id), arrives |-> open]]
  /\ primary' = IF primary[s] = NoThread THEN [primary EXCEPT ![s] = t] ELSE primary
  /\ made' = made + 1
  /\ Log(t, HostToPlugin(s) /\ Printed(id), RequestLine(t, s, id))
  /\ UNCHANGED <<interface, verbosity_, seen, persistent, open, thrown>>

\* receive_messages(): the request is read, logged if this is the plugin's half,
\* and visited.
Receive(t) ==
  /\ caller[t].at = "sent" /\ caller[t].arrives
  /\ LET s == caller[t].socket
         id == caller[t].id
         old == IF primary[s] = t THEN persistent[s] ELSE Empty
         read == ReadObject(old, id, caller[t].args)
         logs == ~HostToPlugin(s) /\ Printed(id)
     IN /\ seen' = [seen EXCEPT ![t] = Visited(read)]
        /\ persistent' = IF primary[s] = t THEN [persistent EXCEPT ![s] = read]
                         ELSE persistent
        /\ caller' = [caller EXCEPT ![t] =
             [at |-> "handling", socket |-> s, id |-> id, args |-> @.args,
              should_log |-> @.should_log, handler_logs |-> logs]]
        /\ Log(t, logs, RequestLine(t, s, id))
  /\ UNCHANGED <<interface, verbosity_, primary, open, thrown, made>>

\* A response has a result, or an object that may be missing.
CanFail(id) == MessageOf(id).reply \in {"result", "data", "object"}

\* The data a response has: a failed call still has the fields, with whatever
\* is in them, but an object that may be missing is missing.
ResponseData(id, succeeded) ==
  IF MessageOf(id).reply = "object" /\ ~succeeded THEN {} ELSE MessageOf(id).data

\* The handler returns, the response is logged and written.
Answer(t, succeeded) ==
  /\ caller[t].at = "handling"
  /\ ~succeeded => CanFail(caller[t].id)
  /\ LET c == caller[t]
         data == ResponseData(c.id, succeeded)
     IN /\ caller' = [caller EXCEPT ![t] =
             [at |-> "answered", socket |-> c.socket, id |-> c.id, args |-> c.args,
              should_log |-> c.should_log, arrives |-> open,
              answer |-> [succeeded |-> succeeded, data |-> data]]]
        /\ Log(t, c.handler_logs, ResponseLine(t, c.socket, c.id, succeeded, data))
  /\ UNCHANGED <<interface, verbosity_, seen, persistent, primary, open, thrown, made>>

\* Mutant: every response is logged.
ReturnLogsAll(t) ==
  /\ caller[t].at = "answered" /\ caller[t].arrives /\ t \notin thrown
  /\ LET c == caller[t]
         answer == c.answer
     IN /\ caller' = [caller EXCEPT ![t] = [at |-> "returned", id |-> c.id, got |-> answer]]
        /\ Log(t, HostToPlugin(c.socket),
               ResponseLine(t, c.socket, c.id, answer.succeeded, answer.data))
        /\ primary' = IF primary[c.socket] = t
                      THEN [primary EXCEPT ![c.socket] = NoThread] ELSE primary
  /\ UNCHANGED <<interface, verbosity_, seen, persistent, open, thrown, made>>

\* The response is read, the socket free again, and the response logged if the
\* request was.
Return(t) ==
  /\ caller[t].at = "answered" /\ caller[t].arrives /\ t \notin thrown
  /\ LET c == caller[t]
         answer == c.answer
     IN /\ caller' = [caller EXCEPT ![t] = [at |-> "returned", id |-> c.id, got |-> answer]]
        /\ Log(t, c.should_log, ResponseLine(t, c.socket, c.id, answer.succeeded, answer.data))
        /\ primary' = IF primary[c.socket] = t
                      THEN [primary EXCEPT ![c.socket] = NoThread] ELSE primary
  /\ UNCHANGED <<interface, verbosity_, seen, persistent, open, thrown, made>>

\* Either side closes the sockets, one right after another: a thread has a call on
\* one of them at most, and makes no other when that one failed.
Close ==
  /\ open
  /\ open' = FALSE
  /\ UNCHANGED <<interface, verbosity_, caller, seen, persistent, primary, thrown, made, lines>>

\* Writing the request or reading the response throws, and the exception leaves
\* receive_into() before the response is logged.  The other half may still be
\* handling the request.  Nobody calls again: "we should thus just exit"
\* (common.h:680-683).
Throw(t) ==
  /\ caller[t].at \in {"sent", "handling", "answered"} /\ ~open
  /\ t \notin thrown
  /\ thrown' = thrown \cup {t}
  /\ UNCHANGED <<interface, verbosity_, caller, seen, persistent, primary, open, made, lines>>

CallStep(t) ==
  \/ /\ made < MaxCalls
     /\ \E s \in Sockets : \E id \in MessagesOn(s), v \in Values, given \in BOOLEAN :
          Send(t, s, id, v, given)
  \/ Receive(t)
  \/ \E succeeded \in BOOLEAN : Answer(t, succeeded)
  \/ Return(t)
  \/ Throw(t)

Next == (\E t \in Threads : CallStep(t)) \/ Close

Spec == Init /\ [][Next]_callVars
-----------------------------------------------------------------------------
\* Whatever the object it is read into held before, from this instance or from
\* another, the handler sees the fields that were sent, and no optional that
\* was not (the reused objects of common.h:1090-1105).
NothingStale ==
  \A t \in Threads :
    caller[t].at = "handling" =>
      \A a \in MessageOf(caller[t].id).sent : seen[t][a] = caller[t].args[a]

\* The lines of a thread come in pairs, a request and then its response in the
\* opposite direction, whatever the verbosity and whoever prints them, the half
\* that sends or the one that receives (vst3.h:415-420: log_response() only when
\* log_request() returned true).  Only the last request may have no response: its
\* call has not returned, and if it threw it never will, so that a response is
\* never printed next to the request of another call.
Pairs(mine) ==
  \A i \in DOMAIN mine :
    IF i % 2 = 1 THEN mine[i].kind = "request"
    ELSE /\ mine[i].kind = "response"
         /\ mine[i].id = mine[i - 1].id
         /\ mine[i].from = mine[i - 1].to /\ mine[i].to = mine[i - 1].from

LinesPaired ==
  \A t \in Threads :
    /\ Pairs(lines[t])
    /\ caller[t].at \in {"idle", "returned"} => Len(lines[t]) % 2 = 0

\* Below the highest verbosity no line is printed in a processing cycle: the
\* audio thread does not wait for the log.
ProcessingIsQuiet ==
  verbosity_ < 2 =>
    \A t \in Threads : \A i \in DOMAIN lines[t] : lines[t][i].id \notin Cyclic

\* The data of a call that failed, which nobody need have set, is not printed.
FailuresShowNoData ==
  \A t \in Threads :
    caller[t].at = "returned" /\ ~caller[t].got.succeeded /\ Printed(caller[t].id)
    /\ caller[t].id \notin Described
      => Last(lines[t]).data = {}
-----------------------------------------------------------------------------
\* The two properties of the log rest on its tables, which the loggers' modules
\* translate: what is called in every cycle is printed at the highest verbosity
\* only, and data that is always printed, unless it is described, is that of
\* calls that cannot fail or have none when they do.
CyclicAtHighest == \A id \in Cyclic : RequestLevel[id] = 2

AnswersGuarded ==
  \A s \in Sockets : \A id \in Variants[s] \ Described :
    AnswerShows[id] = "always" /\ CanFail(id) => ResponseData(id, FALSE) = {}

\* A request of t has been printed and its response has not.
Pending(t) ==
  /\ caller[t].at \in {"sent", "handling", "answered"} /\ Printed(caller[t].id)
  /\ HostToPlugin(caller[t].socket) \/ caller[t].at = "handling"

\* What a call is about, and what has been printed of it.
CallInv(t) ==
  /\ caller[t].at \in {"idle", "sent", "handling", "answered", "returned"}
  /\ caller[t].at \in {"sent", "handling", "answered"} =>
       /\ caller[t].socket \in Sockets /\ caller[t].id \in Variants[caller[t].socket]
       /\ caller[t].should_log <=> HostToPlugin(caller[t].socket) /\ Printed(caller[t].id)
  /\ caller[t].at = "handling" =>
       (caller[t].handler_logs <=> ~HostToPlugin(caller[t].socket) /\ Printed(caller[t].id))
  /\ IF Pending(t)
     THEN /\ Len(lines[t]) % 2 = 1
          /\ Last(lines[t]) = RequestLine(t, caller[t].socket, caller[t].id)
     ELSE Len(lines[t]) % 2 = 0

\* The answer is that of the message, and its line is the last.
AnswerInv(t) ==
  /\ caller[t].at = "answered" =>
       LET c == caller[t]
       IN /\ c.answer.succeeded \in BOOLEAN
          /\ c.answer.data = ResponseData(c.id, c.answer.succeeded)
          /\ ~c.answer.succeeded => CanFail(c.id)
          /\ Printed(c.id) /\ ~HostToPlugin(c.socket) =>
               Last(lines[t]) =
                 ResponseLine(t, c.socket, c.id, c.answer.succeeded, c.answer.data)
  /\ caller[t].at = "returned" =>
       LET c == caller[t]
       IN \E s \in Sockets :
            /\ c.id \in Variants[s]
            /\ c.got.succeeded \in BOOLEAN
            /\ ~c.got.succeeded => CanFail(c.id)
            /\ Printed(c.id) =>
                 Last(lines[t]) = ResponseLine(t, s, c.id, c.got.succeeded,
                                               ResponseData(c.id, c.got.succeeded))

\* Inductive.
CallsInv ==
  /\ verbosity_ \in 0..2
  /\ \A t \in Threads : CallInv(t) /\ AnswerInv(t)
  /\ \A s \in Sockets :
       persistent[s] = [id |-> persistent[s].id, args |-> persistent[s].args,
                        process_request_ |-> persistent[s].process_request_]
  /\ NothingStale /\ LinesPaired
=============================================================================
