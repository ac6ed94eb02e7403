-------------------------- MODULE TypedCallsProofs ---------------------------
(***************************************************************************)
(* TypedCalls.tla for any messages, sockets and threads: what handlers see *)
(* and what is logged.                                                     *)
(***************************************************************************)
EXTENDS TypedCalls, SequenceTheorems, TLAPS

\* The messages that are printed at this verbosity, and the lines about them.
Ids == {id \in UNION {Variants[s] : s \in Sockets} : Printed(id)}
Lines == [thread : Threads, id : Ids, kind : {"request", "response"},
          data : {{}} \cup {MessageOf(id).data : id \in Ids},
          from : {"host", "plugin"}, to : {"host", "plugin"}]

\* What is printed, and what the other variables are about.
LinesTypeOK == lines \in [Threads -> Seq(Lines)]
DomainsOK == DOMAIN caller = Threads /\ DOMAIN seen = Threads /\ DOMAIN persistent = Sockets

\* The inductive invariant.
IInv == CallsInv /\ LinesTypeOK /\ DomainsOK

-----------------------------------------------------------------------------
(* Reading.                                                                *)

\* What was sent is read, whatever the fields held.
LEMMA SentIsRead ==
  ASSUME NEW id, MessageOf(id).sent \subseteq MessageOf(id).args, NEW old, NEW args
  PROVE  \A a \in MessageOf(id).sent : ReadFields(id, old, args)[a] = args[a]
BY DEF ReadFields, InPlaceOptional

\* The objects that are kept are records of three fields.
IsObject(o) == o = [id |-> o.id, args |-> o.args, process_request_ |-> o.process_request_]

\* And so is the handler's, from the object that is kept or from one of its own.
LEMMA ReadObjectGives ==
  ASSUME NEW s \in Sockets, NEW id \in Variants[s], NEW args, NEW o, IsObject(o)
  PROVE  /\ IsObject(ReadObject(o, id, args))
         /\ \A a \in MessageOf(id).sent : Visited(ReadObject(o, id, args))[a] = args[a]
<1>1. MessageOf(id).sent \subseteq MessageOf(id).args
  BY TypedCallsAssumption DEF MessageOf, Sockets
<1> DEFINE r == ReadObject(o, id, args)
<1>2. CASE IsReference(id)
  <2> DEFINE fields == ReadFields(id, IF o.process_request_ = <<>> THEN Fresh(id)
                                      ELSE o.process_request_, args)
  <2>1. r = [o EXCEPT !.id = id, !.args = <<>>, !.process_request_ = fields]
    BY <1>2 DEF ReadObject, MessageReference
  <2>2. \A a \in MessageOf(id).sent : fields[a] = args[a]
    BY <1>1, SentIsRead
  <2> HIDE DEF r, fields
  <2>3. r = [id |-> id, args |-> <<>>, process_request_ |-> fields]
    BY <2>1 DEF IsObject
  <2>4. IsObject(r) /\ Visited(r) = fields
    BY <1>2, <2>3 DEF IsObject, Visited
  <2> QED
    BY <2>2, <2>4 DEF r
<1>3. CASE ~IsReference(id)
  <2> DEFINE fields == ReadFields(id, IF o.id = id THEN o.args ELSE Fresh(id), args)
  <2>1. r = [o EXCEPT !.id = id, !.args = fields]
    BY <1>3 DEF ReadObject, InPlaceVariant
  <2>2. \A a \in MessageOf(id).sent : fields[a] = args[a]
    BY <1>1, SentIsRead
  <2> HIDE DEF r, fields
  <2>3. r = [id |-> id, args |-> fields, process_request_ |-> o.process_request_]
    BY <2>1 DEF IsObject
  <2>4. IsObject(r) /\ Visited(r) = fields
    BY <1>3, <2>3 DEF IsObject, Visited
  <2> QED
    BY <2>2, <2>4 DEF r
<1> QED
  BY <1>2, <1>3

-----------------------------------------------------------------------------
(* The log.                                                                *)

\* What the lines of a call say.
LEMMA LineFields ==
  ASSUME NEW t, NEW s, NEW id, NEW succeeded \in BOOLEAN, NEW data, NEW line,
         line = ResponseLine(t, s, id, succeeded, data)
  PROVE  /\ line.kind = "response" /\ line.id = RequestLine(t, s, id).id
         /\ line.from = RequestLine(t, s, id).to /\ line.to = RequestLine(t, s, id).from
<1> DEFINE shown == CASE AnswerShows[id] = "always" -> data
                      [] AnswerShows[id] = "success" /\ succeeded -> data
                      [] OTHER -> {}
<1>1. line = [thread |-> t, id |-> id, kind |-> "response", data |-> shown,
              from |-> IF ~HostToPlugin(s) THEN "host" ELSE "plugin",
              to |-> IF ~HostToPlugin(s) THEN "plugin" ELSE "host"]
  BY Zenon DEF ResponseLine
<1> HIDE DEF shown
<1> QED
  BY <1>1 DEF RequestLine

\* A request after a whole number of pairs, and the response after it.
LEMMA LineAdded ==
  ASSUME NEW S, NEW mine \in Seq(S), NEW line \in S, Pairs(mine),
         \/ Len(mine) % 2 = 0 /\ line.kind = "request"
         \/ /\ Len(mine) % 2 = 1 /\ line.kind = "response" /\ line.id = Last(mine).id
            /\ line.from = Last(mine).to /\ line.to = Last(mine).from
  PROVE  /\ Append(mine, line) \in Seq(S) /\ Pairs(Append(mine, line))
         /\ Last(Append(mine, line)) = line
         /\ Len(mine) % 2 = 0 => Len(Append(mine, line)) % 2 = 1
         /\ Len(mine) % 2 = 1 => Len(Append(mine, line)) % 2 = 0
<1> DEFINE more == Append(mine, line)
           n == Len(mine)
<1>1. /\ n \in Nat /\ DOMAIN mine = 1..n
      /\ more \in Seq(S) /\ Len(more) = n + 1 /\ DOMAIN more = 1..(n + 1)
      /\ more[n + 1] = line /\ \A i \in 1..n : more[i] = mine[i]
  BY AppendProperties, LenProperties
<1> HIDE DEF more, n
<1>2. /\ n % 2 = 0 => (n + 1) % 2 = 1
      /\ n % 2 = 1 => (n + 1) % 2 = 0 /\ n >= 1
  BY <1>1
<1>3. ASSUME NEW i \in 1..(n + 1)
      PROVE  IF i % 2 = 1 THEN more[i].kind = "request"
             ELSE /\ more[i].kind = "response"
                  /\ more[i].id = more[i - 1].id
                  /\ more[i].from = more[i - 1].to /\ more[i].to = more[i - 1].from
  <2>1. CASE i = n + 1
    <3>1. CASE n % 2 = 0
      BY <1>1, <1>2, <2>1, <3>1 DEF n
    <3>2. CASE n % 2 = 1
      <4>1. (n + 1) % 2 = 0 /\ n \in 1..n /\ i - 1 = n
        BY <1>1, <1>2, <2>1, <3>2
      <4>2. more[i] = line /\ more[i - 1] = Last(mine)
        BY <1>1, <2>1, <4>1 DEF Last, n
      <4> QED
        BY <2>1, <3>2, <4>1, <4>2 DEF n
    <3> QED
      BY <3>1, <3>2 DEF n
  <2>2. CASE i # n + 1
    <3>1. i \in 1..n /\ (i % 2 # 1 => i - 1 \in 1..n)
      BY <1>1, <2>2
    <3>2. IF i % 2 = 1 THEN mine[i].kind = "request"
          ELSE /\ mine[i].kind = "response"
               /\ mine[i].id = mine[i - 1].id
               /\ mine[i].from = mine[i - 1].to /\ mine[i].to = mine[i - 1].from
      BY <1>1, <3>1, Zenon DEF Pairs
    <3>3. more[i] = mine[i] /\ (i % 2 # 1 => more[i - 1] = mine[i - 1])
      BY <1>1, <3>1
    <3> QED
      BY <3>2, <3>3
  <2> QED
    BY <2>1, <2>2
<1>4. Pairs(more)
  BY <1>1, <1>3 DEF Pairs
<1>5. Last(more) = line
  BY <1>1 DEF Last
<1> QED
  BY <1>1, <1>2, <1>4, <1>5 DEF more, n

\* The lines of a message that is printed.
LEMMA LinesOf ==
  ASSUME NEW t \in Threads, NEW s \in Sockets, NEW id \in Variants[s], Printed(id)
  PROVE  /\ RequestLine(t, s, id) \in Lines
         /\ \A succeeded \in BOOLEAN :
              ResponseLine(t, s, id, succeeded, ResponseData(id, succeeded)) \in Lines
<1>1. id \in Ids
  BY DEF Ids
<1> DEFINE Data == {{}} \cup {MessageOf(i).data : i \in Ids}
<1>2. RequestLine(t, s, id) \in Lines
  BY <1>1 DEF RequestLine, Lines
<1>3. ASSUME NEW succeeded \in BOOLEAN
      PROVE  ResponseLine(t, s, id, succeeded, ResponseData(id, succeeded)) \in Lines
  <2> PICK data : data = ResponseData(id, succeeded)
    OBVIOUS
  <2> DEFINE shown == CASE AnswerShows[id] = "always" -> data
                        [] AnswerShows[id] = "success" /\ succeeded -> data
                        [] OTHER -> {}
  <2>1. data \in Data
    BY <1>1 DEF ResponseData
  <2>2. shown \in Data
    BY <2>1
  <2>3. ResponseLine(t, s, id, succeeded, data)
          = [thread |-> t, id |-> id, kind |-> "response", data |-> shown,
             from |-> IF ~HostToPlugin(s) THEN "host" ELSE "plugin",
             to |-> IF ~HostToPlugin(s) THEN "plugin" ELSE "host"]
    BY Zenon DEF ResponseLine
  <2> HIDE DEF shown
  <2> QED
    BY <1>1, <2>2, <2>3 DEF Lines
<1> QED
  BY <1>2, <1>3

\* The lines of every thread after one of them has, or has not, printed one.
LEMMA LogStep ==
  ASSUME LinesTypeOK, \A u \in Threads : Pairs(lines[u]), verbosity_' = verbosity_,
         NEW t \in Threads, NEW printed \in BOOLEAN, NEW line, Log(t, printed, line),
         printed => line \in Lines,
         printed =>
           \/ Len(lines[t]) % 2 = 0 /\ line.kind = "request"
           \/ /\ Len(lines[t]) % 2 = 1 /\ line.kind = "response"
              /\ line.id = Last(lines[t]).id
              /\ line.from = Last(lines[t]).to /\ line.to = Last(lines[t]).from
  PROVE  /\ LinesTypeOK' /\ \A u \in Threads : Pairs(lines'[u])
         /\ \A u \in Threads \ {t} : lines'[u] = lines[u]
         /\ ~printed => lines'[t] = lines[t]
         /\ printed =>
              /\ Last(lines'[t]) = line
              /\ Len(lines[t]) % 2 = 0 => Len(lines'[t]) % 2 = 1
              /\ Len(lines[t]) % 2 = 1 => Len(lines'[t]) % 2 = 0
<1>1. Lines' = Lines
  BY DEF Lines, Ids, Printed, RequestLine, ResponseLine, ResponseData, CanFail, HostToPlugin,
         MessageOf, Sockets
<1>2. CASE ~printed
  BY <1>1, <1>2 DEF Log, LinesTypeOK
<1>3. CASE printed
  <2> DEFINE more == Append(lines[t], line)
  <2>1. lines[t] \in Seq(Lines) /\ Pairs(lines[t]) /\ line \in Lines
    BY <1>3 DEF LinesTypeOK
  <2>2. /\ more \in Seq(Lines) /\ Pairs(more) /\ Last(more) = line
        /\ Len(lines[t]) % 2 = 0 => Len(more) % 2 = 1
        /\ Len(lines[t]) % 2 = 1 => Len(more) % 2 = 0
    BY <1>3, <2>1, LineAdded, ZenonT(60)
  <2>3. lines' = [lines EXCEPT ![t] = more]
    BY <1>3 DEF Log
  <2> HIDE DEF more
  <2>4. lines'[t] = more /\ \A u \in Threads \ {t} : lines'[u] = lines[u]
    BY <2>3 DEF LinesTypeOK
  <2>5. lines' \in [Threads -> Seq(Lines)]
    BY <2>2, <2>3 DEF LinesTypeOK
  <2>6. \A u \in Threads : Pairs(lines'[u])
    BY <2>2, <2>4
  <2> QED
    BY <1>1, <1>3, <2>2, <2>4, <2>5, <2>6 DEF LinesTypeOK
<1> QED
  BY <1>2, <1>3

\* A thread that does nothing stays as it is.
LEMMA OthersKeep ==
  ASSUME NEW u, CallInv(u), AnswerInv(u), verbosity_' = verbosity_,
         caller'[u] = caller[u], lines'[u] = lines[u]
  PROVE  CallInv(u)' /\ AnswerInv(u)'
<1>1. CallInv(u)'
  BY DEF CallInv, Pending, Printed, RequestLine, HostToPlugin, Sockets
<1>2. AnswerInv(u)'
  BY DEF AnswerInv, Printed
<1> QED
  BY <1>1, <1>2

\* What is to be shown of a step of thread t.
LEMMA StepKeeps ==
  ASSUME IInv, NEW t \in Threads, verbosity_' = verbosity_, DomainsOK', LinesTypeOK',
         \A u \in Threads \ {t} :
           caller'[u] = caller[u] /\ seen'[u] = seen[u] /\ lines'[u] = lines[u],
         \A u \in Threads : Pairs(lines'[u]),
         CallInv(t)', AnswerInv(t)',
         caller'[t].at = "handling" =>
           \A a \in MessageOf(caller'[t].id).sent : seen'[t][a] = caller'[t].args[a],
         \A s \in Sockets : IsObject(persistent'[s])
  PROVE  IInv'
<1>1. \A u \in Threads : CallInv(u)' /\ AnswerInv(u)'
  <2> TAKE u \in Threads
  <2>1. CASE u = t
    BY <2>1
  <2>2. CASE u # t
    <3>1. CallInv(u) /\ AnswerInv(u)
      BY DEF IInv, CallsInv
    <3> QED
      BY <2>2, <3>1, OthersKeep
  <2> QED
    BY <2>1, <2>2
<1>2. NothingStale'
  <2>1. ASSUME NEW u \in Threads, caller'[u].at = "handling"
        PROVE  \A a \in MessageOf(caller'[u].id).sent : seen'[u][a] = caller'[u].args[a]
    <3>1. CASE u = t
      BY <2>1, <3>1
    <3>2. CASE u # t
      <4>1. caller'[u] = caller[u] /\ seen'[u] = seen[u]
        BY <3>2
      <4>2. \A a \in MessageOf(caller[u].id).sent : seen[u][a] = caller[u].args[a]
        BY <2>1, <4>1 DEF IInv, CallsInv, NothingStale
      <4> QED
        BY <4>1, <4>2
    <3> QED
      BY <3>1, <3>2
  <2> QED
    BY <2>1 DEF NothingStale
<1>3. LinesPaired'
  <2>1. ASSUME NEW u \in Threads, caller'[u].at \in {"idle", "returned"}
        PROVE  Len(lines'[u]) % 2 = 0
    BY <1>1, <2>1 DEF CallInv, Pending
  <2>2. \A u \in Threads : Pairs(lines[u])'
    BY DEF Pairs
  <2> QED
    BY <2>1, <2>2 DEF LinesPaired
<1>4. \A s \in Sockets : IsObject(persistent[s])'
  BY DEF IsObject
<1> QED
  BY <1>1, <1>2, <1>3, <1>4 DEF IInv, CallsInv, IsObject, Sockets

-----------------------------------------------------------------------------
(* The steps.                                                              *)

LEMMA InitIsFine == Init => IInv
<1> SUFFICES ASSUME NEW i \in DOMAIN Interfaces, NEW v \in 0..2, Start(i, v)
             PROVE  IInv
  BY DEF Init
<1> USE DEF Start
<1>1. LinesTypeOK /\ DomainsOK
  BY EmptySeq DEF LinesTypeOK, DomainsOK
<1>2. \A t \in Threads : caller[t] = [at |-> "idle"] /\ lines[t] = <<>>
  BY DEF NoCall
<1>3. Pairs(<<>>) /\ Len(<<>>) = 0
  BY EmptySeq DEF Pairs
<1>4. \A t \in Threads : CallInv(t) /\ AnswerInv(t)
  BY <1>2, <1>3 DEF CallInv, AnswerInv, Pending
<1>5. NothingStale /\ LinesPaired
  BY <1>2, <1>3 DEF NothingStale, LinesPaired
<1> QED
  BY <1>1, <1>4, <1>5 DEF IInv, CallsInv, Empty

LEMMA SendKeeps ==
  ASSUME IInv, NEW t \in Threads, NEW s \in Sockets, NEW id \in MessagesOn(s), NEW v,
         NEW given \in BOOLEAN, Send(t, s, id, v, given)
  PROVE  IInv'
<1> DEFINE args == [a \in MessageOf(id).args |->
                      IF a \in MessageOf(id).optional /\ ~given THEN Absent ELSE v]
           logs == HostToPlugin(s) /\ Printed(id)
           line == RequestLine(t, s, id)
           call == [at |-> "sent", socket |-> s, id |-> id, args |-> args, should_log |-> logs,
                    arrives |-> open]
<1>1. /\ caller' = [caller EXCEPT ![t] = call] /\ Log(t, logs, line)
      /\ verbosity_' = verbosity_ /\ seen' = seen /\ persistent' = persistent
      /\ caller[t].at \in {"idle", "returned"}
  BY DEF Send
<1>2. id \in Variants[s] /\ logs \in BOOLEAN /\ (logs => line \in Lines)
      /\ line.kind = "request"
  <2>1. id \in Variants[s] /\ (Printed(id) => line \in Lines)
    BY LinesOf DEF MessagesOn
  <2>2. line.kind = "request"
    BY DEF RequestLine
  <2> QED
    BY <2>1, <2>2
<1>3. Len(lines[t]) % 2 = 0
  BY <1>1 DEF IInv, CallsInv, LinesPaired
<1> HIDE DEF args
<1>4. DomainsOK' /\ caller'[t] = call /\ \A u \in Threads \ {t} : caller'[u] = caller[u]
  BY <1>1 DEF IInv, DomainsOK
<1>5. LinesTypeOK /\ \A u \in Threads : Pairs(lines[u])
  BY DEF IInv, CallsInv, LinesPaired
<1> HIDE DEF logs, line
<1>6. /\ LinesTypeOK' /\ \A u \in Threads : Pairs(lines'[u])
      /\ \A u \in Threads \ {t} : lines'[u] = lines[u]
      /\ ~logs => lines'[t] = lines[t]
      /\ logs => Last(lines'[t]) = line /\ Len(lines'[t]) % 2 = 1
  BY <1>1, <1>2, <1>3, <1>5, LogStep
<1>7. CallInv(t)'
  <2>1. Pending(t)' <=> logs
    BY <1>1, <1>4 DEF Pending, Printed, logs, HostToPlugin
  <2>2. IF logs THEN Len(lines'[t]) % 2 = 1 /\ Last(lines'[t]) = line
        ELSE Len(lines'[t]) % 2 = 0
    BY <1>3, <1>6
  <2>3. /\ caller'[t].at = "sent" /\ caller'[t].socket = s /\ caller'[t].id = id
        /\ caller'[t].should_log = logs
    BY <1>4
  <2>4. Printed(id)' <=> Printed(id)
    BY <1>1 DEF Printed
  <2> QED
    BY <1>2, <2>1, <2>2, <2>3, <2>4 DEF CallInv, line, logs, Printed, RequestLine, HostToPlugin,
       Sockets
<1>8. AnswerInv(t)' /\ caller'[t].at # "handling"
  BY <1>4 DEF AnswerInv
<1>9. \A r \in Sockets : IsObject(persistent'[r])
  BY <1>1 DEF IInv, CallsInv, IsObject
<1> QED
  BY <1>1, <1>4, <1>6, <1>7, <1>8, <1>9, StepKeeps

LEMMA ReceiveKeeps ==
  ASSUME IInv, NEW t \in Threads, Receive(t)
  PROVE  IInv'
<1> PICK c : c = caller[t]
  OBVIOUS
<1> PICK s : s = c.socket
  OBVIOUS
<1> PICK id : id = c.id
  OBVIOUS
<1> DEFINE old == IF primary[s] = t THEN persistent[s] ELSE Empty
           logs == ~HostToPlugin(s) /\ Printed(id)
           line == RequestLine(t, s, id)
<1> PICK read : read = ReadObject(old, id, c.args)
  OBVIOUS
<1>1. /\ c.at = "sent" /\ s \in Sockets /\ id \in Variants[s]
      /\ c.should_log <=> HostToPlugin(s) /\ Printed(id)
      /\ ~Pending(t) => Len(lines[t]) % 2 = 0
      /\ Pending(t) => Len(lines[t]) % 2 = 1 /\ Last(lines[t]) = line
      /\ Pending(t) <=> HostToPlugin(s) /\ Printed(id)
  BY DEF Receive, IInv, CallsInv, CallInv, Pending
<1> DEFINE call == [at |-> "handling", socket |-> s, id |-> id, args |-> c.args,
                    should_log |-> c.should_log, handler_logs |-> logs]
<1>2. /\ caller' = [caller EXCEPT ![t] = call] /\ Log(t, logs, line)
      /\ verbosity_' = verbosity_ /\ seen' = [seen EXCEPT ![t] = Visited(read)]
      /\ persistent' = IF primary[s] = t THEN [persistent EXCEPT ![s] = read] ELSE persistent
  BY DEF Receive
<1>3. IsObject(old)
  BY <1>1 DEF IInv, CallsInv, IsObject, Empty
<1>4. IsObject(read) /\ \A a \in MessageOf(id).sent : Visited(read)[a] = c.args[a]
  BY <1>1, <1>3, ReadObjectGives
<1>5. /\ DomainsOK' /\ caller'[t] = call /\ seen'[t] = Visited(read)
      /\ \A u \in Threads \ {t} : caller'[u] = caller[u] /\ seen'[u] = seen[u]
  BY <1>2 DEF IInv, DomainsOK
<1>6. LinesTypeOK /\ \A u \in Threads : Pairs(lines[u])
  BY DEF IInv, CallsInv, LinesPaired
<1>7. logs \in BOOLEAN /\ (logs => line \in Lines) /\ line.kind = "request"
      /\ (logs => Len(lines[t]) % 2 = 0)
  <2>1. Printed(id) => line \in Lines
    BY <1>1, LinesOf
  <2>2. line.kind = "request"
    BY DEF RequestLine
  <2> QED
    BY <1>1, <2>1, <2>2
<1>8. \A r \in Sockets : IsObject(persistent'[r])
  <2>1. \A r \in Sockets : persistent'[r] = persistent[r] \/ persistent'[r] = read
    BY <1>2 DEF IInv, DomainsOK
  <2>2. \A r \in Sockets : IsObject(persistent[r])
    BY DEF IInv, CallsInv, IsObject
  <2> QED
    BY <1>4, <2>1, <2>2
<1> HIDE DEF logs, line
<1>9. /\ LinesTypeOK' /\ \A u \in Threads : Pairs(lines'[u])
      /\ \A u \in Threads \ {t} : lines'[u] = lines[u]
      /\ ~logs => lines'[t] = lines[t]
      /\ logs => Last(lines'[t]) = line /\ Len(lines'[t]) % 2 = 1
  BY <1>2, <1>6, <1>7, LogStep
<1>10. CallInv(t)'
  <2>1. /\ caller'[t].at = "handling" /\ caller'[t].socket = s /\ caller'[t].id = id
        /\ caller'[t].should_log = c.should_log /\ caller'[t].handler_logs = logs
    BY <1>5
  <2>2. Printed(id)' <=> Printed(id)
    BY <1>2 DEF Printed
  <2>3. Pending(t)' <=> Printed(id)
    BY <2>1, <2>2 DEF Pending, Printed
  <2>4. IF Printed(id) THEN Len(lines'[t]) % 2 = 1 /\ Last(lines'[t]) = line
        ELSE Len(lines'[t]) % 2 = 0
    BY <1>1, <1>9 DEF logs
  <2> QED
    BY <1>1, <2>1, <2>2, <2>3, <2>4 DEF CallInv, line, logs, Printed, RequestLine, HostToPlugin,
       Sockets
<1>11. AnswerInv(t)' /\ \A a \in MessageOf(caller'[t].id).sent : seen'[t][a] = caller'[t].args[a]
  BY <1>4, <1>5 DEF AnswerInv
<1> QED
  BY <1>2, <1>5, <1>8, <1>9, <1>10, <1>11, StepKeeps

LEMMA AnswerKeeps ==
  ASSUME IInv, NEW t \in Threads, NEW succeeded \in BOOLEAN, Answer(t, succeeded)
  PROVE  IInv'
<1> PICK c : c = caller[t]
  OBVIOUS
<1> PICK s : s = c.socket
  OBVIOUS
<1> PICK id : id = c.id
  OBVIOUS
<1> PICK data : data = ResponseData(id, succeeded)
  OBVIOUS
<1> PICK line : line = ResponseLine(t, s, id, succeeded, data)
  OBVIOUS
<1> DEFINE logs == ~HostToPlugin(s) /\ Printed(id)
           call == [at |-> "answered", socket |-> s, id |-> id, args |-> c.args,
                    should_log |-> c.should_log, arrives |-> open,
                    answer |-> [succeeded |-> succeeded, data |-> data]]
<1>1. /\ c.at = "handling" /\ s \in Sockets /\ id \in Variants[s]
      /\ c.should_log <=> HostToPlugin(s) /\ Printed(id)
      /\ c.handler_logs <=> ~HostToPlugin(s) /\ Printed(id)
      /\ ~Printed(id) => Len(lines[t]) % 2 = 0
      /\ Printed(id) => Len(lines[t]) % 2 = 1 /\ Last(lines[t]) = RequestLine(t, s, id)
      /\ ~succeeded => CanFail(id)
  BY DEF Answer, IInv, CallsInv, CallInv, Pending
<1>2. /\ caller' = [caller EXCEPT ![t] = call] /\ Log(t, c.handler_logs, line)
      /\ verbosity_' = verbosity_ /\ seen' = seen /\ persistent' = persistent
  BY DEF Answer
<1>3. DomainsOK' /\ caller'[t] = call /\ \A u \in Threads \ {t} : caller'[u] = caller[u]
  BY <1>2 DEF IInv, DomainsOK
<1>4. LinesTypeOK /\ (\A u \in Threads : Pairs(lines[u])) /\ Log(t, logs, line)
  BY <1>1, <1>2 DEF IInv, CallsInv, LinesPaired, Log
<1>5. /\ logs \in BOOLEAN
      /\ logs => /\ line \in Lines /\ line.kind = "response" /\ Len(lines[t]) % 2 = 1
                 /\ line.id = Last(lines[t]).id
                 /\ line.from = Last(lines[t]).to /\ line.to = Last(lines[t]).from
  <2>1. Printed(id) => line \in Lines
    BY <1>1, LinesOf
  <2>2. /\ line.kind = "response" /\ line.id = RequestLine(t, s, id).id
        /\ line.from = RequestLine(t, s, id).to /\ line.to = RequestLine(t, s, id).from
    BY LineFields
  <2> QED
    BY <1>1, <2>1, <2>2
<1> HIDE DEF logs
<1>6. /\ LinesTypeOK' /\ \A u \in Threads : Pairs(lines'[u])
      /\ \A u \in Threads \ {t} : lines'[u] = lines[u]
      /\ ~logs => lines'[t] = lines[t]
      /\ logs => Last(lines'[t]) = line /\ Len(lines'[t]) % 2 = 0
  BY <1>2, <1>4, <1>5, LogStep
<1>7. /\ caller'[t].at = "answered" /\ caller'[t].socket = s /\ caller'[t].id = id
      /\ caller'[t].should_log = c.should_log
      /\ caller'[t].answer.succeeded = succeeded /\ caller'[t].answer.data = data
  BY <1>3
<1>8. Printed(id)' <=> Printed(id)
  BY <1>2 DEF Printed
<1>9. CallInv(t)'
  <2>1. Pending(t)' <=> Printed(id) /\ HostToPlugin(s)
    BY <1>7, <1>8 DEF Pending, Printed, HostToPlugin
  <2>2. IF Printed(id) /\ HostToPlugin(s)
        THEN Len(lines'[t]) % 2 = 1 /\ Last(lines'[t]) = RequestLine(t, s, id)
        ELSE Len(lines'[t]) % 2 = 0
    BY <1>1, <1>6 DEF logs
  <2> QED
    BY <1>1, <1>7, <1>8, <2>1, <2>2 DEF CallInv, Printed, RequestLine, HostToPlugin, Sockets
<1>10. AnswerInv(t)'
  <2>1. Printed(id) /\ ~HostToPlugin(s) => Last(lines'[t]) = line
    BY <1>6 DEF logs
  <2>2. line = ResponseLine(t, s, id, succeeded, data)
    OBVIOUS
  <2> QED
    BY <1>1, <1>7, <1>8, <2>1, <2>2, Zenon DEF AnswerInv, Printed, ResponseLine, ResponseData, CanFail,
       HostToPlugin, MessageOf
<1>11. \A r \in Sockets : IsObject(persistent'[r])
  BY <1>2 DEF IInv, CallsInv, IsObject
<1> QED
  BY <1>2, <1>3, <1>6, <1>7, <1>9, <1>10, <1>11, StepKeeps

LEMMA ReturnKeeps ==
  ASSUME IInv, NEW t \in Threads, Return(t)
  PROVE  IInv'
<1> PICK c : c = caller[t]
  OBVIOUS
<1> PICK s : s = c.socket
  OBVIOUS
<1> PICK id : id = c.id
  OBVIOUS
<1> PICK succeeded : succeeded = c.answer.succeeded
  OBVIOUS
<1> PICK data : data = c.answer.data
  OBVIOUS
<1> PICK line : line = ResponseLine(t, s, id, succeeded, data)
  OBVIOUS
<1> DEFINE logs == HostToPlugin(s) /\ Printed(id)
           call == [at |-> "returned", id |-> id, got |-> c.answer]
<1>1. /\ c.at = "answered" /\ s \in Sockets /\ id \in Variants[s]
      /\ c.should_log <=> HostToPlugin(s) /\ Printed(id)
      /\ ~(HostToPlugin(s) /\ Printed(id)) => Len(lines[t]) % 2 = 0
      /\ HostToPlugin(s) /\ Printed(id) =>
           Len(lines[t]) % 2 = 1 /\ Last(lines[t]) = RequestLine(t, s, id)
  BY DEF Return, IInv, CallsInv, CallInv, Pending
<1>2. /\ succeeded \in BOOLEAN /\ data = ResponseData(id, succeeded)
      /\ ~succeeded => CanFail(id)
      /\ Printed(id) /\ ~HostToPlugin(s) => Last(lines[t]) = line
  <2>1. AnswerInv(t)
    BY DEF IInv, CallsInv
  <2> QED
    BY <1>1, <2>1, Zenon DEF AnswerInv
<1>3. /\ caller' = [caller EXCEPT ![t] = call] /\ Log(t, c.should_log, line)
      /\ verbosity_' = verbosity_ /\ seen' = seen /\ persistent' = persistent
  BY DEF Return
<1>4. DomainsOK' /\ caller'[t] = call /\ \A u \in Threads \ {t} : caller'[u] = caller[u]
  BY <1>3 DEF IInv, DomainsOK
<1>5. LinesTypeOK /\ (\A u \in Threads : Pairs(lines[u])) /\ Log(t, logs, line)
  BY <1>1, <1>3 DEF IInv, CallsInv, LinesPaired, Log
<1>6. /\ logs \in BOOLEAN
      /\ logs => /\ line \in Lines /\ line.kind = "response" /\ Len(lines[t]) % 2 = 1
                 /\ line.id = Last(lines[t]).id
                 /\ line.from = Last(lines[t]).to /\ line.to = Last(lines[t]).from
  <2>1. Printed(id) => line \in Lines
    BY <1>1, <1>2, LinesOf
  <2>2. /\ line.kind = "response" /\ line.id = RequestLine(t, s, id).id
        /\ line.from = RequestLine(t, s, id).to /\ line.to = RequestLine(t, s, id).from
    BY <1>2, LineFields
  <2> QED
    BY <1>1, <2>1, <2>2
<1>7. line = ResponseLine(t, s, id, succeeded, ResponseData(id, succeeded))
  BY <1>2, Zenon
<1> HIDE DEF logs
<1>8. /\ LinesTypeOK' /\ \A u \in Threads : Pairs(lines'[u])
      /\ \A u \in Threads \ {t} : lines'[u] = lines[u]
      /\ ~logs => lines'[t] = lines[t]
      /\ logs => Last(lines'[t]) = line /\ Len(lines'[t]) % 2 = 0
  BY <1>3, <1>5, <1>6, LogStep
<1>9. /\ caller'[t].at = "returned" /\ caller'[t].id = id
      /\ caller'[t].got.succeeded = succeeded
  BY <1>2, <1>4
<1>10. Printed(id)' <=> Printed(id)
  BY <1>3 DEF Printed
<1>11. CallInv(t)'
  BY <1>1, <1>8, <1>9 DEF CallInv, Pending, logs
<1>12. AnswerInv(t)'
  <2>1. Printed(id) => Last(lines'[t]) = line
    BY <1>2, <1>8 DEF logs
  <2> QED
    BY <1>1, <1>2, <1>7, <1>9, <1>10, <2>1 DEF AnswerInv, Printed
<1>13. \A r \in Sockets : IsObject(persistent'[r])
  BY <1>3 DEF IInv, CallsInv, IsObject
<1> QED
  BY <1>3, <1>4, <1>8, <1>9, <1>11, <1>12, <1>13, StepKeeps

-----------------------------------------------------------------------------
(* The results.                                                            *)

\* Neither closing a socket nor an exception changes what a call is about or what
\* was printed.
LEMMA CloseOrThrowKeeps ==
  ASSUME IInv, UNCHANGED <<verbosity_, caller, seen, persistent, lines>>
  PROVE  IInv'
<1>1. LinesTypeOK' /\ DomainsOK'
  BY DEF IInv, LinesTypeOK, DomainsOK, Lines, Ids, Printed, MessageOf, Sockets
<1>2. \A t \in Threads : CallInv(t)' /\ AnswerInv(t)'
  BY OthersKeep DEF IInv, CallsInv
<1>3. NothingStale' /\ LinesPaired'
  BY DEF IInv, CallsInv, NothingStale, LinesPaired, Pairs, MessageOf
<1> QED
  BY <1>1, <1>2, <1>3 DEF IInv, CallsInv, Sockets

LEMMA StepsKeep == IInv /\ [Next]_callVars => IInv'
<1> SUFFICES ASSUME IInv, [Next]_callVars PROVE IInv'
  OBVIOUS
<1>1. ASSUME NEW t \in Threads, CallStep(t) PROVE IInv'
  <2>1. CASE Throw(t)
    BY <2>1, CloseOrThrowKeeps DEF Throw
  <2> QED
    BY <1>1, <2>1, SendKeeps, ReceiveKeeps, AnswerKeeps, ReturnKeeps DEF CallStep
<1>2. ASSUME Close PROVE IInv'
  BY <1>2, CloseOrThrowKeeps DEF Close
<1>3. CASE UNCHANGED callVars
  BY <1>3, CloseOrThrowKeeps DEF callVars
<1> QED
  BY <1>1, <1>2, <1>3 DEF Next

LEMMA AlwaysFine == Spec => []IInv
<1> QED
  BY InitIsFine, StepsKeep, PTL DEF Spec

\* What a call is about, what has been printed of it and what its handler sees
\* agree, for any messages, sockets and threads.
THEOREM CallsConsistent == Spec => []CallsInv
<1>1. IInv => CallsInv
  BY DEF IInv
<1> QED
  BY <1>1, AlwaysFine, PTL

\* A handler sees what was sent, whatever the object it was read into has held.
THEOREM HandlersSeeRequest == Spec => []NothingStale
<1>1. IInv => NothingStale
  BY DEF IInv, CallsInv
<1> QED
  BY <1>1, AlwaysFine, PTL

\* The lines of a thread are requests, each followed by its response, but for the
\* last, whose call is under way or has ended with an exception.
THEOREM RequestsAnsweredInLog == Spec => []LinesPaired
<1>1. IInv => LinesPaired
  BY DEF IInv, CallsInv
<1> QED
  BY <1>1, AlwaysFine, PTL

\* Nothing of a processing cycle is printed below the highest verbosity, if the
\* loggers print it at the highest only.
THEOREM CyclesAreQuiet ==
  ASSUME CyclicAtHighest
  PROVE  Spec => []ProcessingIsQuiet
<1>1. IInv => ProcessingIsQuiet
  <2> SUFFICES ASSUME IInv, verbosity_ < 2, NEW t \in Threads, NEW i \in DOMAIN lines[t],
                      lines[t][i].id \in Cyclic
               PROVE  FALSE
    BY DEF ProcessingIsQuiet
  <2>1. lines[t] \in Seq(Lines)
    BY DEF IInv, LinesTypeOK
  <2>2. lines[t][i] \in Lines
    BY <2>1
  <2>3. Printed(lines[t][i].id)
    BY <2>2 DEF Lines, Ids
  <2>4. RequestLevel[lines[t][i].id] = 2 /\ verbosity_ \in 0..2
    BY DEF CyclicAtHighest, IInv, CallsInv
  <2> QED
    BY <2>3, <2>4 DEF Printed
<1> QED
  BY <1>1, AlwaysFine, PTL

\* The line of a call that failed shows no data, if the loggers show those of
\* calls that may fail only on success, or there are none.
THEOREM FailuresAreBlank ==
  ASSUME AnswersGuarded
  PROVE  Spec => []FailuresShowNoData
<1>1. IInv => FailuresShowNoData
  <2> SUFFICES ASSUME IInv, NEW t \in Threads, caller[t].at = "returned",
                      ~caller[t].got.succeeded, Printed(caller[t].id),
                      caller[t].id \notin Described
               PROVE  Last(lines[t]).data = {}
    BY DEF FailuresShowNoData
  <2> PICK id : id = caller[t].id
    OBVIOUS
  <2> PICK line : line = Last(lines[t])
    OBVIOUS
  <2>1. AnswerInv(t)
    BY DEF IInv, CallsInv
  <2>2. PICK s \in Sockets :
          /\ id \in Variants[s] /\ CanFail(id) /\ caller[t].got.succeeded \in BOOLEAN
          /\ line = ResponseLine(t, s, id, caller[t].got.succeeded,
                                 ResponseData(id, caller[t].got.succeeded))
    BY <2>1, Zenon DEF AnswerInv
  <2>3. caller[t].got.succeeded = FALSE
    BY <2>2
  <2> PICK data : data = ResponseData(id, FALSE)
    OBVIOUS
  <2> DEFINE shown == CASE AnswerShows[id] = "always" -> data
                        [] AnswerShows[id] = "success" /\ FALSE -> data
                        [] OTHER -> {}
  <2>4. AnswerShows[id] = "always" => data = {}
    BY <2>2 DEF AnswersGuarded
  <2>5. shown = {}
    BY <2>4, Zenon
  <2>6. line = [thread |-> t, id |-> id, kind |-> "response", data |-> shown,
                from |-> IF ~HostToPlugin(s) THEN "host" ELSE "plugin",
                to |-> IF ~HostToPlugin(s) THEN "plugin" ELSE "host"]
    BY <2>2, <2>3, Zenon DEF ResponseLine
  <2> HIDE DEF shown
  <2> QED
    BY <2>5, <2>6
<1> QED
  BY <1>1, AlwaysFine, PTL
=============================================================================
