------------------------------ MODULE Messages ------------------------------
(***************************************************************************)
(* What a call through a plugin API becomes on the sockets between the two *)
(* halves of the bridge: a request object of a type of its own and the     *)
(* response object that type names (src/common/serialization/common.h).    *)
(*                                                                         *)
(* A message type is a record: the arguments it has as fields, those its   *)
(* serialize() writes, those that are optional, what kind of response it   *)
(* has and the data in that.  The number of the instance it is for is a    *)
(* field of nearly all of them and is left out.  How a field is encoded is *)
(* left out too: both sides use the same serialize().                      *)
(***************************************************************************)

Message(args, reply, data) ==
  [args |-> args, sent |-> args, optional |-> {}, reply |-> reply, data |-> data]

\* Nothing comes back but the fact that the call was made.
Ack(args) == Message(args, "ack", {})

\* A single value: PrimitiveResponse<T>.
Value(args) == Message(args, "value", {"value"})

\* A result code: UniversalTResult, or the Boolean of a CLAP function.
Result(args) == Message(args, "result", {})

\* A result code, and data that means something when the call succeeded.
Data(args, data) == Message(args, "data", data)

\* Data that may be missing, and no result code.
Object(args, data) == Message(args, "object", data)

\* Some of the arguments are std::optional.
Optional(message, fields) == [message EXCEPT !.optional = fields]

\* A field that serialize() does not write.
Unsent(message, fields) == [message EXCEPT !.sent = @ \ fields]

\* The class for an interface: the interface the other side's object is asked
\* for to learn whether it is supported, and the messages for its functions.
Interface(iid, messages) == [iid |-> iid, messages |-> messages]

\* Messages that belong to a proxy object and not to one of its interfaces.
Proxy(messages) == Interface("FUnknown", messages)

\* The identifiers of the messages of a record of interfaces.
MessagesOf(interfaces) ==
  UNION {{<<i, m>> : m \in DOMAIN interfaces[i].messages} : i \in DOMAIN interfaces}
=============================================================================
