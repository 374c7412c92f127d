---------------------------- MODULE ControlCodec ----------------------------
(***************************************************************************)
(* The texts of the control protocol (garwarp-ipc/src/lib.rs) and of the   *)
(* command line of garwarpctl (garwarpctl/src/main.rs).                    *)
(*                                                                         *)
(* A line is its first word and, in order, its fields: pairs of a key and  *)
(* a value.  A message is the word and the values of the keys it has.  An  *)
(* optional value that is absent is no key of the message; on a response   *)
(* line and on the command line a dash stands for it.                      *)
(***************************************************************************)
EXTENDS Naturals, Sequences, Functions

CONSTANT Dash  \* the text "-"

\* What a parser makes of a text that is none of its messages.
NotAMessage == [word |-> "none"]

Message(word, values) == [word |-> word, values |-> values]
NoValues == [key \in {} |-> Dash]
Keys(line) == {line.fields[i][1] : i \in DOMAIN line.fields}
PlaceOf(line, key) == CHOOSE i \in DOMAIN line.fields : line.fields[i][1] = key
ValueOf(line, key) == line.fields[PlaceOf(line, key)][2]

\* parse_fields: a key comes once.
NoKeyTwice(line) == \A i, j \in DOMAIN line.fields : line.fields[i][1] = line.fields[j][1] => i = j

-----------------------------------------------------------------------------
(* Requests. *)

TargetWord == {"awaiting_user", "fulfilled", "cancelled", "failed"}

\* The keys each request must have, in the order they are written, and those
\* it may have.
RequestKeys ==
    [status |-> <<>>, stop |-> <<>>, list |-> <<>>, inspect |-> <<"id">>,
     begin |-> <<"id", "sender">>, transition |-> <<"id", "sender", "state">>]
OptionalKeys(word) ==
    CASE word = "begin" -> {"app_id", "parent"}
      [] word = "transition" -> {"app_id"}
      [] OTHER -> {}

\* Variant: a sender is not required, since the daemon ignores it.
RequiredOfRequestButSender(word) == Range(RequestKeys[word]) \ {"sender"}

RequiredOfRequest(word) == Range(RequestKeys[word])

\* ControlRequest::as_line
AsLine(request) ==
    LET required == RequestKeys[request.word]
        Field(key) == <<key, request.values[key]>>
        Optional(key) == IF key \in DOMAIN request.values THEN <<Field(key)>> ELSE <<>>
    IN [word |-> request.word,
        fields |-> [i \in DOMAIN required |-> Field(required[i])]
                     \o Optional("app_id") \o Optional("parent")]

\* ControlRequest::parse_line
ParseRequest(line) ==
    IF /\ line.word \in DOMAIN RequestKeys
       /\ NoKeyTwice(line)
       /\ Keys(line) \subseteq Range(RequestKeys[line.word]) \cup OptionalKeys(line.word)
       /\ RequiredOfRequest(line.word) \subseteq Keys(line)
       /\ line.word = "transition" => ValueOf(line, "state") \in TargetWord
      THEN Message(line.word, [key \in Keys(line) |-> ValueOf(line, key)])
      ELSE NotAMessage

\* What parse_line makes of a line that ends too early: a key or a word that
\* was cut is none, a value may be another one (of `cutOf`, a function from
\* values to sets of them), and nothing marks the end.
UpTo(line, n) == [word |-> line.word, fields |-> [i \in 1..n |-> line.fields[i]]]
EndingIn(line, n, value) ==
    [word |-> line.word,
     fields |-> [i \in 1..n |-> IF i < n THEN line.fields[i] ELSE <<line.fields[i][1], value>>]]
CutLines(line, cutOf) ==
    LET shorter(n) == IF line.fields[n][2] \in DOMAIN cutOf THEN cutOf[line.fields[n][2]] ELSE {}
    IN {[word |-> "torn", fields |-> <<>>]}
       \cup {UpTo(line, n) : n \in 0..Len(line.fields)}
       \cup UNION {{EndingIn(line, n, value) : value \in shorter(n)} : n \in 1..Len(line.fields)}

-----------------------------------------------------------------------------
(* Responses. *)

ResponseKeys ==
    [status |-> <<"protocol", "health", "in_flight", "total", "terminal">>,
     ack_stopping |-> <<>>, list |-> <<"ids">>, ack_request |-> <<"id", "state">>,
     snapshot |-> <<"id", "state", "sender", "app_id", "parent">>,
     error |-> <<"code", "reason">>]

RequiredOfResponse(word) == Range(ResponseKeys[word]) \ {"parent", "app_id"}

\* Variant: a list of nothing is a list of a dash.
NoneIsDashInSnapshots == {"app_id", "parent"}

\* The keys whose value, when absent, is written as a dash.
NoneIsDash == {"app_id", "parent", "ids"}

\* Variant: what is absent is left out, as in a request.
ToLineGiven(response) ==
    LET given == SelectSeq(ResponseKeys[response.word], LAMBDA key : key \in DOMAIN response.values) IN
    [word |-> response.word,
     fields |-> [i \in DOMAIN given |-> <<given[i], response.values[given[i]]>>]]

\* ControlResponse::to_line.  A dash is also an id that is valid, so a list of
\* that one id is written like an empty list.
ToLine(response) ==
    LET keys == ResponseKeys[response.word]
        Text(key) ==
            IF key \notin DOMAIN response.values THEN Dash
            ELSE IF key = "ids" /\ response.values[key] = {Dash} THEN Dash
            ELSE response.values[key]
    IN [word |-> response.word, fields |-> [i \in DOMAIN keys |-> <<keys[i], Text(keys[i])>>]]

\* ControlResponse::parse_line.  What follows "ack stopping" is not looked at.
ParseResponse(line) ==
    IF line.word = "ack_stopping" THEN Message(line.word, NoValues)
    ELSE IF /\ line.word \in DOMAIN ResponseKeys
            /\ NoKeyTwice(line)
            /\ Keys(line) \subseteq Range(ResponseKeys[line.word])
            /\ RequiredOfResponse(line.word) \subseteq Keys(line)
      THEN Message(line.word,
                   [key \in {k \in Keys(line) : ~(k \in NoneIsDash /\ ValueOf(line, k) = Dash)}
                      |-> ValueOf(line, key)])
      ELSE NotAMessage

-----------------------------------------------------------------------------
(* garwarpctl. *)

\* What each command takes after its name.
CommandKeys ==
    [status |-> <<>>, stop |-> <<>>, list |-> <<>>, inspect |-> <<"id">>,
     begin |-> <<"id", "sender", "app_id", "parent">>,
     transition |-> <<"id", "sender", "state", "app_id">>,
     await |-> <<"id", "sender", "app_id">>, fulfill |-> <<"id", "sender", "app_id">>,
     cancel |-> <<"id", "sender", "app_id">>, fail |-> <<"id", "sender", "app_id">>]

\* The commands that are a transition to one state.
Shorthand == [await |-> "awaiting_user", fulfill |-> "fulfilled", cancel |-> "cancelled",
              fail |-> "failed"]

\* parse_command and optional_value: the request a command line makes, if any.
\* No argument at all is a status; an empty one is a dash here.
ParseCommand(words) ==
    LET command == IF words = <<>> THEN "status" ELSE Head(words)
        args == IF words = <<>> THEN <<>> ELSE Tail(words)
        keys == CommandKeys[command]
        missing == {keys[i] : i \in DOMAIN keys \ DOMAIN args}
        optional == {"app_id", "parent"}
        given == {keys[i] : i \in {j \in DOMAIN args : ~(keys[j] \in optional /\ args[j] = Dash)}}
        values == [key \in given |-> args[CHOOSE i \in DOMAIN keys : keys[i] = key]]
    IN IF \/ command \notin DOMAIN CommandKeys
          \/ ~(DOMAIN args \subseteq DOMAIN keys)
          \/ ~(missing \subseteq optional)
         THEN NotAMessage
       ELSE IF command \in DOMAIN Shorthand
         THEN Message("transition", [key \in given \cup {"state"} |->
                                       IF key = "state" THEN Shorthand[command] ELSE values[key]])
       ELSE IF command = "transition" /\ values["state"] \notin TargetWord THEN NotAMessage
       ELSE Message(command, values)

\* run: which response to which request is a success.
Expected ==
    [status |-> "status", stop |-> "ack_stopping", list |-> "list", inspect |-> "snapshot",
     begin |-> "ack_request", transition |-> "ack_request"]

Report(request, response) ==
    IF response.word = Expected[request.word] THEN "done"
    ELSE IF response.word = "error" THEN "daemon_error"
    ELSE "unexpected"
=============================================================================
