--------------------------- MODULE ControlWireProofs ---------------------------
(***************************************************************************)
(* Theorems about ControlWire, for every set of commands, ids, owners,     *)
(* parents and connections, and for whatever the beginnings of a value may *)
(* be read as.                                                             *)
(***************************************************************************)
EXTENDS ControlWire, ControlDaemonProofs

-----------------------------------------------------------------------------
(* Requests on the wire. *)

\* What garwarpctl sends: a word, every key it requires and some it allows.
IsRequest(r) ==
    /\ r = Message(r.word, r.values)
    /\ r.word \in DOMAIN RequestKeys
    /\ r.values = [key \in DOMAIN r.values |-> r.values[key]]
    /\ RequiredOfRequest(r.word) \subseteq DOMAIN r.values
    /\ DOMAIN r.values \subseteq RequiredOfRequest(r.word) \cup OptionalKeys(r.word)
    /\ r.word = "transition" => r.values["state"] \in TargetWord

\* The keys of each request.
LEMMA RequestShape ==
    /\ DOMAIN RequestKeys = {"status", "stop", "list", "inspect", "begin", "transition"}
    /\ \A word \in {"status", "stop", "list"} :
        RequestKeys[word] = <<>> /\ RequiredOfRequest(word) = {} /\ OptionalKeys(word) = {}
    /\ /\ RequestKeys["inspect"] = <<"id">> /\ RequiredOfRequest("inspect") = {"id"}
       /\ OptionalKeys("inspect") = {}
    /\ /\ RequestKeys["begin"] = <<"id", "sender">> /\ RequiredOfRequest("begin") = {"id", "sender"}
       /\ OptionalKeys("begin") = {"app_id", "parent"}
    /\ /\ RequestKeys["transition"] = <<"id", "sender", "state">>
       /\ RequiredOfRequest("transition") = {"id", "sender", "state"}
       /\ OptionalKeys("transition") = {"app_id"}
<1>1. /\ DOMAIN RequestKeys = {"status", "stop", "list", "inspect", "begin", "transition"}
      /\ \A word \in {"status", "stop", "list"} : RequestKeys[word] = <<>>
      /\ RequestKeys["inspect"] = <<"id">>
      /\ RequestKeys["begin"] = <<"id", "sender">>
      /\ RequestKeys["transition"] = <<"id", "sender", "state">>
  BY DEF RequestKeys
<1>2. /\ \A word \in {"status", "stop", "list"} : RequiredOfRequest(word) = {}
      /\ RequiredOfRequest("inspect") = {"id"}
      /\ RequiredOfRequest("begin") = {"id", "sender"}
      /\ RequiredOfRequest("transition") = {"id", "sender", "state"}
  BY <1>1 DEF RequiredOfRequest, Range
<1> QED BY <1>1, <1>2 DEF OptionalKeys

LEMMA MadeRequest ==
    ASSUME NEW word \in DOMAIN RequestKeys, NEW S, NEW values,
           values = [key \in S |-> values[key]],
           RequiredOfRequest(word) \subseteq S,
           S \subseteq RequiredOfRequest(word) \cup OptionalKeys(word),
           word = "transition" => values["state"] \in TargetWord
    PROVE  IsRequest(Message(word, values))
BY DEF IsRequest, Message

\* garwarpctl turns a command line into a whole request or into none.
LEMMA CommandIsRequest ==
    ASSUME NEW words, ParseCommand(words) # NotAMessage
    PROVE  IsRequest(ParseCommand(words))
<1> DEFINE command == IF words = <<>> THEN "status" ELSE Head(words)
           args == IF words = <<>> THEN <<>> ELSE Tail(words)
           keys == CommandKeys[command]
           missing == {keys[i] : i \in DOMAIN keys \ DOMAIN args}
           optional == {"app_id", "parent"}
           given == {keys[i] : i \in {j \in DOMAIN args : ~(keys[j] \in optional /\ args[j] = Dash)}}
           values == [key \in given |-> args[CHOOSE i \in DOMAIN keys : keys[i] = key]]
           moved == [key \in given \cup {"state"} |->
                       IF key = "state" THEN Shorthand[command] ELSE values[key]]
<1>1. /\ command \in DOMAIN CommandKeys
      /\ DOMAIN args \subseteq DOMAIN keys
      /\ missing \subseteq optional
      /\ \/ command \in DOMAIN Shorthand /\ ParseCommand(words) = Message("transition", moved)
         \/ /\ command \notin DOMAIN Shorthand
            /\ command = "transition" => values["state"] \in TargetWord
            /\ ParseCommand(words) = Message(command, values)
  BY Zenon DEF ParseCommand
<1>2. given \subseteq Range(keys) /\ Range(keys) \ optional \subseteq given
  BY <1>1 DEF Range
<1> HIDE DEF command, args, given, missing
<1>3. /\ values = [key \in given |-> values[key]]
      /\ moved = [key \in given \cup {"state"} |-> moved[key]]
      /\ moved["state"] = Shorthand[command]
  BY DEF values, moved
<1> HIDE DEF values, moved
<1>4. CASE command \in DOMAIN Shorthand
  <2>1. /\ command \in {"await", "fulfill", "cancel", "fail"}
        /\ keys = <<"id", "sender", "app_id">>
        /\ Shorthand[command] \in TargetWord
    BY <1>4 DEF Shorthand, CommandKeys, TargetWord
  <2>2. Range(keys) = {"id", "sender", "app_id"}
    BY <2>1 DEF Range
  <2>3. /\ RequiredOfRequest("transition") \subseteq given \cup {"state"}
        /\ given \cup {"state"} \subseteq
             RequiredOfRequest("transition") \cup OptionalKeys("transition")
    BY <1>2, <2>2, RequestShape
  <2>4. IsRequest(Message("transition", moved))
    BY <1>3, <2>1, <2>3, MadeRequest, RequestShape
  <2> QED BY <1>1, <1>4, <2>4
<1>5. CASE command \notin DOMAIN Shorthand
  <2>1. command \in DOMAIN RequestKeys
    BY <1>1, <1>5, RequestShape DEF Shorthand, CommandKeys
  <2>2. /\ RequiredOfRequest(command) \subseteq Range(keys) \ optional
        /\ Range(keys) \subseteq RequiredOfRequest(command) \cup OptionalKeys(command)
    <3>1. CASE command \in {"status", "stop", "list", "inspect"}
      BY <3>1, RequestShape DEF CommandKeys, Range
    <3>2. CASE command = "begin"
      BY <3>2, RequestShape DEF CommandKeys, Range
    <3>3. CASE command = "transition"
      BY <3>3, RequestShape DEF CommandKeys, Range
    <3> QED BY <2>1, <3>1, <3>2, <3>3, RequestShape
  <2>3. /\ RequiredOfRequest(command) \subseteq given
        /\ given \subseteq RequiredOfRequest(command) \cup OptionalKeys(command)
    BY <1>2, <2>2
  <2>4. IsRequest(Message(command, values))
    BY <1>1, <1>5, <1>3, <2>1, <2>3, MadeRequest
  <2> QED BY <1>1, <1>5, <2>4
<1> QED BY <1>4, <1>5

\* as_line writes every key once, the required ones first.
FieldsOf(r, f) ==
    /\ Len(f) \in Nat /\ DOMAIN f = 1..Len(f)
    /\ \A i, j \in 1..Len(f) : f[i][1] = f[j][1] => i = j
    /\ \A i \in 1..Len(f) : f[i][1] \in DOMAIN r.values /\ f[i][2] = r.values[f[i][1]]
    /\ \A key \in DOMAIN r.values : \E i \in 1..Len(f) : f[i][1] = key
    /\ \A i \in DOMAIN RequestKeys[r.word] : i \in 1..Len(f) /\ f[i][1] = RequestKeys[r.word][i]

LEMMA WrittenFields ==
    ASSUME NEW r, IsRequest(r)
    PROVE  AsLine(r).word = r.word /\ FieldsOf(r, AsLine(r).fields)
<1> DEFINE required == RequestKeys[r.word]
           Field(key) == <<key, r.values[key]>>
           Optional(key) == IF key \in DOMAIN r.values THEN <<Field(key)>> ELSE <<>>
           fields == [i \in DOMAIN required |-> Field(required[i])]
                       \o Optional("app_id") \o Optional("parent")
<1>1. AsLine(r) = [word |-> r.word, fields |-> fields]
  BY DEF AsLine
<1>2. FieldsOf(r, fields)
  <2>1. CASE r.word \in {"status", "stop", "list"}
    <3>1. DOMAIN r.values = {} /\ required = <<>>
      BY <2>1, RequestShape DEF IsRequest
    <3>2. Len(fields) = 0 /\ DOMAIN fields = 1..0
      BY <3>1
    <3> QED BY <3>1, <3>2 DEF FieldsOf
  <2>2. CASE r.word = "inspect"
    <3>1. DOMAIN r.values = {"id"} /\ required = <<"id">>
      BY <2>2, RequestShape DEF IsRequest
    <3>2. Len(fields) = 1 /\ DOMAIN fields = 1..1 /\ fields[1] = Field("id")
      BY <3>1
    <3> QED BY <3>1, <3>2 DEF FieldsOf
  <2>3. CASE r.word = "begin"
    <3>1. /\ {"id", "sender"} \subseteq DOMAIN r.values
          /\ DOMAIN r.values \subseteq {"id", "sender", "app_id", "parent"}
          /\ required = <<"id", "sender">>
      BY <2>3, RequestShape DEF IsRequest
    <3>2. fields[1] = Field("id") /\ fields[2] = Field("sender")
      BY <3>1
    <3>3. CASE {"app_id", "parent"} \subseteq DOMAIN r.values
      <4>1. /\ Len(fields) = 4 /\ DOMAIN fields = 1..4
            /\ fields[3] = Field("app_id") /\ fields[4] = Field("parent")
        BY <3>1, <3>3
      <4> HIDE DEF fields
      <4> QED BY <3>1, <3>2, <3>3, <4>1 DEF FieldsOf
    <3>4. CASE "app_id" \in DOMAIN r.values /\ "parent" \notin DOMAIN r.values
      <4>1. /\ Len(fields) = 3 /\ DOMAIN fields = 1..3
            /\ fields[3] = Field("app_id")
        BY <3>1, <3>4
      <4> HIDE DEF fields
      <4> QED BY <3>1, <3>2, <3>4, <4>1 DEF FieldsOf
    <3>5. CASE "app_id" \notin DOMAIN r.values /\ "parent" \in DOMAIN r.values
      <4>1. /\ Len(fields) = 3 /\ DOMAIN fields = 1..3
            /\ fields[3] = Field("parent")
        BY <3>1, <3>5
      <4> HIDE DEF fields
      <4> QED BY <3>1, <3>2, <3>5, <4>1 DEF FieldsOf
    <3>6. CASE "app_id" \notin DOMAIN r.values /\ "parent" \notin DOMAIN r.values
      <4>1. Len(fields) = 2 /\ DOMAIN fields = 1..2
        BY <3>1, <3>6
      <4> HIDE DEF fields
      <4> QED BY <3>1, <3>2, <3>6, <4>1 DEF FieldsOf
    <3> QED BY <3>3, <3>4, <3>5, <3>6
  <2>4. CASE r.word = "transition"
    <3>1. /\ {"id", "sender", "state"} \subseteq DOMAIN r.values
          /\ DOMAIN r.values \subseteq {"id", "sender", "state", "app_id"}
          /\ required = <<"id", "sender", "state">>
      BY <2>4, RequestShape DEF IsRequest
    <3>2. fields[1] = Field("id") /\ fields[2] = Field("sender") /\ fields[3] = Field("state")
      BY <3>1
    <3>3. CASE "app_id" \in DOMAIN r.values
      <4>1. /\ Len(fields) = 4 /\ DOMAIN fields = 1..4
            /\ fields[4] = Field("app_id")
        BY <3>1, <3>3
      <4> HIDE DEF fields
      <4> QED BY <3>1, <3>2, <3>3, <4>1 DEF FieldsOf
    <3>4. CASE "app_id" \notin DOMAIN r.values
      <4>1. Len(fields) = 3 /\ DOMAIN fields = 1..3
        BY <3>1, <3>4
      <4> HIDE DEF fields
      <4> QED BY <3>1, <3>2, <3>4, <4>1 DEF FieldsOf
    <3> QED BY <3>3, <3>4
  <2> QED BY <2>1, <2>2, <2>3, <2>4, RequestShape DEF IsRequest
<1> HIDE DEF fields
<1> QED BY <1>1, <1>2

\* What a parser that accepts a line makes of it.
LEMMA ParsedRequest ==
    ASSUME NEW line
    PROVE  \/ ParseRequest(line) = NotAMessage
           \/ /\ line.word \in DOMAIN RequestKeys
              /\ RequiredOfRequest(line.word) \subseteq Keys(line)
              /\ line.word = "transition" => ValueOf(line, "state") \in TargetWord
              /\ ParseRequest(line) = Message(line.word, [key \in Keys(line) |-> ValueOf(line, key)])
              /\ ParseRequest(line) # NotAMessage
<1>1. \A word \in DOMAIN RequestKeys : \A values : Message(word, values) # NotAMessage
  BY RequestShape DEF Message, NotAMessage
<1> QED BY <1>1, Zenon DEF ParseRequest

\* A key that is written once has the value written with it.
LEMMA FoundValue ==
    ASSUME NEW line, NoKeyTwice(line), NEW i \in DOMAIN line.fields
    PROVE  line.fields[i][1] \in Keys(line) /\ ValueOf(line, line.fields[i][1]) = line.fields[i][2]
<1> DEFINE key == line.fields[i][1]
<1>1. PlaceOf(line, key) \in DOMAIN line.fields /\ line.fields[PlaceOf(line, key)][1] = key
  BY DEF PlaceOf
<1>2. PlaceOf(line, key) = i
  BY <1>1 DEF NoKeyTwice
<1> QED BY <1>2 DEF ValueOf, Keys

\* A request that comes through as a whole is understood as it was meant.
LEMMA RequestComesThrough ==
    ASSUME NEW r, IsRequest(r)
    PROVE  ParseRequest(AsLine(r)) = r
<1> DEFINE line == AsLine(r)
<1>1. line.word = r.word /\ FieldsOf(r, line.fields)
  BY WrittenFields
<1> HIDE DEF line
<1>2. NoKeyTwice(line)
  BY <1>1 DEF NoKeyTwice, FieldsOf
<1>3. \A i \in DOMAIN line.fields : ValueOf(line, line.fields[i][1]) = line.fields[i][2]
  BY <1>2, FoundValue
<1>4. Keys(line) = DOMAIN r.values /\ \A key \in DOMAIN r.values : ValueOf(line, key) = r.values[key]
  <2> DEFINE f == line.fields
  <2>1. /\ DOMAIN f = 1..Len(f)
        /\ \A i \in DOMAIN f : f[i][1] \in DOMAIN r.values /\ f[i][2] = r.values[f[i][1]]
        /\ \A key \in DOMAIN r.values : \E i \in DOMAIN f : f[i][1] = key
        /\ \A i \in DOMAIN f : ValueOf(line, f[i][1]) = f[i][2]
    BY <1>1, <1>3 DEF FieldsOf
  <2>2. Keys(line) = {f[i][1] : i \in DOMAIN f}
    BY DEF Keys
  <2> HIDE DEF f
  <2> QED BY <2>1, <2>2
<1>5. [key \in Keys(line) |-> ValueOf(line, key)] = r.values
  BY <1>4 DEF IsRequest
<1>6. ParseRequest(line) = Message(line.word, [key \in Keys(line) |-> ValueOf(line, key)])
  <2>1. line.word \in DOMAIN RequestKeys /\ RequiredOfRequest(line.word) \subseteq Keys(line)
    BY <1>1, <1>4 DEF IsRequest
  <2>2. Keys(line) \subseteq Range(RequestKeys[line.word]) \cup OptionalKeys(line.word)
    BY <1>1, <1>4 DEF IsRequest, RequiredOfRequest
  <2>3. line.word = "transition" => ValueOf(line, "state") \in TargetWord
    BY <1>1, <1>4, RequestShape DEF IsRequest
  <2> QED BY <1>2, <2>1, <2>2, <2>3, Zenon DEF ParseRequest
<1> QED BY <1>1, <1>5, <1>6 DEF IsRequest, line

\* What is left of a line that was cut: some of its fields, the last of them
\* perhaps with another value.
LEMMA CutShape ==
    ASSUME NEW line, NEW cut \in CutLines(line, CutOf), Len(line.fields) \in Nat,
           DOMAIN line.fields = 1..Len(line.fields)
    PROVE  \/ cut.word = "torn"
           \/ /\ cut.word = line.word
              /\ \E n \in 0..Len(line.fields) :
                  /\ DOMAIN cut.fields = 1..n
                  /\ \A i \in 1..n : cut.fields[i][1] = line.fields[i][1]
                  /\ \A i \in 1..n : i < n => cut.fields[i][2] = line.fields[i][2]
                  /\ n > 0 => \/ cut.fields[n][2] = line.fields[n][2]
                              \/ /\ line.fields[n][2] \in DOMAIN CutOf
                                 /\ cut.fields[n][2] \in CutOf[line.fields[n][2]]
<1> DEFINE f == line.fields
           shorter(n) == IF f[n][2] \in DOMAIN CutOf THEN CutOf[f[n][2]] ELSE {}
<1>1. \/ cut = [word |-> "torn", fields |-> <<>>]
      \/ \E n \in 0..Len(f) : cut = UpTo(line, n)
      \/ \E n \in 1..Len(f) : \E value \in shorter(n) : cut = EndingIn(line, n, value)
  BY Zenon DEF CutLines
<1>2. CASE \E n \in 0..Len(f) : cut = UpTo(line, n)
  BY <1>2 DEF UpTo
<1>3. ASSUME NEW n \in 1..Len(f), NEW value \in shorter(n), cut = EndingIn(line, n, value)
      PROVE  /\ cut.word = line.word /\ n \in 0..Len(f) /\ DOMAIN cut.fields = 1..n
             /\ \A i \in 1..n : cut.fields[i][1] = f[i][1]
             /\ \A i \in 1..n : i < n => cut.fields[i][2] = f[i][2]
             /\ f[n][2] \in DOMAIN CutOf /\ cut.fields[n][2] \in CutOf[f[n][2]]
  BY <1>3 DEF EndingIn
<1> HIDE DEF shorter
<1> QED BY <1>1, <1>2, <1>3

\* A line that was cut is understood as no request, or as one for the same
\* thing: only what comes after the required keys can be lost or changed.
LEMMA CutRequest ==
    ASSUME NEW r, IsRequest(r), NEW cut \in CutLines(AsLine(r), CutOf),
           ParseRequest(cut) # NotAMessage
    PROVE  /\ ParseRequest(cut).word = r.word
           /\ r.word \in {"begin", "transition"} =>
                ParseRequest(cut).values["id"] = r.values["id"]
           /\ r.word = "transition" => ParseRequest(cut).values["state"] = r.values["state"]
<1> DEFINE line == AsLine(r)
           f == line.fields
<1>1. line.word = r.word /\ FieldsOf(r, f)
  BY WrittenFields
<1>2. /\ cut.word \in DOMAIN RequestKeys
      /\ RequiredOfRequest(cut.word) \subseteq Keys(cut)
      /\ cut.word = "transition" => ValueOf(cut, "state") \in TargetWord
      /\ ParseRequest(cut) = Message(cut.word, [key \in Keys(cut) |-> ValueOf(cut, key)])
  BY ParsedRequest
<1>3. PICK n \in 0..Len(f) :
        /\ cut.word = r.word
        /\ DOMAIN cut.fields = 1..n
        /\ \A i \in 1..n : cut.fields[i][1] = f[i][1]
        /\ \A i \in 1..n : i < n => cut.fields[i][2] = f[i][2]
        /\ n > 0 => \/ cut.fields[n][2] = f[n][2]
                    \/ f[n][2] \in DOMAIN CutOf /\ cut.fields[n][2] \in CutOf[f[n][2]]
  <2>1. Len(line.fields) \in Nat /\ DOMAIN line.fields = 1..Len(line.fields) /\ cut.word # "torn"
    BY <1>1, <1>2, RequestShape DEF FieldsOf
  <2>2. cut \in CutLines(line, CutOf)
    OBVIOUS
  <2> HIDE DEF line
  <2> QED BY <1>1, <2>1, <2>2, CutShape
<1> HIDE DEF line, f
<1>4. NoKeyTwice(cut)
  <2>1. \A i, j \in 1..Len(f) : f[i][1] = f[j][1] => i = j
    BY <1>1 DEF FieldsOf
  <2> QED BY <1>3, <2>1 DEF NoKeyTwice
<1>5. \A i \in 1..n : cut.fields[i][1] \in Keys(cut) /\ ValueOf(cut, cut.fields[i][1]) = cut.fields[i][2]
  BY <1>3, <1>4, FoundValue
<1>6. \A key \in Keys(cut) : \E i \in 1..n : key = f[i][1]
  <2>1. \A key \in Keys(cut) : \E i \in DOMAIN cut.fields : key = cut.fields[i][1]
    BY DEF Keys
  <2> QED BY <1>3, <2>1
<1>7. /\ Len(f) \in Nat
      /\ \A i, j \in 1..Len(f) : f[i][1] = f[j][1] => i = j
      /\ \A i \in 1..Len(f) : f[i][2] = r.values[f[i][1]]
  BY <1>1 DEF FieldsOf
<1>8. CASE r.word = "begin"
  <2>1. f[1][1] = "id" /\ f[2][1] = "sender" /\ {1, 2} \subseteq 1..Len(f) /\ "sender" \in Keys(cut)
    BY <1>1, <1>2, <1>3, <1>8, RequestShape DEF FieldsOf
  <2>2. n \geq 2
    BY <1>6, <1>7, <2>1
  <2>3. "id" \in Keys(cut) /\ ValueOf(cut, "id") = r.values["id"]
    BY <1>3, <1>5, <1>7, <2>1, <2>2
  <2> QED BY <1>2, <1>3, <1>8, <2>3 DEF Message
<1>9. CASE r.word = "transition"
  <2>1. /\ f[1][1] = "id" /\ f[3][1] = "state" /\ {1, 3} \subseteq 1..Len(f)
        /\ "state" \in Keys(cut)
    BY <1>1, <1>2, <1>3, <1>9, RequestShape DEF FieldsOf
  <2>2. n \geq 3
    BY <1>6, <1>7, <2>1
  <2>3. "id" \in Keys(cut) /\ ValueOf(cut, "id") = r.values["id"]
    BY <1>3, <1>5, <1>7, <2>1, <2>2
  <2>4. f[3][2] = r.values["state"] /\ ValueOf(cut, "state") = cut.fields[3][2]
    BY <1>3, <1>5, <1>7, <2>1, <2>2
  <2>5. ValueOf(cut, "state") \in TargetWord /\ r.values["state"] \in TargetWord
    BY <1>2, <1>3, <1>9 DEF IsRequest
  <2>6. \/ cut.fields[3][2] = f[3][2]
        \/ f[3][2] \in DOMAIN CutOf /\ cut.fields[3][2] \in CutOf[f[3][2]]
    BY <1>3, <2>1, <2>2
  <2>7. ValueOf(cut, "state") = r.values["state"]
    BY <2>4, <2>5, <2>6, WireAssumption
  <2> QED BY <1>2, <1>3, <1>9, <2>1, <2>3, <2>7 DEF Message
<1> QED BY <1>2, <1>3, <1>8, <1>9 DEF Message

-----------------------------------------------------------------------------
(* What garwarpctl asked for, and the line the daemon was given for it. *)

Aimed(ask, line) ==
    /\ IsRequest(ask.request)
    /\ line.verb \in {"malformed", ask.request.word}
    /\ line.verb \in {"begin", "transition"} => line.id = ask.request.values["id"]
    /\ line.verb = "transition" => line.target = ask.request.values["state"]
    /\ ask.whole => line = Classified(ask.request)

LEMMA ClassifiedShape ==
    ASSUME NEW r, r # NotAMessage, r.word \in DOMAIN RequestKeys
    PROVE  /\ Classified(r).verb = r.word
           /\ r.word \in {"inspect", "begin", "transition"} => Classified(r).id = r.values["id"]
           /\ r.word \in {"begin", "transition"} =>
                Classified(r).owner =
                  IF "app_id" \in DOMAIN r.values THEN r.values["app_id"] ELSE NoApp
           /\ r.word = "begin" =>
                Classified(r).parent =
                  IF "parent" \in DOMAIN r.values THEN r.values["parent"] ELSE NoParent
           /\ r.word = "transition" => Classified(r).target = r.values["state"]
<1>1. CASE r.word \in {"status", "stop", "list"}
  BY <1>1 DEF Classified
<1>2. CASE r.word = "inspect"
  BY <1>2 DEF Classified
<1>3. CASE r.word = "begin"
  BY <1>3 DEF Classified
<1>4. CASE r.word = "transition"
  BY <1>4 DEF Classified
<1> QED BY <1>1, <1>2, <1>3, <1>4, RequestShape

\* Every line that can come of a command is aimed at what the command is.
LEMMA AttemptsAimed ==
    ASSUME NEW attempt \in Attempts
    PROVE  Aimed(attempt, attempt.line)
<1>1. PICK r \in Requests : attempt \in {Attempt(r, line) : line \in Written(r)}
  BY DEF Attempts
<1>2. IsRequest(r) /\ r # NotAMessage
  BY CommandIsRequest DEF Requests
<1>3. PICK line \in Written(r) : attempt = Attempt(r, line)
  BY <1>1
<1>4. /\ attempt.request = r /\ attempt.line = Classified(ParseRequest(line))
      /\ attempt.whole <=> line = AsLine(r)
  BY <1>3 DEF Attempt
<1>5. CASE ParseRequest(line) = NotAMessage
  <2>1. Classified(NotAMessage) = [verb |-> "malformed"]
    BY DEF Classified, NotAMessage
  <2>2. attempt.line = [verb |-> "malformed"] /\ ~attempt.whole
    BY <1>2, <1>4, <1>5, <2>1, RequestComesThrough
  <2> QED BY <1>2, <1>4, <2>2 DEF Aimed
<1>6. CASE line = AsLine(r)
  <2>1. ParseRequest(line) = r
    BY <1>2, <1>6, RequestComesThrough
  <2>2. attempt.line = Classified(r)
    BY <1>4, <2>1
  <2> QED BY <1>2, <1>4, <2>1, <2>2, ClassifiedShape DEF Aimed, IsRequest
<1>7. CASE line # AsLine(r) /\ ParseRequest(line) # NotAMessage
  <2> DEFINE parsed == ParseRequest(line)
  <2>1. /\ parsed.word = r.word
        /\ r.word \in {"begin", "transition"} => parsed.values["id"] = r.values["id"]
        /\ r.word = "transition" => parsed.values["state"] = r.values["state"]
    <3>1. line \in CutLines(AsLine(r), CutOf)
      BY <1>7 DEF Written
    <3> QED BY <1>2, <1>7, <3>1, CutRequest
  <2>2. parsed # NotAMessage /\ attempt.line = Classified(parsed)
    BY <1>4, <1>7
  <2> HIDE DEF parsed
  <2> QED BY <1>2, <1>4, <1>7, <2>1, <2>2, ClassifiedShape DEF Aimed, IsRequest
<1> QED BY <1>5, <1>6, <1>7

-----------------------------------------------------------------------------
(* Connections.  Who waits, waits once; who is served does not wait; and    *)
(* nobody is at the other end of a connection that does neither.            *)

QueueOk ==
    /\ \A i, j \in DOMAIN backlog : backlog[i] = backlog[j] => i = j
    /\ serving \notin Waiting
    /\ serving # NoConn => pc = "read"
    /\ \A c \in Conn : client[c].open => InUse(c)

\* What a step does to the connections.
SameQueue == UNCHANGED <<client, backlog, serving>> /\ (pc = "read" => pc' = "read")
AllLost == client' = [c \in Conn |-> Idle] /\ backlog' = <<>> /\ serving' = NoConn
OneServed == pc = "read" /\ Drop /\ UNCHANGED backlog
OneConnects(c) ==
    /\ ~InUse(c) /\ backlog' = Append(backlog, c) /\ UNCHANGED <<serving, pc>>
    /\ client'[c].line = NoLine
    /\ \A d \in Conn \ {c} : client'[d] = client[d]
OneTalks(c) ==
    /\ client[c].open /\ UNCHANGED <<backlog, serving, pc>>
    /\ \A d \in Conn : client'[d].open => client[d].open
    /\ \A d \in Conn : client'[d].line = client[d].line \/ client[d].line = NoLine
    /\ \A d \in Conn \ {c} : client'[d] = client[d]

LEMMA ServeDrops == ASSUME Serve PROVE OneServed
BY DEF Serve, RefusePeer, ReadError, SenderUnknown, Malformed, Status, Stop, ListRequests,
       InspectRequest, BeginRequest, TransitionRequest, Reading, Respond, OneServed

LEMMA ConnectionSteps ==
    ASSUME WellFormed, [Next]_vars
    PROVE  \/ SameQueue \/ AllLost \/ OneServed \/ Accept
           \/ \E c \in Conn : OneConnects(c) \/ OneTalks(c)
<1>1. CASE BootFromStore \/ BootWithoutStore \/ BootPersist \/ Expire \/ Prune \/ AcceptNothing
           \/ PersistAfterReply \/ Tick \/ DamageStore \/ UNCHANGED vars
  BY <1>1 DEF BootFromStore, BootWithoutStore, BootPersist, Expire, Prune, AcceptNothing,
              PersistAfterReply, Tick, DamageStore, vars, wire, SameQueue, Up
<1>2. CASE Exit \/ Crash
  BY <1>2 DEF Exit, Crash, MemoryLost, AllLost
<1>3. CASE Serve
  BY <1>3, ServeDrops
<1>4. CASE Connect
  <2>1. PICK c \in Conn, peer \in Peer :
          /\ ~InUse(c) /\ UNCHANGED <<serving, pc>>
          /\ client' = [client EXCEPT ![c] = [peer |-> peer, line |-> NoLine, open |-> TRUE]]
          /\ backlog' = Append(backlog, c)
    BY <1>4 DEF Connect
  <2>2. client'[c].line = NoLine /\ \A d \in Conn \ {c} : client'[d] = client[d]
    BY <2>1 DEF WellFormed, TypeOK
  <2> QED BY <2>1, <2>2 DEF OneConnects
<1>5. ASSUME NEW c \in Conn, Send(c) \/ HangUp(c) PROVE OneTalks(c)
  <2>1. client[c].open /\ UNCHANGED <<backlog, serving, pc>>
    BY <1>5 DEF Send, HangUp, Undecided
  <2>2. /\ \A d \in Conn : client'[d].open => client[d].open
        /\ \A d \in Conn : client'[d].line = client[d].line \/ client[d].line = NoLine
        /\ \A d \in Conn \ {c} : client'[d] = client[d]
    <3>1. \/ client[c].line = NoLine /\ \E line \in Line : client' = [client EXCEPT ![c].line = line]
          \/ client' = [client EXCEPT ![c].open = FALSE]
      BY <1>5 DEF Send, HangUp, Undecided
    <3> QED BY <2>1, <3>1 DEF WellFormed, TypeOK
  <2> QED BY <2>1, <2>2 DEF OneTalks
<1> QED BY <1>1, <1>2, <1>3, <1>4, <1>5 DEF Next, DaemonStep, Environment, Boot

LEMMA StepQueueOk == ASSUME WellFormed, QueueOk, [Next]_vars PROVE QueueOk'
<1> USE DEF QueueOk
<1>0. backlog \in Seq(Conn) /\ serving \in Conn \cup {NoConn} /\ NoConn \notin Conn
      /\ client \in [Conn -> [peer : PeerKind, line : Line \cup {NoLine}, open : BOOLEAN]]
  BY ControlAssumption DEF WellFormed, TypeOK
<1>1. CASE SameQueue
  BY <1>1 DEF SameQueue, Waiting, InUse
<1>2. CASE AllLost
  BY <1>2 DEF AllLost, Waiting, InUse, Idle
<1>3. CASE OneServed
  <2>1. serving \in Conn
    BY <1>3 DEF OneServed, WellFormed, Attending
  <2>2. /\ serving' = NoConn /\ Waiting' = Waiting /\ backlog' = backlog
        /\ \A c \in Conn : client'[c].open => client[c].open /\ c # serving
    BY <1>0, <1>3, <2>1 DEF OneServed, Drop, Waiting, Idle
  <2>3. NoConn \notin Waiting
    BY <1>0 DEF Waiting
  <2> QED BY <2>1, <2>2, <2>3 DEF InUse
<1>4. CASE Accept
  <2>1. /\ backlog # <<>> /\ serving' = Head(backlog) /\ backlog' = Tail(backlog) /\ pc' = "read"
        /\ client' = client /\ pc = "accept"
    BY <1>4 DEF Accept
  <2>2. /\ DOMAIN backlog = 1..Len(backlog) /\ DOMAIN backlog' = 1..(Len(backlog) - 1)
        /\ \A i \in DOMAIN backlog' : backlog'[i] = backlog[i + 1]
        /\ serving' = backlog[1] /\ Len(backlog) \in Nat /\ Len(backlog) > 0
    BY <1>0, <2>1
  <2>3. \A c \in Waiting : c \in Waiting' \/ c = serving'
    <3>1. \A i \in DOMAIN backlog : i = 1 \/ (i - 1 \in DOMAIN backlog' /\ backlog'[i - 1] = backlog[i])
      BY <2>2
    <3> QED BY <2>2, <3>1 DEF Waiting
  <2>4. serving' \notin Waiting'
    BY <2>2 DEF Waiting
  <2>5. \A i, j \in DOMAIN backlog' : backlog'[i] = backlog'[j] => i = j
    BY <2>2
  <2>6. \A c \in Conn : client'[c].open => InUse(c)'
    <3>1. serving = NoConn
      BY <2>1
    <3> QED BY <1>0, <2>1, <2>3, <3>1 DEF InUse
  <2> QED BY <2>1, <2>4, <2>5, <2>6
<1>5. ASSUME NEW c \in Conn, OneConnects(c) PROVE QueueOk'
  <2>1. /\ DOMAIN backlog = 1..Len(backlog) /\ DOMAIN backlog' = 1..(Len(backlog) + 1)
        /\ \A i \in DOMAIN backlog : backlog'[i] = backlog[i]
        /\ backlog'[Len(backlog) + 1] = c /\ Len(backlog) \in Nat
    BY <1>0, <1>5 DEF OneConnects
  <2>2. Waiting' = Waiting \cup {c}
    <3>1. \A d \in Waiting : d \in Waiting'
      BY <2>1 DEF Waiting
    <3>2. c \in Waiting'
      BY <2>1 DEF Waiting
    <3>3. \A d \in Waiting' : d \in Waiting \cup {c}
      <4>1. \A i \in DOMAIN backlog' : i \in DOMAIN backlog \/ i = Len(backlog) + 1
        BY <2>1
      <4> QED BY <2>1, <4>1 DEF Waiting
    <3> QED BY <3>1, <3>2, <3>3
  <2>3. \A i \in DOMAIN backlog : backlog[i] # c
    BY <1>5 DEF OneConnects, InUse, Waiting
  <2>4. \A i, j \in DOMAIN backlog' : backlog'[i] = backlog'[j] => i = j
    BY <2>1, <2>3
  <2>5. serving' \notin Waiting' /\ (serving' # NoConn => pc' = "read")
    BY <1>0, <1>5, <2>2 DEF OneConnects, InUse
  <2>6. \A d \in Conn : client'[d].open => d \in Waiting' \/ d = serving'
    BY <1>5, <2>2 DEF OneConnects, InUse
  <2> QED BY <2>4, <2>5, <2>6 DEF InUse
<1>6. ASSUME NEW c \in Conn, OneTalks(c) PROVE QueueOk'
  BY <1>6 DEF OneTalks, InUse, Waiting
<1> QED BY <1>1, <1>2, <1>3, <1>4, <1>5, <1>6, ConnectionSteps

-----------------------------------------------------------------------------
(* The invariant of ControlWire: a line in service is aimed at what its     *)
(* client was asked for.                                                   *)

Wired ==
    /\ asked = [c \in Conn |-> asked[c]]
    /\ \A c \in Conn : asked[c] # NoRequest => InUse(c) /\ Aimed(asked[c], client[c].line)

WireOk == WellFormed /\ QueueOk /\ Wired

LEMMA WireStep == [WNext]_wvars => [Next]_vars
BY DEF WNext, Else, Ask, wvars, Next, Environment

LEMMA AimedIsWritten ==
    ASSUME NEW ask, NEW line, Aimed(ask, line)
    PROVE  line # NoLine
BY RequestShape DEF Aimed, IsRequest, NoLine

LEMMA StepWired == ASSUME WireOk, [WNext]_wvars PROVE Wired'
<1> USE DEF WireOk
<1>1. [Next]_vars
  BY WireStep
<1>2. CASE Else
  <2>1. asked' = [c \in Conn |-> IF InUse(c)' THEN asked[c] ELSE NoRequest]
    BY <1>2 DEF Else
  <2>2. SUFFICES ASSUME NEW c \in Conn, InUse(c)', asked[c] # NoRequest
                 PROVE  client'[c].line = client[c].line
    <3>1. \A c \in Conn : asked'[c] # NoRequest => /\ InUse(c)' /\ asked'[c] = asked[c]
                                                   /\ Aimed(asked[c], client[c].line)
      BY <2>1 DEF Wired
    <3>2. asked' = [c \in Conn |-> asked'[c]]
      BY <2>1
    <3>3. \A c \in Conn : asked'[c] # NoRequest => Aimed(asked'[c], client'[c].line)
      BY <2>1, <2>2, <3>1
    <3> QED BY <3>1, <3>2, <3>3 DEF Wired
  <2>3. InUse(c) /\ client[c].line # NoLine
    BY <2>2, AimedIsWritten DEF Wired
  <2>4. CASE SameQueue
    BY <2>4 DEF SameQueue
  <2>5. CASE AllLost
    BY <2>2, <2>5, ControlAssumption DEF AllLost, InUse, Waiting
  <2>6. CASE OneServed
    <3>1. Waiting' = Waiting /\ serving' = NoConn /\ c # NoConn
      BY <2>6, ControlAssumption DEF OneServed, Drop, Waiting
    <3>2. c # serving
      BY <2>2, <3>1 DEF QueueOk, InUse
    <3> QED BY <2>6, <3>2 DEF OneServed, Drop, WellFormed, TypeOK
  <2>7. CASE Accept
    BY <2>7 DEF Accept
  <2>8. CASE \E d \in Conn : OneConnects(d) \/ OneTalks(d)
    BY <2>3, <2>8 DEF OneConnects, OneTalks
  <2> QED BY <1>1, <2>4, <2>5, <2>6, <2>7, <2>8, ConnectionSteps
<1>3. ASSUME NEW c \in Conn, Ask(c) PROVE Wired'
  <2>1. PICK attempt \in Attempts :
          /\ Send(c)
          /\ client'[c].line = attempt.line
          /\ asked' = [asked EXCEPT ![c] = [request |-> attempt.request, whole |-> attempt.whole]]
    BY <1>3 DEF Ask
  <2>2. Aimed(attempt, attempt.line)
    BY AttemptsAimed
  <2>3. /\ client[c].open /\ UNCHANGED <<backlog, serving>>
        /\ \A d \in Conn \ {c} : client'[d] = client[d]
    BY <2>1 DEF Send, Undecided, WellFormed, TypeOK
  <2>4. InUse(c) /\ \A d \in Conn : InUse(d)' <=> InUse(d)
    BY <2>3 DEF QueueOk, InUse, Waiting
  <2>5. /\ asked' = [d \in Conn |-> asked'[d]]
        /\ asked'[c] = [request |-> attempt.request, whole |-> attempt.whole]
        /\ \A d \in Conn \ {c} : asked'[d] = asked[d]
    BY <2>1 DEF Wired
  <2>6. Aimed(asked'[c], client'[c].line)
    BY <2>1, <2>2, <2>5 DEF Aimed
  <2> QED BY <2>3, <2>4, <2>5, <2>6 DEF Wired
<1>4. CASE UNCHANGED wvars
  BY <1>4 DEF wvars, vars, wire, Wired, InUse, Waiting
<1> QED BY <1>2, <1>3, <1>4 DEF WNext

LEMMA AlwaysWired == WireSpec => []WireOk
<1>1. WInit => WireOk
  <2> SUFFICES ASSUME WInit PROVE WireOk
    OBVIOUS
  <2>1. WellFormed
    BY InitWellFormed DEF WInit
  <2>2. QueueOk
    BY DEF WInit, Init, QueueOk, Waiting, Idle
  <2>3. Wired
    BY DEF WInit, Wired
  <2> QED BY <2>1, <2>2, <2>3 DEF WireOk
<1>2. WireOk /\ [WNext]_wvars => WireOk'
  BY WireStep, StepWellFormed, StepQueueOk, StepWired DEF WireOk
<1> QED BY <1>1, <1>2, PTL DEF WireSpec

\* A daemon whose clients are garwarpctl is the daemon: what is proved of it
\* for any lines holds for theirs.
THEOREM WireIsDaemon == WireSpec => Spec
BY WireStep, PTL DEF WireSpec, Spec, WInit

\* No user of garwarpctl is misled (daemon.rs, handle_connection).
THEOREM NobodyMisledOnTheWire == WireSpec => []ToldNotContradicted
BY WireIsDaemon, NobodyMisled

-----------------------------------------------------------------------------
(* Responses on the wire. *)

LEMMA ResponseShape ==
    /\ DOMAIN ResponseKeys = {"status", "ack_stopping", "list", "ack_request", "snapshot", "error"}
    /\ \A word \in DOMAIN ResponseKeys : \A i, j \in DOMAIN ResponseKeys[word] :
         ResponseKeys[word][i] = ResponseKeys[word][j] => i = j
    /\ Range(ResponseKeys["status"]) = {"protocol", "health", "in_flight", "total", "terminal"}
    /\ Range(ResponseKeys["list"]) = {"ids"}
    /\ Range(ResponseKeys["ack_request"]) = {"id", "state"}
    /\ Range(ResponseKeys["snapshot"]) = {"id", "state", "sender", "app_id", "parent"}
    /\ Range(ResponseKeys["error"]) = {"code", "reason"}
<1>1. /\ DOMAIN ResponseKeys = {"status", "ack_stopping", "list", "ack_request", "snapshot", "error"}
      /\ ResponseKeys["status"] = <<"protocol", "health", "in_flight", "total", "terminal">>
      /\ ResponseKeys["ack_stopping"] = <<>>
      /\ ResponseKeys["list"] = <<"ids">>
      /\ ResponseKeys["ack_request"] = <<"id", "state">>
      /\ ResponseKeys["snapshot"] = <<"id", "state", "sender", "app_id", "parent">>
      /\ ResponseKeys["error"] = <<"code", "reason">>
  BY DEF ResponseKeys
<1>2. Range(ResponseKeys["status"]) = {"protocol", "health", "in_flight", "total", "terminal"}
  BY <1>1 DEF Range
<1>3. Range(ResponseKeys["snapshot"]) = {"id", "state", "sender", "app_id", "parent"}
  BY <1>1 DEF Range
<1>4. /\ Range(ResponseKeys["list"]) = {"ids"}
      /\ Range(ResponseKeys["ack_request"]) = {"id", "state"}
      /\ Range(ResponseKeys["error"]) = {"code", "reason"}
  BY <1>1 DEF Range
<1>5. \A word \in DOMAIN ResponseKeys : \A i, j \in DOMAIN ResponseKeys[word] :
        ResponseKeys[word][i] = ResponseKeys[word][j] => i = j
  <2>1. \A i, j \in DOMAIN ResponseKeys["status"] :
          ResponseKeys["status"][i] = ResponseKeys["status"][j] => i = j
    BY <1>1
  <2>2. \A i, j \in DOMAIN ResponseKeys["snapshot"] :
          ResponseKeys["snapshot"][i] = ResponseKeys["snapshot"][j] => i = j
    BY <1>1
  <2>3. \A word \in {"ack_stopping", "list", "ack_request", "error"} :
          \A i, j \in DOMAIN ResponseKeys[word] :
            ResponseKeys[word][i] = ResponseKeys[word][j] => i = j
    BY <1>1
  <2> QED BY <1>1, <2>1, <2>2, <2>3
<1> QED BY <1>1, <1>2, <1>3, <1>4, <1>5

\* What the daemon answers: every key it must have, and no value that is a
\* dash where a dash stands for none.
IsResponse(word, values) ==
    /\ word \in DOMAIN ResponseKeys \ {"ack_stopping"}
    /\ values = [key \in DOMAIN values |-> values[key]]
    /\ Range(ResponseKeys[word]) \ NoneIsDash \subseteq DOMAIN values
    /\ DOMAIN values \subseteq Range(ResponseKeys[word])
    /\ \A key \in DOMAIN values \cap NoneIsDash : values[key] # Dash /\ (key = "ids" => values[key] # {Dash})

\* A response is understood as it was meant.
LEMMA ResponseComesThrough ==
    ASSUME NEW word, NEW values, IsResponse(word, values)
    PROVE  ParseResponse(ToLine(Message(word, values))) = Message(word, values)
<1> DEFINE keys == ResponseKeys[word]
           Text(key) ==
             IF key \notin DOMAIN values THEN Dash
             ELSE IF key = "ids" /\ values[key] = {Dash} THEN Dash
             ELSE values[key]
           line == ToLine(Message(word, values))
<1>1. line = [word |-> word, fields |-> [i \in DOMAIN keys |-> <<keys[i], Text(keys[i])>>]]
  BY DEF ToLine, Message
<1>2. /\ line.word = word /\ DOMAIN line.fields = DOMAIN keys
      /\ \A i \in DOMAIN keys : line.fields[i][1] = keys[i] /\ line.fields[i][2] = Text(keys[i])
  BY <1>1
<1> HIDE DEF line, Text
<1>3. NoKeyTwice(line)
  BY <1>2, ResponseShape DEF NoKeyTwice, IsResponse
<1>4. Keys(line) = Range(keys)
  BY <1>2 DEF Keys, Range
<1>5. \A key \in Keys(line) : ValueOf(line, key) = Text(key)
  <2>1. \A i \in DOMAIN keys : ValueOf(line, keys[i]) = Text(keys[i])
    BY <1>2, <1>3, FoundValue
  <2> QED BY <1>4, <2>1 DEF Range
<1>6. /\ \A key \in DOMAIN values : /\ key \in Keys(line) /\ Text(key) = values[key]
                                    /\ ~(key \in NoneIsDash /\ Text(key) = Dash)
      /\ \A key \in Keys(line) \ DOMAIN values : key \in NoneIsDash /\ Text(key) = Dash
  BY <1>4 DEF Text, IsResponse, NoneIsDash
<1>7. {key \in Keys(line) : ~(key \in NoneIsDash /\ ValueOf(line, key) = Dash)} = DOMAIN values
  BY <1>5, <1>6
<1>8. [key \in {k \in Keys(line) : ~(k \in NoneIsDash /\ ValueOf(line, k) = Dash)}
         |-> ValueOf(line, key)] = values
  <2>1. [key \in DOMAIN values |-> ValueOf(line, key)] = [key \in DOMAIN values |-> values[key]]
    BY <1>5, <1>6
  <2> QED BY <1>7, <2>1 DEF IsResponse
<1>9. word # "ack_stopping" /\ word \in DOMAIN ResponseKeys /\ RequiredOfResponse(word) \subseteq Keys(line)
  BY <1>4 DEF IsResponse, RequiredOfResponse
<1> QED BY <1>2, <1>3, <1>4, <1>8, <1>9, Zenon DEF ParseResponse, line

SnapshotValues(id, r) ==
    LET all == [id |-> id, state |-> r.state, sender |-> "uid", app_id |-> r.owner, parent |-> r.parent]
        none == {key \in {"app_id", "parent"} : all[key] \in {NoApp, NoParent}}
    IN Keep(all, DOMAIN all \ none)

LEMMA SnapshotIsResponse ==
    ASSUME NEW id, NEW r \in RequestRecord
    PROVE  IsResponse("snapshot", SnapshotValues(id, r))
<1> DEFINE all == [id |-> id, state |-> r.state, sender |-> "uid", app_id |-> r.owner, parent |-> r.parent]
           none == {key \in {"app_id", "parent"} : all[key] \in {NoApp, NoParent}}
           values == SnapshotValues(id, r)
<1>1. DOMAIN all = {"id", "state", "sender", "app_id", "parent"} /\ none \subseteq {"app_id", "parent"}
  OBVIOUS
<1>2. all["app_id"] # Dash /\ all["parent"] # Dash
  BY WireAssumption DEF RequestRecord
<1>3. /\ DOMAIN values = DOMAIN all \ none
      /\ values = [key \in DOMAIN values |-> values[key]]
      /\ \A key \in DOMAIN values : values[key] = all[key]
  BY DEF SnapshotValues, Keep
<1> HIDE DEF all, none, values
<1>4. Range(ResponseKeys["snapshot"]) = {"id", "state", "sender", "app_id", "parent"}
  BY ResponseShape
<1>5. \A key \in DOMAIN values \cap NoneIsDash : values[key] # Dash /\ key # "ids"
  BY <1>1, <1>2, <1>3 DEF NoneIsDash
<1>6. IsResponse("snapshot", values)
  BY <1>1, <1>3, <1>4, <1>5, ResponseShape DEF IsResponse, NoneIsDash
<1> QED BY <1>6 DEF values

\* garwarpctl reads what the daemon meant, save that it takes a list of the
\* one id that is a dash for an empty one.
Understood(body) == ParseResponse(ToLine(Response(body)))

LEMMA AnswerIsUnderstood ==
    ASSUME NEW body \in Reply, body.kind # "none"
    PROVE  IF body.kind = "list" /\ body.ids = {Dash}
             THEN Understood(body) = Message("list", NoValues)
             ELSE Understood(body) = Response(body)
<1> USE DEF Understood
<1>1. CASE body.kind = "status"
  <2> DEFINE values == [protocol |-> 1, health |-> body.health,
                        in_flight |-> Cardinality(body.in_flight),
                        total |-> Cardinality(body.total),
                        terminal |-> Cardinality(body.terminal)]
  <2>1. Response(body) = Message("status", values)
    BY <1>1 DEF Response
  <2>2. IsResponse("status", values)
    BY ResponseShape DEF IsResponse, NoneIsDash
  <2> HIDE DEF values
  <2> QED BY <1>1, <2>1, <2>2, ResponseComesThrough
<1>2. CASE body.kind = "ack_stopping"
  <2>1. Response(body) = Message("ack_stopping", NoValues)
    BY <1>2 DEF Response
  <2>2. ToLine(Message("ack_stopping", NoValues)).word = "ack_stopping"
    BY DEF ToLine, Message
  <2> QED BY <1>2, <2>1, <2>2 DEF ParseResponse
<1>3. CASE body.kind = "list" /\ body.ids = {}
  <2>1. Response(body) = Message("list", NoValues)
    BY <1>3 DEF Response
  <2>2. IsResponse("list", NoValues)
    BY ResponseShape DEF IsResponse, NoneIsDash, NoValues
  <2> QED BY <1>3, <2>1, <2>2, ResponseComesThrough
<1>4. CASE body.kind = "list" /\ body.ids # {} /\ body.ids # {Dash}
  <2>1. Response(body) = Message("list", [ids |-> body.ids])
    BY <1>4 DEF Response
  <2>2. body.ids # Dash
    BY <1>4, WireAssumption DEF Reply
  <2>3. IsResponse("list", [ids |-> body.ids])
    BY <1>4, <2>2, ResponseShape DEF IsResponse, NoneIsDash
  <2> QED BY <1>4, <2>1, <2>3, ResponseComesThrough
<1>5. CASE body.kind = "list" /\ body.ids = {Dash}
  <2>1. Response(body) = Message("list", [ids |-> {Dash}])
    BY <1>5 DEF Response
  <2>2. /\ ToLine(Message("list", [ids |-> {Dash}])) = ToLine(Message("list", NoValues))
    BY DEF ToLine, Message, NoValues, ResponseKeys
  <2>3. IsResponse("list", NoValues)
    BY ResponseShape DEF IsResponse, NoneIsDash, NoValues
  <2> QED BY <1>5, <2>1, <2>2, <2>3, ResponseComesThrough
<1>6. CASE body.kind = "ack"
  <2>1. Response(body) = Message("ack_request", [id |-> body.id, state |-> body.state])
    BY <1>6 DEF Response
  <2>2. IsResponse("ack_request", [id |-> body.id, state |-> body.state])
    BY ResponseShape DEF IsResponse, NoneIsDash
  <2> QED BY <1>6, <2>1, <2>2, ResponseComesThrough
<1>7. CASE body.kind = "snapshot"
  <2>1. Response(body) = Message("snapshot", SnapshotValues(body.id, body.record))
    BY <1>7 DEF Response, Snapshot, SnapshotValues
  <2>2. body.record \in RequestRecord
    BY <1>7 DEF Reply
  <2> QED BY <1>7, <2>1, <2>2, SnapshotIsResponse, ResponseComesThrough
<1>8. CASE body.kind = "error"
  <2>1. Response(body) = Message("error", [code |-> 2, reason |-> body.reason])
    BY <1>8 DEF Response
  <2>2. IsResponse("error", [code |-> 2, reason |-> body.reason])
    BY ResponseShape DEF IsResponse, NoneIsDash
  <2> QED BY <1>8, <2>1, <2>2, ResponseComesThrough
<1> QED BY <1>1, <1>2, <1>3, <1>4, <1>5, <1>6, <1>7, <1>8 DEF Reply

-----------------------------------------------------------------------------
(* What a handler does to the registry, and what it answers for it. *)

\* Nothing, or one request is begun or moved: the one the line names.
Changed(line) ==
    \/ UNCHANGED entries
    \/ /\ line.verb \in {"begin", "transition"}
       /\ DOMAIN entries' = DOMAIN entries \cup {line.id}
       /\ \A i \in DOMAIN entries \ {line.id} : entries'[i] = entries[i]
       /\ entries'[line.id].state = IF line.verb = "begin" THEN "pending" ELSE line.target

\* The answer fits the line, and is true of the registry it leaves.
Fits(line, body) ==
    \/ body.kind = "error" /\ UNCHANGED memory
    \/ line.verb = "status" /\ body.kind = "status" /\ body.total = DOMAIN entries
    \/ line.verb = "stop" /\ body.kind = "ack_stopping" /\ ~running'
    \/ line.verb = "list" /\ body.kind = "list" /\ body.ids = DOMAIN entries
    \/ /\ line.verb = "inspect" /\ body.kind = "snapshot"
       /\ body.id = line.id /\ body.record = Record(entries[line.id])
    \/ /\ line.verb = "begin" /\ body.kind = "ack" /\ body.id = line.id
       /\ Record(entries'[line.id]) =
            [owner |-> line.owner, parent |-> line.parent, state |-> body.state]
    \/ /\ line.verb = "transition" /\ body.kind = "ack"
       /\ entries'[line.id].owner = line.owner /\ entries'[line.id].state = line.target

Did(line) == Changed(line) /\ (reply = NoReply /\ reply' # NoReply => Fits(line, reply'.body))

LEMMA ResponseReplies ==
    ASSUME NEW line, NEW body, NEW facts, Respond(body, facts), Fits(line, body), Changed(line)
    PROVE  Did(line)
<1>1. reply = NoReply /\ reply' # NoReply => reply'.body = body
  BY DEF Respond
<1> QED BY <1>1 DEF Did

LEMMA BeginDid == ASSUME WellFormed, BeginRequest PROVE Did(client[serving].line)
<1> DEFINE line == client[serving].line
           fact(state) == [owner |-> line.owner, parent |-> line.parent, state |-> state]
<1>1. line.verb = "begin" /\ line \in Line \cup {NoLine} /\ health' = health /\ running' = running
  BY ServingLine DEF BeginRequest, Reading
<1>2. IsIdMap(entries, RequestEntry)
  BY DEF WellFormed, TypeOK
<1>3. CASE /\ BeginOutcome(line) = "begun"
           /\ entries' = Begin(entries, line.id, line.owner, line.parent)
           /\ Respond(Ack(line.id, "pending"), Fact(line.id, fact("pending")))
  <2>1. /\ DOMAIN entries' = DOMAIN entries \cup {line.id}
        /\ entries'[line.id] = NewEntry(line.owner, line.parent)
        /\ \A i \in DOMAIN entries \ {line.id} : entries'[i] = entries[i]
    BY <1>3 DEF Begin, Put
  <2>2. entries'[line.id].state = "pending" /\ Record(entries'[line.id]) = fact("pending")
    BY <2>1 DEF NewEntry, Record
  <2>3. Fits(line, Ack(line.id, "pending"))
    BY <1>1, <2>2 DEF Fits, Ack
  <2>4. Changed(line)
    BY <1>1, <2>1, <2>2 DEF Changed
  <2> QED BY <1>3, <2>3, <2>4, ResponseReplies
<1>4. CASE /\ BeginOutcome(line) = "known"
           /\ UNCHANGED entries
           /\ Respond(Ack(line.id, entries[line.id].state),
                      Fact(line.id, fact(entries[line.id].state)))
  <2>1. Record(entries'[line.id]) = fact(entries[line.id].state)
    BY <1>1, <1>4, BeginOutcomeShape DEF Record
  <2>2. Fits(line, Ack(line.id, entries[line.id].state))
    BY <1>1, <2>1 DEF Fits, Ack
  <2> QED BY <1>4, <2>2, ResponseReplies DEF Changed
<1>5. CASE /\ BeginOutcome(line) \notin {"begun", "known"}
           /\ UNCHANGED entries
           /\ Respond(Error(BeginOutcome(line)), Empty)
  <2>1. Fits(line, Error(BeginOutcome(line)))
    BY <1>1, <1>5 DEF Fits, Error, memory
  <2> QED BY <1>5, <2>1, ResponseReplies DEF Changed
<1> QED BY <1>3, <1>4, <1>5 DEF BeginRequest

LEMMA TransitionDid == ASSUME WellFormed, TransitionRequest PROVE Did(client[serving].line)
<1> DEFINE line == client[serving].line
           fact == [owner |-> line.owner, state |-> line.target,
                    parent |-> entries[line.id].parent]
<1>1. /\ line.verb = "transition" /\ line \in Line \cup {NoLine}
      /\ health' = health /\ running' = running
  BY ServingLine DEF TransitionRequest, Reading
<1>2. IsIdMap(entries, RequestEntry)
  BY DEF WellFormed, TypeOK
<1>3. CASE /\ TransitionOutcome(line) = "ok"
           /\ entries' = Transition(entries, line.id, line.target)
           /\ Respond(Ack(line.id, line.target), Fact(line.id, fact))
  <2>1. /\ line.target \in RequestState /\ line.id \in DOMAIN entries
        /\ entries[line.id].owner = line.owner
    BY <1>1, <1>3, TransitionOutcomeShape
  <2>2. /\ DOMAIN entries' = DOMAIN entries
        /\ entries'[line.id] = Touch(entries[line.id], line.target)
        /\ \A i \in DOMAIN entries \ {line.id} : entries'[i] = entries[i]
    BY <1>2, <1>3, <2>1, TransitionType
  <2>3. entries'[line.id].owner = line.owner /\ entries'[line.id].state = line.target
    BY <2>1, <2>2 DEF Touch
  <2>4. Fits(line, Ack(line.id, line.target))
    BY <1>1, <2>3 DEF Fits, Ack
  <2>5. Changed(line)
    BY <1>1, <2>1, <2>2, <2>3 DEF Changed
  <2> QED BY <1>3, <2>4, <2>5, ResponseReplies
<1>4. CASE /\ TransitionOutcome(line) # "ok"
           /\ UNCHANGED entries
           /\ Respond(Error(ErrorReason(TransitionOutcome(line))), Empty)
  <2>1. Fits(line, Error(ErrorReason(TransitionOutcome(line))))
    BY <1>1, <1>4 DEF Fits, Error, memory
  <2> QED BY <1>4, <2>1, ResponseReplies DEF Changed
<1> QED BY <1>3, <1>4 DEF TransitionRequest

LEMMA HandlersDid == ASSUME WellFormed, Serve PROVE Did(client[serving].line)
<1> DEFINE line == client[serving].line
<1>1. \A reason : UNCHANGED memory => Changed(line) /\ Fits(line, Error(reason))
  BY DEF Changed, Fits, Error, memory
<1>2. CASE RefusePeer
  BY <1>1, <1>2, ResponseReplies DEF RefusePeer
<1>3. CASE ReadError
  BY <1>3 DEF ReadError, Did, Changed, memory
<1>4. CASE SenderUnknown
  BY <1>1, <1>4, ResponseReplies DEF SenderUnknown
<1>5. CASE Malformed
  BY <1>1, <1>5, ResponseReplies DEF Malformed
<1>6. CASE Status
  <2> DEFINE body == [kind |-> "status", health |-> health,
                      in_flight |-> InFlightIds(entries), total |-> DOMAIN entries,
                      terminal |-> TerminalIds(entries)]
  <2>1. Changed(line) /\ Fits(line, body)
    BY <1>6 DEF Status, Reading, Changed, Fits, memory
  <2> QED BY <1>6, <2>1, ResponseReplies DEF Status
<1>7. CASE Stop
  <2>1. Changed(line) /\ Fits(line, [kind |-> "ack_stopping"])
    BY <1>7 DEF Stop, Reading, Changed, Fits
  <2> QED BY <1>7, <2>1, ResponseReplies DEF Stop
<1>8. CASE ListRequests
  <2>1. Changed(line) /\ Fits(line, [kind |-> "list", ids |-> DOMAIN entries])
    BY <1>8 DEF ListRequests, Reading, Changed, Fits, memory
  <2> QED BY <1>8, <2>1, ResponseReplies DEF ListRequests
<1>9. CASE InspectRequest
  <2> DEFINE body == [kind |-> "snapshot", id |-> line.id, record |-> Record(entries[line.id])]
  <2>1. Changed(line) /\ Fits(line, body)
    BY <1>9 DEF InspectRequest, Reading, Changed, Fits, memory
  <2>2. \/ Respond(Error("invalid_request"), Empty)
        \/ Respond(body, Fact(line.id, Record(entries[line.id])))
        \/ Respond(Error("request_not_found"), Empty)
    BY <1>9 DEF InspectRequest
  <2>3. UNCHANGED memory
    BY <1>9 DEF InspectRequest
  <2> HIDE DEF body, line
  <2> QED BY <1>1, <2>1, <2>2, <2>3, ResponseReplies DEF line
<1> QED BY <1>2, <1>3, <1>4, <1>5, <1>6, <1>7, <1>8, <1>9, BeginDid, TransitionDid DEF Serve

-----------------------------------------------------------------------------
(* What garwarpctl reports. *)

\* Only a handler answers, and only a handler leaves "read" unless the
\* process dies.
LEMMA OnlyHandlersAnswer ==
    ASSUME WellFormed, [Next]_vars,
           \/ reply = NoReply /\ reply' # NoReply
           \/ pc = "read" /\ pc' \notin {"read", "down"}
    PROVE  Serve /\ pc = "read"
<1>1. CASE Serve
  BY <1>1, ServeDrops DEF OneServed
<1>2. CASE BootFromStore \/ BootWithoutStore \/ BootPersist \/ Expire \/ Prune \/ Accept
           \/ AcceptNothing \/ PersistAfterReply \/ Tick \/ DamageStore \/ UNCHANGED vars
  BY <1>2 DEF BootFromStore, BootWithoutStore, BootPersist, Expire, Prune, Accept, AcceptNothing,
              PersistAfterReply, Tick, DamageStore, vars, wire, Up
<1>3. CASE Exit \/ Crash
  BY <1>3 DEF Exit, Crash, MemoryLost
<1>4. CASE Connect \/ \E c \in Conn : Send(c) \/ HangUp(c)
  BY <1>4 DEF Connect, Send, HangUp
<1> QED BY <1>1, <1>2, <1>3, <1>4 DEF Next, DaemonStep, Environment, Boot

LEMMA HandledLine ==
    ASSUME WireOk, [WNext]_wvars, asked[serving] # NoRequest,
           \/ reply = NoReply /\ reply' # NoReply
           \/ pc = "read" /\ pc' \notin {"read", "down"}
    PROVE  /\ Did(client[serving].line)
           /\ Aimed(asked[serving], client[serving].line)
<1>1. Serve /\ pc = "read"
  BY WireStep, OnlyHandlersAnswer DEF WireOk
<1>2. serving \in Conn
  BY <1>1 DEF WireOk, WellFormed, Attending
<1> QED BY <1>1, <1>2, HandlersDid DEF WireOk, Wired

\* The answer garwarpctl is given fits the line, and it reports a success just
\* when it is not an error.
LEMMA Reports ==
    ASSUME WireOk, [WNext]_wvars, Answers
    PROVE  /\ Fits(client[serving].line, reply'.body)
           /\ Aimed(asked[serving], client[serving].line)
           /\ reply'.body \in Reply /\ reply'.body.kind # "none"
           /\ Reported = IF reply'.body.kind = "error" THEN "daemon_error" ELSE "done"
<1>1. /\ Fits(client[serving].line, reply'.body)
      /\ Aimed(asked[serving], client[serving].line)
  BY HandledLine DEF Answers, Did
<1>2. reply'.body \in Reply
  BY WireStep, StepWellFormed DEF WireOk, WellFormed, TypeOK
<1>3. reply'.body.kind # "none"
  BY <1>1 DEF Fits
<1>4. PICK body : body = reply'.body
  OBVIOUS
<1>5. Heard = Understood(body)
  BY <1>4 DEF Heard, Understood
<1>6. /\ Understood(body).word =
           CASE body.kind = "status" -> "status"
             [] body.kind = "ack_stopping" -> "ack_stopping"
             [] body.kind = "list" -> "list"
             [] body.kind = "ack" -> "ack_request"
             [] body.kind = "snapshot" -> "snapshot"
             [] body.kind = "error" -> "error"
  <2>1. CASE body.kind = "list" /\ body.ids = {Dash}
    BY <1>2, <1>4, <2>1, AnswerIsUnderstood DEF Message
  <2>2. CASE ~(body.kind = "list" /\ body.ids = {Dash})
    <3>1. Understood(body) = Response(body)
      BY <1>2, <1>3, <1>4, <2>2, AnswerIsUnderstood
    <3> QED BY <1>2, <1>3, <1>4, <3>1 DEF Response, Snapshot, Message, Reply
  <2> QED BY <2>1, <2>2
<1>7. Reported = IF body.kind = "error" THEN "daemon_error" ELSE "done"
  <2>1. Reported = IF Understood(body).word = Expected[Request.word] THEN "done"
                   ELSE IF Understood(body).word = "error" THEN "daemon_error" ELSE "unexpected"
    BY <1>5 DEF Reported, Report
  <2>2. Request.word \in DOMAIN Expected /\ Expected[Request.word] # "error"
    BY <1>1, RequestShape DEF Aimed, IsRequest, Request, Expected
  <2>3. CASE body.kind = "error"
    BY <1>6, <2>1, <2>2, <2>3
  <2>4. CASE body.kind # "error"
    BY <1>1, <1>4, <1>6, <2>1, <2>2, <2>4 DEF Fits, Aimed, Request, Expected
  <2> QED BY <2>3, <2>4
<1> QED BY <1>1, <1>2, <1>3, <1>4, <1>7

\* garwarpctl never meets an answer it cannot read or does not expect, whatever
\* it is asked and however much of its line comes through (lib.rs to_line and
\* parse_line, main.rs run).
THEOREM EveryAnswerIsExpected == WireSpec => NothingUnexpected
<1>1. WireOk /\ [WNext]_wvars => [Answers => Reported # "unexpected"]_wvars
  BY Reports
<1> QED BY <1>1, AlwaysWired, PTL DEF WireSpec, NothingUnexpected

\* A success that is reported of a whole line is what the words asked for.
LEMMA DoneIsDone ==
    ASSUME WireOk, [WNext]_wvars, Answers, Reported = "done", asked[serving].whole
    PROVE  DoneAsAsked
<1> DEFINE line == client[serving].line
           body == reply'.body
           values == Request.values
<1>1. /\ Fits(line, body) /\ body.kind # "error"
      /\ body \in Reply /\ body.kind # "none"
      /\ IsRequest(Request) /\ line = Classified(Request)
  BY Reports DEF Aimed, Request
<1>2. Heard = Understood(body)
  BY DEF Heard, Understood
<1>3. Request # NotAMessage
  BY <1>1, RequestShape DEF IsRequest, NotAMessage
<1>4. /\ line.verb = Request.word
      /\ Request.word \in {"inspect", "begin", "transition"} => line.id = values["id"]
      /\ Request.word \in {"begin", "transition"} => line.owner = AskedOwner
      /\ Request.word = "begin" => line.parent = AskedParent
      /\ Request.word = "transition" => line.target = values["state"]
  <2>1. Request.word \in DOMAIN RequestKeys
    BY <1>1 DEF IsRequest
  <2> QED BY <1>1, <1>3, <2>1, ClassifiedShape DEF AskedOwner, AskedParent
<1>5. PICK b : b = body
  OBVIOUS
<1>6. Heard = Understood(b) /\ b \in Reply /\ b.kind # "none" /\ Fits(line, b) /\ b.kind # "error"
  BY <1>1, <1>2, <1>5
<1> HIDE DEF line, body, values
<1>7. CASE Request.word = "begin"
  <2>1. /\ b.kind = "ack" /\ b.id = values["id"]
        /\ Record(entries'[values["id"]]) =
             [owner |-> AskedOwner, parent |-> AskedParent, state |-> b.state]
    BY <1>4, <1>6, <1>7 DEF Fits
  <2>2. Heard = Message("ack_request", [id |-> b.id, state |-> b.state])
    BY <1>6, <2>1, AnswerIsUnderstood DEF Response
  <2>3. Heard.values.id = b.id /\ Heard.values.state = b.state
    BY <2>2 DEF Message
  <2> QED BY <1>7, <2>1, <2>3 DEF DoneAsAsked, values
<1>8. CASE Request.word = "transition"
  BY <1>4, <1>6, <1>8 DEF Fits, DoneAsAsked, values
<1>9. CASE Request.word = "inspect"
  <2>1. /\ b.kind = "snapshot" /\ b.id = values["id"]
        /\ b.record = Record(entries[values["id"]])
    BY <1>4, <1>6, <1>9 DEF Fits
  <2>2. Heard = Snapshot(b.id, b.record)
    BY <1>6, <2>1, AnswerIsUnderstood DEF Response
  <2> QED BY <1>9, <2>1, <2>2 DEF DoneAsAsked, values
<1>10. CASE Request.word = "list"
  <2>1. b.kind = "list" /\ b.ids = DOMAIN entries
    BY <1>4, <1>6, <1>10 DEF Fits
  <2>2. CASE b.ids = {Dash}
    BY <1>6, <1>10, <2>1, <2>2, AnswerIsUnderstood DEF DoneAsAsked, Listed, Message
  <2>3. CASE b.ids = {}
    <3>1. Heard = Message("list", NoValues)
      BY <1>6, <2>1, <2>3, AnswerIsUnderstood DEF Response
    <3> QED BY <1>10, <2>1, <2>3, <3>1 DEF DoneAsAsked, Listed, Message
  <2>4. CASE b.ids # {} /\ b.ids # {Dash}
    <3>1. Heard = Message("list", [ids |-> b.ids])
      BY <1>6, <2>1, <2>4, AnswerIsUnderstood DEF Response
    <3>2. [ids |-> b.ids] # NoValues
      BY DEF NoValues
    <3> QED BY <1>10, <2>1, <2>4, <3>1, <3>2 DEF DoneAsAsked, Listed, Message
  <2> QED BY <2>2, <2>3, <2>4
<1>11. CASE Request.word = "status"
  <2>1. b.kind = "status" /\ b.total = DOMAIN entries
    BY <1>4, <1>6, <1>11 DEF Fits
  <2>2. Heard.values.total = Cardinality(b.total)
    BY <1>6, <2>1, AnswerIsUnderstood DEF Response, Message
  <2> QED BY <1>11, <2>1, <2>2 DEF DoneAsAsked
<1>12. CASE Request.word = "stop"
  BY <1>4, <1>6, <1>12 DEF Fits, DoneAsAsked
<1> QED BY <1>1, <1>7, <1>8, <1>9, <1>10, <1>11, <1>12, RequestShape DEF IsRequest

\* What garwarpctl reports is so: a success means that what the user typed was
\* done, and an error that nothing was (main.rs run; daemon.rs
\* handle_connection).  What was listed is what is registered, for every set of
\* ids but {Dash}, which is printed as empty (lib.rs to_line).
THEOREM ReportsAreTrue == WireSpec => ReportIsTrue
<1>1. WireOk /\ [WNext]_wvars =>
        [Answers =>
          /\ Reported = "done" /\ asked[serving].whole => DoneAsAsked
          /\ Reported = "daemon_error" => UNCHANGED memory]_wvars
  <2> SUFFICES ASSUME WireOk, [WNext]_wvars, Answers
               PROVE  /\ Reported = "done" /\ asked[serving].whole => DoneAsAsked
                      /\ Reported = "daemon_error" => UNCHANGED memory
    OBVIOUS
  <2>1. ASSUME Reported = "daemon_error" PROVE UNCHANGED memory
    BY <2>1, Reports DEF Fits
  <2> QED BY <2>1, DoneIsDone
<1> QED BY <1>1, AlwaysWired, PTL DEF WireSpec, ReportIsTrue

\* A line cut short by the end of its connection may lose its window or its
\* app id, and never its aim (daemon.rs handle_connection; lib.rs parse_line).
THEOREM CutLinesKeepTheirAim == WireSpec => CutKeepsItsAim
<1> DEFINE Aim == /\ Request.word \in {"begin", "transition"}
                  /\ LET id == Request.values.id IN
                      /\ \A i \in RequestId \ {id} : Keep(entries', {i}) = Keep(entries, {i})
                      /\ entries'[id].state =
                           IF Request.word = "begin" THEN "pending" ELSE Request.values.state
<1>1. WireOk /\ [WNext]_wvars => [Handled /\ entries' # entries => Aim]_wvars
  <2> SUFFICES ASSUME WireOk, [WNext]_wvars, Handled, entries' # entries
               PROVE  Aim
    OBVIOUS
  <2> DEFINE line == client[serving].line
  <2>1. Changed(line) /\ Aimed(asked[serving], line)
    BY HandledLine DEF Handled, Did
  <2>2. /\ line.verb \in {"begin", "transition"} /\ line.verb = Request.word
        /\ line.id = Request.values.id
        /\ line.verb = "transition" => line.target = Request.values.state
    BY <2>1 DEF Changed, Aimed, Request
  <2> HIDE DEF line
  <2>3. \A i \in RequestId \ {line.id} : Keep(entries', {i}) = Keep(entries, {i})
    BY <2>1 DEF Changed, Keep
  <2>4. entries'[line.id].state = IF line.verb = "begin" THEN "pending" ELSE line.target
    BY <2>1 DEF Changed
  <2> QED BY <2>2, <2>3, <2>4
<1> QED BY <1>1, AlwaysWired, PTL DEF WireSpec, CutKeepsItsAim
=============================================================================
