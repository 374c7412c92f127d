----------------------------- MODULE ControlWire -----------------------------
(***************************************************************************)
(* The control plane from end to end: a user's command line, garwarpctl,   *)
(* the line it writes, the daemon, the line it answers with and what       *)
(* garwarpctl reports.  ControlDaemon with the codec at both ends: every   *)
(* line it reads is one a command makes, or a beginning of one.            *)
(*                                                                         *)
(* The daemon reads to the end of the line or of the connection.  A client *)
(* that goes away, or closes its writing half, in the middle of its line   *)
(* leaves the daemon with a beginning of it, which parse_line is given     *)
(* like any other line.                                                    *)
(***************************************************************************)
EXTENDS ControlDaemon, ControlCodec, FiniteSets

CONSTANTS
    Commands,  \* the command lines users type, each a sequence of words
    NoApp,     \* the owner a line without an app id names
    NoParent,  \* the parent of a line without one, and of a blank one
    CutOf      \* [value -> what the daemon may take a beginning of it for]

\* A dash is an id validate_request_id accepts, and neither an app id nor a
\* window; it is a text, not a list of ids.  No word for a state begins with
\* another one.

ASSUME WireAssumption ==
    /\ NoApp \in Owner
    /\ NoParent \in Parent
    /\ Dash \notin Owner \cup Parent
    /\ \A ids \in SUBSET RequestId : Dash # ids
    /\ \A word \in TargetWord \cap DOMAIN CutOf : CutOf[word] \cap TargetWord \subseteq {word}

VARIABLE asked  \* of each connection, the request its client was asked to make

wvars == <<vars, asked>>

NoRequest == [request |-> NotAMessage, whole |-> FALSE]

-----------------------------------------------------------------------------
\* The line ControlDaemon is given: None of parse_line is "malformed".
Classified(parsed) ==
    LET has(key) == key \in DOMAIN parsed.values
        owner == IF has("app_id") THEN parsed.values.app_id ELSE NoApp
        parent == IF has("parent") THEN parsed.values.parent ELSE NoParent
    IN CASE parsed = NotAMessage -> [verb |-> "malformed"]
         [] parsed.word = "inspect" -> [verb |-> "inspect", id |-> parsed.values.id]
         [] parsed.word = "begin" ->
              [verb |-> "begin", id |-> parsed.values.id, owner |-> owner, parent |-> parent]
         [] parsed.word = "transition" ->
              [verb |-> "transition", id |-> parsed.values.id, owner |-> owner,
               target |-> parsed.values.state]
         [] OTHER -> [verb |-> parsed.word]

Written(request) == {AsLine(request)} \cup CutLines(AsLine(request), CutOf)

\* The response handle_connection writes.
Snapshot(id, r) ==
    LET all == [id |-> id, state |-> r.state, sender |-> "uid", app_id |-> r.owner, parent |-> r.parent]
        none == {key \in {"app_id", "parent"} : all[key] \in {NoApp, NoParent}}
    IN Message("snapshot", Keep(all, DOMAIN all \ none))

Response(body) ==
    CASE body.kind = "status" ->
           Message("status", [protocol |-> 1, health |-> body.health,
                              in_flight |-> Cardinality(body.in_flight),
                              total |-> Cardinality(body.total),
                              terminal |-> Cardinality(body.terminal)])
      [] body.kind = "ack_stopping" -> Message("ack_stopping", NoValues)
      [] body.kind = "list" ->
           Message("list", IF body.ids = {} THEN NoValues ELSE [ids |-> body.ids])
      [] body.kind = "ack" -> Message("ack_request", [id |-> body.id, state |-> body.state])
      [] body.kind = "snapshot" -> Snapshot(body.id, body.record)
      [] body.kind = "error" -> Message("error", [code |-> 2, reason |-> body.reason])

-----------------------------------------------------------------------------
WInit == Init /\ asked = [c \in Conn |-> NoRequest]

\* send_request up to its first read: what users may ask for, and the line
\* the daemon makes of it or of what got through of it.
Requests == {ParseCommand(words) : words \in Commands} \ {NotAMessage}
Attempt(request, line) ==
    [request |-> request, line |-> Classified(ParseRequest(line)), whole |-> line = AsLine(request)]
Attempts == UNION {{Attempt(request, line) : line \in Written(request)} : request \in Requests}

Ask(c) ==
    \E attempt \in Attempts :
        /\ Send(c)
        /\ client'[c].line = attempt.line
        /\ asked' = [asked EXCEPT ![c] = [request |-> attempt.request, whole |-> attempt.whole]]

Else ==
    /\ DaemonStep \/ Crash \/ Tick \/ Connect \/ DamageStore \/ \E c \in Conn : HangUp(c)
    /\ asked' = [c \in Conn |-> IF InUse(c)' THEN asked[c] ELSE NoRequest]

WNext == Else \/ \E c \in Conn : Ask(c)

WireSpec == WInit /\ [][WNext]_wvars
-----------------------------------------------------------------------------
(* Properties. *)

\* Of a step that answers a client of garwarpctl: its request, what it reads
\* and what it reports.
Answers == serving # NoConn /\ asked[serving] # NoRequest /\ reply = NoReply /\ reply' # NoReply
Request == asked[serving].request
Heard == ParseResponse(ToLine(Response(reply'.body)))
Reported == Report(Request, Heard)

\* garwarpctl never meets an answer it cannot read or does not expect,
\* whatever it asked and however much of it came through (garwarp-ipc lib.rs
\* to_line and parse_line, garwarpctl main.rs run).
NothingUnexpected == [][Answers => Reported # "unexpected"]_wvars

\* The registry after the step is what the words of the command ask for, and
\* what garwarpctl printed is in it; but the list of the one request "-" is
\* printed as the list of none, since to_line writes that one as a dash too.
Listed == IF Heard.values = NoValues THEN {} ELSE Heard.values.ids
AskedOwner == IF "app_id" \in DOMAIN Request.values THEN Request.values.app_id ELSE NoApp
AskedParent == IF "parent" \in DOMAIN Request.values THEN Request.values.parent ELSE NoParent
DoneAsAsked ==
    CASE Request.word = "begin" ->
           /\ Heard.values.id = Request.values.id
           /\ Record(entries'[Request.values.id]) =
                [owner |-> AskedOwner, parent |-> AskedParent, state |-> Heard.values.state]
      [] Request.word = "transition" ->
           /\ entries'[Request.values.id].owner = AskedOwner
           /\ entries'[Request.values.id].state = Request.values.state
      [] Request.word = "inspect" ->
           Heard = Snapshot(Request.values.id, Record(entries[Request.values.id]))
      [] Request.word = "list" ->
           Listed = IF DOMAIN entries = {Dash} THEN {} ELSE DOMAIN entries
      [] Request.word = "status" -> Heard.values.total = Cardinality(DOMAIN entries)
      [] Request.word = "stop" -> ~running'

\* What garwarpctl reports is so.  If its whole line was read, success means
\* that what the user typed was done, for that owner and that window, and what
\* it printed is the registry's, except that the list of the one request "-" is
\* printed as empty (lib.rs to_line).  A reported error means that nothing was
\* done.
ReportIsTrue ==
    [][Answers =>
        /\ Reported = "done" /\ asked[serving].whole => DoneAsAsked
        /\ Reported = "daemon_error" => UNCHANGED memory]_wvars

\* A line cut short by the end of its connection may lose its window or its
\* app id, and never its aim: what it changes is the request it was about, in
\* the way that was asked (daemon.rs handle_connection reads to the end of file;
\* lib.rs parse_line requires every field up to the sender).
Handled == pc = "read" /\ pc' \notin {"read", "down"} /\ asked[serving] # NoRequest
CutKeepsItsAim ==
    [][Handled /\ entries' # entries =>
        /\ Request.word \in {"begin", "transition"}
        /\ LET id == Request.values.id IN
            /\ \A i \in RequestId \ {id} : Keep(entries', {i}) = Keep(entries, {i})
            /\ entries'[id].state =
                 IF Request.word = "begin" THEN "pending" ELSE Request.values.state]_wvars
=============================================================================
