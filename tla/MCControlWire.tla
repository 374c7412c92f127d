--------------------------- MODULE MCControlWire ---------------------------
(***************************************************************************)
(* An instance of ControlWire for TLC: the commands two users type, and    *)
(* what the beginnings of a name may be read as.                           *)
(***************************************************************************)
EXTENDS ControlWire

CONSTANTS r, o1, p1, p2, who

\* One request for two windows, its end in both forms of that command, with the
\* app id and without, and a command that is too short to be one.
MCCommands ==
    {<<>>, <<"stop">>, <<"list">>, <<"inspect", r>>, <<"begin", r>>,
     <<"begin", r, who, o1, p1>>, <<"begin", r, who, o1, p2>>,
     <<"fulfill", r, who, o1>>, <<"transition", r, who, "fulfilled", Dash>>}

\* A dash begins r, p1 begins p2, and the beginnings of o1 have no dot.
MCCutOf ==
    [v \in {r, o1, p1, p2} |->
        CASE v = r -> {Dash, InvalidId}
          [] v = o1 -> {InvalidOwner}
          [] v = p1 -> {InvalidParent, NoParent}
          [] v = p2 -> {InvalidParent, NoParent, p1}]

MCLine == {attempt.line : attempt \in Attempts}
=============================================================================
