--------------------------- MODULE MCControlDaemon ---------------------------
(***************************************************************************)
(* Instances of ControlDaemon for TLC: the sets of lines its clients write.*)
(***************************************************************************)
EXTENDS ControlDaemon, TLC

Begins(ids, owners, parents) == [verb : {"begin"}, id : ids, owner : owners, parent : parents]
Transitions(ids, owners, targets) ==
    [verb : {"transition"}, id : ids, owner : owners, target : targets]
Inspects(ids) == [verb : {"inspect"}, id : ids]
Plain(verbs) == [verb : verbs]

\* Everything the protocol knows, refused values included.
EveryLine == ControlLine

\* What owners do to requests, without the lines that only read.
MovingLines ==
    Begins(RequestId, Owner, Parent)
    \cup Transitions(RequestId, Owner, {"awaiting_user", "fulfilled"})

\* One owner that may refresh its request for ever, and a reader.
RefreshingLines ==
    Begins(RequestId, Owner, Parent)
    \cup Transitions(RequestId, Owner, {"awaiting_user", "cancelled"})
    \cup Inspects(RequestId)

\* An owner that may refresh its request for ever, and a stop.
ProgressLines ==
    Begins(RequestId, Owner, Parent)
    \cup Transitions(RequestId, Owner, {"awaiting_user"})
    \cup Plain({"stop"})

Interchangeable == Permutations(RequestId) \cup Permutations(Owner) \cup Permutations(Conn)
=============================================================================
