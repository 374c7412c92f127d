-------------------------- MODULE MCPortalDispatch --------------------------
(***************************************************************************)
(* Instances of PortalDispatch for TLC.  Senders s1 and s2 collide on one  *)
(* handle segment, as :1.4 and :1_4 do; s3 has its own.                    *)
(***************************************************************************)
EXTENDS PortalDispatch

CONSTANTS s1, s2, s3

CollidingSegments == [s \in Sender |-> IF s = s3 THEN "other" ELSE "shared"]
MCRequestId == {<<CollidingSegments[s], t>> : s \in Sender, t \in Token}
MCOwner == [sender : Sender, app : App]

\* Options that every interface takes, and some that only others than the
\* file chooser do: it knows "multiple" and they do not.
Modal == [modal |-> "bool"]
MultipleByName == [modal |-> "bool", multiple |-> "string"]
MCOptions == {Modal, MultipleByName}

Registers(senders, apps, parents) ==
    [method : {"register"}, interface : {"Screenshot"}, options : {MultipleByName},
     sender : senders, handle : RequestId, app : apps, parent : parents]
Updates(senders) == [method : {"update_choices"}, sender : senders, handle : RequestId]

\* A sound call of s3, and one for each refusal; a token that is too long is
\* met after a segment that is not the sender's.
Sound ==
    [method |-> "register", interface |-> "FileChooser", options |-> Modal,
     sender |-> s3, handle |-> <<"other", "t1">>,
     app |-> CHOOSE a \in App : TRUE, parent |-> CHOOSE p \in Parent : TRUE]
Broken ==
    {[Sound EXCEPT !.options = MultipleByName], [Sound EXCEPT !.sender = NoSender],
     [Sound EXCEPT !.handle = InvalidHandle], [Sound EXCEPT !.app = InvalidApp],
     [Sound EXCEPT !.parent = InvalidParent]}
    \cup {[Sound EXCEPT !.handle = <<segment, LongToken>>] : segment \in {"other", "shared"}}

\* Every kind of call.
EveryTraffic == Registers({s1, s2}, App, Parent) \cup Updates({s1, s3}) \cup {Sound} \cup Broken

\* What reaches the registry.
SoundTraffic == Registers(Sender, App, Parent) \cup Updates(Sender)
=============================================================================
