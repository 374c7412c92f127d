--------------------------- MODULE MCRequestStore ---------------------------
(***************************************************************************)
(* An instance of RequestStore for TLC: owners of every app id that can be *)
(* written with the characters and the length given and that is accepted.  *)
(***************************************************************************)
EXTENDS RequestStore

CONSTANTS AppChar, AppBound

MCRequestId == {<<"a">>, <<"1">>}
MCAppId == {text \in BoundedSeq(AppChar, AppBound) : IsValidAppId(text)}
Named == [owner : [sender : {<<":", "1">>}, app_id : MCAppId], parent : {X11(26)}, state : {"pending"}]
Plain == [owner : [sender : {<<":", "1">>}, app_id : {NoText}], parent : {NoWindow}, state : {"failed"}]
MCStorable == Named \cup Plain
MCOwner == {r.owner : r \in MCStorable}
MCParent == {r.parent : r \in MCStorable}
=============================================================================
