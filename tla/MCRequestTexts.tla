--------------------------- MODULE MCRequestTexts ---------------------------
(***************************************************************************)
(* The texts two D-Bus callers and one window can be made of, typed one    *)
(* character at a time up to a bound, for TLC.                             *)
(***************************************************************************)
EXTENDS RequestTexts

CONSTANTS
    SenderChar, TokenChar, WindowChar, \* the characters typed
    SenderBound, TokenBound, WindowBound \* how many of them

VARIABLES
    callers, \* what two callers are named and what token each one put in its handle
    window   \* the text after "x11:" that a third party calls its window

texts == <<callers, window>>

Blank == [i \in 1..2 |-> [sender |-> <<>>, token |-> <<>>]]

Init == callers = Blank /\ window = <<>>

TypeSender(i) ==
    /\ window = <<>>
    /\ Len(callers[i].sender) < SenderBound
    /\ \E c \in SenderChar : callers' = [callers EXCEPT ![i].sender = Append(@, c)]
    /\ UNCHANGED window

TypeToken(i) ==
    /\ window = <<>>
    /\ Len(callers[i].token) < TokenBound
    /\ \E c \in TokenChar : callers' = [callers EXCEPT ![i].token = Append(@, c)]
    /\ UNCHANGED window

TypeWindow ==
    /\ callers = Blank
    /\ Len(window) < WindowBound
    /\ \E c \in WindowChar : window' = Append(window, c)
    /\ UNCHANGED callers

Clear == callers' = Blank /\ window' = <<>>

Next == TypeWindow \/ Clear \/ \E i \in 1..2 : TypeSender(i) \/ TypeToken(i)

Spec == Init /\ [][Next]_texts

-----------------------------------------------------------------------------
\* The handle the portal frontend makes for a caller: its own segment.
Handle(caller) ==
    [base |-> "request", parts |-> <<SenderToHandleSegment(caller.sender), caller.token>>]
Derived(i) == DeriveRequestId(callers[i].sender, Handle(callers[i]))

\* An id that the dispatcher derives is never refused later: whatever the name
\* of the caller, the id and that name pass the validation in front of the
\* registry (portal.rs derive_request_id, validate.rs validate_request_identity).
DerivedIdentityHolds ==
    \A i \in 1..2 :
        Derived(i).result = "ok" => ValidIdentity(Derived(i).id, callers[i].sender, NoText)

\* Two callers are given one id only for one segment and one token: what they
\* wrote in a handle cannot be read two ways (portal.rs derive_request_id).
DerivedIdSplits ==
    Derived(1).result = "ok" /\ Derived(2).result = "ok" /\ Derived(1).id = Derived(2).id
        => Handle(callers[1]) = Handle(callers[2])

\* A window has one spelling of its own, which names that window: a client
\* that asks again with what inspect or the store says of its parent asks for
\* the same one, however it spelled the number (window.rs as_str, parse_parent_window).
WindowKeepsItsName ==
    LET parent == ParseParent(<<"x", "1", "1", ":">> \o window) IN
    parent.kind = "x11" => ParseParent(ShowParent(parent)) = parent
=============================================================================
