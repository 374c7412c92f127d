----------------------------- MODULE PortalBook -----------------------------
(***************************************************************************)
(* What the portal dispatcher promises its callers, without mutex, ages    *)
(* and states: a book of request identities, and every call answered at    *)
(* one instant by the book of that instant.  A handle enters the book with *)
(* the first call that soundly claims it, and belongs to that owner and    *)
(* parent window until the daemon ends.  PortalDispatch implements this    *)
(* module (see Book there).                                                *)
(***************************************************************************)
CONSTANTS
    Call, Traffic, NoMessage,
    Claim,     \* call -> the id, owner and parent it asks for; sound calls only
    Refusal    \* the errors a call may be answered with

VARIABLES book, asked, answer

bvars == <<book, asked, answer>>

BookInit ==
    /\ book = {}
    /\ asked = [k \in Call |-> NoMessage]
    /\ answer = [k \in Call |-> "none"]

Ask(k) ==
    /\ asked[k] = NoMessage
    /\ \E m \in Traffic : asked' = [asked EXCEPT ![k] = m]
    /\ UNCHANGED <<book, answer>>

Pending(k) == asked[k] # NoMessage /\ answer[k] = "none"

\* A call that claims nothing, or not soundly, is refused and leaves no trace.
Refuse(k) ==
    /\ Pending(k)
    /\ asked[k] \notin DOMAIN Claim
    /\ \E r \in Refusal : answer' = [answer EXCEPT ![k] = r]
    /\ UNCHANGED <<book, asked>>

\* The first claim on an id is granted, and the same claim again.
Register(k) ==
    /\ Pending(k)
    /\ asked[k] \in DOMAIN Claim
    /\ \A b \in book : b.id = Claim[asked[k]].id => b = Claim[asked[k]]
    /\ book' = book \cup {Claim[asked[k]]}
    /\ answer' = [answer EXCEPT ![k] = "registered"]
    /\ UNCHANGED asked

\* Another claim on it is not, and whose the id is comes before what it is for.
Conflict(k) ==
    /\ Pending(k)
    /\ asked[k] \in DOMAIN Claim
    /\ \E b \in book :
          /\ b.id = Claim[asked[k]].id /\ b # Claim[asked[k]]
          /\ answer' = [answer EXCEPT ![k] = IF b.owner # Claim[asked[k]].owner
                                               THEN "ownership_mismatch" ELSE "request_conflict"]
    /\ UNCHANGED <<book, asked>>

Hear(k) ==
    /\ asked[k] # NoMessage /\ answer[k] # "none"
    /\ asked' = [asked EXCEPT ![k] = NoMessage]
    /\ answer' = [answer EXCEPT ![k] = "none"]
    /\ UNCHANGED book

StartOver == BookInit'

BookNext ==
    \/ \E k \in Call : Ask(k) \/ Refuse(k) \/ Register(k) \/ Conflict(k) \/ Hear(k)
    \/ StartOver

BookSpec == BookInit /\ [][BookNext]_bvars
=============================================================================
