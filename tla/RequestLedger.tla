---------------------------- MODULE RequestLedger ----------------------------
(***************************************************************************)
(* What the control daemon promises, without connections, health or        *)
(* sweeps: a ledger of requests in memory and a saved copy of it.  The     *)
(* copy is replaced as a whole, always by the ledger of that moment; a     *)
(* run that ends loses the ledger; the next one starts from the copy with  *)
(* nothing left in flight, or from nothing when the copy is lost.          *)
(* ControlDaemon implements this module (see Ledger there).                *)
(***************************************************************************)
EXTENDS RequestRegistry

VARIABLES live, saved, up

lvars == <<live, saved, up>>

LedgerInit == live = Empty /\ saved = Empty /\ up = FALSE

Turned(r, state) == [owner |-> r.owner, parent |-> r.parent, state |-> state]

\* A request is opened once, in flight.
Open(id, owner, parent) ==
    /\ up
    /\ id \notin DOMAIN live
    /\ live' = Put(live, id, [owner |-> owner, parent |-> parent, state |-> "pending"])
    /\ UNCHANGED <<saved, up>>

\* Its owner moves it on, never back and never out of an outcome.
Advance(id, state) ==
    /\ up
    /\ id \in DOMAIN live
    /\ live' = [live EXCEPT ![id] = Turned(@, state)]
    /\ Follows(live'[id], live[id])
    /\ UNCHANGED <<saved, up>>

MaybeSave == saved' \in {saved, live'}

Save == up /\ saved' = live /\ UNCHANGED <<live, up>>

\* The clock expires requests in flight and forgets the ones that ended.
TimeOut(S) ==
    /\ up
    /\ S \subseteq InFlightIds(live)
    /\ live' = [i \in DOMAIN live |-> IF i \in S THEN Turned(live[i], "expired") ELSE live[i]]
    /\ MaybeSave
    /\ UNCHANGED up

Forget(S) ==
    /\ up
    /\ \A i \in S : i \in DOMAIN live /\ live[i].state \in Terminal
    /\ live' = Keep(live, DOMAIN live \ S)
    /\ MaybeSave
    /\ UNCHANGED up

End == up /\ up' = FALSE /\ live' = Empty /\ UNCHANGED saved

Resume ==
    /\ ~up
    /\ up' = TRUE
    /\ live' = [i \in DOMAIN saved |->
                   IF saved[i].state \in InFlight THEN Turned(saved[i], "expired") ELSE saved[i]]
    /\ UNCHANGED saved

StartAfresh == ~up /\ up' = TRUE /\ live' = Empty /\ saved' \in {saved, Empty}

LoseCopy(S) == ~up /\ saved' = Keep(saved, S) /\ UNCHANGED <<live, up>>

LedgerNext ==
    \/ \E id \in RequestId, owner \in Owner, parent \in Parent : Open(id, owner, parent)
    \/ \E id \in RequestId, state \in RequestState : Advance(id, state)
    \/ Save
    \/ \E S \in SUBSET RequestId : TimeOut(S) \/ Forget(S) \/ LoseCopy(S)
    \/ End \/ Resume \/ StartAfresh

LedgerSpec == LedgerInit /\ [][LedgerNext]_lvars
=============================================================================
