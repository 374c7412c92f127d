--------------------------- MODULE RequestRegistry ---------------------------
(***************************************************************************)
(* The in-memory request registry (garwarp/src/request.rs): a map from a   *)
(* request id to its entry, and the operations the daemon and the D-Bus    *)
(* dispatcher apply to it.  The registry is a value: every operator takes  *)
(* one and yields the next one, and the modules that own a registry keep   *)
(* it in a variable.                                                       *)
(*                                                                         *)
(* Time.  An entry's two instants, started_at and last_updated_at, are     *)
(* only ever compared with `now` against a fixed limit, so an entry keeps  *)
(* the time elapsed since each, in ticks, and stops counting at the limit  *)
(* (Timeout for `age`, Retention for `idle`): beyond it every comparison   *)
(* the code makes has the same answer.                                     *)
(***************************************************************************)
EXTENDS Naturals

CONSTANTS
    RequestId,  \* ids that pass validate_request_id
    Owner,      \* RequestOwner values: a sender and an optional app id
    Parent,     \* Option<ParentWindowContext> values, None among them
    Timeout,    \* ticks after which a request in flight is stale
    Retention   \* ticks a terminal request is kept after its last update

ASSUME LimitsAssumption == Timeout \in Nat \ {0} /\ Retention \in Nat \ {0}

-----------------------------------------------------------------------------
InFlight == {"pending", "awaiting_user"}
Terminal == {"fulfilled", "cancelled", "failed", "expired"}
RequestState == InFlight \cup Terminal
IsTerminal(s) == s \in Terminal

\* What is saved, listed and told: an entry without its instants.
RequestRecord == [owner : Owner, parent : Parent, state : RequestState]
RequestEntry == [owner : Owner, parent : Parent, state : RequestState,
                 age : 0..Timeout, idle : 0..Retention]

\* Partial maps from ids.
IsIdMap(m, V) == DOMAIN m \subseteq RequestId /\ m \in [DOMAIN m -> V]
Empty == [i \in {} |-> 0]
Put(m, id, v) == [i \in DOMAIN m \cup {id} |-> IF i = id THEN v ELSE m[i]]
Keep(m, S) == [i \in DOMAIN m \cap S |-> m[i]]

Record(e) == [owner |-> e.owner, parent |-> e.parent, state |-> e.state]
Records(reg) == [i \in DOMAIN reg |-> Record(reg[i])]

InFlightIds(reg) == {i \in DOMAIN reg : reg[i].state \in InFlight}
TerminalIds(reg) == {i \in DOMAIN reg : IsTerminal(reg[i].state)}

-----------------------------------------------------------------------------
\* Variant: an outcome may be replaced by another.
IsValidTransitionReopening(from, to) == to # "pending"

\* Variant: a request has to be seen by the user before it can fail.
IsValidTransitionSeenFirst(from, to) ==
    \/ from = "pending" /\ to \in {"awaiting_user", "cancelled", "expired"}
    \/ from = "awaiting_user" /\ to \in Terminal

IsValidTransition(from, to) ==
    \/ from = "pending" /\ to \in {"awaiting_user", "cancelled", "failed", "expired"}
    \/ from = "awaiting_user" /\ to \in Terminal

NewEntry(owner, parent) ==
    [owner |-> owner, parent |-> parent, state |-> "pending", age |-> 0, idle |-> 0]

Touch(e, state) ==
    [owner |-> e.owner, parent |-> e.parent, state |-> state, age |-> e.age, idle |-> 0]

\* begin_at, for an id the registry does not know.
Begin(reg, id, owner, parent) == Put(reg, id, NewEntry(owner, parent))

\* Variant: the owner is not compared.
TransitionAnswerToAnyone(reg, id, owner, target) ==
    IF id \notin DOMAIN reg THEN "not_found"
    ELSE IF reg[id].state = target \/ IsValidTransition(reg[id].state, target) THEN "ok"
    ELSE "invalid_transition"

\* transition_at: its result, and the registry it leaves when that is "ok".  A
\* transition to the state a request is in is legal, whatever the state.
TransitionAnswer(reg, id, owner, target) ==
    IF id \notin DOMAIN reg THEN "not_found"
    ELSE IF reg[id].owner # owner THEN "owner_mismatch"
    ELSE IF reg[id].state = target \/ IsValidTransition(reg[id].state, target) THEN "ok"
    ELSE "invalid_transition"
Transition(reg, id, target) == [reg EXCEPT ![id] = Touch(@, target)]

\* expire_stale and recover_after_restart: the ids they expire, and the
\* registry they leave.
Unfinished(reg) == {i \in DOMAIN reg : ~IsTerminal(reg[i].state)}
ExpireAll(reg, S) == [i \in DOMAIN reg |-> IF i \in S THEN Touch(reg[i], "expired") ELSE reg[i]]

\* Variant: the time since the last update instead of since the start.
StaleSinceUpdate(reg) == {i \in Unfinished(reg) : reg[i].idle >= Timeout}
Stale(reg) == {i \in Unfinished(reg) : reg[i].age >= Timeout}
ExpireStale(reg) == ExpireAll(reg, Stale(reg))

\* Variant: requests in flight stay so.
RecoverNothing(reg) == reg
RecoverAfterRestart(reg) == ExpireAll(reg, Unfinished(reg))

\* Variant: expired requests are not counted among the ended ones.
OverdueButExpired(reg) ==
    {i \in TerminalIds(reg) : reg[i].state # "expired" /\ reg[i].idle >= Retention}
Overdue(reg) == {i \in TerminalIds(reg) : reg[i].idle >= Retention}
PruneTerminal(reg) == Keep(reg, DOMAIN reg \ Overdue(reg))

\* restore_record on every saved record, into an empty registry: the instants
\* of a restored entry are those of the load, not those of the original.
Restore(records) ==
    [i \in DOMAIN records |->
        [owner |-> records[i].owner, parent |-> records[i].parent,
         state |-> records[i].state, age |-> 0, idle |-> 0]]

-----------------------------------------------------------------------------
\* One tick of the clock on a registry.
Saturate(n, limit) == IF n < limit THEN n + 1 ELSE limit
Elapse(reg) ==
    [i \in DOMAIN reg |->
        [reg[i] EXCEPT !.age = Saturate(@, Timeout), !.idle = Saturate(@, Retention)]]

-----------------------------------------------------------------------------
\* `new` is `old` or a later stage of the same request: what a client may
\* find after it was told `old` without having been misled.
Follows(new, old) ==
    /\ new.owner = old.owner
    /\ new.parent = old.parent
    /\ \/ new.state = old.state
       \/ old.state = "pending"
       \/ old.state = "awaiting_user" /\ new.state \in Terminal

\* Every fact in `facts` is borne out by the map `m`.
BorneOut(facts, m) == \A i \in DOMAIN facts : i \in DOMAIN m /\ Follows(m[i], facts[i])
=============================================================================
