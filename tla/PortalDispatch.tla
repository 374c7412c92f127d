--------------------------- MODULE PortalDispatch ---------------------------
(***************************************************************************)
(* The D-Bus side of the daemon (garwarp/src/dbus.rs, portal_dispatch.rs,  *)
(* portal.rs): method calls of the three portal interfaces, each deriving  *)
(* the caller's request id from the handle it passes, then entering the    *)
(* mutex around a registry of its own.  That registry shares nothing with  *)
(* the one of ControlDaemon: it is never saved and no loop sweeps it.      *)
(***************************************************************************)
EXTENDS RequestRegistry, PortalOptions

CONSTANTS
    Sender,        \* unique bus names
    Segment,       \* [Sender -> handle segment]; several senders may share one
    App,           \* Option<app id> values, None among them
    Token,
    LongToken,     \* a token that makes the derived id too long
    Call,          \* method calls in progress at once
    Options,       \* the option maps of this instance: key -> type of its value
    Traffic,       \* the method calls the callers of this instance make
    NoSender, InvalidHandle, InvalidApp, InvalidParent, NoCall

\* A method call.  "register" stands for the six methods that register a
\* request and fail it, two of Screenshot, three of FileChooser and one of
\* AppChooser; they differ in the options they know.  `handle` is the segment
\* and the token of the path, or InvalidHandle for a path parse_request_handle
\* refuses.
Handle == {<<Segment[s], t>> : s \in Sender, t \in Token \cup {LongToken}}
Message ==
    [method : {"register"}, interface : Interface, options : Options,
     sender : Sender \cup {NoSender}, handle : Handle \cup {InvalidHandle},
     app : App \cup {InvalidApp}, parent : Parent \cup {InvalidParent}]
    \cup
    [method : {"update_choices"}, sender : Sender \cup {NoSender},
     handle : Handle \cup {InvalidHandle}]

\* sender_to_handle_segment turns '.', '_' and '-' all into '_': it is not
\* injective.  A derived id is the segment and the token, within the limit of
\* validate_request_id.
ASSUME DispatchAssumption ==
    /\ DOMAIN Segment = Sender
    /\ RequestId = {<<Segment[s], t>> : s \in Sender, t \in Token}
    /\ Owner = [sender : Sender, app : App]
    /\ Traffic \subseteq Message
    /\ NoSender \notin Sender
    /\ LongToken \notin Token
    /\ InvalidHandle \notin Handle
    /\ InvalidApp \notin App
    /\ InvalidParent \notin Parent
    /\ NoCall \notin Call

VARIABLES
    registry,  \* PortalDispatch.requests
    lock,      \* the call inside with_dispatch
    at,        \* where each call is
    message,   \* what it was called with
    answer,    \* the Result the dispatcher or the code before it gave
    granted    \* history: what the dispatcher acknowledged as registered

vars == <<registry, lock, at, message, answer, granted>>

NoMessage == [method |-> "none"]

Init ==
    /\ registry = Empty
    /\ lock = NoCall
    /\ at = [k \in Call |-> "idle"]
    /\ message = [k \in Call |-> NoMessage]
    /\ answer = [k \in Call |-> "none"]
    /\ granted = {}

-----------------------------------------------------------------------------
Receive(k) ==
    /\ at[k] = "idle"
    /\ \E m \in Traffic : message' = [message EXCEPT ![k] = m]
    /\ at' = [at EXCEPT ![k] = "received"]
    /\ UNCHANGED <<registry, lock, answer, granted>>

\* The options first, then request_identity_for_call: the caller is the one
\* the bus names, and the handle must carry its segment before the id that is
\* derived from both is validated.
IdentityOutcome(m) ==
    IF m.method = "register" /\ ~OptionsParse(m.interface, m.options) THEN "invalid_request"
    ELSE IF m.sender = NoSender THEN "unauthorized_client"
    ELSE IF m.handle = InvalidHandle THEN "invalid_request"
    ELSE IF Segment[m.sender] # m.handle[1] THEN "ownership_mismatch"
    ELSE IF m.handle \notin RequestId THEN "invalid_request"
    ELSE "ok"

Identify(k) ==
    /\ at[k] = "received"
    /\ LET outcome == IdentityOutcome(message[k]) IN
         IF outcome = "ok"
         THEN at' = [at EXCEPT ![k] = "waiting"] /\ UNCHANGED answer
         ELSE /\ at' = [at EXCEPT ![k] = "answered"]
              /\ answer' = [answer EXCEPT ![k] = outcome]
    /\ UNCHANGED <<registry, lock, message, granted>>

\* with_dispatch
Enter(k) ==
    /\ at[k] = "waiting"
    /\ lock = NoCall
    /\ lock' = k
    /\ at' = [at EXCEPT ![k] = "inside"]
    /\ UNCHANGED <<registry, message, answer, granted>>

\* The closure returns and the mutex guard is dropped.
Leave(k, outcome) ==
    /\ answer' = [answer EXCEPT ![k] = outcome]
    /\ at' = [at EXCEPT ![k] = "answered"]
    /\ lock' = NoCall

Inside(k, method) == at[k] = "inside" /\ message[k].method = method

OwnerOf(m) == [sender |-> m.sender, app |-> m.app]
Grant(m) == [id |-> m.handle, owner |-> OwnerOf(m), parent |-> m.parent]

\* Variant: the owner of a known request is not compared.
RegisterOutcomeAnyOwner(m) ==
    IF m.app = InvalidApp THEN "invalid_request"
    ELSE IF m.parent = InvalidParent THEN "invalid_parent_window"
    ELSE IF m.handle \notin DOMAIN registry THEN "begun"
    ELSE IF registry[m.handle].parent # m.parent THEN "request_conflict"
    ELSE "known"

\* Variant: the parent window is not validated.
RegisterOutcomeAnyParent(m) ==
    IF m.app = InvalidApp THEN "invalid_request"
    ELSE IF m.handle \notin DOMAIN registry THEN "begun"
    ELSE IF registry[m.handle].owner # OwnerOf(m) THEN "ownership_mismatch"
    ELSE IF registry[m.handle].parent # m.parent THEN "request_conflict"
    ELSE "known"

\* Variant: the parent window is compared before the owner.
RegisterOutcomeParentFirst(m) ==
    IF m.app = InvalidApp THEN "invalid_request"
    ELSE IF m.parent = InvalidParent THEN "invalid_parent_window"
    ELSE IF m.handle \notin DOMAIN registry THEN "begun"
    ELSE IF registry[m.handle].parent # m.parent THEN "request_conflict"
    ELSE IF registry[m.handle].owner # OwnerOf(m) THEN "ownership_mismatch"
    ELSE "known"

\* register_unimplemented_call up to and with begin_request.
RegisterOutcome(m) ==
    IF m.app = InvalidApp THEN "invalid_request"
    ELSE IF m.parent = InvalidParent THEN "invalid_parent_window"
    ELSE IF m.handle \notin DOMAIN registry THEN "begun"
    ELSE IF registry[m.handle].owner # OwnerOf(m) THEN "ownership_mismatch"
    ELSE IF registry[m.handle].parent # m.parent THEN "request_conflict"
    ELSE "known"

BeginRequest(k) ==
    /\ Inside(k, "register")
    /\ LET m == message[k]
           outcome == RegisterOutcome(m)
       IN \/ /\ outcome \in {"begun", "known"}
             /\ registry' = IF outcome = "begun"
                              THEN Begin(registry, m.handle, OwnerOf(m), m.parent)
                              ELSE registry
             /\ IF IsTerminal(registry'[m.handle].state)
                  THEN granted' = granted \cup {Grant(m)} /\ Leave(k, "registered")
                  ELSE /\ at' = [at EXCEPT ![k] = "begun"]
                       /\ UNCHANGED <<lock, answer, granted>>
          \/ /\ outcome \notin {"begun", "known"}
             /\ Leave(k, outcome)
             /\ UNCHANGED <<registry, granted>>
    /\ UNCHANGED message

\* Variant: the placeholder failure is left out.
SettleNothing(k) ==
    /\ at[k] = "begun"
    /\ granted' = granted \cup {Grant(message[k])}
    /\ Leave(k, "registered")
    /\ UNCHANGED <<registry, message>>

\* ... and its end: a request that is not terminal is failed at once.
Settle(k) ==
    /\ at[k] = "begun"
    /\ LET m == message[k]
           outcome == TransitionAnswer(registry, m.handle, OwnerOf(m), "failed")
       IN IF outcome = "ok"
          THEN /\ registry' = Transition(registry, m.handle, "failed")
               /\ granted' = granted \cup {Grant(m)}
               /\ Leave(k, "registered")
          ELSE Leave(k, outcome) /\ UNCHANGED <<registry, granted>>
    /\ UNCHANGED message

\* validate_update_choices reads; it compares the sender alone.
UpdateOutcome(m) ==
    IF m.handle \notin DOMAIN registry THEN "request_not_found"
    ELSE IF registry[m.handle].owner.sender # m.sender THEN "ownership_mismatch"
    ELSE IF IsTerminal(registry[m.handle].state) THEN "invalid_transition"
    ELSE "ok"

\* Variant: the guard outlives the closure.
UpdateChoicesHolding(k) ==
    /\ Inside(k, "update_choices")
    /\ answer' = [answer EXCEPT ![k] = UpdateOutcome(message[k])]
    /\ at' = [at EXCEPT ![k] = "answered"]
    /\ UNCHANGED <<registry, lock, message, granted>>

UpdateChoices(k) ==
    /\ Inside(k, "update_choices")
    /\ Leave(k, UpdateOutcome(message[k]))
    /\ UNCHANGED <<registry, message, granted>>

\* The reply goes out.  A registering method answers with a failure whether
\* it registered the request or not.
Return(k) ==
    /\ at[k] = "answered"
    /\ at' = [at EXCEPT ![k] = "idle"]
    /\ message' = [message EXCEPT ![k] = NoMessage]
    /\ answer' = [answer EXCEPT ![k] = "none"]
    /\ UNCHANGED <<registry, lock, granted>>

Tick ==
    /\ registry' = Elapse(registry)
    /\ UNCHANGED <<lock, at, message, answer, granted>>

\* The daemon ends or crashes, and with it the bus connection.
Restart ==
    /\ registry' = Empty
    /\ lock' = NoCall
    /\ at' = [k \in Call |-> "idle"]
    /\ message' = [k \in Call |-> NoMessage]
    /\ answer' = [k \in Call |-> "none"]
    /\ granted' = {}

-----------------------------------------------------------------------------
Progress(k) ==
    Identify(k) \/ Enter(k) \/ BeginRequest(k) \/ Settle(k) \/ UpdateChoices(k) \/ Return(k)

Next == Tick \/ Restart \/ \E k \in Call : Receive(k) \/ Progress(k)

Spec == Init /\ [][Next]_vars

\* Every call is run to its end, and the mutex is not kept from a call for
\* ever while it is free again and again.
Fairness == \A k \in Call : WF_vars(Progress(k)) /\ SF_vars(Enter(k))

FairSpec == Spec /\ Fairness
AgingSpec == FairSpec /\ WF_vars(Tick)

-----------------------------------------------------------------------------
Refusals == {"invalid_request", "unauthorized_client", "ownership_mismatch",
             "invalid_parent_window", "request_conflict", "request_not_found",
             "invalid_transition"}

\* Every variable has its type, and whoever is past the mutex holds it.
TypeOK ==
    /\ IsIdMap(registry, RequestEntry)
    /\ lock \in Call \cup {NoCall}
    /\ at \in [Call -> {"idle", "received", "waiting", "inside", "begun", "answered"}]
    /\ message \in [Call -> Traffic \cup {NoMessage}]
    /\ answer \in [Call -> Refusals \cup {"none", "registered", "ok"}]
    /\ granted \subseteq [id : RequestId, owner : Owner, parent : Parent]
    /\ \A k \in Call : lock = k <=> at[k] \in {"inside", "begun"}

\* No caller ever meets a request in flight: between two holders of the mutex
\* every registered request has ended (portal_dispatch.rs: begin, then fail).
SettledBetweenHolders == lock = NoCall => \A i \in DOMAIN registry : IsTerminal(registry[i].state)

\* However senders collide on a segment and tokens are used again, an id is
\* registered for one owner and one parent (portal.rs derive_request_id,
\* portal_dispatch.rs begin_request).
OneIdentityPerId == \A g, h \in granted : g.id = h.id => g = h

\* A call that is refused, however late, leaves nothing behind: while nobody
\* is inside, what is registered is what was granted, as it was granted
\* (portal_dispatch.rs: the begin is not undone when the failure after it is
\* refused).
RegisteredIsGranted ==
    lock = NoCall =>
        granted = {[id |-> i, owner |-> registry[i].owner, parent |-> registry[i].parent]
                     : i \in DOMAIN registry}

\* A consequence of the placeholder: no order of calls gets UpdateChoices
\* accepted, since what it could update has always ended.
UpdateChoicesRefused ==
    \A k \in Call : message[k].method = "update_choices" => answer[k] # "ok"

\* The calls that claim a request: sound in every part, and for what.
Claims(m) ==
    /\ m.method = "register"
    /\ IdentityOutcome(m) = "ok"
    /\ m.app # InvalidApp
    /\ m.parent # InvalidParent
Claim == [m \in {n \in Traffic : Claims(n)} |-> Grant(m)]

\* The book: what is registered and has ended.
Entered(i) == [id |-> i, owner |-> registry[i].owner, parent |-> registry[i].parent]
Book == INSTANCE PortalBook WITH
    book <- {Entered(i) : i \in TerminalIds(registry)},
    asked <- message,
    Refusal <- Refusals

\* Seen from outside each call takes effect at one instant, whatever runs
\* beside it (dbus.rs with_dispatch; portal_dispatch.rs
\* register_unimplemented_call, in two steps on the registry).
ImplementsBook == Book!BookSpec

\* Every call is answered, whoever holds the mutex meanwhile.
CallsAnswered == \A k \in Call : at[k] = "received" ~> at[k] = "idle"

\* What README.md says of GARWARP_TERMINAL_RETENTION_MS, "retention window
\* before terminal requests are pruned", read for this registry: a request
\* that ended does not stay for ever untouched.
TerminalRequestsPruned ==
    \A i \in RequestId :
        []<>(i \in DOMAIN registry => registry[i].state \in InFlight \/ registry[i].idle = 0)
=============================================================================
