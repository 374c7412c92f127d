------------------------ MODULE PortalDispatchProofs ------------------------
(***************************************************************************)
(* Proofs about PortalDispatch, for every number of calls and senders and  *)
(* every way senders share handle segments.                                *)
(***************************************************************************)
EXTENDS PortalDispatch, RequestRegistryProofs

\* Where a call is tells what is known of it: past request_identity_for_call
\* its sender and handle are sound, and it has an answer once it is answered.
Vetted ==
    \A k \in Call :
        /\ at[k] = "idle" => message[k] = NoMessage
        /\ at[k] # "idle" => message[k] \in Message
        /\ at[k] \in {"waiting", "inside", "begun"} => IdentityOutcome(message[k]) = "ok"
        /\ answer[k] = "none" <=> at[k] # "answered"

Matches(e, m) == e.owner = OwnerOf(m) /\ e.parent = m.parent

\* The call between begin and fail has its own request, and any request that
\* has not ended belongs to such a call.
OneUnsettled ==
    /\ \A k \in Call : at[k] = "begun" =>
          /\ message[k].method = "register"
          /\ message[k].handle \in DOMAIN registry
          /\ Matches(registry[message[k].handle], message[k])
          /\ ~IsTerminal(registry[message[k].handle].state)
    /\ \A i \in DOMAIN registry :
          \/ IsTerminal(registry[i].state)
          \/ \E k \in Call : at[k] = "begun" /\ message[k].handle = i

\* The registry still holds what was granted, under the same identity.
GrantsKept ==
    \A g \in granted : /\ g.id \in DOMAIN registry
                       /\ registry[g.id].owner = g.owner
                       /\ registry[g.id].parent = g.parent

Dispatched ==
    TypeOK /\ Vetted /\ OneUnsettled /\ GrantsKept /\ UpdateChoicesRefused

-----------------------------------------------------------------------------
LEMMA VettedMessage ==
    ASSUME NEW m \in Message, IdentityOutcome(m) = "ok"
    PROVE  /\ m.sender \in Sender
           /\ m.handle \in RequestId
           /\ m.method = "register" =>
                 /\ m.app \in App \cup {InvalidApp}
                 /\ m.parent \in Parent \cup {InvalidParent}
BY DEF Message, IdentityOutcome

LEMMA OwnerOfType ==
    ASSUME NEW m, m.sender \in Sender, m.app \in App
    PROVE  OwnerOf(m) \in Owner
BY DispatchAssumption DEF OwnerOf

\* Nothing but the places and answers of calls outside the mutex changes.
LEMMA OutsideStep ==
    ASSUME Dispatched, NEW k \in Call, NEW place,
           at' = [at EXCEPT ![k] = place],
           at[k] \notin {"inside", "begun"}, place \notin {"inside", "begun"},
           UNCHANGED <<registry, lock, granted>>,
           \A j \in Call \ {k} : message'[j] = message[j]
    PROVE  /\ OneUnsettled'
           /\ GrantsKept'
           /\ \A j \in Call : lock' = j <=> at'[j] \in {"inside", "begun"}
<1> USE DEF Dispatched, TypeOK
<1>1. \A j \in Call : at[j] = "begun" => at'[j] = "begun" /\ message'[j] = message[j]
  OBVIOUS
<1>2. \A j \in Call : at'[j] = "begun" => at[j] = "begun" /\ message'[j] = message[j]
  OBVIOUS
<1>3. OneUnsettled'
  BY <1>1, <1>2 DEF OneUnsettled, Matches, OwnerOf
<1>4. GrantsKept'
  BY DEF GrantsKept
<1> QED BY <1>3, <1>4

LEMMA DispatchedInit == Init => Dispatched
<1> SUFFICES ASSUME Init PROVE Dispatched
  OBVIOUS
<1>1. TypeOK
  BY EmptyType, DispatchAssumption DEF Init, TypeOK
<1>2. Vetted /\ UpdateChoicesRefused
  BY DEF Init, Vetted, UpdateChoicesRefused, NoMessage
<1>3. OneUnsettled /\ GrantsKept
  BY EmptyType DEF Init, OneUnsettled, GrantsKept
<1> QED BY <1>1, <1>2, <1>3 DEF Dispatched

LEMMA ReceiveKeeps == ASSUME Dispatched, NEW k \in Call, Receive(k) PROVE Dispatched'
<1> USE DEF Dispatched
<1>1. OneUnsettled' /\ GrantsKept' /\ \A j \in Call : lock' = j <=> at'[j] \in {"inside", "begun"}
  BY OutsideStep DEF Receive, TypeOK
<1>2. TypeOK'
  BY <1>1 DEF Receive, TypeOK
<1>3. Vetted'
  BY DispatchAssumption DEF Receive, Vetted, TypeOK
<1>4. UpdateChoicesRefused'
  BY DEF Receive, Vetted, UpdateChoicesRefused, TypeOK
<1> QED BY <1>1, <1>2, <1>3, <1>4

LEMMA IdentifyKeeps == ASSUME Dispatched, NEW k \in Call, Identify(k) PROVE Dispatched'
<1> USE DEF Dispatched
<1>1. PICK place \in {"waiting", "answered"} : at' = [at EXCEPT ![k] = place]
  BY DEF Identify
<1>2. OneUnsettled' /\ GrantsKept' /\ \A j \in Call : lock' = j <=> at'[j] \in {"inside", "begun"}
  BY <1>1, OutsideStep DEF Identify, TypeOK
<1>3. IdentityOutcome(message[k]) \in Refusals \cup {"ok"}
  BY DEF IdentityOutcome, Refusals
<1>4. TypeOK'
  BY <1>1, <1>2, <1>3 DEF Identify, TypeOK
<1>5. Vetted'
  BY <1>3 DEF Identify, Vetted, TypeOK, Refusals
<1>6. UpdateChoicesRefused'
  BY DEF Identify, UpdateChoicesRefused, TypeOK
<1> QED BY <1>2, <1>4, <1>5, <1>6

LEMMA EnterKeeps == ASSUME Dispatched, NEW k \in Call, Enter(k) PROVE Dispatched'
<1> USE DEF Dispatched
<1>1. TypeOK'
  BY DispatchAssumption DEF Enter, TypeOK
<1>2. Vetted' /\ UpdateChoicesRefused'
  BY DEF Enter, Vetted, UpdateChoicesRefused, TypeOK
<1>3. OneUnsettled' /\ GrantsKept'
  BY DEF Enter, OneUnsettled, GrantsKept, TypeOK, Matches, OwnerOf
<1> QED BY <1>1, <1>2, <1>3

LEMMA ReturnKeeps == ASSUME Dispatched, NEW k \in Call, Return(k) PROVE Dispatched'
<1> USE DEF Dispatched
<1>1. OneUnsettled' /\ GrantsKept' /\ \A j \in Call : lock' = j <=> at'[j] \in {"inside", "begun"}
  BY OutsideStep DEF Return, TypeOK
<1>2. TypeOK'
  BY <1>1 DEF Return, TypeOK
<1>3. Vetted' /\ UpdateChoicesRefused'
  BY DEF Return, Vetted, UpdateChoicesRefused, TypeOK
<1> QED BY <1>1, <1>2, <1>3

\* The holder of the mutex that comes out with an answer and leaves the
\* registry as it is.
LEMMA LeaveKeeps ==
    ASSUME Dispatched, NEW k \in Call, at[k] = "inside",
           NEW outcome \in Refusals \cup {"registered", "ok"}, Leave(k, outcome),
           message[k].method = "update_choices" => outcome # "ok",
           UNCHANGED <<registry, message>>,
           granted' \subseteq [id : RequestId, owner : Owner, parent : Parent], GrantsKept'
    PROVE  Dispatched'
<1> USE DEF Dispatched, Leave
<1>1. TypeOK'
  BY DispatchAssumption DEF TypeOK
<1>2. Vetted' /\ UpdateChoicesRefused'
  BY DEF Vetted, UpdateChoicesRefused, TypeOK, Refusals
<1>3. OneUnsettled'
  BY DEF OneUnsettled, TypeOK, Matches, OwnerOf
<1> QED BY <1>1, <1>2, <1>3

\* Whoever is inside finds every request ended.
LEMMA InsideSettled ==
    ASSUME Dispatched, NEW k \in Call, at[k] = "inside"
    PROVE  /\ \A i \in DOMAIN registry : IsTerminal(registry[i].state)
           /\ \A j \in Call : at[j] # "begun"
<1>1. \A j \in Call : at[j] # "begun"
  BY DispatchAssumption DEF Dispatched, TypeOK
<1> QED BY <1>1 DEF Dispatched, OneUnsettled

LEMMA UpdateChoicesKeeps == ASSUME Dispatched, NEW k \in Call, UpdateChoices(k) PROVE Dispatched'
<1>1. at[k] = "inside" /\ message[k].method = "update_choices"
  BY DEF UpdateChoices, Inside
<1>2. UpdateOutcome(message[k]) \in Refusals
  BY <1>1, InsideSettled DEF UpdateOutcome, Refusals
<1>3. UpdateOutcome(message[k]) # "ok"
  BY <1>2 DEF Refusals
<1>4. /\ granted' \subseteq [id : RequestId, owner : Owner, parent : Parent]
      /\ GrantsKept'
  BY DEF UpdateChoices, Dispatched, TypeOK, GrantsKept
<1> QED BY <1>1, <1>2, <1>3, <1>4, LeaveKeeps DEF UpdateChoices

\* What RegisterOutcome has checked when it lets a call go on.
LEMMA RegisterOutcomeShape ==
    ASSUME NEW m \in Message, m.method = "register", IdentityOutcome(m) = "ok"
    PROVE  /\ RegisterOutcome(m) \in Refusals \cup {"begun", "known"}
           /\ RegisterOutcome(m) \in {"begun", "known"} =>
                 m.handle \in RequestId /\ OwnerOf(m) \in Owner /\ m.parent \in Parent
           /\ RegisterOutcome(m) = "begun" => m.handle \notin DOMAIN registry
           /\ RegisterOutcome(m) = "known" =>
                 m.handle \in DOMAIN registry /\ Matches(registry[m.handle], m)
<1>1. /\ m.sender \in Sender /\ m.handle \in RequestId
      /\ m.app \in App \cup {InvalidApp} /\ m.parent \in Parent \cup {InvalidParent}
  BY VettedMessage
<1>2. m.app # InvalidApp => OwnerOf(m) \in Owner
  BY <1>1, OwnerOfType
<1>3. RegisterOutcome(m) \in Refusals \cup {"begun", "known"}
  BY DEF RegisterOutcome, Refusals
<1>4. RegisterOutcome(m) \in {"begun", "known"} => m.app # InvalidApp /\ m.parent # InvalidParent
  BY DEF RegisterOutcome
<1>5. RegisterOutcome(m) = "begun" => m.handle \notin DOMAIN registry
  BY DEF RegisterOutcome
<1>6. RegisterOutcome(m) = "known" => m.handle \in DOMAIN registry /\ Matches(registry[m.handle], m)
  BY DEF RegisterOutcome, Matches
<1> QED BY <1>1, <1>2, <1>3, <1>4, <1>5, <1>6

\* A grant that the registry bears out is kept, and is well typed.
LEMMA GrantBorneOut ==
    ASSUME GrantsKept, NEW m, m.handle \in DOMAIN registry, Matches(registry[m.handle], m),
           granted' = granted \cup {Grant(m)},
           DOMAIN registry' = DOMAIN registry,
           \A i \in DOMAIN registry : /\ registry'[i].owner = registry[i].owner
                                      /\ registry'[i].parent = registry[i].parent
    PROVE  GrantsKept'
BY DEF GrantsKept, Grant, Matches

LEMMA BeginRequestKeeps == ASSUME Dispatched, NEW k \in Call, BeginRequest(k) PROVE Dispatched'
<1> DEFINE m == message[k]
           outcome == RegisterOutcome(m)
<1>1. /\ at[k] = "inside" /\ m.method = "register" /\ m \in Message
      /\ IdentityOutcome(m) = "ok" /\ UNCHANGED message
  BY DEF BeginRequest, Inside, Dispatched, Vetted
<1>2. /\ outcome \in Refusals \cup {"begun", "known"}
      /\ outcome \in {"begun", "known"} =>
            m.handle \in RequestId /\ OwnerOf(m) \in Owner /\ m.parent \in Parent
      /\ outcome = "begun" => m.handle \notin DOMAIN registry
      /\ outcome = "known" => m.handle \in DOMAIN registry /\ Matches(registry[m.handle], m)
  BY <1>1, RegisterOutcomeShape
<1>3. /\ \A i \in DOMAIN registry : IsTerminal(registry[i].state)
      /\ \A j \in Call : at[j] # "begun"
  BY <1>1, InsideSettled
<1>4. CASE /\ outcome = "begun"
           /\ registry' = Begin(registry, m.handle, OwnerOf(m), m.parent)
           /\ at' = [at EXCEPT ![k] = "begun"]
           /\ UNCHANGED <<lock, answer, granted>>
  <2> HIDE DEF m, outcome
  <2>0. IsIdMap(registry, RequestEntry)
    BY DEF Dispatched, TypeOK
  <2>1. \A owner \in Owner, parent \in Parent :
            LET reg == Begin(registry, m.handle, owner, parent) IN
            /\ IsIdMap(reg, RequestEntry)
            /\ DOMAIN reg = DOMAIN registry \cup {m.handle}
            /\ reg[m.handle] = NewEntry(owner, parent)
            /\ \A i \in DOMAIN registry \ {m.handle} : reg[i] = registry[i]
    BY <2>0, <1>2, <1>4, BeginType
  <2>2. /\ IsIdMap(registry', RequestEntry)
        /\ DOMAIN registry' = DOMAIN registry \cup {m.handle}
        /\ registry'[m.handle] = NewEntry(OwnerOf(m), m.parent)
        /\ \A i \in DOMAIN registry \ {m.handle} : registry'[i] = registry[i]
    BY <1>2, <1>4, <2>1
  <2>3. /\ Matches(registry'[m.handle], m)
        /\ ~IsTerminal(registry'[m.handle].state)
    BY <2>2 DEF NewEntry, Matches, IsTerminal, Terminal
  <2>4. TypeOK'
    BY <1>1, <1>4, <2>2 DEF Dispatched, TypeOK
  <2>5. Vetted' /\ UpdateChoicesRefused'
    BY <1>1, <1>4 DEF Dispatched, Vetted, UpdateChoicesRefused, TypeOK, m
  <2>6. OneUnsettled'
    <3>1. /\ at'[k] = "begun" /\ message'[k] = m
          /\ \A j \in Call : at'[j] = "begun" => j = k
      BY <1>1, <1>3, <1>4 DEF Dispatched, TypeOK, m
    <3>2. \A i \in DOMAIN registry' : IsTerminal(registry'[i].state) \/ m.handle = i
      BY <1>3, <2>2
    <3> QED BY <1>1, <2>2, <2>3, <3>1, <3>2 DEF OneUnsettled, Matches, OwnerOf
  <2>7. GrantsKept'
    BY <1>2, <1>4, <2>2 DEF Dispatched, GrantsKept
  <2> QED BY <2>4, <2>5, <2>6, <2>7 DEF Dispatched
<1>6. CASE outcome = "known" /\ granted' = granted \cup {Grant(m)} /\ Leave(k, "registered")
           /\ UNCHANGED registry
  <2>1. GrantsKept'
    BY <1>2, <1>6, GrantBorneOut DEF Dispatched
  <2>2. granted' \subseteq [id : RequestId, owner : Owner, parent : Parent]
    BY <1>2, <1>6 DEF Dispatched, TypeOK, Grant
  <2> QED BY <1>1, <1>6, <2>1, <2>2, LeaveKeeps
<1>7. CASE outcome \notin {"begun", "known"} /\ Leave(k, outcome) /\ UNCHANGED <<registry, granted>>
  <2>1. GrantsKept' /\ granted' \subseteq [id : RequestId, owner : Owner, parent : Parent]
    BY <1>7 DEF Dispatched, GrantsKept, TypeOK
  <2> QED BY <1>1, <1>2, <1>7, <2>1, LeaveKeeps
<1>8. CASE outcome = "begun"
  <2>1. registry' = Begin(registry, m.handle, OwnerOf(m), m.parent)
    BY <1>8 DEF BeginRequest, Refusals
  <2>2. ~IsTerminal(registry'[m.handle].state)
    BY <2>1 DEF Begin, Put, NewEntry, IsTerminal, Terminal
  <2> QED BY <1>4, <1>8, <2>1, <2>2 DEF BeginRequest
<1>9. CASE outcome = "known"
  <2>1. IsTerminal(registry[m.handle].state)
    BY <1>2, <1>3, <1>9
  <2> QED BY <1>6, <1>9, <2>1 DEF BeginRequest
<1> QED BY <1>7, <1>8, <1>9 DEF BeginRequest

\* The placeholder failure: legal, since the request is the call's own and
\* has not ended.
LEMMA SettleKeeps == ASSUME Dispatched, NEW k \in Call, Settle(k) PROVE Dispatched'
<1> DEFINE m == message[k]
<1>1. /\ at[k] = "begun" /\ UNCHANGED message
      /\ m \in Message /\ m.method = "register" /\ IdentityOutcome(m) = "ok"
      /\ m.handle \in DOMAIN registry /\ Matches(registry[m.handle], m)
      /\ ~IsTerminal(registry[m.handle].state)
  BY DEF Settle, Dispatched, Vetted, OneUnsettled
<1>2. /\ lock = k
      /\ \A j \in Call : at[j] = "begun" => j = k
      /\ \A i \in DOMAIN registry : i = m.handle \/ IsTerminal(registry[i].state)
  BY <1>1 DEF Dispatched, TypeOK, OneUnsettled
<1>3. registry[m.handle] \in RequestEntry /\ IsIdMap(registry, RequestEntry)
  BY <1>1, IdMapMember DEF Dispatched, TypeOK
<1>4. "failed" \in RequestState /\ IsTerminal("failed")
  BY DEF RequestState, IsTerminal, Terminal
<1>5. TransitionAnswer(registry, m.handle, OwnerOf(m), "failed") = "ok"
  BY <1>1, <1>3
     DEF TransitionAnswer, Matches, IsValidTransition, RequestEntry, RequestState, InFlight,
         IsTerminal, Terminal
<1>6. /\ registry' = Transition(registry, m.handle, "failed")
      /\ granted' = granted \cup {Grant(m)}
      /\ Leave(k, "registered")
  BY <1>5 DEF Settle
<1> HIDE DEF m
<1>7. /\ IsIdMap(registry', RequestEntry)
      /\ DOMAIN registry' = DOMAIN registry
      /\ registry'[m.handle] = Touch(registry[m.handle], "failed")
      /\ \A i \in DOMAIN registry \ {m.handle} : registry'[i] = registry[i]
  BY <1>1, <1>3, <1>4, <1>6, TransitionType
<1>8. \A i \in DOMAIN registry : /\ registry'[i].owner = registry[i].owner
                                 /\ registry'[i].parent = registry[i].parent
  BY <1>3, <1>4, <1>7, TouchType
<1>9. GrantsKept'
  BY <1>1, <1>6, <1>7, <1>8, GrantBorneOut DEF Dispatched
<1>10. OneUnsettled'
  <2>1. \A i \in DOMAIN registry' : IsTerminal(registry'[i].state)
    BY <1>2, <1>3, <1>4, <1>7, TouchType
  <2>2. \A j \in Call : at'[j] # "begun"
    BY <1>2, <1>6 DEF Leave, Dispatched, TypeOK
  <2> QED BY <2>1, <2>2 DEF OneUnsettled
<1>11. TypeOK'
  <2>1. Grant(m) \in [id : RequestId, owner : Owner, parent : Parent]
    BY <1>1, <1>3, <1>7 DEF Grant, Matches, RequestEntry, IsIdMap
  <2>2. \A j \in Call : lock' = j <=> at'[j] \in {"inside", "begun"}
    BY <1>2, <1>6, DispatchAssumption DEF Leave, Dispatched, TypeOK
  <2> QED BY <1>1, <1>6, <1>7, <2>1, <2>2 DEF Leave, Dispatched, TypeOK
<1>12. Vetted' /\ UpdateChoicesRefused'
  BY <1>1, <1>6 DEF Leave, Dispatched, TypeOK, Vetted, UpdateChoicesRefused
<1> QED BY <1>9, <1>10, <1>11, <1>12 DEF Dispatched

LEMMA TickKeeps == ASSUME Dispatched, Tick PROVE Dispatched'
<1>1. /\ IsIdMap(registry', RequestEntry)
      /\ DOMAIN registry' = DOMAIN registry
      /\ \A i \in DOMAIN registry : Record(registry'[i]) = Record(registry[i])
  BY ElapseType DEF Tick, Dispatched, TypeOK
<1>2. \A i \in DOMAIN registry : /\ registry'[i].owner = registry[i].owner
                                 /\ registry'[i].parent = registry[i].parent
                                 /\ registry'[i].state = registry[i].state
  BY <1>1 DEF Record
<1>3. TypeOK' /\ Vetted' /\ UpdateChoicesRefused'
  BY <1>1 DEF Tick, Dispatched, TypeOK, Vetted, UpdateChoicesRefused
<1>4. OneUnsettled' /\ GrantsKept'
  BY <1>1, <1>2 DEF Tick, Dispatched, OneUnsettled, GrantsKept, Matches, OwnerOf
<1> QED BY <1>3, <1>4 DEF Dispatched

LEMMA RestartKeeps == ASSUME Restart PROVE Dispatched'
<1>1. DOMAIN registry' = {} /\ IsIdMap(registry', RequestEntry)
  BY EmptyType DEF Restart
<1>2. TypeOK' /\ Vetted' /\ UpdateChoicesRefused'
  BY <1>1, DispatchAssumption DEF Restart, TypeOK, Vetted, UpdateChoicesRefused, NoMessage
<1>3. OneUnsettled' /\ GrantsKept'
  BY <1>1 DEF Restart, OneUnsettled, GrantsKept
<1> QED BY <1>2, <1>3 DEF Dispatched

LEMMA DispatchedStep == Dispatched /\ [Next]_vars => Dispatched'
<1> SUFFICES ASSUME Dispatched, [Next]_vars PROVE Dispatched'
  OBVIOUS
<1>1. CASE UNCHANGED vars
  BY <1>1 DEF vars, Dispatched, TypeOK, Vetted, OneUnsettled, GrantsKept, UpdateChoicesRefused,
              Matches, OwnerOf
<1>2. CASE Tick
  BY <1>2, TickKeeps
<1>3. CASE Restart
  BY <1>3, RestartKeeps
<1>4. ASSUME NEW k \in Call, Receive(k) \/ Progress(k) PROVE Dispatched'
  BY <1>4, ReceiveKeeps, IdentifyKeeps, EnterKeeps, BeginRequestKeeps, SettleKeeps,
     UpdateChoicesKeeps, ReturnKeeps DEF Progress
<1> QED BY <1>1, <1>2, <1>3, <1>4 DEF Next

LEMMA DispatchedAlways == Spec => []Dispatched
BY DispatchedInit, DispatchedStep, PTL DEF Spec

-----------------------------------------------------------------------------
\* What is registered was granted, or is about to be by the call that began it.
Accounted(i) ==
    \/ \E g \in granted : g.id = i
    \/ \E k \in Call : at[k] = "begun" /\ message[k].handle = i

GrantsCover == \A i \in DOMAIN registry : Accounted(i)

LEMMA GrantsCoverBegin ==
    ASSUME Dispatched, GrantsCover, NEW k \in Call, BeginRequest(k)
    PROVE  GrantsCover'
<1> DEFINE m == message[k]
           outcome == RegisterOutcome(m)
<1>1. /\ at[k] = "inside" /\ m.method = "register" /\ m \in Message
      /\ IdentityOutcome(m) = "ok" /\ UNCHANGED message
  BY DEF BeginRequest, Inside, Dispatched, Vetted
<1>2. /\ outcome = "begun" => m.handle \in RequestId /\ OwnerOf(m) \in Owner /\ m.parent \in Parent
      /\ outcome = "known" => m.handle \in DOMAIN registry
  BY <1>1, RegisterOutcomeShape
<1>3. \A j \in Call : at[j] # "begun"
  BY <1>1, InsideSettled
<1>4. granted \subseteq granted' /\ DOMAIN registry \subseteq DOMAIN registry \cup {m.handle}
  BY DEF BeginRequest
<1>5. \A i \in DOMAIN registry : \E g \in granted' : g.id = i
  BY <1>3, <1>4 DEF GrantsCover, Accounted
<1>6. CASE outcome = "begun"
  <2>1. registry' = Begin(registry, m.handle, OwnerOf(m), m.parent)
    BY <1>6 DEF BeginRequest, Refusals
  <2>2. IsIdMap(registry, RequestEntry)
    BY DEF Dispatched, TypeOK
  <2> HIDE DEF m, outcome
  <2>3. \A id \in RequestId, owner \in Owner, parent \in Parent :
            DOMAIN Begin(registry, id, owner, parent) = DOMAIN registry \cup {id}
    BY <2>2, BeginType
  <2>4. DOMAIN registry' = DOMAIN registry \cup {m.handle}
    BY <1>2, <1>6, <2>1, <2>3
  <2>5. ~IsTerminal(registry'[m.handle].state)
    BY <2>1 DEF Begin, Put, NewEntry, IsTerminal, Terminal
  <2>6. at'[k] = "begun"
    BY <1>6, <2>5 DEF BeginRequest, Dispatched, TypeOK, m, outcome
  <2> QED BY <1>1, <1>5, <2>4, <2>6 DEF GrantsCover, Accounted, m
<1>7. CASE outcome # "begun"
  <2>1. registry' = registry
    BY <1>7 DEF BeginRequest
  <2> QED BY <1>5, <2>1 DEF GrantsCover, Accounted
<1> QED BY <1>6, <1>7

LEMMA GrantsCoverSettle ==
    ASSUME Dispatched, GrantsCover, NEW k \in Call, Settle(k)
    PROVE  GrantsCover'
<1> DEFINE m == message[k]
<1>1. /\ at[k] = "begun"
      /\ m.handle \in DOMAIN registry /\ Matches(registry[m.handle], m)
      /\ ~IsTerminal(registry[m.handle].state)
  BY DEF Settle, Dispatched, OneUnsettled
<1>2. registry[m.handle] \in RequestEntry /\ IsIdMap(registry, RequestEntry)
  BY <1>1, IdMapMember DEF Dispatched, TypeOK
<1>3. TransitionAnswer(registry, m.handle, OwnerOf(m), "failed") = "ok"
  BY <1>1, <1>2
     DEF TransitionAnswer, Matches, IsValidTransition, RequestEntry, RequestState, InFlight,
         IsTerminal, Terminal
<1>4. /\ registry' = Transition(registry, m.handle, "failed")
      /\ granted' = granted \cup {Grant(m)}
  BY <1>3 DEF Settle
<1>5. DOMAIN registry' = DOMAIN registry
  BY <1>1, <1>2, <1>4, TransitionType DEF RequestState, Terminal
<1>6. \A j \in Call : at[j] = "begun" => j = k
  BY <1>1 DEF Dispatched, TypeOK
<1>7. \A i \in DOMAIN registry : \E g \in granted' : g.id = i
  <2>1. Grant(m).id = m.handle /\ Grant(m) \in granted' /\ granted \subseteq granted'
    BY <1>4 DEF Grant
  <2> QED BY <1>6, <2>1 DEF GrantsCover, Accounted
<1> QED BY <1>5, <1>7 DEF GrantsCover, Accounted

\* A call that is not between begin and fail, before a step or after it, has
\* no part in what is registered.
LEMMA GrantsCoverElsewhere ==
    ASSUME Dispatched, GrantsCover, NEW k \in Call,
           \/ Receive(k) \/ Identify(k) \/ Enter(k) \/ UpdateChoices(k) \/ Return(k)
    PROVE  GrantsCover'
<1>1. UNCHANGED <<registry, granted>> /\ at[k] # "begun"
  BY DEF Receive, Identify, Enter, UpdateChoices, Inside, Leave, Return
<1>2. \A j \in Call \ {k} : at'[j] = at[j] /\ message'[j] = message[j]
  BY DEF Receive, Identify, Enter, UpdateChoices, Leave, Return, Dispatched, TypeOK
<1> QED BY <1>1, <1>2 DEF GrantsCover, Accounted

LEMMA GrantsCoverStep == Dispatched /\ GrantsCover /\ [Next]_vars => GrantsCover'
<1> SUFFICES ASSUME Dispatched, GrantsCover, [Next]_vars PROVE GrantsCover'
  OBVIOUS
<1>1. CASE UNCHANGED vars
  BY <1>1 DEF vars, GrantsCover, Accounted
<1>2. CASE Tick
  <2>1. DOMAIN registry' = DOMAIN registry
    BY <1>2, ElapseType DEF Tick, Dispatched, TypeOK
  <2> QED BY <1>2, <2>1 DEF Tick, GrantsCover, Accounted
<1>3. CASE Restart
  BY <1>3, EmptyType DEF Restart, GrantsCover
<1>4. ASSUME NEW k \in Call, Receive(k) \/ Progress(k) PROVE GrantsCover'
  BY <1>4, GrantsCoverBegin, GrantsCoverSettle, GrantsCoverElsewhere DEF Progress
<1> QED BY <1>1, <1>2, <1>3, <1>4 DEF Next

LEMMA GrantsCoverAlways == Spec => []GrantsCover
<1>1. Init => GrantsCover
  BY EmptyType DEF Init, GrantsCover
<1> QED BY <1>1, GrantsCoverStep, DispatchedAlways, PTL DEF Spec

-----------------------------------------------------------------------------
\* Types, and whoever is past the mutex holds it (dbus.rs with_dispatch).
THEOREM TypeCorrect == Spec => []TypeOK
<1>1. Dispatched => TypeOK
  BY DEF Dispatched
<1> QED BY <1>1, DispatchedAlways, PTL

\* No call, whatever runs beside it, finds a request in flight
\* (portal_dispatch.rs register_unimplemented_call).
THEOREM NothingInFlight == Spec => []SettledBetweenHolders
<1>1. Dispatched => SettledBetweenHolders
  BY DispatchAssumption DEF Dispatched, TypeOK, OneUnsettled, SettledBetweenHolders
<1> QED BY <1>1, DispatchedAlways, PTL

\* However sender_to_handle_segment makes senders collide, an id is granted
\* to one owner for one parent (portal_dispatch.rs begin_request).
THEOREM IdentityIsUnique == Spec => []OneIdentityPerId
<1>1. Dispatched => OneIdentityPerId
  BY DEF Dispatched, TypeOK, GrantsKept, OneIdentityPerId
<1> QED BY <1>1, DispatchedAlways, PTL

\* UpdateChoices is never accepted (portal_dispatch.rs validate_update_choices).
THEOREM NoUpdateAccepted == Spec => []UpdateChoicesRefused
<1>1. Dispatched => UpdateChoicesRefused
  BY DEF Dispatched
<1> QED BY <1>1, DispatchedAlways, PTL

\* Nothing is registered but what was granted, under the identity it was
\* granted for: no call is refused after its begin (portal_dispatch.rs
\* register_unimplemented_call).
THEOREM NothingLeftBehind == Spec => []RegisteredIsGranted
<1>1. ASSUME Dispatched, GrantsCover, lock = NoCall
      PROVE  granted = {[id |-> i, owner |-> registry[i].owner, parent |-> registry[i].parent]
                          : i \in DOMAIN registry}
  <2>1. \A g \in granted : /\ g.id \in DOMAIN registry
                           /\ g = [id |-> g.id, owner |-> registry[g.id].owner,
                                  parent |-> registry[g.id].parent]
    BY <1>1 DEF Dispatched, TypeOK, GrantsKept
  <2>2. \A k \in Call : at[k] # "begun"
    BY <1>1, DispatchAssumption DEF Dispatched, TypeOK
  <2>3. \A i \in DOMAIN registry : \E g \in granted : g.id = i
    BY <1>1, <2>2 DEF GrantsCover, Accounted
  <2> QED BY <2>1, <2>3
<1>2. Dispatched /\ GrantsCover => RegisteredIsGranted
  BY <1>1 DEF RegisteredIsGranted
<1> QED BY <1>2, DispatchedAlways, GrantsCoverAlways, PTL

-----------------------------------------------------------------------------
\* The refinement of PortalBook.
Page == {Entered(i) : i \in TerminalIds(registry)}
BookStep == [Book!BookNext]_<<Page, message, answer>>

\* A step that keeps the identity and the state of every request keeps the page.
LEMMA SamePage ==
    ASSUME DOMAIN registry' = DOMAIN registry,
           \A i \in DOMAIN registry : /\ registry'[i].owner = registry[i].owner
                                      /\ registry'[i].parent = registry[i].parent
                                      /\ registry'[i].state = registry[i].state
    PROVE  Page' = Page
<1>1. TerminalIds(registry)' = TerminalIds(registry)
  BY DEF TerminalIds
<1>2. \A i \in TerminalIds(registry) : Entered(i)' = Entered(i)
  BY DEF Entered, TerminalIds
<1> QED BY <1>1, <1>2 DEF Page

LEMMA UnchangedPage == UNCHANGED registry => Page' = Page
BY SamePage

\* Who claims what.
LEMMA ClaimOf ==
    ASSUME NEW k \in Call, message[k] \in Traffic
    PROVE  /\ message[k] \in DOMAIN Claim <=> Claims(message[k])
           /\ Claims(message[k]) => Claim[message[k]] = Grant(message[k])
BY DEF Claim

\* Past the mutex and before it, a call is one the book has not answered.
LEMMA PendingCall ==
    ASSUME Dispatched, NEW k \in Call, at[k] \notin {"idle", "answered"}
    PROVE  message[k] \in Traffic /\ Book!Pending(k)
<1>1. message[k] # NoMessage
  BY DEF Dispatched, Vetted, Message, NoMessage
<1> QED BY <1>1 DEF Dispatched, Vetted, TypeOK, Book!Pending

LEMMA RefusedStep ==
    ASSUME Dispatched, NEW k \in Call, at[k] \notin {"idle", "answered"},
           ~Claims(message[k]), NEW r \in Refusals, answer' = [answer EXCEPT ![k] = r],
           UNCHANGED <<registry, message>>
    PROVE  BookStep
<1>1. Book!Refuse(k)
  BY PendingCall, ClaimOf, UnchangedPage DEF Book!Refuse, Page
<1> QED BY <1>1 DEF BookStep, Book!BookNext

LEMMA ReceiveIsAsk == ASSUME Dispatched, NEW k \in Call, Receive(k) PROVE BookStep
<1>1. Book!Ask(k)
  BY UnchangedPage DEF Receive, Dispatched, Vetted, Book!Ask, Page
<1> QED BY <1>1 DEF BookStep, Book!BookNext

LEMMA IdentifyInTheBook == ASSUME Dispatched, NEW k \in Call, Identify(k) PROVE BookStep
<1>1. CASE IdentityOutcome(message[k]) = "ok"
  BY <1>1, UnchangedPage DEF Identify, BookStep
<1>2. CASE IdentityOutcome(message[k]) # "ok"
  <2>1. IdentityOutcome(message[k]) \in Refusals
    BY <1>2 DEF IdentityOutcome, Refusals
  <2>2. ~Claims(message[k])
    BY <1>2 DEF Claims
  <2> QED BY <1>2, <2>1, <2>2, RefusedStep DEF Identify
<1> QED BY <1>1, <1>2

LEMMA EnterInTheBook == ASSUME NEW k \in Call, Enter(k) PROVE BookStep
BY UnchangedPage DEF Enter, BookStep

LEMMA ReturnIsHear == ASSUME Dispatched, NEW k \in Call, Return(k) PROVE BookStep
<1>1. message[k] # NoMessage /\ answer[k] # "none"
  BY DEF Return, Dispatched, Vetted, Message, NoMessage
<1>2. Book!Hear(k)
  BY <1>1, UnchangedPage DEF Return, Book!Hear, Page
<1> QED BY <1>2 DEF BookStep, Book!BookNext

LEMMA UpdateChoicesIsRefused ==
    ASSUME Dispatched, NEW k \in Call, UpdateChoices(k)
    PROVE  BookStep
<1>1. at[k] = "inside" /\ message[k].method = "update_choices"
  BY DEF UpdateChoices, Inside
<1>2. UpdateOutcome(message[k]) \in Refusals
  BY <1>1, InsideSettled DEF UpdateOutcome, Refusals
<1>3. ~Claims(message[k])
  BY <1>1 DEF Claims
<1> QED BY <1>1, <1>2, <1>3, RefusedStep DEF UpdateChoices, Leave

\* A claim the page has under the same identity, or does not have, is granted;
\* the page then has it.
LEMMA RegisteredStep ==
    ASSUME Dispatched, NEW k \in Call, at[k] \in {"inside", "begun"}, Claims(message[k]),
           message[k].handle \in TerminalIds(registry) => Entered(message[k].handle) = Grant(message[k]),
           Page' = Page \cup {Grant(message[k])},
           answer' = [answer EXCEPT ![k] = "registered"], UNCHANGED message
    PROVE  BookStep
<1> DEFINE m == message[k]
<1>1. /\ Book!Pending(k)
      /\ m \in DOMAIN Claim /\ Claim[m] = Grant(m)
  BY PendingCall, ClaimOf
<1>2. \A b \in Page : b.id = Grant(m).id => b = Grant(m)
  BY DEF Page, Entered, Grant
<1>3. Book!Register(k)
  BY <1>1, <1>2 DEF Book!Register, Page
<1> QED BY <1>3 DEF BookStep, Book!BookNext

\* The order of begin_request: whose the id is, then what it is for.
LEMMA ConflictStep ==
    ASSUME Dispatched, NEW k \in Call, at[k] = "inside", Claims(message[k]),
           message[k].handle \in TerminalIds(registry),
           Entered(message[k].handle) # Grant(message[k]),
           answer' = [answer EXCEPT ![k] =
                        IF registry[message[k].handle].owner # OwnerOf(message[k])
                          THEN "ownership_mismatch" ELSE "request_conflict"],
           UNCHANGED <<registry, message>>
    PROVE  BookStep
<1> DEFINE m == message[k]
           b == Entered(m.handle)
<1>1. /\ Book!Pending(k)
      /\ m \in DOMAIN Claim /\ Claim[m] = Grant(m)
  BY PendingCall, ClaimOf
<1>2. b \in Page /\ b.id = Grant(m).id /\ b # Grant(m)
  BY DEF Page, Entered, Grant
<1>3. answer' = [answer EXCEPT ![k] = IF b.owner # Grant(m).owner
                                        THEN "ownership_mismatch" ELSE "request_conflict"]
  BY DEF Entered, Grant
<1>4. Book!Conflict(k)
  BY <1>1, <1>2, <1>3, UnchangedPage DEF Book!Conflict, Page
<1> QED BY <1>4 DEF BookStep, Book!BookNext

LEMMA BeginRequestInTheBook ==
    ASSUME Dispatched, NEW k \in Call, BeginRequest(k)
    PROVE  BookStep
<1> DEFINE m == message[k]
           outcome == RegisterOutcome(m)
<1>1. /\ at[k] = "inside" /\ m.method = "register" /\ m \in Message
      /\ IdentityOutcome(m) = "ok" /\ UNCHANGED message
  BY DEF BeginRequest, Inside, Dispatched, Vetted
<1>2. /\ outcome \in Refusals \cup {"begun", "known"}
      /\ outcome \in {"begun", "known"} =>
            m.handle \in RequestId /\ OwnerOf(m) \in Owner /\ m.parent \in Parent
      /\ outcome = "begun" => m.handle \notin DOMAIN registry
      /\ outcome = "known" => m.handle \in DOMAIN registry /\ Matches(registry[m.handle], m)
  BY <1>1, RegisterOutcomeShape
<1>3. \A i \in DOMAIN registry : i \in TerminalIds(registry) /\ IsTerminal(registry[i].state)
  BY <1>1, InsideSettled DEF TerminalIds
<1>4. CASE outcome = "begun"
  <2>1. registry' = Begin(registry, m.handle, OwnerOf(m), m.parent)
    BY <1>4 DEF BeginRequest, Refusals
  <2>2. IsIdMap(registry, RequestEntry)
    BY DEF Dispatched, TypeOK
  <2> HIDE DEF m, outcome
  <2>3. \A owner \in Owner, parent \in Parent :
            LET reg == Begin(registry, m.handle, owner, parent) IN
            /\ IsIdMap(reg, RequestEntry)
            /\ DOMAIN reg = DOMAIN registry \cup {m.handle}
            /\ reg[m.handle] = NewEntry(owner, parent)
            /\ \A i \in DOMAIN registry \ {m.handle} : reg[i] = registry[i]
    BY <2>2, <1>2, <1>4, BeginType
  <2>4. /\ DOMAIN registry' = DOMAIN registry \cup {m.handle}
        /\ registry'[m.handle] = NewEntry(OwnerOf(m), m.parent)
        /\ \A i \in DOMAIN registry \ {m.handle} : registry'[i] = registry[i]
    BY <1>2, <1>4, <2>1, <2>3
  <2>5. ~IsTerminal(registry'[m.handle].state)
    BY <2>4 DEF NewEntry, IsTerminal, Terminal
  <2>6. /\ TerminalIds(registry)' = TerminalIds(registry)
        /\ \A i \in TerminalIds(registry) : registry'[i] = registry[i]
    BY <1>2, <1>4, <2>4, <2>5 DEF TerminalIds
  <2>7. Page' = Page
    BY <2>6 DEF Page, Entered
  <2>8. UNCHANGED answer
    BY <1>4, <2>5 DEF BeginRequest, m, outcome, Refusals
  <2> QED BY <1>1, <2>7, <2>8 DEF BookStep
<1>5. CASE outcome = "known"
  <2>1. Claims(m) /\ Entered(m.handle) = Grant(m) /\ m.handle \in TerminalIds(registry)
    BY <1>1, <1>2, <1>3, <1>5 DEF Claims, RegisterOutcome, Entered, Grant, Matches
  <2>2. registry' = registry /\ answer' = [answer EXCEPT ![k] = "registered"]
    BY <1>2, <1>3, <1>5 DEF BeginRequest, Leave
  <2>3. Page' = Page \cup {Grant(m)}
    BY <2>1, <2>2, UnchangedPage DEF Page
  <2> QED BY <1>1, <2>1, <2>2, <2>3, RegisteredStep
<1>6. CASE outcome \notin {"begun", "known"}
  <2>1. UNCHANGED registry /\ answer' = [answer EXCEPT ![k] = outcome]
    BY <1>6 DEF BeginRequest, Leave
  <2>2. CASE ~Claims(m)
    BY <1>1, <1>2, <1>6, <2>1, <2>2, RefusedStep
  <2>3. CASE Claims(m)
    <3>1. /\ m.handle \in DOMAIN registry
          /\ outcome = IF registry[m.handle].owner # OwnerOf(m)
                         THEN "ownership_mismatch" ELSE "request_conflict"
          /\ ~Matches(registry[m.handle], m)
      BY <1>6, <2>3 DEF Claims, RegisterOutcome, Matches
    <3>2. Entered(m.handle) # Grant(m)
      BY <3>1 DEF Entered, Grant, Matches
    <3> QED BY <1>1, <1>3, <2>1, <2>3, <3>1, <3>2, ConflictStep
  <2> QED BY <2>2, <2>3
<1> QED BY <1>2, <1>4, <1>5, <1>6

LEMMA SettleIsRegister == ASSUME Dispatched, NEW k \in Call, Settle(k) PROVE BookStep
<1> DEFINE m == message[k]
<1>1. /\ at[k] = "begun" /\ UNCHANGED message
      /\ m \in Message /\ m.method = "register" /\ IdentityOutcome(m) = "ok"
      /\ m.handle \in DOMAIN registry /\ Matches(registry[m.handle], m)
      /\ ~IsTerminal(registry[m.handle].state)
  BY DEF Settle, Dispatched, Vetted, OneUnsettled
<1>2. registry[m.handle] \in RequestEntry /\ IsIdMap(registry, RequestEntry)
  BY <1>1, IdMapMember DEF Dispatched, TypeOK
<1>3. "failed" \in RequestState /\ IsTerminal("failed")
  BY DEF RequestState, IsTerminal, Terminal
<1>4. TransitionAnswer(registry, m.handle, OwnerOf(m), "failed") = "ok"
  BY <1>1, <1>2
     DEF TransitionAnswer, Matches, IsValidTransition, RequestEntry, RequestState, InFlight,
         IsTerminal, Terminal
<1>5. registry' = Transition(registry, m.handle, "failed")
      /\ answer' = [answer EXCEPT ![k] = "registered"]
  BY <1>4 DEF Settle, Leave
<1>6. Claims(m)
  <2>1. OwnerOf(m) \in Owner /\ m.parent \in Parent
    BY <1>1, <1>2 DEF Matches, RequestEntry
  <2>2. m.app \in App
    BY <2>1, DispatchAssumption DEF OwnerOf
  <2> QED BY <1>1, <2>1, <2>2, DispatchAssumption DEF Claims
<1> HIDE DEF m
<1>7. /\ DOMAIN registry' = DOMAIN registry
      /\ registry'[m.handle] = Touch(registry[m.handle], "failed")
      /\ \A i \in DOMAIN registry \ {m.handle} : registry'[i] = registry[i]
  BY <1>1, <1>2, <1>3, <1>5, TransitionType
<1>8. /\ registry'[m.handle].owner = OwnerOf(m)
      /\ registry'[m.handle].parent = m.parent
      /\ IsTerminal(registry'[m.handle].state)
  BY <1>1, <1>2, <1>3, <1>7, TouchType DEF Matches
<1>9. PICK h, claim : h = m.handle /\ claim = Grant(m)
  OBVIOUS
<1>10. h \notin TerminalIds(registry)
  BY <1>1, <1>9 DEF TerminalIds
<1>11. TerminalIds(registry)' = TerminalIds(registry) \cup {h}
  BY <1>1, <1>7, <1>8, <1>9 DEF TerminalIds
<1>12. /\ \A i \in TerminalIds(registry) : Entered(i)' = Entered(i)
       /\ Entered(h)' = claim
  BY <1>7, <1>8, <1>9, <1>10 DEF TerminalIds, Entered, Grant
<1>13. Page' = Page \cup {claim}
  BY <1>11, <1>12 DEF Page
<1> QED BY <1>1, <1>5, <1>6, <1>9, <1>10, <1>13, RegisteredStep DEF m

LEMMA TickInTheBook == ASSUME Dispatched, Tick PROVE BookStep
<1>1. /\ DOMAIN registry' = DOMAIN registry
      /\ \A i \in DOMAIN registry : Record(registry'[i]) = Record(registry[i])
  BY ElapseType DEF Tick, Dispatched, TypeOK
<1>2. Page' = Page
  BY <1>1, SamePage DEF Record
<1> QED BY <1>2 DEF Tick, BookStep

LEMMA RestartStartsOver == ASSUME Restart PROVE BookStep
<1>1. Page' = {}
  BY EmptyType DEF Restart, Page, TerminalIds
<1>2. Book!StartOver
  BY <1>1 DEF Restart, Book!StartOver, Book!BookInit, Page
<1> QED BY <1>2 DEF BookStep, Book!BookNext

LEMMA StepInTheBook == Dispatched /\ [Next]_vars => BookStep
<1> SUFFICES ASSUME Dispatched, [Next]_vars PROVE BookStep
  OBVIOUS
<1>1. CASE UNCHANGED vars
  BY <1>1, UnchangedPage DEF vars, BookStep
<1>2. CASE Tick
  BY <1>2, TickInTheBook
<1>3. CASE Restart
  BY <1>3, RestartStartsOver
<1>4. ASSUME NEW k \in Call, Receive(k) \/ Progress(k) PROVE BookStep
  BY <1>4, ReceiveIsAsk, IdentifyInTheBook, EnterInTheBook, BeginRequestInTheBook,
     SettleIsRegister, UpdateChoicesIsRefused, ReturnIsHear DEF Progress
<1> QED BY <1>1, <1>2, <1>3, <1>4 DEF Next

\* Each call of the dispatcher takes effect at one instant: at its settling,
\* or where it is refused (dbus.rs with_dispatch).
THEOREM DispatcherKeepsBook == Spec => ImplementsBook
<1>1. Init => Book!BookInit
  <2>1. Init => Page = {}
    BY EmptyType DEF Init, Page, TerminalIds
  <2> QED BY <2>1 DEF Init, Book!BookInit, Page
<1>2. Dispatched /\ [Next]_vars => [Book!BookNext]_(Book!bvars)
  BY StepInTheBook DEF BookStep, Book!bvars, Page
<1> QED BY <1>1, <1>2, DispatchedAlways, PTL DEF Spec, ImplementsBook, Book!BookSpec
=============================================================================
