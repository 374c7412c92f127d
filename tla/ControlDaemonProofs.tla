------------------------- MODULE ControlDaemonProofs -------------------------
(***************************************************************************)
(* Theorems about ControlDaemon, for every set of ids, owners, parents,    *)
(* connections and lines and every positive timeout and retention.         *)
(***************************************************************************)
EXTENDS ControlDaemon, RequestRegistryProofs

\* handle_connection always has a connection at hand.
Attending == pc = "read" => serving \in Conn

WellFormed == TypeOK /\ Attending

-----------------------------------------------------------------------------
(* The parts of a step. *)

\* What a line of each kind carries.
LEMMA LineShape ==
    ASSUME NEW line \in Line \cup {NoLine}
    PROVE  /\ line.verb = "inspect" => line.id \in RequestId \cup {InvalidId}
           /\ line.verb = "begin" => /\ line.id \in RequestId \cup {InvalidId}
                                     /\ line.owner \in Owner \cup {InvalidOwner}
                                     /\ line.parent \in Parent \cup {InvalidParent}
           /\ line.verb = "transition" => /\ line.id \in RequestId \cup {InvalidId}
                                          /\ line.owner \in Owner \cup {InvalidOwner}
                                          /\ line.target \in Target
BY ControlAssumption DEF ControlLine, NoLine

LEMMA StoreRecords ==
    ASSUME IsStoreFile(store)
    PROVE  IsIdMap(store.records, RequestRecord)
BY EmptyType DEF IsStoreFile, Missing, Unreadable

LEMMA PersistType ==
    ASSUME TypeOK, NEW reg, IsIdMap(reg, RequestEntry), Persist(reg)
    PROVE  IsStoreFile(store') /\ health' \in HealthStatus
<1>1. IsStoreFile(Saved(reg))
  BY RecordsType DEF Saved, IsStoreFile
<1>2. \A persisted \in BOOLEAN : HealthAfterPersist(health, persisted) \in HealthStatus
  BY DEF TypeOK, HealthAfterPersist, HealthStatus
<1> QED BY <1>1, <1>2 DEF Persist, TypeOK

\* A save makes the store the registry, or leaves it and is noticed.
LEMMA PersistEffect ==
    ASSUME NEW reg, Persist(reg)
    PROVE  \/ store' = Saved(reg)
           \/ store' = store /\ health' # "healthy"
BY DEF Persist, HealthAfterPersist

\* Nothing but a stop sets or clears "stopping".
LEMMA PersistKeepsStopping ==
    ASSUME NEW reg, Persist(reg)
    PROVE  health' = "stopping" <=> health = "stopping"
BY DEF Persist, HealthAfterPersist

LEMMA LearnType ==
    ASSUME IsIdMap(told, RequestRecord), NEW facts, IsIdMap(facts, RequestRecord)
    PROVE  /\ IsIdMap(Learn(facts), RequestRecord)
           /\ DOMAIN Learn(facts) = DOMAIN told \cup DOMAIN facts
           /\ \A i \in DOMAIN facts : Learn(facts)[i] = facts[i]
           /\ \A i \in DOMAIN told \ DOMAIN facts : Learn(facts)[i] = told[i]
<1>1. /\ DOMAIN told \subseteq RequestId /\ DOMAIN facts \subseteq RequestId
      /\ \A i \in DOMAIN told : told[i] \in RequestRecord
      /\ \A i \in DOMAIN facts : facts[i] \in RequestRecord
  BY IdMapMember
<1>2. Learn(facts) \in [DOMAIN told \cup DOMAIN facts -> RequestRecord]
  BY <1>1 DEF Learn
<1> QED BY <1>1, <1>2, IdMapBuild DEF Learn

LEMMA FactType ==
    ASSUME NEW id \in RequestId, NEW record \in RequestRecord
    PROVE  /\ IsIdMap(Fact(id, record), RequestRecord)
           /\ DOMAIN Fact(id, record) = {id}
           /\ Fact(id, record)[id] = record
<1>1. Fact(id, record) \in [{id} -> RequestRecord]
  BY DEF Fact
<1> QED BY <1>1, IdMapBuild DEF Fact

\* What a reply leaves behind, whatever it says.
LEMMA RespondType ==
    ASSUME WellFormed, pc = "read", running' \in BOOLEAN,
           NEW body \in Reply, NEW facts, IsIdMap(facts, RequestRecord),
           Respond(body, facts)
    PROVE  /\ store' = store
           /\ backlog' = backlog
           /\ serving' = NoConn
           /\ client' \in [Conn -> [peer : PeerKind, line : Line \cup {NoLine}, open : BOOLEAN]]
           /\ reply' \in [to : Line \cup {NoLine}, body : Reply]
           /\ \/ pc' = "persist" /\ told' = Learn(facts)
              \/ /\ pc' = LoopHead(running') /\ pc' \in {"expire", "exit"}
                 /\ told' = told
           /\ IsIdMap(told', RequestRecord)
<1>1. serving \in Conn
  BY DEF WellFormed, Attending
<1>2. client' \in [Conn -> [peer : PeerKind, line : Line \cup {NoLine}, open : BOOLEAN]]
  BY DEF WellFormed, TypeOK, Respond, Drop, Idle, PeerKind
<1>3. reply' \in [to : Line \cup {NoLine}, body : Reply]
  BY <1>1 DEF WellFormed, TypeOK, Respond
<1>4. IsIdMap(Learn(facts), RequestRecord)
  BY LearnType DEF WellFormed, TypeOK
<1>5. store' = store /\ backlog' = backlog /\ serving' = NoConn
  BY DEF Respond, Drop
<1>6. \/ pc' = "persist" /\ told' = Learn(facts)
      \/ /\ pc' = LoopHead(running') /\ pc' \in {"expire", "exit"}
         /\ told' = told
  BY DEF Respond, LoopHead
<1> QED BY <1>2, <1>3, <1>4, <1>5, <1>6 DEF WellFormed, TypeOK

\* A request that is begun is new, and one that is moved is there.
LEMMA BeginOutcomeShape ==
    ASSUME NEW line \in Line \cup {NoLine}, line.verb = "begin"
    PROVE  /\ BeginOutcome(line) \in Reason \cup {"begun", "known"}
           /\ BeginOutcome(line) \in {"begun", "known"} =>
                line.id \in RequestId /\ line.owner \in Owner /\ line.parent \in Parent
           /\ BeginOutcome(line) = "begun" => line.id \notin DOMAIN entries
           /\ BeginOutcome(line) = "known" => /\ line.id \in DOMAIN entries
                                              /\ entries[line.id].owner = line.owner
                                              /\ entries[line.id].parent = line.parent
BY LineShape DEF BeginOutcome, Reason

LEMMA TransitionOutcomeShape ==
    ASSUME NEW line \in Line \cup {NoLine}, line.verb = "transition"
    PROVE  /\ TransitionOutcome(line) # "ok" => ErrorReason(TransitionOutcome(line)) \in Reason
           /\ TransitionOutcome(line) = "ok" =>
                /\ line.id \in RequestId /\ line.owner \in Owner /\ line.target \in RequestState
                /\ line.id \in DOMAIN entries
                /\ entries[line.id].owner = line.owner
                /\ \/ entries[line.id].state = line.target
                   \/ IsValidTransition(entries[line.id].state, line.target)
BY LineShape, ControlAssumption
   DEF TransitionOutcome, TransitionAnswer, ErrorReason, Reason, Target, RequestState, Terminal,
       InFlight
-----------------------------------------------------------------------------
(* Serving a connection, in one statement for the nine handlers. *)

\* Every request of `old` is in `new`, at the same stage or a later one.
MovedOn(new, old) == \A i \in DOMAIN old : i \in DOMAIN new /\ Follows(new[i], old[i])

\* Only a stop touches the health and ends the loop.
StopOrNot ==
    \/ health' = "stopping" /\ running' = FALSE
    \/ health' = health /\ running' = running

Served ==
    /\ IsIdMap(entries', RequestEntry)
    /\ MovedOn(entries', entries)
    /\ StopOrNot
    /\ UNCHANGED <<store, backlog>>
    /\ serving' = NoConn
    /\ client' \in [Conn -> [peer : PeerKind, line : Line \cup {NoLine}, open : BOOLEAN]]
    /\ reply' \in [to : Line \cup {NoLine}, body : Reply]
    /\ IsIdMap(told', RequestRecord)
    /\ pc' = "persist" \/ (pc' = LoopHead(running') /\ told' = told)
    /\ \A i \in DOMAIN told' : \/ i \in DOMAIN told /\ told'[i] = told[i]
                               \/ i \in DOMAIN entries' /\ told'[i] = Record(entries'[i])

LEMMA RespondServed ==
    ASSUME WellFormed, pc = "read",
           IsIdMap(entries', RequestEntry), MovedOn(entries', entries), StopOrNot,
           NEW body \in Reply, NEW facts, IsIdMap(facts, RequestRecord),
           \A i \in DOMAIN facts : i \in DOMAIN entries' /\ facts[i] = Record(entries'[i]),
           Respond(body, facts)
    PROVE  Served
<1>1. running' \in BOOLEAN
  BY DEF StopOrNot, WellFormed, TypeOK
<1>2. IsIdMap(told, RequestRecord)
  BY DEF WellFormed, TypeOK
<1>3. \A i \in DOMAIN told' : \/ i \in DOMAIN told /\ told'[i] = told[i]
                              \/ i \in DOMAIN entries' /\ told'[i] = Record(entries'[i])
  <2>1. CASE told' = told
    BY <2>1
  <2>2. CASE told' = Learn(facts)
    BY <1>2, <2>2, LearnType
  <2> QED BY <1>1, <2>1, <2>2, RespondType
<1>4. /\ store' = store /\ backlog' = backlog /\ serving' = NoConn
      /\ client' \in [Conn -> [peer : PeerKind, line : Line \cup {NoLine}, open : BOOLEAN]]
      /\ reply' \in [to : Line \cup {NoLine}, body : Reply]
      /\ IsIdMap(told', RequestRecord)
      /\ pc' = "persist" \/ (pc' = LoopHead(running') /\ told' = told)
  BY <1>1, RespondType
<1> QED BY <1>3, <1>4 DEF Served

LEMMA NothingMoved ==
    ASSUME TypeOK, UNCHANGED entries
    PROVE  IsIdMap(entries', RequestEntry) /\ MovedOn(entries', entries)
BY FollowsReflexive DEF TypeOK, MovedOn

LEMMA EmptyFacts ==
    /\ IsIdMap(Empty, RequestRecord)
    /\ \A i \in DOMAIN Empty : i \in DOMAIN entries' /\ Empty[i] = Record(entries'[i])
BY EmptyType

\* The handlers that say nothing of a request and change none.
LEMMA SilentServed ==
    ASSUME WellFormed, pc = "read", UNCHANGED entries, StopOrNot,
           NEW body \in Reply, Respond(body, Empty)
    PROVE  Served
<1>1. IsIdMap(entries', RequestEntry) /\ MovedOn(entries', entries)
  BY NothingMoved DEF WellFormed
<1> QED BY <1>1, EmptyFacts, RespondServed

LEMMA ServingLine ==
    ASSUME WellFormed, pc = "read"
    PROVE  client[serving].line \in Line \cup {NoLine}
BY DEF WellFormed, TypeOK, Attending

LEMMA InspectServed == ASSUME WellFormed, InspectRequest PROVE Served
<1> DEFINE id == client[serving].line.id
<1>1. pc = "read" /\ UNCHANGED entries /\ StopOrNot
  BY DEF InspectRequest, Reading, memory, StopOrNot
<1>0. InvalidId \notin DOMAIN entries
  BY ControlAssumption, IdMapMember DEF WellFormed, TypeOK
<1>2. CASE id \in DOMAIN entries /\ id # InvalidId
  <2>1. id \in RequestId /\ entries[id] \in RequestEntry
    BY <1>2, IdMapMember DEF WellFormed, TypeOK
  <2>2. Record(entries[id]) \in RequestRecord
    BY <2>1, RecordType
  <2> DEFINE body == [kind |-> "snapshot", id |-> id, record |-> Record(entries[id])]
             facts == Fact(id, Record(entries[id]))
  <2>3. body \in Reply
    BY <2>1, <2>2 DEF Reply
  <2>a. /\ IsIdMap(facts, RequestRecord)
        /\ DOMAIN facts = {id}
        /\ facts[id] = Record(entries[id])
    BY <2>1, <2>2, FactType
  <2>4. \A i \in DOMAIN facts : i \in DOMAIN entries' /\ facts[i] = Record(entries'[i])
    BY <1>1, <1>2, <2>a
  <2>5. Respond(body, facts)
    BY <1>2 DEF InspectRequest
  <2>6. IsIdMap(entries', RequestEntry) /\ MovedOn(entries', entries)
    BY <1>1, NothingMoved DEF WellFormed
  <2> HIDE DEF body, facts
  <2> QED BY <1>1, <2>3, <2>a, <2>4, <2>5, <2>6, RespondServed
<1>3. CASE ~(id \in DOMAIN entries /\ id # InvalidId)
  <2>1. \/ Respond(Error("invalid_request"), Empty)
        \/ Respond(Error("request_not_found"), Empty)
    BY <1>0, <1>3 DEF InspectRequest
  <2>2. Error("invalid_request") \in Reply /\ Error("request_not_found") \in Reply
    BY DEF Error, Reply, Reason
  <2> QED BY <1>1, <2>1, <2>2, SilentServed
<1> QED BY <1>2, <1>3

\* An acknowledgement: the fact it tells is the record of the entry it leaves.
LEMMA AckServed ==
    ASSUME WellFormed, pc = "read", StopOrNot,
           IsIdMap(entries', RequestEntry), MovedOn(entries', entries),
           NEW id \in DOMAIN entries', NEW record,
           record = Record(entries'[id]), Respond(Ack(id, record.state), Fact(id, record))
    PROVE  Served
<1>1. id \in RequestId /\ entries'[id] \in RequestEntry
  BY IdMapMember
<1>2. record \in RequestRecord /\ record.state \in RequestState
  BY <1>1, RecordType DEF RequestRecord
<1>3. Ack(id, record.state) \in Reply
  BY <1>1, <1>2 DEF Ack, Reply
<1>4. /\ IsIdMap(Fact(id, record), RequestRecord)
      /\ DOMAIN Fact(id, record) = {id}
      /\ Fact(id, record)[id] = record
  BY <1>1, <1>2, FactType
<1>5. \A i \in DOMAIN Fact(id, record) :
         i \in DOMAIN entries' /\ Fact(id, record)[i] = Record(entries'[i])
  BY <1>4
<1> QED BY <1>3, <1>4, <1>5, RespondServed

LEMMA BeginServed == ASSUME WellFormed, BeginRequest PROVE Served
<1> DEFINE line == client[serving].line
           fact(state) == [owner |-> line.owner, parent |-> line.parent, state |-> state]
<1>1. pc = "read" /\ line.verb = "begin" /\ line \in Line \cup {NoLine} /\ StopOrNot
  BY ServingLine DEF BeginRequest, Reading, StopOrNot
<1>2. IsIdMap(entries, RequestEntry)
  BY DEF WellFormed, TypeOK
<1>3. CASE /\ BeginOutcome(line) = "begun"
           /\ entries' = Begin(entries, line.id, line.owner, line.parent)
           /\ Respond(Ack(line.id, "pending"), Fact(line.id, fact("pending")))
  <2>1. /\ line.id \in RequestId /\ line.owner \in Owner /\ line.parent \in Parent
        /\ line.id \notin DOMAIN entries
    BY <1>1, <1>3, BeginOutcomeShape
  <2>2. /\ IsIdMap(entries', RequestEntry)
        /\ DOMAIN entries' = DOMAIN entries \cup {line.id}
        /\ entries'[line.id] = NewEntry(line.owner, line.parent)
        /\ \A i \in DOMAIN entries \ {line.id} : entries'[i] = entries[i]
    <3> HIDE DEF line
    <3>1. \A owner \in Owner, parent \in Parent :
              LET reg == Begin(entries, line.id, owner, parent) IN
              /\ IsIdMap(reg, RequestEntry)
              /\ DOMAIN reg = DOMAIN entries \cup {line.id}
              /\ reg[line.id] = NewEntry(owner, parent)
              /\ \A i \in DOMAIN entries \ {line.id} : reg[i] = entries[i]
      BY <1>2, <2>1, BeginType
    <3> QED BY <1>3, <2>1, <3>1
  <2>3. MovedOn(entries', entries)
    BY <2>1, <2>2, FollowsReflexive DEF MovedOn
  <2>4. fact("pending") = Record(entries'[line.id])
    BY <2>2 DEF NewEntry, Record
  <2>5. fact("pending").state = "pending"
    OBVIOUS
  <2> HIDE DEF fact, line
  <2> QED BY <1>1, <1>3, <2>2, <2>3, <2>4, <2>5, AckServed
<1>4. CASE /\ BeginOutcome(line) = "known"
           /\ UNCHANGED entries
           /\ Respond(Ack(line.id, entries[line.id].state),
                      Fact(line.id, fact(entries[line.id].state)))
  <2>1. /\ line.id \in DOMAIN entries
        /\ entries[line.id].owner = line.owner
        /\ entries[line.id].parent = line.parent
    BY <1>1, <1>4, BeginOutcomeShape
  <2>2. IsIdMap(entries', RequestEntry) /\ MovedOn(entries', entries)
    BY <1>4, NothingMoved DEF WellFormed
  <2>3. fact(entries[line.id].state) = Record(entries'[line.id])
    BY <1>4, <2>1 DEF Record
  <2>4. fact(entries[line.id].state).state = entries[line.id].state
    OBVIOUS
  <2> HIDE DEF fact, line
  <2> QED BY <1>1, <1>4, <2>1, <2>2, <2>3, <2>4, AckServed
<1>5. CASE /\ BeginOutcome(line) \notin {"begun", "known"}
           /\ UNCHANGED entries
           /\ Respond(Error(BeginOutcome(line)), Empty)
  <2>1. BeginOutcome(line) \in Reason
    BY <1>1, <1>5, BeginOutcomeShape
  <2>2. Error(BeginOutcome(line)) \in Reply
    BY <2>1 DEF Error, Reply
  <2> QED BY <1>1, <1>5, <2>2, SilentServed
<1> QED BY <1>3, <1>4, <1>5 DEF BeginRequest

LEMMA TransitionServed == ASSUME WellFormed, TransitionRequest PROVE Served
<1> DEFINE line == client[serving].line
           fact == [owner |-> line.owner, state |-> line.target,
                    parent |-> entries[line.id].parent]
<1>1. pc = "read" /\ line.verb = "transition" /\ line \in Line \cup {NoLine} /\ StopOrNot
  BY ServingLine DEF TransitionRequest, Reading, StopOrNot
<1>2. IsIdMap(entries, RequestEntry)
  BY DEF WellFormed, TypeOK
<1>3. CASE /\ TransitionOutcome(line) = "ok"
           /\ entries' = Transition(entries, line.id, line.target)
           /\ Respond(Ack(line.id, line.target), Fact(line.id, fact))
  <2>1. /\ line.target \in RequestState
        /\ line.id \in DOMAIN entries
        /\ entries[line.id].owner = line.owner
        /\ \/ entries[line.id].state = line.target
           \/ IsValidTransition(entries[line.id].state, line.target)
    BY <1>1, <1>3, TransitionOutcomeShape
  <2>2. /\ IsIdMap(entries', RequestEntry)
        /\ DOMAIN entries' = DOMAIN entries
        /\ entries'[line.id] = Touch(entries[line.id], line.target)
        /\ \A i \in DOMAIN entries \ {line.id} : entries'[i] = entries[i]
    BY <1>2, <1>3, <2>1, TransitionType
  <2>3. entries[line.id] \in RequestEntry
    BY <1>2, <2>1, IdMapMember
  <2>4. MovedOn(entries', entries)
    BY <2>1, <2>2, <2>3, FollowsReflexive, ValidTransitionFollows DEF MovedOn
  <2>5. fact = Record(entries'[line.id]) /\ fact.state = line.target
    BY <2>1, <2>2 DEF Touch, Record
  <2>6. line.id \in DOMAIN entries'
    BY <2>1, <2>2
  <2> HIDE DEF fact, line
  <2> QED BY <1>1, <1>3, <2>2, <2>4, <2>5, <2>6, AckServed
<1>4. CASE /\ TransitionOutcome(line) # "ok"
           /\ UNCHANGED entries
           /\ Respond(Error(ErrorReason(TransitionOutcome(line))), Empty)
  <2>1. ErrorReason(TransitionOutcome(line)) \in Reason
    BY <1>1, <1>4, TransitionOutcomeShape
  <2>2. Error(ErrorReason(TransitionOutcome(line))) \in Reply
    BY <2>1 DEF Error, Reply
  <2> QED BY <1>1, <1>4, <2>2, SilentServed
<1> QED BY <1>3, <1>4 DEF TransitionRequest
\* Every handler serves its connection, but for the one that cannot read it.
LEMMA HandlersServed ==
    ASSUME WellFormed, Serve, ~ReadError
    PROVE  Served
<1>1. CASE RefusePeer
  <2>1. Error("unauthorized_client") \in Reply /\ Error("internal_error") \in Reply
    BY DEF Error, Reply, Reason
  <2>2. \/ Respond(Error("unauthorized_client"), Empty)
        \/ Respond(Error("internal_error"), Empty)
    BY <1>1 DEF RefusePeer
  <2>3. pc = "read" /\ UNCHANGED entries /\ StopOrNot
    BY <1>1 DEF RefusePeer, memory, StopOrNot
  <2> QED BY <2>1, <2>2, <2>3, SilentServed
<1>2. CASE Malformed
  <2>1. Error("invalid_request") \in Reply
    BY DEF Error, Reply, Reason
  <2>2. Respond(Error("invalid_request"), Empty)
    BY <1>2 DEF Malformed
  <2>3. pc = "read" /\ UNCHANGED entries /\ StopOrNot
    BY <1>2 DEF Malformed, Reading, memory, StopOrNot
  <2> QED BY <2>1, <2>2, <2>3, SilentServed
<1>3. CASE Status
  <2> DEFINE body == [kind |-> "status", health |-> health,
                      in_flight |-> InFlightIds(entries), total |-> DOMAIN entries,
                      terminal |-> TerminalIds(entries)]
  <2>1. body \in Reply
    <3>1. DOMAIN entries \subseteq RequestId /\ health \in HealthStatus
      BY IdMapMember DEF WellFormed, TypeOK
    <3>2. InFlightIds(entries) \subseteq RequestId /\ TerminalIds(entries) \subseteq RequestId
      BY <3>1 DEF InFlightIds, TerminalIds
    <3> QED BY <3>1, <3>2 DEF Reply
  <2>2. Respond(body, Empty)
    BY <1>3 DEF Status
  <2>3. pc = "read" /\ UNCHANGED entries /\ StopOrNot
    BY <1>3 DEF Status, Reading, memory, StopOrNot
  <2> HIDE DEF body
  <2> QED BY <2>1, <2>2, <2>3, SilentServed
<1>4. CASE Stop
  <2>1. [kind |-> "ack_stopping"] \in Reply
    BY DEF Reply
  <2>2. Respond([kind |-> "ack_stopping"], Empty)
    BY <1>4 DEF Stop
  <2>3. pc = "read" /\ UNCHANGED entries /\ StopOrNot
    BY <1>4 DEF Stop, Reading, StopOrNot
  <2> QED BY <2>1, <2>2, <2>3, SilentServed
<1>5. CASE ListRequests
  <2> DEFINE body == [kind |-> "list", ids |-> DOMAIN entries]
  <2>1. body \in Reply
    BY IdMapMember DEF WellFormed, TypeOK, Reply
  <2>2. Respond(body, Empty)
    BY <1>5 DEF ListRequests
  <2>3. pc = "read" /\ UNCHANGED entries /\ StopOrNot
    BY <1>5 DEF ListRequests, Reading, memory, StopOrNot
  <2> HIDE DEF body
  <2> QED BY <2>1, <2>2, <2>3, SilentServed
<1>6. CASE SenderUnknown
  <2>1. Error("internal_error") \in Reply
    BY DEF Error, Reply, Reason
  <2>2. Respond(Error("internal_error"), Empty)
    BY <1>6 DEF SenderUnknown
  <2>3. pc = "read" /\ UNCHANGED entries /\ StopOrNot
    BY <1>6 DEF SenderUnknown, Reading, memory, StopOrNot
  <2> QED BY <2>1, <2>2, <2>3, SilentServed
<1> QED BY <1>1, <1>2, <1>3, <1>4, <1>5, <1>6, InspectServed, BeginServed, TransitionServed
  DEF Serve

-----------------------------------------------------------------------------
(* Type correctness. *)

LEMMA MemoryLostType ==
    ASSUME TypeOK, MemoryLost
    PROVE  /\ IsIdMap(entries', RequestEntry)
           /\ health' \in HealthStatus
           /\ running' \in BOOLEAN
           /\ IsStoreFile(store')
           /\ client' \in [Conn -> [peer : PeerKind, line : Line \cup {NoLine}, open : BOOLEAN]]
           /\ backlog' \in Seq(Conn)
           /\ serving' = NoConn
           /\ reply' \in [to : Line \cup {NoLine}, body : Reply]
           /\ IsIdMap(told', RequestRecord)
<1>1. NoReply \in [to : Line \cup {NoLine}, body : Reply]
  BY DEF NoReply, Reply
<1>2. Idle \in [peer : PeerKind, line : Line \cup {NoLine}, open : BOOLEAN]
  BY DEF Idle, PeerKind
<1>3. <<>> \in Seq(Conn)
  OBVIOUS
<1>4. IsIdMap(Keep(told, ToldAndSaved), RequestRecord)
  BY KeepType DEF TypeOK
<1> QED BY <1>1, <1>2, <1>3, <1>4, EmptyType DEF MemoryLost, TypeOK, HealthStatus

LEMMA InitWellFormed == Init => WellFormed
<1>1. IsStoreFile(Missing)
  BY DEF IsStoreFile
<1>2. NoReply \in [to : Line \cup {NoLine}, body : Reply]
  BY DEF NoReply, Reply
<1>3. Idle \in [peer : PeerKind, line : Line \cup {NoLine}, open : BOOLEAN]
  BY DEF Idle, PeerKind
<1>4. IsIdMap(Empty, RequestEntry) /\ IsIdMap(Empty, RequestRecord)
  BY EmptyType
<1>5. <<>> \in Seq(Conn)
  OBVIOUS
<1> QED
  BY <1>1, <1>2, <1>3, <1>4, <1>5
  DEF Init, WellFormed, TypeOK, Attending, HealthStatus

LEMMA StepWellFormed == WellFormed /\ [Next]_vars => WellFormed'
<1> SUFFICES ASSUME WellFormed, [Next]_vars PROVE WellFormed'
  OBVIOUS
<1> USE DEF WellFormed
<1>1. CASE BootFromStore
  <2>1. IsIdMap(Restore(store.records), RequestEntry)
    BY StoreRecords, RestoreType DEF TypeOK
  <2>2. IsIdMap(entries', RequestEntry)
    BY <1>1, <2>1, ExpireAllType DEF BootFromStore, RecoverAfterRestart
  <2> QED BY <1>1, <2>2 DEF BootFromStore, wire, TypeOK, Attending, HealthStatus
<1>2. CASE BootWithoutStore
  <2>1. IsStoreFile(store')
    BY <1>2 DEF BootWithoutStore, TypeOK, IsStoreFile
  <2> QED BY <1>2, <2>1, EmptyType DEF BootWithoutStore, wire, TypeOK, Attending, HealthStatus
<1>3. CASE BootPersist
  <2>1. IsStoreFile(store') /\ health' \in HealthStatus
    BY <1>3, PersistType DEF BootPersist, TypeOK
  <2> QED BY <1>3, <2>1 DEF BootPersist, wire, TypeOK, Attending
<1>4. CASE Expire
  <2>1. IsIdMap(entries', RequestEntry)
    BY <1>4, ExpireAllType DEF Expire, ExpireStale, TypeOK
  <2>2. IsStoreFile(store') /\ health' \in HealthStatus
    BY <1>4, <2>1, PersistType DEF Expire, TypeOK
  <2> QED BY <1>4, <2>1, <2>2 DEF Expire, wire, TypeOK, Attending
<1>5. CASE Prune
  <2>1. IsIdMap(entries', RequestEntry) /\ IsIdMap(told', RequestRecord)
    BY <1>5, KeepType DEF Prune, PruneTerminal, TypeOK
  <2>2. IsStoreFile(store') /\ health' \in HealthStatus
    BY <1>5, <2>1, PersistType DEF Prune, TypeOK
  <2> QED BY <1>5, <2>1, <2>2 DEF Prune, wire, TypeOK, Attending
<1>6. CASE Accept
  <2>1. Head(backlog) \in Conn /\ Tail(backlog) \in Seq(Conn)
    BY <1>6 DEF Accept, TypeOK
  <2> QED BY <1>6, <2>1 DEF Accept, memory, TypeOK, Attending
<1>7. CASE AcceptNothing
  BY <1>7 DEF AcceptNothing, memory, wire, TypeOK, Attending
<1>8. CASE ReadError
  <2>1. client' \in [Conn -> [peer : PeerKind, line : Line \cup {NoLine}, open : BOOLEAN]]
    BY <1>8 DEF ReadError, Drop, Idle, PeerKind, TypeOK
  <2> QED BY <1>8, <2>1 DEF ReadError, Drop, LoopHead, memory, TypeOK, Attending
<1>9. CASE Serve /\ ~ReadError
  <2>1. Served
    BY <1>9, HandlersServed
  <2> QED BY <2>1 DEF Served, StopOrNot, LoopHead, HealthStatus, TypeOK, Attending
<1>10. CASE PersistAfterReply
  <2>1. IsStoreFile(store') /\ health' \in HealthStatus
    BY <1>10, PersistType DEF PersistAfterReply, TypeOK
  <2>2. NoReply \in [to : Line \cup {NoLine}, body : Reply]
    BY DEF NoReply, Reply
  <2> QED BY <1>10, <2>1, <2>2 DEF PersistAfterReply, LoopHead, TypeOK, Attending
<1>11. CASE Exit
  BY <1>11, MemoryLostType DEF Exit, TypeOK, Attending
<1>12. CASE Crash
  BY <1>12, MemoryLostType DEF Crash, TypeOK, Attending
<1>13. CASE Tick
  BY <1>13, ElapseType DEF Tick, wire, TypeOK, Attending
<1>14. CASE Connect
  <2>1. PICK c \in Conn, peer \in Peer :
          /\ client' = [client EXCEPT ![c] = [peer |-> peer, line |-> NoLine, open |-> TRUE]]
          /\ backlog' = Append(backlog, c)
    BY <1>14 DEF Connect
  <2>2. backlog' \in Seq(Conn)
    BY <2>1 DEF TypeOK
  <2>3. client' \in [Conn -> [peer : PeerKind, line : Line \cup {NoLine}, open : BOOLEAN]]
    BY <2>1, ControlAssumption DEF TypeOK
  <2> QED BY <1>14, <2>2, <2>3 DEF Connect, memory, TypeOK, Attending
<1>15. CASE DamageStore
  <2>1. IsStoreFile(store')
    <3>1. CASE store' = Unreadable
      BY <3>1 DEF IsStoreFile
    <3>2. ASSUME NEW S \in SUBSET RequestId, store' = [store EXCEPT !.records = Keep(@, S)]
          PROVE  IsStoreFile(store')
      <4>1. /\ store = [status |-> "readable", records |-> store.records]
            /\ IsIdMap(store.records, RequestRecord)
        BY <1>15 DEF DamageStore, TypeOK, IsStoreFile, Missing, Unreadable
      <4>2. IsIdMap(Keep(store.records, S), RequestRecord)
        BY <4>1, KeepType
      <4>3. store' = [status |-> "readable", records |-> Keep(store.records, S)]
        BY <3>2, <4>1
      <4> QED BY <4>2, <4>3 DEF IsStoreFile
    <3> QED BY <1>15, <3>1, <3>2 DEF DamageStore
  <2> QED BY <1>15, <2>1, EmptyType DEF DamageStore, memory, wire, TypeOK, Attending
<1>16. ASSUME NEW c \in Conn, Send(c) PROVE WellFormed'
  BY <1>16 DEF Send, memory, TypeOK, Attending
<1>17. ASSUME NEW c \in Conn, HangUp(c) PROVE WellFormed'
  BY <1>17 DEF HangUp, memory, TypeOK, Attending
<1>18. CASE UNCHANGED vars
  BY <1>18 DEF vars, memory, wire, TypeOK, Attending
<1> QED
  BY <1>1, <1>2, <1>3, <1>4, <1>5, <1>6, <1>7, <1>8, <1>9, <1>10, <1>11, <1>12, <1>13, <1>14,
     <1>15, <1>16, <1>17, <1>18
  DEF Next, DaemonStep, Environment, Boot

LEMMA AlwaysWellFormed == Spec => []WellFormed
BY InitWellFormed, StepWellFormed, PTL DEF Spec

\* The type invariant of the daemon: no refused id, owner or parent is ever
\* registered, saved or told to anyone.
THEOREM TypeCorrect == Spec => []TypeOK
<1>1. WellFormed => TypeOK
  BY DEF WellFormed
<1> QED BY <1>1, AlwaysWellFormed, PTL
-----------------------------------------------------------------------------
(* What clients were told.                                                 *)
(*                                                                         *)
(* ToldNotContradicted, StoreTrailsMemory and ExposureBounded are each     *)
(* preserved by every step, the last one thanks to the first: a save       *)
(* bears out what was told because the registry it saves does.             *)

Honest == ToldNotContradicted /\ StoreTrailsMemory /\ ExposureBounded

LEMMA BorneOutEmpty == \A m : BorneOut(Empty, m)
BY EmptyType DEF BorneOut

LEMMA BorneOutKept ==
    ASSUME NEW facts, NEW S, NEW m, BorneOut(facts, m)
    PROVE  BorneOut(Keep(facts, S), m)
BY KeepShape DEF BorneOut

LEMMA BorneOutMovedOn ==
    ASSUME NEW facts, NEW old, NEW new, BorneOut(facts, old), MovedOn(new, old)
    PROVE  BorneOut(facts, new)
BY FollowsTransitive DEF BorneOut, MovedOn

\* The save of a registry that bears out what was told.
LEMMA PersistHonest ==
    ASSUME NEW reg, IsIdMap(reg, RequestEntry), NEW facts, Persist(reg), BorneOut(facts, reg)
    PROVE  /\ health' = "healthy" => BorneOut(facts, store'.records)
           /\ health' = "healthy" => BorneOut(store'.records, reg)
<1>1. Saved(reg).records = Records(reg)
  BY DEF Saved
<1> QED BY <1>1, PersistEffect, BorneOutByRecords

LEMMA InitHonest == Init => Honest
<1>1. Missing.records = Empty
  BY DEF Missing
<1> QED
  BY <1>1, BorneOutEmpty
  DEF Init, Honest, ToldNotContradicted, StoreTrailsMemory, ExposureBounded, Up

\* The end of a run leaves what the store bears out.
LEMMA MemoryLostHonest ==
    ASSUME TypeOK, MemoryLost, ~Up'
    PROVE  Honest'
<1>1. told' = Keep(told, ToldAndSaved) /\ store' = store
  BY DEF MemoryLost
<1>2. BorneOut(told', store'.records)
  <2>1. \A i \in DOMAIN told' : i \in ToldAndSaved /\ told'[i] = told[i]
    BY <1>1, KeepShape
  <2> QED BY <1>1, <2>1 DEF BorneOut, ToldAndSaved
<1> QED BY <1>2 DEF Honest, ToldNotContradicted, StoreTrailsMemory, ExposureBounded

LEMMA StepHonest == WellFormed /\ WellFormed' /\ Honest /\ [Next]_vars => Honest'
<1> SUFFICES ASSUME WellFormed, WellFormed', Honest, [Next]_vars PROVE Honest'
  OBVIOUS
<1>0. /\ IsIdMap(entries, RequestEntry) /\ IsIdMap(entries', RequestEntry)
      /\ IsIdMap(told, RequestRecord) /\ IsStoreFile(store)
  BY DEF WellFormed, TypeOK
<1> USE DEF Honest, ToldNotContradicted, StoreTrailsMemory, ExposureBounded
<1>1. CASE BootFromStore
  <2> DEFINE old == Restore(store.records)
  <2>1. /\ IsIdMap(old, RequestEntry)
        /\ DOMAIN old = DOMAIN store.records
        /\ \A i \in DOMAIN old : Record(old[i]) = store.records[i]
    BY <1>0, StoreRecords, RestoreType
  <2>2. MovedOn(old, store.records)
    BY <2>1, FollowsRecord, FollowsReflexive DEF MovedOn
  <2> HIDE DEF old
  <2>3. MovedOn(entries', old)
    BY <1>1, <2>1, ExpireAllMovesOn, ExpireAllType DEF BootFromStore, RecoverAfterRestart, old,
       MovedOn
  <2>4. BorneOut(told, store.records)
    BY <1>1 DEF BootFromStore
  <2>5. BorneOut(told, entries')
    BY <2>2, <2>3, <2>4, BorneOutMovedOn
  <2>6. BorneOut(store.records, entries')
    BY <2>2, <2>3, FollowsTransitive DEF BorneOut, MovedOn
  <2> QED BY <1>1, <2>4, <2>5, <2>6 DEF BootFromStore, Up
<1>2. CASE BootWithoutStore
  BY <1>2, BorneOutEmpty DEF BootWithoutStore, Up
<1>3. CASE BootPersist
  <2>1. Up /\ Persist(entries) /\ UNCHANGED <<entries, told>> /\ pc' = "expire"
    BY <1>3 DEF BootPersist, Up
  <2> QED BY <1>0, <2>1, PersistHonest DEF Up
<1>4. CASE Expire
  <2>1. MovedOn(entries', entries)
    BY <1>0, <1>4, SweepSets, ExpireAllMovesOn, ExpireAllType DEF Expire, ExpireStale, MovedOn
  <2>2. BorneOut(told, entries')
    BY <1>4, <2>1, BorneOutMovedOn DEF Expire, Up
  <2>3. health = "healthy" => BorneOut(store.records, entries')
    BY <1>4, <2>1, BorneOutMovedOn DEF Expire, Up
  <2>4. CASE Persist(entries')
    BY <1>0, <1>4, <2>2, <2>3, <2>4, PersistHonest DEF Expire, Up
  <2>5. CASE UNCHANGED <<store, health>>
    BY <1>4, <2>2, <2>3, <2>5 DEF Expire, Up
  <2> QED BY <1>4, <2>4, <2>5 DEF Expire
<1>5. CASE Prune
  <2> DEFINE R == DOMAIN entries \ Overdue(entries)
             S == DOMAIN told \ Overdue(entries)
  <2>a. entries' = Keep(entries, R) /\ told' = Keep(told, S)
    BY <1>5 DEF Prune, PruneTerminal
  <2>b. DOMAIN entries \cap R = R /\ DOMAIN told \cap S = S
    OBVIOUS
  <2>1. /\ DOMAIN entries' = R
        /\ \A i \in R : entries'[i] = entries[i]
    BY <2>a, <2>b, KeepShape
  <2>2. /\ DOMAIN told' = S
        /\ \A i \in S : told'[i] = told[i]
    BY <2>a, <2>b, KeepShape
  <2>3. BorneOut(told', entries')
    BY <1>5, <2>1, <2>2 DEF Prune, BorneOut, Up
  <2>4. CASE Persist(entries')
    <3>1. health' = "healthy" => store' = Saved(entries')
      BY <2>4, PersistEffect
    <3>2. Saved(entries').records = Records(entries')
      BY DEF Saved
    <3>3. BorneOut(told', Records(entries')) /\ BorneOut(Records(entries'), entries')
      BY <1>0, <2>3, BorneOutByRecords
    <3> QED BY <1>5, <2>3, <3>1, <3>2, <3>3 DEF Prune, Up
  <2>5. CASE Overdue(entries) = {} /\ UNCHANGED <<store, health>>
    <3>1. health = "healthy" => BorneOut(store.records, entries')
      BY <1>5, <2>1, <2>5 DEF Prune, BorneOut, Up
    <3>2. health = "healthy" => BorneOut(told', store.records)
      BY <1>5, <2>a, BorneOutKept DEF Prune, Up
    <3> QED BY <1>5, <2>3, <2>5, <3>1, <3>2 DEF Prune, Up
  <2> QED BY <1>5, <2>4, <2>5 DEF Prune
<1>6. CASE Accept \/ AcceptNothing
  BY <1>6 DEF Accept, AcceptNothing, memory, wire, Up
<1>7. CASE ReadError
  <2>1. Up /\ Up' /\ pc # "persist" /\ UNCHANGED <<memory, store, told>>
    BY <1>7 DEF ReadError, Reading, LoopHead, Up
  <2> QED BY <2>1 DEF memory
<1>8. CASE Serve /\ ~ReadError
  <2>1. Served
    BY <1>8, HandlersServed
  <2>2. Up /\ pc = "read"
    BY <1>8 DEF Serve, RefusePeer, SenderUnknown, Malformed, Status, Stop, ListRequests, InspectRequest,
       BeginRequest, TransitionRequest, Reading, Up
  <2>3. Up'
    BY <2>1 DEF Served, LoopHead, Up
  <2>4. BorneOut(told', entries')
    <3> SUFFICES ASSUME NEW i \in DOMAIN told'
                 PROVE  i \in DOMAIN entries' /\ Follows(entries'[i], told'[i])
      BY DEF BorneOut
    <3>1. CASE i \in DOMAIN told /\ told'[i] = told[i]
      <4>1. BorneOut(told, entries')
        BY <2>1, <2>2, BorneOutMovedOn DEF Served
      <4> QED BY <3>1, <4>1 DEF BorneOut
    <3>2. CASE i \in DOMAIN entries' /\ told'[i] = Record(entries'[i])
      BY <3>2, FollowsRecord, FollowsReflexive
    <3> QED BY <2>1, <3>1, <3>2 DEF Served
  <2>5. health' = "healthy" => health = "healthy"
    BY <2>1 DEF Served, StopOrNot
  <2>6. health = "healthy" => BorneOut(store.records, entries')
    BY <2>1, <2>2, BorneOutMovedOn DEF Served
  <2>7. pc' # "persist" => told' = told
    BY <2>1 DEF Served
  <2> QED BY <2>1, <2>2, <2>3, <2>4, <2>5, <2>6, <2>7 DEF Served
<1>9. CASE PersistAfterReply
  <2>1. Up /\ Up' /\ Persist(entries) /\ UNCHANGED <<entries, told>>
    BY <1>9 DEF PersistAfterReply, LoopHead, Up
  <2> QED BY <1>0, <2>1, PersistHonest
<1>10. CASE Exit \/ Crash
  <2>1. MemoryLost /\ ~Up'
    BY <1>10 DEF Exit, Crash, Up
  <2> QED BY <2>1, MemoryLostHonest DEF WellFormed
<1>11. CASE Tick
  <2>1. MovedOn(entries', entries)
    <3>1. /\ DOMAIN entries' = DOMAIN entries
          /\ \A i \in DOMAIN entries : Record(entries'[i]) = Record(entries[i])
      BY <1>0, <1>11, ElapseType DEF Tick
    <3> QED BY <3>1, FollowsRecord, FollowsReflexive DEF MovedOn
  <2>2. BorneOut(told, entries')
    BY <1>11, <2>1, BorneOutMovedOn DEF Tick
  <2>3. health = "healthy" => BorneOut(store.records, entries')
    BY <1>11, <2>1, BorneOutMovedOn DEF Tick
  <2> QED BY <1>11, <2>2, <2>3 DEF Tick, Up
<1>12. CASE Connect \/ \E c \in Conn : Send(c) \/ HangUp(c)
  BY <1>12 DEF Connect, Send, HangUp, memory, Up
<1>13. CASE DamageStore
  BY <1>13, BorneOutEmpty DEF DamageStore, Up
<1>14. CASE UNCHANGED vars
  BY <1>14 DEF vars, memory, Up
<1> QED
  BY <1>1, <1>2, <1>3, <1>4, <1>5, <1>6, <1>7, <1>8, <1>9, <1>10, <1>11, <1>12, <1>13, <1>14
  DEF Next, DaemonStep, Environment, Boot

LEMMA AlwaysHonest == Spec => []Honest
BY AlwaysWellFormed, InitHonest, StepHonest, PTL DEF Spec

\* No client was misled, whoever else asked and however often the daemon
\* crashed: the registry of a running daemon, and the store of one that is
\* down, bear out all that was told and not pruned or lost since.
THEOREM NobodyMisled == Spec => []ToldNotContradicted
<1>1. Honest => ToldNotContradicted
  BY DEF Honest
<1> QED BY <1>1, AlwaysHonest, PTL

\* A crash can take back what was told only before the save that follows the
\* reply, or while the daemon reports that it is not healthy.
THEOREM ExposureIsBounded == Spec => []ExposureBounded
<1>1. Honest => ExposureBounded
  BY DEF Honest
<1> QED BY <1>1, AlwaysHonest, PTL

\* A healthy daemon's store holds nothing its memory goes back on.
THEOREM StoreTrails == Spec => []StoreTrailsMemory
<1>1. Honest => StoreTrailsMemory
  BY DEF Honest
<1> QED BY <1>1, AlwaysHonest, PTL
\* What a step may do to what was told: drop some of it, or tell the record
\* of an entry it leaves.
LEMMA ToldChanges ==
    ASSUME WellFormed, [Next]_vars
    PROVE  \/ \A i \in DOMAIN told' : i \in DOMAIN told /\ told'[i] = told[i]
           \/ Served /\ Up
<1>1. CASE Serve /\ ~ReadError
  <2>1. Up
    BY <1>1 DEF Serve, RefusePeer, SenderUnknown, Malformed, Status, Stop, ListRequests, InspectRequest,
       BeginRequest, TransitionRequest, Reading, Up
  <2> QED BY <1>1, <2>1, HandlersServed
<1>2. CASE Prune \/ Exit \/ Crash
  <2>1. PICK S : told' = Keep(told, S)
    BY <1>2 DEF Prune, Exit, Crash, MemoryLost
  <2> QED BY <2>1, KeepShape
<1>3. CASE BootWithoutStore \/ DamageStore
  <2>1. told' = Empty
    BY <1>3 DEF BootWithoutStore, DamageStore
  <2> QED BY <2>1, EmptyType
<1>4. CASE \/ BootFromStore \/ BootPersist \/ Expire \/ Accept \/ AcceptNothing \/ ReadError
           \/ PersistAfterReply \/ Tick \/ Connect \/ \E c \in Conn : Send(c) \/ HangUp(c)
           \/ UNCHANGED vars
  <2>1. told' = told
    BY <1>4 DEF BootFromStore, BootPersist, Expire, Accept, AcceptNothing, ReadError,
       PersistAfterReply, Tick, Connect, Send, HangUp, vars
  <2> QED BY <2>1
<1> QED BY <1>1, <1>2, <1>3, <1>4 DEF Next, DaemonStep, Environment, Boot

\* Over crashes, restarts and repeated begins, what a client is told of a
\* request is never an earlier stage than what was told before.
THEOREM ToldAdvances == Spec => ToldOnlyAdvances
<1>1. ASSUME WellFormed, Honest, [Next]_vars,
             NEW i \in DOMAIN told \cap DOMAIN told'
      PROVE  Follows(told'[i], told[i])
  <2>1. CASE told'[i] = told[i]
    BY <2>1, FollowsReflexive
  <2>2. CASE Served /\ Up /\ told'[i] # told[i]
    <3>1. i \in DOMAIN entries' /\ told'[i] = Record(entries'[i])
      BY <2>2 DEF Served
    <3>2. i \in DOMAIN entries /\ Follows(entries[i], told[i])
      BY <1>1, <2>2 DEF Honest, ToldNotContradicted, BorneOut
    <3>3. Follows(entries'[i], entries[i])
      BY <2>2, <3>2 DEF Served, MovedOn
    <3>4. Follows(entries'[i], told[i])
      BY <3>2, <3>3, FollowsTransitive
    <3> QED BY <3>1, <3>4, FollowsRecord
  <2> QED BY <1>1, <2>1, <2>2, ToldChanges
<1>2. WellFormed /\ Honest /\ [Next]_vars =>
        [\A i \in DOMAIN told \cap DOMAIN told' : Follows(told'[i], told[i])]_vars
  BY <1>1
<1> QED BY <1>2, AlwaysWellFormed, AlwaysHonest, PTL DEF Spec, ToldOnlyAdvances

-----------------------------------------------------------------------------
(* Stopping. *)

LEMMA StepStopIsFinal == WellFormed /\ StopIsFinal /\ [Next]_vars => StopIsFinal'
<1> SUFFICES ASSUME WellFormed, StopIsFinal, [Next]_vars PROVE StopIsFinal'
  OBVIOUS
<1> USE DEF StopIsFinal
<1>0. running \in BOOLEAN
  BY DEF WellFormed, TypeOK
<1>1. CASE Boot
  BY <1>1 DEF Boot, BootFromStore, BootWithoutStore, Up
<1>2. CASE BootPersist
  BY <1>2, PersistKeepsStopping DEF BootPersist, wire, Up
<1>3. CASE Expire
  BY <1>3, PersistKeepsStopping DEF Expire, wire, Up
<1>4. CASE Prune
  BY <1>4, PersistKeepsStopping DEF Prune, wire, Up
<1>5. CASE Accept \/ AcceptNothing
  BY <1>5 DEF Accept, AcceptNothing, memory, wire, Up
<1>6. CASE ReadError
  BY <1>6 DEF ReadError, Reading, Drop, LoopHead, memory, Up
<1>7. CASE Serve /\ ~ReadError
  <2>1. Served
    BY <1>7, HandlersServed
  <2>2. Up /\ pc = "read"
    BY <1>7 DEF Serve, RefusePeer, SenderUnknown, Malformed, Status, Stop, ListRequests, InspectRequest,
       BeginRequest, TransitionRequest, Reading, Up
  <2> QED BY <1>0, <2>1, <2>2 DEF Served, StopOrNot, LoopHead, Up
<1>8. CASE PersistAfterReply
  BY <1>0, <1>8, PersistKeepsStopping DEF PersistAfterReply, LoopHead, Up
<1>9. CASE Exit \/ Crash
  BY <1>9 DEF Exit, Crash, Up
<1>10. CASE Tick \/ Connect \/ DamageStore \/ \E c \in Conn : Send(c) \/ HangUp(c)
  BY <1>10 DEF Tick, Connect, DamageStore, Send, HangUp, memory, wire, Up
<1>11. CASE UNCHANGED vars
  BY <1>11 DEF vars, memory, wire, Up
<1> QED
  BY <1>1, <1>2, <1>3, <1>4, <1>5, <1>6, <1>7, <1>8, <1>9, <1>10, <1>11
  DEF Next, DaemonStep, Environment

\* A stop is the last request served, and no save hides it.
THEOREM StopEndsService == Spec => []StopIsFinal
<1>1. Init => StopIsFinal
  BY DEF Init, StopIsFinal, Up
<1> QED BY <1>1, StepStopIsFinal, AlwaysWellFormed, PTL DEF Spec

-----------------------------------------------------------------------------
(* ControlDaemon implements RequestLedger. *)

\* The ledger as the daemon keeps it.
Live == Records(entries)
LedgerStep == [Ledger!LedgerNext]_<<Live, store.records, Up>>

\* Two maps are the same when they agree on every id.
LEMMA SameMap ==
    ASSUME NEW V, NEW W, NEW m, IsIdMap(m, V), NEW n, IsIdMap(n, W), DOMAIN m = DOMAIN n,
           \A i \in DOMAIN m : m[i] = n[i]
    PROVE  m = n
BY IdMapMember

LEMMA EmptyRecords == Records(Empty) = Empty
BY DEF Records, Empty

LEMMA LiveType ==
    ASSUME IsIdMap(entries, RequestEntry)
    PROVE  /\ IsIdMap(Live, RequestRecord)
           /\ DOMAIN Live = DOMAIN entries
           /\ \A i \in DOMAIN entries : Live[i] = Record(entries[i]) /\ Live[i].state = entries[i].state
BY RecordsType DEF Live, Record

\* What a step that saves the registry, or tries to, does to the saved copy.
LEMMA PersistSaves ==
    ASSUME Persist(entries')
    PROVE  store'.records \in {store.records, Live'}
BY DEF Persist, Saved, Live

\* A sweep, or the recovery at startup, turns the ids it expires and no other.
LEMMA ExpireTurns ==
    ASSUME NEW reg, IsIdMap(reg, RequestEntry), NEW S
    PROVE  Records(ExpireAll(reg, S)) =
             [i \in DOMAIN Records(reg) |->
                IF i \in S THEN Ledger!Turned(Records(reg)[i], "expired") ELSE Records(reg)[i]]
<1>1. /\ DOMAIN Records(reg) = DOMAIN reg
      /\ \A i \in DOMAIN reg : Records(reg)[i] = Record(reg[i])
  BY DEF Records
<1>2. /\ DOMAIN ExpireAll(reg, S) = DOMAIN reg
      /\ \A i \in DOMAIN reg : /\ i \in S => ExpireAll(reg, S)[i] = Touch(reg[i], "expired")
                               /\ i \notin S => ExpireAll(reg, S)[i] = reg[i]
  BY ExpireAllType
<1>3. \A e : Record(Touch(e, "expired")) = Ledger!Turned(Record(e), "expired")
  BY DEF Record, Touch, Ledger!Turned
<1>4. Records(ExpireAll(reg, S)) = [i \in DOMAIN reg |-> Record(ExpireAll(reg, S)[i])]
  BY <1>2 DEF Records
<1> QED BY <1>1, <1>2, <1>3, <1>4

LEMMA PruneForgets ==
    ASSUME NEW reg, IsIdMap(reg, RequestEntry)
    PROVE  Records(PruneTerminal(reg)) =
             Ledger!Keep(Records(reg), DOMAIN Records(reg) \ Overdue(reg))
BY DEF Records, PruneTerminal, Keep, Ledger!Keep

LEMMA ElapseStutters ==
    ASSUME NEW reg, IsIdMap(reg, RequestEntry)
    PROVE  Records(Elapse(reg)) = Records(reg)
BY ElapseType DEF Records

LEMMA RestoredRecords ==
    ASSUME NEW records, IsIdMap(records, RequestRecord)
    PROVE  Records(Restore(records)) = records
<1>1. IsIdMap(Restore(records), RequestEntry)
  BY RestoreType
<1> QED BY <1>1, RestoreType, RecordsType, SameMap
-----------------------------------------------------------------------------
(* Each action of the daemon is one of the ledger's, or a stutter. *)

LEMMA BootResumes == ASSUME WellFormed, BootFromStore PROVE LedgerStep
<1> DEFINE restored == Restore(store.records)
<1>1. IsIdMap(store.records, RequestRecord)
  BY StoreRecords DEF WellFormed, TypeOK
<1>2. IsIdMap(restored, RequestEntry) /\ Records(restored) = store.records
  BY <1>1, RestoreType, RestoredRecords
<1>3. Live' = Records(ExpireAll(restored, Unfinished(restored)))
  BY DEF BootFromStore, RecoverAfterRestart, Live
<1>4. \A i \in DOMAIN store.records :
        i \in Unfinished(restored) <=> store.records[i].state \in InFlight
  <2> TAKE i \in DOMAIN store.records
  <2>1. /\ store.records[i] \in RequestRecord
        /\ i \in DOMAIN restored
        /\ restored[i].state = store.records[i].state
    BY <1>1, IdMapMember, RestoreType DEF restored, Restore
  <2> QED
    BY <2>1 DEF Unfinished, IsTerminal, RequestRecord, RequestState, InFlight, Terminal
<1> HIDE DEF restored
<1>5. Live' = [i \in DOMAIN store.records |->
                 IF i \in Unfinished(restored)
                   THEN Ledger!Turned(store.records[i], "expired") ELSE store.records[i]]
  BY <1>2, <1>3, ExpireTurns
<1>6. Live' = [i \in DOMAIN store.records |->
                 IF store.records[i].state \in Ledger!InFlight
                   THEN Ledger!Turned(store.records[i], "expired") ELSE store.records[i]]
  BY <1>4, <1>5 DEF InFlight, Ledger!InFlight
<1>7. ~Up /\ Up' /\ store' = store
  BY DEF BootFromStore, Up
<1>8. Ledger!Resume
  BY <1>6, <1>7 DEF Ledger!Resume, Live
<1> QED BY <1>8 DEF LedgerStep, Ledger!LedgerNext

LEMMA BootStartsAfresh == ASSUME WellFormed, BootWithoutStore PROVE LedgerStep
<1>1. ~Up /\ Up' /\ Live' = Empty /\ store'.records \in {store.records, Empty}
  BY EmptyRecords DEF BootWithoutStore, Up, Live, Missing
<1>2. Ledger!StartAfresh
  BY <1>1 DEF Ledger!StartAfresh, Live, Empty, Ledger!Empty
<1> QED BY <1>2 DEF LedgerStep, Ledger!LedgerNext

LEMMA PersistIsSave ==
    ASSUME Persist(entries'), UNCHANGED entries, Up, Up'
    PROVE  LedgerStep
<1>1. Live' = Live
  BY DEF Live
<1>2. CASE store'.records = store.records
  BY <1>1, <1>2 DEF LedgerStep, Up
<1>3. CASE store'.records = Live
  <2>1. Ledger!Save
    BY <1>1, <1>3 DEF Ledger!Save, Live, Up
  <2> QED BY <2>1 DEF LedgerStep, Ledger!LedgerNext
<1> QED BY <1>1, <1>2, <1>3, PersistSaves

LEMMA ExpireTimesOut == ASSUME WellFormed, Expire PROVE LedgerStep
<1> DEFINE S == Stale(entries)
<1>1. IsIdMap(entries, RequestEntry)
  BY DEF WellFormed, TypeOK
<1>2. Live' = [i \in DOMAIN Live |->
                 IF i \in S THEN Ledger!Turned(Live[i], "expired") ELSE Live[i]]
  BY <1>1, ExpireTurns DEF Expire, ExpireStale, Live
<1>3. S \subseteq Ledger!InFlightIds(Live)
  <2>1. \A i \in DOMAIN entries : entries[i].state \in RequestState
    BY <1>1, IdMapMember DEF RequestEntry
  <2> QED
    BY <1>1, <2>1, LiveType
    DEF Stale, Unfinished, IsTerminal, RequestState, Terminal, InFlight,
        Ledger!InFlightIds, Ledger!InFlight
<1>4. S \in SUBSET RequestId
  BY <1>1, IdMapMember DEF Stale, Unfinished
<1>5. store'.records \in {store.records, Live'}
  BY PersistSaves DEF Expire
<1>6. Up /\ Up'
  BY DEF Expire, Up
<1>7. Ledger!TimeOut(S)
  BY <1>2, <1>3, <1>5, <1>6 DEF Ledger!TimeOut, Ledger!MaybeSave, Live
<1> QED BY <1>4, <1>7 DEF LedgerStep, Ledger!LedgerNext

LEMMA PruneIsForget == ASSUME WellFormed, Prune PROVE LedgerStep
<1> DEFINE S == Overdue(entries)
<1>1. IsIdMap(entries, RequestEntry)
  BY DEF WellFormed, TypeOK
<1>2. Live' = Ledger!Keep(Live, DOMAIN Live \ S)
  BY <1>1, PruneForgets DEF Prune, Live
<1>3. \A i \in S : i \in DOMAIN Live /\ Live[i].state \in Ledger!Terminal
  BY <1>1, LiveType DEF Overdue, TerminalIds, IsTerminal, Terminal, Ledger!Terminal
<1>4. S \in SUBSET RequestId
  BY <1>1, IdMapMember DEF Overdue, TerminalIds
<1>5. store'.records \in {store.records, Live'}
  BY PersistSaves DEF Prune
<1>6. Up /\ Up'
  BY DEF Prune, Up
<1>7. Ledger!Forget(S)
  BY <1>2, <1>3, <1>5, <1>6 DEF Ledger!Forget, Ledger!MaybeSave, Live
<1> QED BY <1>4, <1>7 DEF LedgerStep, Ledger!LedgerNext

\* A handler leaves the registry alone, begins a request, or moves one on.
LEMMA HandlersMoveOne ==
    ASSUME WellFormed, Serve
    PROVE  \/ UNCHANGED entries
           \/ \E id \in RequestId, owner \in Owner, parent \in Parent :
                id \notin DOMAIN entries /\ entries' = Begin(entries, id, owner, parent)
           \/ \E id \in DOMAIN entries, target \in RequestState :
                /\ entries[id].state = target \/ IsValidTransition(entries[id].state, target)
                /\ entries' = Transition(entries, id, target)
<1>1. CASE BeginRequest
  <2>1. client[serving].line \in Line \cup {NoLine} /\ client[serving].line.verb = "begin"
    BY <1>1, ServingLine DEF BeginRequest, Reading
  <2> QED BY <1>1, <2>1, BeginOutcomeShape DEF BeginRequest
<1>2. CASE TransitionRequest
  <2>1. /\ client[serving].line \in Line \cup {NoLine}
        /\ client[serving].line.verb = "transition"
    BY <1>2, ServingLine DEF TransitionRequest, Reading
  <2> QED BY <1>2, <2>1, TransitionOutcomeShape DEF TransitionRequest
<1>3. CASE RefusePeer \/ ReadError \/ SenderUnknown \/ Malformed \/ Status \/ Stop
           \/ ListRequests \/ InspectRequest
  BY <1>3 DEF RefusePeer, ReadError, SenderUnknown, Malformed, Status, Stop,
              ListRequests, InspectRequest, memory
<1> QED BY <1>1, <1>2, <1>3 DEF Serve

LEMMA HandlersStayUp ==
    ASSUME WellFormed, Serve
    PROVE  UNCHANGED store /\ Up /\ Up'
<1>1. Up
  BY DEF Serve, RefusePeer, ReadError, SenderUnknown, Malformed, Status, Stop, ListRequests,
         InspectRequest, BeginRequest, TransitionRequest, Reading, Up
<1>2. CASE ReadError
  BY <1>1, <1>2 DEF ReadError, LoopHead, Up
<1>3. CASE ~ReadError
  BY <1>1, <1>3, HandlersServed DEF Served, LoopHead, Up
<1> QED BY <1>2, <1>3

LEMMA ServeAdvances == ASSUME WellFormed, Serve PROVE LedgerStep
<1>1. UNCHANGED store /\ Up /\ Up'
  BY HandlersStayUp
<1>2. IsIdMap(entries, RequestEntry)
  BY DEF WellFormed, TypeOK
<1>3. CASE UNCHANGED entries
  BY <1>1, <1>3 DEF LedgerStep, Live, Up
<1>4. ASSUME NEW id \in RequestId, NEW owner \in Owner, NEW parent \in Parent,
             id \notin DOMAIN entries, entries' = Begin(entries, id, owner, parent)
      PROVE  LedgerStep
  <2>1. /\ DOMAIN entries' = DOMAIN entries \cup {id}
        /\ entries'[id] = NewEntry(owner, parent)
        /\ \A i \in DOMAIN entries \ {id} : entries'[i] = entries[i]
    BY <1>4 DEF Begin, Put
  <2>2. Live' = [i \in DOMAIN entries \cup {id} |-> Record(entries'[i])]
    BY <2>1 DEF Live, Records
  <2>3. Record(NewEntry(owner, parent)) =
          [owner |-> owner, parent |-> parent, state |-> "pending"]
    BY DEF Record, NewEntry
  <2>4. DOMAIN Live = DOMAIN entries /\ \A i \in DOMAIN entries : Live[i] = Record(entries[i])
    BY <1>2, LiveType
  <2>5. Live' = Ledger!Put(Live, id, [owner |-> owner, parent |-> parent, state |-> "pending"])
    BY <2>1, <2>2, <2>3, <2>4 DEF Ledger!Put
  <2>6. Ledger!Open(id, owner, parent)
    BY <1>1, <1>4, <2>4, <2>5 DEF Ledger!Open, Live
  <2> QED BY <2>6 DEF LedgerStep, Ledger!LedgerNext
<1>5. ASSUME NEW id \in DOMAIN entries, NEW target \in RequestState,
             entries[id].state = target \/ IsValidTransition(entries[id].state, target),
             entries' = Transition(entries, id, target)
      PROVE  LedgerStep
  <2>1. /\ DOMAIN entries' = DOMAIN entries
        /\ entries'[id] = Touch(entries[id], target)
        /\ \A i \in DOMAIN entries \ {id} : entries'[i] = entries[i]
    BY <1>2, <1>5, TransitionType
  <2>2. Live' = [i \in DOMAIN entries |-> Record(entries'[i])]
    BY <2>1 DEF Live, Records
  <2>3. Record(Touch(entries[id], target)) = Ledger!Turned(Record(entries[id]), target)
    BY DEF Record, Touch, Ledger!Turned
  <2>4. DOMAIN Live = DOMAIN entries /\ \A i \in DOMAIN entries : Live[i] = Record(entries[i])
    BY <1>2, LiveType
  <2>5. Live' = [Live EXCEPT ![id] = Ledger!Turned(@, target)]
    <3>1. Live = [i \in DOMAIN entries |-> Record(entries[i])]
      BY DEF Live, Records
    <3> QED BY <2>1, <2>2, <2>3, <3>1
  <2>6. Ledger!Follows(Live'[id], Live[id])
    <3>1. id \in RequestId /\ entries[id] \in RequestEntry
      BY <1>2, IdMapMember
    <3>2. Follows(Touch(entries[id], target), entries[id])
      BY <1>5, <3>1, ValidTransitionFollows
    <3>3. Live'[id] = Record(Touch(entries[id], target)) /\ Live[id] = Record(entries[id])
      BY <2>1, <2>2, <2>4
    <3> QED BY <3>2, <3>3 DEF Follows, Ledger!Follows, Terminal, Ledger!Terminal, Record
  <2>7. Ledger!Advance(id, target)
    BY <1>1, <2>4, <2>5, <2>6 DEF Ledger!Advance, Live
  <2>8. id \in RequestId /\ target \in Ledger!RequestState
    BY <1>2, IdMapMember
       DEF RequestState, InFlight, Terminal, Ledger!RequestState, Ledger!InFlight, Ledger!Terminal
  <2> QED BY <2>7, <2>8 DEF LedgerStep, Ledger!LedgerNext
<1> QED BY <1>3, <1>4, <1>5, HandlersMoveOne

LEMMA MemoryLostEnds == ASSUME Up, ~Up', MemoryLost PROVE LedgerStep
<1>1. Ledger!End
  BY EmptyRecords DEF MemoryLost, Ledger!End, Up, Empty, Ledger!Empty
<1> QED BY <1>1 DEF LedgerStep, Ledger!LedgerNext

LEMMA DamageLoses == ASSUME WellFormed, DamageStore PROVE LedgerStep
<1>1. ~Up /\ ~Up' /\ Live' = Live
  BY DEF DamageStore, memory, Up, Live
<1>2. PICK S \in SUBSET RequestId : store'.records = Ledger!Keep(store.records, S)
  <2>1. CASE store' = Unreadable
    <3>1. Ledger!Keep(store.records, {}) = Empty
      BY DEF Ledger!Keep, Empty
    <3> QED BY <2>1, <3>1 DEF Unreadable
  <2>2. ASSUME NEW S \in SUBSET RequestId, store' = [store EXCEPT !.records = Keep(@, S)]
        PROVE  store'.records = Ledger!Keep(store.records, S)
    <3>1. store = [status |-> "readable", records |-> store.records]
      BY DEF DamageStore, WellFormed, TypeOK, IsStoreFile, Missing, Unreadable
    <3>2. store'.records = Keep(store.records, S)
      BY <2>2, <3>1
    <3> QED BY <3>2 DEF Keep, Ledger!Keep
  <2> QED BY <2>1, <2>2 DEF DamageStore
<1>3. Ledger!LoseCopy(S)
  BY <1>1, <1>2 DEF Ledger!LoseCopy, Live, Up
<1> QED BY <1>3 DEF LedgerStep, Ledger!LedgerNext

LEMMA StepOfLedger == ASSUME WellFormed, [Next]_vars PROVE LedgerStep
<1>1. CASE BootPersist
  BY <1>1, PersistIsSave DEF BootPersist, Up
<1>2. CASE PersistAfterReply
  BY <1>2, PersistIsSave DEF PersistAfterReply, LoopHead, Up
<1>3. CASE Exit \/ Crash
  BY <1>3, MemoryLostEnds DEF Exit, Crash, Up
<1>4. CASE Tick
  BY <1>4, ElapseStutters DEF Tick, WellFormed, TypeOK, LedgerStep, Live, Up
<1>5. CASE \/ Accept \/ AcceptNothing \/ Connect \/ UNCHANGED vars
           \/ \E c \in Conn : Send(c) \/ HangUp(c)
  <2>1. UNCHANGED <<entries, store, Up>>
    BY <1>5 DEF Accept, AcceptNothing, Connect, Send, HangUp, vars, memory, Up
  <2> QED BY <2>1 DEF LedgerStep, Live
<1> QED
  BY <1>1, <1>2, <1>3, <1>4, <1>5, BootResumes, BootStartsAfresh, ExpireTimesOut,
     PruneIsForget, ServeAdvances, DamageLoses
  DEF Next, DaemonStep, Environment, Boot

\* The daemon keeps a ledger: whatever its clients, its clock, a crash or a
\* failed save do, its memory and its store move as RequestLedger says
\* (daemon.rs run, request.rs, request_store.rs).
THEOREM DaemonKeepsLedger == Spec => ImplementsLedger
<1>1. Init => Ledger!LedgerInit
  BY EmptyRecords DEF Init, Ledger!LedgerInit, Missing, Up, Empty, Ledger!Empty
<1>2. WellFormed /\ [Next]_vars => [Ledger!LedgerNext]_(Ledger!lvars)
  BY StepOfLedger DEF LedgerStep, Live, Ledger!lvars
<1> QED BY <1>1, <1>2, AlwaysWellFormed, PTL DEF Spec, ImplementsLedger, Ledger!LedgerSpec
=============================================================================
