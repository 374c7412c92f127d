---------------------------- MODULE ControlDaemon ----------------------------
(***************************************************************************)
(* The control plane of the garwarp daemon (garwarp/src/daemon.rs, run and *)
(* handle_connection, with request_store.rs): one process that owns a      *)
(* request registry, mirrors it into a file, and serves one control        *)
(* connection at a time between two sweeps of the registry.                *)
(*                                                                         *)
(* A step is what the process does between two points where the outside    *)
(* can interfere: a sweep with the save that follows it, an accept, a      *)
(* connection from its read to its reply, the save after that reply.       *)
(* Around it the clock ticks, clients connect, write a line or hang up,    *)
(* the process crashes, and the file it left may be damaged.               *)
(***************************************************************************)
EXTENDS RequestRegistry, Sequences

CONSTANTS
    Conn,        \* connections that can exist at once
    Line,        \* the lines the clients of this instance write
    Peer,        \* the kinds of peers that connect in this instance
    InvalidId,   \* stands for the ids validate_request_id refuses
    InvalidOwner,\* ... for the app ids validate_request_identity refuses
    InvalidParent,\* ... for the texts parse_optional_parent_window refuses
    NoConn

Target == {"awaiting_user", "fulfilled", "cancelled", "failed"}
PeerKind == {"own", "foreign", "unidentified"}

\* A line as ControlRequest::parse_line and the reader before it classify it.
\* "malformed" stands for what parse_line refuses, for an oversized line and
\* for an end of file before any byte; "undecodable" for a failed read or a
\* line that is not UTF-8.  The sender in a line is ignored by the daemon,
\* which puts the peer's uid in its place: only the app id tells owners apart.
ControlLine ==
    [verb : {"status", "stop", "list", "malformed", "undecodable"}]
    \cup [verb : {"inspect"}, id : RequestId \cup {InvalidId}]
    \cup [verb : {"begin"}, id : RequestId \cup {InvalidId},
          owner : Owner \cup {InvalidOwner}, parent : Parent \cup {InvalidParent}]
    \cup [verb : {"transition"}, id : RequestId \cup {InvalidId},
          owner : Owner \cup {InvalidOwner}, target : Target]

NoLine == [verb |-> "none"]

ASSUME ControlAssumption ==
    /\ NoConn \notin Conn
    /\ Line \subseteq ControlLine
    /\ Peer \subseteq PeerKind
    /\ InvalidId \notin RequestId
    /\ InvalidOwner \notin Owner
    /\ InvalidParent \notin Parent

VARIABLES
    entries,  \* the registry in memory
    health,   \* DaemonState.health
    running,  \* DaemonState.running
    pc,       \* where the process is; "down" after a crash, "stopped" after an exit
    store,    \* the request store file
    client,   \* what is at the other end of each connection
    backlog,  \* connections the listener has not accepted yet, oldest first
    serving,  \* the connection handle_connection is reading from
    reply,    \* the reply sent last, until the save that follows it
    told      \* history: the last record the daemon told a client of, per id

memory == <<entries, health, running>>
wire == <<client, backlog, serving, reply>>
vars == <<memory, pc, store, wire, told>>

Idle == [peer |-> "own", line |-> NoLine, open |-> FALSE]
NoReply == [to |-> NoLine, body |-> [kind |-> "none"]]

HealthStatus == {"healthy", "degraded", "stopping"}
Up == pc \notin {"down", "stopped"}
Waiting == {backlog[i] : i \in DOMAIN backlog}
InUse(c) == c \in Waiting \/ c = serving

-----------------------------------------------------------------------------
(* The store file. *)

Missing == [status |-> "missing", records |-> Empty]
Unreadable == [status |-> "unreadable", records |-> Empty]
Saved(reg) == [status |-> "readable", records |-> Records(reg)]

\* Variants: a failure is not noted; any success makes the daemon healthy.
HealthBlindToFailure(h, persisted) == IF persisted /\ h = "degraded" THEN "healthy" ELSE h
HealthFromPersist(h, persisted) ==
    IF persisted THEN "healthy" ELSE IF h = "healthy" THEN "degraded" ELSE h

\* update_health_after_persist
HealthAfterPersist(h, persisted) ==
    CASE h = "healthy" /\ ~persisted -> "degraded"
      [] h = "degraded" /\ persisted -> "healthy"
      [] OTHER -> h

\* persist_registry_state and the health update after it.  The write goes to
\* a temporary file that is renamed over the store: the store is replaced as
\* a whole or left as it was.
Persist(reg) ==
    \E persisted \in BOOLEAN :
        /\ store' = IF persisted THEN Saved(reg) ELSE store
        /\ health' = HealthAfterPersist(health, persisted)

-----------------------------------------------------------------------------
(* What clients were told. *)

Learn(facts) ==
    [i \in DOMAIN told \cup DOMAIN facts |->
        IF i \in DOMAIN facts THEN facts[i] ELSE told[i]]

Fact(id, record) == [i \in {id} |-> record]

\* What survives of it when the memory is lost: the rest was exposed.
ToldAndSaved ==
    {i \in DOMAIN told : i \in DOMAIN store.records /\ Follows(store.records[i], told[i])}

-----------------------------------------------------------------------------
Init ==
    /\ entries = Empty
    /\ health = "healthy"
    /\ running = FALSE
    /\ pc = "stopped"
    /\ store = Missing
    /\ client = [c \in Conn |-> Idle]
    /\ backlog = <<>>
    /\ serving = NoConn
    /\ reply = NoReply
    /\ told = Empty

-----------------------------------------------------------------------------
(* Startup. *)

\* load_registry_with_fallback, when the store is read: nothing is left in
\* flight by a run that is over.
BootFromStore ==
    /\ ~Up
    /\ store.status # "unreadable"
    /\ entries' = RecoverAfterRestart(Restore(store.records))
    /\ health' = "healthy"
    /\ running' = TRUE
    /\ pc' = "boot"
    /\ UNCHANGED <<store, wire, told>>

\* ... and when reading fails, because of what the file holds or of the read
\* itself: the file is moved aside if that works, and the registry is empty.
BootWithoutStore ==
    /\ ~Up
    /\ store.status # "missing"
    /\ entries' = Empty
    /\ health' = "degraded"
    /\ running' = TRUE
    /\ pc' = "boot"
    /\ told' = Empty
    /\ store' \in {Missing, store}
    /\ UNCHANGED wire

Boot == BootFromStore \/ BootWithoutStore

BootPersist ==
    /\ pc = "boot"
    /\ Persist(entries)
    /\ pc' = "expire"
    /\ UNCHANGED <<entries, running, wire, told>>

-----------------------------------------------------------------------------
(* The two sweeps at the head of the loop.  Each saves the registry when it *)
(* changed something and only then.                                        *)

Expire ==
    /\ pc = "expire"
    /\ entries' = ExpireStale(entries)
    /\ IF Stale(entries) = {} THEN UNCHANGED <<store, health>> ELSE Persist(entries')
    /\ pc' = "prune"
    /\ UNCHANGED <<running, wire, told>>

\* Variant: the registry is pruned and not saved.
PruneUnsaved ==
    /\ pc = "prune"
    /\ entries' = PruneTerminal(entries)
    /\ told' = Keep(told, DOMAIN told \ Overdue(entries))
    /\ pc' = "accept"
    /\ UNCHANGED <<health, running, store, wire>>

Prune ==
    /\ pc = "prune"
    /\ entries' = PruneTerminal(entries)
    /\ told' = Keep(told, DOMAIN told \ Overdue(entries))
    /\ IF Overdue(entries) = {} THEN UNCHANGED <<store, health>> ELSE Persist(entries')
    /\ pc' = "accept"
    /\ UNCHANGED <<running, wire>>

-----------------------------------------------------------------------------
(* Accepting and serving a connection. *)

Accept ==
    /\ pc = "accept"
    /\ backlog # <<>>
    /\ serving' = Head(backlog)
    /\ backlog' = Tail(backlog)
    /\ pc' = "read"
    /\ UNCHANGED <<memory, store, client, reply, told>>

\* Nobody is waiting, or accept failed: the daemon sleeps for poll_interval.
AcceptNothing ==
    /\ pc = "accept"
    /\ pc' = "expire"
    /\ UNCHANGED <<memory, store, wire, told>>

LoopHead(again) == IF again THEN "expire" ELSE "exit"

\* The connection in service is dropped; a reply that cannot be written ends
\* handle_connection with an error, and the loop skips the save.
Drop == client' = [client EXCEPT ![serving] = Idle] /\ serving' = NoConn

Respond(body, facts) ==
    /\ Drop
    /\ IF client[serving].open
         THEN /\ reply' = [to |-> client[serving].line, body |-> body]
              /\ told' = Learn(facts)
              /\ pc' = "persist"
         ELSE /\ pc' = LoopHead(running')
              /\ UNCHANGED <<reply, told>>
    /\ UNCHANGED <<store, backlog>>

Error(reason) == [kind |-> "error", reason |-> reason]
Ack(id, state) == [kind |-> "ack", id |-> id, state |-> state]

\* A peer whose uid cannot be read, or is not the daemon's, is refused before
\* anything is read from it.
RefusePeer ==
    /\ pc = "read"
    /\ client[serving].peer # "own"
    /\ UNCHANGED memory
    /\ Respond(Error(IF client[serving].peer = "foreign"
                       THEN "unauthorized_client" ELSE "internal_error"), Empty)

\* read_line blocks until the peer wrote a line or hung up.
Reading(verb) ==
    /\ pc = "read"
    /\ client[serving].peer = "own"
    /\ client[serving].line.verb = verb

\* trusted_sender asks for the peer's uid once more, and may not get it.
SenderUnknown ==
    /\ Reading("begin") \/ Reading("transition")
    /\ UNCHANGED memory
    /\ Respond(Error("internal_error"), Empty)

\* Reading fails: no reply, and no save.
ReadError ==
    /\ Reading("undecodable")
    /\ Drop
    /\ pc' = LoopHead(running)
    /\ UNCHANGED <<memory, store, backlog, reply, told>>

\* Variant: the end of file is not an answer.
MalformedLineOnly ==
    /\ Reading("malformed")
    /\ UNCHANGED memory
    /\ Respond(Error("invalid_request"), Empty)

\* parse_line answers None, also for the empty line of a peer that hung up.
Malformed ==
    /\ Reading("malformed") \/ (Reading("none") /\ ~client[serving].open)
    /\ UNCHANGED memory
    /\ Respond(Error("invalid_request"), Empty)

\* The counts of a status are the sizes of the sets named here.
Status ==
    /\ Reading("status")
    /\ UNCHANGED memory
    /\ Respond([kind |-> "status", health |-> health,
                in_flight |-> InFlightIds(entries), total |-> DOMAIN entries,
                terminal |-> TerminalIds(entries)], Empty)

\* Variant: the health is set and the loop is not ended.
StopInNameOnly ==
    /\ Reading("stop")
    /\ UNCHANGED <<entries, running>>
    /\ health' = "stopping"
    /\ Respond([kind |-> "ack_stopping"], Empty)

Stop ==
    /\ Reading("stop")
    /\ UNCHANGED entries
    /\ health' = "stopping"
    /\ running' = FALSE
    /\ Respond([kind |-> "ack_stopping"], Empty)

ListRequests ==
    /\ Reading("list")
    /\ UNCHANGED memory
    /\ Respond([kind |-> "list", ids |-> DOMAIN entries], Empty)

InspectRequest ==
    /\ Reading("inspect")
    /\ UNCHANGED memory
    /\ LET id == client[serving].line.id IN
         CASE id = InvalidId -> Respond(Error("invalid_request"), Empty)
           [] id \in DOMAIN entries ->
                Respond([kind |-> "snapshot", id |-> id, record |-> Record(entries[id])],
                        Fact(id, Record(entries[id])))
           [] OTHER -> Respond(Error("request_not_found"), Empty)

\* Variant: the id is not validated.
BeginOutcomeUnvalidated(line) ==
    IF line.owner = InvalidOwner THEN "invalid_request"
    ELSE IF line.parent = InvalidParent THEN "invalid_parent_window"
    ELSE IF line.id \notin DOMAIN entries THEN "begun"
    ELSE IF entries[line.id].owner # line.owner THEN "ownership_mismatch"
    ELSE IF entries[line.id].parent # line.parent THEN "request_conflict"
    ELSE "known"

\* Variant: the parent of a known request is not compared.
BeginOutcomeAnyParent(line) ==
    IF line.id = InvalidId \/ line.owner = InvalidOwner THEN "invalid_request"
    ELSE IF line.parent = InvalidParent THEN "invalid_parent_window"
    ELSE IF line.id \notin DOMAIN entries THEN "begun"
    ELSE IF entries[line.id].owner # line.owner THEN "ownership_mismatch"
    ELSE "known"

\* begin is idempotent: the owner of a request that asks for it again, with
\* the same parent, is told the state it is in.
BeginOutcome(line) ==
    IF line.id = InvalidId \/ line.owner = InvalidOwner THEN "invalid_request"
    ELSE IF line.parent = InvalidParent THEN "invalid_parent_window"
    ELSE IF line.id \notin DOMAIN entries THEN "begun"
    ELSE IF entries[line.id].owner # line.owner THEN "ownership_mismatch"
    ELSE IF entries[line.id].parent # line.parent THEN "request_conflict"
    ELSE "known"

BeginRequest ==
    /\ Reading("begin")
    /\ UNCHANGED <<health, running>>
    /\ LET line == client[serving].line
           outcome == BeginOutcome(line)
           Acknowledge(state) ==
               Respond(Ack(line.id, state),
                       Fact(line.id, [owner |-> line.owner, parent |-> line.parent,
                                      state |-> state]))
       IN \/ /\ outcome = "begun"
             /\ entries' = Begin(entries, line.id, line.owner, line.parent)
             /\ Acknowledge("pending")
          \/ /\ outcome = "known"
             /\ UNCHANGED entries
             /\ Acknowledge(entries[line.id].state)
          \/ /\ outcome \notin {"begun", "known"}
             /\ UNCHANGED entries
             /\ Respond(Error(outcome), Empty)

\* A target is never "expired": only the daemon's clock sets that.
TransitionOutcome(line) ==
    IF line.id = InvalidId \/ line.owner = InvalidOwner THEN "invalid_request"
    ELSE TransitionAnswer(entries, line.id, line.owner, line.target)

\* map_request_error
ErrorReason(outcome) ==
    CASE outcome = "not_found" -> "request_not_found"
      [] outcome = "owner_mismatch" -> "ownership_mismatch"
      [] OTHER -> outcome

TransitionRequest ==
    /\ Reading("transition")
    /\ UNCHANGED <<health, running>>
    /\ LET line == client[serving].line
           outcome == TransitionOutcome(line)
       IN \/ /\ outcome = "ok"
             /\ entries' = Transition(entries, line.id, line.target)
             /\ Respond(Ack(line.id, line.target),
                        Fact(line.id, [owner |-> line.owner, state |-> line.target,
                                       parent |-> entries[line.id].parent]))
          \/ /\ outcome # "ok"
             /\ UNCHANGED entries
             /\ Respond(Error(ErrorReason(outcome)), Empty)

Serve ==
    \/ RefusePeer \/ ReadError \/ SenderUnknown \/ Malformed \/ Status \/ Stop
    \/ ListRequests \/ InspectRequest \/ BeginRequest \/ TransitionRequest

\* The save that follows every reply, whether or not it changed anything.
PersistAfterReply ==
    /\ pc = "persist"
    /\ Persist(entries)
    /\ pc' = LoopHead(running)
    /\ reply' = NoReply
    /\ UNCHANGED <<entries, running, client, backlog, serving, told>>

-----------------------------------------------------------------------------
(* The end of a run.  Memory and connections are gone; what a client was    *)
(* told and the store does not bear out is gone with them.                  *)

MemoryLost ==
    /\ entries' = Empty
    /\ health' = "healthy"
    /\ running' = FALSE
    /\ client' = [c \in Conn |-> Idle]
    /\ backlog' = <<>>
    /\ serving' = NoConn
    /\ reply' = NoReply
    /\ told' = Keep(told, ToldAndSaved)
    /\ UNCHANGED store

\* The loop ended: run removes the socket and returns.
Exit ==
    /\ pc = "exit"
    /\ pc' = "stopped"
    /\ MemoryLost

Crash ==
    /\ Up
    /\ pc' = "down"
    /\ MemoryLost

-----------------------------------------------------------------------------
(* The outside. *)

Tick ==
    /\ Up
    /\ entries' = Elapse(entries)
    /\ UNCHANGED <<health, running, pc, store, wire, told>>

\* The socket is bound before the store is loaded.
Connect ==
    /\ Up
    /\ \E c \in Conn, peer \in Peer :
        /\ ~InUse(c)
        /\ client' = [client EXCEPT ![c] = [peer |-> peer, line |-> NoLine, open |-> TRUE]]
        /\ backlog' = Append(backlog, c)
    /\ UNCHANGED <<memory, pc, store, serving, reply, told>>

\* What a peer that will be refused writes is never read, and left out.
Undecided(c) == client[c].open /\ client[c].line = NoLine /\ client[c].peer = "own"

Send(c) ==
    /\ Undecided(c)
    /\ \E line \in Line : client' = [client EXCEPT ![c].line = line]
    /\ UNCHANGED <<memory, pc, store, backlog, serving, reply, told>>

HangUp(c) ==
    /\ client[c].open
    /\ client' = [client EXCEPT ![c].open = FALSE]
    /\ UNCHANGED <<memory, pc, store, backlog, serving, reply, told>>

\* The file is damaged between two runs: it can no longer be read, or is cut
\* after some of its records (RequestStore has the texts).
DamageStore ==
    /\ ~Up
    /\ store.status = "readable"
    /\ \/ store' = Unreadable
       \/ \E S \in SUBSET RequestId : store' = [store EXCEPT !.records = Keep(@, S)]
    /\ told' = Empty
    /\ UNCHANGED <<memory, pc, wire>>

-----------------------------------------------------------------------------
DaemonStep ==
    Boot \/ BootPersist \/ Expire \/ Prune \/ Accept \/ AcceptNothing
    \/ Serve \/ PersistAfterReply \/ Exit

Environment ==
    \/ Crash \/ Tick \/ Connect \/ DamageStore
    \/ \E c \in Conn : Send(c) \/ HangUp(c)

Next == DaemonStep \/ Environment

Spec == Init /\ [][Next]_vars

\* The process keeps running, the clock keeps ticking, the service manager
\* starts a crashed process again (Restart=on-failure), and accept does not
\* fail for ever while a connection waits.  A stopped daemon stays stopped
\* for as long as nobody starts it.
DaemonFairness ==
    /\ WF_vars(DaemonStep /\ pc # "stopped")
    /\ WF_vars(Tick)
    /\ SF_vars(Accept)

\* A client writes its line or hangs up.
ClientFairness == \A c \in Conn : WF_vars(Undecided(c) /\ (Send(c) \/ HangUp(c)))

StallSpec == Spec /\ DaemonFairness
FairSpec == Spec /\ DaemonFairness /\ ClientFairness
-----------------------------------------------------------------------------
(* Properties. *)

Reason == {"unauthorized_client", "internal_error", "invalid_request", "request_not_found",
           "invalid_parent_window", "ownership_mismatch", "request_conflict",
           "invalid_transition"}

Reply == [kind : {"none", "ack_stopping"}]
    \cup [kind : {"error"}, reason : Reason]
    \cup [kind : {"ack"}, id : RequestId, state : RequestState]
    \cup [kind : {"snapshot"}, id : RequestId, record : RequestRecord]
    \cup [kind : {"list"}, ids : SUBSET RequestId]
    \cup [kind : {"status"}, health : HealthStatus, in_flight : SUBSET RequestId,
          total : SUBSET RequestId, terminal : SUBSET RequestId]

IsStoreFile(f) ==
    \/ f \in {Missing, Unreadable}
    \/ /\ f = [status |-> "readable", records |-> f.records]
       /\ IsIdMap(f.records, RequestRecord)

\* Every variable has its type: above all, no request the validators of
\* validate.rs and window.rs refuse is ever registered, saved or told.
TypeOK ==
    /\ IsIdMap(entries, RequestEntry)
    /\ health \in HealthStatus
    /\ running \in BOOLEAN
    /\ pc \in {"down", "stopped", "boot", "expire", "prune", "accept", "read", "persist", "exit"}
    /\ IsStoreFile(store)
    /\ client \in [Conn -> [peer : PeerKind, line : Line \cup {NoLine}, open : BOOLEAN]]
    /\ backlog \in Seq(Conn)
    /\ serving \in Conn \cup {NoConn}
    /\ reply \in [to : Line \cup {NoLine}, body : Reply]
    /\ IsIdMap(told, RequestRecord)

\* No client was misled: what the daemon last said of a request is still so,
\* or has only moved on, in the registry of the running daemon and, while
\* none runs, in the store the next one starts from.  A retained request has
\* the owner and the parent its begin was acknowledged with, whoever asked
\* for the same id since (daemon.rs handle_connection, request.rs).
ToldNotContradicted ==
    IF Up THEN BorneOut(told, entries) ELSE BorneOut(told, store.records)

\* What a client was told is at risk from a crash only between the reply and
\* the save that follows it, or while the daemon reports that it is not
\* healthy (daemon.rs run: reply before persist; update_health_after_persist).
ExposureBounded ==
    Up /\ health = "healthy" /\ pc # "persist" => BorneOut(told, store.records)

\* While the daemon reports itself healthy the store holds nothing the memory
\* goes back on: no request that was pruned, and none under another owner
\* than the one that has begun it since.  A crash cannot bring one back.
StoreTrailsMemory ==
    Up /\ health = "healthy" => BorneOut(store.records, entries)

\* A stop request is the last one served, its mark on the health is never
\* overwritten by a later save, and nothing else ends the loop.
StopIsFinal ==
    Up => /\ running <=> health # "stopping"
          /\ ~running => pc \in {"persist", "exit"} /\ serving = NoConn

\* Over crashes, restarts and repeated begins, two things a client is told of
\* one request never go backwards: the later is a later stage of the earlier.
\* Only pruning, or a loss the daemon could not save against, starts an id anew.
ToldOnlyAdvances ==
    [][\A i \in DOMAIN told \cap DOMAIN told' : Follows(told'[i], told[i])]_vars

\* A request that is open, or that some client believes open, is eventually
\* not: it reaches an outcome, whatever its owner sends and however often the
\* daemon crashes, unless the daemon is stopped and not started again
\* (README.md: GARWARP_REQUEST_TIMEOUT_MS; request.rs expire_stale).
Open(i) ==
    \/ i \in InFlightIds(entries)
    \/ i \in DOMAIN told /\ told[i].state \in InFlight
          /\ ~(i \in DOMAIN entries /\ entries[i].state \in Terminal)
RequestsSettle == \A i \in RequestId : Open(i) ~> (~Open(i) \/ pc = "stopped")

\* A request that ended does not stay for ever untouched (README.md:
\* GARWARP_TERMINAL_RETENTION_MS; request.rs prune_terminal).
RecordsAreDropped ==
    \A i \in RequestId :
        []<>(i \in DOMAIN entries => entries[i].state \in InFlight \/ entries[i].idle = 0)

\* A daemon told to stop ends, whoever else is connected or waiting.
StopCompletes == health = "stopping" ~> ~Up

\* Every connection the listener took is eventually answered or dropped,
\* whatever the clients before it in the backlog do short of silence.
ConnectionsEnd == \A c \in Conn : InUse(c) ~> ~InUse(c)

\* The daemon implements the ledger: its memory, its store and its runs are
\* the ledger's, and every step of it is a step of the ledger or none.
Ledger == INSTANCE RequestLedger WITH
    live <- Records(entries), saved <- store.records, up <- Up
ImplementsLedger == Ledger!LedgerSpec
=============================================================================
