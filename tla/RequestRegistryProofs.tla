------------------------ MODULE RequestRegistryProofs ------------------------
(***************************************************************************)
(* Facts about the operators of RequestRegistry: what each returns and how *)
(* it moves the requests it touches.  The proofs about the modules that    *)
(* own a registry cite them.                                               *)
(***************************************************************************)
EXTENDS RequestRegistry, TLAPS

\* IsIdMap, spelled out.
LEMMA IdMapMember ==
    ASSUME NEW V, NEW m
    PROVE  IsIdMap(m, V) <=> /\ m = [i \in DOMAIN m |-> m[i]]
                             /\ DOMAIN m \subseteq RequestId
                             /\ \A i \in DOMAIN m : m[i] \in V
BY DEF IsIdMap

LEMMA EmptyType == \A V : IsIdMap(Empty, V) /\ DOMAIN Empty = {}
<1> TAKE V
<1>1. DOMAIN Empty = {} /\ Empty = [i \in DOMAIN Empty |-> Empty[i]]
  BY DEF Empty
<1> QED BY <1>1, IdMapMember

\* A map given by an expression over a set of ids.
LEMMA IdMapBuild ==
    ASSUME NEW V, NEW D \in SUBSET RequestId, NEW m \in [D -> V]
    PROVE  IsIdMap(m, V)
BY DEF IsIdMap

LEMMA KeepShape ==
    ASSUME NEW m, NEW S
    PROVE  /\ DOMAIN Keep(m, S) = DOMAIN m \cap S
           /\ \A i \in DOMAIN Keep(m, S) : i \in DOMAIN m /\ i \in S /\ Keep(m, S)[i] = m[i]
BY DEF Keep

LEMMA KeepType ==
    ASSUME NEW V, NEW m, IsIdMap(m, V), NEW S
    PROVE  IsIdMap(Keep(m, S), V)
<1>1. DOMAIN m \subseteq RequestId /\ \A i \in DOMAIN m : m[i] \in V
  BY IdMapMember
<1>2. Keep(m, S) \in [DOMAIN m \cap S -> V]
  BY <1>1 DEF Keep
<1> QED BY <1>1, <1>2, IdMapBuild

LEMMA RecordType ==
    \A e \in RequestEntry : /\ Record(e) \in RequestRecord
                            /\ Record(e).owner = e.owner
                            /\ Record(e).parent = e.parent
                            /\ Record(e).state = e.state
BY DEF RequestEntry, RequestRecord, Record

LEMMA RecordsType ==
    ASSUME NEW reg, IsIdMap(reg, RequestEntry)
    PROVE  /\ IsIdMap(Records(reg), RequestRecord)
           /\ DOMAIN Records(reg) = DOMAIN reg
           /\ \A i \in DOMAIN reg : Records(reg)[i] = Record(reg[i])
<1>1. DOMAIN reg \subseteq RequestId /\ \A i \in DOMAIN reg : reg[i] \in RequestEntry
  BY IdMapMember
<1>2. Records(reg) \in [DOMAIN reg -> RequestRecord]
  BY <1>1, RecordType DEF Records
<1> QED BY <1>1, <1>2, IdMapBuild DEF Records

LEMMA TouchType ==
    ASSUME NEW e \in RequestEntry, NEW s \in RequestState
    PROVE  /\ Touch(e, s) \in RequestEntry
           /\ Touch(e, s).owner = e.owner
           /\ Touch(e, s).parent = e.parent
           /\ Touch(e, s).state = s
BY LimitsAssumption DEF Touch, RequestEntry

LEMMA BeginType ==
    ASSUME NEW reg, IsIdMap(reg, RequestEntry),
           NEW id \in RequestId, NEW owner \in Owner, NEW parent \in Parent
    PROVE  /\ IsIdMap(Begin(reg, id, owner, parent), RequestEntry)
           /\ DOMAIN Begin(reg, id, owner, parent) = DOMAIN reg \cup {id}
           /\ Begin(reg, id, owner, parent)[id] = NewEntry(owner, parent)
           /\ \A i \in DOMAIN reg \ {id} : Begin(reg, id, owner, parent)[i] = reg[i]
<1>1. DOMAIN reg \subseteq RequestId /\ \A i \in DOMAIN reg : reg[i] \in RequestEntry
  BY IdMapMember
<1>2. NewEntry(owner, parent) \in RequestEntry
  BY LimitsAssumption DEF NewEntry, RequestEntry, RequestState, InFlight
<1>3. Begin(reg, id, owner, parent) \in [DOMAIN reg \cup {id} -> RequestEntry]
  BY <1>1, <1>2 DEF Begin, Put
<1> QED BY <1>1, <1>3, IdMapBuild DEF Begin, Put

LEMMA TransitionType ==
    ASSUME NEW reg, IsIdMap(reg, RequestEntry),
           NEW id \in DOMAIN reg, NEW target \in RequestState
    PROVE  /\ IsIdMap(Transition(reg, id, target), RequestEntry)
           /\ DOMAIN Transition(reg, id, target) = DOMAIN reg
           /\ Transition(reg, id, target)[id] = Touch(reg[id], target)
           /\ \A i \in DOMAIN reg \ {id} : Transition(reg, id, target)[i] = reg[i]
<1>1. /\ DOMAIN reg \subseteq RequestId
      /\ reg = [i \in DOMAIN reg |-> reg[i]]
      /\ \A i \in DOMAIN reg : reg[i] \in RequestEntry
  BY IdMapMember
<1>2. Touch(reg[id], target) \in RequestEntry
  BY <1>1, TouchType
<1>3. Transition(reg, id, target) \in [DOMAIN reg -> RequestEntry]
  BY <1>1, <1>2 DEF Transition
<1> QED BY <1>1, <1>3, IdMapBuild DEF Transition

\* Both expiries move requests that have not ended, to "expired".
LEMMA ExpireAllType ==
    ASSUME NEW reg, IsIdMap(reg, RequestEntry), NEW S
    PROVE  /\ IsIdMap(ExpireAll(reg, S), RequestEntry)
           /\ DOMAIN ExpireAll(reg, S) = DOMAIN reg
           /\ \A i \in DOMAIN reg : /\ i \in S => ExpireAll(reg, S)[i] = Touch(reg[i], "expired")
                                    /\ i \notin S => ExpireAll(reg, S)[i] = reg[i]
<1>1. DOMAIN reg \subseteq RequestId /\ \A i \in DOMAIN reg : reg[i] \in RequestEntry
  BY IdMapMember
<1>2. \A i \in DOMAIN reg : Touch(reg[i], "expired") \in RequestEntry
  BY <1>1, TouchType DEF RequestState, Terminal
<1>3. ExpireAll(reg, S) \in [DOMAIN reg -> RequestEntry]
  BY <1>1, <1>2 DEF ExpireAll
<1> QED BY <1>1, <1>3, IdMapBuild DEF ExpireAll

LEMMA RestoreType ==
    ASSUME NEW records, IsIdMap(records, RequestRecord)
    PROVE  /\ IsIdMap(Restore(records), RequestEntry)
           /\ DOMAIN Restore(records) = DOMAIN records
           /\ \A i \in DOMAIN records : Record(Restore(records)[i]) = records[i]
<1>1. DOMAIN records \subseteq RequestId /\ \A i \in DOMAIN records : records[i] \in RequestRecord
  BY IdMapMember
<1>2. Restore(records) \in [DOMAIN records -> RequestEntry]
  BY <1>1, LimitsAssumption DEF Restore, RequestEntry, RequestRecord
<1>3. \A i \in DOMAIN records : Record(Restore(records)[i]) = records[i]
  BY <1>1 DEF Restore, Record, RequestRecord
<1> QED BY <1>1, <1>2, <1>3, IdMapBuild DEF Restore

LEMMA SaturateType ==
    ASSUME NEW limit \in Nat, NEW n \in 0..limit
    PROVE  Saturate(n, limit) \in 0..limit
BY DEF Saturate

LEMMA ElapseType ==
    ASSUME NEW reg, IsIdMap(reg, RequestEntry)
    PROVE  /\ IsIdMap(Elapse(reg), RequestEntry)
           /\ DOMAIN Elapse(reg) = DOMAIN reg
           /\ \A i \in DOMAIN reg : Record(Elapse(reg)[i]) = Record(reg[i])
<1>1. DOMAIN reg \subseteq RequestId /\ \A i \in DOMAIN reg : reg[i] \in RequestEntry
  BY IdMapMember
<1> DEFINE Older(e) == [e EXCEPT !.age = Saturate(@, Timeout), !.idle = Saturate(@, Retention)]
<1>2. \A e \in RequestEntry : Older(e) \in RequestEntry /\ Record(Older(e)) = Record(e)
  <2> TAKE e \in RequestEntry
  <2>1. Saturate(e.age, Timeout) \in 0..Timeout /\ Saturate(e.idle, Retention) \in 0..Retention
    BY LimitsAssumption, SaturateType DEF RequestEntry
  <2> QED BY <2>1 DEF RequestEntry, Record
<1>3. Elapse(reg) = [i \in DOMAIN reg |-> Older(reg[i])]
  BY DEF Elapse
<1> HIDE DEF Older
<1>4. Elapse(reg) \in [DOMAIN reg -> RequestEntry]
  BY <1>1, <1>2, <1>3
<1> QED BY <1>1, <1>2, <1>3, <1>4, IdMapBuild

-----------------------------------------------------------------------------
(* Stages. *)

LEMMA FollowsReflexive == \A r : Follows(r, r)
BY DEF Follows

LEMMA FollowsTransitive ==
    ASSUME NEW a, NEW b, NEW c, Follows(b, a), Follows(c, b)
    PROVE  Follows(c, a)
BY DEF Follows, Terminal

\* Only the record of an entry matters to Follows.
LEMMA FollowsRecord ==
    ASSUME NEW e, NEW r
    PROVE  /\ Follows(Record(e), r) <=> Follows(e, r)
           /\ Follows(r, Record(e)) <=> Follows(r, e)
BY DEF Follows, Record

\* A legal transition leads to a later stage.
LEMMA ValidTransitionFollows ==
    ASSUME NEW e \in RequestEntry, NEW s \in RequestState,
           e.state = s \/ IsValidTransition(e.state, s)
    PROVE  Follows(Touch(e, s), e)
BY TouchType DEF Follows, IsValidTransition

LEMMA ExpiryFollows ==
    ASSUME NEW e \in RequestEntry, ~IsTerminal(e.state)
    PROVE  Follows(Touch(e, "expired"), e)
<1>1. "expired" \in RequestState
  BY DEF RequestState, Terminal
<1>2. e.state \in InFlight
  BY DEF RequestEntry, RequestState, IsTerminal
<1> QED BY <1>1, <1>2, TouchType DEF Follows, InFlight, Terminal

\* What is borne out stays so when the map moves on.
LEMMA BorneOutMovesOn ==
    ASSUME NEW facts, NEW m, NEW n, BorneOut(facts, m),
           \A i \in DOMAIN facts : i \in DOMAIN m => i \in DOMAIN n /\ Follows(n[i], m[i])
    PROVE  BorneOut(facts, n)
BY FollowsTransitive DEF BorneOut

LEMMA BorneOutByRecords ==
    ASSUME NEW facts, NEW reg, IsIdMap(reg, RequestEntry)
    PROVE  /\ BorneOut(facts, Records(reg)) <=> BorneOut(facts, reg)
           /\ BorneOut(Records(reg), reg)
<1>1. /\ DOMAIN Records(reg) = DOMAIN reg
      /\ \A i \in DOMAIN reg : Records(reg)[i] = Record(reg[i])
  BY RecordsType
<1> QED BY <1>1, FollowsRecord, FollowsReflexive DEF BorneOut

\* A sweep that expires unfinished requests moves every request on.
LEMMA ExpireAllMovesOn ==
    ASSUME NEW reg, IsIdMap(reg, RequestEntry), NEW S, S \subseteq Unfinished(reg)
    PROVE  \A i \in DOMAIN reg : Follows(ExpireAll(reg, S)[i], reg[i])
<1> TAKE i \in DOMAIN reg
<1>1. reg[i] \in RequestEntry
  BY IdMapMember
<1>2. CASE i \in S
  BY <1>1, <1>2, ExpireAllType, ExpiryFollows DEF Unfinished
<1>3. CASE i \notin S
  BY <1>3, ExpireAllType, FollowsReflexive
<1> QED BY <1>2, <1>3

LEMMA SweepSets ==
    ASSUME NEW reg
    PROVE  /\ Stale(reg) \subseteq Unfinished(reg)
           /\ Overdue(reg) \subseteq DOMAIN reg
BY DEF Stale, Unfinished, Overdue, TerminalIds
=============================================================================
