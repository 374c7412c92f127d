------------------------ MODULE SingleInstanceProofs ------------------------
(***************************************************************************)
(* Proofs about SingleInstance and the two modules built on it:            *)
(* Activation, with the session bus, and DaemonLifecycle, with the shared  *)
(* store; for any number of processes, calls and contents.                 *)
(***************************************************************************)
EXTENDS Activation, DaemonLifecycle, TLAPS

(* The processes. *)

\* The labels a process may be at.
Labels == {"off", "exit"} \cup Acquiring \cup Guarded

\* What OneServes rests on: whoever is past ClaimName, and has not given the
\* name back, owns it.
NameIsHeld ==
    /\ pc \in [Proc -> Labels]
    /\ \A p \in Proc : pc[p] \in Named => name = p

LEMMA NameIsHeldInit == Init => NameIsHeld
BY DEF Init, NameIsHeld, Labels, Named

LEMMA NameIsHeldStep == NameIsHeld /\ [Next]_vars => NameIsHeld'
<1> SUFFICES ASSUME NameIsHeld, [Next]_vars PROVE NameIsHeld'
  OBVIOUS
<1> USE DEF NameIsHeld, Labels, Acquiring, Guarded, Ending, Named
<1>1. CASE UNCHANGED vars
  BY <1>1 DEF vars
<1>2. ASSUME NEW p \in Proc, GiveUp(p) PROVE NameIsHeld'
  BY <1>2, InstanceAssumption DEF GiveUp, Goto
<1>3. ASSUME NEW p \in Proc, Start(p) PROVE NameIsHeld'
  BY <1>3 DEF Start, Goto
<1>4. ASSUME NEW p \in Proc, Progress(p) PROVE NameIsHeld'
  <2>1. CASE TryCreate(p)
    BY <2>1 DEF TryCreate, Goto
  <2>2. CASE WritePid(p)
    BY <2>2 DEF WritePid, Goto
  <2>3. CASE ReadPid(p)
    BY <2>3, <1>2 DEF ReadPid, Goto
  <2>4. CASE Judge(p)
    BY <2>4, <1>2 DEF Judge, Misjudge, Goto
  <2>5. CASE RemoveStaleLock(p)
    BY <2>5, <1>2 DEF RemoveStaleLock, Goto
  <2>6. CASE CreateAgain(p)
    BY <2>6, <1>2 DEF CreateAgain, Goto
  <2>7. CASE CheckSocket(p)
    BY <2>7 DEF CheckSocket, Goto
  <2>8. CASE Unlink(p)
    BY <2>8 DEF Unlink, Goto
  <2>9. CASE ClaimName(p)
    BY <2>9, InstanceAssumption DEF ClaimName, Goto
  <2>10. CASE Bind(p)
    BY <2>10 DEF Bind, Goto
  <2>11. CASE SetUpSocket(p)
    BY <2>11 DEF SetUpSocket, Goto
  <2>12. CASE RemoveSocket(p)
    BY <2>12 DEF RemoveSocket, Goto
  <2>13. CASE ReleaseName(p)
    BY <2>13 DEF ReleaseName, Goto
  <2>14. CASE Unlock(p)
    BY <2>14 DEF Unlock, Goto
  <2>15. CASE Exit(p)
    BY <2>15, <1>2 DEF Exit
  <2> QED
    BY <1>4, <2>1, <2>2, <2>3, <2>4, <2>5, <2>6, <2>7, <2>8, <2>9, <2>10,
       <2>11, <2>12, <2>13, <2>14, <2>15 DEF Progress
<1>5. ASSUME NEW p \in Proc, Interruption(p) PROVE NameIsHeld'
  <2>1. CASE Stop(p)
    BY <2>1 DEF Stop, Goto
  <2>2. CASE SetupFails(p)
    BY <2>2 DEF SetupFails, Goto
  <2>3. CASE Die(p)
    BY <2>3, <1>2 DEF Die
  <2> QED BY <1>5, <2>1, <2>2, <2>3 DEF Interruption
<1> QED BY <1>1, <1>3, <1>4, <1>5 DEF Next

\* However many daemons are started, and however their starts overlap, one
\* at most serves and writes the request store (daemon.rs run).
THEOREM OneDaemonServes == Spec => []OneServes
<1>1. NameIsHeld => OneServes
  BY DEF NameIsHeld, OneServes, Named, Ending
<1> QED BY <1>1, NameIsHeldInit, NameIsHeldStep, PTL DEF Spec
-----------------------------------------------------------------------------
\* A process that ends leaves nothing that is named for it.
LEMMA TypeOKAtEnd ==
    ASSUME TypeOK, NEW p \in Proc, GiveUp(p)
    PROVE  TypeOK'
<1> USE InstanceAssumption DEF TypeOK, GiveUp, Goto, File
<1>1. Abandon(socket, p) \in File /\ Abandon(socket, p) # p
  BY DEF Abandon
<1>2. AbandonLock(lock, p) \in File /\ AbandonLock(lock, p) # p
  BY DEF Abandon, AbandonLock
<1>3. \A q \in Proc \ {p} :
        /\ socket # q => Abandon(socket, p) # q
        /\ lock # q => AbandonLock(lock, p) # q
  BY DEF Abandon, AbandonLock
<1>4. \A q \in Proc : Abandon(seen[q], p) \in File /\ (seen[q] # None => Abandon(seen[q], p) # None)
  BY DEF Abandon
<1>5. /\ pc' \in [Proc -> {"off", "exit"} \cup Acquiring \cup Guarded]
      /\ signed' \subseteq Proc /\ seen' \in [Proc -> File]
  BY <1>4
<1>6. \A q \in Proc :
        /\ pc'[q] = "off" => q \notin {lock', socket', name'} /\ q \notin signed'
        /\ pc'[q] = "judge" => seen'[q] # None
  BY <1>1, <1>2, <1>3, <1>4
<1>7. lock' \in File /\ socket' \in File /\ name' \in Proc \cup {None}
  BY <1>1, <1>2
<1> QED BY <1>5, <1>6, <1>7 DEF Acquiring, Guarded, Ending

LEMMA TypeOKStep == TypeOK /\ [Next]_vars => TypeOK'
<1> SUFFICES ASSUME TypeOK, [Next]_vars PROVE TypeOK'
  OBVIOUS
<1> USE DEF TypeOK, Acquiring, Guarded, Ending, File
<1>1. CASE UNCHANGED vars
  BY <1>1 DEF vars
<1>2. ASSUME NEW p \in Proc, GiveUp(p) PROVE TypeOK'
  BY <1>2, TypeOKAtEnd
<1>3. ASSUME NEW p \in Proc, Start(p) PROVE TypeOK'
  BY <1>3 DEF Start, Goto
<1>4. ASSUME NEW p \in Proc, Progress(p) PROVE TypeOK'
  <2>1. CASE TryCreate(p)
    BY <2>1 DEF TryCreate, Goto
  <2>2. CASE WritePid(p)
    BY <2>2 DEF WritePid, Goto
  <2>3. CASE ReadPid(p)
    <3>1. lock # None => PidIn(lock) \in File \ {None}
      BY InstanceAssumption DEF PidIn
    <3> HIDE DEF File
    <3> QED BY <2>3, <1>2, <3>1 DEF ReadPid, Goto
  <2>4. CASE Judge(p)
    BY <2>4, <1>2 DEF Judge, Misjudge, Goto
  <2>5. CASE RemoveStaleLock(p)
    BY <2>5, <1>2, InstanceAssumption DEF RemoveStaleLock, Goto
  <2>6. CASE CreateAgain(p)
    BY <2>6, <1>2 DEF CreateAgain, Goto
  <2>7. CASE CheckSocket(p)
    BY <2>7 DEF CheckSocket, Goto
  <2>8. CASE Unlink(p)
    BY <2>8, InstanceAssumption DEF Unlink, Goto
  <2>9. CASE ClaimName(p)
    BY <2>9 DEF ClaimName, Goto
  <2>10. CASE Bind(p)
    BY <2>10 DEF Bind, Goto
  <2>11. CASE SetUpSocket(p)
    BY <2>11 DEF SetUpSocket, Goto
  <2>12. CASE RemoveSocket(p)
    BY <2>12, InstanceAssumption DEF RemoveSocket, Goto
  <2>13. CASE ReleaseName(p)
    BY <2>13, InstanceAssumption DEF ReleaseName, Goto
  <2>14. CASE Unlock(p)
    BY <2>14, InstanceAssumption DEF Unlock, Goto
  <2>15. CASE Exit(p)
    BY <2>15, <1>2 DEF Exit
  <2> QED
    BY <1>4, <2>1, <2>2, <2>3, <2>4, <2>5, <2>6, <2>7, <2>8, <2>9, <2>10,
       <2>11, <2>12, <2>13, <2>14, <2>15 DEF Progress
<1>5. ASSUME NEW p \in Proc, Interruption(p) PROVE TypeOK'
  <2>1. CASE Stop(p)
    BY <2>1 DEF Stop, Goto
  <2>2. CASE SetupFails(p)
    BY <2>2 DEF SetupFails, Goto
  <2>3. CASE Die(p)
    BY <2>3, <1>2 DEF Die
  <2> QED BY <1>5, <2>1, <2>2, <2>3 DEF Interruption
<1> QED BY <1>1, <1>3, <1>4, <1>5 DEF Next

\* Types; and what is named for a process is that of one that lives: the end
\* of a daemon makes its files nobody's (lock.rs is_stale looks at /proc).
THEOREM TypeCorrect == Spec => []TypeOK
<1>1. Init => TypeOK
  BY InstanceAssumption DEF Init, TypeOK, Acquiring, Guarded, File
<1> QED BY <1>1, TypeOKStep, PTL DEF Spec
-----------------------------------------------------------------------------
\* What ServingOwnsFiles rests on, where starts do not overlap: the lock file
\* is that of the one process between its creation and its removal, and a
\* starter that takes it for stale is right.
FilesAreHeld ==
    /\ pc \in [Proc -> Labels]
    /\ lock \in File
    /\ seen \in [Proc -> File]
    /\ \A p, q \in Proc : pc[p] \in Starting /\ pc[q] \in Starting => p = q
    /\ \A p \in Proc :
        /\ pc[p] \in Guarded \cup {"sign"} => lock = p
        /\ lock = p => pc[p] \in Guarded \cup {"sign"}
        /\ pc[p] \in Guarded => p \in signed
        /\ pc[p] = "judge" /\ lock \in Proc => seen[p] = lock
        /\ pc[p] \in {"remove", "recreate"} => lock \notin Proc
        /\ pc[p] \in {"set_up", "serve"} => socket = p

LEMMA FilesAreHeldInit == Init => FilesAreHeld
BY InstanceAssumption DEF Init, FilesAreHeld, Labels, Starting, Acquiring, Guarded, Ending, File

\* A process that ends takes nothing of another's with it.
LEMMA FilesAreHeldAtEnd ==
    ASSUME FilesAreHeld, NEW p \in Proc, GiveUp(p)
    PROVE  FilesAreHeld'
BY InstanceAssumption
   DEF FilesAreHeld, Labels, Starting, Acquiring, Guarded, Ending, File,
       GiveUp, Goto, Abandon, AbandonLock

\* Nobody is started while somebody starts.
StartsInTurn == \A p, q \in Proc : Start(p) => pc[q] \notin Starting

LEMMA FilesAreHeldStep == StartsInTurn /\ FilesAreHeld /\ [Next]_vars => FilesAreHeld'
<1> SUFFICES ASSUME StartsInTurn, FilesAreHeld, [Next]_vars PROVE FilesAreHeld'
  OBVIOUS
<1> USE DEF FilesAreHeld, Labels, Starting, Acquiring, Guarded, Ending, File
<1>1. CASE UNCHANGED vars
  BY <1>1 DEF vars
<1>3. ASSUME NEW p \in Proc, Start(p) PROVE FilesAreHeld'
  <2>1. \A q \in Proc : pc[q] \notin Starting
    BY <1>3 DEF StartsInTurn
  <2> QED BY <1>3, <2>1 DEF Start, Goto
<1>4. ASSUME NEW p \in Proc, Progress(p) PROVE FilesAreHeld'
  <2>1. CASE TryCreate(p)
    BY <2>1, InstanceAssumption DEF TryCreate, Goto
  <2>2. CASE WritePid(p)
    BY <2>2 DEF WritePid, Goto
  <2>3. CASE ReadPid(p)
    <3>1. CASE GiveUp(p)
      BY <3>1, FilesAreHeldAtEnd
    <3>2. CASE /\ pc[p] = "read"
               /\ lock # None
               /\ seen' = [seen EXCEPT ![p] = PidIn(lock)]
               /\ Goto(p, "judge")
               /\ UNCHANGED <<lock, signed, socket, name>>
      <4>1. PidIn(lock) = lock \/ PidIn(lock) = Blank
        BY DEF PidIn
      <4>2. /\ PidIn(lock) \in Proc => PidIn(lock) = lock
            /\ PidIn(lock) \in File
        BY <4>1, InstanceAssumption, <3>2 DEF PidIn
      <4>3. lock \in Proc => PidIn(lock) = lock
        BY <3>2 DEF PidIn
      <4> HIDE DEF File
      <4> QED BY <3>2, <4>2, <4>3 DEF Goto
    <3> QED BY <2>3, <3>1, <3>2 DEF ReadPid
  <2>4. CASE Judge(p)
    BY <2>4, FilesAreHeldAtEnd, InstanceAssumption DEF Judge, Misjudge, Goto
  <2>5. CASE RemoveStaleLock(p)
    BY <2>5, FilesAreHeldAtEnd, InstanceAssumption DEF RemoveStaleLock, Goto
  <2>6. CASE CreateAgain(p)
    BY <2>6, FilesAreHeldAtEnd, InstanceAssumption DEF CreateAgain, Goto
  <2>7. CASE CheckSocket(p)
    BY <2>7 DEF CheckSocket, Goto
  <2>8. CASE Unlink(p)
    BY <2>8 DEF Unlink, Goto
  <2>9. CASE ClaimName(p)
    BY <2>9 DEF ClaimName, Goto
  <2>10. CASE Bind(p)
    BY <2>10, InstanceAssumption DEF Bind, Goto
  <2>11. CASE SetUpSocket(p)
    BY <2>11 DEF SetUpSocket, Goto
  <2>12. CASE RemoveSocket(p)
    BY <2>12 DEF RemoveSocket, Goto
  <2>13. CASE ReleaseName(p)
    BY <2>13 DEF ReleaseName, Goto
  <2>14. CASE Unlock(p)
    BY <2>14, InstanceAssumption DEF Unlock, Goto
  <2>15. CASE Exit(p)
    BY <2>15, FilesAreHeldAtEnd DEF Exit
  <2> QED
    BY <1>4, <2>1, <2>2, <2>3, <2>4, <2>5, <2>6, <2>7, <2>8, <2>9, <2>10,
       <2>11, <2>12, <2>13, <2>14, <2>15 DEF Progress
<1>5. ASSUME NEW p \in Proc, Interruption(p) PROVE FilesAreHeld'
  <2>1. CASE Stop(p)
    BY <2>1 DEF Stop, Goto
  <2>2. CASE SetupFails(p)
    BY <2>2 DEF SetupFails, Goto
  <2>3. CASE Die(p)
    BY <2>3, FilesAreHeldAtEnd DEF Die
  <2> QED BY <1>5, <2>1, <2>2, <2>3 DEF Interruption
<1> QED BY <1>1, <1>3, <1>4, <1>5 DEF Next

\* Where starts do not overlap, the daemon that serves keeps the lock file
\* with its pid and the socket clients find (lock.rs, remove_stale_socket).
THEOREM StartedInTurn == ~Overlap /\ Spec => []ServingOwnsFiles
<1>1. FilesAreHeld => ServingOwnsFiles
  BY DEF FilesAreHeld, ServingOwnsFiles, Guarded, Ending
<1> QED
  <2>1. CASE ~Overlap
    <3>1. FilesAreHeld /\ [Next]_vars => FilesAreHeld'
      BY <2>1, FilesAreHeldStep DEF StartsInTurn, Start
    <3> QED BY <1>1, <3>1, FilesAreHeldInit, PTL DEF Spec
  <2>2. CASE Overlap
    BY <2>2
  <2> QED BY <2>1, <2>2

-----------------------------------------------------------------------------
(* The session bus. *)

\* The bus and the exports add nothing to what the processes do to the lock
\* file, the socket and the name.
LEMMA StepOfProcesses == [ANext]_avars => [Next]_vars
<1> USE DEF avars, vars
<1>1. ASSUME NEW p \in Proc,
             StartAlone(p) \/ Activate(p) \/ Export(p) \/ Proceed(p) \/ Interrupt(p)
      PROVE  [Next]_vars
  BY <1>1 DEF Next, StartAlone, Activate, Export, Proceed, Interrupt
<1>2. ASSUME NEW c \in Caller, SendCall(c) \/ Handle(c) \/ Forget(c)
      PROVE  [Next]_vars
  BY <1>2 DEF SendCall, Handle, Forget
<1> QED BY <1>1, <1>2 DEF ANext

\* What is proved of the processes holds of them with the bus: in particular,
\* daemons started by hand, by systemd and by activation, each when no other
\* start is under way, keep their files (lock.rs, remove_stale_socket).
THEOREM WithTheBus == ~Overlap /\ ASpec => []ServingOwnsFiles
<1>1. ASpec => Spec
  BY StepOfProcesses, PTL DEF ASpec, AInit, Spec
<1> QED BY <1>1, StartedInTurn

LEMMA TypeAndNameAlways == ASpec => [](TypeOK /\ NameIsHeld)
<1>1. AInit => TypeOK /\ NameIsHeld
  BY NameIsHeldInit, InstanceAssumption
     DEF AInit, Init, TypeOK, Acquiring, Guarded, File
<1>2. TypeOK /\ NameIsHeld /\ [ANext]_avars => (TypeOK /\ NameIsHeld)'
  BY StepOfProcesses, TypeOKStep, NameIsHeldStep
<1> QED BY <1>1, <1>2, PTL DEF ASpec
-----------------------------------------------------------------------------
\* What OnlyEarlyCallsMiss rests on: who got past bind has exported all three
\* interfaces and keeps them, and a call sent to a daemon that serves is
\* handed to that daemon.
Call == [state : {"kept", "with", "answered", "missed", "failed"},
         to : Proc \cup {None}, interface : 1 .. 3, ready : BOOLEAN]

ExportedBeforeServing ==
    /\ exported \in [Proc -> 0 .. 3]
    /\ call \in [Caller -> {NoCall} \cup Call]
    /\ \A p \in Proc : pc[p] \in {"set_up", "serve"} => exported[p] = 3

ReadyIsServed(c) ==
    call[c].state # "none" =>
        /\ call[c].state = "with" => call[c].to \in Proc
        /\ call[c].ready => /\ call[c].state \notin {"kept", "missed"}
                            /\ call[c].state = "with" => exported[call[c].to] = 3

ReadyAreServed == \A c \in Caller : ReadyIsServed(c)

LEMMA ThreeInterfaces == DOMAIN Exports = 1 .. 3 /\ Len(Exports) = 3
BY DEF Exports

\* What the bus makes of a call.
LEMMA CallTurns ==
    ASSUME NEW e \in Call, NEW s \in {"with", "answered", "missed", "failed"}
    PROVE  LET f == [e EXCEPT !.state = s] IN
           f \in Call /\ f.state = s /\ f.to = e.to /\ f.ready = e.ready
BY DEF Call

LEMMA CallHanded ==
    ASSUME NEW e \in Call, NEW p \in Proc \cup {None}
    PROVE  LET f == [e EXCEPT !.state = "with", !.to = p] IN
           f \in Call /\ f.state = "with" /\ f.to = p /\ f.ready = e.ready
BY DEF Call

LEMMA NoCallIsNone == NoCall.state = "none" /\ \A e \in Call : e.state # "none"
BY DEF NoCall, Call

\* What a step of a process does to a call: nothing, or it hands it over, or
\* it fails it.
LEMMA CallsAfter ==
    ASSUME call \in [Caller -> {NoCall} \cup Call], name' \in Proc \cup {None}, CallsFollow
    PROVE  /\ call' \in [Caller -> {NoCall} \cup Call]
           /\ \A c \in Caller :
               \/ /\ call'[c] = call[c]
                  /\ Kept(c) => name' = None
                  /\ WithProcess(c) => pc'[call[c].to] \in Named
               \/ /\ Kept(c) /\ name' # None /\ call'[c].ready = call[c].ready
                  /\ call'[c].state = "with" /\ call'[c].to = name'
               \/ /\ Kept(c) \/ WithProcess(c)
                  /\ call'[c].ready = call[c].ready /\ call'[c].state = "failed"
                  /\ Kept(c) => child # None /\ pc'[child] = "off"
<1> DEFINE After(c) ==
      IF Kept(c) /\ name' # None THEN [call[c] EXCEPT !.state = "with", !.to = name']
      ELSE IF \/ Kept(c) /\ child # None /\ pc'[child] = "off"
              \/ WithProcess(c) /\ pc'[call[c].to] \notin Named
        THEN [call[c] EXCEPT !.state = "failed"]
      ELSE call[c]
<1>1. call' = [c \in Caller |-> After(c)]
  BY DEF CallsFollow
<1>2. ASSUME NEW c \in Caller
      PROVE  /\ After(c) \in {NoCall} \cup Call
             /\ \/ /\ After(c) = call[c]
                   /\ Kept(c) => name' = None
                   /\ WithProcess(c) => pc'[call[c].to] \in Named
                \/ /\ Kept(c) /\ name' # None /\ After(c).ready = call[c].ready
                   /\ After(c).state = "with" /\ After(c).to = name'
                \/ /\ Kept(c) \/ WithProcess(c)
                   /\ After(c).ready = call[c].ready /\ After(c).state = "failed"
                   /\ Kept(c) => child # None /\ pc'[child] = "off"
  <2>1. CASE Kept(c) /\ name' # None
    <3>1. call[c] \in Call
      BY <2>1, NoCallIsNone DEF Kept
    <3> QED BY <2>1, <3>1, CallHanded
  <2>2. CASE /\ ~(Kept(c) /\ name' # None)
             /\ \/ Kept(c) /\ child # None /\ pc'[child] = "off"
                \/ WithProcess(c) /\ pc'[call[c].to] \notin Named
    <3>1. call[c] \in Call
      BY <2>2, NoCallIsNone DEF Kept, WithProcess
    <3>2. After(c) = [call[c] EXCEPT !.state = "failed"]
      BY <2>2
    <3>3. Kept(c) => ~WithProcess(c)
      BY DEF Kept, WithProcess
    <3> HIDE DEF After
    <3> DEFINE f == [call[c] EXCEPT !.state = "failed"]
    <3>4. f \in Call /\ f.state = "failed" /\ f.ready = call[c].ready
      BY <3>1 DEF Call
    <3> QED BY <2>2, <3>2, <3>3, <3>4
  <2>3. CASE /\ ~(Kept(c) /\ name' # None)
             /\ ~(\/ Kept(c) /\ child # None /\ pc'[child] = "off"
                  \/ WithProcess(c) /\ pc'[call[c].to] \notin Named)
    <3>1. After(c) = call[c]
      BY <2>3
    <3> HIDE DEF After
    <3> QED BY <2>3, <3>1
  <2> QED BY <2>1, <2>2, <2>3
<1> HIDE DEF After
<1>3. \A c \in Caller : call'[c] = After(c)
  BY <1>1
<1>4. call' \in [Caller -> {NoCall} \cup Call]
  BY <1>1, <1>2
<1> QED BY <1>2, <1>3, <1>4

\* How a process's call moves it.
LEMMA PcAfter ==
    ASSUME TypeOK, NEW p \in Proc, Start(p) \/ Progress(p) \/ Interruption(p)
    PROVE  /\ \E label \in Labels : pc' = [pc EXCEPT ![p] = label]
           /\ pc'[p] = "set_up" => pc[p] = "bind"
           /\ pc'[p] = "serve" => pc[p] = "set_up"
<1> USE DEF Goto, TypeOK, Labels, Acquiring, Guarded, Ending
<1>1. ASSUME GiveUp(p) PROVE pc' = [pc EXCEPT ![p] = "off"]
  BY <1>1 DEF GiveUp
<1>2. CASE Start(p)
  BY <1>2 DEF Start
<1>3. CASE Interruption(p)
  BY <1>3, <1>1 DEF Interruption, Stop, SetupFails, Die
<1>4. CASE Progress(p)
  <2>1. CASE TryCreate(p) \/ WritePid(p)
    BY <2>1 DEF TryCreate, WritePid
  <2>2. CASE ReadPid(p) \/ Judge(p) \/ RemoveStaleLock(p) \/ CreateAgain(p)
    BY <2>2, <1>1 DEF ReadPid, Judge, Misjudge, RemoveStaleLock, CreateAgain
  <2>3. CASE CheckSocket(p) \/ Unlink(p) \/ ClaimName(p)
    BY <2>3 DEF CheckSocket, Unlink, ClaimName
  <2>4. CASE Bind(p) \/ SetUpSocket(p)
    BY <2>4 DEF Bind, SetUpSocket
  <2>5. CASE RemoveSocket(p) \/ ReleaseName(p) \/ Unlock(p) \/ Exit(p)
    BY <2>5, <1>1 DEF RemoveSocket, ReleaseName, Unlock, Exit
  <2> QED BY <1>4, <2>1, <2>2, <2>3, <2>4, <2>5 DEF Progress
<1> QED BY <1>2, <1>3, <1>4

\* A process's step keeps what is exported before it serves, and takes the
\* exports of a ready call away only with the call.
LEMMA ReadyAfterMove ==
    ASSUME TypeOK, TypeOK', ExportedBeforeServing, ReadyAreServed,
           NEW p \in Proc, Start(p) \/ Progress(p) \/ Interruption(p), Moved(p)
    PROVE  ExportedBeforeServing' /\ ReadyAreServed'
<1>1. PICK label \in Labels : pc' = [pc EXCEPT ![p] = label]
  BY PcAfter
<1>2. /\ pc'[p] = "set_up" => exported[p] = 3
      /\ pc'[p] = "serve" => exported[p] = 3
  BY PcAfter, ThreeInterfaces DEF Moved, MayBind, ExportedBeforeServing
<1>3. /\ exported' \in [Proc -> 0 .. 3]
      /\ \A q \in Proc : pc'[q] # "off" => exported'[q] = exported[q]
  BY <1>1 DEF Moved, ExportedBeforeServing, TypeOK
<1>4. \A q \in Proc : pc'[q] \in {"set_up", "serve"} => exported'[q] = 3
  BY <1>1, <1>2, <1>3 DEF ExportedBeforeServing, TypeOK
<1>5. name' \in Proc \cup {None}
  BY DEF TypeOK
<1>6. call' \in [Caller -> {NoCall} \cup Call]
  BY <1>5, CallsAfter DEF Moved, ExportedBeforeServing
<1>7. ASSUME NEW c \in Caller PROVE ReadyIsServed(c)'
  <2> USE DEF ReadyIsServed, ReadyAreServed, Kept, WithProcess
  <2>1. CASE call'[c] = call[c] /\ (WithProcess(c) => pc'[call[c].to] \in Named)
    BY <2>1, <1>3 DEF Named
  <2>2. CASE /\ Kept(c) /\ name' # None /\ call'[c].ready = call[c].ready
             /\ call'[c].state = "with" /\ call'[c].to = name'
    BY <2>2, <1>5
  <2>3. CASE /\ Kept(c) \/ WithProcess(c)
             /\ call'[c].ready = call[c].ready /\ call'[c].state = "failed"
    BY <2>3
  <2> QED BY <2>1, <2>2, <2>3, <1>5, CallsAfter DEF Moved, ExportedBeforeServing
<1> QED BY <1>3, <1>4, <1>6, <1>7 DEF ExportedBeforeServing, ReadyAreServed

LEMMA ReadyStep ==
    TypeOK /\ TypeOK' /\ NameIsHeld /\ ExportedBeforeServing /\ ReadyAreServed /\ [ANext]_avars
        => ExportedBeforeServing' /\ ReadyAreServed'
<1> SUFFICES ASSUME TypeOK, TypeOK', NameIsHeld, ExportedBeforeServing, ReadyAreServed,
                    [ANext]_avars
             PROVE  ExportedBeforeServing' /\ ReadyAreServed'
  OBVIOUS
<1> USE DEF ExportedBeforeServing, ReadyAreServed, ReadyIsServed
<1>1. CASE UNCHANGED avars
  BY <1>1 DEF avars, vars
<1>2. ASSUME NEW p \in Proc, StartAlone(p) \/ Activate(p) \/ Proceed(p) \/ Interrupt(p)
      PROVE  ExportedBeforeServing' /\ ReadyAreServed'
  BY <1>2, ReadyAfterMove DEF StartAlone, Activate, Proceed, Interrupt
<1>3. ASSUME NEW p \in Proc, Export(p) PROVE ExportedBeforeServing' /\ ReadyAreServed'
  <2>1. exported' \in [Proc -> 0 .. 3] /\ \A q \in Proc : exported[q] = 3 => exported'[q] = 3
    BY <1>3, ThreeInterfaces DEF Export
  <2> QED BY <1>3, <2>1 DEF Export, vars
<1>4. ASSUME NEW c \in Caller, SendCall(c) PROVE ExportedBeforeServing' /\ ReadyAreServed'
  <2>1. PICK i \in 1 .. 3 :
          call' = [call EXCEPT ![c] =
                     [state |-> IF name = None THEN "kept" ELSE "with", to |-> name,
                      interface |-> i, ready |-> \E p \in Proc : pc[p] = "serve"]]
    BY <1>4, ThreeInterfaces DEF SendCall
  <2> DEFINE new == [state |-> IF name = None THEN "kept" ELSE "with", to |-> name,
                     interface |-> i, ready |-> \E p \in Proc : pc[p] = "serve"]
  <2>2. new \in Call
    BY DEF Call, TypeOK
  <2>3. /\ new.state \in {"kept", "with"} /\ new.to = name
        /\ new.state = "with" <=> name # None
        /\ new.ready <=> \E p \in Proc : pc[p] = "serve"
    OBVIOUS
  <2>4. new.ready => name \in Proc /\ exported[name] = 3
    BY <2>3 DEF NameIsHeld, Named
  <2>5. call' = [call EXCEPT ![c] = new]
    BY <2>1
  <2>6. UNCHANGED <<pc, exported, name>>
    BY <1>4 DEF SendCall, vars
  <2> HIDE DEF new
  <2>7. name \in Proc \cup {None}
    BY DEF TypeOK
  <2> QED BY <2>2, <2>3, <2>4, <2>5, <2>6, <2>7, InstanceAssumption
<1>5. ASSUME NEW c \in Caller, Handle(c) PROVE ExportedBeforeServing' /\ ReadyAreServed'
  <2> DEFINE answer == IF call[c].interface <= exported[call[c].to] THEN "answered" ELSE "missed"
             new == [call[c] EXCEPT !.state = answer]
  <2>1. call[c] \in Call /\ call[c].state = "with" /\ call[c].to \in Proc
    BY <1>5, NoCallIsNone DEF Handle, WithProcess
  <2>2. call[c].ready => answer = "answered"
    BY <2>1 DEF Call
  <2>3. answer \in {"answered", "missed"}
    OBVIOUS
  <2>4. call' = [call EXCEPT ![c] = [@ EXCEPT !.state = answer]]
    BY <1>5 DEF Handle
  <2> HIDE DEF answer
  <2>5. new \in Call /\ new.state = answer /\ new.ready = call[c].ready
    BY <2>1, <2>3 DEF Call
  <2>6. call' = [call EXCEPT ![c] = new]
    BY <2>4
  <2>7. UNCHANGED <<pc, exported>>
    BY <1>5 DEF Handle, vars
  <2> HIDE DEF new
  <2> QED BY <2>2, <2>3, <2>5, <2>6, <2>7
<1>6. ASSUME NEW c \in Caller, Forget(c) PROVE ExportedBeforeServing' /\ ReadyAreServed'
  BY <1>6, NoCallIsNone DEF Forget, vars
<1> QED BY <1>1, <1>2, <1>3, <1>4, <1>5, <1>6 DEF ANext

\* Whoever calls once the daemon serves finds all of its interfaces, for any
\* number of processes and calls and any overlap of starts: the control socket
\* is bound after the exports (dbus.rs SessionNameGuard::acquire, daemon.rs run).
THEOREM CalledWhenReady == ASpec => []OnlyEarlyCallsMiss
<1>1. AInit => ExportedBeforeServing /\ ReadyAreServed
  <2> SUFFICES ASSUME AInit PROVE ExportedBeforeServing /\ ReadyAreServed
    OBVIOUS
  <2> QED
    BY NoCallIsNone DEF AInit, Init, ExportedBeforeServing, ReadyAreServed, ReadyIsServed
<1>2. ReadyAreServed => OnlyEarlyCallsMiss
  BY DEF ReadyAreServed, ReadyIsServed, OnlyEarlyCallsMiss
<1> QED BY <1>1, <1>2, TypeAndNameAlways, ReadyStep, PTL DEF ASpec
-----------------------------------------------------------------------------
\* What ActivationFailsForAReason rests on.  While a call is kept, or the bus
\* has a child, nobody owns the name; the child lives.
NobodyYet ==
    /\ child \in Proc \cup {None}
    /\ child # None => pc[child] # "off" /\ name = None
    /\ \A c \in Caller : Kept(c) => name = None

\* A process that is alone and was not interrupted finds what it looked for,
\* and takes a lock file that others left for stale; as the bus's child it
\* goes on to the claim.
Untroubled(p) == p \notin excused /\ Alone(p)
BeforeClaim == Acquiring \cup {"check_socket", "unlink", "claim"}
OnItsWay(p) ==
    /\ pc[p] \in Acquiring \ {"sign"} => lock # p
    /\ pc[p] \in {"read", "judge", "remove"} => lock # None
    /\ pc[p] = "recreate" => lock = None
    /\ pc[p] = "judge" => seen[p] \notin Proc
    /\ pc[p] = "unlink" => socket # None
    /\ child = p => pc[p] \in BeforeClaim

Uneventful == \A p \in Proc : Untroubled(p) => OnItsWay(p)

\* An interruption leaves the name alone or frees it.
LEMMA InterruptionFrees ==
    ASSUME NEW p \in Proc, Interruption(p)
    PROVE  name' = name \/ name' = None
BY DEF Interruption, Stop, SetupFails, Die, GiveUp

LEMMA StartsFrom ==
    ASSUME NEW p \in Proc, Start(p)
    PROVE  pc[p] = "off" /\ name' = name /\ pc' = [pc EXCEPT ![p] = "create"]
BY DEF Start, Goto

LEMMA MovesFrom ==
    ASSUME NEW p \in Proc, Progress(p) \/ Interruption(p)
    PROVE  pc[p] # "off"
BY DEF Progress, TryCreate, WritePid, ReadPid, Judge, RemoveStaleLock, CreateAgain,
       CheckSocket, Unlink, ClaimName, Bind, SetUpSocket, RemoveSocket, ReleaseName, Unlock,
       Exit, Misjudge, Interruption, Stop, SetupFails, Die

\* What a step of a process does to the bus's child.
ChildFollows(p) ==
    /\ child' \in {child, p, None}
    /\ child' = p => child = p \/ pc[p] = "off"
    /\ child' = p => pc'[p] # "off"
    /\ name' # None => child' = None

LEMMA ChildAfterMove ==
    ASSUME TypeOK, TypeOK', NobodyYet, NEW p \in Proc,
           StartAlone(p) \/ Activate(p) \/ Proceed(p) \/ Interrupt(p)
    PROVE  ChildFollows(p)
<1> USE DEF NobodyYet, ChildFollows
<1>1. CASE StartAlone(p)
  BY <1>1, StartsFrom, InstanceAssumption DEF StartAlone, TypeOK
<1>2. CASE Activate(p)
  BY <1>2, StartsFrom, InstanceAssumption DEF Activate, TypeOK
<1>3. CASE Proceed(p)
  BY <1>3, InstanceAssumption DEF Proceed
<1>4. CASE Interrupt(p)
  BY <1>4, InterruptionFrees, InstanceAssumption DEF Interrupt
<1> QED BY <1>1, <1>2, <1>3, <1>4

LEMMA NobodyYetAfterMove ==
    ASSUME TypeOK, TypeOK', NobodyYet, ExportedBeforeServing, NEW p \in Proc,
           Start(p) \/ Progress(p) \/ Interruption(p), Moved(p), ChildFollows(p)
    PROVE  NobodyYet'
<1>1. child' \in Proc \cup {None} /\ (child' # None => pc'[child'] # "off" /\ name' = None)
  <2>1. \A q \in Proc \ {p} : pc'[q] = pc[q]
    BY PcAfter DEF TypeOK
  <2> QED BY <2>1, InstanceAssumption DEF NobodyYet, ChildFollows
<1>2. ASSUME NEW c \in Caller, Kept(c)' PROVE name' = None
  <2>1. name' \in Proc \cup {None}
    BY DEF TypeOK
  <2> QED BY <1>2, <2>1, CallsAfter DEF Moved, ExportedBeforeServing, Kept
<1> QED BY <1>1, <1>2 DEF NobodyYet

\* A call of a process that is alone and on its way keeps it there.
LEMMA StaysOnItsWay ==
    ASSUME TypeOK, NobodyYet, NEW p \in Proc, Alone(p), OnItsWay(p),
           Progress(p), ChildFollows(p), pc'[p] # "off"
    PROVE  OnItsWay(p)'
<1> USE DEF OnItsWay, Acquiring, BeforeClaim, Goto, TypeOK
<1>1. pc[p] # "off"
  BY MovesFrom
<1>2. child' = p => child = p /\ name' = None
  BY <1>1, InstanceAssumption DEF ChildFollows
<1>3. ~GiveUp(p)
  BY DEF GiveUp
<1>4. lock \in Proc => lock = p
  BY DEF Alone
<1>5. CASE TryCreate(p) \/ WritePid(p)
  BY <1>5, <1>2, InstanceAssumption DEF TryCreate, WritePid
<1>6. CASE ReadPid(p)
  <2>1. lock \notin Proc /\ PidIn(lock) = lock
    BY <1>3, <1>4, <1>6 DEF ReadPid, PidIn
  <2> QED BY <2>1, <1>2, <1>3, <1>6 DEF ReadPid
<1>7. CASE Judge(p) \/ RemoveStaleLock(p) \/ CreateAgain(p)
  BY <1>7, <1>2, <1>3, InstanceAssumption DEF Judge, Misjudge, RemoveStaleLock, CreateAgain
<1>8. CASE CheckSocket(p) \/ Unlink(p)
  BY <1>8, <1>2 DEF CheckSocket, Unlink
<1>9. CASE ClaimName(p)
  BY <1>9, <1>2, InstanceAssumption DEF ClaimName, NobodyYet
<1>10. CASE Bind(p) \/ SetUpSocket(p) \/ RemoveSocket(p) \/ ReleaseName(p)
  BY <1>10, <1>2 DEF Bind, SetUpSocket, RemoveSocket, ReleaseName
<1>11. CASE Unlock(p) \/ Exit(p)
  BY <1>11, <1>2, <1>3 DEF Unlock, Exit
<1> QED BY <1>5, <1>6, <1>7, <1>8, <1>9, <1>10, <1>11 DEF Progress

LEMMA UneventfulAfterMove ==
    ASSUME TypeOK, TypeOK', NobodyYet, Uneventful, NEW p \in Proc,
           Start(p) \/ Progress(p) \/ Interruption(p), Moved(p), ChildFollows(p)
    PROVE  Uneventful'
<1> SUFFICES ASSUME NEW q \in Proc, Untroubled(q)' PROVE OnItsWay(q)'
  BY DEF Uneventful
<1>1. /\ \A r \in Proc \ {p} : pc'[r] = pc[r]
      /\ pc' \in [Proc -> Labels]
  BY PcAfter DEF TypeOK, Labels
<1>2. CASE pc'[q] = "off"
  <2>1. child' # q
    BY <1>1, <1>2, InstanceAssumption DEF ChildFollows, NobodyYet
  <2> QED BY <1>2, <2>1 DEF OnItsWay, Acquiring
<1>3. CASE pc'[q] # "off" /\ pc[q] = "off"
  <2>1. p = q /\ Start(p)
    BY <1>1, <1>3, MovesFrom
  <2>2. lock' # p /\ pc'[p] = "create"
    BY <2>1, <1>3, StartsFrom DEF TypeOK, Start
  <2> QED BY <2>1, <2>2 DEF OnItsWay, BeforeClaim, Acquiring
<1>4. CASE pc'[q] # "off" /\ pc[q] # "off"
  <2>1. Untroubled(q) /\ ~Interrupted(q)
    BY <1>4 DEF Moved, Untroubled
  <2>2. p = q
    <3>1. CASE Start(p)
      BY <3>1, <1>1, <1>4, StartsFrom DEF Untroubled, Alone, TypeOK
    <3>2. CASE Progress(p) \/ Interruption(p)
      BY <3>2, <2>1, MovesFrom DEF Untroubled, Alone
    <3> QED BY <3>1, <3>2
  <2>3. Progress(q)
    BY <2>1, <2>2, <1>4, StartsFrom DEF Interrupted
  <2>4. Alone(q) /\ OnItsWay(q)
    BY <2>1 DEF Uneventful, Untroubled
  <2> QED BY <1>4, <2>2, <2>3, <2>4, StaysOnItsWay
<1> QED BY <1>2, <1>3, <1>4

\* What the bus and the exports do leaves the processes where they are.
LEMMA BusSteps ==
    ASSUME ExportedBeforeServing,
           \/ \E p \in Proc : Export(p)
           \/ \E c \in Caller : SendCall(c) \/ Handle(c) \/ Forget(c)
    PROVE  /\ UNCHANGED <<vars, child, excused>>
           /\ \A c \in Caller : Kept(c)' => Kept(c) \/ name = None
           /\ \A c \in Caller : Kept(c) => call'[c].state # "failed"
<1> USE DEF ExportedBeforeServing, Kept
<1>1. ASSUME NEW p \in Proc, Export(p)
      PROVE  UNCHANGED <<vars, child, excused, call>>
  BY <1>1 DEF Export
<1>2. ASSUME NEW c \in Caller, SendCall(c) \/ Handle(c) \/ Forget(c)
      PROVE  /\ UNCHANGED <<vars, child, excused>>
             /\ \A d \in Caller : d # c => call'[d] = call[d]
             /\ call[c].state # "kept"
             /\ call'[c].state = "kept" => name = None
  <2>1. CASE SendCall(c)
    BY <2>1, NoCallIsNone DEF SendCall
  <2>2. CASE Handle(c)
    <3> DEFINE answer == IF call[c].interface <= exported[call[c].to] THEN "answered" ELSE "missed"
    <3>1. call[c] \in Call /\ call[c].state = "with"
      BY <2>2, NoCallIsNone DEF Handle, WithProcess
    <3>2. answer \in {"answered", "missed"}
      OBVIOUS
    <3>3. call' = [call EXCEPT ![c] = [@ EXCEPT !.state = answer]]
      BY <2>2 DEF Handle
    <3> HIDE DEF answer
    <3>4. [call[c] EXCEPT !.state = answer].state = answer
      BY <3>1, <3>2 DEF Call
    <3>5. call'[c] = [call[c] EXCEPT !.state = answer]
      BY <3>3
    <3>6. call'[c].state # "kept"
      BY <3>2, <3>4, <3>5
    <3>7. \A d \in Caller : d # c => call'[d] = call[d]
      BY <3>3
    <3> QED BY <2>2, <3>1, <3>6, <3>7 DEF Handle
  <2>3. CASE Forget(c)
    BY <2>3, NoCallIsNone DEF Forget
  <2> QED BY <1>2, <2>1, <2>2, <2>3
<1>3. CASE \E p \in Proc : Export(p)
  <2>1. UNCHANGED <<vars, child, excused, call>>
    BY <1>1, <1>3
  <2> QED BY <2>1
<1>4. CASE \E c \in Caller : SendCall(c) \/ Handle(c) \/ Forget(c)
  <2>1. PICK c \in Caller : SendCall(c) \/ Handle(c) \/ Forget(c)
    BY <1>4
  <2>2. /\ UNCHANGED <<vars, child, excused>>
        /\ \A d \in Caller : d # c => call'[d] = call[d]
        /\ call[c].state # "kept"
        /\ call'[c].state = "kept" => name = None
    BY <1>2, <2>1
  <2> QED BY <2>2
<1> QED BY <1>3, <1>4

Settled == TypeOK /\ NameIsHeld /\ ExportedBeforeServing /\ ReadyAreServed /\ NobodyYet

LEMMA UneventfulStep ==
    ASSUME Settled, TypeOK', Uneventful, [ANext]_avars
    PROVE  NobodyYet' /\ Uneventful'
<1> USE DEF Settled
<1>1. ASSUME NEW p \in Proc, StartAlone(p) \/ Activate(p) \/ Proceed(p) \/ Interrupt(p)
      PROVE  NobodyYet' /\ Uneventful'
  <2>1. ChildFollows(p)
    BY <1>1, ChildAfterMove
  <2>2. (Start(p) \/ Progress(p) \/ Interruption(p)) /\ Moved(p)
    BY <1>1 DEF StartAlone, Activate, Proceed, Interrupt
  <2> QED BY <2>1, <2>2, NobodyYetAfterMove, UneventfulAfterMove
<1>2. CASE /\ UNCHANGED <<vars, child, excused>>
           /\ \A c \in Caller : Kept(c)' => Kept(c) \/ name = None
  <2>1. NobodyYet'
    BY <1>2 DEF NobodyYet, vars
  <2>2. Uneventful'
    BY <1>2 DEF Uneventful, Untroubled, Alone, OnItsWay, vars
  <2> QED BY <2>1, <2>2
<1>3. CASE UNCHANGED avars
  BY <1>2, <1>3 DEF avars, Kept
<1> QED BY <1>1, <1>2, <1>3, BusSteps DEF ANext

\* A kept call fails by the end of the process that was started for it, and
\* that one does not end of itself before the claim, unless it takes another
\* process for the daemon whose pid is in the lock file.
LEMMA FailsForAReason ==
    ASSUME Settled, TypeOK', Uneventful, [ANext]_avars,
           NEW c \in Caller, Kept(c), call'[c].state = "failed"
    PROVE  Misjudge(child) \/ child \in excused \/ ~Alone(child) \/ Interrupted(child)
<1> USE DEF Settled
<1>1. PICK p \in Proc : StartAlone(p) \/ Activate(p) \/ Proceed(p) \/ Interrupt(p)
  BY BusSteps DEF ANext, Kept, avars
<1>2. (Start(p) \/ Progress(p) \/ Interruption(p)) /\ Moved(p)
  BY <1>1 DEF StartAlone, Activate, Proceed, Interrupt
<1>3. child \in Proc /\ pc[child] # "off" /\ pc'[child] = "off"
  <2>1. child # None /\ pc'[child] = "off"
    BY <1>2, CallsAfter DEF Moved, ExportedBeforeServing, TypeOK, Kept, WithProcess
  <2> QED BY <2>1 DEF NobodyYet
<1>4. p = child /\ ~Start(p)
  BY <1>2, <1>3, PcAfter, StartsFrom DEF TypeOK
<1> SUFFICES ASSUME ~Misjudge(child), child \notin excused, Alone(child), Progress(child)
             PROVE  FALSE
  BY <1>2, <1>4 DEF Interrupted
<1>5. OnItsWay(child)
  BY <1>3 DEF Uneventful, Untroubled
<1>6. pc[child] \in BeforeClaim /\ name = None
  BY <1>3, <1>5, InstanceAssumption DEF OnItsWay, NobodyYet
<1> USE <1>3, <1>5, <1>6 DEF TypeOK, Goto, OnItsWay, BeforeClaim, Acquiring
<1>7. ~(TryCreate(child) \/ WritePid(child) \/ CheckSocket(child) \/ Unlink(child))
  BY DEF TryCreate, WritePid, CheckSocket, Unlink
<1>8. ~(ReadPid(child) \/ Judge(child) \/ RemoveStaleLock(child) \/ CreateAgain(child))
  BY DEF ReadPid, Judge, RemoveStaleLock, CreateAgain
<1>9. ~(ClaimName(child) \/ Bind(child) \/ SetUpSocket(child) \/ RemoveSocket(child))
  BY DEF ClaimName, Bind, SetUpSocket, RemoveSocket
<1>10. ~(ReleaseName(child) \/ Unlock(child) \/ Exit(child))
  BY DEF ReleaseName, Unlock, Exit
<1> QED BY <1>7, <1>8, <1>9, <1>10 DEF Progress

\* For any number of processes and calls, what a daemon that died anywhere left
\* fails an activation in one way only, by a pid that is another process's now
\* (lock.rs process_exists): all else is found stale (is_stale,
\* remove_stale_socket).
THEOREM ActivationsSucceed == ASpec => ActivationFailsForAReason
<1>1. AInit => ExportedBeforeServing /\ ReadyAreServed /\ NobodyYet /\ Uneventful
  <2> SUFFICES ASSUME AInit
               PROVE  ExportedBeforeServing /\ ReadyAreServed /\ NobodyYet /\ Uneventful
    OBVIOUS
  <2>1. ExportedBeforeServing /\ ReadyAreServed
    BY NoCallIsNone DEF AInit, Init, ExportedBeforeServing, ReadyAreServed, ReadyIsServed
  <2>2. NobodyYet /\ Uneventful
    BY InstanceAssumption, NoCallIsNone
       DEF AInit, Init, NobodyYet, Kept, Uneventful, OnItsWay, Acquiring
  <2> QED BY <2>1, <2>2
<1>2. /\ TypeOK /\ NameIsHeld /\ TypeOK'
      /\ ExportedBeforeServing /\ ReadyAreServed /\ NobodyYet /\ Uneventful
      /\ [ANext]_avars
      => NobodyYet' /\ Uneventful'
  BY UneventfulStep DEF Settled
<1>3. /\ TypeOK /\ NameIsHeld /\ TypeOK'
      /\ ExportedBeforeServing /\ ReadyAreServed /\ NobodyYet /\ Uneventful
      /\ [ANext]_avars
      => [\A c \in Caller :
            Kept(c) /\ call'[c].state = "failed" =>
              \/ Misjudge(child)
              \/ child \in excused \/ ~Alone(child) \/ Interrupted(child)]_avars
  BY FailsForAReason DEF Settled
<1> QED
  BY <1>1, <1>2, <1>3, TypeAndNameAlways, ReadyStep, PTL DEF ASpec, ActivationFailsForAReason

-----------------------------------------------------------------------------
(* The shared store. *)

\* What ServesFromTheStore rests on, beside OneServes: only who serves has
\* looked at the file, until it ends.
StoreKnown ==
    /\ pc \in [Proc -> Labels]
    /\ memory \in [Proc -> Content \cup {None, Unread}]
    /\ known \in [Proc -> Content \cup {None}]
    /\ stored \in Content
    /\ \A p \in Proc :
        /\ memory[p] # None => pc[p] \in {"serve"} \cup Ending
        /\ memory[p] = Unread => pc[p] = "serve"
        /\ pc[p] = "serve" /\ memory[p] # None => known[p] = stored

\* A step of a process moves that process only; into serving from set_up, and
\* out of it to the end.
LEMMA ProcessMoves ==
    ASSUME pc \in [Proc -> Labels], NEW p \in Proc,
           Start(p) \/ Progress(p) \/ Interruption(p)
    PROVE  \E l \in Labels :
             /\ pc' = [pc EXCEPT ![p] = l]
             /\ l = "serve" => pc[p] = "set_up"
             /\ pc[p] = "serve" => l \in {"remove_socket", "off"}
             /\ pc[p] \in Ending => l \in Ending \cup {"off"}
<1> USE DEF Goto, Labels, Acquiring, Guarded, Ending
<1>1. CASE Start(p)
  BY <1>1 DEF Start
<1>2. CASE TryCreate(p) \/ WritePid(p) \/ CreateAgain(p)
  BY <1>2 DEF TryCreate, WritePid, CreateAgain, GiveUp
<1>3. CASE ReadPid(p) \/ Judge(p) \/ RemoveStaleLock(p)
  BY <1>3 DEF ReadPid, Judge, Misjudge, RemoveStaleLock, GiveUp
<1>4. CASE CheckSocket(p) \/ Unlink(p) \/ ClaimName(p) \/ Bind(p) \/ SetUpSocket(p)
  BY <1>4 DEF CheckSocket, Unlink, ClaimName, Bind, SetUpSocket
<1>5. CASE RemoveSocket(p) \/ ReleaseName(p) \/ Unlock(p) \/ Exit(p)
  BY <1>5 DEF RemoveSocket, ReleaseName, Unlock, Exit, GiveUp
<1>6. CASE Interruption(p)
  BY <1>6 DEF Interruption, Stop, SetupFails, Die, GiveUp
<1> QED BY <1>1, <1>2, <1>3, <1>4, <1>5, <1>6 DEF Progress

LEMMA StoreKnownInit == LInit => StoreKnown
BY LifecycleAssumption DEF LInit, Init, StoreKnown, Labels

LEMMA StoreKnownStep == OneServes /\ StoreKnown /\ [LNext]_lvars => StoreKnown'
<1> SUFFICES ASSUME OneServes, StoreKnown, [LNext]_lvars PROVE StoreKnown'
  OBVIOUS
<1> USE LifecycleAssumption DEF StoreKnown, Remember
<1>1. ASSUME NEW p \in Proc, Move(p) PROVE StoreKnown'
  <2>1. PICK l \in Labels :
          /\ pc' = [pc EXCEPT ![p] = l]
          /\ l = "serve" => pc[p] = "set_up"
          /\ pc[p] = "serve" => l \in {"remove_socket", "off"}
          /\ pc[p] \in Ending => l \in Ending \cup {"off"}
    BY <1>1, ProcessMoves DEF Move
  <2>2. pc'[p] = l /\ pc' \in [Proc -> Labels]
    BY <2>1
  <2>3. CASE l = "off"
    BY <1>1, <2>1, <2>2, <2>3 DEF Move, Ending
  <2>4. CASE l # "off"
    <3>1. /\ UNCHANGED <<memory, known, stored>>
          /\ pc[p] = "serve" => l = "remove_socket" /\ memory[p] \in Content
      BY <1>1, <2>1, <2>2, <2>4 DEF Move
    <3>2. memory[p] # None => l \in Ending /\ memory[p] # Unread
      BY <2>1, <2>4, <3>1 DEF Ending
    <3>3. ASSUME NEW q \in Proc
          PROVE  /\ memory[q] # None => pc'[q] \in {"serve"} \cup Ending
                 /\ memory[q] = Unread => pc'[q] = "serve"
                 /\ pc'[q] = "serve" /\ memory[q] # None => known[q] = stored
      <4>1. CASE q = p
        BY <2>2, <3>2, <4>1 DEF Ending
      <4>2. CASE q # p
        <5>1. pc'[q] = pc[q]
          BY <2>1, <4>2
        <5> QED BY <5>1
      <4> QED BY <4>1, <4>2
    <3> QED BY <2>2, <3>1, <3>3
  <2> QED BY <2>3, <2>4
<1>2. ASSUME NEW p \in Proc, Load(p) PROVE StoreKnown'
  BY <1>2 DEF Load, MayLoad, vars
<1>3. ASSUME NEW p \in Proc, Quarantine(p) PROVE StoreKnown'
  BY <1>3 DEF Quarantine, OneServes, vars
<1>4. ASSUME NEW p \in Proc, Change(p) PROVE StoreKnown'
  BY <1>4 DEF Change, vars
<1>5. ASSUME NEW p \in Proc, Save(p) PROVE StoreKnown'
  BY <1>5 DEF Save, OneServes, vars
<1>6. CASE BusGoes \/ UNCHANGED lvars
  BY <1>6 DEF BusGoes, lvars, vars
<1> QED BY <1>1, <1>2, <1>3, <1>4, <1>5, <1>6 DEF LNext


\* The store adds nothing to what the processes do; only the bus does.
LEMMA StepOrBusGoes == [LNext]_lvars => [Next]_vars \/ BusGoes
BY DEF LNext, Move, Load, Quarantine, Change, Save, Next, lvars

LEMMA InTurn ==
    ASSUME pc \in [Proc -> Labels], trouble # "overlap", [LNext]_lvars, [Next]_vars
    PROVE  StartsInTurn
<1> SUFFICES ASSUME NEW p \in Proc, NEW q \in Proc, Start(p) PROVE pc[q] \notin Starting
  BY DEF StartsInTurn
<1>1. pc[p] = "off" /\ pc'[p] = "create"
  BY DEF Start, Goto
<1>2. Move(p)
  <2>1. PICK r \in Proc : Move(r)
    BY <1>1 DEF LNext, Load, Quarantine, Change, Save, BusGoes, lvars, vars
  <2>2. \E l \in Labels : pc' = [pc EXCEPT ![r] = l]
    BY <2>1, ProcessMoves DEF Move
  <2> QED BY <1>1, <2>1, <2>2
<1> QED BY <1>1, <1>2 DEF Move

\* One process serves: by its name if the bus stays, by its lock file if starts
\* do not overlap.
Protected ==
    \/ trouble = "overlap" /\ NameIsHeld
    \/ trouble = "bus_loss" /\ FilesAreHeld

LEMMA ProtectedInit == LInit => Protected
BY NameIsHeldInit, FilesAreHeldInit DEF LInit, Protected

LEMMA ProtectedStep == Protected /\ [LNext]_lvars => Protected'
<1> SUFFICES ASSUME Protected, [LNext]_lvars PROVE Protected'
  OBVIOUS
<1>1. trouble' = trouble
  BY DEF LNext, Move, Load, Quarantine, Change, Save, BusGoes, lvars
<1>2. CASE trouble = "overlap" /\ NameIsHeld
  <2>1. [Next]_vars
    BY <1>2, StepOrBusGoes DEF BusGoes
  <2> QED BY <1>1, <1>2, <2>1, NameIsHeldStep DEF Protected
<1>3. CASE trouble = "bus_loss" /\ FilesAreHeld
  <2>1. CASE BusGoes
    BY <1>1, <1>3, <2>1 DEF FilesAreHeld, BusGoes, Protected
  <2>2. CASE [Next]_vars
    <3>1. StartsInTurn
      BY <1>3, <2>2, InTurn DEF FilesAreHeld
    <3> QED BY <1>1, <1>3, <2>2, <3>1, FilesAreHeldStep DEF Protected
  <2> QED BY <2>1, <2>2, StepOrBusGoes
<1> QED BY <1>2, <1>3 DEF Protected

LEMMA ProtectedServeAlone == Protected => OneServes
BY DEF Protected, NameIsHeld, FilesAreHeld, OneServes, Named, Guarded

\* A bus that goes takes only the name, so what is left behind by a process
\* that ends is nobody's then too (lock.rs is_stale).
THEOREM TypesWithStore == LSpec => []TypeOK
<1>1. LInit => TypeOK
  BY InstanceAssumption DEF LInit, Init, TypeOK, Acquiring, Guarded, File
<1>2. TypeOK /\ [LNext]_lvars => TypeOK'
  <2>1. TypeOK /\ BusGoes => TypeOK'
    BY InstanceAssumption DEF TypeOK, BusGoes, File
  <2> QED BY <2>1, TypeOKStep, StepOrBusGoes
<1> QED BY <1>1, <1>2, PTL DEF LSpec

\* One process serves where the bus name may be lost under it, too, as long as
\* starts do not overlap (daemon.rs run, lock.rs).
THEOREM OneServesTheStore == LSpec => []OneServes
BY ProtectedInit, ProtectedStep, ProtectedServeAlone, PTL DEF LSpec

\* Who serves knows what is in the file: bus name and lock file are each enough.
THEOREM NothingIsOverwritten == LSpec => []ServesFromTheStore
<1>1. Protected /\ StoreKnown /\ [LNext]_lvars => (Protected /\ StoreKnown)'
  BY ProtectedStep, ProtectedServeAlone, StoreKnownStep
<1>2. StoreKnown => ServesFromTheStore
  BY DEF StoreKnown, ServesFromTheStore
<1> QED BY <1>1, <1>2, ProtectedInit, StoreKnownInit, PTL DEF LSpec
=============================================================================
