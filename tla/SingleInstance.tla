--------------------------- MODULE SingleInstance ---------------------------
(***************************************************************************)
(* What keeps two garwarp daemons apart: the lock file (garwarp/src/       *)
(* lock.rs), the control socket's path and the D-Bus name, in the order    *)
(* run takes and gives them back (daemon.rs, dbus.rs).  systemd and D-Bus  *)
(* activation may each start a daemon, so starts can overlap; a process    *)
(* can die between any two calls and leave its files behind.               *)
(*                                                                         *)
(* A file is named for the process that made it.  Once that process has    *)
(* ended it is Orphan, or Blank when it is a lock file no pid was written  *)
(* to; None stands for a path that is free.  A process that ends and the   *)
(* one started in its place have the same name and different pids.         *)
(***************************************************************************)
EXTENDS Naturals

CONSTANTS
    Proc,      \* processes that can exist at once
    Orphan, Blank, None,
    Overlap    \* whether a daemon may be started while another one starts

ASSUME InstanceAssumption ==
    /\ Orphan \notin Proc /\ Blank \notin Proc /\ None \notin Proc
    /\ Orphan # Blank /\ Blank # None /\ None # Orphan
    /\ Overlap \in BOOLEAN

VARIABLES
    pc,      \* the call each process makes next; "off" when there is none
    lock,    \* the file at the lock path
    signed,  \* the processes whose lock file has their pid in it
    seen,    \* whose pid a starter read in the lock file, Blank when there was none
    socket,  \* the file at the control socket's path
    name     \* the owner of the D-Bus name, None when nobody is

vars == <<pc, lock, signed, seen, socket, name>>

File == Proc \cup {Orphan, Blank, None}
Acquiring == {"create", "read", "judge", "remove", "recreate", "sign"}
Starting == Acquiring \cup {"check_socket", "unlink", "claim", "bind", "set_up"}
Ending == {"remove_socket", "release", "unlock", "exit"}
Guarded == {"check_socket", "unlink", "claim", "bind", "set_up", "serve"} \cup (Ending \ {"exit"})
Named == {"bind", "set_up", "serve", "remove_socket", "release"}

Init ==
    /\ pc = [p \in Proc |-> "off"]
    /\ lock = None
    /\ signed = {}
    /\ seen = [p \in Proc |-> None]
    /\ socket = None
    /\ name = None

-----------------------------------------------------------------------------
Goto(p, label) == pc' = [pc EXCEPT ![p] = label]

\* The process is gone: what it left is nobody's, its pid is a dead one, and
\* the bus drops its name.
Abandon(f, p) == IF f = p THEN Orphan ELSE f
AbandonLock(f, p) == IF f = p /\ p \notin signed THEN Blank ELSE Abandon(f, p)

\* An error before the guard exists ends the process and removes nothing.
GiveUp(p) ==
    /\ Goto(p, "off")
    /\ lock' = AbandonLock(lock, p)
    /\ socket' = Abandon(socket, p)
    /\ signed' = signed \ {p}
    /\ seen' = [q \in Proc |-> IF q = p THEN None ELSE Abandon(seen[q], p)]
    /\ name' = IF name = p THEN None ELSE name

Start(p) ==
    /\ pc[p] = "off"
    /\ Overlap \/ \A q \in Proc : pc[q] \notin Starting
    /\ Goto(p, "create")
    /\ UNCHANGED <<lock, signed, seen, socket, name>>

-----------------------------------------------------------------------------
(* SingleInstanceGuard::acquire *)

TryCreate(p) ==
    /\ pc[p] = "create"
    /\ \/ lock = None /\ lock' = p /\ Goto(p, "sign")
       \/ lock # None /\ UNCHANGED lock /\ Goto(p, "read")
    /\ UNCHANGED <<signed, seen, socket, name>>

\* The file that is written is the one that was created, wherever it is now.
WritePid(p) ==
    /\ pc[p] = "sign"
    /\ signed' = signed \cup {p}
    /\ Goto(p, "check_socket")
    /\ UNCHANGED <<lock, seen, socket, name>>

\* The pid in a lock file: none when its maker has not written it yet.
PidIn(f) == IF f \in Proc /\ f \notin signed THEN Blank ELSE f

\* Variant: a file that is gone is read like an empty one.
ReadPidOrNothing(p) ==
    /\ pc[p] = "read"
    /\ seen' = [seen EXCEPT ![p] = PidIn(lock)]
    /\ Goto(p, "judge")
    /\ UNCHANGED <<lock, signed, socket, name>>

\* is_stale, in two steps.  First the file is read.
ReadPid(p) ==
    /\ pc[p] = "read"
    /\ \/ lock = None /\ GiveUp(p)
       \/ /\ lock # None
          /\ seen' = [seen EXCEPT ![p] = PidIn(lock)]
          /\ Goto(p, "judge")
          /\ UNCHANGED <<lock, signed, socket, name>>

\* Variants: an empty file is a live daemon's; a refused starter has a guard.
JudgeEmptyAlive(p) ==
    /\ pc[p] = "judge"
    /\ \/ seen[p] # Orphan /\ GiveUp(p)
       \/ /\ seen[p] = Orphan
          /\ Goto(p, "remove")
          /\ seen' = [seen EXCEPT ![p] = None]
          /\ UNCHANGED <<lock, signed, socket, name>>
JudgeGuarded(p) ==
    /\ pc[p] = "judge"
    /\ \/ Goto(p, "unlock") /\ seen[p] \in Proc
       \/ Goto(p, "remove") /\ seen[p] \notin Proc
    /\ seen' = [seen EXCEPT ![p] = None]
    /\ UNCHANGED <<lock, signed, socket, name>>

\* The pid of a dead daemon may be another process's by now, whichever:
\* process_exists looks for /proc/<pid> and no further.
Misjudge(p) == pc[p] = "judge" /\ seen[p] = Orphan /\ GiveUp(p)

\* Then /proc is looked at: "garwarp daemon is already running", or stale.
Judge(p) ==
    /\ pc[p] = "judge"
    /\ \/ seen[p] \in Proc /\ GiveUp(p)
       \/ Misjudge(p)
       \/ /\ seen[p] \notin Proc
          /\ Goto(p, "remove")
          /\ seen' = [seen EXCEPT ![p] = None]
          /\ UNCHANGED <<lock, signed, socket, name>>

RemoveStaleLock(p) ==
    /\ pc[p] = "remove"
    /\ \/ lock = None /\ GiveUp(p)
       \/ /\ lock # None
          /\ lock' = None
          /\ Goto(p, "recreate")
          /\ UNCHANGED <<signed, seen, socket, name>>

CreateAgain(p) ==
    /\ pc[p] = "recreate"
    /\ \/ lock # None /\ GiveUp(p)
       \/ /\ lock = None
          /\ lock' = p
          /\ Goto(p, "sign")
          /\ UNCHANGED <<signed, seen, socket, name>>

-----------------------------------------------------------------------------
(* The rest of run.  An error from here on drops the guards taken so far.  *)

\* remove_stale_socket, in two steps
CheckSocket(p) ==
    /\ pc[p] = "check_socket"
    /\ Goto(p, IF socket = None THEN "claim" ELSE "unlink")
    /\ UNCHANGED <<lock, signed, seen, socket, name>>

Unlink(p) ==
    /\ pc[p] = "unlink"
    /\ Goto(p, IF socket = None THEN "unlock" ELSE "claim")
    /\ socket' = None
    /\ UNCHANGED <<lock, signed, seen, name>>

\* Variant: a name that is taken is only logged.
ClaimNameOrNot(p) ==
    /\ pc[p] = "claim"
    /\ name' = IF name = None THEN p ELSE name
    /\ Goto(p, "bind")
    /\ UNCHANGED <<lock, signed, seen, socket>>

\* SessionNameGuard::acquire: request_name fails when the name is taken.
ClaimName(p) ==
    /\ pc[p] = "claim"
    /\ \/ name = None /\ name' = p /\ Goto(p, "bind")
       \/ name # None /\ UNCHANGED name /\ Goto(p, "unlock")
    /\ UNCHANGED <<lock, signed, seen, socket>>

Bind(p) ==
    /\ pc[p] = "bind"
    /\ \/ socket = None /\ socket' = p /\ Goto(p, "set_up")
       \/ socket # None /\ UNCHANGED socket /\ Goto(p, "release")
    /\ UNCHANGED <<lock, signed, seen, name>>

\* The socket's mode and its non-blocking accept.
SetUpSocket(p) ==
    /\ pc[p] = "set_up"
    /\ Goto(p, "serve")
    /\ UNCHANGED <<lock, signed, seen, socket, name>>

\* A stop request was served: in one step with its end, Exit of ControlDaemon.
Stop(p) ==
    /\ pc[p] = "serve"
    /\ Goto(p, "remove_socket")
    /\ UNCHANGED <<lock, signed, seen, socket, name>>

\* The bus cannot be reached, or the socket not be bound or set up.
SetupFails(p) ==
    /\ \/ pc[p] = "claim" /\ Goto(p, "unlock")
       \/ pc[p] \in {"bind", "set_up"} /\ Goto(p, "release")
    /\ UNCHANGED <<lock, signed, seen, socket, name>>

\* Whatever file is at the path is removed.
RemoveSocket(p) ==
    /\ pc[p] = "remove_socket"
    /\ socket' = None
    /\ Goto(p, "release")
    /\ UNCHANGED <<lock, signed, seen, name>>

\* The guards are dropped in the reverse of the order they were taken in:
\* SessionNameGuard, then SingleInstanceGuard.  The bus may hear of the first
\* only when the process has ended.
ReleaseName(p) ==
    /\ pc[p] = "release"
    /\ name' \in {name, IF name = p THEN None ELSE name}
    /\ Goto(p, "unlock")
    /\ UNCHANGED <<lock, signed, seen, socket>>

\* Whatever file is at the lock path is removed.
Unlock(p) ==
    /\ pc[p] = "unlock"
    /\ lock' = None
    /\ Goto(p, "exit")
    /\ UNCHANGED <<signed, seen, socket, name>>

\* run has returned.
Exit(p) == pc[p] = "exit" /\ GiveUp(p)

\* A crash, a kill, or an I/O error in acquire, which leaves the same behind.
Die(p) == pc[p] # "off" /\ GiveUp(p)

-----------------------------------------------------------------------------
Progress(p) ==
    \/ TryCreate(p) \/ WritePid(p) \/ ReadPid(p) \/ Judge(p)
    \/ RemoveStaleLock(p) \/ CreateAgain(p)
    \/ CheckSocket(p) \/ Unlink(p) \/ ClaimName(p) \/ Bind(p) \/ SetUpSocket(p)
    \/ RemoveSocket(p) \/ ReleaseName(p) \/ Unlock(p) \/ Exit(p)

Interruption(p) == Stop(p) \/ SetupFails(p) \/ Die(p)

Next == \E p \in Proc : Start(p) \/ Progress(p) \/ Interruption(p)

Spec == Init /\ [][Next]_vars

\* A daemon is started again and again (Restart=on-failure, D-Bus
\* activation), and a process that is not killed makes its next call.
Fairness == WF_vars(\E p \in Proc : Start(p)) /\ \A p \in Proc : WF_vars(Progress(p))

FairSpec == Spec /\ Fairness
-----------------------------------------------------------------------------
\* Every variable has its type: a file is a living process's or nobody's, and
\* what a starter judges is what it read in a file.
TypeOK ==
    /\ pc \in [Proc -> {"off", "exit"} \cup Acquiring \cup Guarded]
    /\ lock \in File
    /\ signed \subseteq Proc
    /\ seen \in [Proc -> File]
    /\ socket \in File
    /\ name \in Proc \cup {None}
    /\ \A p \in Proc :
        /\ pc[p] = "off" => p \notin {lock, socket, name} /\ p \notin signed
        /\ pc[p] = "judge" => seen[p] # None

\* However starts overlap, one process at most loads and saves the request
\* store and serves clients (daemon.rs run).  It is the D-Bus name that
\* ensures it.
OneServes == \A p, q \in Proc : pc[p] = "serve" /\ pc[q] = "serve" => p = q

\* Where starts do not overlap, the daemon that serves is the one the files
\* name: clients reach it, later starters are refused by its pid, and neither
\* they nor a daemon that is still ending take its files away.
ServingOwnsFiles ==
    \A p \in Proc : pc[p] = "serve" => lock = p /\ p \in signed /\ socket = p

\* What is left by a daemon that was killed anywhere keeps the next ones from
\* serving in one way only: again and again a starter finds the pid of a dead
\* daemon in the lock file and another process has it (lock.rs process_exists).
\* Otherwise, if processes are not interrupted again and again, there is always
\* one that serves in the end (lock.rs is_stale, remove_stale_socket).  A
\* starter that gives up of itself was not interrupted.
LeftoversDoNotBlock ==
    \/ []<>(\E p \in Proc : pc[p] = "serve")
    \/ []<><<\E p \in Proc : Misjudge(p)>>_vars
    \/ []<><<\E p \in Proc : Interruption(p) /\ ~Progress(p)>>_vars

\* What lock.rs:29 tells the second of two starters, "garwarp daemon is
\* already running": the guard is held by one process at a time.
GuardExclusive == \A p, q \in Proc : pc[p] \in Guarded /\ pc[q] \in Guarded => p = q
=============================================================================
