----------------------------- MODULE Activation -----------------------------
(***************************************************************************)
(* Method calls on the bus name of the daemon, before, while and after     *)
(* there is one: SingleInstance with the session bus and with what         *)
(* SessionNameGuard::acquire (garwarp/src/dbus.rs) does after it has the   *)
(* name.  The bus keeps a call to a name nobody owns, starts               *)
(* `garwarp daemon` for it (packaging/dbus-1) and hands the call to        *)
(* whoever claims the name; the interfaces are exported after that claim,  *)
(* one by one.                                                             *)
(***************************************************************************)
EXTENDS SingleInstance, Sequences

CONSTANT Caller  \* calls that can be under way at once

VARIABLES
    exported,  \* how many interfaces each process has exported
    call,      \* the calls and what became of them
    child,     \* the process the bus has started for the calls it keeps
    excused    \* history: processes that were interrupted or not alone

avars == <<vars, exported, call, child, excused>>

\* In the order acquire exports them.
Exports == <<"Screenshot", "FileChooser", "AppChooser">>

NoCall == [state |-> "none"]
Kept(c) == call[c].state = "kept"
WithProcess(c) == call[c].state = "with"
Interrupted(p) == Interruption(p) /\ ~Progress(p)
Alone(p) == \A q \in Proc \ {p} : pc[q] = "off"

AInit ==
    /\ Init
    /\ exported = [p \in Proc |-> 0]
    /\ call = [c \in Caller |-> NoCall]
    /\ child = None
    /\ excused = {}

-----------------------------------------------------------------------------
(* The bus. *)

\* A caller is ready when it has seen the daemon serve.
SendCall(c) ==
    /\ call[c] = NoCall
    /\ \E i \in DOMAIN Exports :
        call' = [call EXCEPT ![c] =
                   [state |-> IF name = None THEN "kept" ELSE "with", to |-> name, interface |-> i,
                    ready |-> \E p \in Proc : pc[p] = "serve"]]
    /\ UNCHANGED <<vars, exported, child, excused>>

\* The connection of a process answers from its start to ReleaseName.  A call
\* to what is not exported yet is missed: it is answered with an error, or not.
Handle(c) ==
    /\ WithProcess(c)
    /\ LET p == call[c].to IN
        /\ pc[p] \in Named
        /\ call' = [call EXCEPT ![c].state =
                      IF call[c].interface <= exported[p] THEN "answered" ELSE "missed"]
    /\ UNCHANGED <<vars, exported, child, excused>>

Forget(c) ==
    /\ call[c].state \in {"answered", "missed", "failed"}
    /\ call' = [call EXCEPT ![c] = NoCall]
    /\ UNCHANGED <<vars, exported, child, excused>>

\* What a step of a process does to the calls: a claim gets those that were
\* kept; the end of a connection, or of the bus's own child before its claim,
\* fails those that wait for it.
CallsFollow ==
    call' = [c \in Caller |->
        IF Kept(c) /\ name' # None THEN [call[c] EXCEPT !.state = "with", !.to = name']
        ELSE IF \/ Kept(c) /\ child # None /\ pc'[child] = "off"
                \/ WithProcess(c) /\ pc'[call[c].to] \notin Named
          THEN [call[c] EXCEPT !.state = "failed"]
        ELSE call[c]]

-----------------------------------------------------------------------------
(* The processes. *)

\* Variant: a failed export is passed over.
MayBindEarly(p) == TRUE

\* SessionNameGuard::acquire returns when the last interface is exported;
\* only then does run bind the control socket.
MayExport(p) == pc[p] = "bind"
MayBind(p) == exported[p] = Len(Exports)

Export(p) ==
    /\ MayExport(p)
    /\ exported[p] < Len(Exports)
    /\ exported' = [exported EXCEPT ![p] = @ + 1]
    /\ UNCHANGED <<vars, call, child, excused>>

Moved(p) ==
    /\ pc[p] = "bind" /\ pc'[p] = "set_up" => MayBind(p)
    /\ exported' = [exported EXCEPT ![p] = IF pc'[p] = "off" THEN 0 ELSE @]
    /\ CallsFollow
    /\ excused' = {q \in Proc : /\ pc'[q] # "off"
                                /\ q \in excused \/ ~Alone(q) \/ Interrupted(q)}

\* Started by systemd or by hand, and by the bus for a call it keeps.
StartAlone(p) == Start(p) /\ Moved(p) /\ UNCHANGED child
Activate(p) ==
    /\ child = None
    /\ \E c \in Caller : Kept(c)
    /\ Start(p)
    /\ Moved(p)
    /\ child' = p

Proceed(p) ==
    /\ Progress(p)
    /\ Moved(p)
    /\ child' = IF name' # None \/ (child = p /\ pc'[p] = "off") THEN None ELSE child

Interrupt(p) ==
    /\ Interruption(p)
    /\ Moved(p)
    /\ child' = IF child = p /\ pc'[p] = "off" THEN None ELSE child

ANext ==
    \/ \E p \in Proc : StartAlone(p) \/ Activate(p) \/ Export(p) \/ Proceed(p) \/ Interrupt(p)
    \/ \E c \in Caller : SendCall(c) \/ Handle(c) \/ Forget(c)

ASpec == AInit /\ [][ANext]_avars

\* As in SingleInstance: a daemon is started again and again, and a process
\* makes its next call.
AFairSpec ==
    /\ ASpec
    /\ WF_avars(\E p \in Proc : StartAlone(p))
    /\ \A p \in Proc : WF_avars(Export(p) \/ Proceed(p))
-----------------------------------------------------------------------------
(* Properties. *)

\* Whoever has seen the daemon serve, as garwarpctl does, can call all of its
\* interfaces: only a call that came before, between the claim of the name and
\* the last export, can miss one (dbus.rs SessionNameGuard::acquire claims
\* first; daemon.rs run binds the control socket after it).
OnlyEarlyCallsMiss == \A c \in Caller : call[c].state = "missed" => ~call[c].ready

\* What earlier daemons left fails an activation in one way only: the pid in
\* the lock file is another process's by now (lock.rs process_exists).  But for
\* that, the process that was started for a call, left alone and uninterrupted,
\* claims the name (lock.rs acquire and is_stale, daemon.rs remove_stale_socket).
ActivationFailsForAReason ==
    [][\A c \in Caller :
        Kept(c) /\ call'[c].state = "failed" =>
            \/ Misjudge(child)
            \/ child \in excused \/ ~Alone(child) \/ Interrupted(child)]_avars
=============================================================================
