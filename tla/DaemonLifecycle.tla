-------------------------- MODULE DaemonLifecycle --------------------------
(***************************************************************************)
(* The daemons of SingleInstance around the one file they all load and     *)
(* save (garwarp/src/daemon.rs run): what each of them has in memory, and  *)
(* what it takes to be in the file.  A content is the whole of a save;     *)
(* RequestStore is about its lines and about how it is replaced.           *)
(*                                                                         *)
(* The session bus may go away and come back.  Nothing in the code notices *)
(* that the name is lost: the daemon serves on.  Starts may overlap.  In a *)
(* behaviour of this module one of the two happens.                        *)
(***************************************************************************)
EXTENDS SingleInstance

CONSTANTS
    Content,     \* what a registry can hold
    NoRequests,  \* ... when it is empty; a missing file is read like that
    Unread       \* in the place of a content, when the file could not be read

ASSUME LifecycleAssumption ==
    /\ NoRequests \in Content
    /\ None \notin Content /\ Unread \notin Content /\ None # Unread

VARIABLES
    memory,  \* what each process has in memory; None before it looked at the file
    known,   \* history: what each process last read in the file or put there
    stored,  \* what is in the file
    trouble  \* what may happen in this behaviour: "overlap" or "bus_loss"

lvars == <<vars, memory, known, stored, trouble>>

LInit ==
    /\ Init
    /\ memory = [p \in Proc |-> None]
    /\ known = [p \in Proc |-> None]
    /\ stored = NoRequests
    /\ trouble \in {"overlap", "bus_loss"}

-----------------------------------------------------------------------------
Remember(p, inMemory, inFile) ==
    /\ memory' = [memory EXCEPT ![p] = inMemory]
    /\ known' = [known EXCEPT ![p] = inFile]

\* Variant: the file is loaded before the name is claimed.
MayLoadBeforeClaim(p) == pc[p] = "check_socket"

\* run loads the file when the socket is set up.
MayLoad(p) == pc[p] = "serve"

\* load_registry_with_fallback: the file, or an empty registry when it cannot
\* be read ...
Load(p) ==
    /\ MayLoad(p) /\ memory[p] = None
    /\ \E content \in {stored, Unread} : Remember(p, content, stored)
    /\ UNCHANGED <<vars, stored, trouble>>

\* ... after quarantine_request_store, which moves the file aside if it can.
Quarantine(p) ==
    /\ memory[p] = Unread
    /\ stored' \in {stored, NoRequests}
    /\ Remember(p, NoRequests, stored')
    /\ UNCHANGED <<vars, trouble>>

\* Recovery, the sweeps and the requests of clients.
Change(p) ==
    /\ pc[p] = "serve" /\ memory[p] \in Content
    /\ \E content \in Content : memory' = [memory EXCEPT ![p] = content]
    /\ UNCHANGED <<vars, known, stored, trouble>>

\* persist_registry_state when it succeeds; otherwise nothing changes here.
Save(p) ==
    /\ pc[p] = "serve" /\ memory[p] \in Content
    /\ stored' = memory[p]
    /\ Remember(p, memory[p], memory[p])
    /\ UNCHANGED <<vars, trouble>>

\* A daemon is stopped by a request it serves.  Who ends forgets.
Move(p) ==
    /\ Start(p) \/ Progress(p) \/ Interruption(p)
    /\ pc[p] = "off" => trouble = "overlap" \/ \A q \in Proc : pc[q] \notin Starting
    /\ pc[p] = "serve" /\ pc'[p] = "remove_socket" => memory[p] \in Content
    /\ IF pc'[p] = "off" THEN Remember(p, None, None) ELSE UNCHANGED <<memory, known>>
    /\ UNCHANGED <<stored, trouble>>

BusGoes ==
    /\ trouble = "bus_loss"
    /\ name # None
    /\ name' = None
    /\ UNCHANGED <<pc, lock, signed, seen, socket, memory, known, stored, trouble>>

LNext ==
    \/ \E p \in Proc : Move(p) \/ Load(p) \/ Quarantine(p) \/ Change(p) \/ Save(p)
    \/ BusGoes

LSpec == LInit /\ [][LNext]_lvars
-----------------------------------------------------------------------------
\* Who serves knows what is in the file: no daemon overwrites what another one
\* saved after it looked, so that nothing is lost from one run to the next.
\* Where starts overlap it is the bus name that ensures it, where the name is
\* lost under a daemon it is the lock file (daemon.rs run; lock.rs, dbus.rs).
ServesFromTheStore ==
    \A p \in Proc : pc[p] = "serve" /\ memory[p] # None => known[p] = stored
=============================================================================
