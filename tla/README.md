# garwarp in TLA+

garwarp is an XDG desktop portal backend: a daemon that keeps a registry of
requests, answers control commands over a Unix socket, and exports three portal
interfaces on D-Bus. This directory holds TLA+ modules of the daemon, the TLC
runs that check them on small instances, and theorems about them that TLAPS
proves for every instance. Paths below are relative to `src/garwarp/src/`
unless they say otherwise.

## The system

| part | state | operations | talks to |
| --- | --- | --- | --- |
| request registry (`request.rs`) | a map from id to owner, parent window, state and two instants | begin, transition, expire, recover, prune, restore, snapshots and counts | owned by the daemon loop and, a second one, by the dispatcher |
| control daemon (`daemon.rs`) | registry, health, running; the listener's backlog | start, sweep, accept, one request, save, stop | clients over the socket, the store file |
| request store (`request_store.rs`) | one text file, one line per request | load, replace through a temporary file | the daemon only |
| portal dispatcher (`dbus.rs`, `portal_dispatch.rs`, `portal.rs`) | a registry behind a mutex | seven methods of three interfaces | callers over the session bus, concurrently |
| single instance (`lock.rs`, `daemon.rs` run, `dbus.rs`) | lock file, socket path, bus name | acquire, take over, give back | other daemons being started or ending |
| protocol codec (`src/garwarp-ipc`) | none | requests and responses to lines and back | daemon and client |
| control client (`src/garwarpctl`) | none | arguments to a request, one request per run, response to a result | the socket |
| validation, window contexts, options (`validate.rs`, `window.rs`, `portal_options.rs`) | none | accept or refuse an input | daemon and dispatcher |
| packaging (`src/packaging`) | none | two activators: systemd and the session bus | starts daemons |
| configuration, paths, logging | none | | |

### What is hard about it

* The daemon answers before it saves. Between the reply and the save, or after
  a save that fails, a crash loses what a client was told. Health is the
  daemon's only word on that.
* A reply that cannot be written ends the handling of the connection, and with
  it the save of what was changed.
* Requests in flight outlive the process in the store only, and restart ends
  them; ids are used again after pruning, by other owners.
* One thread reads from clients without a timeout and also expires, prunes and
  stops.
* D-Bus calls run concurrently, and senders can share a handle segment, hence
  an id.
* Two daemons may be started at once (systemd and D-Bus activation), and may
  die between any two file operations.
* The bus starts a daemon for a call it keeps and hands the call over when the
  name is claimed, which is before there is an interface to call.
* Lines and files may end too early, and most of their beginnings parse: a
  control line by its end of file, the store by a power loss or an editor.
* One text stands for absent values in three formats, and validation is what
  keeps it from being a value.

`PROJECT.json` lists each of these hazards at its line with the properties that
would catch it, and those no property covers with the reason.

### What makes each part correct

* Registry and daemon: a client is never misled about a request it was told of
  (`ToldNotContradicted`, `ToldOnlyAdvances`); what a crash can cost is bounded
  by what the daemon reports of its health (`ExposureBounded`,
  `StoreTrailsMemory`); a request ends and is dropped in time
  (`RequestsSettle`, `RecordsAreDropped`); a stop is final and completes
  (`StopIsFinal`, `StopCompletes`); connections are not forgotten
  (`ConnectionsEnd`); and all of it is a simple ledger (`ImplementsLedger`; the ledger allows that a
  store that could not be read is overwritten, and that a request comes back
  whose removal was not saved).
* Codec and client: garwarpctl understands every answer (`NothingUnexpected`);
  what it reports is so (`ReportIsTrue`); a line cut short acts on what it was
  about or on nothing (`CutKeepsItsAim`).
* Store: a save is loaded as it was (`SavedIsLoaded`); a file that lost its end
  makes nothing up (`CutLosesOnlyTheEnd`); saves replace each other whole, over
  failed calls, crashes and power loss (`ImplementsAtomicFile`).
* Texts: an id the dispatcher derives is valid (`DerivedIdentityHolds`) and can
  be read one way only (`DerivedIdSplits`); a window keeps its name
  (`WindowKeepsItsName`).
* Dispatcher: one identity per id (`OneIdentityPerId`); a call that is refused
  leaves nothing behind (`RegisteredIsGranted`); no call meets a request
  in flight (`SettledBetweenHolders`, and so `UpdateChoicesRefused`); seen from
  outside a call takes effect at one instant, on a book of who was granted what
  (`ImplementsBook`); every call is answered (`CallsAnswered`).
* Single instance: one daemon serves (`OneServes`) and keeps its files
  (`ServingOwnsFiles`); leftovers block neither a start (`LeftoversDoNotBlock`)
  nor an activation (`ActivationFailsForAReason`), unless the pid in a leftover
  lock file is another process's by now; a call is missed only
  before the daemon can be seen to serve (`OnlyEarlyCallsMiss`); no daemon
  overwrites what another one saved after it looked (`ServesFromTheStore`).

## Modules

| module | what it is |
| --- | --- |
| `RequestRegistry` | the registry as a value: one operator per operation of `request.rs` |
| `ControlDaemon` | the daemon loop around a registry, its store, its clients; properties |
| `RequestLedger` | the abstract specification of the daemon: a ledger and its saved copy |
| `ControlCodec` | requests, responses and command lines as texts: the writers, the parsers, what garwarpctl makes of a response; pure operators |
| `ControlWire` | `ControlDaemon` with the codec at both ends: users, garwarpctl, lines whole or cut; properties |
| `RequestTexts` | validation, derived ids, parent windows; pure operators on texts |
| `RequestStore` | the store file call by call around a registry; properties |
| `AtomicFile` | the abstract specification of the store |
| `PortalOptions` | which options each interface accepts |
| `PortalDispatch` | the D-Bus methods around their own registry; properties |
| `PortalBook` | the abstract specification of the dispatcher: a book of identities |
| `SingleInstance` | several daemon processes around lock, socket and bus name; properties |
| `Activation` | `SingleInstance` with the session bus, the exports and calls; properties |
| `DaemonLifecycle` | `SingleInstance` with the store all daemons share, and a bus that may go away; one property |
| `MC...` | constants and symmetries for TLC |
| `RequestRegistryProofs` | what each registry operator returns and preserves |
| `ControlDaemonProofs` | the theorems about `ControlDaemon`, and that it implements `RequestLedger` |
| `ControlWireProofs` | the theorems about `ControlWire`, over those about the daemon |
| `PortalDispatchProofs` | the theorems about `PortalDispatch`, and that it implements `PortalBook` |
| `SingleInstanceProofs` | the theorems about `SingleInstance`, and over them those about `Activation` and `DaemonLifecycle` |
| `RequestStoreProofs` | the theorems about `RequestStore`, and that it implements `AtomicFile` |
| `RequestTextsProofs` | lemmas about texts: derived ids, and what the recursive functions for window ids return |
| `MCRequestTextsProofs` | the theorems about derived ids and windows |

`ControlDaemon`, `RequestStore` and `PortalDispatch` each extend
`RequestRegistry`. The daemon and the dispatcher do not interact, as in the
code, where the two registries share nothing. `ControlWire` extends
`ControlDaemon` and restricts what its clients send; `Activation` extends
`SingleInstance` and adds to each of its steps what happens to exports and
calls, `DaemonLifecycle` what happens to memory and store. So a safety property of
the smaller specification is one of the larger (`WireIsDaemon`, `WithTheBus`).
The bus that goes away in `DaemonLifecycle` is the exception: what holds with it
is proved anew (`OneServesTheStore`, `TypesWithStore`).

Operators named `...Unvalidated`, `...ToAnyone` and the like, each commented
"Variant", are the code with one plausible mistake in it. No specification uses
them; with one put in the place of the operator it varies, the run named in the
manifest `PROJECT.json` finds the property it belongs to violated.

### Registry

`registry' = Begin(registry, ...)` and so on: operators take a registry and
yield the next. An entry keeps, instead of its two instants, the ticks elapsed
since each (`age` since `started_at`, `idle` since `last_updated_at`), counted
up to `Timeout` and `Retention`; the code only ever compares the elapsed time
with these limits, so nothing is lost. `Tick` is the clock. An entry of the
code holds its id too, here the key of the map. `Follows` is not code: it says
that one record is another or a later stage of it.

### Control daemon

| `ControlDaemon` | `daemon.rs` |
| --- | --- |
| `entries`, `health`, `running` | `DaemonState` |
| `store` | the request store file: missing, unreadable, or the records of a save |
| `pc` | the point `run` is at between two steps |
| `client`, `backlog`, `serving` | the peers of the connections, the listener's queue, the connection in `handle_connection` |
| `reply` | what was written last, until the save after it |
| `told` | history: the last record the daemon told any client, per id |

A step is what the process does between two points where something outside can
interfere. A sweep includes the save it triggers; the service of a connection,
from the read to the reply, is one step, since the thread does nothing else and
what others do meanwhile (connect, write, hang up, damage nothing) commutes
with it; the save after the reply is a step of its own, so that a crash can
come between. Each save may fail, and replaces the file as a whole or not at
all (temporary file and rename). Reading the store at startup succeeds, or fails
for what the file holds or for an I/O error; it is moved aside, or that fails.

Input: a line is classified as the reader and the parser classify it; one
value stands for all ids, app ids or parents that validation refuses. A sender
in a line is ignored by the code, which puts the peer's uid in its place, so
owners differ in their app id only. The uid is asked for twice, when the
connection is accepted and when a begin or a transition is served; either may
fail (`Peer` has `unidentified`; `SenderUnknown`). `DamageStore` may also leave
the file readable with a part of its records, which is what a file cut short
comes to by `CutLosesOnlyTheEnd`.

`told` starts an id anew in three cases, each a documented loss: the request
was pruned; the daemon died without having saved (and `ExposureBounded` limits
when that can be); the store was damaged or unreadable.

### Codec and client

A text of the protocol is a word and a sequence of fields; its key and its value
are one value each. `AsLine`, `ParseRequest`, `ToLine` and `ParseResponse` are
the four functions of `garwarp-ipc`; `ParseCommand` and `Report` are
`parse_command` and the matches in `run` of garwarpctl. A table says which keys
a message has, in which order, and which it must have, in the place of one
match arm each. Numbers in a status or an error are written and read as they
are.

In `ControlWire` a client of the daemon is garwarpctl run with a command line of
`Commands`; `asked` remembers its request, and whether its whole line got
through. A line that did not is a beginning of the whole one: `read_line`
returns what there is at the end of file, and `parse_line` is not told. A
beginning of a value is another value, listed by `CutOf`; a beginning of a key
or of a word is none. After the daemon has answered, `Heard` is what garwarpctl
makes of the line. Two consequences, neither contradicted by a document:

* A begin whose line lost its window or its app id is accepted without it. The
  client that tries again is then told `request_conflict` or
  `ownership_mismatch` of its own request. A transition that lost its app id is
  judged as one without an app id.
* The id `-` is valid, and a list of that one id is written like a list of
  nothing, so that garwarpctl reports an empty list for it: the code has this
  flaw (`src/garwarp-ipc/src/lib.rs:256`), and no property is violated by it.
  `ReportIsTrue` has it as its exception, in `DoneAsAsked`, and so says that no
  other list is printed as what it is not. In the instance of `clients` a dash is
  an id and a beginning of another one, which no command begins, so that the
  exception never occurs there; the theorem `ReportsAreTrue` is for any commands
  and ids, with the same exception.

### Store

A file is its lines, a line its fields, a field a key and a text. `FormatRecord`
and `ParseRecord` are the two functions of `request_store.rs`; `Load` and
`Written` the file. A save is `CreateTemp`, `WriteAll`, `SyncTemp`,
`RenameTemp`, or `SaveFails` after any of them. `store` is the file at the path
as running processes see it and `disk` the one found there after the machine
went down: the rename is written back when the file system likes, since the
directory is not synced, and a file that was not synced may be cut anywhere
(`Cuts`). `ImplementsAtomicFile` maps this to a file that is replaced as a whole,
and whose replacement a power loss may take back. The daemon's changes to its
registry are any (`Change`): which of them are legal is the subject of
`ControlDaemon`, which has the file as a whole.

### Texts

A text is a sequence of one-letter strings, and the operators translate
`validate.rs`, `portal.rs` and `window.rs` rule by rule, with the alphabet, the
limits and the width of a window id as constants. `str::trim` takes blanks off;
`from_str_radix` accepts one plus sign, as Rust's does.

### Dispatcher

`Receive`, `Identify`, `Enter`, then `BeginRequest` and `Settle` or
`UpdateChoices`, then `Return`: a method call up to the mutex, inside it, and
after. `BeginRequest` and `Settle` are separate steps although both run under
the mutex, so that what the mutex is for can be seen to matter. The six methods
that register a request differ in their option parser only: a message has the
interface it came in on and the types of its options, and `OptionsParse` of
`PortalOptions` says whether they are read. `Identify` looks at the path, then at
its segment, then at the length of the derived id, as `portal.rs` does, so a
foreign segment is refused as such even with a token that is too long.

`ImplementsBook` hides the mutex and the two steps. The book holds what is
registered and has ended (`Claim` is what a sound call claims, none for the
others): a request begun and not failed yet is not in it, so the instant at
which a call takes effect is its `Settle`, or its `BeginRequest` when it finds
the id taken. A call whose claim is in the book already is granted again, another
claim on the id is refused, with the owner judged before the window; a restart
starts over with an empty book and no calls.
`Tick` never expires anything, because nothing in the code does.

### Single instance

Each file operation of `lock.rs`, and each of the first lines and the last line
of `run`, is a step of its process. A file is named for its maker, `Orphan`
when that has ended (its pid is dead) and `Blank` when no pid was written; a
maker writes its pid through the handle it has, wherever the file is by then.
`GiveUp` is the end of a process that removes nothing: a crash, a kill and an
error in `acquire` leave the same things behind. An orderly end is `RemoveSocket`,
`ReleaseName`, `Unlock` and `Exit`, and the lock file can be gone while the
process is still there, or its name is. `Judge` takes a lock file for a living
daemon's if its maker lives, and may do so when its maker is dead (`Misjudge`):
any process that has the pid will do for `process_exists`. `request_name` of zbus, with its default flags,
fails when the name is taken, and nobody can take the name away as long as the
bus stays (`DaemonLifecycle` drops that); this is the external part of the
model. The bus may notice the release of the name late.

So a lock file left by a daemon that was killed can keep all later ones from
starting, and fail every activation, for as long as some process has its pid
(`lock.rs:57-62`). `LeftoversDoNotBlock` and `ActivationFailsForAReason` have
`Misjudge` as their exception, and show that leftovers do no harm in any other
way. They do not catch this one, which is what the code does: `lock.rs:29` then
says "already running" of a daemon that is not there, and the test of stale lock
files (`lock.rs:87`) uses a pid nobody has.

`Activation` puts the bus around this. A call to a name that nobody owns is
kept, and `Activate` starts a process for it (`packaging/dbus-1`); `StartAlone`
is the start by systemd or by hand. The claim of the name hands the kept calls
over; `Export` puts up the interfaces, in the order of `SessionNameGuard::acquire`,
and only after the last of them is the control socket bound (`MayBind`). A call
to an interface that is not up yet is `missed`, one whose process ends, or whose
activated process ends before its claim, `failed`. What a missed call is
answered is zbus's business and left open.

Two orders seen in this model, which no document of the repository excludes:
`scripts/test-dbus-activation.sh` asks the control socket right after the name
has an owner, while the socket is bound after the name is claimed
(`daemon.rs:32`, `daemon.rs:34`), so the script can fail on a slow machine; and a
call sent between `ReleaseName` and `Unlock` of a daemon that ends is activated
into a lock file that is still there, and fails with "already running". The
second is one of the reasons `ActivationFailsForAReason` allows (another process
was there).

`DaemonLifecycle` gives each process a memory and all of them one file. `Load`
is the first thing done at `serve`, after `SetUpSocket`; when it fails the file
is moved aside (`Quarantine`), which is a step of its own since somebody could
save in between. A save is one step: it ends in a rename, and `RequestStore` is
about what comes before. `known` remembers what a process read or put there
last. `BusGoes` takes the name away from under a daemon that goes on: the
connection is kept in a guard and looked at by nobody (`dbus.rs:56`). The name
protects the store where starts overlap, the lock file where the bus goes, and
`trouble` says which of the two may happen in a behaviour. With both in one, two
daemons can serve and overwrite each other's saves; no document says otherwise,
so this is not a finding.

## Runs

| run | module | instance | shows |
| --- | --- | --- | --- |
| `protocol` | `MCControlDaemon` | 1 id, 2 owners, every line of the protocol, 1 connection, limits of 1 tick | the six safety properties of the daemon |
| `clients` | `MCControlWire` | 1 id that the id `-` begins, 1 app id or none, 2 windows or none, 9 commands, lines whole or cut | what users are told by garwarpctl is so |
| `ledger` | `MCControlDaemon` | 2 ids, 1 owner, 1 connection | the daemon implements `RequestLedger` |
| `progress` | `MCControlDaemon` | 1 id, 2 connections, a line that refreshes a request, a stop | requests end, ended ones are dropped, a stop completes, connections end |
| `stall` | `MCControlDaemon` | 1 connection, with a client that may be silent | the read without a timeout keeps requests from expiring (a finding) |
| `store` | `MCRequestStore` | 2 ids, owners with and without app id, every cut of a file | the format and the atomic save |
| `names` | `MCRequestTexts` | two senders of 4 characters, tokens of 2, windows of 5, ids of 8, window ids up to 31 | derived ids and windows |
| `dispatch` | `MCPortalDispatch` | 3 senders, two of them on one segment, 2 parents, 2 calls | identity, settlement, answers, and that the dispatcher implements `PortalBook` |
| `retention` | `MCPortalDispatch` | 2 senders, 2 calls, the clock ticking | the dispatcher never prunes (a finding) |
| `inturn` | `Activation` | 3 processes, starts one after the other, pids reused, 1 caller | the serving daemon owns its files; deaths block later starts and activations by a reused pid only; who sees it serve can call it |
| `handover` | `DaemonLifecycle` | 3 processes, any overlap or a bus that comes and goes, pids reused, 2 contents | one serves, and one daemon's saves are never another's loss |
| `guard` | `MCSingleInstance` | 2 processes, any overlap | the guard is not exclusive (a finding) |

Bounds, and why they are enough. Requests interact in one place only, the save
that writes them all and the load that reads them all; two ids (`ledger`,
`store`) show that, and one suffices where the property is about one id. Two
owners or two parents make every mismatch. One connection at a time suffices
where only the sequence of requests matters, since a connection slot is used
again at once and a line is chosen independently of the others; two make a
queue, which matters to progress. With limits of one tick every order of expiry,
pruning, refresh and retry already occurs, a refresh between the tick and the
sweep included. `clients` has an id, a window and an app id each of which has
another of its kind, or an invalid one, as a beginning. `store` types app ids
from a dash and a dot, the two characters its formats care about. `names` has
enough characters for a sender to collide with another on its segment, for an id
to pass its limit, and for a window to pass its width, in both notations.
`progress` has clients of the daemon's own user only: a refused one is dropped
by the step that finds it out, which `protocol` covers. In `inturn` calls do not
interact: each is kept, handed over and answered by itself. Nothing in the models
grows without a bound of its own: elapsed ticks saturate, connections and calls
are slots, and the typed texts of `names` have their bounds in the guards.
Two contents of the store suffice: one that was loaded and another that was saved
since. Three processes allow a daemon that ends, one that serves and one that starts at
once.

Symmetry is used for safety runs only, over ids, owners, connections and
processes.

Fairness. `DaemonFairness`: the process is scheduled, the clock ticks, a crashed
daemon is started again (`Restart=on-failure` in the systemd unit; an orderly
stop is not undone), and accept does not fail for ever while somebody waits.
`ClientFairness`, the assumption `stall` drops: a client writes its line or
hangs up. Nothing is assumed of saves, of what clients ask, or of crashes.
`PortalDispatch`: each call is run by its task, and a free mutex is not withheld
from one waiter for ever (strong fairness of `Enter`; Rust's mutex promises less,
the platform's futex queue gives it in practice). `SingleInstance` and
`Activation`: a daemon is started again and again, and a living process makes
its next call, its exports included; nothing is assumed of callers, of the bus
or of interruptions.

### Findings

1. `stall`: README.md:36 promises that requests in flight expire after the
   timeout. An accepted stream is read without one, in the thread that expires
   (`daemon.rs:158`), so a silent client of the same user suspends it.
2. `retention`: README.md:37 promises that ended requests are pruned. The
   dispatcher's registry is never swept (`portal_dispatch.rs:11`).
3. `guard`: "garwarp daemon is already running" (`lock.rs:29`) is not always
   noticed. An empty lock file counts as stale, and it is empty between creation
   and write; check and removal are separate as well. Two starters then both hold
   the guard, and the second removes the first one's socket (`daemon.rs:31`)
   before the bus name stops it: the daemon that serves can be left without a
   socket clients can find. `handover` shows that two never serve.

## Proofs

All theorems are of the form `Spec => []P`, `[][A]_vars` or a refinement, for
arbitrary constants under the named assumptions: `LimitsAssumption` (limits are
positive; `config.rs` filters zero), `ControlAssumption`, `DispatchAssumption` and
`InstanceAssumption` (the values that stand for refused input are none of the
sound ones, and the derivation of ids), `LifecycleAssumption` (likewise),
`WireAssumption` (a dash is neither an app id nor a window, and no word for a
state begins with another), `TextsAssumption` (blanks and punctuation are not
alphanumeric, and a sender may be as long as an id), and for the store
`StoreAssumption` (ids are finitely many, since their length is bounded, and
what a registry holds was validated) and `WindowAssumption` (a parent is none or
a window with a number). That a window is read as it was written is no
assumption but a lemma (`WindowIsRead`).

* `RequestRegistryProofs` gives, for each operator, its type, its domain, the
  entries it changes, and that it moves them on (`Follows`); the proofs about
  both registries cite these.
* `ControlDaemonProofs`. `WellFormed` is `TypeOK` with `Attending`: where the
  process is determines which connection it serves and which replies are out.
  `Honest` is the conjunction of `ToldNotContradicted`, `StoreTrailsMemory` and
  `ExposureBounded`, which is inductive over `WellFormed` only as a whole. A
  crash turns what the store bears out into the truth, so the first property
  needs the third; a save that succeeds re-establishes the third from the first;
  and a restart from the store needs the second to know that it goes back on
  nothing. Stop's invariant is separate.
  The refinement `ImplementsLedger` is proved over `WellFormed`, one lemma for
  each action: a startup is `Resume` or `StartAfresh`, a sweep `TimeOut` or
  `Forget` on what it found stale or overdue, a handler `Open`, `Advance` or
  none, a save `Save`, the end of a run `End`.
* `ControlWireProofs`. Every step of the wire is a step of the daemon
  (`WireIsDaemon`), so `ToldNotContradicted` carries over. The other three
  properties are about both ends at once, and rest on the codec: what
  `ParseCommand` makes is a request (`CommandIsRequest`), a request is parsed
  from its line as it was (`RequestComesThrough`), what parses of a cut line is
  a request of the same word with the same id and the same state
  (`CutRequest`), and a response is parsed as it was, the list of a dash
  excepted (`ResponseComesThrough`). In the daemon, each handler answers as its
  line asks and does what it answers (`HandlersDid`). The two meet in an
  invariant, `WireOk`: the line a connection holds comes from the request its
  client was asked for (`Wired`), which nothing would keep so if a connection
  could wait twice, or be used again while it is served (`QueueOk`, inductive
  over `WellFormed`).
* `PortalDispatchProofs`. `Dispatched` says that a call between begin and fail
  owns the one request in flight and that the registry still holds every grant.
  `UpdateChoicesRefused` follows since whoever enters finds every request ended.
  `GrantsCover` adds what the registry may hold, for `RegisteredIsGranted`.
  `DispatcherKeepsBook` goes over `Dispatched`, one lemma for each action: a
  `Settle` is a `Register`, since its request is the one in flight and enters
  the book when it ends; a `BeginRequest` that finds its id taken is `Register`,
  `Conflict` or `Refuse`, since what it finds has ended and is in the book; one
  that does not is a stutter, like whatever happens to instants.
* `SingleInstanceProofs`. `NameIsHeld` gives `OneDaemonServes`: whoever is past
  `ClaimName` owns the name. `FilesAreHeld` gives `StartedInTurn`: with one
  starter at a time the lock file is that of the one process between its
  creation and its removal, and a file judged stale is nobody's.
  Then with the bus: each step is a step of
  `SingleInstance` or a stutter, so its theorems carry over (`WithTheBus`).
  `ExportedBeforeServing` and `ReadyAreServed` give `CalledWhenReady`: a ready
  call goes to a daemon that has exported everything and takes nothing back while
  it has the name. `Uneventful` gives `ActivationsSucceed`, for any overlap: as
  long as a process is alone and not interrupted, each file is as it found it, and
  of the calls that can end it before the claim only `Misjudge` is left.
  Last with the store. `StoreKnown` is inductive as long as one daemon serves.
  `Protected` says why one does: `NameIsHeld` where the bus stays, and where
  starts do not overlap `FilesAreHeld`, which says nothing of the name
  (`OneServesTheStore`, `NothingIsOverwritten`).
* `RequestStoreProofs`, from the field to the file. A validated text has no tab,
  no end of line and is not the dash (`ValidatedTexts`), so that a record comes
  back from its line (`RecordIsRead`) and a registry from its file
  (`SavedComesBack`). What is left of a line has lost its state or nothing
  (`CutOfWhole`), so that what can be read of a file are its first lines
  (`CutIsPart`). `StoreInv` says that the files consist of such lines, that what
  stands at the path was synced, and that what is about to holds the registry; a
  power loss then finds nothing to cut, and each step is one of `AtomicFile`:
  `RenameTemp` its `Replace`, `WriteBack` its `Flush`, `Damage` its `CutShort`.
* `RequestTextsProofs` and `MCRequestTextsProofs`, for texts of any length. A segment is as long as the name
  it stands for but for the colon, and holds none (`SegmentOfSender`); the parts
  of a composed id lie where they were put (`ComposedId`). Two ids that are equal
  then have their second colon in one place, hence equal segments and tokens
  (`ComposedOnce`, for `DerivedSplits`); and a name whose id is short enough is
  shorter than that id (`DerivedHolds`). The invariant, `Texts`, only says that
  what is typed is a text.
  Windows take induction, on the number that `Hex` writes and on the digits that
  `DigitsValue` reads. The library's induction theorems have an operator as
  their parameter, which none of the provers can instantiate. So the principle
  is stated with a set (`SetInduction`) and proved from the fact that finite
  sets are ordered by inclusion without infinite descent: a counterexample would
  be a least one (`LeastNatural`). By it there are functions that satisfy the two recursive
  definitions (`HexExists`, `ValueExists`), one more digit is a new lowest one
  (`ValueOfAppend`), and the digits of a window are worth the window
  (`HexReadsBack`). The rest follows its name through `ParseParent`: blanks,
  scheme, mark (`WindowIsRead`). `WindowsKeepTheirNames` and the store's
  `WindowName` rest on it.

Model-checked only: the liveness properties (`RequestsSettle`,
`RecordsAreDropped`, `StopCompletes`, `ConnectionsEnd`, `CallsAnswered`,
`LeftoversDoNotBlock`), since fairness and ENABLED are beyond the prover. Every
other property of a passing run is a theorem.

## Not modelled

* Wording, numeric response codes, logging, help and version texts; the values
  of the portal options, which the code reads and does not use.
* `portal-smoke` of garwarpctl: it calls each method once and compares the
  answers with the placeholder's; `PortalDispatch` models the other side.
* Values with blanks in them, which garwarpctl writes as they are and
  `parse_line` takes apart: what a user quotes is one value here. The limit of
  4096 bytes on a line is one kind of malformed line. A response that is cut: the
  client then reports an error it cannot read, whatever was done.
* A full listener backlog; a poisoned mutex (no closure under it panics).
* Temporary and quarantined files that stay behind: each has a name of its own
  and nobody reads them again.
* Directories, modes and environment variables (`runtime.rs`, `config.rs`): only
  that limits are positive and that all processes share one set of paths.
* What zbus does with a call to an object that is not there yet, and the
  frontend of the portal.

## Plan

Done: registry, control daemon, ledger, dispatcher, single instance; then
activation, codec and client, texts, options, the store file and what daemons
share of it; the abstract specifications of daemon, dispatcher and store; and the
theorems above, one for every safety property.
Next:

1. The liveness properties stay with TLC. Their safety halves can be proved, the
   most useful first: in `progress`, that a request is never touched after it
   ended and that what ages is swept at the next sweep.
2. The hazards no property covers, named in `PROJECT.json`: most of them are what
   the code does, and await a decision rather than a model.
