---------------------------- MODULE ServerDiscovery ----------------------------
(***************************************************************************)
(* Find, launch and register the server of one runtime root and host:       *)
(* ensure_server and auto_launch_server (client/supervisor.py), the read    *)
(* side of the registry (client/discovery.py), the write side               *)
(* (server/_register.py) and the start of the server (server/main.py).      *)
(*                                                                          *)
(* Clients and servers are processes; they share the launch-lock file and   *)
(* one registry file per port.  A step is one file operation, one probe or  *)
(* one system call: between two of them any other process may run.  Pids    *)
(* are not reused.                                                          *)
(***************************************************************************)
EXTENDS Naturals, FiniteSets

CONSTANTS
  Client,     \* calls of ensure_server, each by a process of its own
  MaxServer,  \* bound: server processes ever started
  Port,       \* the ports _pick_free_port tries, in ascending order
  Polls,      \* bound: polls that fit into wait_timeout_s
  Faults      \* what goes wrong in this instance

FaultKinds ==
  {"aging",   \* a launch lock outlives the patience of a waiter
   "slow",    \* a health check of a live server times out
   "manual",  \* somebody starts a server by hand
   "stop",    \* a server gets SIGTERM
   "kill"}    \* a client or a server is killed

ASSUME ConstantsAssumption ==
  /\ MaxServer \in Nat /\ Polls \in Nat
  /\ Port \subseteq Nat \ {0}
  /\ Faults \subseteq FaultKinds
  /\ Client \cap Nat = {}

None   == 0
Server == 1..MaxServer
NoPort == 0

VARIABLES
  lock,     \* <registry>/.launch.lock: absent, or the client that created it
  old,      \* its age exceeds wait_timeout_s
  entry,    \* <registry>/server_<id>.json of each port: the server in it
  \* --- clients --------------------------------------------------------------
  cpc,      \* where the call is
  listed,   \* registry files of the scan not yet read
  found,    \* handles of the scan so far
  reap,     \* registry file the scan is about to unlink
  polls,    \* polls left before the deadline
  child,    \* the server the call spawned
  \* --- servers --------------------------------------------------------------
  started,  \* servers started so far
  spc,      \* where the server process is
  port,     \* --port
  owns,     \* its cleanup handlers are installed
  \* --- history --------------------------------------------------------------
  quiet,    \* nothing has gone wrong so far
  broken    \* a waiter has broken a lock

clientVars == <<cpc, listed, found, reap, polls, child>>
serverVars == <<started, spc, port, owns>>
histVars   == <<quiet, broken>>
vars == <<lock, old, entry, clientVars, serverVars, histVars>>

Scanning == {"look", "recheck", "wait", "poll"}     \* inside find_server
Critical == {"recheck", "spawn", "polling", "poll", "found", "raise"}
Returned == {"ok", "failed", "dead"}
ClientPcs == {"idle", "create", "stat", "break"} \cup Scanning \cup Critical
               \cup Returned
ServerPcs == {"none", "starting", "checking", "registering", "binding",
              "serving", "exiting", "zombie", "dead"}

TypeOK ==
  /\ lock \in Client \cup {None} /\ old \in BOOLEAN
  /\ entry \in [Port -> Server \cup {None}]
  /\ cpc \in [Client -> ClientPcs]
  /\ listed \in [Client -> SUBSET Port] /\ found \in [Client -> SUBSET Server]
  /\ reap \in [Client -> Port \cup {NoPort}]
  /\ polls \in [Client -> 0..Polls]
  /\ child \in [Client -> Server \cup {None}]
  /\ started \in 0..MaxServer
  /\ spc \in [Server -> ServerPcs]
  /\ port \in [Server -> Port \cup {NoPort}]
  /\ owns \in [Server -> BOOLEAN]
  /\ quiet \in BOOLEAN /\ broken \in BOOLEAN

Init ==
  /\ lock = None /\ old = FALSE
  /\ entry = [p \in Port |-> None]
  /\ cpc = [c \in Client |-> "idle"]
  /\ listed = [c \in Client |-> {}] /\ found = [c \in Client |-> {}]
  /\ reap = [c \in Client |-> NoPort]
  /\ polls = [c \in Client |-> 0]
  /\ child = [c \in Client |-> None]
  /\ started = 0
  /\ spc = [s \in Server |-> "none"]
  /\ port = [s \in Server |-> NoPort]
  /\ owns = [s \in Server |-> FALSE]
  /\ quiet = TRUE /\ broken = FALSE

\* os.kill(pid, 0) succeeds, for a child nobody has waited for as well.
PidAlive(s) == s # None /\ spc[s] \notin {"none", "dead"}

\* GET /api/health on the port is answered by an OpenTeam server.
Healthy(p) == \E s \in Server : port[s] = p /\ spc[s] = "serving"

IsAlive(s) == PidAlive(s) /\ Healthy(port[s])

-----------------------------------------------------------------------------
(* discover_servers, one file at a time.                                   *)

\* The directory is listed, then file after file is read.
BeginScan(c) ==
  /\ listed' = [listed EXCEPT ![c] = {p \in Port : entry[p] # None}]
  /\ found' = [found EXCEPT ![c] = {}]

\* Mutant: the entry of a server that does not answer yet is unlinked as well.
ReadEntryByHealth(c) ==
  /\ cpc[c] \in Scanning /\ reap[c] = NoPort
  /\ \E p \in listed[c] :
       /\ listed' = [listed EXCEPT ![c] = @ \ {p}]
       /\ IF PidAlive(entry[p]) /\ Healthy(p)
          THEN found' = [found EXCEPT ![c] = @ \cup {entry[p]}] /\ UNCHANGED reap
          ELSE reap' = [reap EXCEPT ![c] = p] /\ UNCHANGED found
  /\ UNCHANGED <<lock, old, entry, cpc, polls, child, serverVars, histVars>>

\* A live entry is kept; one whose pid is dead, or which vanished since the
\* directory was listed, is unlinked next.
ReadEntry(c) ==
  /\ cpc[c] \in Scanning /\ reap[c] = NoPort
  /\ \E p \in listed[c] :
       /\ listed' = [listed EXCEPT ![c] = @ \ {p}]
       /\ IF PidAlive(entry[p])
          THEN found' = [found EXCEPT ![c] = @ \cup {entry[p]}] /\ UNCHANGED reap
          ELSE reap' = [reap EXCEPT ![c] = p] /\ UNCHANGED found
  /\ UNCHANGED <<lock, old, entry, cpc, polls, child, serverVars, histVars>>

\* f.unlink(): whatever the file holds by now.
Reap(c) ==
  /\ cpc[c] \in Scanning /\ reap[c] # NoPort
  /\ entry' = [entry EXCEPT ![reap[c]] = None]
  /\ reap' = [reap EXCEPT ![c] = NoPort]
  /\ UNCHANGED <<lock, old, cpc, listed, found, polls, child, serverVars, histVars>>

\* What find_server may return: the launcher asks for the port it chose.
Handles(c) ==
  {s \in found[c] : cpc[c] = "poll" => port[s] = port[child[c]]}

ScanDone(c) == cpc[c] \in Scanning /\ reap[c] = NoPort /\ listed[c] = {}

\* handles[0] exists and is_alive(); the order of the files is arbitrary.
Hit(c) ==
  /\ ScanDone(c)
  /\ \E s \in Handles(c) : IsAlive(s)
  /\ found' = [found EXCEPT ![c] = {}]

\* No handle, or one that is not alive.
Absent(c) == Handles(c) = {} \/ \E s \in Handles(c) : ~IsAlive(s)

\* The same, or a health check of a live server that takes too long.
Miss(c) ==
  /\ ScanDone(c)
  /\ Absent(c) \/ "slow" \in Faults
  /\ quiet' = (quiet /\ Absent(c))
  /\ found' = [found EXCEPT ![c] = {}]

-----------------------------------------------------------------------------
(* ensure_server and auto_launch_server.                                   *)

Ensure(c) ==
  /\ cpc[c] = "idle"
  /\ cpc' = [cpc EXCEPT ![c] = "look"]
  /\ BeginScan(c)
  /\ UNCHANGED <<lock, old, entry, reap, polls, child, serverVars, histVars>>

FoundAtOnce(c) ==
  /\ cpc[c] = "look" /\ Hit(c)
  /\ cpc' = [cpc EXCEPT ![c] = "ok"]
  /\ UNCHANGED <<lock, old, entry, listed, reap, polls, child,
                 serverVars, histVars>>

NotFound(c) ==
  /\ cpc[c] = "look" /\ Miss(c)
  /\ cpc' = [cpc EXCEPT ![c] = "create"]
  /\ UNCHANGED <<lock, old, entry, listed, reap, polls, child, serverVars,
                 broken>>

\* Mutant: the lock is created without O_EXCL.
AcquireShared(c) ==
  /\ cpc[c] = "create"
  /\ lock' = c /\ old' = FALSE
  /\ cpc' = [cpc EXCEPT ![c] = "recheck"]
  /\ BeginScan(c)
  /\ UNCHANGED <<entry, reap, polls, child, serverVars, histVars>>

\* Mutant: the registry is not looked at again under the lock.
AcquireAndSpawn(c) ==
  /\ cpc[c] = "create" /\ lock = None
  /\ lock' = c /\ old' = FALSE
  /\ cpc' = [cpc EXCEPT ![c] = "spawn"]
  /\ UNCHANGED <<entry, listed, found, reap, polls, child, serverVars, histVars>>

\* open(O_CREAT | O_EXCL) succeeds; the registry is looked at again.
Acquire(c) ==
  /\ cpc[c] = "create" /\ lock = None
  /\ lock' = c /\ old' = FALSE
  /\ cpc' = [cpc EXCEPT ![c] = "recheck"]
  /\ BeginScan(c)
  /\ UNCHANGED <<entry, reap, polls, child, serverVars, histVars>>

\* FileExistsError: poll the registry until the deadline.
Queue(c) ==
  /\ cpc[c] = "create" /\ lock # None
  /\ cpc' = [cpc EXCEPT ![c] = "wait"]
  /\ polls' = [polls EXCEPT ![c] = Polls]
  /\ BeginScan(c)
  /\ UNCHANGED <<lock, old, entry, reap, child, serverVars, histVars>>

WaiterFinds(c) ==
  /\ cpc[c] = "wait" /\ Hit(c)
  /\ cpc' = [cpc EXCEPT ![c] = "ok"]
  /\ UNCHANGED <<lock, old, entry, listed, reap, polls, child,
                 serverVars, histVars>>

WaiterMisses(c) ==
  /\ cpc[c] = "wait" /\ Miss(c)
  /\ cpc' = [cpc EXCEPT ![c] = "stat"]
  /\ UNCHANGED <<lock, old, entry, listed, reap, polls, child, serverVars,
                 broken>>

\* The next poll, or the deadline: "another auto-launch holds ...".
WaitOn(c) ==
  \/ /\ polls[c] > 0
     /\ cpc' = [cpc EXCEPT ![c] = "wait"]
     /\ polls' = [polls EXCEPT ![c] = @ - 1]
     /\ BeginScan(c)
  \/ /\ polls[c] = 0
     /\ cpc' = [cpc EXCEPT ![c] = "failed"]
     /\ UNCHANGED <<polls, listed, found>>

\* The lock is gone or young enough.
LockIsFresh(c) ==
  /\ cpc[c] = "stat" /\ (lock = None \/ ~old)
  /\ WaitOn(c)
  /\ UNCHANGED <<lock, old, entry, reap, child, serverVars, histVars>>

LockIsStale(c) ==
  /\ cpc[c] = "stat" /\ lock # None /\ old
  /\ cpc' = [cpc EXCEPT ![c] = "break"]
  /\ UNCHANGED <<lock, old, entry, listed, found, reap, polls, child,
                 serverVars, histVars>>

\* lock_path.unlink() removes the lock that is there now.
BreakLock(c) ==
  /\ cpc[c] = "break"
  /\ lock' = None /\ old' = FALSE
  /\ quiet' = FALSE /\ broken' = TRUE
  /\ WaitOn(c)
  /\ UNCHANGED <<entry, reap, child, serverVars>>

RecheckFinds(c) ==
  /\ cpc[c] = "recheck" /\ Hit(c)
  /\ cpc' = [cpc EXCEPT ![c] = "found"]
  /\ UNCHANGED <<lock, old, entry, listed, reap, polls, child,
                 serverVars, histVars>>

RecheckMisses(c) ==
  /\ cpc[c] = "recheck" /\ Miss(c)
  /\ cpc' = [cpc EXCEPT ![c] = "spawn"]
  /\ UNCHANGED <<lock, old, entry, listed, reap, polls, child, serverVars,
                 broken>>

\* _pick_free_port: the first port that can be bound.
FirstFree(p) ==
  /\ p \in Port /\ ~Healthy(p)
  /\ \A q \in Port : q < p => Healthy(q)

\* A server process on port p: Popen, or somebody at a shell.
StartServer(p) ==
  /\ started < MaxServer
  /\ started' = started + 1
  /\ spc' = [spc EXCEPT ![started + 1] = "starting"]
  /\ port' = [port EXCEPT ![started + 1] = p]
  /\ UNCHANGED owns

Spawn(c) ==
  /\ cpc[c] = "spawn"
  /\ \E p \in Port : FirstFree(p) /\ StartServer(p)
  /\ child' = [child EXCEPT ![c] = started + 1]
  /\ polls' = [polls EXCEPT ![c] = Polls]
  /\ cpc' = [cpc EXCEPT ![c] = "polling"]
  /\ UNCHANGED <<lock, old, entry, listed, found, reap, histVars>>

\* No free port, or Popen raises (here: the bound on processes is reached).
SpawnFails(c) ==
  /\ cpc[c] = "spawn"
  /\ (\A p \in Port : Healthy(p)) \/ started = MaxServer
  /\ cpc' = [cpc EXCEPT ![c] = "raise"]
  /\ UNCHANGED <<lock, old, entry, listed, found, reap, polls, child,
                 serverVars, histVars>>

\* proc.poll(): a child that exited is waited for, and the launch raises.
ChildExited(c) ==
  /\ cpc[c] = "polling" /\ spc[child[c]] \in {"zombie", "dead"}
  /\ spc' = [spc EXCEPT ![child[c]] = "dead"]
  /\ cpc' = [cpc EXCEPT ![c] = "raise"]
  /\ UNCHANGED <<lock, old, entry, listed, found, reap, polls, child, started,
                 port, owns, histVars>>

ChildRuns(c) ==
  /\ cpc[c] = "polling" /\ spc[child[c]] \notin {"zombie", "dead"}
  /\ cpc' = [cpc EXCEPT ![c] = "poll"]
  /\ BeginScan(c)
  /\ UNCHANGED <<lock, old, entry, reap, polls, child, serverVars, histVars>>

LauncherFinds(c) ==
  /\ cpc[c] = "poll" /\ Hit(c)
  /\ cpc' = [cpc EXCEPT ![c] = "found"]
  /\ UNCHANGED <<lock, old, entry, listed, reap, polls, child,
                 serverVars, histVars>>

LauncherMisses(c) ==
  /\ cpc[c] = "poll" /\ polls[c] > 0 /\ Miss(c)
  /\ polls' = [polls EXCEPT ![c] = @ - 1]
  /\ cpc' = [cpc EXCEPT ![c] = "polling"]
  /\ UNCHANGED <<lock, old, entry, listed, reap, child, serverVars,
                 broken>>

\* "auto-launched server did not register": the child is left to itself.
LaunchTimesOut(c) ==
  /\ cpc[c] = "poll" /\ polls[c] = 0 /\ ScanDone(c)
  /\ Absent(c) \/ "slow" \in Faults
  /\ quiet' = FALSE
  /\ found' = [found EXCEPT ![c] = {}]
  /\ cpc' = [cpc EXCEPT ![c] = "raise"]
  /\ UNCHANGED <<lock, old, entry, listed, reap, polls, child, serverVars,
                 broken>>

\* The finally block unlinks the lock that is there now.
Release(c) ==
  /\ cpc[c] \in {"found", "raise"}
  /\ lock' = None /\ old' = FALSE
  /\ cpc' = [cpc EXCEPT ![c] = IF @ = "found" THEN "ok" ELSE "failed"]
  /\ UNCHANGED <<entry, listed, found, reap, polls, child, serverVars, histVars>>

-----------------------------------------------------------------------------
(* The server: lifespan startup registers, then uvicorn binds the port.     *)

\* target.exists()
CheckExists(s) ==
  /\ spc[s] = "starting"
  /\ spc' = [spc EXCEPT ![s] =
               IF entry[port[s]] = None THEN "registering" ELSE "checking"]
  /\ UNCHANGED <<lock, old, entry, clientVars, started, port, owns, histVars>>

\* The entry is read.  One with another live pid is respected; one that has
\* vanished raises FileNotFoundError: either way the server starts unregistered.
CheckConflict(s) ==
  /\ spc[s] = "checking"
  /\ spc' = [spc EXCEPT ![s] =
               IF entry[port[s]] = None \/ PidAlive(entry[port[s]])
               THEN "binding" ELSE "registering"]
  /\ UNCHANGED <<lock, old, entry, clientVars, started, port, owns, histVars>>

\* os.replace over whatever is there by now; the cleanup handlers.
Register(s) ==
  /\ spc[s] = "registering"
  /\ entry' = [entry EXCEPT ![port[s]] = s]
  /\ owns' = [owns EXCEPT ![s] = TRUE]
  /\ spc' = [spc EXCEPT ![s] = "binding"]
  /\ UNCHANGED <<lock, old, clientVars, started, port, histVars>>

\* A port in use ends the process.
Bind(s) ==
  /\ spc[s] = "binding"
  /\ spc' = [spc EXCEPT ![s] = IF Healthy(port[s]) THEN "exiting" ELSE "serving"]
  /\ UNCHANGED <<lock, old, entry, clientVars, started, port, owns, histVars>>

\* SIGTERM: the handler unlinks the registry file first.
Stop(s) ==
  /\ "stop" \in Faults
  /\ spc[s] \in {"binding", "serving"}
  /\ entry' = IF owns[s] THEN [entry EXCEPT ![port[s]] = None] ELSE entry
  /\ spc' = [spc EXCEPT ![s] = "exiting"]
  /\ quiet' = FALSE
  /\ UNCHANGED <<lock, old, clientVars, started, port, owns,
                 broken>>

\* The process of a server is over; its launcher has not waited for it.
Gone(s) == IF \E c \in Client : child[c] = s /\ cpc[c] # "dead"
           THEN "zombie" ELSE "dead"

\* atexit unlinks the file once more, whatever it holds by now.
Exit(s) ==
  /\ spc[s] = "exiting"
  /\ entry' = IF owns[s] THEN [entry EXCEPT ![port[s]] = None] ELSE entry
  /\ spc' = [spc EXCEPT ![s] = Gone(s)]
  /\ UNCHANGED <<lock, old, clientVars, started, port, owns, histVars>>

-----------------------------------------------------------------------------
(* What goes wrong.                                                        *)

LockAges ==
  /\ "aging" \in Faults
  /\ lock # None /\ ~old
  /\ old' = TRUE
  /\ UNCHANGED <<lock, entry, clientVars, serverVars, histVars>>

ManualStart ==
  /\ "manual" \in Faults
  /\ \E p \in Port : StartServer(p)
  /\ quiet' = FALSE
  /\ UNCHANGED <<lock, old, entry, clientVars, broken>>

KillServer(s) ==
  /\ "kill" \in Faults
  /\ spc[s] \notin {"none", "zombie", "dead"}
  /\ spc' = [spc EXCEPT ![s] = Gone(s)]
  /\ quiet' = FALSE
  /\ UNCHANGED <<lock, old, entry, clientVars, started, port, owns,
                 broken>>

\* A call dies with its process: its lock stays, its dead child is waited for.
KillClient(c) ==
  /\ "kill" \in Faults
  /\ cpc[c] # "dead"
  /\ cpc' = [cpc EXCEPT ![c] = "dead"]
  /\ spc' = [s \in Server |-> IF child[c] = s /\ spc[s] = "zombie"
                              THEN "dead" ELSE spc[s]]
  /\ quiet' = FALSE
  /\ UNCHANGED <<lock, old, entry, listed, found, reap, polls, child, started,
                 port, owns, broken>>

CallStep(c) ==
  \/ ReadEntry(c) \/ Reap(c) \/ FoundAtOnce(c) \/ NotFound(c)
  \/ Acquire(c) \/ Queue(c) \/ WaiterFinds(c) \/ WaiterMisses(c)
  \/ LockIsFresh(c) \/ LockIsStale(c) \/ BreakLock(c)
  \/ RecheckFinds(c) \/ RecheckMisses(c) \/ Spawn(c) \/ SpawnFails(c)
  \/ ChildExited(c) \/ ChildRuns(c) \/ LauncherFinds(c) \/ LauncherMisses(c)
  \/ LaunchTimesOut(c) \/ Release(c)

ServerStep(s) ==
  CheckExists(s) \/ CheckConflict(s) \/ Register(s) \/ Bind(s) \/ Exit(s)

Next ==
  \/ \E c \in Client : Ensure(c) \/ CallStep(c) \/ KillClient(c)
  \/ \E s \in Server : ServerStep(s) \/ Stop(s) \/ KillServer(s)
  \/ LockAges \/ ManualStart

Spec == Init /\ [][Next]_vars

-----------------------------------------------------------------------------
(* Properties.                                                             *)

\* Concurrent launches are serialised: two calls are never both between
\* taking the launch lock and giving it back, unless a waiter broke a lock.
LaunchExclusion ==
  ~broken =>
    \A c, d \in Client : cpc[c] \in Critical /\ cpc[d] \in Critical => c = d

\* Any number of concurrent calls starts one server, as long as nothing goes
\* wrong: the registry looked at under the lock shows the server of the launch
\* that had the lock before.
OneLaunch == quiet => started <= 1

\* A running server that registered can be found, whatever crashes or is reaped,
\* as long as no other server was ever started for its port.
SoleServerIsRegistered ==
  \A s \in Server :
    /\ owns[s] /\ spc[s] \in {"binding", "serving"}
    /\ \A r \in Server \ {s} : port[r] # port[s]
    => entry[port[s]] = s

\* The registry file of a server that is up is removed only by that server.
EntryStaysWhileServing ==
  [][\A s \in Server :
       spc[s] = "serving" /\ spc'[s] = "serving" /\ entry[port[s]] = s =>
         entry'[port[s]] = s]_vars

-----------------------------------------------------------------------------
(* The inductive invariant of the proofs.                                  *)

\* Servers are numbered in the order they start; a started one has its port.
ServersInOrder ==
  \A s \in Server :
    /\ s > started <=> spc[s] = "none"
    /\ port[s] = NoPort <=> spc[s] = "none"
    /\ spc[s] \in {"none", "starting", "checking", "registering"} => ~owns[s]

\* A registry file was written by a server of its port that has its handlers,
\* and so was every file a reader has read, listed or is about to unlink.
FilesWritten ==
  /\ \A p \in Port : entry[p] # None => port[entry[p]] = p /\ owns[entry[p]]
  /\ \A c \in Client : \A s \in found[c] : owns[s]
  /\ \A c \in Client, p \in Port : p \in listed[c] \/ reap[c] = p =>
       \E r \in Server : port[r] = p /\ owns[r]

\* A call holds the launch lock from its creation to the finally block.
LockHeld == ~broken => \A c \in Client : cpc[c] \in Critical => lock = c

\* The files of a port with one server: none before it registers, its own
\* while it is up, and no reader about to unlink that.
SoleServer(s) == \A r \in Server \ {s} : port[r] # port[s]

SoleServerUndisturbed ==
  \A s \in Server : SoleServer(s) =>
    /\ spc[s] \in {"starting", "checking", "registering"} =>
         /\ entry[port[s]] = None
         /\ \A c \in Client : port[s] \notin listed[c] /\ reap[c] # port[s]
    /\ owns[s] /\ spc[s] \in {"binding", "serving"} =>
         entry[port[s]] = s /\ \A c \in Client : reap[c] # port[s]

\* While nothing goes wrong: the one server, if any, is being launched or serves
\* and is registered; a call that looks under the lock cannot miss it.
QuietLaunch ==
  quiet =>
    /\ ~broken /\ started <= 1
    /\ \A s \in Server : /\ spc[s] \in {"none", "starting", "registering",
                                       "binding", "serving"}
                         /\ spc[s] \in {"binding", "serving"} => owns[s]
    /\ \A c \in Client :
         /\ cpc[c] \in {"polling", "poll"} => child[c] = 1 /\ started = 1
         /\ cpc[c] = "spawn" => started = 0
         /\ cpc[c] = "recheck" /\ started = 1 =>
              1 \in found[c] \/ port[1] \in listed[c]
    /\ started = 1 =>
         \/ spc[1] = "serving"
         \/ \E c \in Client : cpc[c] \in {"polling", "poll"}

IInv ==
  /\ TypeOK /\ ServersInOrder /\ FilesWritten /\ LockHeld
  /\ SoleServerUndisturbed /\ QuietLaunch

=============================================================================
