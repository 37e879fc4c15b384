------------------------ MODULE ServerDiscovery_proofs ------------------------
(* Proofs about ServerDiscovery, for every number of callers, servers, ports *)
(* and polls, and whatever goes wrong.                                       *)
EXTENDS ServerDiscovery, TLAPS

\* The initial state satisfies the inductive invariant.
LEMMA InitIInv == Init => IInv
<1> USE ConstantsAssumption DEF Init
<1>1. ASSUME Init PROVE TypeOK
  <2>1. started \in 0..MaxServer /\ polls \in [Client -> 0..Polls]
    BY <1>1
  <2>2. /\ spc \in [Server -> ServerPcs] /\ cpc \in [Client -> ClientPcs]
        /\ listed \in [Client -> SUBSET Port]
        /\ found \in [Client -> SUBSET Server]
    BY <1>1 DEF ServerPcs, ClientPcs
  <2> QED
    BY <1>1, <2>1, <2>2 DEF TypeOK
<1>2. Init => ServersInOrder
  BY DEF ServersInOrder, Server
<1>3. Init => FilesWritten /\ LockHeld
  BY DEF FilesWritten, LockHeld, None, NoPort, Critical
<1>4. Init => SoleServerUndisturbed
  BY DEF SoleServerUndisturbed
<1>5. Init => QuietLaunch
  BY DEF QuietLaunch
<1> QED
  BY <1>1, <1>2, <1>3, <1>4, <1>5 DEF IInv

\* The server that StartServer creates had no state before, and nobody has read
\* or written a registry file of its port unless another server has that port.
LEMMA StartEffect ==
  ASSUME IInv, NEW p \in Port, StartServer(p)
  PROVE  LET n == started + 1 IN
         /\ n \in Server /\ started' = n
         /\ spc[n] = "none" /\ ~owns[n] /\ port[n] = NoPort /\ p # NoPort
         /\ spc' = [spc EXCEPT ![n] = "starting"]
         /\ port' = [port EXCEPT ![n] = p] /\ owns' = owns
         /\ (\A r \in Server \ {n} : port[r] # p) =>
              /\ entry[p] = None
              /\ \A c \in Client : p \notin listed[c] /\ reap[c] # p
<1> USE ConstantsAssumption DEF IInv
<1> DEFINE n == started + 1
<1>1. n \in Server /\ n > started
  BY DEF StartServer, TypeOK, Server
<1>2. spc[n] = "none" /\ ~owns[n] /\ port[n] = NoPort /\ p # NoPort
  BY <1>1 DEF ServersInOrder, NoPort
<1>3. (\A r \in Server \ {n} : port[r] # p) =>
         /\ entry[p] = None
         /\ \A c \in Client : p \notin listed[c] /\ reap[c] # p
  <2> HIDE DEF n
  <2> QED
    BY <1>1, <1>2 DEF FilesWritten, TypeOK
<1> QED
  BY <1>1, <1>2, <1>3 DEF StartServer

\* While nothing has gone wrong, a started server is the only one; until it
\* registers its port has no file, afterwards it has its own.
LEMMA TheServer ==
  ASSUME IInv, quiet, started # 0
  PROVE  /\ started = 1 /\ 1 \in Server /\ port[1] \in Port
         /\ \A s \in Server : spc[s] # "none" => s = 1
         /\ spc[1] \in {"starting", "registering"} =>
              /\ entry[port[1]] = None
              /\ \A c \in Client : port[1] \notin listed[c]
         /\ spc[1] \in {"binding", "serving"} => entry[port[1]] = 1
<1> USE ConstantsAssumption DEF IInv
<1>1. started = 1 /\ 1 \in Server
  BY DEF QuietLaunch, TypeOK, Server
<1>2. \A s \in Server : spc[s] # "none" <=> s = 1
  BY <1>1 DEF ServersInOrder, Server
<1>3. port[1] # NoPort /\ \A r \in Server \ {1} : port[r] = NoPort
  BY <1>1, <1>2 DEF ServersInOrder
<1>4. SoleServer(1)
  BY <1>3 DEF SoleServer
<1>5. spc[1] \in {"binding", "serving"} => owns[1]
  BY <1>1 DEF QuietLaunch
<1> QED
  BY <1>1, <1>2, <1>3, <1>4, <1>5 DEF SoleServerUndisturbed, TypeOK

\* Every step keeps the variables typed.
LEMMA TypeOKStep ==
  ASSUME IInv, [Next]_vars
  PROVE  TypeOK'
<1> USE ConstantsAssumption
    DEF IInv, TypeOK, clientVars, serverVars, histVars, ClientPcs, ServerPcs,
        Scanning, Critical, Returned
<1>1. ASSUME NEW c \in Client, ReadEntry(c)
      PROVE  TypeOK'
  <2>1. PICK p \in listed[c] :
           /\ listed' = [listed EXCEPT ![c] = @ \ {p}]
           /\ IF PidAlive(entry[p])
              THEN found' = [found EXCEPT ![c] = @ \cup {entry[p]}]
                     /\ UNCHANGED reap
              ELSE reap' = [reap EXCEPT ![c] = p] /\ UNCHANGED found
    BY <1>1 DEF ReadEntry
  <2>2. p \in Port /\ (PidAlive(entry[p]) => entry[p] \in Server)
    BY DEF PidAlive
  <2>3. /\ listed' \in [Client -> SUBSET Port]
        /\ found' \in [Client -> SUBSET Server]
        /\ reap' \in [Client -> Port \cup {NoPort}]
    BY <2>1, <2>2
  <2> QED
    BY <1>1, <2>3 DEF ReadEntry
<1>2. ASSUME NEW c \in Client, Reap(c)
      PROVE  TypeOK'
  BY <1>2 DEF Reap
<1>3. ASSUME NEW c \in Client,
             Ensure(c) \/ Acquire(c) \/ Queue(c) \/ ChildRuns(c)
      PROVE  TypeOK'
  <2>1. /\ listed' \in [Client -> SUBSET Port]
        /\ found' \in [Client -> SUBSET Server]
    BY <1>3 DEF Ensure, Acquire, Queue, ChildRuns, BeginScan
  <2>2. polls' \in [Client -> 0..Polls]
    BY <1>3 DEF Ensure, Acquire, Queue, ChildRuns
  <2>3. cpc' \in [Client -> ClientPcs]
    BY <1>3 DEF Ensure, Acquire, Queue, ChildRuns
  <2> QED
    BY <1>3, <2>1, <2>2, <2>3 DEF Ensure, Acquire, Queue, ChildRuns
<1>4. ASSUME NEW c \in Client, LockIsFresh(c) \/ BreakLock(c)
      PROVE  TypeOK'
  <2>1. WaitOn(c)
    BY <1>4 DEF LockIsFresh, BreakLock
  <2>2. /\ cpc' \in [Client -> ClientPcs] /\ polls' \in [Client -> 0..Polls]
        /\ listed' \in [Client -> SUBSET Port]
        /\ found' \in [Client -> SUBSET Server]
    <3>1. CASE polls[c] > 0 /\ polls' = [polls EXCEPT ![c] = @ - 1]
                 /\ cpc' = [cpc EXCEPT ![c] = "wait"] /\ BeginScan(c)
      BY <3>1 DEF BeginScan
    <3>2. CASE cpc' = [cpc EXCEPT ![c] = "failed"]
                 /\ UNCHANGED <<polls, listed, found>>
      BY <3>2
    <3> QED
      BY <2>1, <3>1, <3>2 DEF WaitOn
  <2> QED
    BY <1>4, <2>2 DEF LockIsFresh, BreakLock
<1>5. ASSUME NEW c \in Client,
             FoundAtOnce(c) \/ WaiterFinds(c) \/ RecheckFinds(c)
               \/ LauncherFinds(c)
      PROVE  TypeOK'
  BY <1>5 DEF FoundAtOnce, WaiterFinds, RecheckFinds, LauncherFinds, Hit
<1>6. ASSUME NEW c \in Client,
             NotFound(c) \/ WaiterMisses(c) \/ RecheckMisses(c)
      PROVE  TypeOK'
  <2>1. quiet' \in BOOLEAN /\ found' \in [Client -> SUBSET Server]
    BY <1>6 DEF NotFound, WaiterMisses, RecheckMisses, Miss
  <2> QED
    BY <1>6, <2>1 DEF NotFound, WaiterMisses, RecheckMisses
<1>7. ASSUME NEW c \in Client, LauncherMisses(c) \/ LaunchTimesOut(c)
      PROVE  TypeOK'
  <2>1. quiet' \in BOOLEAN /\ found' \in [Client -> SUBSET Server]
    BY <1>7 DEF LauncherMisses, LaunchTimesOut, Miss
  <2>2. polls' \in [Client -> 0..Polls]
    BY <1>7 DEF LauncherMisses, LaunchTimesOut
  <2> QED
    BY <1>7, <2>1, <2>2 DEF LauncherMisses, LaunchTimesOut
<1>8. ASSUME NEW c \in Client,
             LockIsStale(c) \/ SpawnFails(c) \/ ChildExited(c) \/ Release(c)
      PROVE  TypeOK'
  BY <1>8 DEF LockIsStale, SpawnFails, ChildExited, Release
<1>9. ASSUME NEW c \in Client, Spawn(c)
      PROVE  TypeOK'
  <2>1. PICK p \in Port : StartServer(p)
    BY <1>9 DEF Spawn
  <2>2. /\ started + 1 \in Server /\ started' = started + 1
        /\ spc' = [spc EXCEPT ![started + 1] = "starting"]
        /\ port' = [port EXCEPT ![started + 1] = p] /\ owns' = owns
    BY <2>1, StartEffect
  <2>3. started' \in 0..MaxServer
    BY <2>2 DEF Server
  <2> QED
    BY <1>9, <2>2, <2>3 DEF Spawn
<1>10. ASSUME ManualStart
       PROVE  TypeOK'
  <2>1. PICK p \in Port : StartServer(p)
    BY <1>10 DEF ManualStart
  <2>2. /\ started + 1 \in Server /\ started' = started + 1
        /\ spc' = [spc EXCEPT ![started + 1] = "starting"]
        /\ port' = [port EXCEPT ![started + 1] = p] /\ owns' = owns
    BY <2>1, StartEffect
  <2>3. started' \in 0..MaxServer
    BY <2>2 DEF Server
  <2> QED
    BY <1>10, <2>2, <2>3 DEF ManualStart
<1>11. ASSUME NEW c \in Client, KillClient(c)
       PROVE  TypeOK'
  BY <1>11 DEF KillClient
<1>12. ASSUME NEW s \in Server,
              CheckExists(s) \/ CheckConflict(s) \/ Register(s) \/ Bind(s)
                \/ Exit(s) \/ Stop(s) \/ KillServer(s)
       PROVE  TypeOK'
  <2>1. spc' \in [Server -> ServerPcs]
    BY <1>12
    DEF CheckExists, CheckConflict, Register, Bind, Exit, Stop, KillServer,
        Gone
  <2>2. owns' \in [Server -> BOOLEAN]
    BY <1>12
    DEF CheckExists, CheckConflict, Register, Bind, Exit, Stop, KillServer
  <2>3. \/ entry' = entry
        \/ entry' = [entry EXCEPT ![port[s]] = None]
        \/ entry' = [entry EXCEPT ![port[s]] = s]
    BY <1>12
    DEF CheckExists, CheckConflict, Register, Bind, Exit, Stop, KillServer
  <2>4. entry' \in [Port -> Server \cup {None}]
    BY <2>3
  <2> QED
    BY <1>12, <2>1, <2>2, <2>4
    DEF CheckExists, CheckConflict, Register, Bind, Exit, Stop, KillServer
<1>13. CASE LockAges \/ UNCHANGED vars
  BY <1>13 DEF LockAges, vars
<1> QED
  BY <1>1, <1>2, <1>3, <1>4, <1>5, <1>6, <1>7, <1>8, <1>9, <1>10, <1>11,
     <1>12, <1>13
     DEF Next, CallStep, ServerStep

\* Every step numbers servers in the order they start.
LEMMA ServersInOrderStep ==
  ASSUME IInv, [Next]_vars
  PROVE  ServersInOrder'
<1> USE ConstantsAssumption
    DEF IInv, TypeOK, ServersInOrder, clientVars, serverVars, histVars
<1>1. ASSUME NEW p \in Port, StartServer(p)
      PROVE  ServersInOrder'
  <2> DEFINE n == started + 1
  <2>1. /\ n \in Server /\ started' = n /\ ~owns[n] /\ p # NoPort
        /\ spc' = [spc EXCEPT ![n] = "starting"]
        /\ port' = [port EXCEPT ![n] = p] /\ owns' = owns
    BY <1>1, StartEffect
  <2>2. \A s \in Server : s > started + 1 <=> s > started /\ s # started + 1
    BY DEF Server
  <2> QED
    BY <2>1, <2>2
<1>2. ASSUME NEW c \in Client, Ensure(c) \/ CallStep(c)
      PROVE  ServersInOrder'
  <2>1. CASE Spawn(c)
    BY <1>1, <2>1 DEF Spawn
  <2>2. CASE ChildExited(c)
    BY <2>2 DEF ChildExited
  <2>3. CASE UNCHANGED <<started, spc, port, owns>>
    BY <2>3
  <2> QED
    BY <1>2, <2>1, <2>2, <2>3
    DEF Ensure, CallStep, ReadEntry, Reap, FoundAtOnce, NotFound, Acquire,
        Queue, WaiterFinds, WaiterMisses, LockIsFresh, LockIsStale, BreakLock,
        RecheckFinds, RecheckMisses, SpawnFails, ChildRuns, LauncherFinds,
        LauncherMisses, LaunchTimesOut, Release
<1>3. ASSUME NEW c \in Client, KillClient(c)
      PROVE  ServersInOrder'
  BY <1>3 DEF KillClient
<1>4. ASSUME NEW s \in Server,
             CheckExists(s) \/ CheckConflict(s) \/ Bind(s) \/ Exit(s) \/ Stop(s)
               \/ KillServer(s)
      PROVE  ServersInOrder'
  <2>1. \E q \in ServerPcs \ {"none", "starting"} :
           /\ spc' = [spc EXCEPT ![s] = q]
           /\ q \in {"checking", "registering"} =>
                spc[s] \in {"starting", "checking"}
    BY <1>4
    DEF CheckExists, CheckConflict, Bind, Exit, Stop, KillServer, Gone,
        ServerPcs
  <2>2. UNCHANGED <<started, port, owns>> /\ spc[s] # "none"
    BY <1>4 DEF CheckExists, CheckConflict, Bind, Exit, Stop, KillServer
  <2> QED
    BY <2>1, <2>2
<1>5. ASSUME NEW s \in Server, Register(s)
      PROVE  ServersInOrder'
  BY <1>5 DEF Register
<1>6. ASSUME ManualStart
      PROVE  ServersInOrder'
  BY <1>1, <1>6 DEF ManualStart
<1>7. CASE LockAges \/ UNCHANGED vars
  BY <1>7 DEF LockAges, vars
<1> QED
  BY <1>2, <1>3, <1>4, <1>5, <1>6, <1>7 DEF Next, ServerStep

\* Every step leaves registry files, and what readers know of them, to servers
\* that wrote them.
LEMMA FilesWrittenStep ==
  ASSUME IInv, [Next]_vars
  PROVE  FilesWritten'
<1> USE ConstantsAssumption
    DEF IInv, TypeOK, FilesWritten, clientVars, serverVars, histVars
<1>1. ASSUME NEW c \in Client, ReadEntry(c)
      PROVE  FilesWritten'
  <2>1. PICK p \in listed[c] :
           /\ listed' = [listed EXCEPT ![c] = @ \ {p}]
           /\ IF PidAlive(entry[p])
              THEN found' = [found EXCEPT ![c] = @ \cup {entry[p]}]
                     /\ UNCHANGED reap
              ELSE reap' = [reap EXCEPT ![c] = p] /\ UNCHANGED found
    BY <1>1 DEF ReadEntry
  <2>2. p \in Port /\ \E r \in Server : port[r] = p /\ owns[r]
    BY <2>1
  <2>3. PidAlive(entry[p]) => owns[entry[p]]
    BY <2>2 DEF PidAlive
  <2>4. UNCHANGED <<entry, port, owns>>
    BY <1>1 DEF ReadEntry
  <2>5. \A d \in Client : listed'[d] \subseteq listed[d]
    BY <2>1
  <2>6. \A d \in Client : reap'[d] # p => reap'[d] = reap[d]
    BY <2>1
  <2>7. \A d \in Client : \A s \in found'[d] : owns[s]
    BY <2>1, <2>3
  <2>8. ASSUME NEW d \in Client, NEW q \in Port,
               q \in listed'[d] \/ reap'[d] = q
        PROVE  \E r \in Server : port[r] = q /\ owns[r]
    <3>1. CASE q = p
      BY <2>2, <3>1
    <3>2. CASE q # p
      <4>1. q \in listed[d] \/ reap[d] = q
        BY <2>5, <2>6, <2>8, <3>2
      <4> QED
        BY <4>1
    <3> QED
      BY <3>1, <3>2
  <2> QED
    BY <2>4, <2>7, <2>8
<1>2. ASSUME NEW c \in Client, Reap(c)
      PROVE  FilesWritten'
  BY <1>2 DEF Reap, NoPort, None
<1>3. ASSUME NEW p \in Port, StartServer(p),
             UNCHANGED <<entry, listed, found, reap>>
      PROVE  FilesWritten'
  <2> DEFINE n == started + 1
  <2>1. /\ n \in Server /\ ~owns[n]
        /\ port' = [port EXCEPT ![n] = p] /\ owns' = owns
    BY <1>3, StartEffect
  <2>2. \A r \in Server : owns[r] => owns'[r] /\ port'[r] = port[r]
    BY <2>1
  <2> HIDE DEF n
  <2> QED
    BY <1>3, <2>2, <2>1
<1>4. ASSUME NEW c \in Client, Ensure(c) \/ CallStep(c)
      PROVE  FilesWritten'
  <2>1. CASE Spawn(c)
    BY <1>3, <2>1 DEF Spawn
  <2>2. CASE /\ UNCHANGED <<entry, reap, port, owns>>
             /\ BeginScan(c)
    <3>1. \A d \in Client : \A p \in Port :
             p \in listed'[d] => p \in listed[d] \/ entry[p] # None
      BY <2>2 DEF BeginScan
    <3>2. \A d \in Client : found'[d] \subseteq found[d]
      BY <2>2 DEF BeginScan
    <3>3. \A p \in Port : entry[p] # None =>
             \E r \in Server : port[r] = p /\ owns[r]
      OBVIOUS
    <3>4. ASSUME NEW d \in Client, NEW p \in Port,
                 p \in listed'[d] \/ reap'[d] = p
          PROVE  \E r \in Server : port[r] = p /\ owns[r]
      <4>1. CASE entry[p] # None
        BY <4>1, <3>3
      <4>2. CASE p \in listed[d] \/ reap[d] = p
        BY <4>2
      <4> QED
        BY <2>2, <3>1, <3>4, <4>1, <4>2
    <3>5. \A d \in Client : \A s \in found'[d] : owns[s]
      BY <3>2
    <3>6. \A p \in Port : entry[p] # None => port[entry[p]] = p /\ owns[entry[p]]
      OBVIOUS
    <3>7. UNCHANGED <<entry, port, owns>>
      BY <2>2
    <3> QED
      BY <3>4, <3>5, <3>6, <3>7
  <2>3. CASE /\ UNCHANGED <<entry, listed, reap, port, owns>>
             /\ found' = found \/ found' = [found EXCEPT ![c] = {}]
    BY <2>3
  <2> QED
    BY <1>1, <1>2, <1>4, <2>1, <2>2, <2>3
    DEF Ensure, CallStep, FoundAtOnce, NotFound, Acquire, Hit, Miss, WaitOn,
        Queue, WaiterFinds, WaiterMisses, LockIsFresh, LockIsStale, BreakLock,
        RecheckFinds, RecheckMisses, SpawnFails, ChildExited, ChildRuns,
        LauncherFinds, LauncherMisses, LaunchTimesOut, Release
<1>5. ASSUME NEW s \in Server, Register(s)
      PROVE  FilesWritten'
  <2>1. /\ entry' = [entry EXCEPT ![port[s]] = s] /\ s # None
        /\ owns' = [owns EXCEPT ![s] = TRUE]
        /\ UNCHANGED <<port, listed, found, reap>>
    BY <1>5 DEF Register, Server, None
  <2>2. \A r \in Server : owns[r] => owns'[r]
    BY <2>1
  <2> QED
    BY <2>1, <2>2
<1>6. ASSUME NEW s \in Server,
             CheckExists(s) \/ CheckConflict(s) \/ Bind(s) \/ Exit(s) \/ Stop(s)
               \/ KillServer(s)
      PROVE  FilesWritten'
  <2>1. /\ entry' = entry \/ entry' = [entry EXCEPT ![port[s]] = None]
        /\ UNCHANGED <<port, owns, listed, found, reap>>
    BY <1>6 DEF CheckExists, CheckConflict, Bind, Exit, Stop, KillServer
  <2> QED
    BY <2>1
<1>7. ASSUME NEW c \in Client, KillClient(c)
      PROVE  FilesWritten'
  BY <1>7 DEF KillClient
<1>8. ASSUME ManualStart
      PROVE  FilesWritten'
  BY <1>3, <1>8 DEF ManualStart
<1>9. CASE LockAges \/ UNCHANGED vars
  BY <1>9 DEF LockAges, vars
<1> QED
  BY <1>4, <1>5, <1>6, <1>7, <1>8, <1>9 DEF Next, ServerStep

\* Every step keeps the launch lock with the call between its creation and the
\* finally block.
LEMMA LockHeldStep ==
  ASSUME IInv, [Next]_vars
  PROVE  LockHeld'
<1> USE ConstantsAssumption
    DEF IInv, TypeOK, LockHeld, Critical, clientVars, serverVars, histVars
<1>1. ASSUME NEW c \in Client, Acquire(c)
      PROVE  LockHeld'
  BY <1>1 DEF Acquire, None
<1>2. ASSUME NEW c \in Client, Release(c)
      PROVE  LockHeld'
  BY <1>2 DEF Release
<1>3. ASSUME NEW c \in Client, LockIsFresh(c)
      PROVE  LockHeld'
  <2>1. cpc' = [cpc EXCEPT ![c] = "wait"] \/ cpc' = [cpc EXCEPT ![c] = "failed"]
    BY <1>3 DEF LockIsFresh, WaitOn
  <2> QED
    BY <1>3, <2>1 DEF LockIsFresh
<1>4. ASSUME NEW c \in Client,
             KillClient(c) \/ (CallStep(c) /\ ~Acquire(c) /\ ~Release(c)
                                 /\ ~LockIsFresh(c) /\ ~BreakLock(c))
             \/ Ensure(c)
      PROVE  LockHeld'
  <2>1. \E q \in ClientPcs :
           /\ cpc' = [cpc EXCEPT ![c] = q]
           /\ q \in Critical => cpc[c] \in Critical
    BY <1>4
    DEF KillClient, CallStep, Ensure, ReadEntry, Reap, FoundAtOnce, NotFound,
        Queue, WaiterFinds, WaiterMisses, LockIsStale, RecheckFinds,
        RecheckMisses, Spawn, SpawnFails, ChildExited, ChildRuns,
        LauncherFinds, LauncherMisses, LaunchTimesOut, ClientPcs, Scanning,
        Returned
  <2>2. UNCHANGED <<lock, broken>>
    BY <1>4
    DEF KillClient, CallStep, Ensure, ReadEntry, Reap, FoundAtOnce, NotFound,
        Queue, WaiterFinds, WaiterMisses, LockIsStale, RecheckFinds,
        RecheckMisses, Spawn, SpawnFails, ChildExited, ChildRuns,
        LauncherFinds, LauncherMisses, LaunchTimesOut
  <2> QED
    BY <2>1, <2>2
<1>5. ASSUME NEW s \in Server, ServerStep(s) \/ Stop(s) \/ KillServer(s)
      PROVE  LockHeld'
  BY <1>5
  DEF ServerStep, CheckExists, CheckConflict, Register, Bind, Exit, Stop,
      KillServer
<1>6. ASSUME NEW c \in Client, BreakLock(c)
      PROVE  LockHeld'
  BY <1>6 DEF BreakLock
<1>7. CASE LockAges \/ ManualStart \/ UNCHANGED vars
  BY <1>7 DEF LockAges, ManualStart, vars
<1> QED
  BY <1>1, <1>2, <1>3, <1>4, <1>5, <1>6, <1>7 DEF Next

\* Every step leaves the files of a port with one server to that server.
LEMMA SoleServerUndisturbedStep ==
  ASSUME IInv, [Next]_vars
  PROVE  SoleServerUndisturbed'
<1> USE ConstantsAssumption
    DEF IInv, TypeOK, SoleServerUndisturbed, SoleServer, clientVars,
        serverVars, histVars
<1>1. ASSUME NEW c \in Client, ReadEntry(c)
      PROVE  SoleServerUndisturbed'
  <2>1. PICK p \in listed[c] :
           /\ listed' = [listed EXCEPT ![c] = @ \ {p}]
           /\ IF PidAlive(entry[p])
              THEN found' = [found EXCEPT ![c] = @ \cup {entry[p]}]
                     /\ UNCHANGED reap
              ELSE reap' = [reap EXCEPT ![c] = p] /\ UNCHANGED found
    BY <1>1 DEF ReadEntry
  <2>2. UNCHANGED <<entry, port, owns, spc>>
    BY <1>1 DEF ReadEntry
  <2>3. ASSUME NEW s \in Server, SoleServer(s),
               spc[s] \in {"starting", "checking", "registering"}
        PROVE  \A d \in Client : port[s] \notin listed'[d] /\ reap'[d] # port[s]
    BY <2>1, <2>3
  <2>4. ASSUME NEW s \in Server, SoleServer(s),
               owns[s] /\ spc[s] \in {"binding", "serving"}
        PROVE  \A d \in Client : reap'[d] # port[s]
    <3>1. entry[port[s]] = s /\ s # None /\ \A d \in Client : reap[d] # port[s]
      BY <2>4 DEF Server, None
    <3>2. PidAlive(entry[port[s]])
      BY <2>4, <3>1 DEF PidAlive
    <3> QED
      BY <2>1, <3>1, <3>2
  <2> QED
    BY <2>2, <2>3, <2>4
<1>2. ASSUME NEW c \in Client, Reap(c)
      PROVE  SoleServerUndisturbed'
  <2>1. /\ UNCHANGED <<listed, port, owns, spc>>
        /\ entry' = [entry EXCEPT ![reap[c]] = None]
        /\ \A d \in Client : reap'[d] \in {reap[d], NoPort}
    BY <1>2 DEF Reap
  <2>2. \A s \in Server : spc[s] # "none" => port[s] # NoPort
    BY DEF ServersInOrder
  <2> QED
    BY <2>1, <2>2
<1>3. ASSUME NEW p \in Port, StartServer(p), UNCHANGED <<entry, listed, reap>>
      PROVE  SoleServerUndisturbed'
  <2> DEFINE n == started + 1
  <2>1. /\ n \in Server /\ spc[n] = "none" /\ ~owns[n] /\ port[n] = NoPort
        /\ spc' = [spc EXCEPT ![n] = "starting"]
        /\ port' = [port EXCEPT ![n] = p] /\ owns' = owns
        /\ (\A r \in Server \ {n} : port[r] # p) =>
             /\ entry[p] = None
             /\ \A c \in Client : p \notin listed[c] /\ reap[c] # p
    BY <1>3, StartEffect
  <2>2. \A s \in Server : spc[s] # "none" => port[s] # NoPort
    BY DEF ServersInOrder
  <2> HIDE DEF n
  <2>3. ASSUME NEW s \in Server, s # n, SoleServer(s)', spc'[s] # "none"
        PROVE  SoleServer(s) /\ spc'[s] = spc[s] /\ port'[s] = port[s]
    <3>1. spc'[s] = spc[s] /\ port'[s] = port[s]
      BY <2>1, <2>3
    <3>2. ASSUME NEW r \in Server \ {s} PROVE port[r] # port[s]
      BY <2>1, <2>2, <2>3, <3>1
    <3> QED
      BY <3>1, <3>2
  <2>4. ASSUME NEW s \in Server, s = n, SoleServer(s)'
        PROVE  \A r \in Server \ {n} : port[r] # p
    BY <2>1, <2>4
  <2>5. spc'[n] = "starting" /\ port'[n] = p
    BY <2>1
  <2>6. ASSUME NEW s \in Server, SoleServer(s)',
               spc'[s] \in {"starting", "checking", "registering"}
        PROVE  /\ entry[port'[s]] = None
               /\ \A c \in Client :
                    port'[s] \notin listed[c] /\ reap[c] # port'[s]
    BY <2>1, <2>3, <2>4, <2>5, <2>6
  <2>7. ASSUME NEW s \in Server, SoleServer(s)',
               owns'[s] /\ spc'[s] \in {"binding", "serving"}
        PROVE  entry[port'[s]] = s /\ \A c \in Client : reap[c] # port'[s]
    BY <2>1, <2>3, <2>5, <2>7
  <2> QED
    BY <1>3, <2>6, <2>7
<1>4. ASSUME NEW c \in Client, Ensure(c) \/ CallStep(c)
      PROVE  SoleServerUndisturbed'
  <2>1. CASE Spawn(c)
    BY <1>3, <2>1 DEF Spawn
  <2>2. CASE UNCHANGED <<entry, reap, port, owns, spc>> /\ BeginScan(c)
    <3>1. \A d \in Client : \A p \in Port :
             p \in listed'[d] => p \in listed[d] \/ entry[p] # None
      BY <2>2 DEF BeginScan
    <3>2. ASSUME NEW s \in Server, SoleServer(s),
                 spc[s] \in {"starting", "checking", "registering"},
                 NEW d \in Client
          PROVE  port[s] \notin listed'[d]
      <4>1. port[s] \in Port
        BY <3>2 DEF ServersInOrder
      <4>2. port[s] \notin listed[d] /\ entry[port[s]] = None
        BY <3>2
      <4> QED
        BY <3>1, <4>1, <4>2
    <3> QED
      BY <2>2, <3>2
  <2>3. CASE UNCHANGED <<entry, listed, reap, port, owns, spc>>
    BY <2>3
  <2>4. CASE ChildExited(c)
    BY <2>4 DEF ChildExited
  <2> QED
    BY <1>1, <1>2, <1>4, <2>1, <2>2, <2>3, <2>4
    DEF Ensure, CallStep, FoundAtOnce, NotFound, Acquire, WaitOn,
        Queue, WaiterFinds, WaiterMisses, LockIsFresh, LockIsStale, BreakLock,
        RecheckFinds, RecheckMisses, SpawnFails, ChildRuns,
        LauncherFinds, LauncherMisses, LaunchTimesOut, Release
<1>5. ASSUME NEW s \in Server,
             CheckExists(s) \/ CheckConflict(s) \/ Bind(s) \/ KillServer(s)
      PROVE  SoleServerUndisturbed'
  <2>1. /\ UNCHANGED <<entry, listed, reap, port, owns>>
        /\ \A r \in Server : r # s => spc'[r] = spc[r]
        /\ spc'[s] \in {"starting", "checking", "registering"} =>
             spc[s] \in {"starting", "checking"}
        /\ spc'[s] \in {"binding", "serving"} =>
             spc[s] = "binding" \/ ~owns[s]
    BY <1>5
    DEF CheckExists, CheckConflict, Bind, KillServer, Gone, ServersInOrder
  <2> QED
    BY <2>1
<1>6. ASSUME NEW s \in Server, Register(s)
      PROVE  SoleServerUndisturbed'
  <2>1. /\ UNCHANGED <<listed, reap, port>> /\ spc[s] = "registering"
        /\ entry' = [entry EXCEPT ![port[s]] = s]
        /\ owns' = [owns EXCEPT ![s] = TRUE]
        /\ spc' = [spc EXCEPT ![s] = "binding"]
    BY <1>6 DEF Register
  <2>2. port[s] \in Port
    BY <2>1 DEF ServersInOrder
  <2> QED
    BY <2>1, <2>2
<1>7. ASSUME NEW s \in Server, Exit(s) \/ Stop(s)
      PROVE  SoleServerUndisturbed'
  <2>1. /\ UNCHANGED <<listed, reap, port, owns>>
        /\ entry' \in {entry, [entry EXCEPT ![port[s]] = None]}
        /\ \A r \in Server : r # s => spc'[r] = spc[r]
        /\ spc'[s] \notin {"starting", "checking", "registering", "binding",
                        "serving"}
    BY <1>7 DEF Exit, Stop, Gone
  <2>2. ASSUME NEW r \in Server, r # s, SoleServer(r), spc[r] # "none"
        PROVE  entry'[port[r]] = entry[port[r]]
    <3>1. port[r] \in Port /\ port[r] # port[s]
      BY <2>2 DEF ServersInOrder
    <3> QED
      BY <2>1, <3>1
  <2> QED
    BY <2>1, <2>2
<1>8. ASSUME NEW c \in Client, KillClient(c)
      PROVE  SoleServerUndisturbed'
  <2>1. /\ UNCHANGED <<entry, listed, reap, port, owns>>
        /\ \A r \in Server : spc'[r] = spc[r] \/ spc'[r] = "dead"
    BY <1>8 DEF KillClient
  <2> QED
    BY <2>1
<1>9. ASSUME ManualStart
      PROVE  SoleServerUndisturbed'
  BY <1>3, <1>9 DEF ManualStart
<1>10. CASE LockAges \/ UNCHANGED vars
  BY <1>10 DEF LockAges, vars
<1> QED
  BY <1>4, <1>5, <1>6, <1>7, <1>8, <1>9, <1>10 DEF Next, ServerStep

\* Every step keeps the one launch of a time in which nothing goes wrong.
LEMMA QuietLaunchStep ==
  ASSUME IInv, [Next]_vars
  PROVE  QuietLaunch'
<1> USE ConstantsAssumption
    DEF IInv, TypeOK, QuietLaunch, clientVars, serverVars, histVars
<1>1. ASSUME NEW c \in Client, ReadEntry(c)
      PROVE  QuietLaunch'
  <2>1. PICK p \in listed[c] :
           /\ listed' = [listed EXCEPT ![c] = @ \ {p}]
           /\ IF PidAlive(entry[p])
              THEN found' = [found EXCEPT ![c] = @ \cup {entry[p]}]
                     /\ UNCHANGED reap
              ELSE reap' = [reap EXCEPT ![c] = p] /\ UNCHANGED found
    BY <1>1 DEF ReadEntry
  <2>2. UNCHANGED <<cpc, child, started, spc, port, owns, quiet, broken>>
    BY <1>1 DEF ReadEntry
  <2>3. ASSUME quiet, NEW d \in Client, cpc[d] = "recheck", started = 1
        PROVE  1 \in found'[d] \/ port[1] \in listed'[d]
    <3>1. CASE d = c /\ p = port[1] /\ p \in listed[c]
      <4>1. 1 \in Server /\ spc[1] # "none" /\ entry[p] = 1
        BY <2>3, <3>1, TheServer DEF ServersInOrder
      <4>2. PidAlive(entry[p])
        BY <2>3, <4>1 DEF PidAlive, None
      <4> QED
        BY <2>1, <3>1, <4>1, <4>2
    <3>2. CASE ~(d = c /\ p = port[1])
      BY <2>1, <2>3, <3>2
    <3> QED
      BY <2>1, <3>1, <3>2
  <2> QED
    BY <2>2, <2>3
<1>2. ASSUME NEW c \in Client, Acquire(c)
      PROVE  QuietLaunch'
  <2>1. /\ lock = None /\ cpc' = [cpc EXCEPT ![c] = "recheck"]
        /\ listed' = [listed EXCEPT ![c] = {p \in Port : entry[p] # None}]
        /\ found' = [found EXCEPT ![c] = {}]
        /\ UNCHANGED <<child, started, spc, port, owns, quiet, broken>>
    BY <1>2 DEF Acquire, BeginScan
  <2>2. ASSUME quiet, started = 1
        PROVE  port[1] \in listed'[c]
    <3>1. \A d \in Client : cpc[d] \notin {"polling", "poll"}
      BY <2>1, <2>2 DEF LockHeld, Critical, None
    <3>2. port[1] \in Port /\ entry[port[1]] = 1
      BY <2>2, <3>1, TheServer
    <3> QED
      BY <2>1, <3>2 DEF None
  <2>3. \A d \in Client : cpc[d] \in {"polling", "poll"} => d # c
    BY <1>2 DEF Acquire
  <2> QED
    BY <2>1, <2>2, <2>3
<1>3. ASSUME NEW c \in Client,
             Reap(c) \/ Ensure(c) \/ Queue(c) \/ ChildRuns(c)
      PROVE  QuietLaunch'
  <2>1. /\ UNCHANGED <<child, started, spc, port, owns, quiet, broken>>
        /\ \A d \in Client : d # c => /\ cpc'[d] = cpc[d]
                                      /\ listed'[d] = listed[d]
                                      /\ found'[d] = found[d]
        /\ cpc'[c] # "spawn" \/ UNCHANGED cpc
        /\ cpc'[c] # "recheck" \/ UNCHANGED <<cpc, listed, found>>
        /\ cpc'[c] \in {"polling", "poll"} <=> cpc[c] \in {"polling", "poll"}
    BY <1>3 DEF Reap, Ensure, Queue, ChildRuns, BeginScan
  <2> QED
    BY <2>1
<1>4. ASSUME NEW c \in Client, LockIsFresh(c)
      PROVE  QuietLaunch'
  <2>1. cpc' = [cpc EXCEPT ![c] = "wait"] \/ cpc' = [cpc EXCEPT ![c] = "failed"]
    BY <1>4 DEF LockIsFresh, WaitOn
  <2>2. \A d \in Client : d # c => listed'[d] = listed[d] /\ found'[d] = found[d]
    BY <1>4 DEF LockIsFresh, WaitOn, BeginScan
  <2>3. UNCHANGED <<child, started, spc, port, owns, quiet, broken>>
    BY <1>4 DEF LockIsFresh
  <2>4. cpc[c] = "stat"
    BY <1>4 DEF LockIsFresh
  <2> QED
    BY <2>1, <2>2, <2>3, <2>4
<1>5. ASSUME NEW c \in Client,
             FoundAtOnce(c) \/ WaiterFinds(c) \/ NotFound(c) \/ WaiterMisses(c)
               \/ LockIsStale(c) \/ SpawnFails(c) \/ RecheckFinds(c)
      PROVE  QuietLaunch'
  <2>1. /\ UNCHANGED <<child, started, spc, port, owns, broken, listed>>
        /\ \A d \in Client : d # c => cpc'[d] = cpc[d] /\ found'[d] = found[d]
        /\ cpc'[c] \notin {"recheck", "spawn", "polling", "poll"}
        /\ cpc[c] \notin {"polling", "poll"}
        /\ quiet' => quiet
    BY <1>5
    DEF FoundAtOnce, WaiterFinds, NotFound, WaiterMisses, LockIsStale,
        SpawnFails, RecheckFinds, Hit, Miss
  <2> QED
    BY <2>1
<1>6. ASSUME NEW c \in Client, RecheckMisses(c), quiet, Absent(c)
      PROVE  started = 0
  <2>1. SUFFICES ASSUME started # 0 PROVE FALSE
    OBVIOUS
  <2>2. cpc[c] = "recheck" /\ listed[c] = {} /\ Handles(c) = found[c]
    BY <1>6 DEF RecheckMisses, Miss, ScanDone, Handles
  <2>3. /\ started = 1 /\ 1 \in Server
        /\ \A s \in Server : spc[s] # "none" => s = 1
    BY <1>6, <2>1, TheServer
  <2>4. \A d \in Client : cpc[d] \notin {"polling", "poll"}
    BY <1>6, <2>2 DEF LockHeld, Critical
  <2>5. spc[1] = "serving"
    BY <1>6, <2>3, <2>4
  <2>6. found[c] = {1}
    BY <1>6, <2>2, <2>3 DEF FilesWritten, ServersInOrder
  <2>7. IsAlive(1)
    BY <2>3, <2>5 DEF IsAlive, PidAlive, Healthy, None
  <2> QED
    BY <1>6, <2>2, <2>6, <2>7 DEF Absent
<1>7. ASSUME NEW c \in Client, RecheckMisses(c)
      PROVE  QuietLaunch'
  <2>1. /\ UNCHANGED <<child, started, spc, port, owns, broken, listed>>
        /\ cpc[c] = "recheck" /\ cpc' = [cpc EXCEPT ![c] = "spawn"]
        /\ found' = [found EXCEPT ![c] = {}]
        /\ quiet' = (quiet /\ Absent(c))
    BY <1>7 DEF RecheckMisses, Miss
  <2>2. quiet' => started = 0
    BY <1>6, <1>7, <2>1
  <2> QED
    BY <2>1, <2>2
<1>8. ASSUME NEW c \in Client, LauncherFinds(c)
      PROVE  QuietLaunch'
  <2>1. /\ UNCHANGED <<child, started, spc, port, owns, broken, quiet, listed>>
        /\ cpc[c] = "poll" /\ cpc' = [cpc EXCEPT ![c] = "found"]
        /\ \A d \in Client : d # c => found'[d] = found[d]
        /\ \E s \in Handles(c) : IsAlive(s)
    BY <1>8 DEF LauncherFinds, Hit
  <2>2. quiet => spc[1] = "serving"
    <3>1. ASSUME quiet PROVE started = 1 /\ child[c] = 1
      BY <2>1, <3>1
    <3>2. \E s \in Server : spc[s] = "serving"
      BY <2>1 DEF IsAlive, Healthy
    <3> QED
      BY <3>1, <3>2, TheServer
  <2> QED
    BY <2>1, <2>2
<1>9. ASSUME NEW c \in Client, LauncherMisses(c)
      PROVE  QuietLaunch'
  <2>1. /\ UNCHANGED <<child, started, spc, port, owns, broken, listed>>
        /\ cpc[c] = "poll" /\ cpc' = [cpc EXCEPT ![c] = "polling"]
        /\ \A d \in Client : d # c => found'[d] = found[d]
        /\ quiet' => quiet
    BY <1>9 DEF LauncherMisses, Miss
  <2> QED
    BY <2>1
<1>10. ASSUME NEW c \in Client, Spawn(c)
       PROVE  QuietLaunch'
  <2>1. PICK p \in Port : StartServer(p)
    BY <1>10 DEF Spawn
  <2>2. /\ cpc[c] = "spawn" /\ cpc' = [cpc EXCEPT ![c] = "polling"]
        /\ child' = [child EXCEPT ![c] = started + 1]
        /\ UNCHANGED <<listed, found, quiet, broken>>
    BY <1>10 DEF Spawn
  <2>3. /\ started + 1 \in Server /\ started' = started + 1
        /\ spc' = [spc EXCEPT ![started + 1] = "starting"]
        /\ port' = [port EXCEPT ![started + 1] = p] /\ owns' = owns
    BY <2>1, StartEffect
  <2>4. quiet => started = 0
    BY <2>2
  <2>5. quiet => \A d \in Client \ {c} :
                    cpc[d] \notin {"recheck", "spawn", "polling", "poll"}
    BY <2>2 DEF LockHeld, Critical
  <2> QED
    BY <2>2, <2>3, <2>4, <2>5
<1>11. ASSUME NEW c \in Client, ChildExited(c)
       PROVE  QuietLaunch'
  <2>1. cpc[c] = "polling" /\ spc[child[c]] \in {"zombie", "dead"}
        /\ quiet' = quiet
    BY <1>11 DEF ChildExited
  <2>2. ~quiet
    <3>1. quiet => child[c] = 1 /\ 1 \in Server
      BY <2>1 DEF Server
    <3> QED
      BY <2>1, <3>1
  <2> QED
    BY <2>1, <2>2
<1>12. ASSUME NEW c \in Client, Release(c)
       PROVE  QuietLaunch'
  BY <1>12 DEF Release
<1>13. ASSUME NEW s \in Server, CheckExists(s)
       PROVE  QuietLaunch'
  <2>1. /\ UNCHANGED <<cpc, listed, found, child, started, port, owns, quiet,
                       broken>>
        /\ spc[s] = "starting"
        /\ spc' = [spc EXCEPT ![s] = IF entry[port[s]] = None
                                     THEN "registering" ELSE "checking"]
    BY <1>13 DEF CheckExists
  <2>2. quiet => entry[port[s]] = None
    <3>1. ASSUME quiet PROVE started # 0
      BY <2>1 DEF ServersInOrder, Server
    <3> QED
      BY <2>1, <3>1, TheServer
  <2> QED
    BY <2>1, <2>2
<1>14. ASSUME NEW s \in Server, Register(s)
       PROVE  QuietLaunch'
  <2>1. /\ UNCHANGED <<cpc, listed, found, child, started, port, quiet, broken>>
        /\ spc[s] = "registering" /\ spc' = [spc EXCEPT ![s] = "binding"]
        /\ owns' = [owns EXCEPT ![s] = TRUE]
    BY <1>14 DEF Register
  <2> QED
    BY <2>1
<1>15. ASSUME NEW s \in Server, Bind(s)
       PROVE  QuietLaunch'
  <2>1. /\ UNCHANGED <<cpc, listed, found, child, started, port, owns, quiet,
                       broken>>
        /\ spc[s] = "binding"
        /\ spc' = [spc EXCEPT ![s] = IF Healthy(port[s])
                                     THEN "exiting" ELSE "serving"]
    BY <1>15 DEF Bind
  <2>2. quiet => ~Healthy(port[s])
    <3>1. ASSUME quiet PROVE started # 0
      BY <2>1 DEF ServersInOrder, Server
    <3> QED
      BY <2>1, <3>1, TheServer DEF Healthy
  <2> QED
    BY <2>1, <2>2
<1>16. ASSUME NEW s \in Server, Exit(s) \/ CheckConflict(s)
       PROVE  QuietLaunch'
  BY <1>16 DEF Exit, CheckConflict
<1>17. ASSUME NEW c \in Client,
              BreakLock(c) \/ LaunchTimesOut(c) \/ KillClient(c)
       PROVE  QuietLaunch'
  BY <1>17 DEF BreakLock, LaunchTimesOut, KillClient
<1>18. ASSUME NEW s \in Server, Stop(s) \/ KillServer(s)
       PROVE  QuietLaunch'
  BY <1>18 DEF Stop, KillServer
<1>19. CASE LockAges \/ ManualStart \/ UNCHANGED vars
  BY <1>19 DEF LockAges, ManualStart, vars
<1> QED
  BY <1>1, <1>2, <1>3, <1>4, <1>5, <1>7, <1>8, <1>9, <1>10, <1>11, <1>12,
     <1>13, <1>14, <1>15, <1>16, <1>17, <1>18, <1>19
     DEF Next, CallStep, ServerStep

\* The invariant is inductive, so it holds in every state.
THEOREM Invariance == Spec => []IInv
<1>1. ASSUME IInv, [Next]_vars PROVE IInv'
  BY <1>1, TypeOKStep, ServersInOrderStep, FilesWrittenStep, LockHeldStep,
     SoleServerUndisturbedStep, QuietLaunchStep DEF IInv
<1> QED
  BY <1>1, InitIInv, PTL DEF Spec

\* Concurrent launches are serialised by the launch lock (auto_launch_server)
\* as long as no waiter breaks one.
THEOREM LaunchesExclude == Spec => []LaunchExclusion
<1>1. IInv => LaunchExclusion
  BY DEF IInv, LockHeld, LaunchExclusion
<1> QED
  BY <1>1, Invariance, PTL

\* Any number of concurrent calls of ensure_server starts one server, as long
\* as nothing goes wrong.
THEOREM OneServerLaunched == Spec => []OneLaunch
<1>1. IInv => OneLaunch
  BY DEF IInv, QuietLaunch, OneLaunch
<1> QED
  BY <1>1, Invariance, PTL

\* A running server that registered keeps its registry file as long as no other
\* server was started for its port, whatever crashes or is reaped.
THEOREM SoleServerFound == Spec => []SoleServerIsRegistered
<1>1. IInv => SoleServerIsRegistered
  BY DEF IInv, SoleServerUndisturbed, SoleServer, SoleServerIsRegistered
<1> QED
  BY <1>1, Invariance, PTL
=============================================================================
