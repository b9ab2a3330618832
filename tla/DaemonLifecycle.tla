--------------------------- MODULE DaemonLifecycle ---------------------------
(***************************************************************************)
(* How daemons of one project come and go: the daemon's own start and      *)
(* shutdown (daemon/index.ts), the commands that start, stop and find it   *)
(* (shared/daemon.ts with on.ts, off.ts and daemon.ts), and the files they *)
(* leave notes in (shared/project.ts).                                     *)
(*                                                                         *)
(* Commands and daemons are processes of their own that share the files    *)
(* under .httap and nothing else.  A step is what one process does between *)
(* two awaits, or up to a file that another process may read in between.   *)
(* Sockets, signals and ports belong to the operating system: a socket     *)
(* file leads to the process that listens on it, an exit frees the port.   *)
(***************************************************************************)
EXTENDS Naturals, Sequences, FiniteSets

CONSTANTS
    Pid,            \* processes a daemon may get
    Shell,          \* shells in which commands are run, one at a time each
    Port,           \* ports of the machine
    Release,        \* versions of httap that are installed over time
    MaxCommands,    \* bound: commands altogether
    MaxMishaps,     \* bound: crashes, signals by hand and ports taken by others
    None

ASSUME LifecycleAssumption ==
    /\ None \notin Pid \cup Shell \cup Port \cup {<<>>, <<"own">>}
    /\ MaxCommands \in Nat /\ MaxMishaps \in Nat

VARIABLES
    stage,          \* of each daemon process
    version,        \* the version a daemon was spawned from
    port,           \* the port a daemon chose, then bound
    pidFile, portFile, preferredFile, socketFile,
    held,           \* the daemon a terminal UI keeps its connection to
    squatted,       \* ports of other programs
    cmd, pc,        \* the command in each shell and where it is
    target,         \* the daemon a command has signalled
    seen,           \* the port a command has read
    outcome,        \* how the last command in a shell ended
    release,        \* the version the command in each shell is of
    env,            \* the variables of a shell that httap manages
    own,            \* history: the user's value of NODE_OPTIONS
    orderly,        \* history: no command began while anything was under way
    commands, mishaps

files == <<pidFile, portFile, preferredFile, socketFile>>
daemon == <<stage, version, port>>
shell == <<cmd, pc, release, target, seen, outcome, env>>
counts == <<commands, mishaps>>
vars == <<daemon, files, held, squatted, shell, own, orderly, counts>>

Bound == {"bound", "ported", "named", "serving", "closing", "unlistened"}
Alive(p) == stage[p] \notin {"unborn", "dead", "crashed"}
Taken == squatted \cup {port[p] : p \in {q \in Pid : stage[q] \in Bound}}

(* A ping that is answered: the socket file leads to a daemon that listens. *)
Answers == socketFile \in {p \in Pid : stage[p] = "serving"}

(* readDaemonPid and isProcessRunning. *)
PidIsRunning == pidFile \in {p \in Pid : Alive(p)}

-----------------------------------------------------------------------------
(* The daemon. *)

Become(p, next) == stage' = [stage EXCEPT ![p] = next]

(* Mutant of ChoosePort: any free port will do. *)
ChoosePort_Any(p) ==
    /\ stage[p] = "booting"
    /\ \E n \in Port \ Taken : port' = [port EXCEPT ![p] = n]
    /\ Become(p, "probed")
    /\ UNCHANGED <<version, files, held, squatted, shell, own, orderly, counts>>

(* findPreferredPort: the port of the last daemon if it can be bound now, *)
(* any free one otherwise.  The probe closes before the proxy binds.      *)
ChoosePort(p) ==
    /\ stage[p] = "booting"
    /\ \E n \in Port \ Taken :
          /\ preferredFile \in Port \ Taken => n = preferredFile
          /\ port' = [port EXCEPT ![p] = n]
    /\ Become(p, "probed")
    /\ UNCHANGED <<version, files, held, squatted, shell, own, orderly, counts>>

(* createProxy: a port taken meanwhile ends the process. *)
BindProxy(p) ==
    /\ stage[p] = "probed"
    /\ Become(p, IF port[p] \in Taken THEN "dead" ELSE "bound")
    /\ UNCHANGED <<version, port, files, held, squatted, shell, own, orderly, counts>>

WritePort(p) ==
    /\ stage[p] = "bound"
    /\ portFile' = port[p]
    /\ Become(p, "ported")
    /\ UNCHANGED <<version, port, pidFile, preferredFile, socketFile, held, squatted,
                   shell, own, orderly, counts>>

WritePid(p) ==
    /\ stage[p] = "ported"
    /\ pidFile' = p
    /\ preferredFile' = port[p]
    /\ Become(p, "named")
    /\ UNCHANGED <<version, port, portFile, socketFile, held, squatted,
                   shell, own, orderly, counts>>

(* createControlServer takes the path from whoever had it; from here on   *)
(* signals shut the daemon down in order.                                  *)
Listen(p) ==
    /\ stage[p] = "named"
    /\ socketFile' = p
    /\ Become(p, "serving")
    /\ UNCHANGED <<version, port, pidFile, portFile, preferredFile, held, squatted,
                   shell, own, orderly, counts>>

(* What a signal does to a daemon: it dies where no handler is installed; *)
(* a second shutdown fails at the server that is closed already, exit 1.   *)
Terminate(p) ==
    /\ Become(p, IF stage[p] = "serving" THEN "closing" ELSE "crashed")
    /\ socketFile' = IF stage[p] = "serving" THEN None ELSE socketFile

(* controlServer.close() waits for the connections that are open, and     *)
(* removes whatever is at the path.                                        *)
ControlClosed(p) ==
    /\ stage[p] = "closing"
    /\ held # p
    /\ socketFile' = None
    /\ Become(p, "unlistened")
    /\ UNCHANGED <<version, port, pidFile, portFile, preferredFile, held, squatted,
                   shell, own, orderly, counts>>

(* The rest of shutdown, once the proxy has stopped. *)
Finish(p) ==
    /\ stage[p] = "unlistened"
    /\ pidFile' = None
    /\ portFile' = None
    /\ Become(p, "dead")
    /\ UNCHANGED <<version, port, preferredFile, socketFile, held, squatted,
                   shell, own, orderly, counts>>

-----------------------------------------------------------------------------
(* Commands. *)

Goto(s, where) == pc' = [pc EXCEPT ![s] = where]
End(s, how) ==
    /\ Goto(s, "idle")
    /\ outcome' = [outcome EXCEPT ![s] = how]

UnchangedByShell == UNCHANGED <<release, version, port, preferredFile, held, squatted, own, orderly, counts>>

(* A command is typed.  "keep" is httap on --no-restart, and "start" what *)
(* restart does when it finds no daemon.                                   *)
Begin(s, c, r) ==
    /\ pc[s] = "idle" /\ commands < MaxCommands
    /\ commands' = commands + 1
    /\ cmd' = [cmd EXCEPT ![s] = c]
    /\ release' = [release EXCEPT ![s] = r]
    /\ outcome' = [outcome EXCEPT ![s] = "none"]
    /\ target' = [target EXCEPT ![s] = None]
    /\ seen' = [seen EXCEPT ![s] = None]
    /\ Goto(s, "check")
    /\ orderly' = (/\ orderly
                   /\ \A t \in Shell : pc[t] = "idle"
                   /\ \A p \in Pid : Alive(p) => stage[p] = "serving")
    /\ UNCHANGED <<daemon, files, held, squatted, env, own, mishaps>>

(* isDaemonRunning says no. *)
NotRunning(s) ==
    CASE cmd[s] = "stop" -> End(s, "ok") /\ cmd' = cmd
      [] cmd[s] = "restart" -> Goto(s, "check") /\ cmd' = [cmd EXCEPT ![s] = "start"] /\ outcome' = outcome
      [] OTHER -> Goto(s, "spawn") /\ UNCHANGED <<cmd, outcome>>

Check(s) ==
    /\ pc[s] = "check"
    /\ IF PidIsRunning THEN Goto(s, "ping") /\ UNCHANGED <<cmd, outcome>> ELSE NotRunning(s)
    /\ UNCHANGED <<stage, pidFile, portFile, socketFile, target, seen, env>> /\ UnchangedByShell

Ping(s) ==
    /\ pc[s] = "ping"
    /\ IF Answers
       THEN Goto(s, IF cmd[s] \in {"stop", "restart"} THEN "signal" ELSE "version") /\ UNCHANGED <<cmd, outcome>>
       ELSE NotRunning(s)
    /\ UNCHANGED <<stage, pidFile, portFile, socketFile, target, seen, env>> /\ UnchangedByShell

(* getDaemonVersion: a daemon of another version is restarted. *)
CompareVersions(s) ==
    /\ pc[s] = "version"
    /\ Goto(s, IF Answers /\ PidIsRunning /\ version[socketFile] # release[s] /\ cmd[s] # "keep"
               THEN "signal" ELSE "read")
    /\ UNCHANGED <<stage, pidFile, portFile, socketFile, cmd, target, seen, outcome, env>> /\ UnchangedByShell

(* startDaemon has its port: on and keep go on to register a session. *)
Started(s, n) ==
    /\ seen' = [seen EXCEPT ![s] = n]
    /\ IF cmd[s] \in {"on", "keep"} THEN Goto(s, "register") /\ outcome' = outcome ELSE End(s, "ok")

ReadPort(s) ==
    /\ pc[s] = "read"
    /\ IF portFile = None
       THEN End(s, "failed") /\ seen' = seen
       ELSE Started(s, portFile)
    /\ UNCHANGED <<stage, pidFile, portFile, socketFile, cmd, target, env>> /\ UnchangedByShell

(* Mutant of CleanUp: the port is kept. *)
CleanUp_KeepsPort == pidFile' = None /\ portFile' = portFile /\ socketFile' = None

(* cleanupDaemonFiles, and what follows stopDaemon. *)
CleanUp == pidFile' = None /\ portFile' = None /\ socketFile' = None
AfterStop(s) == IF cmd[s] = "stop" THEN End(s, "ok") ELSE Goto(s, "spawn") /\ outcome' = outcome

(* stopDaemon. *)
SignalDaemon(s) ==
    /\ pc[s] = "signal"
    /\ IF PidIsRunning
       THEN /\ Terminate(pidFile)
            /\ target' = [target EXCEPT ![s] = pidFile]
            /\ Goto(s, "stopping")
            /\ UNCHANGED <<pidFile, portFile, outcome>>
       ELSE /\ IF pidFile = None THEN UNCHANGED <<pidFile, portFile, socketFile>> ELSE CleanUp
            /\ AfterStop(s)
            /\ UNCHANGED <<stage, target>>
    /\ UNCHANGED <<cmd, seen, env>> /\ UnchangedByShell

(* Mutants of Stopped: it waits for ever; the patience ends and nothing is *)
(* done about it.                                                          *)
Stopped_Waits(s) ==
    /\ pc[s] = "stopping"
    /\ ~ Alive(target[s])
    /\ CleanUp
    /\ AfterStop(s)
    /\ UNCHANGED <<stage, cmd, target, seen, env>> /\ UnchangedByShell

Stopped_NoKill(s) ==
    /\ pc[s] = "stopping"
    /\ CleanUp
    /\ AfterStop(s)
    /\ UNCHANGED <<stage, cmd, target, seen, env>> /\ UnchangedByShell

(* waitForDaemonStop: the process is gone, or is killed after five seconds. *)
Stopped(s) ==
    /\ pc[s] = "stopping"
    /\ Become(target[s], "dead")
    /\ CleanUp
    /\ AfterStop(s)
    /\ UNCHANGED <<cmd, target, seen, env>> /\ UnchangedByShell

(* The new process has a pid of its own; which one does not matter. *)
Unborn == {p \in Pid : stage[p] = "unborn"}
NextPid == CHOOSE p \in Unborn : TRUE

(* spawnDaemon. *)
Spawn(s) ==
    /\ pc[s] = "spawn"
    /\ Unborn # {}
    /\ Become(NextPid, "booting")
    /\ version' = [version EXCEPT ![NextPid] = release[s]]
    /\ Goto(s, "wait")
    /\ UNCHANGED <<port, files, held, squatted, cmd, release, target, seen, outcome, env, own, orderly, counts>>

(* waitForDaemon: reads the port, asks for an answer, and gives up after   *)
(* ten seconds.                                                            *)
WaitReads(s) ==
    /\ pc[s] = "wait"
    /\ portFile # None
    /\ seen' = [seen EXCEPT ![s] = portFile]
    /\ Goto(s, "ask")
    /\ UNCHANGED <<stage, pidFile, portFile, socketFile, cmd, target, outcome, env>> /\ UnchangedByShell

WaitAsks(s) ==
    /\ pc[s] = "ask"
    /\ IF Answers THEN Started(s, seen[s]) ELSE Goto(s, "wait") /\ UNCHANGED <<seen, outcome>>
    /\ UNCHANGED <<stage, pidFile, portFile, socketFile, cmd, target, env>> /\ UnchangedByShell

WaitTimesOut(s) ==
    /\ pc[s] = "wait"
    /\ End(s, "failed")
    /\ UNCHANGED <<stage, pidFile, portFile, socketFile, cmd, target, seen, env>> /\ UnchangedByShell

(* Mutant of Exported: the value is saved each time. *)
Exported_SavesAgain(e, n) ==
    [proxy |-> n, saved |-> e.options, options |-> Append(e.options, "preload")]

(* formatNodeOptionsExport and its like: the user's value is saved once. *)
Exported(e, n) ==
    LET value == IF e.saved = None THEN e.options ELSE e.saved
    IN  [proxy |-> n, saved |-> value, options |-> Append(value, "preload")]

(* on registers a session and has its output evaluated. *)
Register(s) ==
    /\ pc[s] = "register"
    /\ IF Answers
       THEN End(s, "ok") /\ env' = [env EXCEPT ![s] = Exported(@, seen[s])]
       ELSE End(s, "failed") /\ env' = env
    /\ UNCHANGED <<stage, pidFile, portFile, socketFile, cmd, target, seen>> /\ UnchangedByShell

(* off: formatNodeOptionsRestore and its like, and the variables unset. *)
Off(s) ==
    /\ pc[s] = "idle"
    /\ env[s].proxy # None
    /\ env' = [env EXCEPT ![s] =
                  [proxy |-> None, saved |-> None, options |-> IF @.saved = None THEN <<>> ELSE @.saved]]
    /\ UNCHANGED <<daemon, files, held, squatted, cmd, pc, release, target, seen, outcome, own, orderly, counts>>

-----------------------------------------------------------------------------
(* The surroundings: a terminal UI comes and goes, a daemon dies, someone  *)
(* signals one by hand, another program takes a free port.                 *)

Attach ==
    /\ held = None /\ Answers
    /\ held' = socketFile
    /\ UNCHANGED <<daemon, files, squatted, shell, own, orderly, counts>>

Detach ==
    /\ held # None
    /\ held' = None
    /\ UNCHANGED <<daemon, files, squatted, shell, own, orderly, counts>>

Mishap ==
    /\ mishaps < MaxMishaps
    /\ mishaps' = mishaps + 1

Crash(p) ==
    /\ Mishap
    /\ Alive(p)
    /\ Become(p, "crashed")
    /\ UNCHANGED <<version, port, files, held, squatted, shell, own, orderly, commands>>

SignalByHand(p) ==
    /\ Mishap
    /\ Alive(p)
    /\ Terminate(p)
    /\ orderly' = (orderly /\ \A s \in Shell : pc[s] = "idle")
    /\ UNCHANGED <<version, port, pidFile, portFile, preferredFile, held, squatted,
                   shell, own, commands>>

Squat(n) ==
    /\ Mishap
    /\ n \in Port \ Taken
    /\ squatted' = squatted \cup {n}
    /\ UNCHANGED <<daemon, files, held, shell, own, orderly, commands>>

-----------------------------------------------------------------------------
Init ==
    /\ stage = [p \in Pid |-> "unborn"]
    /\ version = [p \in Pid |-> None] /\ port = [p \in Pid |-> None]
    /\ pidFile = None /\ portFile = None /\ preferredFile = None /\ socketFile = None
    /\ held = None /\ squatted = {}
    /\ cmd = [s \in Shell |-> "none"] /\ pc = [s \in Shell |-> "idle"]
    /\ release \in [Shell -> Release]
    /\ target = [s \in Shell |-> None] /\ seen = [s \in Shell |-> None]
    /\ outcome = [s \in Shell |-> "none"]
    /\ own \in [Shell -> {<<>>, <<"own">>}]
    /\ env = [s \in Shell |-> [proxy |-> None, saved |-> None, options |-> own[s]]]
    /\ orderly = TRUE
    /\ commands = 0 /\ mishaps = 0

DaemonStep(p) ==
    ChoosePort(p) \/ BindProxy(p) \/ WritePort(p) \/ WritePid(p) \/ Listen(p) \/ ControlClosed(p) \/ Finish(p)

CommandStep(s) ==
    \/ Check(s) \/ Ping(s) \/ CompareVersions(s) \/ ReadPort(s)
    \/ SignalDaemon(s) \/ Stopped(s)
    \/ Spawn(s) \/ WaitReads(s) \/ WaitAsks(s)
    \/ Register(s)

Next ==
    \/ \E p \in Pid : DaemonStep(p) \/ Crash(p) \/ SignalByHand(p)
    \/ \E s \in Shell : CommandStep(s) \/ WaitTimesOut(s) \/ Off(s)
    \/ \E s \in Shell, c \in {"on", "keep", "stop", "restart"}, r \in Release : Begin(s, c, r)
    \/ Attach \/ Detach
    \/ \E n \in Port : Squat(n)

(* Processes run; a wait of ten seconds ends. *)
Fairness ==
    /\ \A p \in Pid : WF_vars(DaemonStep(p))
    /\ \A s \in Shell : WF_vars(CommandStep(s)) /\ SF_vars(WaitTimesOut(s))

Spec == Init /\ [][Next]_vars /\ Fairness

-----------------------------------------------------------------------------
(* Properties. *)

(* The shape of the state. *)
TypeOK ==
    /\ stage \in [Pid -> {"unborn", "booting", "probed", "dead", "crashed"} \cup Bound]
    /\ version \in [Pid -> Release \cup {None}]
    /\ port \in [Pid -> Port \cup {None}]
    /\ {pidFile, socketFile, held} \subseteq Pid \cup {None}
    /\ {portFile, preferredFile} \subseteq Port \cup {None}
    /\ squatted \subseteq Port
    /\ cmd \in [Shell -> {"none", "on", "keep", "start", "stop", "restart"}]
    /\ pc \in [Shell -> {"idle", "check", "ping", "version", "read", "signal", "stopping",
                         "spawn", "wait", "ask", "register"}]
    /\ release \in [Shell -> Release]
    /\ target \in [Shell -> Pid \cup {None}]
    /\ seen \in [Shell -> Port \cup {None}]
    /\ outcome \in [Shell -> {"none", "ok", "failed"}]
    /\ orderly \in BOOLEAN

(* As long as no command is typed while another, or a daemon, is on its    *)
(* way: there is one daemon at most, the port it bound is its own, and the *)
(* files lead to the one that serves; a daemon that crashed may leave its  *)
(* notes behind, and they do not keep the next one from starting.          *)
OneDaemon ==
    orderly =>
        /\ Cardinality({p \in Pid : Alive(p)}) <= 1
        /\ \A p \in Pid : stage[p] = "serving" =>
              pidFile = p /\ socketFile = p /\ {portFile, preferredFile} = {port[p]}

DaemonInv == TypeOK /\ OneDaemon

(* The port that a start returns is the port of the daemon that answered   *)
(* it, whichever way the command went, or one that a daemon which crashed  *)
(* left in the file.                                                       *)
StartedPortIsLive ==
    [][\A s \in Shell :
          /\ pc[s] # "idle" /\ pc'[s] = "idle" /\ outcome'[s] = "ok" /\ cmd[s] # "stop"
          /\ orderly
          => \E p \in Pid : stage[p] \in Bound \cup {"crashed"} /\ port[p] = seen'[s]]_vars

(* The proxy of a shell outlives restarts: every later daemon binds the    *)
(* same port, unless another program has taken it, or the shell was given  *)
(* the port of a daemon that crashed.                                      *)
ShellsKeepWorking ==
    orderly /\ squatted = {} =>
        \A s \in Shell, p \in Pid :
            /\ env[s].proxy # None
            /\ stage[p] = "serving"
            => \/ env[s].proxy = port[p]
               \/ \E q \in Pid : stage[q] = "crashed" /\ port[q] = env[s].proxy

(* A shell that is off has the options its user gave it, however often on  *)
(* was evaluated before.                                                   *)
OffRestores == \A s \in Shell : env[s].proxy = None => env[s].options = own[s]

(* Every command ends, whatever becomes of the daemon it deals with.       *)
CommandsEnd == \A s \in Shell : pc[s] # "idle" ~> pc[s] = "idle"

=============================================================================
