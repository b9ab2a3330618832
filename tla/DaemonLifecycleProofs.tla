-------------------------- MODULE DaemonLifecycleProofs --------------------------
(***************************************************************************)
(* Proofs about daemons that come and go, for any number of processes,     *)
(* shells, ports and versions and however many commands, crashes, signals  *)
(* and other programs.  LifeInd is inductive: what holds of commands that  *)
(* are typed one at a time, while nothing is on its way, is that each of   *)
(* them is in step with the one daemon there is, that its notes lead to it *)
(* and that the ports that were handed out are its own or a dead one's.    *)
(***************************************************************************)
EXTENDS DaemonLifecycle, FiniteSetTheorems, TLAPS

(* At most one command runs at a time, and at most one daemon is alive.    *)
OneCommand == \A s, t \in Shell : pc[s] # "idle" /\ pc[t] # "idle" => s = t

OneAlive == \A p, q \in Pid : Alive(p) /\ Alive(q) => p = q

(* Where a command may be while a daemon lives, and in which stage of it.  *)
InStep ==
    \A s \in Shell, p \in Pid : Alive(p) =>
        /\ pc[s] \in {"check", "ping", "version", "read", "signal", "register"}
              => stage[p] = "serving"
        /\ pc[s] = "stopping" => p = target[s] /\ stage[p] \in {"closing", "unlistened"}
        /\ pc[s] # "spawn"
        /\ pc[s] \in {"wait", "ask"} => stage[p] \notin {"closing", "unlistened"}

(* The notes that a daemon has written so far are its own.                 *)
Notes ==
    \A p \in Pid :
        /\ stage[p] \in {"ported", "named", "serving"} => portFile = port[p]
        /\ stage[p] \in {"named", "serving"} => pidFile = p /\ preferredFile = port[p]
        /\ stage[p] = "serving" => socketFile = p

(* The port of a daemon that has it, or had it when it crashed.            *)
Left(n) == \E p \in Pid : stage[p] \in Bound \cup {"crashed"} /\ port[p] = n

PortsAreLeft ==
    /\ portFile # None => Left(portFile)
    /\ \A s \in Shell : pc[s] \in {"ask", "register"} => Left(seen[s])

(* The daemon that a command stops has written down its port.              *)
TargetKept ==
    \A s \in Shell : pc[s] = "stopping" => target[s] \in Pid /\ port[target[s]] = preferredFile

(* The port of a shell is the one the next daemon prefers, or was left by  *)
(* a daemon that crashed.                                                  *)
Preferred(n) == n = preferredFile \/ \E q \in Pid : stage[q] = "crashed" /\ port[q] = n

PortKept ==
    squatted = {} =>
        /\ \A p \in Pid : stage[p] \in {"probed", "bound", "ported"} /\ preferredFile # None
              => port[p] = preferredFile
        /\ \A s \in Shell : env[s].proxy # None => Preferred(env[s].proxy)

Order == OneCommand /\ OneAlive /\ InStep /\ Notes /\ PortsAreLeft /\ TargetKept /\ PortKept

(* What on and off have made of the variables of the shells.               *)
EnvInd ==
    /\ own \in [Shell -> {<<>>, <<"own">>}]
    /\ DOMAIN env = Shell
    /\ \A s \in Shell :
          /\ DOMAIN env[s] = {"proxy", "saved", "options"}
          /\ env[s].proxy = None => env[s].saved = None /\ env[s].options = own[s]
          /\ env[s].proxy # None => env[s].saved = own[s]
          /\ pc[s] \in {"ask", "register"} => seen[s] # None

LifeInd == TypeOK /\ EnvInd /\ (orderly => Order)

-----------------------------------------------------------------------------
(* The daemon's steps. *)

(* With no other daemon alive the preferred port is free, but for others. *)
LEMMA ChoosePortOrderly ==
    ASSUME TypeOK, Order, NEW p \in Pid, ChoosePort(p)
    PROVE  Order'
<1>1. OneCommand'
  BY DEF Order, OneCommand, ChoosePort, shell
<1>2. OneAlive'
  BY DEF Order, OneAlive, TypeOK, ChoosePort, Alive, Become
<1>3. InStep'
  BY DEF Order, InStep, TypeOK, ChoosePort, Alive, shell, Become
<1>4. Notes'
  BY DEF Order, OneAlive, Notes, TypeOK, ChoosePort, Alive, files, Become
<1>5. PortsAreLeft'
  BY DEF Order, PortsAreLeft, Left, TypeOK, ChoosePort, Bound, files, shell, Become
<1>6. TargetKept'
  BY DEF Order, InStep, TargetKept, ChoosePort, Alive, shell, daemon
<1>7. PortKept'
  <2>1. ASSUME squatted = {} PROVE preferredFile # None => port'[p] = preferredFile
    <3>1. Taken = {}
      BY <2>1 DEF Order, OneAlive, ChoosePort, Taken, Alive, Bound
    <3> QED BY <3>1, LifecycleAssumption DEF ChoosePort, TypeOK
  <2> QED BY <2>1 DEF Order, OneAlive, PortKept, Preferred, TypeOK, ChoosePort, Alive, Bound, Become, files, shell
<1> QED BY <1>1, <1>2, <1>3, <1>4, <1>5, <1>6, <1>7 DEF Order

(* The port is bound, or the process ends. *)
LEMMA BindProxyOrderly ==
    ASSUME TypeOK, Order, NEW p \in Pid, BindProxy(p)
    PROVE  Order'
<1>1. OneCommand'
  BY DEF Order, OneCommand, BindProxy, shell
<1>2. OneAlive'
  BY DEF Order, OneAlive, TypeOK, BindProxy, Alive, Become
<1>3. InStep'
  BY DEF Order, InStep, TypeOK, BindProxy, Alive, shell, Become
<1>4. Notes'
  BY DEF Order, OneAlive, Notes, TypeOK, BindProxy, Alive, files, Become
<1>5. PortsAreLeft'
  BY DEF Order, PortsAreLeft, Left, TypeOK, BindProxy, Bound, files, shell, Become
<1>6. TargetKept'
  BY DEF Order, TargetKept, BindProxy, files, shell, daemon
<1>7. PortKept'
  BY DEF Order, PortKept, Preferred, TypeOK, BindProxy, Alive, Bound, files, shell, Become
<1> QED BY <1>1, <1>2, <1>3, <1>4, <1>5, <1>6, <1>7 DEF Order

(* The port file is the daemon's own. *)
LEMMA WritePortOrderly ==
    ASSUME TypeOK, Order, NEW p \in Pid, WritePort(p)
    PROVE  Order'
<1>1. OneCommand'
  BY DEF Order, OneCommand, WritePort, shell
<1>2. OneAlive'
  BY DEF Order, OneAlive, TypeOK, WritePort, Alive, Become
<1>3. InStep'
  BY DEF Order, InStep, TypeOK, WritePort, Alive, shell, Become
<1>4. Notes'
  BY DEF Order, OneAlive, Notes, TypeOK, WritePort, Alive, files, Become
<1>5. PortsAreLeft'
  BY DEF Order, PortsAreLeft, Left, TypeOK, WritePort, Bound, files, shell, Become
<1>6. TargetKept'
  BY DEF Order, TargetKept, WritePort, shell, daemon
<1>7. PortKept'
  BY DEF Order, PortKept, Preferred, TypeOK, WritePort, Alive, Bound, files, shell, Become
<1> QED BY <1>1, <1>2, <1>3, <1>4, <1>5, <1>6, <1>7 DEF Order

(* The pid file and the preferred port are the daemon's own. *)
LEMMA WritePidOrderly ==
    ASSUME TypeOK, Order, NEW p \in Pid, WritePid(p)
    PROVE  Order'
<1>1. OneCommand'
  BY DEF Order, OneCommand, WritePid, shell
<1>2. OneAlive'
  BY DEF Order, OneAlive, TypeOK, WritePid, Alive, Become
<1>3. InStep'
  BY DEF Order, InStep, TypeOK, WritePid, Alive, shell, Become
<1>4. Notes'
  BY DEF Order, OneAlive, Notes, TypeOK, WritePid, Alive, files, Become
<1>5. PortsAreLeft'
  BY DEF Order, PortsAreLeft, Left, TypeOK, WritePid, Bound, files, shell, Become
<1>6. TargetKept'
  BY DEF Order, InStep, TargetKept, WritePid, Alive, shell, daemon
<1>7. PortKept'
  BY DEF Order, OneAlive, PortKept, Preferred, TypeOK, WritePid, Alive, Bound, files, shell, Become
<1> QED BY <1>1, <1>2, <1>3, <1>4, <1>5, <1>6, <1>7 DEF Order

(* The socket is the daemon's own. *)
LEMMA ListenOrderly ==
    ASSUME TypeOK, Order, NEW p \in Pid, Listen(p)
    PROVE  Order'
<1>1. OneCommand'
  BY DEF Order, OneCommand, Listen, shell
<1>2. OneAlive'
  BY DEF Order, OneAlive, TypeOK, Listen, Alive, Become
<1>3. InStep'
  BY DEF Order, InStep, TypeOK, Listen, Alive, shell, Become
<1>4. Notes'
  BY DEF Order, OneAlive, Notes, TypeOK, Listen, Alive, files, Become
<1>5. PortsAreLeft'
  BY DEF Order, PortsAreLeft, Left, TypeOK, Listen, Bound, files, shell, Become
<1>6. TargetKept'
  BY DEF Order, TargetKept, Listen, shell, daemon
<1>7. PortKept'
  BY DEF Order, PortKept, Preferred, TypeOK, Listen, Alive, Bound, files, shell, Become
<1> QED BY <1>1, <1>2, <1>3, <1>4, <1>5, <1>6, <1>7 DEF Order

(* The socket is closed. *)
LEMMA ControlClosedOrderly ==
    ASSUME TypeOK, Order, NEW p \in Pid, ControlClosed(p)
    PROVE  Order'
<1>1. OneCommand'
  BY DEF Order, OneCommand, ControlClosed, shell
<1>2. OneAlive'
  BY DEF Order, OneAlive, TypeOK, ControlClosed, Alive, Become
<1>3. InStep'
  BY DEF Order, InStep, TypeOK, ControlClosed, Alive, shell, Become
<1>4. Notes'
  BY DEF Order, OneAlive, Notes, TypeOK, ControlClosed, Alive, files, Become
<1>5. PortsAreLeft'
  BY DEF Order, PortsAreLeft, Left, TypeOK, ControlClosed, Bound, files, shell, Become
<1>6. TargetKept'
  BY DEF Order, TargetKept, ControlClosed, shell, daemon
<1>7. PortKept'
  BY DEF Order, PortKept, Preferred, TypeOK, ControlClosed, Alive, Bound, files, shell, Become
<1> QED BY <1>1, <1>2, <1>3, <1>4, <1>5, <1>6, <1>7 DEF Order

(* The notes are gone with the daemon. *)
LEMMA FinishOrderly ==
    ASSUME TypeOK, Order, NEW p \in Pid, Finish(p)
    PROVE  Order'
<1>1. OneCommand'
  BY DEF Order, OneCommand, Finish, shell
<1>2. OneAlive'
  BY DEF Order, OneAlive, TypeOK, Finish, Alive, Become
<1>3. InStep'
  BY DEF Order, InStep, TypeOK, Finish, Alive, shell, Become
<1>4. Notes'
  BY DEF Order, OneAlive, Notes, TypeOK, Finish, Alive, files, Become
<1>5. PortsAreLeft'
  BY DEF Order, InStep, PortsAreLeft, Left, TypeOK, Finish, Alive, Bound, files, shell, Become
<1>6. TargetKept'
  BY DEF Order, TargetKept, Finish, shell, daemon
<1>7. PortKept'
  BY DEF Order, PortKept, Preferred, TypeOK, Finish, Alive, Bound, files, shell, Become
<1> QED BY <1>1, <1>2, <1>3, <1>4, <1>5, <1>6, <1>7 DEF Order

(* A daemon that crashes leaves its notes behind. *)
LEMMA CrashOrderly ==
    ASSUME TypeOK, Order, NEW p \in Pid, Crash(p)
    PROVE  Order'
<1>1. OneCommand'
  BY DEF Order, OneCommand, Crash, shell
<1>2. OneAlive'
  BY DEF Order, OneAlive, TypeOK, Crash, Alive, Become
<1>3. InStep'
  BY DEF Order, InStep, TypeOK, Crash, Alive, shell, Become
<1>4. Notes'
  BY DEF Order, OneAlive, Notes, TypeOK, Crash, Alive, files, Become
<1>5. PortsAreLeft'
  BY DEF Order, PortsAreLeft, Left, TypeOK, Crash, Bound, files, shell, Become
<1>6. TargetKept'
  BY DEF Order, TargetKept, Crash, files, shell, daemon
<1>7. PortKept'
  BY DEF Order, PortKept, Preferred, TypeOK, Crash, Alive, Bound, files, shell, Become
<1> QED BY <1>1, <1>2, <1>3, <1>4, <1>5, <1>6, <1>7 DEF Order

(* A signal by hand is orderly only while no command is on its way. *)
LEMMA SignalByHandOrderly ==
    ASSUME TypeOK, Order, NEW p \in Pid, SignalByHand(p), orderly'
    PROVE  Order'
<1>1. OneCommand'
  BY DEF Order, OneCommand, SignalByHand, shell
<1>2. OneAlive'
  BY LifecycleAssumption DEF Order, OneAlive, InStep, Notes, TypeOK, SignalByHand, Alive, Bound, files, shell, daemon, Become, Terminate, Mishap
<1>3. InStep'
  BY DEF Order, InStep, TypeOK, SignalByHand, Alive, shell, Become, Terminate
<1>4. Notes'
  BY DEF Order, OneAlive, Notes, TypeOK, SignalByHand, Alive, files, Become, Terminate
<1>5. PortsAreLeft'
  BY DEF Order, PortsAreLeft, Left, TypeOK, SignalByHand, Bound, files, shell, Become, Terminate
<1>6. TargetKept'
  BY DEF Order, TargetKept, SignalByHand, shell, daemon
<1>7. PortKept'
  BY DEF Order, InStep, Notes, PortKept, Preferred, TypeOK, SignalByHand, Alive, Bound, files, shell, Become, Terminate, Mishap
<1> QED BY <1>1, <1>2, <1>3, <1>4, <1>5, <1>6, <1>7 DEF Order

-----------------------------------------------------------------------------
(* The steps of commands. *)

(* No daemon is alive unless the pid file leads to it. *)
LEMMA CheckOrderly ==
    ASSUME TypeOK, Order, NEW s \in Shell, Check(s)
    PROVE  Order'
<1>1. OneCommand'
  BY DEF Order, OneCommand, TypeOK, Check, Goto, End, NotRunning, PidIsRunning
<1>2. OneAlive'
  BY DEF Order, OneAlive, Check, Alive
<1>3. InStep'
  BY DEF Order, InStep, Notes, TypeOK, Check, Alive, Become, Goto, End, NotRunning, PidIsRunning
<1>4. Notes'
  BY DEF Order, Notes, Check, Alive, files, daemon, UnchangedByShell
<1>5. PortsAreLeft'
  BY DEF Order, PortsAreLeft, Left, TypeOK, Check, files, shell, Become, Goto, End, UnchangedByShell, NotRunning
<1>6. TargetKept'
  BY DEF Order, TargetKept, TypeOK, Check, Goto, End, UnchangedByShell, NotRunning, PidIsRunning
<1>7. PortKept'
  BY DEF Order, PortKept, Preferred, Check, Become, UnchangedByShell, PidIsRunning
<1> QED BY <1>1, <1>2, <1>3, <1>4, <1>5, <1>6, <1>7 DEF Order

(* No daemon is alive unless it answers. *)
LEMMA PingOrderly ==
    ASSUME TypeOK, Order, NEW s \in Shell, Ping(s)
    PROVE  Order'
<1>1. OneCommand'
  BY DEF Order, OneCommand, TypeOK, Ping, Goto, End, NotRunning, Answers
<1>2. OneAlive'
  BY DEF Order, OneAlive, Ping, Alive
<1>3. InStep'
  BY DEF Order, InStep, Notes, TypeOK, Ping, Alive, Become, Goto, End, NotRunning, Answers
<1>4. Notes'
  BY DEF Order, Notes, Ping, Alive, files, daemon, UnchangedByShell
<1>5. PortsAreLeft'
  BY DEF Order, PortsAreLeft, Left, TypeOK, Ping, files, shell, Become, Goto, End, UnchangedByShell, NotRunning
<1>6. TargetKept'
  BY DEF Order, TargetKept, TypeOK, Ping, Goto, End, UnchangedByShell, NotRunning, Answers
<1>7. PortKept'
  BY DEF Order, PortKept, Preferred, Ping, Become, UnchangedByShell, Answers
<1> QED BY <1>1, <1>2, <1>3, <1>4, <1>5, <1>6, <1>7 DEF Order

(* Whichever way it goes, a daemon that is alive serves. *)
LEMMA CompareVersionsOrderly ==
    ASSUME TypeOK, Order, NEW s \in Shell, CompareVersions(s)
    PROVE  Order'
<1>1. OneCommand'
  BY DEF Order, OneCommand, CompareVersions, Goto, End
<1>2. OneAlive'
  BY DEF Order, OneAlive, CompareVersions, Alive
<1>3. InStep'
  BY DEF Order, InStep, TypeOK, CompareVersions, Alive, Become, Goto, End
<1>4. Notes'
  BY DEF Order, Notes, CompareVersions, Alive, files, daemon, UnchangedByShell
<1>5. PortsAreLeft'
  BY DEF Order, PortsAreLeft, Left, CompareVersions, files, shell, Become, Goto, End, UnchangedByShell
<1>6. TargetKept'
  BY DEF Order, TargetKept, TypeOK, CompareVersions, Goto, End, UnchangedByShell
<1>7. PortKept'
  BY DEF Order, PortKept, Preferred, CompareVersions, Become, UnchangedByShell
<1> QED BY <1>1, <1>2, <1>3, <1>4, <1>5, <1>6, <1>7 DEF Order

(* The port that is read was left by a daemon. *)
LEMMA ReadPortOrderly ==
    ASSUME TypeOK, Order, NEW s \in Shell, ReadPort(s)
    PROVE  Order'
<1>1. OneCommand'
  BY DEF Order, OneCommand, TypeOK, ReadPort, Goto, End, Started
<1>2. OneAlive'
  BY DEF Order, OneAlive, ReadPort, Alive
<1>3. InStep'
  BY DEF Order, InStep, TypeOK, ReadPort, Alive, Become, Goto, End, Started
<1>4. Notes'
  BY DEF Order, Notes, ReadPort, Alive, files, daemon, UnchangedByShell
<1>5. PortsAreLeft'
  BY DEF Order, PortsAreLeft, Left, TypeOK, ReadPort, files, shell, Become, Goto, End, UnchangedByShell, Started
<1>6. TargetKept'
  BY DEF Order, TargetKept, TypeOK, ReadPort, Goto, End, UnchangedByShell, Started
<1>7. PortKept'
  BY DEF Order, PortKept, Preferred, ReadPort, Become, UnchangedByShell
<1> QED BY <1>1, <1>2, <1>3, <1>4, <1>5, <1>6, <1>7 DEF Order

(* Only the daemon that serves is there to be signalled. *)
LEMMA SignalDaemonOrderly ==
    ASSUME TypeOK, Order, NEW s \in Shell, SignalDaemon(s)
    PROVE  Order'
<1>1. OneCommand'
  BY DEF Order, OneCommand, TypeOK, SignalDaemon, Goto, End, AfterStop, PidIsRunning, CleanUp
<1>2. OneAlive'
  BY LifecycleAssumption DEF Order, OneAlive, InStep, Notes, TypeOK, SignalDaemon, Alive, Bound, files, shell, Become, Goto, End, AfterStop, CleanUp, Terminate
<1>3. InStep'
  BY DEF Order, OneCommand, InStep, Notes, TypeOK, SignalDaemon, Alive, Become, Goto, End, AfterStop, PidIsRunning, CleanUp, Terminate
<1>4. Notes'
  BY LifecycleAssumption DEF Order, InStep, Notes, TypeOK, SignalDaemon, Alive, Bound, files, shell, daemon, Become, Goto, End, UnchangedByShell, AfterStop, PidIsRunning, CleanUp, Terminate
<1>5. PortsAreLeft'
  BY DEF Order, PortsAreLeft, Left, TypeOK, SignalDaemon, Bound, files, shell, Become, Goto, End, UnchangedByShell, AfterStop, CleanUp, Terminate
<1>6. TargetKept'
  BY LifecycleAssumption DEF Order, OneAlive, InStep, Notes, TargetKept, TypeOK, SignalDaemon, Bound, Goto, End, UnchangedByShell, AfterStop, PidIsRunning
<1>7. PortKept'
  BY DEF Order, PortKept, Preferred, TypeOK, SignalDaemon, Become, UnchangedByShell, AfterStop, PidIsRunning, CleanUp, Terminate
<1> QED BY <1>1, <1>2, <1>3, <1>4, <1>5, <1>6, <1>7 DEF Order

(* The daemon is gone, and its notes with it. *)
LEMMA StoppedOrderly ==
    ASSUME TypeOK, Order, NEW s \in Shell, Stopped(s)
    PROVE  Order'
<1>1. OneCommand'
  BY DEF Order, OneCommand, TypeOK, Stopped, Goto, End, AfterStop, CleanUp
<1>2. OneAlive'
  BY DEF Order, OneAlive, Stopped, Alive, Become, AfterStop, CleanUp
<1>3. InStep'
  BY DEF Order, InStep, TypeOK, Stopped, Alive, Become, Goto, End, AfterStop
<1>4. Notes'
  BY LifecycleAssumption DEF Order, InStep, Notes, Stopped, Alive, Bound, files, shell, daemon, Become, Goto, End, UnchangedByShell, CleanUp
<1>5. PortsAreLeft'
  BY DEF Order, OneCommand, TargetKept, PortsAreLeft, Left, TypeOK, Stopped, files, shell, Become, Goto, End, UnchangedByShell, AfterStop, CleanUp
<1>6. TargetKept'
  BY DEF Order, TargetKept, TypeOK, Stopped, Goto, End, UnchangedByShell, AfterStop
<1>7. PortKept'
  BY DEF Order, OneCommand, TargetKept, PortKept, Preferred, Stopped, Become, UnchangedByShell, AfterStop, CleanUp
<1> QED BY <1>1, <1>2, <1>3, <1>4, <1>5, <1>6, <1>7 DEF Order

(* The new daemon is the only one. *)
LEMMA SpawnOrderly ==
    ASSUME TypeOK, Order, NEW s \in Shell, Spawn(s)
    PROVE  Order'
<1>0. PICK p \in Pid : p = NextPid /\ stage[p] = "unborn"
  BY DEF Spawn, NextPid, Unborn
<1>1. OneCommand'
  BY <1>0 DEF Order, OneCommand, Spawn, Goto
<1>2. OneAlive'
  BY <1>0 DEF Order, OneAlive, InStep, Spawn, Alive, Become
<1>3. InStep'
  BY <1>0 DEF Order, OneCommand, InStep, TypeOK, Spawn, Alive, Become, Goto
<1>4. Notes'
  BY <1>0 DEF Order, Notes, Spawn, files, Become
<1>5. PortsAreLeft'
  BY <1>0 DEF Order, PortsAreLeft, Left, Spawn, Bound, files, Become, Goto
<1>6. TargetKept'
  BY <1>0 DEF Order, TargetKept, Spawn, files, Goto
<1>7. PortKept'
  BY <1>0 DEF Order, PortKept, Preferred, Spawn, files, Become
<1> QED BY <1>1, <1>2, <1>3, <1>4, <1>5, <1>6, <1>7 DEF Order

(* The port that is read was left by a daemon. *)
LEMMA WaitReadsOrderly ==
    ASSUME TypeOK, Order, NEW s \in Shell, WaitReads(s)
    PROVE  Order'
<1>1. OneCommand'
  BY DEF Order, OneCommand, WaitReads, Goto, End
<1>2. OneAlive'
  BY DEF Order, OneAlive, WaitReads, Alive
<1>3. InStep'
  BY DEF Order, InStep, TypeOK, WaitReads, Alive, Become, Goto, End
<1>4. Notes'
  BY DEF Order, Notes, WaitReads, Alive, files, daemon, UnchangedByShell
<1>5. PortsAreLeft'
  BY DEF Order, PortsAreLeft, Left, TypeOK, WaitReads, files, shell, Become, Goto, End, UnchangedByShell
<1>6. TargetKept'
  BY DEF Order, TargetKept, TypeOK, WaitReads, Goto, End, UnchangedByShell
<1>7. PortKept'
  BY DEF Order, PortKept, Preferred, WaitReads, Become, UnchangedByShell
<1> QED BY <1>1, <1>2, <1>3, <1>4, <1>5, <1>6, <1>7 DEF Order

(* Who answers is the one daemon, and serves. *)
LEMMA WaitAsksOrderly ==
    ASSUME TypeOK, Order, NEW s \in Shell, WaitAsks(s)
    PROVE  Order'
<1>1. OneCommand'
  BY DEF Order, OneCommand, TypeOK, WaitAsks, Goto, End, Started, Answers
<1>2. OneAlive'
  BY DEF Order, OneAlive, WaitAsks, Alive
<1>3. InStep'
  BY DEF Order, OneAlive, InStep, TypeOK, WaitAsks, Alive, Become, Goto, End, Started, Answers
<1>4. Notes'
  BY DEF Order, Notes, WaitAsks, Alive, files, daemon, UnchangedByShell
<1>5. PortsAreLeft'
  BY DEF Order, PortsAreLeft, Left, TypeOK, WaitAsks, files, shell, Become, Goto, End, UnchangedByShell, Started
<1>6. TargetKept'
  BY DEF Order, TargetKept, TypeOK, WaitAsks, Goto, End, UnchangedByShell, Started, Answers
<1>7. PortKept'
  BY DEF Order, PortKept, Preferred, WaitAsks, Become, UnchangedByShell, Answers
<1> QED BY <1>1, <1>2, <1>3, <1>4, <1>5, <1>6, <1>7 DEF Order

(* Nothing is given up but the wait. *)
LEMMA WaitTimesOutOrderly ==
    ASSUME TypeOK, Order, NEW s \in Shell, WaitTimesOut(s)
    PROVE  Order'
<1>1. OneCommand'
  BY DEF Order, OneCommand, WaitTimesOut, Goto, End
<1>2. OneAlive'
  BY DEF Order, OneAlive, WaitTimesOut, Alive
<1>3. InStep'
  BY DEF Order, InStep, TypeOK, WaitTimesOut, Alive, Become, Goto, End
<1>4. Notes'
  BY DEF Order, Notes, WaitTimesOut, Alive, files, daemon, UnchangedByShell
<1>5. PortsAreLeft'
  BY DEF Order, PortsAreLeft, Left, WaitTimesOut, files, shell, Become, Goto, End, UnchangedByShell
<1>6. TargetKept'
  BY DEF Order, TargetKept, TypeOK, WaitTimesOut, Goto, End, UnchangedByShell
<1>7. PortKept'
  BY DEF Order, PortKept, Preferred, WaitTimesOut, Become, UnchangedByShell
<1> QED BY <1>1, <1>2, <1>3, <1>4, <1>5, <1>6, <1>7 DEF Order

(* The port that is exported was left by a daemon. *)
LEMMA RegisterOrderly ==
    ASSUME TypeOK, EnvInd, Order, NEW s \in Shell, Register(s)
    PROVE  Order'
<1>1. OneCommand'
  BY DEF Order, OneCommand, TypeOK, Register, Goto, End, Answers, Exported
<1>2. OneAlive'
  BY DEF Order, OneAlive, Register, Alive
<1>3. InStep'
  BY DEF Order, InStep, TypeOK, Register, Alive, Become, Goto, End, Answers
<1>4. Notes'
  BY DEF Order, Notes, Register, Alive, files, daemon, UnchangedByShell
<1>5. PortsAreLeft'
  BY DEF Order, PortsAreLeft, Left, TypeOK, Register, files, shell, Become, Goto, End, UnchangedByShell
<1>6. TargetKept'
  BY DEF Order, TargetKept, TypeOK, Register, Goto, End, UnchangedByShell, Answers
<1>7. PortKept'
  <2>1. CASE ~ Answers
    BY <2>1, LifecycleAssumption
    DEF Order, PortKept, Preferred, Register, files, shell, daemon, UnchangedByShell
  <2>2. CASE Answers
    <3>1. PICK q \in Pid : (stage[q] \in Bound \/ stage[q] = "crashed") /\ port[q] = seen[s]
      BY DEF Order, PortsAreLeft, Left, Register
    <3>2. PICK p \in Pid : p = socketFile /\ stage[p] = "serving" /\ port[p] = preferredFile
      BY <2>2 DEF Answers, Order, Notes
    <3>3. stage[q] \in Bound => q = p
      BY <3>2 DEF Order, OneAlive, Alive, Bound
    <3>4. Preferred(seen[s])
      BY <3>1, <3>2, <3>3 DEF Preferred
    <3>5. /\ UNCHANGED <<stage, port, preferredFile, squatted>>
          /\ \A t \in Shell \ {s} : env'[t] = env[t]
          /\ env'[s].proxy = seen[s]
      BY <2>2 DEF Register, EnvInd, Exported, files, shell, daemon, UnchangedByShell
    <3>6. ASSUME squatted = {}, NEW t \in Shell, env'[t].proxy # None PROVE Preferred(env'[t].proxy)
      BY <3>4, <3>5, <3>6 DEF Order, PortKept
    <3>7. \A n : Preferred(n) => Preferred(n)'
      BY <3>5 DEF Preferred
    <3> QED BY <3>5, <3>6, <3>7 DEF Order, PortKept, Preferred
  <2> QED BY <2>1, <2>2
<1> QED BY <1>1, <1>2, <1>3, <1>4, <1>5, <1>6, <1>7 DEF Order

(* Nothing is said of a shell that is off. *)
LEMMA OffOrderly ==
    ASSUME TypeOK, Order, NEW s \in Shell, Off(s)
    PROVE  Order'
<1>1. OneCommand'
  BY DEF Order, OneCommand, Off, Goto, End
<1>2. OneAlive'
  BY DEF Order, OneAlive, Off, Alive, daemon, UnchangedByShell
<1>3. InStep'
  BY DEF Order, InStep, TypeOK, Off, Alive, daemon, Become, Goto, End, UnchangedByShell
<1>4. Notes'
  BY DEF Order, Notes, Off, Alive, files, daemon, UnchangedByShell
<1>5. PortsAreLeft'
  BY DEF Order, PortsAreLeft, Left, Off, files, shell, daemon, Become, Goto, End, UnchangedByShell
<1>6. TargetKept'
  BY DEF Order, TargetKept, TypeOK, Off, files, shell, daemon, Goto, End, UnchangedByShell
<1>7. PortKept'
  BY DEF Order, PortKept, Preferred, Off, files, shell, daemon, Become, UnchangedByShell
<1> QED BY <1>1, <1>2, <1>3, <1>4, <1>5, <1>6, <1>7 DEF Order

(* A command that is typed while nothing is on its way is in step. *)
LEMMA BeginOrderly ==
    ASSUME TypeOK, Order, NEW s \in Shell, NEW c, NEW r \in Release, Begin(s, c, r), orderly'
    PROVE  Order'
<1>0. (\A t \in Shell : pc[t] = "idle") /\ (\A p \in Pid : Alive(p) => stage[p] = "serving")
  BY DEF Begin
<1>1. OneCommand'
  BY <1>0 DEF OneCommand, Begin, Goto
<1>2. OneAlive'
  BY <1>0 DEF Order, OneAlive, Begin, Alive, daemon
<1>3. InStep'
  BY <1>0 DEF InStep, Begin, Alive, daemon, Goto
<1>4. Notes'
  BY <1>0 DEF Order, Notes, Begin, files, daemon
<1>5. PortsAreLeft'
  BY <1>0 DEF Order, PortsAreLeft, Left, Begin, files, daemon, Goto
<1>6. TargetKept'
  BY <1>0 DEF TargetKept, Begin, Goto
<1>7. PortKept'
  BY <1>0 DEF Order, PortKept, Preferred, Begin, files, daemon
<1> QED BY <1>1, <1>2, <1>3, <1>4, <1>5, <1>6, <1>7 DEF Order

(* Terminal UIs and other programs are nothing to commands and daemons.    *)
LEMMA AsideOrderly ==
    ASSUME Order, UNCHANGED <<daemon, files, shell>>, squatted' = {} => squatted = {}
    PROVE  Order'
<1>1. OneCommand' /\ OneAlive' /\ InStep' /\ Notes' /\ TargetKept'
  BY DEF Order, OneCommand, OneAlive, InStep, Notes, TargetKept, Alive, daemon, files, shell
<1>2. PortsAreLeft'
  BY DEF Order, PortsAreLeft, Left, daemon, files, shell
<1>3. PortKept'
  BY DEF Order, PortKept, Preferred, daemon, files, shell
<1> QED BY <1>1, <1>2, <1>3 DEF Order

(* Every step that is orderly keeps the order.                             *)
LEMMA NextOrderly ==
    ASSUME TypeOK, EnvInd, orderly => Order, [Next]_vars, orderly'
    PROVE  Order'
<1>1. orderly
  BY DEF Next, vars, counts, DaemonStep, CommandStep, ChoosePort, BindProxy, WritePort, WritePid,
         Listen, ControlClosed, Finish, Check, Ping, CompareVersions, ReadPort, SignalDaemon,
         Stopped, Spawn, WaitReads, WaitAsks, WaitTimesOut, Register, Off, Begin, Attach, Detach,
         Crash, SignalByHand, Squat, UnchangedByShell
<1>2. Order
  BY <1>1
<1>3. ASSUME NEW p \in Pid, DaemonStep(p) \/ Crash(p) \/ SignalByHand(p) PROVE Order'
  BY <1>2, <1>3, ChoosePortOrderly, BindProxyOrderly, WritePortOrderly, WritePidOrderly,
     ListenOrderly, ControlClosedOrderly, FinishOrderly, CrashOrderly, SignalByHandOrderly
  DEF DaemonStep
<1>4. ASSUME NEW s \in Shell, CommandStep(s) \/ WaitTimesOut(s) \/ Off(s) PROVE Order'
  BY <1>2, <1>4, CheckOrderly, PingOrderly, CompareVersionsOrderly, ReadPortOrderly,
     SignalDaemonOrderly, StoppedOrderly, SpawnOrderly, WaitReadsOrderly, WaitAsksOrderly,
     WaitTimesOutOrderly, RegisterOrderly, OffOrderly
  DEF CommandStep
<1>5. ASSUME NEW s \in Shell, NEW c \in {"on", "keep", "stop", "restart"}, NEW r \in Release,
             Begin(s, c, r)
      PROVE  Order'
  BY <1>2, <1>5, BeginOrderly
<1>6. CASE Attach \/ Detach
  BY <1>2, <1>6, AsideOrderly DEF Attach, Detach
<1>7. ASSUME NEW n \in Port, Squat(n) PROVE Order'
  BY <1>2, <1>7, AsideOrderly DEF Squat
<1>8. CASE UNCHANGED vars
  BY <1>2, <1>8, AsideOrderly DEF vars
<1> QED BY <1>3, <1>4, <1>5, <1>6, <1>7, <1>8 DEF Next

-----------------------------------------------------------------------------
(* Types, and the variables of the shells. *)

(* The daemon's steps keep the shape of the state.                         *)
LEMMA DaemonTypes ==
    ASSUME TypeOK, NEW p \in Pid, DaemonStep(p) \/ Crash(p) \/ SignalByHand(p)
    PROVE  TypeOK'
<1>1. CASE ChoosePort(p)
  BY <1>1 DEF ChoosePort, TypeOK, Bound, daemon, files, shell, counts, Become
<1>2. CASE BindProxy(p)
  BY <1>2 DEF BindProxy, TypeOK, Bound, daemon, files, shell, counts, Become
<1>3. CASE WritePort(p)
  BY <1>3 DEF WritePort, TypeOK, Bound, daemon, files, shell, counts, Become
<1>4. CASE WritePid(p)
  BY <1>4 DEF WritePid, TypeOK, Bound, daemon, files, shell, counts, Become
<1>5. CASE Listen(p)
  BY <1>5 DEF Listen, TypeOK, Bound, daemon, files, shell, counts, Become
<1>6. CASE ControlClosed(p)
  BY <1>6 DEF ControlClosed, TypeOK, Bound, daemon, files, shell, counts, Become
<1>7. CASE Finish(p)
  BY <1>7 DEF Finish, TypeOK, Bound, daemon, files, shell, counts, Become
<1>8. CASE Crash(p)
  BY <1>8 DEF Crash, TypeOK, Bound, daemon, files, shell, counts, Become, Mishap
<1>9. CASE SignalByHand(p)
  BY <1>9 DEF SignalByHand, TypeOK, Bound, daemon, files, shell, counts, Become, Mishap, Terminate
<1> QED BY <1>1, <1>2, <1>3, <1>4, <1>5, <1>6, <1>7, <1>8, <1>9 DEF DaemonStep

(* So do the steps of commands.                                            *)
LEMMA CommandTypes ==
    ASSUME TypeOK, NEW s \in Shell, CommandStep(s) \/ WaitTimesOut(s) \/ Off(s)
    PROVE  TypeOK'
<1>1. CASE Check(s)
  BY <1>1, LifecycleAssumption DEF Check, TypeOK, Bound, daemon, files, shell, counts, Become, Goto, End, UnchangedByShell, NotRunning
<1>2. CASE Ping(s)
  BY <1>2, LifecycleAssumption DEF Ping, TypeOK, Bound, daemon, files, shell, counts, Become, Goto, End, UnchangedByShell, NotRunning
<1>3. CASE CompareVersions(s)
  BY <1>3, LifecycleAssumption DEF CompareVersions, TypeOK, Bound, daemon, files, shell, counts, Become, Goto, End, UnchangedByShell
<1>4. CASE ReadPort(s)
  BY <1>4, LifecycleAssumption DEF ReadPort, TypeOK, Bound, daemon, files, shell, counts, Become, Goto, End, UnchangedByShell, Started
<1>5. CASE SignalDaemon(s)
  BY <1>5, LifecycleAssumption DEF SignalDaemon, TypeOK, Bound, daemon, files, shell, counts, Become, Goto, End, UnchangedByShell, AfterStop, CleanUp, Terminate, PidIsRunning
<1>6. CASE Stopped(s)
  BY <1>6, LifecycleAssumption DEF Stopped, TypeOK, Bound, daemon, files, shell, counts, Become, Goto, End, UnchangedByShell, AfterStop, CleanUp
<1>7. CASE Spawn(s)
  BY <1>7, LifecycleAssumption DEF Spawn, TypeOK, Bound, daemon, files, shell, counts, Become, Goto, End, UnchangedByShell, NextPid, Unborn
<1>8. CASE WaitReads(s)
  BY <1>8, LifecycleAssumption DEF WaitReads, TypeOK, Bound, daemon, files, shell, counts, Become, Goto, End, UnchangedByShell
<1>9. CASE WaitAsks(s)
  BY <1>9, LifecycleAssumption DEF WaitAsks, TypeOK, Bound, daemon, files, shell, counts, Become, Goto, End, UnchangedByShell, Started
<1>10. CASE Register(s)
  BY <1>10, LifecycleAssumption DEF Register, TypeOK, Bound, daemon, files, shell, counts, Become, Goto, End, UnchangedByShell
<1>11. CASE WaitTimesOut(s)
  BY <1>11, LifecycleAssumption DEF WaitTimesOut, TypeOK, Bound, daemon, files, shell, counts, Become, Goto, End, UnchangedByShell
<1>12. CASE Off(s)
  BY <1>12, LifecycleAssumption DEF Off, TypeOK, Bound, daemon, files, shell, counts, Become, Goto, End, UnchangedByShell
<1> QED BY <1>1, <1>2, <1>3, <1>4, <1>5, <1>6, <1>7, <1>8, <1>9, <1>10, <1>11, <1>12 DEF CommandStep

(* So does every step.                                                     *)
LEMMA NextTypes ==
    ASSUME TypeOK, [Next]_vars
    PROVE  TypeOK'
<1>1. ASSUME NEW s \in Shell, NEW c \in {"on", "keep", "stop", "restart"}, NEW r \in Release,
             Begin(s, c, r)
      PROVE  TypeOK'
  BY <1>1 DEF Begin, TypeOK, Bound, daemon, files, shell, Goto
<1>2. CASE Attach \/ Detach
  BY <1>2 DEF Attach, Detach, Answers, TypeOK, daemon, files, shell, counts
<1>3. ASSUME NEW n \in Port, Squat(n) PROVE TypeOK'
  BY <1>3 DEF Squat, TypeOK, daemon, files, shell
<1>4. CASE UNCHANGED vars
  BY <1>4 DEF TypeOK, vars, daemon, files, shell, counts
<1> QED BY <1>1, <1>2, <1>3, <1>4, DaemonTypes, CommandTypes DEF Next

(* on saves the user's value once and off gives it back; whatever else     *)
(* happens leaves the variables alone.                                     *)
LEMMA NextEnv ==
    ASSUME TypeOK, EnvInd, [Next]_vars
    PROVE  EnvInd'
<1>1. ASSUME UNCHANGED <<own, env, seen, pc>> PROVE EnvInd'
  BY <1>1 DEF EnvInd
<1>2. ASSUME NEW s \in Shell, NEW where, UNCHANGED <<own, env>>, pc' = [pc EXCEPT ![s] = where],
             \A t \in Shell \ {s} : seen'[t] = seen[t],
             where \in {"ask", "register"} => seen'[s] # None
      PROVE  EnvInd'
  BY <1>2 DEF EnvInd, TypeOK
<1>3. ASSUME NEW s \in Shell, Register(s) PROVE EnvInd'
  <2>1. /\ UNCHANGED <<own, seen>> /\ pc[s] = "register" /\ pc' = [pc EXCEPT ![s] = "idle"]
        /\ env' = env \/ env' = [env EXCEPT ![s] = Exported(@, seen[s])]
    BY <1>3 DEF Register, End, Goto, UnchangedByShell
  <2>2. CASE env' = env
    BY <1>2, <2>1, <2>2
  <2>3. CASE env' = [env EXCEPT ![s] = Exported(@, seen[s])]
    <3> DEFINE e == Exported(env[s], seen[s])
    <3>1. /\ DOMAIN e = {"proxy", "saved", "options"}
          /\ e.proxy = seen[s]
          /\ e.saved = IF env[s].saved = None THEN env[s].options ELSE env[s].saved
      BY DEF Exported
    <3>2. seen[s] # None /\ own[s] # None
      BY <2>1, LifecycleAssumption DEF EnvInd
    <3>3. e.proxy # None /\ e.saved = own[s]
      BY <3>1, <3>2 DEF EnvInd
    <3>4. DOMAIN env' = Shell /\ env'[s] = e /\ \A t \in Shell \ {s} : env'[t] = env[t]
      BY <2>3 DEF EnvInd
    <3> HIDE DEF e
    <3> QED BY <2>1, <3>1, <3>3, <3>4 DEF EnvInd, TypeOK
  <2> QED BY <2>1, <2>2, <2>3
<1>4. ASSUME NEW s \in Shell, Off(s) PROVE EnvInd'
  <2> DEFINE e == [proxy |-> None, saved |-> None,
                   options |-> IF env[s].saved = None THEN <<>> ELSE env[s].saved]
  <2>1. /\ UNCHANGED <<own, seen, pc>> /\ env[s].proxy # None /\ env' = [env EXCEPT ![s] = e]
    BY <1>4 DEF Off, shell
  <2>2. /\ DOMAIN e = {"proxy", "saved", "options"}
        /\ e.proxy = None /\ e.saved = None
        /\ e.options = IF env[s].saved = None THEN <<>> ELSE env[s].saved
    OBVIOUS
  <2>3. env[s].saved = own[s] /\ own[s] # None
    BY <2>1, LifecycleAssumption DEF EnvInd
  <2>4. e.options = own[s]
    BY <2>2, <2>3
  <2>5. DOMAIN env' = Shell /\ env'[s] = e /\ \A t \in Shell \ {s} : env'[t] = env[t]
    BY <2>1 DEF EnvInd
  <2> HIDE DEF e
  <2> QED BY <2>1, <2>2, <2>4, <2>5 DEF EnvInd
<1>5. ASSUME NEW s \in Shell, Check(s) PROVE EnvInd'
  BY <1>5, <1>2 DEF Check, TypeOK, Goto, End, UnchangedByShell, shell, NotRunning
<1>6. ASSUME NEW s \in Shell, Ping(s) PROVE EnvInd'
  BY <1>6, <1>2 DEF Ping, TypeOK, Goto, End, UnchangedByShell, shell, NotRunning
<1>7. ASSUME NEW s \in Shell, CompareVersions(s) PROVE EnvInd'
  BY <1>7, <1>2 DEF CompareVersions, TypeOK, Goto, End, UnchangedByShell, shell
<1>8. ASSUME NEW s \in Shell, ReadPort(s) PROVE EnvInd'
  BY <1>8, <1>2 DEF ReadPort, TypeOK, Goto, End, UnchangedByShell, shell, Started
<1>9. ASSUME NEW s \in Shell, SignalDaemon(s) PROVE EnvInd'
  BY <1>9, <1>2 DEF SignalDaemon, TypeOK, Goto, End, UnchangedByShell, shell, AfterStop, CleanUp, Terminate, PidIsRunning
<1>10. ASSUME NEW s \in Shell, Stopped(s) PROVE EnvInd'
  BY <1>10, <1>2 DEF Stopped, TypeOK, Goto, End, UnchangedByShell, shell, AfterStop, CleanUp
<1>11. ASSUME NEW s \in Shell, Spawn(s) PROVE EnvInd'
  BY <1>11, <1>2 DEF Spawn, TypeOK, Goto, End, UnchangedByShell, shell, NextPid, Unborn
<1>12. ASSUME NEW s \in Shell, WaitReads(s) PROVE EnvInd'
  BY <1>12, <1>2 DEF WaitReads, TypeOK, Goto, End, UnchangedByShell, shell
<1>13. ASSUME NEW s \in Shell, WaitAsks(s) PROVE EnvInd'
  BY <1>13, <1>2 DEF EnvInd, WaitAsks, TypeOK, Goto, End, UnchangedByShell, shell, Started
<1>14. ASSUME NEW s \in Shell, WaitTimesOut(s) PROVE EnvInd'
  BY <1>14, <1>2 DEF WaitTimesOut, TypeOK, Goto, End, UnchangedByShell, shell
<1>15. ASSUME NEW s \in Shell, NEW c, NEW r, Begin(s, c, r) PROVE EnvInd'
  BY <1>15, <1>2 DEF Begin, TypeOK, Goto
<1>16. ASSUME NEW p \in Pid, DaemonStep(p) \/ Crash(p) \/ SignalByHand(p) PROVE EnvInd'
  BY <1>16, <1>1 DEF DaemonStep, ChoosePort, BindProxy, WritePort, WritePid, Listen, ControlClosed,
                   Finish, Crash, SignalByHand, shell
<1>17. CASE Attach \/ Detach \/ (\E n \in Port : Squat(n)) \/ UNCHANGED vars
  BY <1>17, <1>1 DEF Attach, Detach, Squat, vars, shell
<1> QED BY <1>3, <1>4, <1>5, <1>6, <1>7, <1>8, <1>9, <1>10, <1>11, <1>12, <1>13, <1>14, <1>15, <1>16, <1>17
  DEF Next, CommandStep

-----------------------------------------------------------------------------
(* The inductive invariant holds initially.                                *)
LEMMA InitLife == Init => LifeInd
<1> SUFFICES ASSUME Init PROVE LifeInd
  OBVIOUS
<1>1. TypeOK
  BY DEF Init, TypeOK
<1>2. EnvInd
  BY LifecycleAssumption DEF Init, EnvInd
<1>3. Order
  BY LifecycleAssumption DEF Init, Order, OneCommand, OneAlive, InStep, Notes, PortsAreLeft,
                             TargetKept, PortKept, Alive
<1> QED BY <1>1, <1>2, <1>3 DEF LifeInd

(* Commands that are typed one at a time are in step with the one daemon   *)
(* there is, whatever crashes, gives up or is taken by others: LifeInd is  *)
(* the inductive invariant.                                                *)
THEOREM CommandsAreInStep == Spec => []LifeInd
<1>1. LifeInd /\ [Next]_vars => LifeInd'
  BY NextTypes, NextEnv, NextOrderly DEF LifeInd
<1> QED BY <1>1, InitLife, PTL DEF Spec

(* While no command is typed on top of another there is one daemon at most *)
(* (shared/daemon.ts, startDaemon and stopDaemon), and the files lead to   *)
(* the one that serves.                                                    *)
THEOREM LifecycleInvariant == Spec => []DaemonInv
<1>1. LifeInd => DaemonInv
  <2> SUFFICES ASSUME LifeInd PROVE DaemonInv
    OBVIOUS
  <2>1. ASSUME orderly PROVE Cardinality({p \in Pid : Alive(p)}) <= 1
    <3> DEFINE alive == {p \in Pid : Alive(p)}
    <3>1. \A p, q \in alive : p = q
      BY <2>1 DEF LifeInd, Order, OneAlive
    <3> HIDE DEF alive
    <3>2. ASSUME alive = {} PROVE Cardinality(alive) <= 1
      BY <3>2, FS_EmptySet
    <3>3. ASSUME alive # {} PROVE Cardinality(alive) <= 1
      <4>1. PICK p \in alive : TRUE
        BY <3>3
      <4>2. alive = {p}
        BY <3>1, <4>1
      <4> QED BY <4>2, FS_Singleton
    <3> QED BY <3>2, <3>3 DEF alive
  <2>2. ASSUME orderly, NEW p \in Pid, stage[p] = "serving"
        PROVE  pidFile = p /\ socketFile = p /\ {portFile, preferredFile} = {port[p]}
    BY <2>2 DEF LifeInd, Order, Notes
  <2> QED BY <2>1, <2>2 DEF LifeInd, DaemonInv, OneDaemon
<1> QED BY <1>1, CommandsAreInStep, PTL

(* The proxy that a shell was given outlives restarts (findPreferredPort): *)
(* every later daemon serves it, unless its port was taken by another      *)
(* program or belonged to a daemon that crashed.                           *)
THEOREM ShellsAreServed == Spec => []ShellsKeepWorking
<1>1. LifeInd => ShellsKeepWorking
  BY DEF LifeInd, Order, Notes, PortKept, Preferred, ShellsKeepWorking
<1> QED BY <1>1, CommandsAreInStep, PTL

(* off gives a shell back the options its user gave it, however often on   *)
(* was evaluated before, orderly or not.                                   *)
THEOREM OffGivesBack == Spec => []OffRestores
<1>1. LifeInd => OffRestores
  BY DEF LifeInd, EnvInd, OffRestores
<1> QED BY <1>1, CommandsAreInStep, PTL

(* A command that ends well has seen a port that a daemon has, or had when *)
(* it crashed.                                                             *)
LEMMA EndedWell ==
    ASSUME LifeInd, [Next]_vars, orderly, NEW s \in Shell, pc[s] # "idle", pc'[s] = "idle",
           outcome'[s] = "ok", cmd[s] # "stop"
    PROVE  Left(seen'[s])
<1> USE DEF LifeInd, TypeOK
<1>1. ASSUME NEW t \in Shell, t # s, CommandStep(t) \/ WaitTimesOut(t) \/ Off(t) PROVE FALSE
  BY <1>1 DEF CommandStep, Check, Ping, CompareVersions, ReadPort, SignalDaemon, Stopped, Spawn,
              WaitReads, WaitAsks, WaitTimesOut, Register, Off, NotRunning, Started, AfterStop,
              Goto, End
<1>2. ASSUME ReadPort(s) PROVE Left(seen'[s])
  BY <1>2 DEF ReadPort, Started, Goto, End, Order, PortsAreLeft
<1>3. ASSUME WaitAsks(s) PROVE Left(seen'[s])
  BY <1>3 DEF WaitAsks, Started, Goto, End, Order, PortsAreLeft
<1>4. ASSUME Register(s) PROVE Left(seen'[s])
  BY <1>4 DEF Register, Goto, End, Order, PortsAreLeft
<1>5. ASSUME WaitTimesOut(s) PROVE FALSE
  BY <1>5 DEF WaitTimesOut, End
<1>6. ASSUME Check(s) \/ Ping(s) PROVE FALSE
  BY <1>6 DEF Check, Ping, NotRunning, Goto, End
<1>7. ASSUME SignalDaemon(s) \/ Stopped(s) PROVE FALSE
  BY <1>7 DEF SignalDaemon, Stopped, AfterStop, Goto, End
<1>8. ASSUME CompareVersions(s) \/ Spawn(s) \/ WaitReads(s) \/ Off(s) PROVE FALSE
  BY <1>8 DEF CompareVersions, Spawn, WaitReads, Off, Goto
<1>9. ASSUME NEW t \in Shell, NEW c, NEW r, Begin(t, c, r) PROVE FALSE
  BY <1>9 DEF Begin, Goto
<1>10. ASSUME NEW p \in Pid, DaemonStep(p) \/ Crash(p) \/ SignalByHand(p) PROVE FALSE
  BY <1>10 DEF DaemonStep, ChoosePort, BindProxy, WritePort, WritePid, Listen, ControlClosed,
               Finish, Crash, SignalByHand, shell
<1>11. CASE Attach \/ Detach \/ (\E n \in Port : Squat(n)) \/ UNCHANGED vars
  BY <1>11 DEF Attach, Detach, Squat, vars, shell
<1> QED
  BY <1>1, <1>2, <1>3, <1>4, <1>5, <1>6, <1>7, <1>8, <1>9, <1>10, <1>11 DEF Next, CommandStep

(* The port a start returns (startDaemon, waitForDaemon) is the port of    *)
(* the daemon that answered, or was left in the file by one that crashed.  *)
THEOREM StartedPortsAreLive == Spec => StartedPortIsLive
<1>1. LifeInd /\ [Next]_vars =>
        [\A s \in Shell :
          /\ pc[s] # "idle" /\ pc'[s] = "idle" /\ outcome'[s] = "ok" /\ cmd[s] # "stop"
          /\ orderly
          => \E p \in Pid : stage[p] \in Bound \cup {"crashed"} /\ port[p] = seen'[s]]_vars
  BY EndedWell DEF Left
<1> QED BY <1>1, CommandsAreInStep, PTL DEF Spec, StartedPortIsLive

==================================================================================
