--------------------------- MODULE HostController ---------------------------
(***************************************************************************)
(* ce-mcp-control (src/ce_controller): each command is a process of its    *)
(* own that lists the Cheat Engine processes of the root, asks the MCP     *)
(* endpoint whether a target is attached, closes or starts a process and   *)
(* waits for what comes of it.  Between any two of its system calls hosts  *)
(* start and exit, pids are used again, and other commands do the same.    *)
(* The endpoint is the sidecar that a host launches once (StartCEMCPBridge *)
(* of the bridge) and that exits with its host (src/ce_mcp/mcp_server.py). *)
(***************************************************************************)
EXTENDS Naturals, FiniteSets

CONSTANTS
  Commands,      \* invocations of ce-mcp-control
  HostPids,      \* pids
  HostImages,    \* paths of recognized executables directly under the root
  OtherImages,   \* other executables
  MaxBorn        \* bound: processes ever started

ASSUME HostAssumption ==
  /\ HostPids \subseteq Nat \ {0} /\ MaxBorn \in Nat
  /\ HostImages \cap OtherImages = {} /\ "none" \notin HostImages \cup OtherImages

VARIABLES
  processes,     \* per pid the process that runs: its image, its number, its sidecar
  born,          \* processes ever started
  port,          \* number of the host whose sidecar holds the configured port, or 0
  command        \* what each command does and has done

hostVars == <<processes, born, port, command>>

None == [image |-> "none", number |-> 0, launched |-> FALSE]
Images == HostImages \cup OtherImages

Actions == {"status", "start", "stop", "restart"}
Stages == {"idle", "list", "observe", "open", "close", "wait", "terminate", "confirm",
           "launch", "poll", "probe", "done"}
\* Inside platform.stop: the process handle is open and keeps the pid from being used again.
HandleStages == {"close", "wait", "terminate", "confirm"}

OkCodes == {"status", "running", "started", "not_running", "stopped"}
KnownCodes == {"HOST_OBSERVATION_FAILED", "MULTIPLE_HOSTS", "HOST_NOT_READY", "MCP_UNOBSERVABLE",
               "TARGET_ATTACHED", "HOST_EXECUTABLE_MISSING", "CONFIGURATION_ERROR"}
UnknownCodes == {"HOST_START_FAILED", "HOST_START_TIMEOUT", "HOST_STOP_FAILED",
                 "HOST_STOP_TIMEOUT", "HOST_RESTART_TIMEOUT"}

\* part: what restart is at.  pid and image: hosts[0] as stop listed it.  handle: number of
\* the process that was opened.  touched: images of the processes closed or terminated.
Command ==
  [action : Actions, force : BOOLEAN, stage : Stages, part : Actions,
   pid : HostPids \cup {0}, image : HostImages \cup {"none"}, handle : 0 .. MaxBorn,
   touched : SUBSET Images, launched : BOOLEAN,
   code : OkCodes \cup KnownCodes \cup UnknownCodes \cup {"none"}]

HostTypeOK ==
  /\ processes \in [HostPids -> {None} \cup
                      [image : Images, number : 1 .. MaxBorn, launched : BOOLEAN]]
  /\ born \in 0 .. MaxBorn
  /\ port \in 0 .. MaxBorn
  /\ command \in [Commands -> Command]

NotInvoked ==
  [action |-> "status", force |-> FALSE, stage |-> "idle", part |-> "status", pid |-> 0,
   image |-> "none", handle |-> 0, touched |-> {}, launched |-> FALSE, code |-> "none"]

HostInit ==
  /\ processes = [p \in HostPids |-> None]
  /\ born = 0 /\ port = 0
  /\ command = [c \in Commands |-> NotInvoked]

-----------------------------------------------------------------------------
\* list_hosts.
Hosts == {p \in HostPids : processes[p].image \in HostImages}

Lives(number) == \E p \in HostPids : number # 0 /\ processes[p].number = number

HandleOpen(p) == \E c \in Commands : command[c].stage \in HandleStages /\ command[c].pid = p

Becomes(c, record) ==
  /\ command' = [command EXCEPT ![c] = record]
  /\ UNCHANGED <<processes, born, port>>

GoesTo(c, stage) == Becomes(c, [command[c] EXCEPT !.stage = stage])

\* The process of the command is over; its answer and what it touched are left.
EndsWith(c, code) ==
  LET was == command[c]
  IN  Becomes(c, [action |-> "status", force |-> FALSE, stage |-> "done", part |-> "status",
                  pid |-> 0, image |-> IF was.touched = {} THEN "none" ELSE was.image,
                  handle |-> was.handle, touched |-> was.touched,
                  launched |-> was.launched, code |-> code])

\* stop returned; restart goes on to start, unless its deadline is over.
Stopped(c, code) ==
  \/ command[c].action = "stop" /\ EndsWith(c, code)
  \/ command[c].action = "restart"
     /\ \/ Becomes(c, [command[c] EXCEPT !.stage = "list", !.part = "start"])
        \/ EndsWith(c, "HOST_RESTART_TIMEOUT")

\* ControllerConfig.load.
ConfigRefused(c) == EndsWith(c, "CONFIGURATION_ERROR")

\* parse_options and run: --force goes with stop and restart only.
Invoke(c) ==
  /\ command[c].stage = "idle"
  /\ \E action \in Actions, force \in BOOLEAN :
       /\ force => action \in {"stop", "restart"}
       /\ LET begun == [command[c] EXCEPT !.action = action, !.force = force, !.stage = "list",
                          !.part = IF action = "restart" THEN "stop" ELSE action]
          IN  \/ Becomes(c, begun)
              \/ ConfigRefused(c)

\* _hosts, and what each action does with no host.
ListHosts(c) ==
  /\ command[c].stage = "list"
  /\ \/ EndsWith(c, "HOST_OBSERVATION_FAILED")
     \/ Cardinality(Hosts) > 1 /\ EndsWith(c, "MULTIPLE_HOSTS")
     \/ /\ Cardinality(Hosts) = 1
        /\ \/ command[c].part # "stop" /\ GoesTo(c, "observe")
           \/ /\ command[c].part = "stop"
              /\ \E p \in Hosts : Becomes(c, [command[c] EXCEPT !.stage = "observe", !.pid = p,
                                                               !.image = processes[p].image])
     \/ /\ Hosts = {}
        /\ \/ command[c].part = "status" /\ EndsWith(c, "status")
           \/ command[c].part = "start" /\ GoesTo(c, "launch")
           \/ command[c].part = "stop" /\ Stopped(c, "not_running")

\* ready and ce.status: the sidecar that holds the port answers for its own host.
Ready == Lives(port)

\* McpObserver.observe: three requests, any of which may fail.
Observations == {"none"} \cup (IF Ready THEN {"free", "attached"} ELSE {})

Observe(c) ==
  /\ command[c].stage = "observe"
  /\ \E seen \in Observations :
       \/ command[c].part = "status" /\ EndsWith(c, "status")
       \/ command[c].part = "start" /\ EndsWith(c, IF seen = "none" THEN "HOST_NOT_READY" ELSE "running")
       \/ /\ command[c].part = "stop"
          /\ IF command[c].force \/ seen = "free" THEN GoesTo(c, "open")
             ELSE EndsWith(c, IF seen = "none" THEN "MCP_UNOBSERVABLE" ELSE "TARGET_ATTACHED")

-----------------------------------------------------------------------------
\* Mutant: the pid alone is the identity.
IdentityByPid(c) == processes[command[c].pid].image # "none"

\* _open_verified: the path is asked for again, through the handle.
Identity(c) == processes[command[c].pid].image = command[c].image

OpenVerified(c) ==
  /\ command[c].stage = "open"
  /\ \/ /\ Identity(c)
        /\ Becomes(c, [command[c] EXCEPT !.stage = "close",
                                         !.handle = processes[command[c].pid].number])
     \/ EndsWith(c, "HOST_STOP_FAILED")

\* WM_CLOSE to the windows of the pid, and TerminateProcess, reach what runs there.
Touched(c) == command[c].touched \cup ({processes[command[c].pid].image} \ {"none"})

\* EnumWindows.
CloseWindows(c) ==
  /\ command[c].stage = "close"
  /\ \/ EndsWith(c, "HOST_STOP_FAILED")
     \/ Becomes(c, [command[c] EXCEPT !.stage = "wait", !.touched = Touched(c)])

\* Mutant: terminated is taken for exited.
ExitedOnceTerminated(c) == command[c].stage = "confirm" \/ ~Lives(command[c].handle)

\* WAIT_OBJECT_0.
Exited(c) == ~Lives(command[c].handle)

\* WaitForSingleObject, for half of the budget if termination may follow; it may fail, or
\* EnumWindows have failed after some windows.
WaitExit(c) ==
  /\ command[c].stage = "wait"
  /\ \/ EndsWith(c, "HOST_STOP_FAILED")
     \/ Exited(c) /\ Stopped(c, "stopped")
     \/ ~Exited(c) /\ ~command[c].force /\ EndsWith(c, "HOST_STOP_TIMEOUT")
     \/ ~Exited(c) /\ command[c].force /\ GoesTo(c, "terminate")

\* TerminateProcess may fail; the exit that it asks for comes later.
Terminate(c) ==
  /\ command[c].stage = "terminate"
  /\ \/ EndsWith(c, "HOST_STOP_TIMEOUT")
     \/ Becomes(c, [command[c] EXCEPT !.stage = "confirm", !.touched = Touched(c)])

ConfirmExit(c) ==
  /\ command[c].stage = "confirm"
  /\ IF Exited(c) THEN Stopped(c, "stopped") ELSE EndsWith(c, "HOST_STOP_TIMEOUT")

-----------------------------------------------------------------------------
\* A process starts at a pid that is free; the launch of a host's sidecar is still to come.
StartsAt(p, image) ==
  /\ born < MaxBorn /\ processes[p] = None /\ ~HandleOpen(p)
  /\ born' = born + 1
  /\ processes' = [processes EXCEPT ![p] = [image |-> image, number |-> born + 1, launched |-> FALSE]]
  /\ UNCHANGED port

\* _resolve_executable.
Unresolved(c) == EndsWith(c, "HOST_EXECUTABLE_MISSING")

\* start with no host: Popen, which may fail.
Launch(c) ==
  /\ command[c].stage = "launch"
  /\ \/ Unresolved(c) \/ EndsWith(c, "HOST_START_FAILED")
     \/ /\ \E p \in HostPids, image \in HostImages : StartsAt(p, image)
        /\ command' = [command EXCEPT ![c].stage = "poll", ![c].launched = TRUE]

\* The loop of start: until the deadline, one host and its readiness.
Poll(c) ==
  /\ command[c].stage = "poll"
  /\ \/ Cardinality(Hosts) = 1 /\ GoesTo(c, "probe")
     \/ EndsWith(c, "HOST_START_TIMEOUT") \/ EndsWith(c, "HOST_OBSERVATION_FAILED")

Probe(c) ==
  /\ command[c].stage = "probe"
  /\ \E seen \in Observations : IF seen = "none" THEN GoesTo(c, "poll") ELSE EndsWith(c, "started")

-----------------------------------------------------------------------------
\* The user and the launcher start processes; processes exit, asked to or not.
ProcessStarts ==
  /\ \E p \in HostPids, image \in Images : StartsAt(p, image)
  /\ UNCHANGED command

ProcessExits ==
  /\ \E p \in HostPids : processes[p] # None /\ processes' = [processes EXCEPT ![p] = None]
  /\ UNCHANGED <<born, port, command>>

\* run and run_http of the sidecar: it exits if its configuration is refused or the port held.
Binds(number) == port' = port \/ (port = 0 /\ port' = number)

\* startMCPServer, once in the life of a host.
SidecarStarts ==
  /\ \E p \in Hosts :
       /\ ~processes[p].launched
       /\ processes' = [processes EXCEPT ![p].launched = TRUE]
       /\ Binds(processes[p].number)
  /\ UNCHANGED <<born, command>>

\* _watch_ce_exit, some time after the exit of the host.
SidecarExits ==
  /\ port # 0 /\ ~Lives(port)
  /\ port' = 0
  /\ UNCHANGED <<processes, born, command>>

CommandStep(c) ==
  Invoke(c) \/ ListHosts(c) \/ Observe(c) \/ OpenVerified(c) \/ CloseWindows(c) \/ WaitExit(c)
    \/ Terminate(c) \/ ConfirmExit(c) \/ Launch(c) \/ Poll(c) \/ Probe(c)

HostNext ==
  (\E c \in Commands : CommandStep(c))
    \/ ProcessStarts \/ ProcessExits \/ SidecarStarts \/ SidecarExits

HostSpec == HostInit /\ [][HostNext]_hostVars

-----------------------------------------------------------------------------
\* "PID-only identity is insufficient" (host-control-v1.md 35): whatever exits, starts and
\* takes over pids while a command runs, WM_CLOSE and TerminateProcess reach only processes
\* that run from the executable path that was listed (platform.py 96-109 and 145-180).
OnlyHostsAreClosed == \A c \in Commands : command[c].touched \subseteq {command[c].image}

\* What an answer says of a host that the command touched.  "A timeout or failed termination
\* never claims the final state is known" (host-control-v1.md 73): after WM_CLOSE the outcome
\* is known only if the exit was seen, and after a launch a failure is known only if the
\* processes could not be listed (core.py 133-190).
HostOutcomeIsHonest ==
  \A c \in Commands :
    command[c].stage = "done" =>
      /\ command[c].touched # {} /\ command[c].code \notin UnknownCodes => ~Lives(command[c].handle)
      /\ command[c].launched /\ command[c].code \in KnownCodes =>
           command[c].code = "HOST_OBSERVATION_FAILED"
=============================================================================
