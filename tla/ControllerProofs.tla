--------------------------- MODULE ControllerProofs ---------------------------
(***************************************************************************)
(* Proofs about the controller: HostController, for any number of          *)
(* commands, pids and executables, and SharedConfig, which it reads with   *)
(* the sidecar.                                                            *)
(***************************************************************************)
EXTENDS HostController, SharedConfig, TLAPS

-----------------------------------------------------------------------------
(* Its commands.                                                           *)

\* What a command record r knows of the processes.  Nothing was touched before platform.stop;
\* the process behind an open handle runs from the path that was listed, or is gone; a stop
\* that has returned has seen the exit; and an answer says so.
CommandSound(r) ==
  /\ r.handle <= born
  /\ r.touched \subseteq {r.image}
  /\ r.stage \in {"idle", "open", "close"} => r.touched = {}
  /\ r.part = "stop" /\ r.stage \in {"list", "observe"} => r.touched = {}
  /\ r.stage \in HandleStages =>
       /\ r.pid \in HostPids
       /\ processes[r.pid] = None \/ processes[r.pid].image = r.image
  /\ r.stage = "open" => r.pid \in HostPids
  /\ r.part = "stop" /\ r.stage = "observe" => r.pid \in HostPids
  /\ r.touched # {} /\ r.stage \in {"list", "observe", "launch", "poll", "probe"} => ~Lives(r.handle)
  /\ r.launched => r.stage \in {"poll", "probe", "done"}
  /\ r.stage = "done" =>
       /\ r.touched # {} /\ r.code \notin UnknownCodes => ~Lives(r.handle)
       /\ r.launched /\ r.code \in KnownCodes => r.code = "HOST_OBSERVATION_FAILED"

NumbersInv == \A p \in HostPids : processes[p].number <= born

HostInv == HostTypeOK /\ NumbersInv /\ \A c \in Commands : CommandSound(command[c])

LEMMA HostInitial == HostInit => HostInv
<1> SUFFICES ASSUME HostInit PROVE HostInv  OBVIOUS
<1>1. NotInvoked \in Command
  BY HostAssumption DEF NotInvoked, Command, Actions, Stages
<1>2. HostTypeOK /\ NumbersInv
  BY <1>1, HostAssumption DEF HostInit, HostTypeOK, NumbersInv, None
<1>3. CommandSound(NotInvoked)
  BY <1>1 DEF HostInit, CommandSound, NotInvoked, HandleStages
<1> QED  BY <1>2, <1>3 DEF HostInit, HostInv

\* A command whose record becomes a sound one.
LEMMA BecomesSound ==
  ASSUME HostInv, NEW c \in Commands, NEW r \in Command, Becomes(c, r), CommandSound(r)
  PROVE  HostInv'
<1>1. command' = [command EXCEPT ![c] = r] /\ UNCHANGED <<processes, born, port>>
  BY DEF Becomes
<1>2. command' \in [Commands -> Command]
  BY <1>1 DEF HostInv, HostTypeOK
<1>3. HostTypeOK' /\ NumbersInv'
  BY <1>1, <1>2 DEF HostInv, HostTypeOK, NumbersInv
<1>4. ASSUME NEW d \in Commands PROVE CommandSound(command[d])'
  <2>1. command'[d] = IF d = c THEN r ELSE command[d]
    BY <1>1 DEF HostInv, HostTypeOK
  <2>2. CommandSound(command'[d])
    BY <2>1 DEF HostInv
  <2> QED  BY <1>1, <2>2 DEF CommandSound, Lives
<1> QED  BY <1>3, <1>4 DEF HostInv

\* The last answer of a command (core.py 26-44, cli.py 83-88).
LEMMA EndsSound ==
  ASSUME HostInv, NEW c \in Commands, NEW code \in OkCodes \cup KnownCodes \cup UnknownCodes,
         EndsWith(c, code),
         \/ command[c].touched = {}
         \/ code \in UnknownCodes
         \/ ~Lives(command[c].handle),
         command[c].launched /\ code \in KnownCodes => code = "HOST_OBSERVATION_FAILED"
  PROVE  HostInv'
<1> DEFINE was == command[c]
           image == IF was.touched = {} THEN "none" ELSE was.image
           r == [action |-> "status", force |-> FALSE, stage |-> "done", part |-> "status",
                 pid |-> 0, image |-> image, handle |-> was.handle, touched |-> was.touched,
                 launched |-> was.launched, code |-> code]
<1>1. was \in Command /\ CommandSound(was)
  BY DEF HostInv, HostTypeOK
<1>2. r \in Command
  <2>1. image \in HostImages \cup {"none"} /\ was.handle \in 0 .. MaxBorn
        /\ was.touched \in SUBSET Images /\ was.launched \in BOOLEAN
    BY <1>1 DEF Command
  <2> HIDE DEF image, was
  <2> QED  BY <2>1 DEF Command, Actions, Stages
<1>3. /\ r.stage = "done" /\ r.code = code /\ r.handle = was.handle /\ r.part = "status"
      /\ r.image = image /\ r.touched = was.touched /\ r.launched = was.launched
  OBVIOUS
<1>4. CommandSound(r)
  <2>1. /\ was.handle <= born /\ was.touched \subseteq {was.image}
    BY <1>1 DEF CommandSound
  <2>2. was.touched \subseteq {image}
    BY <2>1
  <2>3. /\ was.touched # {} /\ code \notin UnknownCodes => ~Lives(was.handle)
        /\ was.launched /\ code \in KnownCodes => code = "HOST_OBSERVATION_FAILED"
    OBVIOUS
  <2> HIDE DEF r, was, image
  <2> QED  BY <1>3, <2>1, <2>2, <2>3 DEF CommandSound, HandleStages
<1>5. Becomes(c, r)
  BY DEF EndsWith
<1> QED  BY <1>2, <1>4, <1>5, BecomesSound

\* platform.stop returned, having seen no host or an exit (core.py 158-190).
LEMMA StoppedSound ==
  ASSUME HostInv, NEW c \in Commands, NEW code \in {"not_running", "stopped"},
         Stopped(c, code),
         command[c].touched = {} \/ ~Lives(command[c].handle),
         command[c].stage \in {"list", "wait", "confirm"}
  PROVE  HostInv'
<1>1. command[c] \in Command /\ CommandSound(command[c])
  BY DEF HostInv, HostTypeOK
<1>2. ~command[c].launched
  BY <1>1 DEF CommandSound
<1>3. CASE EndsWith(c, code)
  BY <1>2, <1>3, EndsSound DEF OkCodes
<1>4. CASE EndsWith(c, "HOST_RESTART_TIMEOUT")
  BY <1>2, <1>4, EndsSound DEF UnknownCodes
<1>5. CASE Becomes(c, [command[c] EXCEPT !.stage = "list", !.part = "start"])
  <2> DEFINE r == [command[c] EXCEPT !.stage = "list", !.part = "start"]
  <2>1. r \in Command
    BY <1>1 DEF Command, Stages, Actions
  <2>2. /\ r.handle = command[c].handle /\ r.touched = command[c].touched
        /\ r.image = command[c].image /\ r.launched = command[c].launched
        /\ r.stage = "list" /\ r.part = "start"
    BY <1>1 DEF Command
  <2>3. CommandSound(r)
    <3> HIDE DEF r
    <3> QED  BY <1>1, <1>2, <2>2 DEF CommandSound, HandleStages
  <2> HIDE DEF r
  <2> QED  BY <1>5, <2>1, <2>3, BecomesSound DEF r
<1> QED  BY <1>3, <1>4, <1>5 DEF Stopped

\* A command that only goes on to another stage keeps what it knows.
LEMMA GoesSound ==
  ASSUME HostInv, NEW c \in Commands, NEW stage \in Stages \ {"idle", "done"}, GoesTo(c, stage),
         stage = "open" =>
           /\ command[c].part = "stop" /\ command[c].stage = "observe",
         stage = "observe" => command[c].stage = "list" /\ command[c].part # "stop",
         stage = "launch" => command[c].stage = "list" /\ command[c].part # "stop",
         stage = "poll" => command[c].stage = "probe",
         stage = "probe" => command[c].stage = "poll",
         stage = "terminate" => command[c].stage = "wait",
         stage \notin {"list", "close", "wait", "confirm"}
  PROVE  HostInv'
<1> DEFINE r == [command[c] EXCEPT !.stage = stage]
<1>1. command[c] \in Command /\ CommandSound(command[c])
  BY DEF HostInv, HostTypeOK
<1>2. r \in Command
  BY <1>1 DEF Command
<1>3. /\ r.handle = command[c].handle /\ r.touched = command[c].touched
      /\ r.image = command[c].image /\ r.launched = command[c].launched
      /\ r.stage = stage /\ r.part = command[c].part /\ r.pid = command[c].pid
  BY <1>1 DEF Command
<1>4. CommandSound(r)
  <2> HIDE DEF r
  <2>1. stage \in {"observe", "open", "terminate", "launch", "poll", "probe"}
    BY DEF Stages
  <2> QED  BY <1>1, <1>3, <2>1 DEF CommandSound, HandleStages
<1>5. Becomes(c, r)
  BY DEF GoesTo
<1> HIDE DEF r
<1> QED  BY <1>2, <1>4, <1>5, BecomesSound

LEMMA InvokeSound ==
  ASSUME HostInv, NEW c \in Commands, Invoke(c)
  PROVE  HostInv'
<1>1. command[c] \in Command /\ CommandSound(command[c]) /\ command[c].stage = "idle"
  BY DEF HostInv, HostTypeOK, Invoke
<1>2. command[c].touched = {} /\ ~command[c].launched
  BY <1>1 DEF CommandSound
<1>3. CASE ConfigRefused(c)
  BY <1>2, <1>3, EndsSound DEF ConfigRefused, KnownCodes
<1>4. ASSUME NEW action \in Actions, NEW force \in BOOLEAN,
             Becomes(c, [command[c] EXCEPT !.action = action, !.force = force, !.stage = "list",
                          !.part = IF action = "restart" THEN "stop" ELSE action])
      PROVE  HostInv'
  <2> DEFINE part == IF action = "restart" THEN "stop" ELSE action
             r == [command[c] EXCEPT !.action = action, !.force = force, !.stage = "list", !.part = part]
  <2>1. part \in Actions  BY DEF Actions
  <2>2. r \in Command
    <3> HIDE DEF part
    <3> QED  BY <1>1, <2>1 DEF Command, Stages
  <2>3. /\ r.handle = command[c].handle /\ r.touched = {} /\ ~r.launched /\ r.stage = "list"
    <3> HIDE DEF part
    <3> QED  BY <1>1, <1>2 DEF Command
  <2>4. CommandSound(r)
    <3> HIDE DEF r
    <3> QED  BY <1>1, <2>3 DEF CommandSound, HandleStages
  <2>5. Becomes(c, r)  BY <1>4
  <2> HIDE DEF r
  <2> QED  BY <2>2, <2>4, <2>5, BecomesSound
<1> QED  BY <1>3, <1>4 DEF Invoke

\* What processes may do: exit, launch their sidecar, or start at a pid no handle holds.
ProcessesMove ==
  /\ born' \in Nat /\ born <= born'
  /\ \A p \in HostPids :
       \/ processes'[p] = None
       \/ /\ processes[p] # None
          /\ processes'[p].image = processes[p].image
          /\ processes'[p].number = processes[p].number
       \/ ~HandleOpen(p) /\ processes'[p].number > born

\* Numbers are not given twice, so that a process that is gone stays gone.
LEMMA GoneStaysGone ==
  ASSUME HostInv, ProcessesMove, NEW n \in 0 .. born, ~Lives(n)
  PROVE  ~Lives(n)'
<1> SUFFICES ASSUME NEW p \in HostPids, n # 0, processes'[p].number = n PROVE FALSE
  BY DEF Lives
<1>1. processes[p].number # n
  BY DEF Lives
<1>2. processes'[p] # None
  BY DEF None
<1>3. processes'[p].number > born
  BY <1>1, <1>2 DEF ProcessesMove
<1> QED  BY <1>3 DEF HostInv, HostTypeOK

\* What a command knows survives what processes do meanwhile (platform.py 96-109, 145-180).
LEMMA ProcessesKeepSound ==
  ASSUME HostInv, ProcessesMove, NEW c \in Commands, command'[c] = command[c]
  PROVE  CommandSound(command[c])'
<1>1. command[c] \in Command /\ CommandSound(command[c]) /\ born \in Nat
  BY DEF HostInv, HostTypeOK
<1>2. command[c].handle \in 0 .. born
  BY <1>1 DEF Command, CommandSound
<1>3. ~Lives(command[c].handle) => ~Lives(command[c].handle)'
  BY <1>2, GoneStaysGone
<1>4. ASSUME command[c].stage \in HandleStages
      PROVE  LET p == command[c].pid
             IN  p \in HostPids /\ (processes'[p] = None \/ processes'[p].image = command[c].image)
  <2> DEFINE p == command[c].pid
  <2>1. p \in HostPids /\ (processes[p] = None \/ processes[p].image = command[c].image)
    BY <1>1, <1>4 DEF CommandSound
  <2>2. HandleOpen(p)
    BY <1>4 DEF HandleOpen
  <2>3. CASE processes'[p] = None
    BY <2>1, <2>3
  <2>4. CASE processes[p] # None /\ processes'[p].image = processes[p].image
    BY <2>1, <2>4
  <2> QED  BY <2>1, <2>2, <2>3, <2>4 DEF ProcessesMove
<1>5. command[c].handle <= born'
  BY <1>2 DEF ProcessesMove, HostInv, HostTypeOK
<1> QED  BY <1>1, <1>3, <1>4, <1>5 DEF CommandSound

\* ListHosts decides on the hosts of one snapshot (core.py 74-105, 133-140, 158-162).
LEMMA ListSound ==
  ASSUME HostInv, NEW c \in Commands, ListHosts(c)
  PROVE  HostInv'
<1>1. command[c] \in Command /\ CommandSound(command[c]) /\ command[c].stage = "list"
  BY DEF HostInv, HostTypeOK, ListHosts
<1>2. ~command[c].launched /\ (command[c].touched = {} \/ ~Lives(command[c].handle))
  BY <1>1 DEF CommandSound
<1>3. ASSUME NEW code \in {"HOST_OBSERVATION_FAILED", "MULTIPLE_HOSTS", "status"}, EndsWith(c, code)
      PROVE  HostInv'
  <2>1. code \in OkCodes \cup KnownCodes \cup UnknownCodes
    BY DEF OkCodes, KnownCodes
  <2> QED  BY <1>2, <1>3, <2>1, EndsSound
<1>4. CASE command[c].part # "stop" /\ (GoesTo(c, "observe") \/ GoesTo(c, "launch"))
  BY <1>1, <1>4, GoesSound DEF Stages
<1>5. ASSUME NEW p \in Hosts, command[c].part = "stop",
             Becomes(c, [command[c] EXCEPT !.stage = "observe", !.pid = p, !.image = processes[p].image])
      PROVE  HostInv'
  <2> DEFINE r == [command[c] EXCEPT !.stage = "observe", !.pid = p, !.image = processes[p].image]
  <2>1. p \in HostPids /\ processes[p].image \in HostImages
    BY DEF Hosts
  <2>2. r \in Command
    BY <1>1, <2>1 DEF Command, Stages
  <2>3. /\ r.handle = command[c].handle /\ r.touched = command[c].touched
        /\ r.launched = command[c].launched /\ r.part = "stop"
        /\ r.stage = "observe" /\ r.pid = p
    BY <1>1, <1>5 DEF Command
  <2>4. r.touched = {}
    BY <1>1, <1>5, <2>3 DEF CommandSound
  <2>5. CommandSound(r)
    <3> HIDE DEF r
    <3> QED  BY <1>1, <2>1, <2>3, <2>4 DEF CommandSound, HandleStages
  <2> HIDE DEF r
  <2> QED  BY <1>5, <2>2, <2>5, BecomesSound DEF r
<1>6. CASE Stopped(c, "not_running")
  BY <1>1, <1>2, <1>6, StoppedSound
<1> QED  BY <1>3, <1>4, <1>5, <1>6 DEF ListHosts

\* What follows an observation (core.py 101-105, 133-139, 158-169).
LEMMA ObserveSound ==
  ASSUME HostInv, NEW c \in Commands, Observe(c)
  PROVE  HostInv'
<1>1. command[c] \in Command /\ CommandSound(command[c]) /\ command[c].stage = "observe"
  BY DEF HostInv, HostTypeOK, Observe
<1>2. ~command[c].launched /\ (command[c].touched = {} \/ ~Lives(command[c].handle))
  BY <1>1 DEF CommandSound
<1>3. ASSUME NEW code \in {"status", "HOST_NOT_READY", "running", "MCP_UNOBSERVABLE", "TARGET_ATTACHED"},
             EndsWith(c, code)
      PROVE  HostInv'
  <2>1. code \in OkCodes \cup KnownCodes \cup UnknownCodes
    BY DEF OkCodes, KnownCodes
  <2> QED  BY <1>2, <1>3, <2>1, EndsSound
<1>4. CASE command[c].part = "stop" /\ GoesTo(c, "open")
  BY <1>1, <1>4, GoesSound DEF Stages
<1>5. PICK seen \in Observations :
       \/ command[c].part = "status" /\ EndsWith(c, "status")
       \/ command[c].part = "start" /\ EndsWith(c, IF seen = "none" THEN "HOST_NOT_READY" ELSE "running")
       \/ /\ command[c].part = "stop"
          /\ IF command[c].force \/ seen = "free" THEN GoesTo(c, "open")
             ELSE EndsWith(c, IF seen = "none" THEN "MCP_UNOBSERVABLE" ELSE "TARGET_ATTACHED")
  BY DEF Observe
<1> QED
  <2> DEFINE answer == IF seen = "none" THEN "HOST_NOT_READY" ELSE "running"
             refusal == IF seen = "none" THEN "MCP_UNOBSERVABLE" ELSE "TARGET_ATTACHED"
  <2>1. CASE EndsWith(c, "status")  BY <1>3, <2>1
  <2>2. CASE EndsWith(c, answer)
    <3>1. answer \in {"HOST_NOT_READY", "running"}  OBVIOUS
    <3> HIDE DEF answer
    <3> QED  BY <1>3, <2>2, <3>1
  <2>3. CASE EndsWith(c, refusal)
    <3>1. refusal \in {"MCP_UNOBSERVABLE", "TARGET_ATTACHED"}  OBVIOUS
    <3> HIDE DEF refusal
    <3> QED  BY <1>3, <2>3, <3>1
  <2> QED  BY <1>4, <1>5, <2>1, <2>2, <2>3

\* The handle is opened on the process whose path was listed (platform.py 96-109).
LEMMA OpenSound ==
  ASSUME HostInv, NEW c \in Commands, OpenVerified(c)
  PROVE  HostInv'
<1>1. /\ command[c] \in Command /\ CommandSound(command[c]) /\ command[c].stage = "open"
      /\ HostTypeOK /\ NumbersInv
  BY DEF HostInv, HostTypeOK, OpenVerified
<1>2. ~command[c].launched /\ command[c].touched = {} /\ command[c].pid \in HostPids
  BY <1>1 DEF CommandSound
<1>3. CASE EndsWith(c, "HOST_STOP_FAILED")
  BY <1>2, <1>3, EndsSound DEF UnknownCodes
<1>4. CASE Identity(c) /\ Becomes(c, [command[c] EXCEPT !.stage = "close",
                                        !.handle = processes[command[c].pid].number])
  <2> DEFINE number == processes[command[c].pid].number
             r == [command[c] EXCEPT !.stage = "close", !.handle = number]
  <2>1. number \in 0 .. MaxBorn /\ number <= born
    <3>1. processes[command[c].pid] \in
            {None} \cup [image : Images, number : 1 .. MaxBorn, launched : BOOLEAN]
      BY <1>1, <1>2 DEF HostTypeOK
    <3>2. number \in 0 .. MaxBorn
      BY <3>1, HostAssumption DEF None
    <3> QED  BY <1>1, <1>2, <3>2 DEF NumbersInv
  <2>2. r \in Command
    <3> HIDE DEF number
    <3> QED  BY <1>1, <2>1 DEF Command, Stages
  <2>3. /\ r.handle = number /\ r.touched = {} /\ ~r.launched /\ r.stage = "close"
        /\ r.pid = command[c].pid /\ r.image = command[c].image
    <3> HIDE DEF number
    <3> QED  BY <1>1, <1>2 DEF Command
  <2>4. CommandSound(r)
    <3> HIDE DEF r, number
    <3> QED  BY <1>2, <1>4, <2>1, <2>3 DEF CommandSound, HandleStages, Identity
  <2>5. Becomes(c, r)  BY <1>4
  <2> HIDE DEF r
  <2> QED  BY <2>2, <2>4, <2>5, BecomesSound
<1> QED  BY <1>3, <1>4 DEF OpenVerified

\* What is closed or terminated is what the open handle names (platform.py 150-175).
LEMMA TouchSound ==
  ASSUME HostInv, NEW c \in Commands, NEW stage \in {"wait", "confirm"},
         command[c].stage \in {"close", "terminate"},
         Becomes(c, [command[c] EXCEPT !.stage = stage, !.touched = Touched(c)])
  PROVE  HostInv'
<1> DEFINE r == [command[c] EXCEPT !.stage = stage, !.touched = Touched(c)]
<1>1. command[c] \in Command /\ CommandSound(command[c]) /\ HostTypeOK
  BY DEF HostInv, HostTypeOK
<1>2. /\ command[c].pid \in HostPids
      /\ processes[command[c].pid] = None \/ processes[command[c].pid].image = command[c].image
      /\ ~command[c].launched /\ command[c].touched \subseteq {command[c].image}
  BY <1>1 DEF CommandSound, HandleStages
<1>3. Touched(c) \subseteq {command[c].image} /\ Touched(c) \in SUBSET Images
  <2>1. processes[command[c].pid].image \in Images \cup {"none"}
    BY <1>1, <1>2 DEF HostTypeOK, None
  <2>2. command[c].touched \in SUBSET Images
    BY <1>1 DEF Command
  <2> QED  BY <1>2, <2>1, <2>2 DEF Touched, None
<1>4. r \in Command
  BY <1>1, <1>3 DEF Command, Stages
<1>5. /\ r.handle = command[c].handle /\ r.touched = Touched(c) /\ ~r.launched /\ r.stage = stage
      /\ r.pid = command[c].pid /\ r.image = command[c].image /\ r.part = command[c].part
  BY <1>1, <1>2 DEF Command
<1>6. CommandSound(r)
  <2> HIDE DEF r
  <2> QED  BY <1>1, <1>2, <1>3, <1>5 DEF CommandSound, HandleStages
<1>7. Becomes(c, r)  OBVIOUS
<1> HIDE DEF r
<1> QED  BY <1>4, <1>6, <1>7, BecomesSound

\* The rest of platform.stop (platform.py 150-180).
LEMMA StopSound ==
  ASSUME HostInv, NEW c \in Commands,
         CloseWindows(c) \/ WaitExit(c) \/ Terminate(c) \/ ConfirmExit(c)
  PROVE  HostInv'
<1>1. command[c] \in Command /\ CommandSound(command[c])
  BY DEF HostInv, HostTypeOK
<1>2. command[c].stage \in HandleStages /\ ~command[c].launched
  BY <1>1 DEF CloseWindows, WaitExit, Terminate, ConfirmExit, CommandSound, HandleStages
<1>3. CASE EndsWith(c, "HOST_STOP_FAILED") \/ EndsWith(c, "HOST_STOP_TIMEOUT")
  BY <1>2, <1>3, EndsSound DEF UnknownCodes
<1>4. CASE Exited(c) /\ Stopped(c, "stopped") /\ command[c].stage \in {"wait", "confirm"}
  BY <1>4, StoppedSound DEF Exited
<1>5. CASE command[c].stage = "wait" /\ GoesTo(c, "terminate")
  BY <1>5, GoesSound DEF Stages
<1>6. CASE /\ command[c].stage = "close"
           /\ Becomes(c, [command[c] EXCEPT !.stage = "wait", !.touched = Touched(c)])
  BY <1>6, TouchSound
<1>7. CASE /\ command[c].stage = "terminate"
           /\ Becomes(c, [command[c] EXCEPT !.stage = "confirm", !.touched = Touched(c)])
  BY <1>7, TouchSound
<1> QED
  BY <1>3, <1>4, <1>5, <1>6, <1>7 DEF CloseWindows, WaitExit, Terminate, ConfirmExit

\* A process that starts moves as ProcessesMove says.
LEMMA StartMoves ==
  ASSUME HostInv, NEW p \in HostPids, NEW image \in Images, StartsAt(p, image)
  PROVE  /\ ProcessesMove /\ NumbersInv' /\ UNCHANGED port
         /\ born' \in 0 .. MaxBorn
         /\ processes' \in [HostPids -> {None} \cup
                              [image : Images, number : 1 .. MaxBorn, launched : BOOLEAN]]
<1> DEFINE new == [image |-> image, number |-> born + 1, launched |-> FALSE]
<1>1. /\ born < MaxBorn /\ processes[p] = None /\ ~HandleOpen(p) /\ born' = born + 1
      /\ processes' = [processes EXCEPT ![p] = new] /\ UNCHANGED port
      /\ born \in 0 .. MaxBorn
  BY DEF StartsAt, HostInv, HostTypeOK
<1>2. /\ new \in [image : Images, number : 1 .. MaxBorn, launched : BOOLEAN]
      /\ new.number = born + 1 /\ born' \in 0 .. MaxBorn
  BY <1>1, HostAssumption
<1> HIDE DEF new
<1>3. \A q \in HostPids : processes'[q] = IF q = p THEN new ELSE processes[q]
  BY <1>1 DEF HostInv, HostTypeOK
<1>4. ProcessesMove
  BY <1>1, <1>2, <1>3 DEF ProcessesMove
<1>5. \A q \in HostPids : processes[q].number \in Nat /\ processes[q].number <= born
  BY HostAssumption DEF HostInv, HostTypeOK, NumbersInv, None
<1>6. NumbersInv'
  BY <1>1, <1>2, <1>3, <1>5 DEF NumbersInv
<1>7. processes' \in [HostPids -> {None} \cup
                       [image : Images, number : 1 .. MaxBorn, launched : BOOLEAN]]
  BY <1>1, <1>2 DEF HostInv, HostTypeOK
<1> QED  BY <1>1, <1>2, <1>4, <1>6, <1>7

\* start launches a host and polls (core.py 140-156).
LEMMA LaunchSound ==
  ASSUME HostInv, NEW c \in Commands, Launch(c) \/ Poll(c) \/ Probe(c)
  PROVE  HostInv'
<1>1. command[c] \in Command /\ CommandSound(command[c])
  BY DEF HostInv, HostTypeOK
<1>2. command[c].touched = {} \/ ~Lives(command[c].handle)
  BY <1>1 DEF CommandSound, Launch, Poll, Probe
<1>3. CASE command[c].stage = "launch" /\ (Unresolved(c) \/ EndsWith(c, "HOST_START_FAILED"))
  <2>1. ~command[c].launched  BY <1>1, <1>3 DEF CommandSound
  <2> QED  BY <1>2, <1>3, <2>1, EndsSound DEF Unresolved, KnownCodes, UnknownCodes
<1>4. CASE EndsWith(c, "HOST_START_TIMEOUT")
  BY <1>2, <1>4, EndsSound DEF KnownCodes, UnknownCodes
<1>5. CASE EndsWith(c, "HOST_OBSERVATION_FAILED")
  BY <1>2, <1>5, EndsSound DEF KnownCodes
<1>6. CASE EndsWith(c, "started")
  BY <1>2, <1>6, EndsSound DEF KnownCodes, OkCodes
<1>7. CASE \/ command[c].stage = "poll" /\ GoesTo(c, "probe")
           \/ command[c].stage = "probe" /\ GoesTo(c, "poll")
  BY <1>7, GoesSound DEF Stages
<1>8. ASSUME NEW p \in HostPids, NEW image \in HostImages, StartsAt(p, image),
             command' = [command EXCEPT ![c].stage = "poll", ![c].launched = TRUE],
             command[c].stage = "launch"
      PROVE  HostInv'
  <2> DEFINE r == [command[c] EXCEPT !.stage = "poll", !.launched = TRUE]
  <2>1. /\ ProcessesMove /\ NumbersInv' /\ UNCHANGED port
        /\ born' \in 0 .. MaxBorn
        /\ processes' \in [HostPids -> {None} \cup
                             [image : Images, number : 1 .. MaxBorn, launched : BOOLEAN]]
    BY <1>8, StartMoves DEF Images
  <2>2. r \in Command
    BY <1>1 DEF Command, Stages
  <2>3. /\ r.handle = command[c].handle /\ r.touched = command[c].touched
        /\ r.image = command[c].image /\ r.stage = "poll"
    BY <1>1 DEF Command
  <2>4. command' = [command EXCEPT ![c] = r]
    BY <1>8 DEF HostInv, HostTypeOK
  <2> HIDE DEF r
  <2>5. HostTypeOK'
    BY <2>1, <2>2, <2>4 DEF HostInv, HostTypeOK
  <2>6. ASSUME NEW d \in Commands, d # c PROVE CommandSound(command[d])'
    <3>1. command'[d] = command[d]
      BY <2>4, <2>6 DEF HostInv, HostTypeOK
    <3> QED  BY <2>1, <3>1, ProcessesKeepSound
  <2>7. CommandSound(command[c])'
    <3>1. command'[c] = r
      BY <2>4 DEF HostInv, HostTypeOK
    <3>2. r.handle \in 0 .. born
      BY <1>1, <2>3 DEF Command, CommandSound, HostInv, HostTypeOK
    <3>3. r.touched = {} \/ ~Lives(r.handle)
      BY <1>2, <2>3
    <3>4. \A p1 \in HostPids : r.handle # 0 /\ processes'[p1].number = r.handle =>
             processes[p1].number = r.handle
      <4> SUFFICES ASSUME NEW q \in HostPids, r.handle # 0, processes'[q].number = r.handle,
                          processes[q].number # r.handle
                   PROVE  FALSE
        OBVIOUS
      <4>1. processes'[q].number > born
        BY <2>1 DEF ProcessesMove, None
      <4> QED  BY <3>2, <4>1 DEF HostInv, HostTypeOK
    <3>5. r.touched = {} \/ ~(\E p1 \in HostPids : r.handle # 0 /\ processes'[p1].number = r.handle)
      BY <3>3, <3>4 DEF Lives
    <3>6. r.handle <= born'
      BY <2>1, <3>2 DEF ProcessesMove, HostInv, HostTypeOK
    <3>7. r.touched \subseteq {r.image}
      BY <1>1, <2>3 DEF CommandSound
    <3> QED  BY <2>3, <3>1, <3>5, <3>6, <3>7 DEF CommandSound, HandleStages, Lives
  <2> QED  BY <2>1, <2>5, <2>6, <2>7 DEF HostInv
<1>9. PICK seen \in Observations : Probe(c) => IF seen = "none" THEN GoesTo(c, "poll") ELSE EndsWith(c, "started")
  BY DEF Probe, Observations
<1> QED  BY <1>3, <1>4, <1>5, <1>6, <1>7, <1>8, <1>9 DEF Launch, Poll, Probe

\* Processes and sidecars that come and go by themselves.
LEMMA SurroundingsSound ==
  ASSUME HostInv, ProcessStarts \/ ProcessExits \/ SidecarStarts \/ SidecarExits
  PROVE  HostInv'
<1>1. HostTypeOK /\ NumbersInv /\ command' = command /\ born \in Nat
  BY DEF HostInv, HostTypeOK, ProcessStarts, ProcessExits, SidecarStarts, SidecarExits
<1>2. ProcessesMove /\ NumbersInv' /\ HostTypeOK'
  <2>1. CASE ProcessStarts
    <3>1. PICK p \in HostPids, image \in Images : StartsAt(p, image)
      BY <2>1 DEF ProcessStarts
    <3> QED  BY <1>1, <3>1, StartMoves DEF HostTypeOK
  <2>2. CASE ProcessExits
    <3>1. PICK p \in HostPids : processes' = [processes EXCEPT ![p] = None]
      BY <2>2 DEF ProcessExits
    <3>2. UNCHANGED <<born, port>>
      BY <2>2 DEF ProcessExits
    <3>3. \A q \in HostPids : processes'[q] = IF q = p THEN None ELSE processes[q]
      BY <1>1, <3>1 DEF HostTypeOK
    <3>4. ProcessesMove
      BY <1>1, <3>2, <3>3 DEF ProcessesMove
    <3>5. NumbersInv'
      BY <1>1, <3>2, <3>3 DEF NumbersInv, None
    <3>6. HostTypeOK'
      BY <1>1, <3>1, <3>2 DEF HostTypeOK
    <3> QED  BY <3>4, <3>5, <3>6
  <2>3. CASE SidecarStarts
    <3>1. PICK p \in Hosts : /\ processes' = [processes EXCEPT ![p].launched = TRUE]
                             /\ Binds(processes[p].number)
      BY <2>3 DEF SidecarStarts
    <3>2. UNCHANGED born
      BY <2>3 DEF SidecarStarts
    <3>3. p \in HostPids /\ processes[p].image \in HostImages
      BY <3>1 DEF Hosts
    <3>4. processes[p] \in [image : Images, number : 1 .. MaxBorn, launched : BOOLEAN]
          \/ processes[p] = None
      BY <1>1, <3>3 DEF HostTypeOK
    <3> DEFINE new == [processes[p] EXCEPT !.launched = TRUE]
    <3>5. processes[p] # None
      BY <3>3, HostAssumption DEF None
    <3>6. /\ new.image = processes[p].image /\ new.number = processes[p].number
          /\ new \in [image : Images, number : 1 .. MaxBorn, launched : BOOLEAN]
      BY <3>4, <3>5
    <3> HIDE DEF new
    <3>7. \A q \in HostPids : processes'[q] = IF q = p THEN new ELSE processes[q]
      BY <1>1, <3>1 DEF HostTypeOK, new
    <3>8. ProcessesMove
      BY <1>1, <3>2, <3>5, <3>6, <3>7 DEF ProcessesMove
    <3>9. NumbersInv'
      BY <1>1, <3>2, <3>6, <3>7 DEF NumbersInv
    <3>10. processes' \in [HostPids -> {None} \cup
                             [image : Images, number : 1 .. MaxBorn, launched : BOOLEAN]]
      BY <1>1, <3>1, <3>6 DEF HostTypeOK, new
    <3>11. port' \in 0 .. MaxBorn
      BY <1>1, <3>1, <3>4, <3>5, HostAssumption DEF Binds, HostTypeOK
    <3> QED  BY <1>1, <3>2, <3>8, <3>9, <3>10, <3>11 DEF HostTypeOK
  <2>4. CASE SidecarExits
    <3>1. UNCHANGED <<processes, born>> /\ port' = 0
      BY <2>4 DEF SidecarExits
    <3>2. ProcessesMove
      BY <1>1, <3>1 DEF ProcessesMove
    <3>3. NumbersInv'
      BY <1>1, <3>1 DEF NumbersInv
    <3>4. HostTypeOK'
      BY <1>1, <3>1, HostAssumption DEF HostTypeOK
    <3> QED  BY <3>2, <3>3, <3>4
  <2> QED  BY <2>1, <2>2, <2>3, <2>4
<1>3. \A c \in Commands : CommandSound(command[c])'
  BY <1>1, <1>2, ProcessesKeepSound
<1> QED  BY <1>2, <1>3 DEF HostInv

LEMMA HostStep == HostInv /\ [HostNext]_hostVars => HostInv'
<1> SUFFICES ASSUME HostInv, [HostNext]_hostVars PROVE HostInv'  OBVIOUS
<1>1. ASSUME NEW c \in Commands, CommandStep(c) PROVE HostInv'
  BY <1>1, InvokeSound, ListSound, ObserveSound, OpenSound, StopSound, LaunchSound DEF CommandStep
<1>2. CASE ProcessStarts \/ ProcessExits \/ SidecarStarts \/ SidecarExits
  BY <1>2, SurroundingsSound
<1>3. CASE UNCHANGED hostVars
  <2>1. HostTypeOK' /\ NumbersInv'
    BY <1>3 DEF hostVars, HostInv, HostTypeOK, NumbersInv
  <2>2. ASSUME NEW c \in Commands PROVE CommandSound(command[c])'
    BY <1>3 DEF hostVars, HostInv, CommandSound, Lives
  <2> QED  BY <2>1, <2>2 DEF HostInv
<1> QED  BY <1>1, <1>2, <1>3 DEF HostNext

\* Whatever commands and processes do, in any order, every command record stays sound
\* (src/ce_controller/core.py, platform.py).
THEOREM HostInvariant == HostSpec => []HostInv
<1> QED  BY HostInitial, HostStep, PTL DEF HostSpec

\* WM_CLOSE and TerminateProcess reach only processes that run from the path that was
\* listed (platform.py 96-109, 145-180).
THEOREM HostsOnly == HostSpec => []OnlyHostsAreClosed
<1>1. HostInv => OnlyHostsAreClosed
  BY DEF HostInv, CommandSound, OnlyHostsAreClosed
<1> QED  BY <1>1, HostInvariant, PTL

\* An answer claims an exit only if it was seen, and knows the outcome of a launch only
\* if the processes could not be listed (core.py 133-190).
THEOREM HostAnswersHonest == HostSpec => []HostOutcomeIsHonest
<1>1. HostInv => HostOutcomeIsHonest
  BY DEF HostInv, CommandSound, HostOutcomeIsHonest
<1> QED  BY <1>1, HostInvariant, PTL

-----------------------------------------------------------------------------
(* The configuration that the controller shares with the sidecar.          *)

\* What each program does is what the file, read once, and its own environment say.
ServesAsRead ==
  \/ serves = NotYet
  \/ serves = [refused |-> "stdio"] /\ config.transport # "streamable-http"
  \/ serves = Refused /\ ~ServerLoads
  \/ /\ ServerLoads /\ environment["server"] \in Environments
     /\ \/ /\ ServerTakes(ServerToken(environment["server"]))
           /\ serves = [host |-> "loopback", token |-> ServerToken(environment["server"]),
                        port |-> IF config.port = "good" THEN "good" ELSE "default"]
        \/ /\ ~(ServerTakes(ServerToken(environment["server"])) /\ ServerBinds)
           /\ serves = Refused

AsksAsRead ==
  \/ asks \in {NotYet, Refused}
  \/ /\ ControllerLoads /\ environment["controller"] \in Environments
     /\ ControllerTakes(ControllerToken(environment["controller"]))
     /\ asks = [host |-> "loopback", port |-> "good",
                token |-> ControllerToken(environment["controller"])]

ConfigInv == ConfigTypeOK /\ ServesAsRead /\ AsksAsRead

\* The records that serves and asks hold.
LEMMA ServesOrRefuses ==
  /\ {NotYet, Refused, [refused |-> "stdio"]} \subseteq [refused : Unused]
  /\ \A number \in {"default", "good"}, token \in Tokens :
       [host |-> "loopback", token |-> token, port |-> number] \in Endpoint
BY DEF NotYet, Refused, Unused, Endpoint

\* What is read is a token, wherever it comes from.
LEMMA TokensAreRead ==
  ASSUME ConfigTypeOK, NEW own \in Environments
  PROVE  ServerToken(own) \in Tokens /\ ControllerToken(own) \in Tokens
<1>1. config.beside \in Tokens /\ config.linked \in Tokens \cup {"none"} /\ "bad" \in Tokens
  BY DEF ConfigTypeOK, Config, Tokens
<1>2. own # "absent" => own \in Tokens  BY DEF Environments
<1> QED  BY <1>1, <1>2 DEF ServerToken, ControllerToken

\* A program that starts does so once, with the CE_MCP_TOKEN that it has then.
LEMMA ServerStep ==
  ASSUME ConfigInv, ServerStarts
  PROVE  ConfigInv'
<1>1. /\ ConfigTypeOK /\ config' = config /\ asks' = asks
      /\ environment \in [{"server", "controller"} -> Environments \cup {"unread"}]
      /\ asks \in Endpoint \cup [refused : Unused]
  BY DEF ServerStarts, ConfigInv, ConfigTypeOK
<1>2. /\ ServerLoads' = ServerLoads /\ ServerBinds' = ServerBinds /\ ControllerLoads' = ControllerLoads
      /\ \A own \in Environments : ServerToken(own)' = ServerToken(own) /\ ControllerToken(own)' = ControllerToken(own)
  BY <1>1 DEF ServerLoads, ServerBinds, ControllerLoads, ServerToken, ControllerToken
<1>3. environment'["controller"] = environment["controller"]
  BY <1>1 DEF ServerStarts
<1>4. AsksAsRead'
  BY <1>1, <1>2, <1>3 DEF ConfigInv, AsksAsRead, ControllerTakes, ControllerLoads, ControllerToken
<1>5. CASE environment' = environment /\ serves' = Refused /\ ~ServerLoads
  <2>1. ConfigTypeOK'  BY <1>1, <1>5, ServesOrRefuses DEF ConfigTypeOK
  <2>2. ServesAsRead'  BY <1>2, <1>5 DEF ServesAsRead, Refused
  <2> QED  BY <1>4, <2>1, <2>2 DEF ConfigInv
<1>6. CASE environment' = environment /\ serves' = [refused |-> "stdio"]
           /\ config.transport # "streamable-http"
  <2>1. ConfigTypeOK'  BY <1>1, <1>6, ServesOrRefuses DEF ConfigTypeOK
  <2>2. ServesAsRead'  BY <1>1, <1>6 DEF ServesAsRead
  <2> QED  BY <1>4, <2>1, <2>2 DEF ConfigInv
<1>7. ASSUME NEW own \in Environments, ServerLoads,
             environment' = [environment EXCEPT !["server"] = own],
             serves' = IF ServerTakes(ServerToken(own)) /\ ServerBinds
                       THEN [host |-> "loopback", token |-> ServerToken(own),
                             port |-> IF config.port = "good" THEN "good" ELSE "default"]
                       ELSE Refused
      PROVE  ConfigInv'
  <2>1. /\ environment'["server"] = own
        /\ environment' \in [{"server", "controller"} -> Environments \cup {"unread"}]
    BY <1>1, <1>7
  <2>2. serves' \in Endpoint \cup [refused : Unused]
    BY <1>1, <1>7, ServesOrRefuses, TokensAreRead
  <2>3. ConfigTypeOK'  BY <1>1, <2>1, <2>2 DEF ConfigTypeOK
  <2>4. ServesAsRead'
    <3>1. CASE ServerTakes(ServerToken(own)) /\ ServerBinds
      BY <1>1, <1>2, <1>7, <2>1, <3>1 DEF ServesAsRead, ServerTakes
    <3>2. CASE ~(ServerTakes(ServerToken(own)) /\ ServerBinds)
      BY <1>1, <1>2, <1>7, <2>1, <3>2 DEF ServesAsRead, ServerTakes, Refused
    <3> QED  BY <3>1, <3>2
  <2> QED  BY <1>4, <2>3, <2>4 DEF ConfigInv
<1> QED  BY <1>5, <1>6, <1>7 DEF ServerStarts

LEMMA ControllerStep ==
  ASSUME ConfigInv, ControllerRuns
  PROVE  ConfigInv'
<1>1. /\ ConfigTypeOK /\ config' = config /\ serves' = serves
      /\ environment \in [{"server", "controller"} -> Environments \cup {"unread"}]
      /\ serves \in Endpoint \cup [refused : Unused]
  BY DEF ControllerRuns, ConfigInv, ConfigTypeOK
<1>2. /\ ServerLoads' = ServerLoads /\ ServerBinds' = ServerBinds /\ ControllerLoads' = ControllerLoads
      /\ \A own \in Environments : ServerToken(own)' = ServerToken(own) /\ ControllerToken(own)' = ControllerToken(own)
  BY <1>1 DEF ServerLoads, ServerBinds, ControllerLoads, ServerToken, ControllerToken
<1>3. environment'["server"] = environment["server"]
  BY <1>1 DEF ControllerRuns
<1>4. ServesAsRead'
  <2>1. ServesAsRead  BY DEF ConfigInv
  <2>2. \A own : ServerToken(own)' = ServerToken(own)  BY <1>1 DEF ServerToken
  <2> QED  BY <1>1, <1>2, <1>3, <2>1, <2>2 DEF ServesAsRead, ServerTakes, NotYet, Refused
<1>5. CASE environment' = environment /\ asks' = Refused
  <2>1. ConfigTypeOK'  BY <1>1, <1>5, ServesOrRefuses DEF ConfigTypeOK
  <2>2. AsksAsRead'  BY <1>5 DEF AsksAsRead, Refused
  <2> QED  BY <1>4, <2>1, <2>2 DEF ConfigInv
<1>6. ASSUME NEW own \in Environments, ControllerLoads,
             environment' = [environment EXCEPT !["controller"] = own],
             asks' = IF ControllerTakes(ControllerToken(own))
                     THEN [host |-> "loopback", port |-> "good", token |-> ControllerToken(own)]
                     ELSE Refused
      PROVE  ConfigInv'
  <2>1. /\ environment'["controller"] = own
        /\ environment' \in [{"server", "controller"} -> Environments \cup {"unread"}]
    BY <1>1, <1>6
  <2>2. asks' \in Endpoint \cup [refused : Unused]
    BY <1>1, <1>6, ServesOrRefuses, TokensAreRead
  <2>3. ConfigTypeOK'  BY <1>1, <2>1, <2>2 DEF ConfigTypeOK
  <2>4. AsksAsRead'
    BY <1>2, <1>6, <2>1 DEF AsksAsRead, ControllerTakes, Refused
  <2> QED  BY <1>4, <2>3, <2>4 DEF ConfigInv
<1> QED  BY <1>5, <1>6 DEF ControllerRuns

LEMMA ConfigStep == ConfigInv /\ [ConfigNext]_configVars => ConfigInv'
<1>1. ASSUME ConfigInv, UNCHANGED configVars PROVE ConfigInv'
  BY <1>1 DEF configVars, ConfigInv, ConfigTypeOK, ServesAsRead, AsksAsRead, ServerLoads, ServerBinds,
     ServerTakes, ServerToken, ControllerLoads, ControllerTakes, ControllerToken
<1> QED  BY <1>1, ServerStep, ControllerStep DEF ConfigNext

LEMMA ConfigInitial == ConfigInit => ConfigInv
BY ServesOrRefuses DEF ConfigInit, ConfigInv, ConfigTypeOK, ServesAsRead, AsksAsRead, NotYet

\* A record that says why a program does not run has no endpoint.
LEMMA RefusedIsNoEndpoint == \A why \in Unused : [refused |-> why] \notin Endpoint
<1> SUFFICES ASSUME NEW why \in Unused, [refused |-> why] \in Endpoint PROVE FALSE
  OBVIOUS
<1>1. DOMAIN [refused |-> why] = {"refused"}  OBVIOUS
<1>2. \A e \in Endpoint : DOMAIN e = {"host", "port", "token"}  BY DEF Endpoint
<1> QED  BY <1>1, <1>2

\* The sidecar of a root serves what the controller of that root asks for, whatever is in
\* the environment of either: only other tokens, a field that the controller does not read
\* and a token too short in characters come between them (config.py 66-67, mcp_server.py 296).
THEOREM AsksItsServer == ConfigSpec => [](ConfigTypeOK /\ ControllerAsksItsServer)
<1>1. ASSUME ConfigInv
      PROVE  ControllerAsksItsServer
  <2> DEFINE own == environment["controller"]
             its == environment["server"]
  <2> SUFFICES ASSUME asks \in Endpoint, serves # NotYet
               PROVE  \/ serves = asks
                      \/ TokensDiffer /\ (serves = Refused \/ (serves \in Endpoint /\ serves.port = asks.port))
                      \/ serves = Refused /\ (config.others = "badValue" \/ asks.token = "wide")
    BY DEF ControllerAsksItsServer
  <2>1. /\ ControllerLoads /\ own \in Environments /\ ControllerTakes(ControllerToken(own))
        /\ asks = [host |-> "loopback", port |-> "good", token |-> ControllerToken(own)]
    BY <1>1, RefusedIsNoEndpoint DEF ConfigInv, AsksAsRead, NotYet, Refused, Unused
  <2>2. /\ config.transport = "streamable-http" /\ config.port = "good" /\ config.host = "loopback"
        /\ config.tokenFile \in {"relative", "absolute"} /\ config.file = "good"
        /\ config.others # "unknownField"
    BY <2>1 DEF ControllerLoads
  <2>3. CASE serves = Refused /\ ~ServerLoads
    <3>1. config.others \in {"good", "badValue", "unknownField"}
      BY <1>1 DEF ConfigInv, ConfigTypeOK, Config
    <3> QED  BY <2>2, <2>3, <3>1 DEF ServerLoads
  <2>4. ASSUME its \in Environments, ~TokensDiffer
        PROVE  ServerToken(its) = ControllerToken(own)
    <3>1. its \in {"unread", own}  BY <2>4 DEF TokensDiffer
    <3>2. "unread" \notin Environments  BY DEF Environments, Tokens
    <3>3. its = own  BY <2>4, <3>1, <3>2
    <3>4. its = "absent" => ~(config.tokenFile = "relative" /\ config.linked # "none")
      BY <2>4 DEF TokensDiffer
    <3> QED  BY <2>2, <3>3, <3>4 DEF ServerToken, ControllerToken
  <2>5. CASE /\ its \in Environments
             /\ serves = [host |-> "loopback", token |-> ServerToken(its),
                          port |-> IF config.port = "good" THEN "good" ELSE "default"]
    <3>1. serves = [host |-> "loopback", token |-> ServerToken(its), port |-> "good"]
      BY <2>2, <2>5
    <3>2. CASE TokensDiffer
      <4>1. ServerToken(its) \in Tokens  BY <1>1, <2>5, TokensAreRead DEF ConfigInv
      <4> QED  BY <2>1, <3>1, <3>2, <4>1, ServesOrRefuses
    <3>3. CASE ~TokensDiffer  BY <2>1, <2>4, <2>5, <3>1, <3>3
    <3> QED  BY <3>2, <3>3
  <2>6. CASE /\ its \in Environments /\ serves = Refused
             /\ ~(ServerTakes(ServerToken(its)) /\ ServerBinds)
    <3>1. ServerBinds  BY <2>2 DEF ServerBinds
    <3>2. ASSUME ~TokensDiffer PROVE asks.token = "wide"
      BY <2>1, <2>4, <2>6, <3>1, <3>2 DEF ServerTakes, ControllerTakes
    <3> QED  BY <2>6, <3>2
  <2> QED  BY <1>1, <2>2, <2>3, <2>5, <2>6 DEF ConfigInv, ServesAsRead
<1>2. ConfigSpec => []ConfigInv
  BY ConfigInitial, ConfigStep, PTL DEF ConfigSpec
<1>3. ConfigInv => ConfigTypeOK  BY DEF ConfigInv
<1> QED  BY <1>1, <1>2, <1>3, PTL
=============================================================================
