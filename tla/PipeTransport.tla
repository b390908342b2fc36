--------------------------- MODULE PipeTransport ----------------------------
(***************************************************************************)
(* WindowsNamedPipeBridgeClient of the sidecar (src/ce_mcp/transport.py):  *)
(* one call at a time over a pipe that is kept from call to call, with a   *)
(* Timer thread per call that cancels the pending I/O when the deadline    *)
(* has passed.  The bridge at the other end may answer late, wrongly, half *)
(* or never, and may go at any moment.                                     *)
(***************************************************************************)
EXTENDS Naturals, Sequences, FiniteSets

CONSTANTS
  CePids,        \* pids that Cheat Engine processes may have
  MaxPipeCalls   \* bound: calls

ASSUME PipeAssumption == CePids \subseteq Nat \ {0} /\ MaxPipeCalls \in Nat

VARIABLES
  hosts,         \* the Cheat Engine processes that run
  client,        \* _configured_pipe_name and ce_pid, _pipe_name, _selected_ce_pid, and the call
  stream,        \* _stream and what is in the pipe, or NoStream
  timer,         \* the Timer thread of each call
  returned,      \* what each call returned
  missed         \* history: calls whose timer found no I/O to cancel

pipeVars == <<hosts, client, stream, timer, returned, missed>>

PipeCalls == 1 .. MaxPipeCalls

\* 0 stands for no pid, and as the server of a pipe for a process that is not Cheat Engine.
NoPid == 0

\* --pipe auto, --ce-pid, a pipe named after a pid, and a pipe with another name.
Modes == {"auto", "pinned", "named", "custom"}
CallPhases == {"idle", "discover", "open", "verify", "arm", "armed", "writing", "written",
           "reading", "between", "payload", "failing", "violated"}
Client == [mode : Modes, known : BOOLEAN, selected : CePids \cup {NoPid},
           phase : CallPhases, call : 0 .. MaxPipeCalls]

\* The other end of the pipe: waiting for a request, running it, between the two
\* writes of its answer, or closed.
Peers == {"waiting", "running", "half", "gone"}
Frames == {"header", "badHeader", "payload", "badPayload"}
Stream == [id : PipeCalls, server : CePids \cup {NoPid}, peer : Peers,
           request : 0 .. MaxPipeCalls, unread : Seq([part : Frames, of : PipeCalls])]
NoStream == [id |-> 0, server |-> NoPid, peer |-> "gone", request |-> 0, unread |-> <<>>]

\* Timer threads: not started or stopped in time, waiting, past the wait, done.
Timers == {"none", "armed", "firing", "done"}

PipeTypeOK ==
  /\ hosts \subseteq CePids
  /\ client \in Client
  /\ stream \in Stream \cup {NoStream}
  /\ timer \in [PipeCalls -> [state : Timers, stream : 0 .. MaxPipeCalls]]
  /\ returned \in [PipeCalls -> {"none", "answer", "BridgeTransportError", "ContractViolation"}]
  /\ missed \subseteq PipeCalls

\* known: _pipe_name is set.  It is from the start for an explicit name.
PipeInit ==
  /\ hosts \in SUBSET CePids
  /\ \E mode \in Modes, pid \in CePids :
       client = [mode |-> mode, known |-> mode \in {"named", "custom"},
                 selected |-> IF mode \in {"pinned", "named"} THEN pid ELSE NoPid,
                 phase |-> "idle", call |-> 0]
  /\ stream = NoStream
  /\ timer = [c \in PipeCalls |-> [state |-> "none", stream |-> 0]]
  /\ returned = [c \in PipeCalls |-> "none"]
  /\ missed = {}

-----------------------------------------------------------------------------
InCall == client.phase # "idle"

\* The client's thread is inside ReadFile or WriteFile.
Pending == client.phase \in {"writing", "reading", "payload"}

ClientGoes(phase) == client' = [client EXCEPT !.phase = phase]

ClientMoves(from, to) ==
  /\ client.phase = from
  /\ ClientGoes(to)
  /\ UNCHANGED <<hosts, stream, timer, returned, missed>>

\* call: the lock is taken.
CallBegins ==
  /\ ~InCall /\ client.call < MaxPipeCalls
  /\ client' = [client EXCEPT !.call = @ + 1,
                              !.phase = IF ~client.known THEN "discover"
                                        ELSE IF stream = NoStream THEN "open" ELSE "arm"]
  /\ UNCHANGED <<hosts, stream, timer, returned, missed>>

\* _discover_pipe: a configured pid is taken as it is; otherwise there must be one.
DiscoverPipe ==
  /\ client.phase = "discover"
  /\ \/ /\ client.mode = "pinned"
        /\ client' = [client EXCEPT !.known = TRUE, !.phase = "open"]
     \/ /\ client.mode = "auto" /\ Cardinality(hosts) = 1
        /\ \E pid \in hosts :
             client' = [client EXCEPT !.known = TRUE, !.selected = pid, !.phase = "open"]
     \/ \* none, several, or they cannot be listed
        client.mode = "auto" /\ ClientGoes("failing")
  /\ UNCHANGED <<hosts, stream, timer, returned, missed>>

\* Who may serve a pipe of the client's name.
Servers == {NoPid} \cup (IF client.selected = NoPid THEN hosts ELSE hosts \cap {client.selected})

\* WaitNamedPipeW and open; both may fail, the wait at the deadline.
OpenPipe ==
  /\ client.phase = "open"
  /\ \/ \E server \in Servers :
          /\ stream' = [NoStream EXCEPT !.id = client.call, !.server = server, !.peer = "waiting"]
          /\ ClientGoes("verify")
     \/ ClientGoes("failing") /\ UNCHANGED stream
  /\ UNCHANGED <<hosts, timer, returned, missed>>

\* _verify_server_identity.
IdentityAccepted ==
  IF client.selected # NoPid THEN stream.server = client.selected ELSE stream.server \in hosts

VerifyServer ==
  /\ client.phase = "verify"
  /\ ClientGoes(IF IdentityAccepted THEN "arm" ELSE "failing")
  /\ UNCHANGED <<hosts, stream, timer, returned, missed>>

\* Mutant: only a call that connected has a deadline.
ArmedFor(c) == IF stream.id = c THEN [state |-> "armed", stream |-> c] ELSE timer[c]

\* timer.start().
Armed(c) == [state |-> "armed", stream |-> stream.id]

ArmTimer ==
  /\ client.phase = "arm"
  /\ \/ /\ ClientGoes("armed")
        /\ timer' = [timer EXCEPT ![client.call] = Armed(client.call)]
     \/ \* connecting took all of the deadline
        ClientGoes("failing") /\ UNCHANGED timer
  /\ UNCHANGED <<hosts, stream, returned, missed>>

\* write_frame: encode_frame may refuse the request before anything is written.
StartWrite == ClientMoves("armed", "writing") \/ ClientMoves("armed", "violated")

\* The request is in the pipe.
WriteEnds ==
  /\ client.phase = "writing" /\ stream.peer # "gone"
  /\ stream' = [stream EXCEPT !.request = client.call]
  /\ ClientGoes("written")
  /\ UNCHANGED <<hosts, timer, returned, missed>>

\* read_frame: two reads.
StartRead == ClientMoves("written", "reading") \/ ClientMoves("between", "payload")

ReadHeader ==
  /\ client.phase = "reading" /\ stream.unread # <<>>
  /\ stream' = [stream EXCEPT !.unread = Tail(@)]
  /\ ClientGoes(IF Head(stream.unread).part = "header" THEN "between" ELSE "violated")
  /\ UNCHANGED <<hosts, timer, returned, missed>>

\* finally: timer.cancel() stops a thread that still waits, and no other.
TimerStopped == [timer EXCEPT ![client.call].state = IF @ = "armed" THEN "none" ELSE @]

\* BridgeResponse.from_dict, and the request id.
ReadPayload ==
  /\ client.phase = "payload" /\ stream.unread # <<>>
  /\ stream' = [stream EXCEPT !.unread = Tail(@)]
  /\ IF Head(stream.unread) = [part |-> "payload", of |-> client.call]
     THEN /\ ClientGoes("idle")
          /\ returned' = [returned EXCEPT ![client.call] = "answer"]
          /\ timer' = TimerStopped
     ELSE ClientGoes("violated") /\ UNCHANGED <<returned, timer>>
  /\ UNCHANGED <<hosts, missed>>

\* The I/O fails because the other end is gone.
IoFails == Pending /\ stream.peer = "gone" /\ ClientMoves(client.phase, "failing")

\* Mutant: a stream whose answer is only late is kept.
DiscardedIfGone == IF stream.peer = "gone" THEN NoStream ELSE stream

\* _discard_stream: what becomes of the stream; an automatic name is forgotten with it.
Discarded == NoStream
KnownAfterDiscard == client.mode \in {"named", "custom"}

\* The except clauses of call.
Fail ==
  /\ client.phase \in {"failing", "violated"}
  /\ stream' = Discarded
  /\ client' = [client EXCEPT !.phase = "idle", !.known = KnownAfterDiscard]
  /\ returned' = [returned EXCEPT ![client.call] =
                    IF client.phase = "failing" THEN "BridgeTransportError" ELSE "ContractViolation"]
  /\ timer' = TimerStopped
  /\ UNCHANGED <<hosts, missed>>

\* close, when no call holds the lock.
CloseClient ==
  /\ ~InCall
  /\ stream' = NoStream
  /\ client' = [client EXCEPT !.known = KnownAfterDiscard]
  /\ UNCHANGED <<hosts, timer, returned, missed>>

-----------------------------------------------------------------------------
\* The Timer thread of call c: the interval is over, and later its cancellation.
TimerElapses(c) ==
  /\ timer[c].state = "armed"
  /\ timer' = [timer EXCEPT ![c].state = "firing"]
  /\ UNCHANGED <<hosts, client, stream, returned, missed>>

\* _cancel_quietly: CancelIoEx cancels what is pending on that stream now.
TimerCancels(c) ==
  /\ timer[c].state = "firing"
  /\ timer' = [timer EXCEPT ![c].state = "done"]
  /\ IF Pending /\ timer[c].stream = stream.id
     THEN ClientGoes("failing") /\ UNCHANGED missed
     ELSE /\ missed' = IF InCall /\ client.call = c THEN missed \cup {c} ELSE missed
          /\ UNCHANGED client
  /\ UNCHANGED <<hosts, stream, returned>>

-----------------------------------------------------------------------------
\* The bridge: it takes a request, and writes header and payload of its answer.
PeerGoes(peer, unread) ==
  /\ stream' = [stream EXCEPT !.peer = peer, !.unread = unread,
                              !.request = IF peer = "waiting" THEN 0 ELSE @]
  /\ UNCHANGED <<hosts, client, timer, returned, missed>>

PeerTakes == stream.peer = "waiting" /\ stream.request # 0 /\ PeerGoes("running", stream.unread)

PeerWrites(part) == Append(stream.unread, [part |-> part, of |-> stream.request])

PeerAnswers ==
  \/ stream.peer = "running" /\ PeerGoes("half", PeerWrites("header"))
  \/ stream.peer = "half" /\ PeerGoes("waiting", PeerWrites("payload"))

\* A frame that violates the protocol.
PeerErrs ==
  \/ stream.peer = "running" /\ PeerGoes("half", PeerWrites("badHeader"))
  \/ stream.peer = "half" /\ PeerGoes("waiting", PeerWrites("badPayload"))

\* Cheat Engine exits or its bridge stops.
PeerLeaves ==
  /\ stream # NoStream /\ stream.peer # "gone"
  /\ stream' = [stream EXCEPT !.peer = "gone"]
  /\ UNCHANGED <<hosts, client, timer, returned, missed>>

HostsChange ==
  /\ \E pid \in CePids : hosts' = (hosts \ {pid}) \cup ({pid} \ hosts)
  /\ UNCHANGED <<client, stream, timer, returned, missed>>

ClientSteps ==
  DiscoverPipe \/ OpenPipe \/ VerifyServer \/ ArmTimer \/ StartWrite \/ StartRead
    \/ ReadHeader \/ ReadPayload \/ IoFails \/ Fail
TimerSteps == \E c \in PipeCalls : TimerElapses(c) \/ TimerCancels(c)
PeerSteps == PeerTakes \/ PeerAnswers \/ PeerErrs \/ PeerLeaves

PipeNext ==
  CallBegins \/ ClientSteps \/ WriteEnds \/ CloseClient \/ TimerSteps \/ PeerSteps \/ HostsChange

PipeSpec == PipeInit /\ [][PipeNext]_pipeVars

\* The sidecar's threads run; the bridge need not do anything.
PipeFairness == WF_pipeVars(ClientSteps) /\ WF_pipeVars(TimerSteps)
FairPipeSpec == PipeSpec /\ PipeFairness

-----------------------------------------------------------------------------
\* What a call finds in the stream it inherits, and what it may write to: whatever calls
\* failed before, whenever their timers cancelled, no request or answer is left in a kept
\* stream, and every request goes to the Cheat Engine that was selected, or for a pipe
\* with another name to some Cheat Engine (transport.py 185-188, 203-212, 224-232).
KeptStreamIsSafe ==
  /\ stream # NoStream /\ ~InCall =>
       stream.request = 0 /\ stream.unread = <<>> /\ stream.peer \in {"waiting", "gone"}
  /\ stream.request # 0 => stream.request = client.call
  /\ \/ stream = NoStream
     \/ client.phase \in {"verify", "failing"}
     \/ stream.server # NoPid /\ client.selected \in {NoPid, stream.server}

\* The cancel timer (transport.py 193-200): a call over a bridge that may hang for ever
\* returns, unless its timer fired while the client was between two system calls.
ReturnsUnlessCancelMissed ==
  \A c \in PipeCalls : client.call = c /\ InCall ~> returned[c] # "none" \/ c \in missed

\* "Deadline-bounded, serialized bridge client" (transport.py 153): every call returns.
DeadlineBoundsCall ==
  \A c \in PipeCalls : client.call = c /\ InCall ~> returned[c] # "none"
=============================================================================
