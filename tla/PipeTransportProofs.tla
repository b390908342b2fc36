------------------------- MODULE PipeTransportProofs --------------------------
(***************************************************************************)
(* Proofs about PipeTransport, for any Cheat Engine processes and any      *)
(* number of calls.                                                        *)
(***************************************************************************)
EXTENDS PipeTransport, SequenceTheorems, TLAPS

\* Nothing is left of an earlier request.
Clean == stream.request = 0 /\ stream.unread = <<>> /\ stream.peer \in {"waiting", "gone"}

\* How far the bridge is with the answer of which `taken' frames were read.
Owes(taken) ==
  LET parts == Len(stream.unread) + taken
  IN  \/ stream.peer \in {"waiting", "running"} /\ stream.request = client.call /\ parts = 0
      \/ stream.peer = "half" /\ stream.request = client.call /\ parts = 1
      \/ stream.peer = "waiting" /\ stream.request = 0 /\ parts = 2
      \/ stream.peer = "gone" /\ parts <= 2 /\ (parts = 2 => stream.request = 0)

\* The verified server is the selected one.
Served == stream.server # NoPid /\ client.selected \in {NoPid, stream.server}

BeforeWrite == {"idle", "discover", "open", "verify", "arm", "armed", "writing"}

StreamFollowsCall ==
  /\ InCall => client.call # 0
  /\ stream.request \in {0, client.call}
  /\ stream.peer \in {"running", "half"} => stream.request # 0
  /\ ~client.known => stream = NoStream
  /\ client.phase \in {"discover", "open"} => stream = NoStream
  /\ client.phase = "open" => client.known
  /\ client.phase \in BeforeWrite => Clean
  /\ client.phase \in {"written", "reading"} => Owes(0)
  /\ client.phase \in {"between", "payload"} => Owes(1)
  /\ stream = NoStream \/ client.phase \in {"verify", "failing"} \/ Served

PipeInv == PipeTypeOK /\ StreamFollowsCall

Part == [part : Frames, of : PipeCalls]

\* The fields of the client and of the stream, whether there is one or not.
LEMMA Fields ==
  ASSUME PipeTypeOK
  PROVE  /\ stream.request \in 0 .. MaxPipeCalls /\ stream.unread \in Seq(Part)
         /\ stream.peer \in Peers /\ stream.server \in CePids \cup {NoPid}
         /\ stream.peer # "gone" \/ stream.unread # <<>> => stream \in Stream
         /\ client.call \in 0 .. MaxPipeCalls /\ client.phase \in CallPhases
         /\ client.known \in BOOLEAN /\ client.selected \in CePids \cup {NoPid}
         /\ MaxPipeCalls \in Nat
<1>1. NoStream.unread \in Seq(Part) /\ NoStream.unread = <<>>
  BY EmptySeq DEF NoStream
<1>2. CASE stream = NoStream
  BY <1>1, <1>2, PipeAssumption DEF PipeTypeOK, NoStream, Client, Peers, NoPid
<1>3. CASE stream \in Stream
  BY <1>3, PipeAssumption DEF PipeTypeOK, Stream, Client, PipeCalls, Part
<1> QED  BY <1>2, <1>3 DEF PipeTypeOK

LEMMA NoStreamClean == ASSUME stream = NoStream PROVE Clean
<1> QED  BY DEF NoStream, Clean

LEMMA PipeInitial == PipeInit => PipeInv
<1> SUFFICES ASSUME PipeInit PROVE PipeInv  OBVIOUS
<1>1. PICK mode \in Modes, pid \in CePids :
        client = [mode |-> mode, known |-> mode \in {"named", "custom"},
                  selected |-> IF mode \in {"pinned", "named"} THEN pid ELSE NoPid,
                  phase |-> "idle", call |-> 0]
  BY DEF PipeInit
<1>2. client \in Client /\ client.phase = "idle" /\ client.call = 0
  BY <1>1, PipeAssumption DEF Client, CallPhases
<1>3. PipeTypeOK
  BY <1>2, PipeAssumption DEF PipeInit, PipeTypeOK, Timers, PipeCalls
<1>4. stream = NoStream /\ Clean
  BY NoStreamClean DEF PipeInit
<1> QED  BY <1>2, <1>3, <1>4 DEF PipeInv, StreamFollowsCall, InCall, Clean, NoStream

-----------------------------------------------------------------------------
\* The call moves, and the stream stays as it is (transport.py 179-218).
LEMMA PhaseMoves ==
  ASSUME PipeInv, NEW phase \in CallPhases, client' = [client EXCEPT !.phase = phase],
         UNCHANGED stream, PipeTypeOK', InCall,
         \/ phase = "failing"
         \/ client.phase = "armed" /\ phase \in {"writing", "violated"}
         \/ client.phase = "arm" /\ phase = "armed"
         \/ client.phase = "verify" /\ phase = "arm" /\ Served
         \/ client.phase = "written" /\ phase = "reading"
         \/ client.phase = "between" /\ phase = "payload"
  PROVE  PipeInv'
<1>1. /\ client'.call = client.call /\ client'.known = client.known
      /\ client'.selected = client.selected /\ client'.phase = phase
  BY DEF PipeInv, PipeTypeOK, Client
<1>2. InCall' /\ stream' = stream /\ client.call # 0
  BY <1>1 DEF InCall, PipeInv, StreamFollowsCall, CallPhases
<1>3. StreamFollowsCall'
  BY <1>1, <1>2 DEF PipeInv, StreamFollowsCall, InCall, Clean, Owes, Served, BeforeWrite
<1> QED  BY <1>3 DEF PipeInv

\* The steps of a call that leave the stream alone.
LEMMA MovesKeep ==
  ASSUME PipeInv,
         VerifyServer \/ ArmTimer \/ StartWrite \/ StartRead \/ IoFails
  PROVE  PipeInv'
<1>1. InCall /\ UNCHANGED <<hosts, stream, returned, missed>>
  BY DEF VerifyServer, ArmTimer, StartWrite, StartRead, IoFails, ClientMoves, InCall, Pending
<1>2. PICK phase \in CallPhases :
        /\ client' = [client EXCEPT !.phase = phase]
        /\ \/ phase = "failing"
           \/ client.phase = "armed" /\ phase \in {"writing", "violated"}
           \/ client.phase = "arm" /\ phase = "armed"
           \/ client.phase = "verify" /\ phase = "arm" /\ IdentityAccepted
           \/ client.phase = "written" /\ phase = "reading"
           \/ client.phase = "between" /\ phase = "payload"
  BY DEF VerifyServer, ArmTimer, StartWrite, StartRead, IoFails, ClientMoves, ClientGoes, CallPhases
<1>3. IdentityAccepted => Served
  <2>1. CASE client.selected # NoPid
    BY <2>1 DEF IdentityAccepted, Served
  <2>2. CASE client.selected = NoPid
    BY <2>2, PipeAssumption DEF IdentityAccepted, Served, NoPid, PipeInv, PipeTypeOK
  <2> QED  BY <2>1, <2>2
<1>4. timer' \in [PipeCalls -> [state : Timers, stream : 0 .. MaxPipeCalls]]
  <2>1. CASE timer' = timer
    BY <2>1 DEF PipeInv, PipeTypeOK
  <2>2. CASE timer' = [timer EXCEPT ![client.call] = Armed(client.call)]
    <3>1. Armed(client.call) \in [state : Timers, stream : 0 .. MaxPipeCalls]
      BY PipeAssumption DEF Armed, Timers, PipeInv, PipeTypeOK, Stream, NoStream, PipeCalls
    <3> QED  BY <2>2, <3>1 DEF PipeInv, PipeTypeOK
  <2> QED
    BY <2>1, <2>2 DEF VerifyServer, ArmTimer, StartWrite, StartRead, IoFails, ClientMoves
<1>5. PipeTypeOK'
  BY <1>1, <1>2, <1>4 DEF PipeInv, PipeTypeOK, Client
<1> QED  BY <1>1, <1>2, <1>3, <1>5, PhaseMoves

\* A call begins with a kept stream that is clean, or with none (transport.py 179-186).
LEMMA BeginKeeps ==
  ASSUME PipeInv, CallBegins
  PROVE  PipeInv'
<1> DEFINE phase == IF ~client.known THEN "discover" ELSE IF stream = NoStream THEN "open" ELSE "arm"
<1>1. /\ ~InCall /\ client.call < MaxPipeCalls
      /\ client' = [client EXCEPT !.call = @ + 1, !.phase = phase]
      /\ UNCHANGED <<hosts, stream, timer, returned, missed>>
  BY DEF CallBegins
<1>2. client.call + 1 \in 0 .. MaxPipeCalls /\ client.call + 1 # 0 /\ phase \in CallPhases
  BY <1>1, Fields DEF PipeInv, CallPhases
<1>3. /\ client'.call = client.call + 1 /\ client'.phase = phase
      /\ client'.known = client.known /\ client'.selected = client.selected
      /\ client' \in Client
  <2> HIDE DEF phase
  <2> QED  BY <1>1, <1>2 DEF PipeInv, PipeTypeOK, Client
<1>4. PipeTypeOK'
  BY <1>1, <1>3 DEF PipeInv, PipeTypeOK
<1>5. Clean /\ Clean' /\ (stream = NoStream \/ Served)
  BY <1>1 DEF PipeInv, StreamFollowsCall, InCall, BeforeWrite, Clean
<1>6. StreamFollowsCall'
  BY <1>1, <1>2, <1>3, <1>5 DEF PipeInv, StreamFollowsCall, InCall, BeforeWrite, Clean, Served
<1> QED  BY <1>4, <1>6 DEF PipeInv

\* Discovery has no stream yet (transport.py 234-246).
LEMMA DiscoverKeeps ==
  ASSUME PipeInv, DiscoverPipe
  PROVE  PipeInv'
<1>1. stream = NoStream /\ UNCHANGED <<hosts, stream, timer, returned, missed>> /\ client.call # 0
  BY DEF DiscoverPipe, PipeInv, StreamFollowsCall, InCall
<1>2. /\ client' \in Client /\ client'.call = client.call
      /\ \/ client'.phase = "failing"
         \/ client'.phase = "open" /\ client'.known
  <2>1. CASE client' = [client EXCEPT !.known = TRUE, !.phase = "open"]
    BY <2>1 DEF PipeInv, PipeTypeOK, Client, CallPhases
  <2>2. ASSUME NEW pid \in hosts,
               client' = [client EXCEPT !.known = TRUE, !.selected = pid, !.phase = "open"]
        PROVE  /\ client' \in Client /\ client'.call = client.call
               /\ client'.phase = "open" /\ client'.known
    BY <2>2 DEF PipeInv, PipeTypeOK, Client, CallPhases
  <2>3. CASE ClientGoes("failing")
    BY <2>3 DEF ClientGoes, PipeInv, PipeTypeOK, Client, CallPhases
  <2> QED  BY <2>1, <2>2, <2>3 DEF DiscoverPipe
<1>3. PipeTypeOK'
  BY <1>1, <1>2 DEF PipeInv, PipeTypeOK
<1>4. Clean'
  BY <1>1, NoStreamClean DEF Clean
<1> QED
  BY <1>1, <1>2, <1>3, <1>4 DEF PipeInv, StreamFollowsCall, InCall, BeforeWrite, Clean


\* A new stream is clean (transport.py 123-129).
LEMMA OpenKeeps ==
  ASSUME PipeInv, OpenPipe
  PROVE  PipeInv'
<1>1. /\ stream = NoStream /\ UNCHANGED <<hosts, timer, returned, missed>>
      /\ client.call # 0 /\ client.phase = "open" /\ client.known
  BY DEF OpenPipe, PipeInv, StreamFollowsCall, InCall
<1>2. CASE ClientGoes("failing") /\ UNCHANGED stream
  <2>1. client' \in Client /\ client'.phase = "failing" /\ client'.call = client.call
    BY <1>2 DEF ClientGoes, PipeInv, PipeTypeOK, Client, CallPhases
  <2>2. PipeTypeOK'
    BY <1>1, <1>2, <2>1 DEF PipeInv, PipeTypeOK
  <2>3. stream' = NoStream /\ client'.phase = "failing"
    BY <1>1, <1>2, <2>1
  <2> QED
    BY <1>1, <2>1, <2>2, <2>3 DEF PipeInv, StreamFollowsCall, InCall, BeforeWrite, NoStream
<1>3. ASSUME NEW server \in Servers,
             stream' = [NoStream EXCEPT !.id = client.call, !.server = server, !.peer = "waiting"],
             ClientGoes("verify")
      PROVE  PipeInv'
  <2>1. /\ client' \in Client /\ client'.phase = "verify" /\ client'.call = client.call
        /\ client'.known /\ client'.selected = client.selected
    BY <1>1, <1>3 DEF ClientGoes, PipeInv, PipeTypeOK, Client, CallPhases
  <2>2. /\ stream'.id = client.call /\ stream'.server = server /\ stream'.peer = "waiting"
        /\ stream'.request = 0 /\ stream'.unread = <<>>
        /\ stream' = [id |-> client.call, server |-> server, peer |-> "waiting",
                      request |-> 0, unread |-> <<>>]
    BY <1>3 DEF NoStream
  <2>3. server \in CePids \cup {NoPid} /\ client.call \in PipeCalls
    <3>1. server \in CePids \cup {NoPid}
      BY DEF Servers, PipeInv, PipeTypeOK
    <3>2. client.call \in PipeCalls
      BY <1>1, Fields DEF PipeInv, PipeCalls
    <3> QED  BY <3>1, <3>2
  <2>4. stream' \in Stream
    <3>1. <<>> \in Seq([part : Frames, of : PipeCalls])  BY EmptySeq
    <3> QED  BY <2>2, <2>3, <3>1, PipeAssumption DEF Stream, Peers
  <2>5. PipeTypeOK'
    BY <1>1, <2>1, <2>4 DEF PipeInv, PipeTypeOK
  <2> QED
    BY <1>1, <2>1, <2>2, <2>5 DEF PipeInv, StreamFollowsCall, InCall, BeforeWrite, Clean
<1> QED  BY <1>2, <1>3 DEF OpenPipe

\* The request goes into a clean pipe (framing.py 49-56).
LEMMA WriteKeeps ==
  ASSUME PipeInv, WriteEnds
  PROVE  PipeInv'
<1>1. /\ Clean /\ client.call # 0 /\ stream \in Stream /\ stream # NoStream
      /\ stream.peer = "waiting" /\ client.phase = "writing"
      /\ stream = NoStream \/ Served
      /\ UNCHANGED <<hosts, timer, returned, missed>>
  BY Fields DEF WriteEnds, PipeInv, StreamFollowsCall, InCall, BeforeWrite, Clean, NoStream
<1>2. /\ client' \in Client /\ client'.phase = "written" /\ client'.call = client.call
      /\ client'.known = client.known /\ client'.selected = client.selected
  BY DEF WriteEnds, ClientGoes, PipeInv, PipeTypeOK, Client, CallPhases
<1>3. /\ stream' \in Stream /\ stream'.request = client.call /\ stream'.peer = "waiting"
      /\ stream'.unread = <<>> /\ stream'.server = stream.server
  BY <1>1, Fields DEF WriteEnds, Stream, Clean, PipeInv
<1>4. PipeTypeOK'
  BY <1>1, <1>2, <1>3 DEF PipeInv, PipeTypeOK
<1>5. Len(stream'.unread) = 0
  BY <1>3, EmptySeq
<1> QED
  BY <1>1, <1>2, <1>3, <1>4, <1>5
     DEF PipeInv, StreamFollowsCall, InCall, BeforeWrite, Owes, Served

\* The stream after one frame was read.
LEMMA TakeFrame ==
  ASSUME PipeInv, stream.unread # <<>>, stream' = [stream EXCEPT !.unread = Tail(@)]
  PROVE  /\ stream' \in Stream /\ stream'.request = stream.request /\ stream'.peer = stream.peer
         /\ stream'.server = stream.server
         /\ stream'.unread \in Seq(Part) /\ Len(stream'.unread) = Len(stream.unread) - 1
         /\ Len(stream.unread) \in Nat
<1>1. stream \in Stream /\ stream.unread \in Seq(Part)
  BY Fields DEF PipeInv
<1>2. /\ Tail(stream.unread) \in Seq(Part)
      /\ Len(Tail(stream.unread)) = Len(stream.unread) - 1 /\ Len(stream.unread) \in Nat
  BY <1>1, HeadTailProperties, LenProperties
<1> QED  BY <1>1, <1>2 DEF Stream, Part

\* One frame less is owed (framing.py 42-47).
LEMMA HeaderKeeps ==
  ASSUME PipeInv, ReadHeader
  PROVE  PipeInv'
<1>1. /\ client.phase = "reading" /\ client.call # 0 /\ Owes(0)
      /\ stream = NoStream \/ Served
      /\ UNCHANGED <<hosts, timer, returned, missed>>
  BY DEF ReadHeader, PipeInv, StreamFollowsCall, InCall
<1>2. /\ stream' \in Stream /\ stream'.request = stream.request /\ stream'.peer = stream.peer
      /\ stream'.server = stream.server /\ stream # NoStream
      /\ Len(stream'.unread) = Len(stream.unread) - 1 /\ Len(stream.unread) \in Nat
  BY TakeFrame DEF ReadHeader, NoStream
<1>3. /\ client' \in Client /\ client'.phase \in {"between", "violated"}
      /\ client'.call = client.call
      /\ client'.known = client.known /\ client'.selected = client.selected
  BY DEF ReadHeader, ClientGoes, PipeInv, PipeTypeOK, Client, CallPhases
<1>4. PipeTypeOK'
  BY <1>1, <1>2, <1>3 DEF PipeInv, PipeTypeOK
<1>5. Owes(1)'
  BY <1>1, <1>2, <1>3 DEF Owes
<1> QED
  BY <1>1, <1>2, <1>3, <1>4, <1>5
     DEF PipeInv, StreamFollowsCall, InCall, BeforeWrite, Served

\* With its payload read, an answer leaves nothing behind (transport.py 203-206).
LEMMA PayloadKeeps ==
  ASSUME PipeInv, ReadPayload
  PROVE  PipeInv'
<1>1. /\ client.phase = "payload" /\ client.call \in PipeCalls /\ client.call # 0 /\ Owes(1)
      /\ stream = NoStream \/ Served
      /\ UNCHANGED <<hosts, missed>>
  BY Fields DEF ReadPayload, PipeInv, StreamFollowsCall, InCall, PipeCalls
<1>2. /\ stream' \in Stream /\ stream'.request = stream.request /\ stream'.peer = stream.peer
      /\ stream'.server = stream.server /\ stream # NoStream /\ stream'.unread \in Seq(Part)
      /\ Len(stream'.unread) = Len(stream.unread) - 1 /\ Len(stream.unread) \in Nat
  BY TakeFrame DEF ReadPayload, NoStream
<1>3. /\ client' \in Client /\ client'.phase \in {"idle", "violated"}
      /\ client'.call = client.call
      /\ client'.known = client.known /\ client'.selected = client.selected
  BY DEF ReadPayload, ClientGoes, PipeInv, PipeTypeOK, Client, CallPhases
<1>4. TimerStopped \in [PipeCalls -> [state : Timers, stream : 0 .. MaxPipeCalls]]
  BY <1>1 DEF TimerStopped, PipeInv, PipeTypeOK, Timers
<1>5. PipeTypeOK'
  BY <1>1, <1>2, <1>3, <1>4 DEF ReadPayload, PipeInv, PipeTypeOK
<1>6. Len(stream'.unread) + 1 > 0 /\ Len(stream'.unread) + 1 + 1 = Len(stream.unread) + 1
      /\ Len(stream'.unread) \in Nat
  BY <1>2, LenProperties
<1>7. Clean'
  <2>1. Len(stream.unread) = 1 /\ stream.request = 0 /\ stream.peer \in {"waiting", "gone"}
    <3> DEFINE n == Len(stream.unread)
    <3>1. n \in Nat /\ n # 0
      BY <1>2, <1>6
    <3>2. \/ stream.peer \in {"waiting", "running"} /\ n + 1 = 0
          \/ n + 1 = 1
          \/ stream.peer = "waiting" /\ stream.request = 0 /\ n + 1 = 2
          \/ stream.peer = "gone" /\ n + 1 <= 2 /\ (n + 1 = 2 => stream.request = 0)
      BY <1>1 DEF Owes
    <3> HIDE DEF n
    <3>3. n = 1 /\ stream.request = 0 /\ stream.peer \in {"waiting", "gone"}
      BY <3>1, <3>2
    <3> QED  BY <3>3 DEF n
  <2>2. stream'.unread = <<>>
    BY <1>2, <2>1, EmptySeq
  <2> QED  BY <1>2, <2>1, <2>2 DEF Clean
<1> QED
  BY <1>1, <1>2, <1>3, <1>5, <1>7
     DEF PipeInv, StreamFollowsCall, InCall, BeforeWrite, Served, Clean

\* The bridge goes on with its answer (lua 2405-2440).
LEMMA PeerKeeps ==
  ASSUME PipeInv, NEW peer \in Peers, NEW unread \in Seq(Part), PeerGoes(peer, unread),
         stream.peer \in {"waiting", "running", "half"}, stream.request # 0,
         \/ stream.peer = "waiting" /\ peer = "running" /\ unread = stream.unread
         \/ stream.peer = "running" /\ peer = "half" /\ Len(unread) = Len(stream.unread) + 1
         \/ stream.peer = "half" /\ peer = "waiting" /\ Len(unread) = Len(stream.unread) + 1
  PROVE  PipeInv'
<1>1. /\ stream \in Stream /\ stream # NoStream /\ UNCHANGED <<hosts, client, timer, returned, missed>>
      /\ stream.request = client.call /\ client.call \in 0 .. MaxPipeCalls /\ client.call # 0
      /\ Len(stream.unread) \in Nat /\ MaxPipeCalls \in Nat
  BY Fields, LenProperties DEF PipeInv, StreamFollowsCall, PeerGoes, NoStream
<1>2. /\ stream' \in Stream /\ stream'.peer = peer /\ stream'.unread = unread
      /\ stream'.request = (IF peer = "waiting" THEN 0 ELSE stream.request)
      /\ stream'.server = stream.server
  <2> DEFINE request == IF peer = "waiting" THEN 0 ELSE stream.request
  <2>1. stream' = [stream EXCEPT !.peer = peer, !.unread = unread, !.request = request]
    BY DEF PeerGoes
  <2>2. request \in 0 .. MaxPipeCalls
    BY <1>1
  <2> HIDE DEF request
  <2>3. /\ stream' \in Stream /\ stream'.peer = peer /\ stream'.unread = unread
        /\ stream'.request = request /\ stream'.server = stream.server
    BY <1>1, <2>1, <2>2 DEF Stream, Part
  <2> QED  BY <2>3 DEF request
<1>3. PipeTypeOK'
  BY <1>1, <1>2 DEF PipeInv, PipeTypeOK
<1>4. ~Clean /\ client.phase \notin BeforeWrite
  BY DEF Clean, PipeInv, StreamFollowsCall
<1>5. Owes(0) => Owes(0)'
  <2> DEFINE n == Len(stream.unread)
             m == Len(unread)
  <2>1. n \in Nat /\ Len(stream'.unread) = m /\ m \in Nat
    BY <1>1, <1>2, LenProperties
  <2>2. Owes(0) => \/ stream.peer \in {"waiting", "running"} /\ n + 0 = 0
                   \/ stream.peer = "half" /\ n + 0 = 1
                   \/ stream.peer = "waiting" /\ stream.request = 0
                   \/ stream.peer = "gone"
    BY DEF Owes
  <2>3. Owes(0) => \/ stream'.peer = "running" /\ stream'.request = client.call /\ m = 0
                   \/ stream'.peer = "half" /\ stream'.request = client.call /\ m = 1
                   \/ stream'.peer = "waiting" /\ stream'.request = 0 /\ m = 2
    <3>1. \/ stream.peer = "waiting" /\ peer = "running" /\ m = n
          \/ stream.peer = "running" /\ peer = "half" /\ m = n + 1
          \/ stream.peer = "half" /\ peer = "waiting" /\ m = n + 1
      OBVIOUS
    <3> HIDE DEF n, m
    <3>2. n + 0 = n  BY <2>1
    <3> QED  BY <1>1, <1>2, <2>1, <2>2, <3>1, <3>2
  <2> HIDE DEF n, m
  <2>4. m + 0 = m  BY <2>1
  <2> QED  BY <1>1, <2>1, <2>3, <2>4 DEF Owes
<1>6. Owes(1) => Owes(1)'
  BY <1>1, <1>2 DEF Owes
<1> QED
  BY <1>1, <1>2, <1>3, <1>4, <1>5, <1>6
     DEF PipeInv, StreamFollowsCall, InCall, BeforeWrite, Served

\* One more frame in the pipe.
LEMMA PeerWritesPart ==
  ASSUME PipeInv, NEW part \in Frames, stream.request # 0
  PROVE  PeerWrites(part) \in Seq(Part) /\ Len(PeerWrites(part)) = Len(stream.unread) + 1
<1>1. stream.request \in PipeCalls /\ stream.unread \in Seq(Part)
  BY Fields DEF PipeInv, PipeCalls
<1>2. [part |-> part, of |-> stream.request] \in Part
  BY <1>1 DEF Part
<1> QED  BY <1>1, <1>2, AppendProperties DEF PeerWrites

\* Whatever the bridge and Cheat Engine do (lua 2396-2469).
LEMMA PeersKeep ==
  ASSUME PipeInv, PeerSteps \/ HostsChange
  PROVE  PipeInv'
<1>1. CASE PeerTakes
  BY <1>1, PeerKeeps, Fields DEF PeerTakes, Peers, PipeInv
<1>2. CASE PeerAnswers \/ PeerErrs
  <2>1. stream.peer \in {"running", "half"} /\ stream.request # 0
    BY <1>2 DEF PeerAnswers, PeerErrs, PipeInv, StreamFollowsCall
  <2> QED
    BY <1>2, <2>1, PeerKeeps, PeerWritesPart DEF PeerAnswers, PeerErrs, Peers, Frames
<1>3. CASE PeerLeaves
  <2>1. /\ stream \in Stream /\ UNCHANGED <<hosts, client, timer, returned, missed>>
        /\ stream' = [stream EXCEPT !.peer = "gone"] /\ stream # NoStream
        /\ Len(stream.unread) \in Nat
    BY <1>3, Fields, LenProperties DEF PeerLeaves, PipeInv, PipeTypeOK
  <2>2. /\ stream' \in Stream /\ stream'.peer = "gone" /\ stream'.unread = stream.unread
        /\ stream'.request = stream.request /\ stream'.server = stream.server
    BY <2>1 DEF Stream, Peers
  <2>3. PipeTypeOK'
    BY <2>1, <2>2 DEF PipeInv, PipeTypeOK
  <2>4. Owes(0) => Owes(0)'
    <3> DEFINE n == Len(stream.unread)
    <3>1. n \in Nat /\ Len(stream'.unread) = n /\ n + 0 = n
      BY <2>1, <2>2
    <3>2. Owes(0) => n + 0 <= 2 /\ (n + 0 = 2 => stream.request = 0)
      <4>1. Owes(0) => \/ n + 0 = 0
                       \/ n + 0 = 1
                       \/ n + 0 = 2 /\ stream.request = 0
                       \/ n + 0 <= 2 /\ (n + 0 = 2 => stream.request = 0)
        BY DEF Owes
      <4> HIDE DEF n
      <4> QED  BY <3>1, <4>1
    <3> HIDE DEF n
    <3> QED  BY <2>2, <3>1, <3>2 DEF Owes
  <2>5. Owes(1) => Owes(1)'
    BY <2>1, <2>2 DEF Owes
  <2> QED
    BY <2>1, <2>2, <2>3, <2>4, <2>5
       DEF PipeInv, StreamFollowsCall, InCall, BeforeWrite, Served, Clean
<1>4. CASE HostsChange
  <2>1. UNCHANGED <<client, stream, timer, returned, missed>> /\ hosts' \subseteq CePids
    BY <1>4 DEF HostsChange, PipeInv, PipeTypeOK
  <2>2. PipeTypeOK'
    BY <2>1 DEF PipeInv, PipeTypeOK
  <2> QED
    BY <2>1, <2>2 DEF PipeInv, StreamFollowsCall, InCall, Served, Clean, Owes
<1> QED  BY <1>1, <1>2, <1>3, <1>4 DEF PeerSteps

-----------------------------------------------------------------------------
\* A failed call and a close leave no stream (transport.py 207-232).
LEMMA DiscardKeeps ==
  ASSUME PipeInv, Fail \/ CloseClient
  PROVE  PipeInv'
<1>1. /\ stream' = NoStream /\ UNCHANGED <<hosts, missed>>
      /\ client'.phase = "idle" /\ client' \in Client
  <2>1. UNCHANGED <<hosts, missed>> /\ stream' = NoStream
    BY DEF Fail, CloseClient, Discarded
  <2>2. KnownAfterDiscard \in BOOLEAN
    BY DEF KnownAfterDiscard
  <2>3. CASE Fail
    BY <2>1, <2>2, <2>3 DEF Fail, PipeInv, PipeTypeOK, Client, CallPhases
  <2>4. CASE CloseClient
    <3>1. client' = [client EXCEPT !.known = KnownAfterDiscard] /\ client.phase = "idle"
      BY <2>4 DEF CloseClient, InCall
    <3> QED  BY <2>1, <2>2, <3>1 DEF PipeInv, PipeTypeOK, Client
  <2> QED  BY <2>1, <2>3, <2>4
<1>2. client.call \in PipeCalls \/ ~InCall
  BY Fields DEF PipeInv, StreamFollowsCall, PipeCalls
<1>3. /\ timer' \in [PipeCalls -> [state : Timers, stream : 0 .. MaxPipeCalls]]
      /\ returned' \in [PipeCalls -> {"none", "answer", "BridgeTransportError", "ContractViolation"}]
  <2>1. CASE Fail
    <3>1. client.call \in PipeCalls
      BY <1>2, <2>1 DEF Fail, InCall
    <3>2. TimerStopped \in [PipeCalls -> [state : Timers, stream : 0 .. MaxPipeCalls]]
      BY <3>1 DEF TimerStopped, PipeInv, PipeTypeOK, Timers
    <3> QED  BY <2>1, <3>1, <3>2 DEF Fail, PipeInv, PipeTypeOK
  <2>2. CASE CloseClient
    BY <2>2 DEF CloseClient, PipeInv, PipeTypeOK
  <2> QED  BY <2>1, <2>2
<1>4. PipeTypeOK'
  BY <1>1, <1>3 DEF PipeInv, PipeTypeOK
<1>5. Clean' /\ stream'.request = 0 /\ stream'.peer = "gone"
  BY <1>1 DEF NoStream, Clean
<1> QED
  BY <1>1, <1>4, <1>5 DEF PipeInv, StreamFollowsCall, InCall, BeforeWrite

\* A timer cancels what is pending, whichever call that is of (transport.py 131-138, 193-200).
LEMMA TimersKeep ==
  ASSUME PipeInv, TimerSteps
  PROVE  PipeInv'
<1>1. PICK c \in PipeCalls : TimerElapses(c) \/ TimerCancels(c)
  BY DEF TimerSteps
<1>2. /\ UNCHANGED <<hosts, stream, returned>>
      /\ timer' \in [PipeCalls -> [state : Timers, stream : 0 .. MaxPipeCalls]]
      /\ missed' \subseteq PipeCalls
  BY <1>1 DEF TimerElapses, TimerCancels, PipeInv, PipeTypeOK, Timers
<1>3. CASE client' = client
  <2>1. PipeTypeOK'
    BY <1>2, <1>3 DEF PipeInv, PipeTypeOK
  <2> QED
    BY <1>2, <1>3, <2>1 DEF PipeInv, StreamFollowsCall, InCall, Served, Clean, Owes
<1>4. CASE Pending /\ ClientGoes("failing")
  <2>1. client' = [client EXCEPT !.phase = "failing"] /\ client' \in Client /\ InCall
    BY <1>4 DEF ClientGoes, Pending, InCall, PipeInv, PipeTypeOK, Client, CallPhases
  <2>2. PipeTypeOK'
    BY <1>2, <2>1 DEF PipeInv, PipeTypeOK
  <2> QED  BY <1>2, <2>1, <2>2, PhaseMoves DEF CallPhases
<1> QED  BY <1>1, <1>3, <1>4 DEF TimerElapses, TimerCancels

LEMMA PipeStep == PipeInv /\ [PipeNext]_pipeVars => PipeInv'
<1> SUFFICES ASSUME PipeInv, [PipeNext]_pipeVars PROVE PipeInv'  OBVIOUS
<1>1. CASE CallBegins \/ CloseClient \/ Fail
  BY <1>1, BeginKeeps, DiscardKeeps
<1>2. CASE DiscoverPipe \/ OpenPipe
  BY <1>2, DiscoverKeeps, OpenKeeps
<1>3. CASE VerifyServer \/ ArmTimer \/ StartWrite \/ StartRead \/ IoFails
  BY <1>3, MovesKeep
<1>4. CASE WriteEnds \/ ReadHeader \/ ReadPayload
  BY <1>4, WriteKeeps, HeaderKeeps, PayloadKeeps
<1>5. CASE TimerSteps \/ PeerSteps \/ HostsChange
  BY <1>5, TimersKeep, PeersKeep
<1>6. CASE UNCHANGED pipeVars
  <2>1. PipeTypeOK'
    BY <1>6 DEF pipeVars, PipeInv, PipeTypeOK
  <2> QED
    BY <1>6, <2>1 DEF pipeVars, PipeInv, StreamFollowsCall, InCall, Served, Clean, Owes
<1> QED  BY <1>1, <1>2, <1>3, <1>4, <1>5, <1>6 DEF PipeNext, ClientSteps

\* However calls fail and whenever timers cancel, a kept stream holds nothing of an earlier
\* call, and a request is written only to the verified server (transport.py 185-232).
THEOREM KeptStreamsSafe == PipeSpec => [](PipeTypeOK /\ KeptStreamIsSafe)
<1>1. PipeInv => PipeTypeOK /\ KeptStreamIsSafe
  BY DEF PipeInv, StreamFollowsCall, KeptStreamIsSafe, InCall, Clean, Served, BeforeWrite
<1>2. PipeSpec => []PipeInv
  BY PipeInitial, PipeStep, PTL DEF PipeSpec
<1> QED  BY <1>1, <1>2, PTL
=============================================================================
