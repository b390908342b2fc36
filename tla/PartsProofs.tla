----------------------------- MODULE PartsProofs -----------------------------
(***************************************************************************)
(* Proofs about the parts that share no state with one another: DebugEvents *)
(* and Hypervisor on the side of the bridge; StructureWorkspace,           *)
(* OutputLimit and AuditLog on the side of the sidecar, for any clients    *)
(* and every bound; and the types of all of them together, as MCParts      *)
(* composes them.                                                          *)
(***************************************************************************)
EXTENDS MCParts, PipeTransportProofs, ControllerProofs, ArtifactStoreProofs, SequenceTheorems

-----------------------------------------------------------------------------
(* The ring of debug events.                                               *)

\* Cursors come from this generation or an earlier one, and a client without a
\* cursor has been promised nothing.
ClientInv ==
  /\ generation >= 1 /\ cursor.gen <= generation
  /\ cursor = NoCursor => origin = 0 /\ delivered = 0 /\ dropped = 0

RingInv ==
  /\ RingTypeOK
  /\ RingIsConsecutive
  /\ CursorStaysUsable
  /\ ClientInv
  /\ EveryEventAccounted

\* The page after a position is the run of consecutive events that starts at the
\* first event of the ring past it.
LEMMA PageIsConsecutive ==
  ASSUME RingTypeOK, RingIsConsecutive, NEW after \in Nat, NEW limit \in 1 .. MaxLimit
  PROVE  LET page == Page(after, limit)
         IN  /\ page \in Seq(EventId)
             /\ page # <<>> =>
                  /\ page[1].seq > after
                  /\ page[Len(page)] =
                       [gen |-> generation, seq |-> page[1].seq + Len(page) - 1]
                  /\ page[1].seq + Len(page) - 1 <= eventCounter
<1> DEFINE first == FirstAfter(after)
           last  == IF first + limit - 1 < Len(events) THEN first + limit - 1 ELSE Len(events)
           page == SubSeq(events, first, last)
<1>1. Len(events) \in Nat /\ limit \in Nat \ {0} /\ DOMAIN events = 1 .. Len(events)
  BY RingAssumption DEF RingTypeOK
<1>2. /\ first \in 1 .. Len(events) + 1
      /\ first \in DOMAIN events => events[first].seq > after
  <2> DEFINE P(i) == \A j \in 1 .. i - 1 : events[j].seq <= after
             Passed == {i \in 1 .. Len(events) + 1 : P(i)}
  <2>1. \E i \in 1 .. Len(events) + 1 :
          /\ i \in DOMAIN events => events[i].seq > after
          /\ \A j \in 1 .. i - 1 : events[j].seq <= after
    <3>1. \A j \in DOMAIN events : events[j].seq = eventCounter - Len(events) + j
      BY DEF RingIsConsecutive
    <3>2. CASE after >= eventCounter
      <4>1. \A j \in 1 .. Len(events) : events[j].seq <= after
        BY <1>1, <3>1, <3>2 DEF RingTypeOK
      <4> QED  BY <1>1, <4>1
    <3>3. CASE after < eventCounter - Len(events) + 1
      <4>1. 1 \in DOMAIN events => events[1].seq > after
        BY <1>1, <3>1, <3>3 DEF RingTypeOK
      <4>2. 1 \in 1 .. Len(events) + 1 /\ 1 .. 1 - 1 = {}
        BY <1>1
      <4> QED  BY <4>1, <4>2
    <3>4. CASE after < eventCounter /\ after >= eventCounter - Len(events) + 1
      <4> DEFINE k == after - (eventCounter - Len(events)) + 1
      <4>1. k \in 1 .. Len(events) + 1 /\ k \in DOMAIN events
        BY <1>1, <3>4 DEF RingTypeOK
      <4>2. events[k].seq > after
        BY <1>1, <3>1, <4>1 DEF RingTypeOK
      <4>3. ASSUME NEW j \in 1 .. k - 1 PROVE events[j].seq <= after
        <5>1. j \in DOMAIN events  BY <1>1, <4>1
        <5>2. events[j].seq = eventCounter - Len(events) + j  BY <3>1, <5>1
        <5> QED  BY <1>1, <4>1, <5>2 DEF RingTypeOK
      <4> QED  BY <4>1, <4>2, <4>3
    <3> QED  BY <1>1, <3>2, <3>3, <3>4 DEF RingTypeOK
  <2> QED  BY <2>1 DEF FirstAfter
<1>3. last \in 0 .. Len(events) /\ last \in Int /\ first \in Int /\ first - 1 <= last
  BY <1>1, <1>2
<1> HIDE DEF first, last
<1>4. CASE first > last
  <2>1. page = <<>>
    BY <1>3, <1>4, SubSeqEmpty
  <2>2. page \in Seq(EventId)  BY <2>1
  <2> QED  BY <2>1, <2>2 DEF Page, first, last
<1>5. CASE first <= last
  <2>1. first \in 1 .. Len(events) /\ last \in 1 .. Len(events)
    BY <1>1, <1>2, <1>3, <1>5
  <2>2. /\ page \in Seq(EventId)
        /\ Len(page) = last - first + 1
        /\ \A i \in 1 .. last - first + 1 : page[i] = events[first + i - 1]
    BY <1>1, <1>3, <1>5, <2>1, SubSeqProperties DEF RingTypeOK
  <2>3. page[1] = events[first] /\ page[Len(page)] = events[last]
    <3>1. Len(page) \in 1 .. last - first + 1 /\ 1 \in 1 .. last - first + 1
      BY <1>3, <1>5, <2>2
    <3>2. first + 1 - 1 = first /\ first + Len(page) - 1 = last
      BY <1>3, <2>2
    <3> QED  BY <2>2, <3>1, <3>2
  <2>4. /\ events[first] = [gen |-> generation, seq |-> eventCounter - Len(events) + first]
        /\ events[last] = [gen |-> generation, seq |-> eventCounter - Len(events) + last]
    BY <1>1, <2>1 DEF RingIsConsecutive
  <2>5. eventCounter - Len(events) + first + Len(page) - 1 = eventCounter - Len(events) + last
    BY <1>1, <1>3, <2>2 DEF RingTypeOK
  <2>6. page[1].seq = eventCounter - Len(events) + first
    BY <2>3, <2>4
  <2>7. page[Len(page)] = [gen |-> generation, seq |-> page[1].seq + Len(page) - 1]
    BY <2>3, <2>4, <2>5, <2>6
  <2>8. page[1].seq > after
    BY <1>1, <1>2, <2>1, <2>3
  <2>9. page[1].seq + Len(page) - 1 <= eventCounter
    BY <1>1, <1>3, <2>5, <2>6 DEF RingTypeOK
  <2> QED  BY <2>2, <2>7, <2>8, <2>9 DEF Page, first, last
<1> QED  BY <1>3, <1>4, <1>5

\* RingInit establishes the invariant.
LEMMA RingInitial == RingInit => RingInv
<1> SUFFICES ASSUME RingInit PROVE RingInv  OBVIOUS
<1>1. RingTypeOK /\ RingIsConsecutive
  BY RingAssumption DEF RingInit, RingTypeOK, EventId, NoCursor, RingIsConsecutive
<1>2. CursorStaysUsable /\ ClientInv /\ EveryEventAccounted
  BY DEF RingInit, NoCursor, CursorStaysUsable, CursorAccepted, ClientInv, EveryEventAccounted
<1> QED  BY <1>1, <1>2 DEF RingInv

\* Recording keeps the ring consecutive, rolling over or not.
LEMMA RecordKeepsRing ==
  ASSUME RingTypeOK, RingIsConsecutive, RecordDebugStop
  PROVE  RingIsConsecutive' /\ events' \in Seq(EventId)
<1> DEFINE e == [gen |-> generation, seq |-> eventCounter']
           all == Append(events, e)
<1>1. /\ eventCounter' = eventCounter + 1 /\ eventCounter \in Nat /\ generation' = generation
      /\ events \in Seq(EventId) /\ Len(events) \in Nat /\ e \in EventId
      /\ RingSize \in Nat \ {0} /\ Len(events) <= RingSize
      /\ events' = IF Len(events) < RingSize THEN all ELSE Tail(all)
  BY RingAssumption DEF RingTypeOK, RecordDebugStop, RingIsConsecutive, EventId, Ring
<1>2. /\ all \in Seq(EventId) /\ Len(all) = Len(events) + 1
      /\ \A i \in 1 .. Len(events) : all[i] = events[i]
      /\ all[Len(events) + 1] = e
  BY <1>1, AppendProperties
<1> HIDE DEF e
<1>3. \A i \in 1 .. Len(events) + 1 :
        all[i] = [gen |-> generation, seq |-> eventCounter' - Len(all) + i]
  <2> SUFFICES ASSUME NEW i \in 1 .. Len(events) + 1
               PROVE  all[i] = [gen |-> generation, seq |-> eventCounter' - Len(all) + i]
    OBVIOUS
  <2>0. eventCounter' - Len(all) + i = eventCounter - Len(events) + i
    BY <1>1, <1>2
  <2>1. CASE i \in 1 .. Len(events)
    BY <1>1, <1>2, <2>0, <2>1 DEF RingIsConsecutive
  <2>2. CASE i = Len(events) + 1
    <3>1. eventCounter - Len(events) + i = eventCounter'  BY <1>1, <2>2
    <3> QED  BY <1>2, <2>0, <2>2, <3>1 DEF e
  <2> QED  BY <1>1, <2>1, <2>2
<1> HIDE DEF all
<1>4. CASE Len(events) < RingSize
  <2>1. events' = all  BY <1>1, <1>4
  <2>2. Len(all) <= RingSize /\ DOMAIN all = 1 .. Len(events) + 1  BY <1>1, <1>2, <1>4
  <2> QED  BY <1>1, <1>2, <1>3, <2>1, <2>2 DEF RingIsConsecutive
<1>5. CASE ~(Len(events) < RingSize)
  <2>1. events' = Tail(all) /\ Len(events) = RingSize  BY <1>1, <1>5
  <2>2. all # <<>>  BY <1>1, <1>2
  <2>3. /\ Tail(all) \in Seq(EventId) /\ Len(Tail(all)) = Len(events)
        /\ \A i \in 1 .. Len(events) : Tail(all)[i] = all[i + 1]
    BY <1>1, <1>2, <2>2, HeadTailProperties
  <2>4. ASSUME NEW i \in 1 .. Len(events)
        PROVE  Tail(all)[i] = [gen |-> generation, seq |-> eventCounter' - Len(Tail(all)) + i]
    <3>1. i + 1 \in 1 .. Len(events) + 1 /\ eventCounter' - Len(all) + (i + 1) = eventCounter' - Len(Tail(all)) + i
      BY <1>1, <1>2, <2>3
    <3> QED  BY <1>3, <2>3, <3>1
  <2>5. DOMAIN Tail(all) = 1 .. Len(events) /\ Len(Tail(all)) <= RingSize
    BY <1>1, <2>1, <2>3
  <2> QED  BY <1>1, <2>1, <2>3, <2>4, <2>5 DEF RingIsConsecutive
<1> QED  BY <1>4, <1>5

\* A page moves the cursor past exactly what it delivers and reports as dropped.
LEMMA ListKeepsRingInv ==
  ASSUME RingInv, NEW limit \in 1 .. MaxLimit, EventsList(limit)
  PROVE  RingInv'
<1> DEFINE after == IF cursor = NoCursor THEN 0 ELSE cursor.seq
           page == Page(after, limit)
<1>1. /\ RingTypeOK /\ RingIsConsecutive /\ ClientInv /\ EveryEventAccounted
      /\ CursorAccepted(cursor)
      /\ cursor' = NextCursor(page)
      /\ delivered' = delivered + Len(page)
      /\ dropped' = dropped + DroppedEvents(page, after)
      /\ origin' = IF cursor = NoCursor /\ page = <<>> THEN eventCounter ELSE origin
      /\ generation' = generation /\ eventCounter' = eventCounter /\ events' = events
  BY DEF RingInv, EventsList, bridgeVars
<1>2. /\ after \in Nat /\ eventCounter \in Nat /\ generation \in Nat /\ generation >= 1
      /\ origin \in Nat /\ delivered \in Nat /\ dropped \in Nat /\ cursor \in EventId
  BY <1>1 DEF RingTypeOK, EventId, ClientInv
<1>3. delivered + dropped = after - origin
  BY <1>1, <1>2 DEF ClientInv, EveryEventAccounted
<1>4. /\ page \in Seq(EventId)
      /\ page # <<>> =>
           /\ page[1].seq > after
           /\ page[Len(page)] =
                [gen |-> generation, seq |-> page[1].seq + Len(page) - 1]
           /\ page[1].seq + Len(page) - 1 <= eventCounter
  BY <1>1, <1>2, PageIsConsecutive
<1>5. RingIsConsecutive'
  BY <1>1 DEF RingIsConsecutive
<1> HIDE DEF page, after
<1>6. CASE page = <<>>
  <2>1. Len(page) = 0 /\ DroppedEvents(page, after) = 0  BY <1>6 DEF DroppedEvents
  <2>2. delivered' = delivered /\ dropped' = dropped
    BY <1>1, <1>2, <2>1
  <2>3. CASE cursor = NoCursor
    <3>1. cursor' = [gen |-> generation, seq |-> eventCounter] /\ origin' = eventCounter
      BY <1>1, <1>6, <2>3 DEF NextCursor
    <3>2. cursor' # NoCursor /\ cursor' \in EventId /\ CursorAccepted(cursor)'
      BY <1>1, <1>2, <3>1 DEF NoCursor, EventId, CursorAccepted
    <3>3. delivered = 0 /\ dropped = 0  BY <1>1, <2>3 DEF ClientInv
    <3> QED
      BY <1>1, <1>2, <1>5, <2>2, <3>1, <3>2, <3>3
         DEF RingInv, RingTypeOK, CursorStaysUsable, ClientInv, EveryEventAccounted
  <2>4. CASE cursor # NoCursor
    <3>1. cursor' = cursor /\ origin' = origin
      BY <1>1, <1>6, <2>4 DEF NextCursor
    <3> QED
      BY <1>1, <1>2, <1>5, <2>2, <2>4, <3>1
         DEF RingInv, RingTypeOK, CursorStaysUsable, ClientInv, EveryEventAccounted, CursorAccepted
  <2> QED  BY <2>3, <2>4
<1>7. CASE page # <<>>
  <2>1. Len(page) \in Nat \ {0} /\ page[1] \in EventId
    BY <1>4, <1>7
  <2>2. page[1].seq \in Nat  BY <2>1 DEF EventId
  <2> DEFINE n == page[1].seq + Len(page) - 1
  <2>3. /\ cursor' = [gen |-> generation, seq |-> n] /\ origin' = origin
        /\ n \in Nat /\ n <= eventCounter
    BY <1>1, <1>4, <1>7, <2>1, <2>2 DEF NextCursor
  <2>4. DroppedEvents(page, after) = page[1].seq - after - 1 /\ page[1].seq - after - 1 \in Nat
    BY <1>2, <1>4, <1>7, <2>2 DEF DroppedEvents
  <2>5. delivered' + dropped' = n - origin' /\ delivered' \in Nat /\ dropped' \in Nat
    <3> DEFINE f == page[1].seq
               l == Len(page)
               d == DroppedEvents(page, after)
    <3>1. /\ f \in Nat /\ l \in Nat /\ d = f - after - 1 /\ d \in Nat /\ n = f + l - 1
          /\ delivered' = delivered + l /\ dropped' = dropped + d /\ origin' = origin
      BY <1>1, <2>1, <2>2, <2>3, <2>4
    <3> HIDE DEF f, l, d, n
    <3> QED  BY <1>2, <1>3, <3>1
  <2> HIDE DEF n
  <2>6. /\ cursor' # NoCursor /\ cursor' \in EventId /\ CursorAccepted(cursor)'
        /\ cursor'.seq = n
    BY <1>1, <1>2, <2>3 DEF NoCursor, EventId, CursorAccepted
  <2> QED
    BY <1>1, <1>2, <1>5, <2>3, <2>5, <2>6
       DEF RingInv, RingTypeOK, CursorStaysUsable, ClientInv, EveryEventAccounted
<1> QED  BY <1>6, <1>7

\* Every step of the bridge, its client and its surroundings keeps the inductive
\* invariant.
LEMMA RingStep == RingInv /\ [RingNext]_ringVars => RingInv'
<1> SUFFICES ASSUME RingInv, [RingNext]_ringVars PROVE RingInv'  OBVIOUS
<1>0. /\ RingTypeOK /\ RingIsConsecutive /\ CursorStaysUsable /\ ClientInv /\ EveryEventAccounted
      /\ eventCounter \in Nat /\ generation \in Nat /\ cursor \in EventId
  BY DEF RingInv, RingTypeOK
<1>1. CASE RecordDebugStop
  <2>1. RingIsConsecutive' /\ events' \in Seq(EventId)
    BY <1>0, <1>1, RecordKeepsRing
  <2>2. CursorStaysUsable'
    BY <1>0, <1>1 DEF RecordDebugStop, clientVars, CursorStaysUsable, CursorAccepted, EventId
  <2> QED
    BY <1>0, <1>1, <2>1, <2>2
       DEF RecordDebugStop, clientVars, RingInv, RingTypeOK, ClientInv, EveryEventAccounted
<1>2. CASE NewTarget
  <2>1. generation' = generation + 1 /\ eventCounter' = 0 /\ events' = <<>> /\ UNCHANGED clientVars
    BY <1>2 DEF NewTarget
  <2>2. RingIsConsecutive'
    BY <2>1, RingAssumption DEF RingIsConsecutive
  <2>3. CursorStaysUsable' /\ ClientInv'
    BY <1>0, <2>1 DEF CursorStaysUsable, ClientInv, clientVars, EventId
  <2> QED
    BY <1>0, <2>1, <2>2, <2>3 DEF clientVars, RingInv, RingTypeOK, EveryEventAccounted
<1>3. CASE CleanupDebugger
  BY <1>0, <1>3, RingAssumption
     DEF CleanupDebugger, clientVars, RingInv, RingTypeOK, RingIsConsecutive, CursorStaysUsable,
         CursorAccepted, ClientInv, EveryEventAccounted
<1>4. ASSUME NEW limit \in 1 .. MaxLimit, EventsList(limit) PROVE RingInv'
  BY <1>4, ListKeepsRingInv
<1>5. CASE StartOver
  BY <1>0, <1>5
     DEF StartOver, bridgeVars, RingInv, RingTypeOK, RingIsConsecutive, CursorStaysUsable,
         CursorAccepted, ClientInv, EveryEventAccounted, NoCursor, EventId
<1>6. CASE UNCHANGED ringVars
  BY <1>0, <1>6
     DEF ringVars, RingInv, RingTypeOK, RingIsConsecutive, CursorStaysUsable, CursorAccepted, ClientInv,
         EveryEventAccounted
<1> QED  BY <1>1, <1>2, <1>3, <1>4, <1>5, <1>6 DEF RingNext

\* The inductive invariant holds of every behaviour.
THEOREM RingInvariant == RingSpec => []RingInv
BY RingInitial, RingStep, PTL DEF RingSpec

\* The ring is a run of consecutive events of the current generation.
THEOREM RingConsecutive == RingSpec => []RingIsConsecutive
BY RingInvariant, PTL DEF RingInv

\* A cursor of the current generation is never refused.
THEOREM CursorUsable == RingSpec => []CursorStaysUsable
BY RingInvariant, PTL DEF RingInv

\* A client is sent or told of every event between its first cursor and its last.
THEOREM EventsAccounted == RingSpec => []EveryEventAccounted
BY RingInvariant, PTL DEF RingInv

-----------------------------------------------------------------------------
(* Watches and the trace of DBVM.                                          *)

HypervisorInv == HypervisorTypeOK /\ DbvmStaysInReach

\* cleanupHypervisor leaves no handle, and DBVM nothing for which no call failed
\* (lua 144-155).
LEMMA CleanupForgetsNothing ==
  ASSUME HypervisorInv, CleanupHypervisor
  PROVE  /\ watches' = {} /\ trace' = NoTrace
         /\ active' \subseteq NativeIds /\ excused' \subseteq NativeIds
         /\ active' \ (excused' \cup stranded) = {}
<1>1. PICK failed \in SUBSET {h.native : h \in Handles} :
        /\ \E had \in SUBSET failed :
             active' = (active \ {h.native : h \in Handles}) \cup (active \cap had)
        /\ excused' = excused \cup failed
        /\ watches' = {} /\ trace' = NoTrace
  BY DEF CleanupHypervisor
<1>2. PICK had \in SUBSET failed :
        active' = (active \ {h.native : h \in Handles}) \cup (active \cap had)
  BY <1>1
<1>3. /\ active \subseteq NativeIds /\ excused \subseteq NativeIds
      /\ active \ (excused \cup stranded) \subseteq {h.native : h \in Handles}
  BY DEF HypervisorInv, HypervisorTypeOK, DbvmStaysInReach
<1>4. \A h \in Handles : h.native \in NativeIds
  BY DEF HypervisorInv, HypervisorTypeOK, Handles, DbvmHandle
<1> QED  BY <1>1, <1>2, <1>3, <1>4

\* A new generation, with or without the cleanup, keeps the types (refreshTarget, lua 349-365).
LEMMA RefreshKeeps ==
  ASSUME HypervisorInv, NEW force \in BOOLEAN, NEW after, RefreshTarget(force, after),
         after \in [pid : DbvmTargets \cup {0}, generation : 1 .. MaxRenewals,
                    detached : BOOLEAN, connected : BOOLEAN, attaching : DbvmTargets \cup {0}],
         after.generation = session.generation,
         after.connected = session.connected,
         ~force => after = session,
         begun' \in 0 .. MaxNative, openPid' \in DbvmTargets \cup {0}, stranded' = stranded
  PROVE  HypervisorInv'
<1>1. CASE force \/ openPid # session.pid
  <2>1. CleanupHypervisor /\ session.generation < MaxRenewals
        /\ session' = [after EXCEPT !.pid = openPid, !.generation = @ + 1]
    BY <1>1 DEF RefreshTarget
  <2>2. /\ watches' = {} /\ trace' = NoTrace
        /\ active' \subseteq NativeIds /\ excused' \subseteq NativeIds
        /\ active' \ (excused' \cup stranded) = {}
    BY <2>1, CleanupForgetsNothing
  <2>3. session' \in [pid : DbvmTargets \cup {0}, generation : 1 .. MaxRenewals,
                      detached : BOOLEAN, connected : BOOLEAN, attaching : DbvmTargets \cup {0}]
    <3>1. after.generation + 1 \in 1 .. MaxRenewals
      BY <2>1, HypervisorAssumption DEF HypervisorInv, HypervisorTypeOK
    <3> QED  BY <2>1, <3>1 DEF HypervisorInv, HypervisorTypeOK
  <2>4. Handles' = {}
    BY <2>2 DEF Handles
  <2>5. HypervisorTypeOK'
    BY <2>2, <2>3 DEF HypervisorInv, HypervisorTypeOK
  <2> QED  BY <2>2, <2>4, <2>5 DEF HypervisorInv, DbvmStaysInReach
<1>2. CASE ~(force \/ openPid # session.pid)
  <2>1. session' = session /\ UNCHANGED <<watches, trace, active, excused>>
    BY <1>2 DEF RefreshTarget, KeepHypervisor
  <2> QED
    BY <2>1 DEF HypervisorInv, HypervisorTypeOK, DbvmStaysInReach, Handles, OfThisGeneration
<1> QED  BY <1>1, <1>2

LEMMA HypervisorInitial == HypervisorInit => HypervisorInv
<1> SUFFICES ASSUME HypervisorInit PROVE HypervisorInv  OBVIOUS
<1>1. Handles = {}  BY DEF HypervisorInit, Handles
<1> QED
  BY <1>1, HypervisorAssumption DEF HypervisorInit, HypervisorInv, HypervisorTypeOK, DbvmStaysInReach

\* Asking DBVM for something gives it a handle or excuses it; nothing else is lost
\* (dbvm.watch.start 2124-2152, dbvm.trace.start 2205-2232).
LEMMA StartsKeep ==
  ASSUME HypervisorInv, WatchStart \/ TraceStart
  PROVE  HypervisorInv'
<1>1. /\ Attached /\ begun < MaxNative /\ begun' = begun + 1
      /\ UNCHANGED <<session, openPid, stranded>>
  BY DEF WatchStart, TraceStart
<1>2. /\ NewHandle \in DbvmHandle /\ NewHandle.native = begun + 1
      /\ NewHandle # NoTrace /\ OfThisGeneration(NewHandle)
      /\ begun' \in 0 .. MaxNative
  BY <1>1, HypervisorAssumption
     DEF HypervisorInv, HypervisorTypeOK, NewHandle, DbvmHandle, NativeIds, NoTrace, OfThisGeneration
<1>3. CASE StartFails
  <2>1. /\ active' = active \/ active' = active \cup {NewHandle.native}
        /\ excused' = excused \cup {NewHandle.native}
        /\ UNCHANGED <<watches, trace>>
    BY <1>3 DEF StartFails
  <2>2. Handles' = Handles  BY <2>1 DEF Handles
  <2> QED
    BY <1>1, <1>2, <2>1, <2>2
       DEF HypervisorInv, HypervisorTypeOK, DbvmStaysInReach, OfThisGeneration, DbvmHandle
<1>4. CASE /\ active' = active \cup {NewHandle.native}
           /\ \/ watches' = watches \cup {NewHandle} /\ trace' = trace
              \/ trace' = NewHandle /\ trace = NoTrace /\ watches' = watches
           /\ excused' = excused
  <2>1. Handles' = Handles \cup {NewHandle}
    BY <1>2, <1>4 DEF Handles
  <2>2. HypervisorTypeOK'
    BY <1>1, <1>2, <1>4 DEF HypervisorInv, HypervisorTypeOK, DbvmHandle
  <2> QED
    BY <1>1, <1>2, <1>4, <2>1, <2>2
       DEF HypervisorInv, DbvmStaysInReach, OfThisGeneration, Attached
<1>5. CASE UNCHANGED <<watches, trace, active, excused>>
  <2>1. Handles' = Handles  BY <1>5 DEF Handles
  <2> QED
    BY <1>1, <1>2, <1>5, <2>1
       DEF HypervisorInv, HypervisorTypeOK, DbvmStaysInReach, OfThisGeneration
<1> QED  BY <1>3, <1>4, <1>5 DEF WatchStart, TraceStart

\* A stop takes a handle away only together with what it stands for
\* (dbvm.watch.stop 2181-2188, dbvm.trace.remove 2268-2276).
LEMMA StopsKeep ==
  ASSUME HypervisorInv, (\E w \in watches : WatchStop(w)) \/ TraceRemove
  PROVE  HypervisorInv'
<1>1. UNCHANGED <<begun, session, openPid, excused, stranded>>
  BY DEF WatchStop, TraceRemove
<1>2. PICK h \in Handles :
        /\ active' \subseteq active
        /\ \/ UNCHANGED <<watches, trace>>
           \/ /\ Handles' \subseteq Handles /\ Handles \ {h} \subseteq Handles'
              /\ active' = active \ {h.native}
        /\ watches' \subseteq watches /\ trace' \in {trace, NoTrace}
  <2>1. CASE \E w \in watches : WatchStop(w)
    <3>1. PICK w \in watches : WatchStop(w)  BY <2>1
    <3> QED  BY <3>1 DEF WatchStop, Handles
  <2>2. CASE TraceRemove
    <3>1. trace \in Handles  BY <2>2 DEF TraceRemove, Handles
    <3> QED  BY <2>2, <3>1 DEF TraceRemove, Handles
  <2> QED  BY <2>1, <2>2
<1>3. HypervisorTypeOK'
  BY <1>1, <1>2 DEF HypervisorInv, HypervisorTypeOK
<1>4. (active \ (excused \cup stranded))' \subseteq {g.native : g \in Handles'}
  <2>1. CASE UNCHANGED <<watches, trace>>
    <3>1. Handles' = Handles  BY <2>1 DEF Handles
    <3> QED  BY <1>1, <1>2, <3>1 DEF HypervisorInv, DbvmStaysInReach
  <2>2. CASE Handles \ {h} \subseteq Handles' /\ active' = active \ {h.native}
    BY <1>1, <2>2 DEF HypervisorInv, DbvmStaysInReach
  <2> QED  BY <1>2, <2>1, <2>2
<1>5. Handles' \subseteq Handles
  BY <1>2 DEF Handles
<1> QED
  BY <1>1, <1>3, <1>4, <1>5 DEF HypervisorInv, DbvmStaysInReach, OfThisGeneration

LEMMA HypervisorStep == HypervisorInv /\ [HypervisorNext]_hypervisorVars => HypervisorInv'
<1> SUFFICES ASSUME HypervisorInv, [HypervisorNext]_hypervisorVars PROVE HypervisorInv'
  OBVIOUS
<1> USE DEF HypervisorInv
<1>1. CASE LooksAtTarget
  BY <1>1, RefreshKeeps DEF LooksAtTarget, HypervisorTypeOK
<1>2. CASE WatchStart \/ TraceStart
  BY <1>2, StartsKeep
<1>3. CASE (\E w \in watches : WatchStop(w)) \/ TraceRemove
  BY <1>3, StopsKeep
<1>4. CASE Detach
  <2>1. Handles' = Handles  BY <1>4 DEF Detach, Handles
  <2>2. HypervisorTypeOK'
    <3>1. session.generation + 1 \in 1 .. MaxRenewals
      BY <1>4, HypervisorAssumption DEF Detach, HypervisorTypeOK
    <3> QED  BY <1>4, <3>1 DEF Detach, HypervisorTypeOK
  <2>3. session'.detached /\ session'.connected /\ UNCHANGED <<active, excused, stranded>>
    BY <1>4 DEF Detach, Attached, HypervisorTypeOK
  <2> QED  BY <2>1, <2>2, <2>3 DEF DbvmStaysInReach
<1>5. CASE Attach
  <2>1. Handles' = Handles  BY <1>5 DEF Attach, Handles
  <2>2. HypervisorTypeOK'
    BY <1>5 DEF Attach, HypervisorTypeOK
  <2> QED
    BY <1>5, <2>1, <2>2 DEF Attach, DbvmStaysInReach, HypervisorTypeOK, OfThisGeneration
<1>6. CASE AttachFires
  <2> DEFINE after == [session EXCEPT !.detached = FALSE, !.attaching = 0]
  <2>1. /\ after \in [pid : DbvmTargets \cup {0}, generation : 1 .. MaxRenewals,
                      detached : BOOLEAN, connected : BOOLEAN, attaching : DbvmTargets \cup {0}]
        /\ after.generation = session.generation /\ after.connected = session.connected
    BY DEF HypervisorTypeOK
  <2>2. RefreshTarget(TRUE, after) /\ begun' = begun /\ stranded' = stranded
        /\ openPid' \in {openPid, session.attaching}
    BY <1>6 DEF AttachFires
  <2>3. begun' \in 0 .. MaxNative /\ openPid' \in DbvmTargets \cup {0}
    BY <2>2 DEF HypervisorTypeOK
  <2> QED  BY <2>1, <2>2, <2>3, RefreshKeeps
<1>7. CASE ClientConnects
  <2>1. Handles' = Handles  BY <1>7 DEF ClientConnects, Handles
  <2>2. HypervisorTypeOK'
    BY <1>7 DEF ClientConnects, HypervisorTypeOK
  <2> QED
    BY <1>7, <2>1, <2>2 DEF ClientConnects, DbvmStaysInReach, HypervisorTypeOK, OfThisGeneration
<1>8. CASE ClientDisconnects
  <2>1. /\ watches' = {} /\ trace' = NoTrace
        /\ active' \subseteq NativeIds /\ excused' \subseteq NativeIds
        /\ active' \ (excused' \cup stranded) = {}
    BY <1>8, CleanupForgetsNothing DEF ClientDisconnects
  <2>2. Handles' = {}  BY <2>1 DEF Handles
  <2>4. stranded' = stranded  BY <1>8 DEF ClientDisconnects
  <2>3. HypervisorTypeOK'
    BY <1>8, <2>1, <2>4 DEF ClientDisconnects, HypervisorTypeOK
  <2> QED  BY <2>1, <2>2, <2>3, <2>4 DEF DbvmStaysInReach
<1>9. CASE UserOpensTarget \/ UNCHANGED hypervisorVars
  <2>1. /\ UNCHANGED <<watches, trace, active, begun, session, excused, stranded>>
        /\ openPid' \in DbvmTargets \cup {0}
    BY <1>9 DEF UserOpensTarget, hypervisorVars, HypervisorTypeOK
  <2>2. Handles' = Handles  BY <2>1 DEF Handles
  <2> QED  BY <2>1, <2>2 DEF DbvmStaysInReach, HypervisorTypeOK, OfThisGeneration
<1>10. CASE BridgeRestarts
  <2>1. Handles' = {}  BY <1>10 DEF BridgeRestarts, Handles
  <2>2. HypervisorTypeOK'
    <3>1. session.generation + 1 \in 1 .. MaxRenewals
      BY <1>10, HypervisorAssumption DEF BridgeRestarts, HypervisorTypeOK
    <3> QED  BY <1>10, <3>1 DEF BridgeRestarts, HypervisorTypeOK
  <2> QED  BY <1>10, <2>1, <2>2 DEF BridgeRestarts, DbvmStaysInReach
<1> QED
  BY <1>1, <1>2, <1>3, <1>4, <1>5, <1>6, <1>7, <1>8, <1>9, <1>10 DEF HypervisorNext

\* DBVM watches and the trace, which nothing but the bridge ends, stay in reach of a
\* cleanup, and of a client that is attached (lua 144-155, 349-365, 2442-2450).
THEOREM DbvmInReach == HypervisorSpec => [](HypervisorTypeOK /\ DbvmStaysInReach)
<1>1. HypervisorSpec => []HypervisorInv
  BY HypervisorInitial, HypervisorStep, PTL DEF HypervisorSpec
<1> QED  BY <1>1, PTL DEF HypervisorInv
-----------------------------------------------------------------------------
(* The structure workspace.                                                *)

\* Ids are handed out in order, each with a content of its own, and a revision counts
\* definitions that were stored.
ItemsInv ==
  /\ counter <= stored
  /\ \A i \in Existing : i <= counter /\ items[i].revision <= stored /\ items[i].content <= stored

\* What client c saw in this life it saw of an id that was handed out; if that structure
\* still exists, it has moved on to a later revision or is what the client saw.
SightInv(c) ==
  /\ seen[c].life <= life
  /\ seen[c].life = life =>
       /\ seen[c].id \in 1 .. counter
       /\ seen[c].id \in Existing =>
            \/ seen[c].item.revision < items[seen[c].id].revision
            \/ seen[c].item = items[seen[c].id]

WorkspaceInv ==
  /\ WorkspaceTypeOK /\ ItemsInv /\ UpdateBuildsOnCurrent
  /\ \A c \in Clients : SightInv(c)

LEMMA WorkspaceInitial == WorkspaceInit => WorkspaceInv
<1> SUFFICES ASSUME WorkspaceInit PROVE WorkspaceInv  OBVIOUS
<1>1. WorkspaceTypeOK
  BY WorkspaceAssumption DEF WorkspaceInit, WorkspaceTypeOK, Sight, NotActed, NoItem
<1>2. Existing = {}  BY DEF WorkspaceInit, Existing
<1> QED
  BY <1>1, <1>2 DEF WorkspaceInit, WorkspaceInv, ItemsInv, SightInv, UpdateBuildsOnCurrent, NotActed

\* An update or delete that is accepted replaces what its client saw, if it saw it in this life.
LEMMA ActsOnWhatItSaw ==
  ASSUME WorkspaceInv, NEW c \in Clients, Current(c), Acts(c)
  PROVE  /\ acted' \in [saw : 0 .. MaxDefinitions, replaced : 0 .. MaxDefinitions, sameLife : BOOLEAN]
         /\ UpdateBuildsOnCurrent'
<1>1. /\ seen[c] \in Sight /\ seen[c].id \in Existing /\ Existing \subseteq StructureIds
      /\ items[seen[c].id] \in Item \cup {NoItem}
      /\ items[seen[c].id].revision = seen[c].item.revision
  BY DEF WorkspaceInv, WorkspaceTypeOK, Current, Existing
<1>2. /\ seen[c].item.content \in 0 .. MaxDefinitions
      /\ items[seen[c].id].content \in 0 .. MaxDefinitions
      /\ items[seen[c].id].revision \in 0 .. MaxDefinitions
  BY <1>1, WorkspaceAssumption DEF Sight, Item, NoItem, Contents
<1>3. seen[c].life = life => seen[c].item.content = items[seen[c].id].content
  BY <1>1, <1>2 DEF WorkspaceInv, SightInv
<1> QED  BY <1>2, <1>3 DEF Acts, UpdateBuildsOnCurrent

\* A client that is page the item of an id that was handed out.
LEMMA SeesCurrent ==
  ASSUME WorkspaceInv, NEW c \in Clients, NEW i \in StructureIds, NEW item \in Item, Sees(c, i, item)
  PROVE  /\ seen' \in [Clients -> Sight]
         /\ seen'[c] = [id |-> i, item |-> item, life |-> life]
         /\ \A d \in Clients \ {c} : seen'[d] = seen[d]
<1>1. [id |-> i, item |-> item, life |-> life] \in Sight
  BY WorkspaceAssumption DEF WorkspaceInv, WorkspaceTypeOK, Sight, StructureIds
<1> QED  BY <1>1 DEF WorkspaceInv, WorkspaceTypeOK, Sees

LEMMA CreateKeeps ==
  ASSUME WorkspaceInv, NEW c \in Clients, CreateStructure(c)
  PROVE  WorkspaceInv'
<1> DEFINE new == [revision |-> 1, content |-> stored + 1]
<1>1. /\ stored \in Nat /\ stored < MaxDefinitions /\ stored' = stored + 1
      /\ counter \in Nat /\ counter' = counter + 1 /\ counter <= stored /\ MaxDefinitions \in Nat
      /\ NextId = counter + 1 /\ NextId \in StructureIds /\ new \in Item
      /\ items \in [StructureIds -> Item \cup {NoItem}]
      /\ items' = [items EXCEPT ![NextId] = new] /\ Sees(c, NextId, new)
      /\ UNCHANGED <<life, acted>>
  BY WorkspaceAssumption DEF CreateStructure, Valid, NextId, WorkspaceInv, WorkspaceTypeOK, ItemsInv,
     StructureIds, Item, Contents
<1> HIDE DEF new
<1>2. /\ seen' \in [Clients -> Sight]
      /\ seen'[c] = [id |-> NextId, item |-> new, life |-> life]
      /\ \A d \in Clients \ {c} : seen'[d] = seen[d]
  BY <1>1, SeesCurrent
<1>3. WorkspaceTypeOK' /\ UpdateBuildsOnCurrent'
  BY <1>1, <1>2 DEF WorkspaceInv, WorkspaceTypeOK, UpdateBuildsOnCurrent
<1>4. /\ items'[NextId] = new /\ new.revision = 1 /\ new.content = stored + 1
      /\ \A i \in StructureIds \ {NextId} : items'[i] = items[i]
  BY <1>1 DEF new
<1>5. ItemsInv'
  <2> SUFFICES ASSUME NEW i \in Existing'
               PROVE  i <= counter' /\ items'[i].revision <= stored' /\ items'[i].content <= stored'
    BY <1>1 DEF ItemsInv
  <2>1. CASE i = NextId  BY <1>1, <1>4, <2>1
  <2>2. CASE i # NextId
    <3>1. i \in Existing /\ items'[i] = items[i]  BY <1>4, <2>2 DEF Existing
    <3>2. items[i] \in Item  BY <1>1, <3>1 DEF Existing
    <3> QED  BY <1>1, <3>1, <3>2 DEF WorkspaceInv, ItemsInv, Item, Contents, Existing, StructureIds
  <2> QED  BY <2>1, <2>2
<1>6. ASSUME NEW d \in Clients PROVE SightInv(d)'
  <2>1. CASE d = c  BY <1>1, <1>2, <1>4, <2>1 DEF SightInv, WorkspaceInv, WorkspaceTypeOK
  <2>2. CASE d # c
    <3>1. seen'[d] = seen[d] /\ SightInv(d)  BY <1>2, <2>2 DEF WorkspaceInv
    <3>2. seen[d].life = life => /\ seen[d].id \in 1 .. counter
                                 /\ seen[d].id \in StructureIds \ {NextId}
      BY <1>1, <3>1 DEF SightInv, StructureIds
    <3> QED  BY <1>1, <1>4, <3>1, <3>2 DEF SightInv, Existing
  <2> QED  BY <2>1, <2>2
<1> QED  BY <1>3, <1>5, <1>6 DEF WorkspaceInv

LEMMA UpdateKeeps ==
  ASSUME WorkspaceInv, NEW c \in Clients, UpdateStructure(c)
  PROVE  WorkspaceInv'
<1> DEFINE id == seen[c].id
           new == [revision |-> items[id].revision + 1, content |-> stored + 1]
<1>1. /\ stored \in Nat /\ stored < MaxDefinitions /\ stored' = stored + 1
      /\ counter' = counter /\ counter \in Nat /\ counter <= stored /\ MaxDefinitions \in Nat
      /\ id \in Existing /\ id \in StructureIds /\ Current(c) /\ Acts(c)
      /\ items \in [StructureIds -> Item \cup {NoItem}]
      /\ items' = [items EXCEPT ![id] = new]
      /\ Sees(c, id, new) \/ UNCHANGED seen
      /\ life' = life
  BY WorkspaceAssumption DEF UpdateStructure, Valid, Current, WorkspaceInv, WorkspaceTypeOK, ItemsInv,
     Existing
<1> HIDE DEF id
<1>2. items[id] \in Item /\ items[id].revision <= stored
  BY <1>1 DEF WorkspaceInv, ItemsInv, Existing
<1>3. new \in Item /\ new.revision = items[id].revision + 1 /\ new.content = stored + 1
  BY <1>1, <1>2 DEF Item, Contents
<1> HIDE DEF new
<1>4. /\ seen' \in [Clients -> Sight]
      /\ seen'[c] \in {seen[c], [id |-> id, item |-> new, life |-> life]}
      /\ \A d \in Clients \ {c} : seen'[d] = seen[d]
  BY <1>1, <1>3, SeesCurrent DEF WorkspaceInv, WorkspaceTypeOK
<1>5. /\ items'[id] = new /\ items' \in [StructureIds -> Item \cup {NoItem}]
      /\ \A i \in StructureIds \ {id} : items'[i] = items[i]
  BY <1>1, <1>3
<1>6. WorkspaceTypeOK' /\ UpdateBuildsOnCurrent'
  BY <1>1, <1>4, <1>5, ActsOnWhatItSaw DEF WorkspaceInv, WorkspaceTypeOK
<1>7. \A i \in Existing' : i \in Existing /\ (i # id => items'[i] = items[i])
  BY <1>1, <1>5 DEF Existing
<1>8. ItemsInv'
  <2> SUFFICES ASSUME NEW i \in Existing'
               PROVE  i <= counter' /\ items'[i].revision <= stored' /\ items'[i].content <= stored'
    BY <1>1 DEF ItemsInv
  <2>1. i \in Existing /\ items[i] \in Item  BY <1>1, <1>7 DEF Existing
  <2>2. i <= counter /\ items[i].revision <= stored /\ items[i].content <= stored
    BY <2>1 DEF WorkspaceInv, ItemsInv
  <2>3. CASE i = id  BY <1>1, <1>2, <1>3, <1>5, <2>2, <2>3 DEF Item
  <2>4. CASE i # id  BY <1>1, <1>7, <2>1, <2>2, <2>4 DEF Item, Contents
  <2> QED  BY <2>3, <2>4
<1>9. ASSUME NEW d \in Clients PROVE SightInv(d)'
  <2>1. CASE seen'[d] = [id |-> id, item |-> new, life |-> life]
    <3>1. id \in 1 .. counter
      BY <1>1 DEF WorkspaceInv, ItemsInv, StructureIds
    <3> QED  BY <1>1, <1>5, <2>1, <3>1 DEF SightInv, WorkspaceInv, WorkspaceTypeOK
  <2>2. CASE seen'[d] = seen[d]
    <3>1. SightInv(d)  BY DEF WorkspaceInv
    <3>2. CASE seen[d].life = life /\ seen[d].id = id
      <4>1. \/ seen[d].item.revision < items[id].revision
            \/ seen[d].item = items[id]
        BY <1>1, <3>1, <3>2 DEF SightInv
      <4>2. seen[d].item \in Item \cup {NoItem}
        BY DEF WorkspaceInv, WorkspaceTypeOK, Sight
      <4>3. seen[d].item.revision < new.revision
        BY <1>2, <1>3, <4>1, <4>2, WorkspaceAssumption DEF Item, NoItem
      <4> QED  BY <1>1, <1>5, <2>2, <3>1, <3>2, <4>3 DEF SightInv
    <3>3. CASE ~(seen[d].life = life /\ seen[d].id = id)
      BY <1>1, <1>7, <2>2, <3>1, <3>3 DEF SightInv
    <3> QED  BY <3>2, <3>3
  <2> QED  BY <1>4, <2>1, <2>2
<1> QED  BY <1>6, <1>8, <1>9 DEF WorkspaceInv

LEMMA DeleteKeeps ==
  ASSUME WorkspaceInv, NEW c \in Clients, DeleteStructure(c)
  PROVE  WorkspaceInv'
<1>1. /\ Current(c) /\ Acts(c) /\ items' = [items EXCEPT ![seen[c].id] = NoItem]
      /\ UNCHANGED <<counter, stored, life, seen>>
  BY DEF DeleteStructure
<1>2. WorkspaceTypeOK' /\ UpdateBuildsOnCurrent'
  BY <1>1, ActsOnWhatItSaw DEF WorkspaceInv, WorkspaceTypeOK
<1>3. \A i \in Existing' : i \in Existing /\ items'[i] = items[i]
  BY <1>1 DEF Existing, WorkspaceInv, WorkspaceTypeOK
<1> QED  BY <1>1, <1>2, <1>3 DEF WorkspaceInv, ItemsInv, SightInv

LEMMA LooksKeeps ==
  ASSUME WorkspaceInv, NEW c \in Clients, LooksAt(c)
  PROVE  WorkspaceInv'
<1>1. PICK i \in Existing : Sees(c, i, items[i])
  BY DEF LooksAt
<1>2. i \in StructureIds /\ items[i] \in Item
  BY DEF Existing, WorkspaceInv, WorkspaceTypeOK
<1>3. /\ seen' \in [Clients -> Sight]
      /\ seen'[c] = [id |-> i, item |-> items[i], life |-> life]
      /\ \A d \in Clients \ {c} : seen'[d] = seen[d]
  BY <1>1, <1>2, SeesCurrent
<1>4. UNCHANGED <<items, counter, stored, life, acted>>  BY DEF LooksAt
<1>5. WorkspaceTypeOK' /\ ItemsInv' /\ UpdateBuildsOnCurrent' /\ Existing' = Existing
  BY <1>3, <1>4 DEF WorkspaceInv, WorkspaceTypeOK, ItemsInv, UpdateBuildsOnCurrent, Existing
<1>6. ASSUME NEW d \in Clients PROVE SightInv(d)'
  <2>1. CASE d = c
    <3>1. i \in 1 .. counter /\ life \in Nat
      BY <1>2 DEF WorkspaceInv, WorkspaceTypeOK, ItemsInv, StructureIds
    <3> QED  BY <1>3, <1>4, <2>1, <3>1 DEF SightInv
  <2>2. CASE d # c  BY <1>3, <1>4, <1>5, <2>2 DEF SightInv, WorkspaceInv
  <2> QED  BY <2>1, <2>2
<1> QED  BY <1>5, <1>6 DEF WorkspaceInv

LEMMA RestartKeeps ==
  ASSUME WorkspaceInv, WorkspaceRestarts
  PROVE  WorkspaceInv'
<1>1. WorkspaceTypeOK' /\ UpdateBuildsOnCurrent'
  BY WorkspaceAssumption DEF WorkspaceRestarts, WorkspaceInv, WorkspaceTypeOK, UpdateBuildsOnCurrent
<1>2. Existing' = {}  BY DEF WorkspaceRestarts, Existing
<1>3. ItemsInv'  BY <1>2 DEF WorkspaceRestarts, ItemsInv, WorkspaceInv, WorkspaceTypeOK
<1>4. ASSUME NEW d \in Clients PROVE SightInv(d)'
  <2>1. seen'[d] = seen[d] /\ seen[d].life \in Int /\ seen[d].life <= life
        /\ life \in Int /\ life' = life + 1
    BY DEF WorkspaceRestarts, WorkspaceInv, WorkspaceTypeOK, Sight, SightInv
  <2> QED  BY <2>1 DEF SightInv
<1> QED  BY <1>1, <1>3, <1>4 DEF WorkspaceInv

LEMMA WorkspaceStep == WorkspaceInv /\ [WorkspaceNext]_workspaceVars => WorkspaceInv'
<1>1. ASSUME WorkspaceInv, UNCHANGED workspaceVars
      PROVE  WorkspaceInv'
  BY <1>1 DEF workspaceVars, WorkspaceInv, WorkspaceTypeOK, ItemsInv, SightInv, Existing,
     UpdateBuildsOnCurrent
<1> QED
  BY <1>1, CreateKeeps, UpdateKeeps, DeleteKeeps, LooksKeeps, RestartKeeps DEF WorkspaceNext

\* No update is lost, whatever the clients store, delete and create in between
\* (structures.py 46-83).
THEOREM UpdatesBuildOnCurrent == WorkspaceSpec => [](WorkspaceTypeOK /\ UpdateBuildsOnCurrent)
<1>1. WorkspaceInv => WorkspaceTypeOK /\ UpdateBuildsOnCurrent  BY DEF WorkspaceInv
<1>2. WorkspaceSpec => []WorkspaceInv
  BY WorkspaceInitial, WorkspaceStep, PTL DEF WorkspaceSpec
<1> QED  BY <1>1, <1>2, PTL

-----------------------------------------------------------------------------
(* The output limit.                                                       *)

\* Only a read is shrunk, to less than it asked for; and what was carried out and what is
\* left to ask for stay below what the first call may ask for.
LimitInv ==
  /\ request.kind \notin Shrinkable => request.value = 0
  /\ answer # "called" => executions + Work(request) <= MaxAsk + 1
  /\ answer = "called" => /\ executions + Work(request) <= MaxAsk
                          /\ request.kind \in Changes => executions = 0
  /\ answer = "withheld" /\ advice.retry # 0 =>
       request.kind \in Shrinkable /\ advice.retry < Work(request)

OutputInv == OutputTypeOK /\ LimitInv /\ AdviceMakesProgress

LEMMA OutputInitial == OutputInit => OutputInv
<1> SUFFICES ASSUME OutputInit PROVE OutputInv  OBVIOUS
<1>1. OutputTypeOK
  BY OutputAssumption
     DEF OutputInit, OutputTypeOK, Request, Advice, Answers, NoAdvice, CallKinds, Shrinkable,
         Changes, Mutations
<1>2. Work(request) = 1 /\ MaxAsk \in Nat \ {0}
  BY OutputAssumption DEF OutputInit, Work
<1>3. LimitInv /\ AdviceMakesProgress
  BY <1>2 DEF OutputInit, LimitInv, NoAdvice, AdviceMakesProgress, Changes, Mutations
<1> QED  BY <1>1, <1>3 DEF OutputInv

\* A request reads at least one value, and at most what a request may ask for.
LEMMA WorkIsBounded == \A r \in Request : Work(r) \in 1 .. MaxAsk
BY OutputAssumption DEF Request, Work

\* The recommended value is less than what was asked for, unless one value was.
LEMMA SmallerIsLess ==
  ASSUME request \in Request, request.kind \in Shrinkable, Reducible,
         ~(request.kind = "step" /\ Work(request) = 1)
  PROVE  Smaller \in 1 .. MaxAsk /\ Smaller < Work(request)
<1>1. /\ request.value \in 0 .. MaxAsk /\ MaxAsk \in Nat /\ Implied \in 2 .. MaxAsk
      /\ request.value # 1 /\ (request.value = 0 => request.kind # "typed")
  BY OutputAssumption DEF Request, Reducible
<1>2. CASE request.value = 0
  <2>1. request.kind = "page" /\ Work(request) = Implied
    BY <1>1, <1>2 DEF Shrinkable, Work
  <2>2. request.value \div 2 = 0  BY <1>2
  <2> QED  BY <1>1, <2>1, <2>2 DEF Smaller
<1>3. CASE request.value # 0
  <2>1. Work(request) = request.value /\ request.value >= 2
    BY <1>1, <1>3 DEF Work
  <2>2. request.value \div 2 \in Nat /\ request.value \div 2 < request.value
    BY <1>1, <2>1
  <2> QED  BY <1>1, <2>1, <2>2 DEF Smaller
<1> QED  BY <1>2, <1>3

LEMMA WithholdKeeps ==
  ASSUME OutputInv, Withhold
  PROVE  OutputInv'
<1>1. /\ request \in Request /\ answer \in {"result", "error"} /\ answer' = "withheld"
      /\ UNCHANGED <<request, executions, asked>>
      /\ ~(request.kind = "step" /\ Work(request) = 1)
      /\ Work(request)' = Work(request)
  BY DEF OutputInv, OutputTypeOK, Withhold, Work
<1>2. CASE answer = "result" /\ request.kind \in Shrinkable
  <2>1. advice' = [retry |-> IF Reducible THEN Smaller ELSE 0, refresh |-> FALSE]
    BY <1>2 DEF Withhold, NoAdvice
  <2>2. advice' \in Advice /\ (advice'.retry # 0 => advice'.retry < Work(request))
    BY <1>1, <1>2, <2>1, SmallerIsLess, OutputAssumption DEF Advice
  <2>3. request.kind \notin Mutations  BY <1>2 DEF Shrinkable, Mutations
  <2> QED
    BY <1>1, <1>2, <2>2, <2>3
       DEF OutputInv, OutputTypeOK, Answers, LimitInv, AdviceMakesProgress
<1>3. CASE ~(answer = "result" /\ request.kind \in Shrinkable)
  <2>1. advice' = [retry |-> 0, refresh |-> request.kind \in Mutations]
    BY <1>3 DEF Withhold, NoAdvice
  <2>2. advice' \in Advice
    BY <2>1, OutputAssumption DEF Advice
  <2>3. advice'.retry = 0 /\ (request.kind \in Mutations => advice'.refresh)
    BY <2>1
  <2> QED
    BY <1>1, <2>2, <2>3 DEF OutputInv, OutputTypeOK, Answers, LimitInv, AdviceMakesProgress
<1> QED  BY <1>2, <1>3

LEMMA RetryKeeps ==
  ASSUME OutputInv, Retry
  PROVE  OutputInv'
<1>1. /\ request \in Request /\ request' = [request EXCEPT !.value = advice.retry]
      /\ answer' = "called" /\ advice' = NoAdvice /\ asked' = Work(request)
      /\ executions' = executions /\ answer = "withheld"
      /\ advice.retry \in 1 .. MaxAsk /\ advice.retry < Work(request)
      /\ request.kind \in Shrinkable
      /\ executions \in Nat /\ executions + Work(request) <= MaxAsk + 1 /\ MaxAsk \in Nat
  BY OutputAssumption DEF OutputInv, OutputTypeOK, LimitInv, Retry, Advice
<1>2. /\ request' \in Request /\ request'.kind = request.kind /\ Work(request)' = advice.retry
  BY <1>1 DEF Request, Work
<1>3. request.kind \notin Changes /\ request.kind \notin Mutations
  BY <1>1 DEF Shrinkable, Changes, Mutations
<1>4. Work(request) \in 1 .. MaxAsk  BY <1>1, WorkIsBounded
<1>5. OutputTypeOK'
  BY <1>1, <1>2, <1>4, OutputAssumption
     DEF OutputInv, OutputTypeOK, Answers, NoAdvice, Advice
<1>6. LimitInv' /\ AdviceMakesProgress'
  BY <1>1, <1>2, <1>3, <1>4 DEF LimitInv, AdviceMakesProgress, NoAdvice
<1> QED  BY <1>5, <1>6 DEF OutputInv

LEMMA OutputStep == OutputInv /\ [OutputNext]_outputVars => OutputInv'
<1> SUFFICES ASSUME OutputInv, [OutputNext]_outputVars PROVE OutputInv'  OBVIOUS
<1>1. /\ request \in Request /\ executions \in 0 .. MaxAsk + 1 /\ MaxAsk \in Nat
      /\ Work(request) \in 1 .. MaxAsk
  BY WorkIsBounded, OutputAssumption DEF OutputInv, OutputTypeOK
<1>2. CASE Call
  <2>1. /\ request' \in Request /\ (request'.kind \notin Shrinkable => request'.value = 0)
        /\ answer' = "called" /\ advice' = NoAdvice /\ executions' = 0 /\ asked' = 0
    BY <1>2 DEF Call
  <2>2. Work(request)' \in 1 .. MaxAsk  BY <2>1, WorkIsBounded
  <2> QED
    BY <1>1, <2>1, <2>2
       DEF OutputInv, OutputTypeOK, Answers, NoAdvice, Advice, LimitInv, AdviceMakesProgress
<1>3. CASE CallTool
  <2>1. /\ answer = "called" /\ answer' \in {"result", "error"} /\ executions' = executions + 1
        /\ UNCHANGED <<request, advice, asked>> /\ Work(request)' = Work(request)
    BY <1>3 DEF CallTool, Work
  <2>2. executions + Work(request) <= MaxAsk /\ (request.kind \in Changes => executions = 0)
    BY <2>1 DEF OutputInv, LimitInv
  <2> QED
    BY <1>1, <2>1, <2>2 DEF OutputInv, OutputTypeOK, Answers, LimitInv, AdviceMakesProgress
<1>4. CASE Fits \/ LeaveIt \/ UNCHANGED outputVars
  <2>1. /\ UNCHANGED <<request, advice, executions, asked>> /\ Work(request)' = Work(request)
        /\ answer' = answer \/ (answer \in {"result", "error", "withheld"} /\ answer' = "returned")
    BY <1>4 DEF Fits, LeaveIt, outputVars, Work
  <2> QED
    BY <1>1, <2>1 DEF OutputInv, OutputTypeOK, Answers, LimitInv, AdviceMakesProgress
<1> QED  BY <1>2, <1>3, <1>4, WithholdKeeps, RetryKeeps DEF OutputNext

\* A client that follows the advice asks for less at each retry, and carries nothing out
\* twice that changes state (mcp_adapter.py 107-160).
THEOREM AdviceProgresses == OutputSpec => [](OutputTypeOK /\ AdviceMakesProgress)
<1>1. OutputInv => OutputTypeOK /\ AdviceMakesProgress  BY DEF OutputInv
<1>2. OutputSpec => []OutputInv
  BY OutputInitial, OutputStep, PTL DEF OutputSpec
<1> QED  BY <1>1, <1>2, PTL

-----------------------------------------------------------------------------
(* The audit log.                                                          *)

\* How many records the current file has.
Lines == Cardinality(logs[0])

\* A rotation begins with a full file and goes down to it with an empty one; there is a
\* record to write.
RotationInv ==
  /\ \A f \in LogFiles : logs[f] \subseteq 1 .. written /\ (f \notin present => logs[f] = {})
  /\ step \in {"unlink", "move"} => Lines >= FileLines
  /\ step = "move" => file # 0 /\ logs[file] = {}
  /\ step # "idle" => written < MaxRecords

\* A record in file f was moved f times.  Between two moves a whole file is written, but
\* for one move in each rotation that failed and in the one under way.
Free(f) == broken + (IF step = "move" /\ f > file THEN 1 ELSE 0)

MovesInv ==
  \A f \in LogFiles \ {0} : \A r \in logs[f] :
    r + Lines <= written /\ r + Lines + FileLines * (f - 1 - Free(f)) <= written

\* The three parts of LogIsRecentSuffix.
NoGap ==
  \A f \in LogFiles : \A r \in logs[f], later \in Records :
     r < later /\ later <= written => \E g \in LogFiles : g <= f /\ later \in logs[g]

NewestFirst == \A f, g \in LogFiles : \A r \in logs[f], q \in logs[g] : f < g => q < r

KeepsRecent ==
  \A r \in 1 .. written :
     r > written - FileLines * (Retained - 1 - broken) => \E f \in LogFiles : r \in logs[f]

AuditInv ==
  AuditTypeOK /\ RotationInv /\ MovesInv /\ NoGap /\ NewestFirst /\ KeepsRecent

LEMMA AuditInitial == AuditInit => AuditInv
BY AuditAssumption
   DEF AuditInit, AuditInv, AuditTypeOK, AuditSteps, LogFiles, RotationInv, MovesInv, NoGap,
       NewestFirst, KeepsRecent

\* Products with the size of a file.
LEMMA WholeFiles ==
  /\ \A n \in Int : FileLines * n \in Int /\ FileLines * (n + 1) = FileLines * n + FileLines
  /\ \A m, n \in Int : m <= n => FileLines * m <= FileLines * n
  /\ FileLines \in Int /\ FileLines > 0 /\ FileLines * 0 = 0
BY AuditAssumption

\* The types, by name.
LEMMA AuditFields ==
  ASSUME AuditInv
  PROVE  /\ logs \in [LogFiles -> SUBSET Records] /\ present \subseteq LogFiles
         /\ file \in LogFiles /\ written \in Nat /\ written <= MaxRecords /\ MaxRecords \in Nat
         /\ broken \in Nat /\ broken <= Retained
         /\ Retained \in Nat /\ LogFiles = 0 .. Retained - 1 /\ 0 \in LogFiles
         /\ IsFiniteSet(logs[0]) /\ Lines \in Nat
         /\ \A f \in LogFiles : Free(f) \in Int
<1>1. /\ logs \in [LogFiles -> SUBSET Records] /\ present \subseteq LogFiles
      /\ file \in LogFiles /\ written \in Nat /\ written <= MaxRecords /\ MaxRecords \in Nat
      /\ broken \in Nat /\ broken <= Retained
      /\ Retained \in Nat /\ LogFiles = 0 .. Retained - 1 /\ 0 \in LogFiles
  BY AuditAssumption DEF AuditInv, AuditTypeOK, LogFiles
<1>2. IsFiniteSet(1 .. written)  BY <1>1, FS_Interval
<1>3. logs[0] \in SUBSET (1 .. written)  BY <1>1 DEF AuditInv, RotationInv
<1>4. IsFiniteSet(logs[0]) /\ Lines \in Nat
  BY <1>2, <1>3, FS_Subset, FS_CardinalityType DEF Lines
<1> QED  BY <1>1, <1>4 DEF Free

\* record begins: the files are as they were.
LEMMA CheckKeeps ==
  ASSUME AuditInv, CheckSize
  PROVE  AuditInv'
<1>1. /\ UNCHANGED <<logs, present, file, written, broken>>
      /\ step = "idle" /\ step' \in {"unlink", "append"} /\ written < MaxRecords
      /\ step' = "unlink" => Lines >= FileLines
  BY DEF CheckSize, Lines
<1>2. Lines' = Lines /\ \A f \in LogFiles : Free(f)' = Free(f)
  BY <1>1 DEF Lines, Free
<1> QED
  BY <1>1, <1>2
     DEF AuditInv, AuditTypeOK, AuditSteps, RotationInv, MovesInv, NoGap, NewestFirst, KeepsRecent

\* The oldest file goes: its records were moved often enough to be old.
LEMMA UnlinkKeeps ==
  ASSUME AuditInv, UnlinkOldest
  PROVE  AuditInv'
<1> DEFINE oldest == Retained - 1
<1>1. /\ logs \in [LogFiles -> SUBSET Records] /\ present \subseteq LogFiles
      /\ written \in Nat /\ broken \in Nat /\ Retained \in Nat /\ LogFiles = 0 .. Retained - 1
      /\ 0 \in LogFiles /\ oldest \in LogFiles /\ Lines \in Nat
  BY AuditFields
<1>2. /\ step = "unlink" /\ file' = oldest /\ UNCHANGED <<written, broken>>
      /\ logs' = [logs EXCEPT ![oldest] = IF oldest = 0 THEN @ ELSE {}]
      /\ present' = present \ ({oldest} \ {0})
      /\ step' = IF oldest = 0 THEN "append" ELSE "move"
      /\ Lines >= FileLines
  BY DEF UnlinkOldest, LoopAt, AuditInv, RotationInv
<1>3. CASE oldest = 0
  <2>1. logs' = logs /\ present' = present /\ step' = "append"
    BY <1>1, <1>2, <1>3
  <2>2. Lines' = Lines /\ \A f \in LogFiles : Free(f)' = Free(f)
    BY <1>2, <2>1 DEF Lines, Free
  <2> QED
    BY <1>1, <1>2, <2>1, <2>2
       DEF AuditInv, AuditTypeOK, AuditSteps, RotationInv, MovesInv, NoGap, NewestFirst, KeepsRecent
<1>4. CASE oldest # 0
  <2>1. /\ logs' \in [LogFiles -> SUBSET Records] /\ logs'[oldest] = {}
        /\ \A f \in LogFiles \ {oldest} : logs'[f] = logs[f]
        /\ logs'[0] = logs[0] /\ Lines' = Lines /\ step' = "move"
    BY <1>1, <1>2, <1>4 DEF Lines
  <2>2. \A f \in LogFiles : Free(f) = broken /\ Free(f)' = broken
    BY <1>1, <1>2, <2>1 DEF Free
  <2>3. AuditTypeOK'
    BY <1>1, <1>2, <2>1 DEF AuditInv, AuditTypeOK, AuditSteps
  <2>4. RotationInv'
    BY <1>1, <1>2, <1>4, <2>1 DEF AuditInv, RotationInv
  <2>5. MovesInv'
    BY <1>1, <1>2, <2>1, <2>2 DEF AuditInv, MovesInv
  <2>6. NoGap'
    <3> SUFFICES ASSUME NEW f \in LogFiles, NEW r \in logs'[f], NEW later \in Records,
                        r < later, later <= written
                 PROVE  \E g \in LogFiles : g <= f /\ later \in logs'[g]
      BY <1>2 DEF NoGap
    <3>1. f # oldest /\ r \in logs[f]  BY <2>1
    <3>2. PICK g \in LogFiles : g <= f /\ later \in logs[g]
      BY <3>1 DEF AuditInv, NoGap
    <3>3. g # oldest  BY <1>1, <3>1, <3>2
    <3> QED  BY <2>1, <3>2, <3>3
  <2>7. NewestFirst'
    BY <2>1 DEF AuditInv, NewestFirst
  <2>8. KeepsRecent'
    <3> SUFFICES ASSUME NEW r \in 1 .. written, r > written - FileLines * (Retained - 1 - broken)
                 PROVE  \E f \in LogFiles : r \in logs'[f]
      BY <1>2 DEF KeepsRecent
    <3>1. PICK f \in LogFiles : r \in logs[f]
      BY DEF AuditInv, KeepsRecent
    <3>2. ASSUME f = oldest PROVE FALSE
      <4>1. r + Lines + FileLines * (oldest - 1 - broken) <= written
        BY <1>1, <1>4, <2>2, <3>1, <3>2 DEF AuditInv, MovesInv
      <4>2. oldest - 1 - broken \in Int /\ (oldest - 1 - broken) + 1 = Retained - 1 - broken
        BY <1>1
      <4>3. /\ FileLines * (oldest - 1 - broken) \in Int
            /\ FileLines * (Retained - 1 - broken) = FileLines * (oldest - 1 - broken) + FileLines
        BY <4>2, WholeFiles
      <4> HIDE DEF oldest
      <4> QED  BY <1>1, <1>2, <4>1, <4>3, WholeFiles
    <3> QED  BY <2>1, <3>1, <3>2
  <2> QED  BY <2>3, <2>4, <2>5, <2>6, <2>7, <2>8 DEF AuditInv
<1> QED  BY <1>3, <1>4

\* A file moves to the next number, which is free.
LEMMA MoveKeeps ==
  ASSUME AuditInv, Move
  PROVE  AuditInv'
<1> DEFINE from == file - 1
<1>1. /\ logs \in [LogFiles -> SUBSET Records] /\ present \subseteq LogFiles
      /\ written \in Nat /\ broken \in Nat /\ Retained \in Nat /\ LogFiles = 0 .. Retained - 1
      /\ 0 \in LogFiles /\ file \in LogFiles /\ Lines \in Nat
  BY AuditFields
<1>2. /\ step = "move" /\ file # 0 /\ logs[file] = {} /\ Lines >= FileLines
      /\ file' = from /\ step' = IF from = 0 THEN "append" ELSE "move"
      /\ UNCHANGED <<written, broken>>
      /\ from \in LogFiles /\ from < file /\ from >= 0
  BY <1>1 DEF Move, LoopAt, AuditInv, RotationInv
<1>3. /\ logs' \in [LogFiles -> SUBSET Records] /\ present' \subseteq LogFiles
      /\ logs'[file] = logs[from] /\ logs'[from] = {}
      /\ \A f \in LogFiles \ {file, from} : logs'[f] = logs[f]
      /\ \A f \in LogFiles : f \notin present' => logs'[f] = {}
  <2>1. CASE from \in present
    BY <1>1, <1>2, <2>1 DEF Move, AuditInv, RotationInv
  <2>2. CASE from \notin present
    <3>1. UNCHANGED <<logs, present>> /\ logs[from] = {}
      BY <1>2, <2>2 DEF Move, AuditInv, RotationInv
    <3> QED  BY <1>1, <1>2, <3>1 DEF AuditInv, RotationInv
  <2> QED  BY <2>1, <2>2
<1>4. \A f \in LogFiles : logs[f] \subseteq 1 .. written /\ logs'[f] \subseteq 1 .. written
  BY <1>2, <1>3 DEF AuditInv, RotationInv
<1>5. AuditTypeOK'
  BY <1>1, <1>2, <1>3 DEF AuditInv, AuditTypeOK, AuditSteps
<1>6. IF from = 0 THEN logs'[0] = {} /\ Lines' = 0 ELSE Lines' = Lines
  BY <1>1, <1>2, <1>3, FS_EmptySet DEF Lines
<1>7. RotationInv'
  BY <1>1, <1>2, <1>3, <1>4, <1>6 DEF AuditInv, RotationInv
<1>8. NoGap'
  <2> SUFFICES ASSUME NEW f \in LogFiles, NEW r \in logs'[f], NEW later \in Records,
                      r < later, later <= written
               PROVE  \E g \in LogFiles : g <= f /\ later \in logs'[g]
    BY <1>2 DEF NoGap
  <2>1. PICK h \in LogFiles : r \in logs[h] /\ (h = f \/ (h = from /\ f = file))
    BY <1>2, <1>3
  <2>2. PICK g \in LogFiles : g <= h /\ later \in logs[g]
    BY <2>1 DEF AuditInv, NoGap
  <2>3. CASE g = from
    <3>1. f # from  BY <1>3
    <3>2. file <= f  BY <1>1, <1>2, <2>1, <2>2, <2>3, <3>1
    <3> QED  BY <1>1, <1>3, <2>2, <2>3, <3>2
  <2>4. CASE g # from
    <3>1. g # file  BY <1>2, <2>2
    <3>2. g <= f  BY <1>1, <1>2, <2>1, <2>2
    <3> QED  BY <1>3, <2>2, <2>4, <3>1, <3>2
  <2> QED  BY <2>3, <2>4
<1>9. NewestFirst'
  <2> SUFFICES ASSUME NEW f \in LogFiles, NEW g \in LogFiles, NEW r \in logs'[f], NEW q \in logs'[g],
                      f < g
               PROVE  q < r
    BY DEF NewestFirst
  <2> DEFINE Was(x) == IF x = file THEN from ELSE x
  <2>1. r \in logs[Was(f)] /\ q \in logs[Was(g)] /\ Was(f) \in LogFiles /\ Was(g) \in LogFiles
    BY <1>2, <1>3
  <2>2. f # from /\ g # from  BY <1>3
  <2>3. Was(f) < Was(g)  BY <1>1, <1>2, <2>2
  <2> QED  BY <2>1, <2>3 DEF AuditInv, NewestFirst
<1>10. KeepsRecent'
  <2> SUFFICES ASSUME NEW r \in 1 .. written, r > written - FileLines * (Retained - 1 - broken)
               PROVE  \E f \in LogFiles : r \in logs'[f]
    BY <1>2 DEF KeepsRecent
  <2>1. PICK f \in LogFiles : r \in logs[f]
    BY DEF AuditInv, KeepsRecent
  <2> QED  BY <1>1, <1>2, <1>3, <2>1
<1>11. MovesInv'
  <2> SUFFICES ASSUME NEW f \in LogFiles \ {0}, NEW r \in logs'[f]
               PROVE  r + Lines' <= written /\ r + Lines' + FileLines * (f - 1 - Free(f)') <= written
    BY <1>2 DEF MovesInv
  <2>1. r \in Nat /\ r <= written  BY <1>1, <1>4
  <2>2. Free(f) = broken + (IF f > file THEN 1 ELSE 0)
    BY <1>2 DEF Free
  <2>3. Free(f)' = broken + (IF from # 0 /\ f > from THEN 1 ELSE 0)
    BY <1>1, <1>2 DEF Free
  <2>4. CASE f = file /\ from = 0
    <3>1. f - 1 - Free(f)' <= 0 /\ f - 1 - Free(f)' \in Int
      BY <1>1, <1>2, <2>3, <2>4
    <3>2. FileLines * (f - 1 - Free(f)') <= 0 /\ FileLines * (f - 1 - Free(f)') \in Int
      BY <3>1, WholeFiles
    <3> HIDE DEF from
    <3> QED  BY <1>1, <1>6, <2>1, <2>4, <3>2
  <2>5. CASE f = file /\ from # 0
    <3>1. r \in logs[from] /\ Free(from) = broken /\ Free(f)' = broken + 1
      BY <1>1, <1>2, <1>3, <2>3, <2>5 DEF Free
    <3>2. r + Lines <= written /\ r + Lines + FileLines * (from - 1 - broken) <= written
      BY <1>2, <2>5, <3>1 DEF AuditInv, MovesInv
    <3>3. f - 1 - Free(f)' = from - 1 - broken
      BY <1>1, <2>5, <3>1
    <3> QED  BY <1>6, <2>5, <3>2, <3>3
  <2>6. CASE f # file
    <3>1. f # from /\ r \in logs[f]
      BY <1>3, <2>6
    <3>2. r + Lines <= written /\ r + Lines + FileLines * (f - 1 - Free(f)) <= written
      BY <3>1 DEF AuditInv, MovesInv
    <3>3. CASE from # 0
      <4>1. Free(f)' = Free(f) /\ Lines' = Lines
        BY <1>1, <1>2, <1>6, <2>2, <2>3, <2>6, <3>1, <3>3
      <4> QED  BY <3>2, <4>1
    <3>4. CASE from = 0
      <4>1. /\ f > file /\ Free(f) = broken + 1 /\ Free(f)' = broken /\ Lines' = 0
            /\ f - 1 - Free(f) \in Int /\ f - 1 - Free(f)' = (f - 1 - Free(f)) + 1
        BY <1>1, <1>2, <1>6, <2>2, <2>3, <2>6, <3>1, <3>4
      <4>2. /\ FileLines * (f - 1 - Free(f)) \in Int
            /\ FileLines * (f - 1 - Free(f)') = FileLines * (f - 1 - Free(f)) + FileLines
        BY <4>1, WholeFiles
      <4> HIDE DEF from
      <4> QED  BY <1>1, <1>2, <2>1, <3>2, <4>1, <4>2, WholeFiles
    <3> QED  BY <3>3, <3>4
  <2> QED  BY <2>4, <2>5, <2>6
<1> QED  BY <1>5, <1>7, <1>8, <1>9, <1>10, <1>11 DEF AuditInv

\* The next record goes to the current file.
LEMMA AppendKeeps ==
  ASSUME AuditInv, AppendLine
  PROVE  AuditInv'
<1>1. /\ logs \in [LogFiles -> SUBSET Records] /\ present \subseteq LogFiles
      /\ written \in Nat /\ broken \in Nat /\ Retained \in Nat /\ LogFiles = 0 .. Retained - 1
      /\ 0 \in LogFiles /\ file \in LogFiles /\ Lines \in Nat /\ IsFiniteSet(logs[0])
      /\ MaxRecords \in Nat
  BY AuditFields
<1>2. /\ step = "append" /\ step' = "idle" /\ written' = written + 1 /\ written < MaxRecords
      /\ UNCHANGED <<file, broken>> /\ present' = present \cup {0}
      /\ logs' = [logs EXCEPT ![0] = @ \cup {written + 1}]
  BY DEF AppendLine, AuditInv, RotationInv
<1>3. /\ logs' \in [LogFiles -> SUBSET Records] /\ logs'[0] = logs[0] \cup {written + 1}
      /\ \A f \in LogFiles \ {0} : logs'[f] = logs[f]
  BY <1>1, <1>2 DEF Records
<1>4. \A f \in LogFiles : logs[f] \subseteq 1 .. written
  BY DEF AuditInv, RotationInv
<1>5. Lines' = Lines + 1
  <2>1. written + 1 \notin logs[0]  BY <1>1, <1>4
  <2>2. Cardinality(logs[0] \cup {written + 1}) = Cardinality(logs[0]) + 1
    BY <1>1, <2>1, FS_AddElement
  <2> QED  BY <1>3, <2>2 DEF Lines
<1>6. AuditTypeOK'
  BY <1>1, <1>2, <1>3 DEF AuditInv, AuditTypeOK, AuditSteps
<1>7. RotationInv'
  BY <1>1, <1>2, <1>3, <1>4 DEF AuditInv, RotationInv
<1>8. MovesInv'
  <2> SUFFICES ASSUME NEW f \in LogFiles \ {0}, NEW r \in logs[f]
               PROVE  /\ r + Lines' <= written'
                      /\ r + Lines' + FileLines * (f - 1 - Free(f)') <= written'
    BY <1>3 DEF MovesInv
  <2>1. Free(f) = broken /\ Free(f)' = broken  BY <1>1, <1>2 DEF Free
  <2>2. r + Lines <= written /\ r + Lines + FileLines * (f - 1 - broken) <= written
    BY <2>1 DEF AuditInv, MovesInv
  <2>3. FileLines * (f - 1 - broken) \in Int /\ r \in Int  BY <1>1, <1>4, WholeFiles
  <2> QED  BY <1>1, <1>2, <1>5, <2>1, <2>2, <2>3
<1>9. NoGap'
  <2> SUFFICES ASSUME NEW f \in LogFiles, NEW r \in logs'[f], NEW later \in Records,
                      r < later, later <= written + 1
               PROVE  \E g \in LogFiles : g <= f /\ later \in logs'[g]
    BY <1>2 DEF NoGap
  <2>1. CASE later = written + 1
    BY <1>1, <1>3, <2>1
  <2>2. CASE later # written + 1
    <3>1. later <= written /\ r \in logs[f]
      BY <1>1, <1>3, <2>2 DEF Records
    <3> QED  BY <1>3, <3>1 DEF AuditInv, NoGap
  <2> QED  BY <2>1, <2>2
<1>10. NewestFirst'
  <2> SUFFICES ASSUME NEW f \in LogFiles, NEW g \in LogFiles, NEW r \in logs'[f], NEW q \in logs'[g],
                      f < g
               PROVE  q < r
    BY DEF NewestFirst
  <2>1. q \in logs[g]  BY <1>1, <1>3
  <2>2. CASE r \in logs[f]  BY <2>1, <2>2 DEF AuditInv, NewestFirst
  <2>3. CASE r = written + 1  BY <1>1, <1>4, <2>1, <2>3
  <2> QED  BY <1>3, <2>2, <2>3
<1>11. KeepsRecent'
  <2> DEFINE kept == FileLines * (Retained - 1 - broken)
  <2>1. kept \in Int  BY <1>1, WholeFiles
  <2> SUFFICES ASSUME NEW r \in 1 .. written', r > written' - FileLines * (Retained - 1 - broken')
               PROVE  \E f \in LogFiles : r \in logs'[f]
    BY DEF KeepsRecent
  <2>2. CASE r = written + 1  BY <1>1, <1>3, <2>2
  <2>3. CASE r \in 1 .. written
    <3>1. r > written - kept
      <4>1. r > written + 1 - kept
        <5>1. FileLines * (Retained - 1 - broken') = kept  BY <1>2
        <5> HIDE DEF kept
        <5>2. r > written' - kept  BY <5>1
        <5> QED  BY <1>1, <1>2, <2>1, <5>2
      <4> HIDE DEF kept
      <4> QED  BY <1>1, <2>1, <2>3, <4>1
    <3>2. PICK f \in LogFiles : r \in logs[f]  BY <2>3, <3>1 DEF AuditInv, KeepsRecent
    <3> QED  BY <1>3, <3>2
  <2> QED  BY <1>1, <1>2, <2>2, <2>3
<1> QED  BY <1>6, <1>7, <1>8, <1>9, <1>10, <1>11 DEF AuditInv

\* A rotation that fails leaves a file empty that was to be full.
LEMMA FailureKeeps ==
  ASSUME AuditInv, RecordFails
  PROVE  AuditInv'
<1>1. /\ written \in Nat /\ broken \in Nat /\ broken <= Retained /\ Retained \in Nat
      /\ LogFiles = 0 .. Retained - 1 /\ 0 \in LogFiles /\ file \in LogFiles /\ Lines \in Nat
  BY AuditFields
<1>2. /\ step' = "idle" /\ file' = 0 /\ UNCHANGED <<logs, present, written>>
      /\ broken' = IF step \in {"unlink", "move"} /\ broken < Retained THEN broken + 1 ELSE broken
      /\ Lines' = Lines
  BY DEF RecordFails, Lines
<1>3. broken' \in Nat /\ broken <= broken' /\ broken' <= Retained
  BY <1>1, <1>2
<1>4. AuditTypeOK' /\ RotationInv' /\ NoGap' /\ NewestFirst'
  BY <1>1, <1>2, <1>3 DEF AuditInv, AuditTypeOK, AuditSteps, RotationInv, NoGap, NewestFirst
<1>5. MovesInv'
  <2> SUFFICES ASSUME NEW f \in LogFiles \ {0}, NEW r \in logs[f]
               PROVE  r + Lines <= written /\ r + Lines + FileLines * (f - 1 - broken') <= written
    BY <1>1, <1>2 DEF MovesInv, Free
  <2>1. r + Lines <= written /\ r + Lines + FileLines * (f - 1 - Free(f)) <= written
    BY DEF AuditInv, MovesInv
  <2>2. Free(f) \in Int /\ r \in Int /\ f \in Int
    BY <1>1, AuditFields DEF AuditInv, RotationInv
  <2>3. CASE Free(f) <= broken'
    <3>1. f - 1 - broken' <= f - 1 - Free(f) /\ f - 1 - broken' \in Int /\ f - 1 - Free(f) \in Int
      BY <1>3, <2>2, <2>3
    <3>2. /\ FileLines * (f - 1 - broken') <= FileLines * (f - 1 - Free(f))
          /\ FileLines * (f - 1 - broken') \in Int /\ FileLines * (f - 1 - Free(f)) \in Int
      BY <3>1, WholeFiles
    <3> QED  BY <1>1, <2>1, <2>2, <3>2
  <2>4. CASE ~(Free(f) <= broken')
    <3>1. broken' = Retained
      BY <1>1, <1>2, <2>4 DEF Free
    <3>2. f - 1 - broken' <= 0 /\ f - 1 - broken' \in Int
      BY <1>1, <3>1
    <3>3. FileLines * (f - 1 - broken') <= 0 /\ FileLines * (f - 1 - broken') \in Int
      BY <3>2, WholeFiles
    <3> QED  BY <1>1, <2>1, <2>2, <3>3
  <2> QED  BY <2>3, <2>4
<1>6. KeepsRecent'
  <2>1. \A m, n \in Nat : m <= n => Retained - 1 - n <= Retained - 1 - m
    BY <1>1
  <2>2. /\ FileLines * (Retained - 1 - broken') <= FileLines * (Retained - 1 - broken)
        /\ FileLines * (Retained - 1 - broken') \in Int /\ FileLines * (Retained - 1 - broken) \in Int
    <3>1. Retained - 1 - broken' <= Retained - 1 - broken
      BY <1>1, <1>3, <2>1
    <3>2. Retained - 1 - broken' \in Int /\ Retained - 1 - broken \in Int
      BY <1>1, <1>3
    <3> QED  BY <3>1, <3>2, WholeFiles
  <2> SUFFICES ASSUME NEW r \in 1 .. written', r > written' - FileLines * (Retained - 1 - broken')
               PROVE  \E f \in LogFiles : r \in logs'[f]
    BY DEF KeepsRecent
  <2>3. r > written - FileLines * (Retained - 1 - broken)
    BY <1>1, <1>2, <2>2
  <2> QED  BY <1>2, <2>3 DEF AuditInv, KeepsRecent
<1> QED  BY <1>4, <1>5, <1>6 DEF AuditInv

LEMMA AuditStep == AuditInv /\ [AuditNext]_auditVars => AuditInv'
<1>1. ASSUME AuditInv, UNCHANGED auditVars
      PROVE  AuditInv'
  BY <1>1 DEF auditVars, AuditInv, AuditTypeOK, RotationInv, Lines, Free, MovesInv, NoGap, NewestFirst,
     KeepsRecent
<1> QED
  BY <1>1, CheckKeeps, UnlinkKeeps, MoveKeeps, AppendKeeps, FailureKeeps DEF AuditNext

\* However often rotations fail and are begun again, the log loses its oldest records only,
\* and no more of them than a file for each failure (audit.py 39-50).
THEOREM LogKeepsRecent == AuditSpec => [](AuditTypeOK /\ LogIsRecentSuffix)
<1>1. AuditInv => AuditTypeOK /\ LogIsRecentSuffix
  BY DEF AuditInv, NoGap, NewestFirst, KeepsRecent, LogIsRecentSuffix
<1>2. AuditSpec => []AuditInv
  BY AuditInitial, AuditStep, PTL DEF AuditSpec
<1> QED  BY <1>1, <1>2, PTL
-----------------------------------------------------------------------------
(* The parts together.                                                     *)

\* The part that moves keeps its invariant, as if the others were not there.
MovingInv ==
  /\ part = "ring" => RingInv
  /\ part = "pipe" => PipeInv
  /\ part = "store" => IntactInv
  /\ part = "audit" => AuditInv
  /\ part = "workspace" => WorkspaceInv
  /\ part = "output" => OutputInv
  /\ part = "config" => ConfigInv
  /\ part = "host" => HostInv
  /\ part = "hypervisor" => HypervisorInv

LEMMA PartsInitial == PartsInit => MovingInv
<1> SUFFICES ASSUME PartsInit PROVE MovingInv
  OBVIOUS
<1>1. RingInv /\ IntactInv /\ AuditInv /\ WorkspaceInv /\ OutputInv /\ HostInv
  BY RingInitial, IntactInitial, AuditInitial, WorkspaceInitial, OutputInitial, HostInitial DEF PartsInit
<1>2. part = "pipe" => PipeInv
  BY PipeInitial DEF PartsInit
<1>3. part = "config" => ConfigInv
  BY ConfigInitial DEF PartsInit
<1>4. part = "hypervisor" => HypervisorInv
  BY HypervisorInitial DEF PartsInit
<1> QED  BY <1>1, <1>2, <1>3, <1>4 DEF MovingInv

LEMMA PartsStep == MovingInv /\ [PartsNext]_partsVars => MovingInv'
<1> SUFFICES ASSUME MovingInv, [PartsNext]_partsVars PROVE MovingInv'
  OBVIOUS
<1>1. /\ part' = part
      /\ part = "ring" => [RingNext]_ringVars
      /\ part = "pipe" => [PipeNext]_pipeVars
      /\ part = "store" => [StoreNext]_storeVars
      /\ part = "audit" => [AuditNext]_auditVars
      /\ part = "workspace" => [WorkspaceNext]_workspaceVars
      /\ part = "output" => [OutputNext]_outputVars
      /\ part = "config" => [ConfigNext]_configVars
      /\ part = "host" => [HostNext]_hostVars
      /\ part = "hypervisor" => [HypervisorNext]_hypervisorVars
  <2>1. CASE UNCHANGED partsVars  BY <2>1 DEF partsVars
  <2>2. ASSUME NEW p \in Parts, Moves(p) PROVE part = p /\ part' = part
    BY <2>2 DEF Moves
  <2>3. ASSUME NEW p \in Parts, Moves(p)
        PROVE  /\ part = "ring" => RingNext
               /\ part = "pipe" => PipeNext
               /\ part = "store" => StoreNext
               /\ part = "audit" => AuditNext
               /\ part = "workspace" => WorkspaceNext
               /\ part = "output" => OutputNext
               /\ part = "config" => ConfigNext
               /\ part = "host" => HostNext
               /\ part = "hypervisor" => HypervisorNext
    BY <2>2, <2>3 DEF Moves
  <2> QED  BY <2>1, <2>2, <2>3 DEF PartsNext
<1>2. part = "ring" => RingInv'              BY <1>1, RingStep DEF MovingInv
<1>3. part = "pipe" => PipeInv'              BY <1>1, PipeStep DEF MovingInv
<1>4. part = "store" => IntactInv'           BY <1>1, IntactStep DEF MovingInv
<1>5. part = "audit" => AuditInv'            BY <1>1, AuditStep DEF MovingInv
<1>6. part = "workspace" => WorkspaceInv'    BY <1>1, WorkspaceStep DEF MovingInv
<1>7. part = "output" => OutputInv'          BY <1>1, OutputStep DEF MovingInv
<1>8. part = "config" => ConfigInv'          BY <1>1, ConfigStep DEF MovingInv
<1>9. part = "host" => HostInv'              BY <1>1, HostStep DEF MovingInv
<1>10. part = "hypervisor" => HypervisorInv' BY <1>1, HypervisorStep DEF MovingInv
<1> QED
  BY <1>1, <1>2, <1>3, <1>4, <1>5, <1>6, <1>7, <1>8, <1>9, <1>10 DEF MovingInv

\* Whichever part moves keeps the types of its state, from the initial states that the run
\* gives the others.
THEOREM PartsTyped == PartsSpec => []PartsTypeOK
<1>1. MovingInv => PartsTypeOK
  BY DEF MovingInv, PartsTypeOK, RingInv, PipeInv, IntactInv, StoreTypes, AuditInv, WorkspaceInv, OutputInv,
     ConfigInv, HostInv, HypervisorInv
<1>2. PartsSpec => []MovingInv
  BY PartsInitial, PartsStep, PTL DEF PartsSpec
<1> QED  BY <1>1, <1>2, PTL
=============================================================================
