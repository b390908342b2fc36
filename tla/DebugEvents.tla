----------------------------- MODULE DebugEvents -----------------------------
(***************************************************************************)
(* The debugger event ring of the bridge and a client that pages through   *)
(* it with debug.events.list (src/bridge/ce_mcp_bridge.lua).  Callbacks,   *)
(* handlers and cleanup all run on Cheat Engine's main thread, one at a    *)
(* time.  An answer the client never receives changes nothing here: the    *)
(* cursor is the client's, so it asks again.                               *)
(***************************************************************************)
EXTENDS Integers, Sequences

CONSTANTS
  RingSize,       \* events the ring keeps: 256 in the code
  MaxLimit,       \* largest page: 200 in the code
  MaxEvents,      \* bound: events recorded in one generation
  MaxGeneration   \* bound: target generations

ASSUME RingAssumption ==
  /\ RingSize \in Nat \ {0}
  /\ MaxLimit \in Nat \ {0}
  /\ MaxEvents \in Nat
  /\ MaxGeneration \in Nat

VARIABLES
  generation,     \* state.generation
  eventCounter,   \* state.debug.eventCounter
  events,         \* state.debug.events
  cursor,         \* the client's nextCursor, or NoCursor
  origin,         \* history: the sequence number its first cursor started after
  delivered,      \* history: events it received since
  dropped         \* history: droppedEvents it was told of since

bridgeVars == <<generation, eventCounter, events>>
clientVars == <<cursor, origin, delivered, dropped>>
ringVars == <<generation, eventCounter, events, cursor, origin, delivered, dropped>>

\* An eventId: dbg-<generation>-<sequence>.
EventId == [gen : Nat, seq : Nat]

NoCursor == [gen |-> 0, seq |-> 0]

RingInit ==
  /\ generation = 1
  /\ eventCounter = 0
  /\ events = <<>>
  /\ cursor = NoCursor
  /\ origin = 0 /\ delivered = 0 /\ dropped = 0

-----------------------------------------------------------------------------
\* table.remove(events, 1) once the ring holds more than its size.
Ring(ring, event) ==
  IF Len(ring) < RingSize THEN Append(ring, event) ELSE Tail(Append(ring, event))

\* recordDebugStop and the callback of a breakpoint.
RecordDebugStop ==
  /\ eventCounter < MaxEvents
  /\ eventCounter' = eventCounter + 1
  /\ events' = Ring(events, [gen |-> generation, seq |-> eventCounter'])
  /\ UNCHANGED <<generation, clientVars>>

\* Mutant: a target change leaves the events of the old target in the ring.
NewTargetKeepsEvents ==
  /\ generation < MaxGeneration
  /\ generation' = generation + 1
  /\ eventCounter' = 0
  /\ UNCHANGED <<events, clientVars>>

\* refreshTarget and process.detach: cleanupDebugger, a new generation, and a
\* sequence that starts again.  A Lua state that openProcess rebuilds (61-75) begins
\* in the same way: no events, none counted, a generation of its own.
NewTarget ==
  /\ generation < MaxGeneration
  /\ generation' = generation + 1
  /\ eventCounter' = 0
  /\ events' = <<>>
  /\ UNCHANGED clientVars

\* Mutant: cleanup starts the sequence again inside a generation.
CleanupRestartsSequence ==
  /\ events' = <<>>
  /\ eventCounter' = 0
  /\ UNCHANGED <<generation, clientVars>>

\* cleanupDebugger on debug.control.detach, a failed start or a disconnect.
CleanupDebugger ==
  /\ events' = <<>>
  /\ UNCHANGED <<generation, eventCounter, clientVars>>

-----------------------------------------------------------------------------
\* debug.events.list.

CursorAccepted(c) ==
  c = NoCursor \/ (c.gen = generation /\ c.seq <= eventCounter)

\* The first index of the ring past the cursor.  Sequence numbers grow along the
\* ring, so what the loop selects is a suffix.
FirstAfter(after) ==
  CHOOSE i \in 1 .. Len(events) + 1 :
    /\ i \in DOMAIN events => events[i].seq > after
    /\ \A j \in 1 .. i - 1 : events[j].seq <= after

Page(after, limit) ==
  LET first == FirstAfter(after)
      last  == IF first + limit - 1 < Len(events) THEN first + limit - 1 ELSE Len(events)
  IN  SubSeq(events, first, last)

\* Mutant: off by one.
DroppedEventsInclusive(items, after) ==
  IF items = <<>> THEN 0 ELSE items[1].seq - after

DroppedEvents(items, after) ==
  IF items = <<>> \/ items[1].seq - after - 1 < 0 THEN 0 ELSE items[1].seq - after - 1

\* Mutant: a client without a cursor starts at the oldest place in the ring.
NextCursorAtOldest(items) ==
  IF items # <<>> THEN items[Len(items)]
  ELSE IF cursor # NoCursor THEN cursor
  ELSE [gen |-> generation, seq |-> eventCounter - RingSize]

NextCursor(items) ==
  IF items # <<>> THEN items[Len(items)]
  ELSE IF cursor # NoCursor THEN cursor
  ELSE [gen |-> generation, seq |-> eventCounter]

EventsList(limit) ==
  /\ CursorAccepted(cursor)
  /\ LET after == IF cursor = NoCursor THEN 0 ELSE cursor.seq
         items == Page(after, limit)
     IN  /\ cursor' = NextCursor(items)
         /\ delivered' = delivered + Len(items)
         /\ dropped' = dropped + DroppedEvents(items, after)
         /\ origin' = IF cursor = NoCursor /\ items = <<>> THEN eventCounter ELSE origin
  /\ UNCHANGED bridgeVars

\* The client forgets its cursor, as it must after INVALID_CURSOR.
StartOver ==
  /\ cursor' = NoCursor
  /\ origin' = 0 /\ delivered' = 0 /\ dropped' = 0
  /\ UNCHANGED bridgeVars

-----------------------------------------------------------------------------
RingNext ==
  \/ RecordDebugStop
  \/ NewTarget
  \/ CleanupDebugger
  \/ \E limit \in 1 .. MaxLimit : EventsList(limit)
  \/ StartOver

RingSpec == RingInit /\ [][RingNext]_ringVars

-----------------------------------------------------------------------------
\* The state of the ring and of the client has its types.
RingTypeOK ==
  /\ generation \in Nat
  /\ eventCounter \in Nat
  /\ events \in Seq(EventId)
  /\ cursor \in EventId
  /\ origin \in Nat /\ delivered \in Nat /\ dropped \in Nat

\* The ring holds consecutive events of the generation being served and ends
\* with the newest, whatever rollovers and cleanups came before; paging by
\* sequence number rests on it.
RingIsConsecutive ==
  /\ Len(events) <= RingSize
  /\ \A i \in DOMAIN events :
       events[i] = [gen |-> generation, seq |-> eventCounter - Len(events) + i]

\* A cursor that the bridge gave out in this generation is never refused later
\* in it, though cleanup empties the ring.
CursorStaysUsable ==
  cursor.gen = generation => CursorAccepted(cursor)

\* Nothing is lost in silence and nothing is delivered twice: between the origin
\* and its cursor, a client was sent each event or was told that it was dropped.
EveryEventAccounted ==
  cursor # NoCursor => delivered + dropped = cursor.seq - origin
=============================================================================
