------------------------- MODULE DebuggerControlProofs -------------------------
(***************************************************************************)
(* Proofs about DebuggerControl, for every number of slots and every       *)
(* bound, whichever calls of Cheat Engine fail.                            *)
(***************************************************************************)
EXTENDS DebuggerControl, FiniteSetTheorems, TLAPS

\* Handles name breakpoints already counted, and there are finitely many.
HandleInv ==
  /\ IsFiniteSet(breakpoints)
  /\ Ids(breakpoints) \subseteq 1 .. breakpointCounter

\* What a client holds of this Lua state is no newer than its newest stop.
ClientInv == client.here => client.gen <= stopGeneration

IInv ==
  /\ TypeOK
  /\ HookFollowsOwnership
  /\ NoOrphanBreakpoint
  /\ BreakpointsBelongToTarget
  /\ StopGenerationNamesOneStop
  /\ HandleInv
  /\ ClientInv

HandlePart == HandleInv /\ NoOrphanBreakpoint /\ BreakpointsBelongToTarget

StopPart == ClientInv /\ StopGenerationNamesOneStop

\* Init establishes the invariant.
LEMMA InitIInv == Init => IInv
<1> SUFFICES ASSUME Init PROVE IInv  OBVIOUS
<1>1. TypeOK
  <2>1. 0 \in 0 .. MaxBreakpoints
    BY ConstantsAssumption
  <2> QED  BY <2>1 DEF Init, TypeOK
<1>5. HookFollowsOwnership /\ StopPart
  BY DEF Init, HookFollowsOwnership, StopPart, ClientInv, StopGenerationNamesOneStop
<1>2. IsFiniteSet(breakpoints) /\ Cardinality(breakpoints) = 0
  BY FS_EmptySet DEF Init
<1>3. Ids(breakpoints) = {} /\ armed = {} /\ breakpoints = {}
  BY DEF Init, Ids
<1>4. HandlePart
  BY <1>2, <1>3, ConstantsAssumption
     DEF HandlePart, HandleInv, NoOrphanBreakpoint, BreakpointsBelongToTarget
<1> QED  BY <1>1, <1>4, <1>5 DEF IInv, HandlePart, StopPart

\* Whatever it releases, cleanup drops the handles, keeps what CE failed to remove
\* on record, and gives the callback up.
LEMMA CleanupEffect ==
  ASSUME IInv, NEW owner, NEW debugger \in {"none"} \cup Interfaces,
         CleanupDebugger(owner, debugger)
  PROVE  /\ backend' \in {"none"} \cup Interfaces /\ waiting' \in Nat /\ suspensions' \in Nat
         /\ armed' \subseteq 1 .. breakpointCounter /\ lost' \subseteq 1 .. breakpointCounter
         /\ armed' \subseteq lost' \cup stranded' /\ failed' \in BOOLEAN
         /\ hook' = "user" /\ callbackInstalled' = FALSE
         /\ breakpoints' = {} /\ processSuspended' = FALSE /\ ownership' = "none"
         /\ UNCHANGED <<stopGeneration, stops, breakpointCounter, named, stranded, client>>
<1>1. /\ TypeOK /\ HookFollowsOwnership /\ NoOrphanBreakpoint /\ HandleInv
  BY DEF IInv
<1>2. PICK resumed \in BOOLEAN, detached \in BOOLEAN :
        ReleaseDebugger(owner, debugger, resumed, detached) /\ failed' = ~(resumed /\ detached)
  BY DEF CleanupDebugger
<1>7. failed' \in BOOLEAN
  BY <1>2
<1>3. backend' \in {"none"} \cup Interfaces /\ waiting' \in Nat /\ suspensions' \in Nat
  <2>1. Unpaused \in Nat  BY <1>1 DEF Unpaused, TypeOK
  <2> QED  BY <1>1, <1>2, <2>1 DEF ReleaseDebugger, TypeOK
<1>4. PICK kept \in SUBSET Ids(breakpoints) : RemovesBreakpoints(kept)
  <2>1. {} \in SUBSET Ids(breakpoints)  OBVIOUS
  <2> QED  BY <2>1 DEF CleanupDebugger
<1>5. armed' \subseteq lost' \cup stranded /\ armed' \subseteq 1 .. breakpointCounter
      /\ lost' \subseteq 1 .. breakpointCounter
  BY <1>1, <1>4 DEF RemovesBreakpoints, TypeOK, NoOrphanBreakpoint, HandleInv
<1>6. hook' = "user" /\ callbackInstalled' = FALSE
  BY <1>1 DEF CleanupDebugger, RestoresCallback, HookFollowsOwnership, TypeOK
<1> QED  BY <1>3, <1>5, <1>6, <1>7 DEF CleanupDebugger, StopNumbersContinue

\* A refresh only computes two booleans.
LEMMA RefreshType ==
  ASSUME NEW assigned \in BOOLEAN, RefreshDebugState(assigned)
  PROVE  active' \in BOOLEAN /\ stopped' \in BOOLEAN
BY DEF RefreshDebugState

\* Cleanup, alone or with a new generation, keeps the invariant.
LEMMA CleanupIInv ==
  ASSUME IInv, NEW owner, NEW debugger \in {"none"} \cup Interfaces,
         CleanupDebugger(owner, debugger), generation' \in Nat,
         starter' \in {"bridge", "user"}, active' \in BOOLEAN, stopped' \in BOOLEAN
  PROVE  IInv'
<1>1. /\ TypeOK /\ StopPart
  BY DEF IInv, StopPart
<1>2. /\ backend' \in {"none"} \cup Interfaces /\ waiting' \in Nat /\ suspensions' \in Nat
      /\ armed' \subseteq 1 .. breakpointCounter /\ lost' \subseteq 1 .. breakpointCounter
      /\ armed' \subseteq lost' \cup stranded' /\ failed' \in BOOLEAN
      /\ hook' = "user" /\ callbackInstalled' = FALSE
      /\ breakpoints' = {} /\ processSuspended' = FALSE /\ ownership' = "none"
      /\ UNCHANGED <<stopGeneration, stops, breakpointCounter, named, stranded, client>>
  BY CleanupEffect
<1>3. TypeOK' /\ HookFollowsOwnership' /\ StopPart'
  BY <1>1, <1>2
     DEF TypeOK, HookFollowsOwnership, StopPart, ClientInv, StopGenerationNamesOneStop
<1>4. IsFiniteSet(breakpoints)' /\ Cardinality(breakpoints)' = 0 /\ Ids(breakpoints)' = {}
  BY <1>2, FS_EmptySet DEF Ids
<1>5. HandlePart'
  BY <1>2, <1>4, ConstantsAssumption
     DEF HandlePart, HandleInv, NoOrphanBreakpoint, BreakpointsBelongToTarget
<1> QED  BY <1>3, <1>5 DEF IInv, HandlePart, StopPart

\* A new breakpoint is in the table, or on record as lost, before it can fire.
LEMMA SetIInv == IInv /\ BreakpointsSet => IInv'
<1> SUFFICES ASSUME IInv, BreakpointsSet PROVE IInv'  OBVIOUS
<1>1. /\ TypeOK /\ HookFollowsOwnership /\ HandlePart /\ StopPart
  BY DEF IInv, HandlePart, StopPart
<1> DEFINE n == breakpointCounter + 1
           b == [id |-> n, gen |-> generation]
<1>2. /\ breakpointCounter' = n /\ n \in 1 .. MaxBreakpoints /\ breakpointCounter \in Nat
      /\ 1 .. breakpointCounter \subseteq 1 .. n /\ n \in 1 .. n
      /\ b \in Breakpoint
  BY <1>1, ConstantsAssumption DEF BreakpointsSet, TypeOK, Breakpoint
<1>3. /\ breakpoints' = breakpoints \/ breakpoints' = breakpoints \cup {b}
      /\ armed' \subseteq armed \cup {n} /\ lost' \subseteq lost \cup {n} /\ lost \subseteq lost'
      /\ armed' \subseteq armed \/ (armed' = armed \cup {n}
            /\ (n \in lost' \/ breakpoints' = breakpoints \cup {b}))
  BY DEF BreakpointsSet
<1>4. active' \in BOOLEAN /\ stopped' \in BOOLEAN
  BY <1>1, RefreshType DEF BreakpointsSet, TypeOK
<1>5. TypeOK' /\ HookFollowsOwnership' /\ StopPart'
  <2>1. /\ armed' \subseteq 1 .. n /\ lost' \subseteq 1 .. n /\ breakpoints' \subseteq Breakpoint
        /\ breakpointCounter' \in 0 .. MaxBreakpoints
    BY <1>1, <1>2, <1>3 DEF TypeOK
  <2> HIDE DEF n
  <2> QED
    BY <1>1, <1>2, <1>4, <2>1
       DEF BreakpointsSet, TypeOK, HookFollowsOwnership, StopPart, ClientInv,
           StopGenerationNamesOneStop
<1>6. Ids(breakpoints \cup {b}) = Ids(breakpoints) \cup {n}
  <2>1. b.id = n  OBVIOUS
  <2> HIDE DEF n, b
  <2> QED  BY <2>1, Zenon DEF Ids
<1> HIDE DEF n, b
<1>7. HandleInv'
  <2>1. IsFiniteSet(breakpoints \cup {b})
    BY <1>1, FS_AddElement DEF HandlePart, HandleInv
  <2> QED  BY <1>1, <1>2, <1>3, <1>6, <2>1 DEF HandlePart, HandleInv
<1>8. NoOrphanBreakpoint'
  <2>1. armed \subseteq Ids(breakpoints) \cup lost \cup stranded /\ stranded' = stranded
    BY <1>1 DEF HandlePart, NoOrphanBreakpoint, BreakpointsSet
  <2>2. Ids(breakpoints)' = Ids(breakpoints')
    BY DEF Ids
  <2>3. armed' \subseteq Ids(breakpoints') \cup lost' \cup stranded'
    BY <1>3, <1>6, <2>1
  <2> QED  BY <2>2, <2>3 DEF NoOrphanBreakpoint
<1>9. BreakpointsBelongToTarget'
  <2>1. Cardinality(breakpoints) \in Nat /\ Cardinality(breakpoints) < BreakpointSlots
    BY <1>1, FS_CardinalityType DEF HandlePart, HandleInv, BreakpointsSet, SlotFree
  <2>2. /\ Cardinality(breakpoints \cup {b}) \in Nat
        /\ Cardinality(breakpoints \cup {b}) <= Cardinality(breakpoints) + 1
    <3>1. Cardinality(breakpoints \cup {b}) =
            IF b \in breakpoints THEN Cardinality(breakpoints) ELSE Cardinality(breakpoints) + 1
      BY <1>1, FS_AddElement DEF HandlePart, HandleInv
    <3> QED  BY <2>1, <3>1
  <2>3. Cardinality(breakpoints') <= BreakpointSlots
    <3>1. CASE breakpoints' = breakpoints
      BY <3>1, <2>1, ConstantsAssumption
    <3>2. CASE breakpoints' = breakpoints \cup {b}
      BY <3>2, <2>1, <2>2, ConstantsAssumption
    <3> QED  BY <1>3, <3>1, <3>2
  <2>4. generation' = generation /\ b.gen = generation
    BY DEF BreakpointsSet, b
  <2> QED  BY <1>1, <1>3, <2>3, <2>4 DEF HandlePart, BreakpointsBelongToTarget
<1> QED  BY <1>5, <1>7, <1>8, <1>9 DEF IInv, StopPart

\* A removed breakpoint is disarmed or on record as lost.
LEMMA RemoveIInv ==
  ASSUME IInv, NEW b \in breakpoints, BreakpointsRemove(b)
  PROVE  IInv'
<1>1. /\ TypeOK /\ HookFollowsOwnership /\ HandlePart /\ StopPart
  BY DEF IInv, HandlePart, StopPart
<1>2. /\ breakpoints' = breakpoints \ {b}
      /\ b.id \in Ids(breakpoints)
      /\ Ids(breakpoints) \subseteq Ids(breakpoints') \cup {b.id}
      /\ Ids(breakpoints') \subseteq Ids(breakpoints)
  BY DEF BreakpointsRemove, Ids
<1>3. \/ armed' = armed \ {b.id} /\ lost' = lost
      \/ armed' = armed /\ lost' = lost \cup {b.id}
  BY DEF BreakpointsRemove
<1>4. active' \in BOOLEAN /\ stopped' \in BOOLEAN
  BY <1>1, RefreshType DEF BreakpointsRemove, TypeOK
<1>5. breakpointCounter' = breakpointCounter /\ generation' = generation
  BY DEF BreakpointsRemove
<1>6. TypeOK' /\ HookFollowsOwnership' /\ StopPart'
  <2>1. armed' \subseteq 1 .. breakpointCounter /\ lost' \subseteq 1 .. breakpointCounter
        /\ breakpoints' \subseteq Breakpoint
    BY <1>1, <1>2, <1>3 DEF TypeOK, HandlePart, HandleInv
  <2> QED
    BY <1>1, <1>4, <1>5, <2>1
       DEF BreakpointsRemove, TypeOK, HookFollowsOwnership, StopPart, ClientInv,
           StopGenerationNamesOneStop
<1>7. HandleInv' /\ NoOrphanBreakpoint'
  <2>1. IsFiniteSet(breakpoints')
    BY <1>1, <1>2, FS_RemoveElement DEF HandlePart, HandleInv
  <2>2. Ids(breakpoints)' = Ids(breakpoints')
    BY DEF Ids
  <2>3. stranded' = stranded
    BY DEF BreakpointsRemove
  <2>4. armed' \subseteq Ids(breakpoints') \cup lost' \cup stranded'
    BY <1>1, <1>2, <1>3, <2>2, <2>3 DEF HandlePart, NoOrphanBreakpoint
  <2> QED
    BY <1>1, <1>2, <1>5, <2>1, <2>2, <2>4 DEF HandlePart, HandleInv, NoOrphanBreakpoint
<1>8. BreakpointsBelongToTarget'
  <2>1. /\ Cardinality(breakpoints) \in Nat
        /\ Cardinality(breakpoints') = Cardinality(breakpoints) - 1
    BY <1>1, <1>2, FS_CardinalityType, FS_RemoveElement DEF HandlePart, HandleInv
  <2> QED
    BY <1>1, <1>2, <1>5, <2>1, ConstantsAssumption DEF HandlePart, BreakpointsBelongToTarget
<1> QED  BY <1>6, <1>7, <1>8 DEF IInv, StopPart

\* Steps that touch neither handles nor armed breakpoints keep the handle part.
LEMMA HandleFrame ==
  ASSUME IInv, armed' \subseteq armed,
         UNCHANGED <<breakpoints, lost, stranded, breakpointCounter, generation>>
  PROVE  HandlePart'
BY DEF IInv, HandlePart, HandleInv, NoOrphanBreakpoint, BreakpointsBelongToTarget, Ids

\* A recorded stop gets a number that no client holds yet.
LEMMA RecordStopPart ==
  ASSUME IInv, RecordDebugStop, UNCHANGED client
  PROVE  StopPart'
BY DEF IInv, TypeOK, RecordDebugStop, StopPart, ClientInv, StopGenerationNamesOneStop

\* Every step of the bridge, its client and its surroundings keeps the inductive
\* invariant.
LEMMA NextIInv == IInv /\ [Next]_vars => IInv'
<1> SUFFICES ASSUME IInv, [Next]_vars PROVE IInv'  OBVIOUS
<1>0. TypeOK /\ HookFollowsOwnership /\ StopPart
  BY DEF IInv, StopPart
<1>1. CASE NewTarget
  <2>1. generation' \in Nat /\ active' \in BOOLEAN /\ stopped' \in BOOLEAN
    <3>1. generation \in Nat  BY <1>0 DEF TypeOK
    <3>2. generation' = generation + 1  BY <1>1 DEF NewTarget
    <3>3. generation' \in Nat  BY <3>1, <3>2
    <3>4. active' \in BOOLEAN /\ stopped' \in BOOLEAN  BY <1>1 DEF NewTarget
    <3> QED  BY <3>3, <3>4
  <2>2. CleanupDebugger(ownership, backend) /\ starter' = starter  BY <1>1 DEF NewTarget
  <2> QED  BY <1>0, <2>1, <2>2, CleanupIInv DEF TypeOK
<1>2. CASE ClientDisconnected
  BY <1>0, <1>2, CleanupIInv DEF ClientDisconnected, TypeOK
<1>3. CASE ControlDetach
  BY <1>0, <1>3, CleanupIInv, RefreshType DEF ControlDetach, TypeOK
<1>4. CASE StartCallFails
  BY <1>0, <1>4, CleanupIInv DEF StartCallFails, TypeOK
<1>18. ASSUME NEW interface \in {"none"} \cup Interfaces, StartUnsupported(interface)
       PROVE  IInv'
  <2>1. starter' \in {"bridge", "user"} /\ generation' \in Nat
        /\ active' \in BOOLEAN /\ stopped' \in BOOLEAN
    BY <1>0, <1>18 DEF StartUnsupported, TypeOK
  <2> QED  BY <1>18, <2>1, CleanupIInv DEF StartUnsupported
<1>19. CASE BridgeRestarts
  <2>1. TypeOK' /\ HookFollowsOwnership' /\ StopPart'
    <3>1. /\ generation' \in Nat /\ stranded' \subseteq 1 .. breakpointCounter
          /\ client' \in [gen : Nat, stop : Nat, here : BOOLEAN] /\ client'.here = FALSE
      <4>1. generation' \in Nat /\ stranded' \subseteq 1 .. breakpointCounter
        BY <1>0, <1>19 DEF BridgeRestarts, TypeOK
      <4>2. client \in [gen : Nat, stop : Nat, here : BOOLEAN]
            /\ client' = [client EXCEPT !.here = FALSE]
        BY <1>0, <1>19 DEF BridgeRestarts, TypeOK
      <4> QED  BY <4>1, <4>2
    <3> QED
      BY <1>0, <1>19, <3>1
         DEF BridgeRestarts, TypeOK, HookFollowsOwnership, StopPart, ClientInv,
             StopGenerationNamesOneStop
  <2>2. IsFiniteSet(breakpoints)' /\ Cardinality(breakpoints)' = 0 /\ Ids(breakpoints)' = {}
    BY <1>19, FS_EmptySet DEF BridgeRestarts, Ids
  <2>3. HandlePart'
    BY <1>19, <2>2, ConstantsAssumption
       DEF BridgeRestarts, HandlePart, HandleInv, NoOrphanBreakpoint, BreakpointsBelongToTarget
  <2> QED  BY <2>1, <2>3 DEF IInv, HandlePart, StopPart
<1>5. CASE Status
  <2>1. HandlePart'
    BY <1>5, HandleFrame DEF Status, native, Kept
  <2>2. active' \in BOOLEAN /\ stopped' \in BOOLEAN
    BY <1>0, <1>5, RefreshType DEF Status, TypeOK
  <2> QED
    BY <1>0, <1>5, <2>1, <2>2
       DEF Status, native, Kept, IInv, TypeOK, HookFollowsOwnership, HandlePart, StopPart,
           ClientInv, StopGenerationNamesOneStop
<1>6. CASE StartAdopts
  <2>1. HandlePart'
    BY <1>6, HandleFrame DEF StartAdopts, Kept
  <2>2. active' \in BOOLEAN /\ stopped' \in BOOLEAN
    BY <1>0, <1>6, RefreshType DEF StartAdopts, TypeOK
  <2>3. HookFollowsOwnership' /\ hook' \in {"user", "bridge"}
        /\ callbackInstalled' \in BOOLEAN /\ ownership' \in {"none", "owned", "adopted"}
    BY <1>0, <1>6 DEF StartAdopts, InstallDebuggerCallback, HookFollowsOwnership, TypeOK
  <2> QED
    BY <1>0, <1>6, <2>1, <2>2, <2>3
       DEF StartAdopts, Kept, IInv, TypeOK, HandlePart, StopPart, ClientInv,
           StopGenerationNamesOneStop
<1>7. ASSUME NEW interface \in Supported, StartOwns(interface) PROVE IInv'
  <2>1. HandlePart'
    BY <1>7, HandleFrame DEF StartOwns, Kept
  <2>2. active' \in BOOLEAN /\ stopped' \in BOOLEAN
    BY <1>7, RefreshType DEF StartOwns
  <2>3. HookFollowsOwnership' /\ hook' \in {"user", "bridge"}
        /\ callbackInstalled' \in BOOLEAN /\ ownership' \in {"none", "owned", "adopted"}
    BY <1>0, <1>7 DEF StartOwns, InstallDebuggerCallback, HookFollowsOwnership, TypeOK
  <2> QED
    BY <1>0, <1>7, <2>1, <2>2, <2>3
       DEF StartOwns, Kept, IInv, TypeOK, HandlePart, StopPart, ClientInv,
           StopGenerationNamesOneStop, Interfaces
<1>8. CASE Pause
  <2>1. HandlePart'
    BY <1>8, HandleFrame DEF Pause, Kept
  <2>2. active' \in BOOLEAN /\ stopped' \in BOOLEAN
    BY <1>8, RefreshType DEF Pause
  <2>3. StopPart'
    BY <1>8, RecordStopPart DEF Pause, Kept
  <2> QED
    BY <1>0, <1>8, <2>1, <2>2, <2>3
       DEF Pause, RecordDebugStop, Kept, IInv, TypeOK, HookFollowsOwnership, HandlePart, StopPart
<1>9. CASE ContinueSuspended(client.gen)
  <2>1. HandlePart'
    BY <1>9, HandleFrame DEF ContinueSuspended, Kept
  <2>2. active' \in BOOLEAN /\ stopped' \in BOOLEAN
    BY <1>9, RefreshType DEF ContinueSuspended
  <2>3. suspensions' \in Nat
    BY <1>0, <1>9 DEF ContinueSuspended, Unpaused, TypeOK
  <2> QED
    BY <1>0, <1>9, <2>1, <2>2, <2>3
       DEF ContinueSuspended, Kept, IInv, TypeOK, HookFollowsOwnership, HandlePart, StopPart,
           ClientInv, StopGenerationNamesOneStop
<1>10. CASE ContinueStopped(client.gen)
  <2>1. HandlePart'
    BY <1>10, HandleFrame DEF ContinueStopped, Kept
  <2>2. active' \in BOOLEAN /\ stopped' \in BOOLEAN
    BY <1>10, RefreshType DEF ContinueStopped
  <2> QED
    BY <1>0, <1>10, <2>1, <2>2
       DEF ContinueStopped, Kept, IInv, TypeOK, HookFollowsOwnership, HandlePart, StopPart,
           ClientInv, StopGenerationNamesOneStop
<1>11. CASE BreakpointsSet
  BY <1>11, SetIInv
<1>12. ASSUME NEW b \in breakpoints, BreakpointsRemove(b) PROVE IInv'
  BY <1>12, RemoveIInv
<1>13. CASE BreakpointHit
  <2>1. HandlePart'
    BY <1>13, HandleFrame DEF BreakpointHit, Bridge
  <2>2. StopPart'
    BY <1>13, RecordStopPart DEF BreakpointHit, Bridge
  <2> QED
    BY <1>0, <1>13, <2>1, <2>2
       DEF BreakpointHit, RecordDebugStop, Bridge, IInv, TypeOK, HookFollowsOwnership,
           HandlePart, StopPart
<1>14. CASE GlobalBreak
  <2>1. HandlePart'
    BY <1>14, HandleFrame DEF GlobalBreak, Bridge
  <2>2. StopPart'
    <3>1. CASE hook = "bridge"
      BY <1>14, <3>1, RecordStopPart DEF GlobalBreak, Bridge
    <3>2. CASE hook # "bridge"
      BY <1>0, <1>14, <3>2
         DEF GlobalBreak, Bridge, StopPart, ClientInv, StopGenerationNamesOneStop
    <3> QED  BY <3>1, <3>2
  <2>3. /\ stopped' \in BOOLEAN /\ stopGeneration' \in Nat /\ named' \in Nat
        /\ waiting' \in Nat /\ stops' \in Nat
    <3>1. stops' \in Nat /\ waiting' \in Nat
      BY <1>0, <1>14 DEF GlobalBreak, TypeOK
    <3>2. CASE hook = "bridge"
      BY <1>0, <1>14, <3>1, <3>2 DEF GlobalBreak, RecordDebugStop, TypeOK
    <3>3. CASE hook # "bridge"
      BY <1>0, <1>14, <3>1, <3>3 DEF GlobalBreak, TypeOK
    <3> QED  BY <3>2, <3>3
  <2> QED
    BY <1>0, <1>14, <2>1, <2>2, <2>3
       DEF GlobalBreak, Bridge, IInv, TypeOK, HookFollowsOwnership, HandlePart, StopPart
<1>15. CASE UserActs \/ HookReplaced \/ TargetExits
  <2>1. HandlePart'
    BY <1>0, <1>15, HandleFrame DEF UserActs, HookReplaced, TargetExits, Bridge
  <2>2. TypeOK'
    <3>1. CASE UserActs
      <4>1. /\ backend' \in {"none"} \cup Interfaces /\ waiting' \in Nat
            /\ armed' = armed \/ armed' = {}
        BY <1>0, <3>1 DEF UserActs, TypeOK
      <4> QED  BY <1>0, <3>1, <4>1 DEF UserActs, Bridge, TypeOK
    <3>2. CASE HookReplaced
      BY <1>0, <1>15, <3>2 DEF HookReplaced, Bridge, TypeOK
    <3>3. CASE TargetExits
      BY <1>0, <1>15, <3>3 DEF TargetExits, Bridge, TypeOK
    <3> QED  BY <1>15, <3>1, <3>2, <3>3
  <2>3. HookFollowsOwnership' /\ StopPart'
    BY <1>0, <1>15
       DEF UserActs, HookReplaced, TargetExits, Bridge, HookFollowsOwnership, StopPart,
           ClientInv, StopGenerationNamesOneStop
  <2> QED  BY <2>1, <2>2, <2>3 DEF IInv, HandlePart, StopPart
<1>16. CASE ClientNotes
  <2>1. HandlePart'
    BY <1>16, HandleFrame DEF ClientNotes, native
  <2>2. StopPart'
    BY <1>0, <1>16 DEF ClientNotes, TypeOK, StopPart, ClientInv, StopGenerationNamesOneStop
  <2> QED
    BY <1>0, <1>16, <2>1, <2>2
       DEF ClientNotes, native, IInv, TypeOK, HookFollowsOwnership, HandlePart, StopPart
<1>17. CASE UNCHANGED vars
  <2>1. HandlePart'
    BY <1>17, HandleFrame DEF vars
  <2> QED
    BY <1>0, <1>17, <2>1
       DEF vars, IInv, TypeOK, HookFollowsOwnership, HandlePart, StopPart, ClientInv,
           StopGenerationNamesOneStop
<1> QED
  BY <1>1, <1>2, <1>3, <1>4, <1>5, <1>6, <1>7, <1>8, <1>9, <1>10, <1>11, <1>12, <1>13,
     <1>14, <1>15, <1>16, <1>17, <1>18, <1>19 DEF Next

\* The inductive invariant holds of every behaviour.
THEOREM Invariant == Spec => []IInv
BY InitIInv, NextIInv, PTL DEF Spec

\* Every variable keeps its type.
THEOREM TypeCorrect == Spec => []TypeOK
BY Invariant, PTL DEF IInv

\* Without an owned or adopted debugger the global callback is not the bridge's.
THEOREM HooksRemoved == Spec => []HookFollowsOwnership
BY Invariant, PTL DEF IInv

\* A breakpoint without a handle is armed only where Cheat Engine failed a call.
THEOREM NoOrphans == Spec => []NoOrphanBreakpoint
BY Invariant, PTL DEF IInv

\* Handles are current and fit the debug registers.
THEOREM BreakpointsCurrent == Spec => []BreakpointsBelongToTarget
BY Invariant, PTL DEF IInv

\* A stop generation names one stop for as long as its Lua state lives.
THEOREM StopsNamedOnce == Spec => []StopGenerationNamesOneStop
BY Invariant, PTL DEF IInv

\* No step that gives up an adopted debugger, while it is there, resumes or detaches it.
THEOREM AdoptedKept == Spec => AdoptedStaysAsItWas
<1>1. IInv /\ [Next]_vars =>
        [ownership = "adopted" /\ backend # "none" /\ ownership' = "none"
           => UNCHANGED <<backend, waiting, suspensions>>]_vars
  <2> SUFFICES ASSUME IInv, Next, ownership = "adopted", backend # "none", ownership' = "none"
               PROVE  UNCHANGED <<backend, waiting, suspensions>>
    BY DEF vars
  <2>1. CASE CleanupDebugger(ownership, backend)
    <3>1. PICK resumed \in BOOLEAN, detached \in BOOLEAN :
            ReleaseDebugger(ownership, backend, resumed, detached)
      BY <2>1 DEF CleanupDebugger
    <3> QED  BY <3>1 DEF ReleaseDebugger, Releases
  <2>2. CASE ~CleanupDebugger(ownership, backend)
    BY <2>2
       DEF Next, NewTarget, ClientDisconnected, ControlDetach, BridgeRestarts, StartCallFails,
           StartUnsupported, Status, StartAdopts,
           StartOwns, Pause, ContinueSuspended, ContinueStopped, BreakpointsSet,
           BreakpointsRemove, BreakpointHit, GlobalBreak, UserActs, HookReplaced, TargetExits,
           ClientNotes, Bridge
  <2> QED  BY <2>1, <2>2
<1> QED  BY <1>1, Invariant, PTL DEF Spec, AdoptedStaysAsItWas

\* Giving up an owned debugger releases it, unless CE failed to or rebuilt the Lua state.
THEOREM OwnedReleased == Spec => OwnedIsReleased
<1>1. Next /\ ownership = "owned" /\ ownership' = "none" /\ ~failed'
        => /\ backend' = "none" /\ waiting' = 0
           /\ processSuspended => suspensions' = Unpaused
  <2> SUFFICES ASSUME Next, ownership = "owned", ownership' = "none", ~failed'
               PROVE  /\ backend' = "none" /\ waiting' = 0
                      /\ processSuspended => suspensions' = Unpaused
    OBVIOUS
  <2>1. ASSUME NEW debugger, CleanupDebugger("owned", debugger)
        PROVE  /\ backend' = "none" /\ waiting' = 0
               /\ processSuspended => suspensions' = Unpaused
    <3>1. PICK resumed \in BOOLEAN, detached \in BOOLEAN :
            /\ ReleaseDebugger("owned", debugger, resumed, detached)
            /\ failed' = ~(resumed /\ detached)
      BY <2>1 DEF CleanupDebugger
    <3>2. resumed /\ detached  BY <3>1
    <3> QED  BY <3>1, <3>2 DEF ReleaseDebugger, Releases
  <2>2. CASE \E debugger : CleanupDebugger("owned", debugger)
    BY <2>1, <2>2
  <2>3. CASE ~\E debugger : CleanupDebugger("owned", debugger)
    <3>1. ~CleanupDebugger(ownership, backend)  BY <2>3
    <3>2. ~\E interface \in {"none"} \cup Interfaces : StartUnsupported(interface)
      BY <2>3 DEF StartUnsupported
    <3> QED
      BY <3>1, <3>2
         DEF Next, NewTarget, ClientDisconnected, ControlDetach, BridgeRestarts, StartCallFails,
             Status, StartAdopts, StartOwns, Pause, ContinueSuspended, ContinueStopped,
             BreakpointsSet, BreakpointsRemove, BreakpointHit, GlobalBreak, UserActs,
             HookReplaced, TargetExits, ClientNotes, Bridge, Kept
  <2> QED  BY <2>2, <2>3
<1>2. [Next]_vars => [ownership = "owned" /\ ownership' = "none" /\ ~failed'
                        => /\ backend' = "none" /\ waiting' = 0
                           /\ processSuspended => suspensions' = Unpaused]_vars
  BY <1>1
<1> QED  BY <1>2, PTL DEF Spec, OwnedIsReleased
=============================================================================
