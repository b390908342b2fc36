------------------------- MODULE StructureWorkspace -------------------------
(***************************************************************************)
(* StructureWorkspace of the sidecar (src/ce_mcp/structures.py) behind     *)
(* ce.structures (service.py, _call_structure).  Calls hold the lock of    *)
(* the service, so each is one step; what interleaves are the clients,     *)
(* which decide on what they saw some calls ago, and restarts of the       *)
(* sidecar, which keeps definitions in memory only.                        *)
(***************************************************************************)
EXTENDS Naturals, FiniteSets

CONSTANTS
  Clients,
  MaxStructures,   \* max_structures
  MaxDefinitions,  \* bound: definitions ever stored
  MaxLives         \* bound: starts of the sidecar

ASSUME WorkspaceAssumption ==
  MaxStructures \in Nat \ {0} /\ MaxDefinitions \in Nat /\ MaxLives \in Nat \ {0}

VARIABLES
  items,     \* _items: the revision and content of each structure, or NoItem
  counter,   \* _counter
  stored,    \* contents ever stored; each is new
  life,      \* starts of the sidecar
  seen,      \* what each client saw last: an id, its item, and the life it was in
  acted      \* history: the content the last update or delete replaced, and what its client saw

workspaceVars == <<items, counter, stored, life, seen, acted>>

StructureIds == 1 .. MaxDefinitions
Contents == 1 .. MaxDefinitions
Item == [revision : 1 .. MaxDefinitions, content : Contents]
NoItem == [revision |-> 0, content |-> 0]
Sight == [id : 0 .. MaxDefinitions, item : Item \cup {NoItem}, life : 0 .. MaxLives]
NotActed == [saw |-> 0, replaced |-> 0, sameLife |-> TRUE]

WorkspaceTypeOK ==
  /\ items \in [StructureIds -> Item \cup {NoItem}]
  /\ counter \in 0 .. MaxDefinitions
  /\ stored \in 0 .. MaxDefinitions
  /\ life \in 1 .. MaxLives
  /\ seen \in [Clients -> Sight]
  /\ acted \in [saw : 0 .. MaxDefinitions, replaced : 0 .. MaxDefinitions, sameLife : BOOLEAN]

WorkspaceInit ==
  /\ items = [i \in StructureIds |-> NoItem]
  /\ counter = 0 /\ stored = 0 /\ life = 1
  /\ seen = [c \in Clients |-> [id |-> 0, item |-> NoItem, life |-> 0]]
  /\ acted = NotActed

-----------------------------------------------------------------------------
Existing == {i \in StructureIds : items[i] # NoItem}

Sees(c, i, item) == seen' = [seen EXCEPT ![c] = [id |-> i, item |-> item, life |-> life]]

\* Mutant: the id is the number of structures there are.
NextIdByCount == Cardinality(Existing) + 1

NextId == counter + 1

Valid == stored < MaxDefinitions

\* create; a definition that does not validate changes nothing.
CreateStructure(c) ==
  /\ Valid /\ Cardinality(Existing) < MaxStructures
  /\ LET new == [revision |-> 1, content |-> stored + 1]
     IN  items' = [items EXCEPT ![NextId] = new] /\ Sees(c, NextId, new)
  /\ counter' = counter + 1
  /\ stored' = stored + 1
  /\ UNCHANGED <<life, acted>>

\* A client changes what it saw; it may not have seen the answer of its last change.
Acts(c) ==
  acted' = [saw |-> seen[c].item.content, replaced |-> items[seen[c].id].content,
            sameLife |-> seen[c].life = life]

\* _require and the revision.
Current(c) ==
  /\ seen[c].id \in Existing
  /\ items[seen[c].id].revision = seen[c].item.revision

UpdateStructure(c) ==
  /\ Valid /\ Current(c)
  /\ LET new == [revision |-> items[seen[c].id].revision + 1, content |-> stored + 1]
     IN  /\ items' = [items EXCEPT ![seen[c].id] = new]
         /\ Sees(c, seen[c].id, new) \/ UNCHANGED seen
  /\ stored' = stored + 1
  /\ Acts(c)
  /\ UNCHANGED <<counter, life>>

DeleteStructure(c) ==
  /\ Current(c)
  /\ items' = [items EXCEPT ![seen[c].id] = NoItem]
  /\ Acts(c)
  /\ UNCHANGED <<counter, stored, life, seen>>

\* get, an entry of a page of list, or the definition that read returns.
LooksAt(c) ==
  /\ \E i \in Existing : Sees(c, i, items[i])
  /\ UNCHANGED <<items, counter, stored, life, acted>>

\* The sidecar is started again.
WorkspaceRestarts ==
  /\ life < MaxLives /\ life' = life + 1
  /\ items' = [i \in StructureIds |-> NoItem]
  /\ counter' = 0
  /\ UNCHANGED <<stored, seen, acted>>

WorkspaceNext ==
  \/ \E c \in Clients : CreateStructure(c) \/ UpdateStructure(c) \/ DeleteStructure(c) \/ LooksAt(c)
  \/ WorkspaceRestarts

WorkspaceSpec == WorkspaceInit /\ [][WorkspaceNext]_workspaceVars

-----------------------------------------------------------------------------
\* No lost update: an update or delete that is accepted replaces the very definition
\* that its client saw, whatever other clients stored, deleted and created in between,
\* while one sidecar lives (structures.py 46-68 and 78-83).
UpdateBuildsOnCurrent == acted.sameLife => acted.saw = acted.replaced
=============================================================================
