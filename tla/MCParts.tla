------------------------------- MODULE MCParts -------------------------------
(***************************************************************************)
(* The parts that share no state with one another, checked in one run: a   *)
(* behaviour is a behaviour of one of them, chosen at the start, while the *)
(* others rest in one of their initial states.                             *)
(***************************************************************************)
EXTENDS DebugEvents, PipeTransport, ArtifactStore, AuditLog, StructureWorkspace,
        OutputLimit, SharedConfig, HostController, Hypervisor

VARIABLE part

Parts == {"ring", "pipe", "store", "audit", "workspace", "output", "config", "host",
          "hypervisor"}

\* A sidecar that fills the store and one that also reads it.
CallsOfSidecars ==
  [s \in Sidecars |-> IF s = 1 THEN {"dump", "preview", "delete"} ELSE {"archive", "list", "metadata"}]

partsVars == <<part, ringVars, pipeVars, storeVars, auditVars, workspaceVars, outputVars,
               configVars, hostVars, hypervisorVars>>

\* One of the initial states of each part that has several.
PipeRests ==
  /\ PipeInit /\ hosts = {}
  /\ client.mode = "auto" /\ client.selected = NoPid

ConfigRests ==
  /\ config = [transport |-> "absent", host |-> "absent", port |-> "absent",
               tokenFile |-> "absent", others |-> "good", file |-> "good", beside |-> "one",
               linked |-> "none"]
  /\ environment = [program \in {"server", "controller"} |-> "unread"]
  /\ serves = NotYet /\ asks = NotYet

HypervisorRests == HypervisorInit /\ openPid = 0

PartsInit ==
  /\ part \in Parts
  /\ RingInit /\ StoreInit /\ AuditInit /\ WorkspaceInit /\ OutputInit /\ HostInit
  /\ IF part = "pipe" THEN PipeInit ELSE PipeRests
  /\ IF part = "config" THEN ConfigInit ELSE ConfigRests
  /\ IF part = "hypervisor" THEN HypervisorInit ELSE HypervisorRests

\* Part p moves, and the others rest.
Moves(p) ==
  /\ part = p /\ UNCHANGED part
  /\ IF p = "ring" THEN RingNext ELSE UNCHANGED ringVars
  /\ IF p = "pipe" THEN PipeNext ELSE UNCHANGED pipeVars
  /\ IF p = "store" THEN StoreNext ELSE UNCHANGED storeVars
  /\ IF p = "audit" THEN AuditNext ELSE UNCHANGED auditVars
  /\ IF p = "workspace" THEN WorkspaceNext ELSE UNCHANGED workspaceVars
  /\ IF p = "output" THEN OutputNext ELSE UNCHANGED outputVars
  /\ IF p = "config" THEN ConfigNext ELSE UNCHANGED configVars
  /\ IF p = "host" THEN HostNext ELSE UNCHANGED hostVars
  /\ IF p = "hypervisor" THEN HypervisorNext ELSE UNCHANGED hypervisorVars

PartsNext == \E p \in Parts : Moves(p)

PartsSpec == PartsInit /\ [][PartsNext]_partsVars

\* The part that moves keeps the types of its state; the others rest in an initial state.
PartsTypeOK ==
  /\ part = "ring" => RingTypeOK
  /\ part = "pipe" => PipeTypeOK
  /\ part = "store" => StoreTypeOK
  /\ part = "audit" => AuditTypeOK
  /\ part = "workspace" => WorkspaceTypeOK
  /\ part = "output" => OutputTypeOK
  /\ part = "config" => ConfigTypeOK
  /\ part = "host" => HostTypeOK
  /\ part = "hypervisor" => HypervisorTypeOK
=============================================================================
