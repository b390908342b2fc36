---------------------------- MODULE ArtifactStore ----------------------------
(***************************************************************************)
(* The artifact store of the sidecar (src/ce_mcp/artifacts.py) and the     *)
(* tools that fill and read it (service.py, _call_artifact and             *)
(* _call_dbvm_trace_archive).  Its root is by default one directory for    *)
(* all sidecars of a user: each has a lock and a verification cache of its *)
(* own, and they share the files.  Every system call may fail, a sidecar   *)
(* may die between any two of them, and somebody may edit a file in place. *)
(***************************************************************************)
EXTENDS Integers, Sequences, FiniteSets

CONSTANTS
  Sidecars,      \* processes that share the root
  CallsOf,       \* bound: the calls each of them makes
  MaxArtifacts,  \* max_artifacts
  Retention,     \* retention_seconds, in ticks of the clock
  Pieces,        \* chunks of a dump; bound on the pages of a trace
  MaxIds,        \* bound: artifacts ever begun
  MaxReads,      \* bound: other calls
  MaxClock,      \* bound: the clock
  MaxMishaps     \* bound: edits, failures and crashes

ASSUME StoreAssumption ==
  /\ MaxArtifacts \in Nat \ {0} /\ Retention \in Nat /\ Pieces \in Nat \ {0}
  /\ {MaxIds, MaxReads, MaxClock, MaxMishaps} \subseteq Nat

VARIABLES
  files,      \* the .bin and .json of each artifact
  temps,      \* artifacts with a temporary file
  op,         \* the call that holds the lock of each sidecar
  verified,   \* _verification_cache of each sidecar
  used,       \* createdAt of each artifact, and whether its pieces are one range in one session
  clock,
  reads, mishaps,
  \* history
  served,     \* what metadata, list or preview returned last
  settled,    \* artifacts that were listed by a prune that is complete
  skipped     \* artifacts that the listing of a prune passed over

storeVars == <<files, temps, op, verified, used, clock, reads, mishaps, served, settled, skipped>>

Ids == 1 .. MaxIds

\* A file: absent (version 0), or its fingerprint and what it holds; `resized' also
\* stands for metadata that does not validate.
Bodies == {"original", "altered", "resized"}
Absent == [version |-> 0, body |-> "original"]
File == [version : 0 .. 1 + MaxMishaps, body : Bodies]
Kinds == {"dump", "archive", "list", "metadata", "preview", "delete"}
Phases == {"idle", "capture", "write", "replaceData", "replaceMeta", "prune", "unlinkData",
           "unlinkMeta", "cleanTemps", "cleanData", "cleanMeta", "next", "open", "hash",
           "recheck", "read", "recheckRead"}
Prints == [meta : 0 .. 1 + MaxMishaps, data : 0 .. 1 + MaxMishaps]
Unknown == [meta |-> 0, data |-> 0]

StoreTypeOK ==
  /\ files \in [Ids -> [data : File, meta : File]]
  /\ temps \subseteq Ids
  /\ \A s \in Sidecars : /\ op[s].kind \in Kinds /\ op[s].phase \in Phases /\ op[s].id \in 0 .. MaxIds
                         /\ op[s].todo \subseteq Ids /\ op[s].listed \subseteq Ids
                         /\ op[s].prints \in Prints /\ {op[s].body, op[s].bytes} \subseteq Bodies
                         /\ op[s].got \in 0 .. Pieces /\ op[s].whole \in BOOLEAN
  /\ verified \in [Sidecars -> [Ids -> [prints : Prints, body : Bodies]]]
  /\ used \in [Ids -> [at : -1 .. MaxClock, whole : BOOLEAN]]
  /\ clock \in 0 .. MaxClock /\ reads \in 0 .. MaxReads /\ mishaps \in 0 .. MaxMishaps
  /\ served \in [id : 0 .. MaxIds, named : Bodies, bytes : Bodies]
  /\ settled \subseteq Ids /\ skipped \subseteq Ids

NoOp == [kind |-> "list", phase |-> "idle", id |-> 0, todo |-> {}, listed |-> {},
         prints |-> Unknown, body |-> "original", bytes |-> "original", got |-> 0, whole |-> TRUE]

StoreInit ==
  /\ files = [i \in Ids |-> [data |-> Absent, meta |-> Absent]]
  /\ temps = {}
  /\ op = [s \in Sidecars |-> NoOp]
  /\ verified = [s \in Sidecars |-> [i \in Ids |-> [prints |-> Unknown, body |-> "original"]]]
  /\ used = [i \in Ids |-> [at |-> -1, whole |-> TRUE]]
  /\ clock = 0 /\ reads = 0 /\ mishaps = 0
  /\ served = [id |-> 0, named |-> "original", bytes |-> "original"]
  /\ settled = {} /\ skipped = {}

-----------------------------------------------------------------------------
Runs(s, phases) == op[s].phase \in phases
Goes(s, phase) == op' = [op EXCEPT ![s].phase = phase]
Ends(s) == op' = [op EXCEPT ![s] = NoOp]
IsCreate(s) == op[s].kind \in {"dump", "archive"}
PrintsOf(i) == [meta |-> files[i].meta.version, data |-> files[i].data.version]

\* The artifacts that _owned_entries_locked returns if it can read them all.
Owned == {i \in Ids : /\ files[i].meta.version # 0 /\ files[i].data.version # 0
                      /\ files[i].meta.body # "resized" /\ files[i].data.body # "resized"}

\* The order of the entries: createdAt, then the id, which is random.
Older(i, j) == used[i].at < used[j].at \/ (used[i].at = used[j].at /\ i < j)

Expired(seen) == {i \in seen : used[i].at < clock - Retention}

\* Mutant: one artifact too many stays.
RemovalsButOne(seen) ==
  LET kept == seen \ Expired(seen)
  IN  Expired(seen) \cup {i \in kept : Cardinality({j \in kept : Older(i, j)}) > MaxArtifacts}

\* What _prune_locked removes of the artifacts it has seen.
Removals(seen) ==
  LET kept == seen \ Expired(seen)
  IN  Expired(seen) \cup {i \in kept : Cardinality({j \in kept : Older(i, j)}) >= MaxArtifacts}

Begin(s) ==
  /\ Runs(s, {"idle"})
  /\ \/ \E i \in Ids, kind \in {"dump", "archive"} \cap CallsOf[s] :
          /\ used[i].at = -1 /\ \A t \in Sidecars : op[t].id # i \/ ~IsCreate(t)
          /\ op' = [op EXCEPT ![s] = [NoOp EXCEPT !.kind = kind, !.phase = "capture", !.id = i]]
          /\ UNCHANGED reads
     \/ /\ reads < MaxReads /\ reads' = reads + 1
        /\ \/ "list" \in CallsOf[s] /\ op' = [op EXCEPT ![s].phase = "prune"]
           \/ \E i \in Ids, kind \in {"metadata", "preview", "delete"} \cap CallsOf[s] :
                op' = [op EXCEPT ![s].kind = kind, ![s].id = i,
                         ![s].phase = IF kind = "delete" THEN "unlinkData" ELSE "open"]
  /\ UNCHANGED <<files, temps, verified, used, clock, mishaps, served, settled, skipped>>

\* Mutant: a later chunk may be anywhere.
AcceptedAnywhere(s, at) == TRUE

\* A chunk of a dump follows the ones before; a page of a trace is where its cursor points.
Accepted(s, at) == at = op[s].got

\* memory.read or dbvm.trace.results: the bridge may say of a dump's chunk that it is
\* anywhere (0 is where the first one was).
Capture(s) ==
  /\ Runs(s, {"capture"})
  /\ \/ \E at \in 0 .. Pieces, last \in BOOLEAN :
          /\ Accepted(s, at)
          /\ IF op[s].got + 1 = Pieces THEN last ELSE last => op[s].kind = "archive"
          /\ op' = [op EXCEPT ![s].got = IF last THEN 0 ELSE @ + 1,
                              ![s].whole = @ /\ at = op[s].got,
                              ![s].kind = IF last THEN "dump" ELSE @,
                              ![s].phase = IF last THEN "write" ELSE @]
     \/ \* the deadline, an error, a failed call, a malformed answer, too many items
        Ends(s)
  /\ UNCHANGED <<files, temps, verified, used, clock, reads, mishaps, served, settled, skipped>>

\* create: both temporary files, and createdAt between them.
WriteTemps(s) ==
  /\ Runs(s, {"write"})
  /\ temps' = temps \cup {op[s].id}
  /\ used' = [used EXCEPT ![op[s].id] = [at |-> clock, whole |-> op[s].whole]]
  /\ op' = [op EXCEPT ![s].phase = "replaceData", ![s].whole = TRUE]
  /\ UNCHANGED <<files, verified, clock, reads, mishaps, served, settled, skipped>>

ReplaceData(s) ==
  /\ Runs(s, {"replaceData"})
  /\ files' = [files EXCEPT ![op[s].id].data = [Absent EXCEPT !.version = 1]]
  /\ Goes(s, "replaceMeta")
  /\ UNCHANGED <<temps, verified, used, clock, reads, mishaps, served, settled, skipped>>

ReplaceMeta(s) ==
  /\ Runs(s, {"replaceMeta"})
  /\ files' = [files EXCEPT ![op[s].id].meta = [Absent EXCEPT !.version = 1]]
  /\ temps' = temps \ {op[s].id}
  /\ verified' = [verified EXCEPT ![s][op[s].id].prints = Unknown]
  /\ Goes(s, "prune")
  /\ UNCHANGED <<used, clock, reads, mishaps, served, settled, skipped>>

\* _prune_locked: the listing.  It passes over an artifact when it fails to read it, or
\* finds it in the middle of a change, and the prune goes on without it.
Prune(s) ==
  /\ Runs(s, {"prune"})
  /\ \E missed \in SUBSET Owned :
       /\ skipped' = skipped \cup missed
       /\ \/ missed = {} /\ UNCHANGED mishaps
          \/ missed # {} /\ mishaps < MaxMishaps /\ mishaps' = mishaps + 1
       /\ op' = [op EXCEPT ![s].todo = Removals(Owned \ missed), ![s].listed = Owned \ missed,
                           ![s].phase = "unlinkData"]
  /\ UNCHANGED <<files, temps, verified, used, clock, reads, served, settled>>

\* The artifact whose files go next: the one to delete, or the first to prune.
Doomed(s) == IF op[s].kind = "delete" THEN op[s].id
             ELSE CHOOSE i \in op[s].todo : \A j \in op[s].todo : i <= j

UnlinkData(s) ==
  /\ Runs(s, {"unlinkData"}) /\ (op[s].kind # "delete" => op[s].todo # {})
  /\ IF op[s].kind = "delete" /\ PrintsOf(op[s].id) = Unknown
     THEN Ends(s) /\ UNCHANGED files
     ELSE Goes(s, "unlinkMeta") /\ files' = [files EXCEPT ![Doomed(s)].data = Absent]
  /\ UNCHANGED <<temps, verified, used, clock, reads, mishaps, served, settled, skipped>>

UnlinkMeta(s) ==
  /\ Runs(s, {"unlinkMeta"})
  /\ files' = [files EXCEPT ![Doomed(s)].meta = Absent]
  /\ verified' = [verified EXCEPT ![s][Doomed(s)].prints = Unknown]
  /\ IF op[s].kind = "delete" THEN Ends(s)
     ELSE op' = [op EXCEPT ![s].todo = @ \ {Doomed(s)}, ![s].phase = "unlinkData"]
  /\ UNCHANGED <<temps, used, clock, reads, mishaps, served, settled, skipped>>

\* The prune is complete: create returns, list goes through what is there now (an
\* artifact that this second listing fails to read is one that Fails takes at its open).
Pruned(s) ==
  /\ Runs(s, {"unlinkData"}) /\ op[s].kind # "delete" /\ op[s].todo = {}
  /\ settled' = settled \cup op[s].listed
  /\ IF IsCreate(s) THEN Ends(s) ELSE op' = [op EXCEPT ![s].phase = "next", ![s].todo = Owned]
  /\ UNCHANGED <<files, temps, verified, used, clock, reads, mishaps, served, skipped>>

\* Any system call fails.  create removes all four files, unless that fails too; list
\* goes on with the next artifact once it is past its prune.
Fails(s) ==
  /\ Runs(s, Phases \ {"idle", "capture", "next"}) /\ mishaps < MaxMishaps
  /\ mishaps' = mishaps + 1
  /\ IF IsCreate(s) /\ ~Runs(s, {"cleanTemps", "cleanData", "cleanMeta"})
     THEN op' = [op EXCEPT ![s].phase = "cleanTemps", ![s].todo = {}]
     ELSE IF op[s].kind = "list" /\ Runs(s, {"open", "hash", "recheck"}) THEN Goes(s, "next")
     ELSE Ends(s)
  /\ UNCHANGED <<files, temps, verified, used, clock, reads, served, settled, skipped>>

\* The except clause of create.
CleanUp(s) ==
  /\ Runs(s, {"cleanTemps", "cleanData", "cleanMeta"})
  /\ \/ /\ Runs(s, {"cleanTemps"}) /\ Goes(s, "cleanData")
        /\ temps' = temps \ {op[s].id} /\ UNCHANGED files
     \/ /\ Runs(s, {"cleanData"}) /\ Goes(s, "cleanMeta")
        /\ files' = [files EXCEPT ![op[s].id].data = Absent] /\ UNCHANGED temps
     \/ /\ Runs(s, {"cleanMeta"}) /\ Ends(s)
        /\ files' = [files EXCEPT ![op[s].id].meta = Absent] /\ UNCHANGED temps
  /\ UNCHANGED <<verified, used, clock, reads, mishaps, served, settled, skipped>>

-----------------------------------------------------------------------------
\* list: metadata of each artifact.
ListNext(s) ==
  /\ Runs(s, {"next"})
  /\ \/ op[s].todo = {} /\ Ends(s)
     \/ \E i \in op[s].todo :
          op' = [op EXCEPT ![s].id = i, ![s].todo = @ \ {i}, ![s].phase = "open"]
  /\ UNCHANGED <<files, temps, verified, used, clock, reads, mishaps, served, settled, skipped>>

\* What a call does when an artifact turns out not to be servable.
Refuses(s) == IF op[s].kind = "list" THEN Goes(s, "next") ELSE Ends(s)

\* Mutant: a cached verdict stands as long as the artifact exists.
VouchedById(s, i) == verified[s][i].prints # Unknown

\* The cache answers for these very files.
Vouched(s, i) == verified[s][i].prints = PrintsOf(i)

\* _open_verified_locked: open both, and look into the cache.
Open(s) ==
  /\ Runs(s, {"open"})
  /\ LET i == op[s].id
     IN  IF files[i].meta.version = 0 \/ files[i].data.version = 0 THEN Refuses(s)
         ELSE op' = [op EXCEPT ![s].prints = PrintsOf(i), ![s].body = verified[s][i].body,
                               ![s].phase = IF Vouched(s, i) THEN "recheck" ELSE "hash"]
  /\ UNCHANGED <<files, temps, verified, used, clock, reads, mishaps, served, settled, skipped>>

\* Metadata and content are read, and must agree.
Hash(s) ==
  /\ Runs(s, {"hash"})
  /\ LET i == op[s].id
     IN  IF files[i].meta.body = files[i].data.body /\ files[i].meta.body # "resized"
         THEN op' = [op EXCEPT ![s].phase = "recheck", ![s].body = files[i].meta.body]
         ELSE Refuses(s)
  /\ UNCHANGED <<files, temps, verified, used, clock, reads, mishaps, served, settled, skipped>>

\* Mutant: the fingerprints are not compared again.
UnchangedAssumed(s) == TRUE

\* Streams and paths still have the fingerprints of the beginning.
StillThere(s) == PrintsOf(op[s].id) = op[s].prints

Serves(s, bytes) ==
  served' = [id |-> op[s].id, named |-> op[s].body, bytes |-> bytes]

\* The end of _open_verified_locked.
Recheck(s) ==
  /\ Runs(s, {"recheck"})
  /\ IF StillThere(s)
     THEN /\ verified' = [verified EXCEPT ![s][op[s].id] = [prints |-> op[s].prints, body |-> op[s].body]]
          /\ IF op[s].kind = "preview" THEN Goes(s, "read") /\ UNCHANGED served
             ELSE Serves(s, files[op[s].id].data.body) /\ Refuses(s)
     ELSE Refuses(s) /\ UNCHANGED <<verified, served>>
  /\ UNCHANGED <<files, temps, used, clock, reads, mishaps, settled, skipped>>

\* preview: the bytes are read, then the fingerprints are compared once more.
Read(s) ==
  /\ Runs(s, {"read"})
  /\ op' = [op EXCEPT ![s].bytes = files[op[s].id].data.body, ![s].phase = "recheckRead"]
  /\ UNCHANGED <<files, temps, verified, used, clock, reads, mishaps, served, settled, skipped>>

RecheckRead(s) ==
  /\ Runs(s, {"recheckRead"})
  /\ IF StillThere(s) THEN Serves(s, op[s].bytes) ELSE UNCHANGED served
  /\ Ends(s)
  /\ UNCHANGED <<files, temps, verified, used, clock, reads, mishaps, settled, skipped>>

-----------------------------------------------------------------------------
\* A sidecar dies; the next one starts with an empty cache.
Dies(s) ==
  /\ mishaps < MaxMishaps /\ ~Runs(s, {"idle"})
  /\ mishaps' = mishaps + 1
  /\ Ends(s)
  /\ verified' = [verified EXCEPT ![s] = [i \in Ids |-> [prints |-> Unknown, body |-> "original"]]]
  /\ UNCHANGED <<files, temps, used, clock, reads, served, settled, skipped>>

\* Somebody edits a file in place, which gives it another fingerprint; or time passes.
Edited(f) ==
  IF f = Absent THEN {} ELSE {[version |-> 2 + mishaps, body |-> b] : b \in {"altered", "resized"}}

StoreSurroundings ==
  \/ /\ mishaps < MaxMishaps /\ mishaps' = mishaps + 1
     /\ \E i \in Ids : \/ \E f \in Edited(files[i].data) : files' = [files EXCEPT ![i].data = f]
                       \/ \E f \in Edited(files[i].meta) : files' = [files EXCEPT ![i].meta = f]
     /\ UNCHANGED <<temps, op, verified, used, clock, reads, served, settled, skipped>>
  \/ /\ clock < MaxClock /\ clock' = clock + 1
     /\ UNCHANGED <<files, temps, op, verified, used, reads, mishaps, served, settled, skipped>>

StoreSteps(s) ==
  \/ Begin(s) \/ Capture(s) \/ WriteTemps(s) \/ ReplaceData(s) \/ ReplaceMeta(s)
  \/ Prune(s) \/ UnlinkData(s) \/ UnlinkMeta(s) \/ Pruned(s) \/ Fails(s) \/ CleanUp(s)
  \/ ListNext(s) \/ Open(s) \/ Hash(s) \/ Recheck(s) \/ Read(s) \/ RecheckRead(s) \/ Dies(s)

StoreNext == (\E s \in Sidecars : StoreSteps(s)) \/ StoreSurroundings

StoreSpec == StoreInit /\ [][StoreNext]_storeVars

-----------------------------------------------------------------------------
\* Whatever is served agrees with the hash of the metadata it is served with, and was
\* captured as one range in the one session that the metadata names, although files
\* are edited and removed while they are read, and verdicts are cached (artifacts.py
\* 229-274 and 435-446, service.py 596-640).
ServedIsIntact == served.id # 0 => served.named = served.bytes /\ used[served.id].whole

\* A prune leaves at most max_artifacts of the artifacts it has seen, with two sidecars
\* that prune at once, each by its own listing, and whatever fails or dies in between: an
\* artifact too many is one that no complete prune has listed yet, or one that the listing
\* of some prune has passed over because it could not read it (artifacts.py 344, 364-373
\* and 377-389).
StoreStaysBounded ==
  Cardinality({i \in (settled \cap Owned) \ skipped : PrintsOf(i) = [meta |-> 1, data |-> 1]})
    <= MaxArtifacts
=============================================================================
