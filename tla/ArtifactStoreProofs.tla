------------------------- MODULE ArtifactStoreProofs -------------------------
(***************************************************************************)
(* Proofs about ArtifactStore, for any sidecars and calls and every bound: *)
(* what is served is intact, and how many artifacts stay.                  *)
(***************************************************************************)
EXTENDS ArtifactStore, FiniteSetTheorems, WellFoundedInduction, TLAPS

-----------------------------------------------------------------------------
(* What is served.                                                         *)

OpCall ==
  [kind : Kinds, phase : Phases, id : 0 .. MaxIds, todo : SUBSET Ids, listed : SUBSET Ids,
   prints : Prints, body : Bodies, bytes : Bodies, got : 0 .. Pieces, whole : BOOLEAN]

StoreTypes ==
  /\ StoreTypeOK /\ op \in [Sidecars -> OpCall]

Creating == {"capture", "write", "replaceData", "replaceMeta", "cleanTemps", "cleanData", "cleanMeta"}
Reading == {"hash", "recheck", "read", "recheckRead"}

\* What the call of sidecar s works on.
CallInv(s) ==
  /\ op[s].whole /\ op[s].got < Pieces
  /\ Runs(s, {"idle"}) => op[s] = NoOp
  /\ Runs(s, Creating) => IsCreate(s)
  /\ IsCreate(s) \/ op[s].kind = "delete" \/ Runs(s, Reading \cup {"open"}) => op[s].id \in Ids
  /\ Runs(s, Reading \cup {"open", "next"}) => ~IsCreate(s)
  /\ Runs(s, {"capture", "write"}) => used[op[s].id].at = -1
  /\ Runs(s, {"replaceData", "replaceMeta"}) => used[op[s].id].at # -1

CreatorsInv ==
  \A s, t \in Sidecars : IsCreate(s) /\ IsCreate(t) /\ op[s].id = op[t].id => s = t

\* An edit gives a file a fingerprint that it never had; a file that create wrote is as it
\* was, and one that is gone is Absent.
VersionsInv ==
  \A i \in Ids : \A f \in {files[i].data, files[i].meta} :
    f.version <= 1 + mishaps /\ (f.version \in {0, 1} => f.body = "original")

\* An artifact whose metadata is still to be written.
Fresh(i) == used[i].at = -1 \/ \E s \in Sidecars : Runs(s, {"replaceData", "replaceMeta"}) /\ op[s].id = i

Reads(s, i) == Runs(s, Reading) /\ op[s].id = i

\* Nobody has seen it: no fingerprint of it is noted anywhere, and no prune has listed it.
FreshInv ==
  \A i \in Ids : Fresh(i) =>
    /\ files[i].meta.version = 0 /\ i \notin settled
    /\ \A s \in Sidecars : ~Reads(s, i) /\ verified[s][i].prints = Unknown /\ i \notin op[s].listed

\* Fingerprints of files that were there.
Recorded(p) == {p.meta, p.data} \subseteq 1 .. 1 + mishaps

\* As long as the files have the fingerprints that were noted, what was noted with them is right.
VouchInv(s) ==
  \A i \in Ids : verified[s][i].prints # Unknown =>
    /\ Recorded(verified[s][i].prints)
    /\ Vouched(s, i) => verified[s][i].body = files[i].data.body

ReadInv(s) ==
  Runs(s, Reading) =>
    /\ Recorded(op[s].prints)
    /\ StillThere(s) =>
         /\ ~Runs(s, {"hash"}) => op[s].body = files[op[s].id].data.body
         /\ Runs(s, {"recheckRead"}) => op[s].bytes = files[op[s].id].data.body

IntactInv ==
  /\ StoreTypes /\ CreatorsInv /\ VersionsInv /\ FreshInv /\ ServedIsIntact
  /\ \A i \in Ids : used[i].whole
  /\ \A s \in Sidecars : CallInv(s) /\ VouchInv(s) /\ ReadInv(s)

\* The artifacts that the bound is about.
Pristine == {i \in Ids \ skipped : PrintsOf(i) = [meta |-> 1, data |-> 1]}

Prunes(s) == Runs(s, {"unlinkData", "unlinkMeta"}) /\ op[s].kind # "delete"

\* Of two listings the earlier has nothing that is left of it over the later.
Nested(S, T) == S \cap Pristine \subseteq T \/ T \cap Pristine \subseteq S

\* What a prune leaves of what it listed is within the bound.
PruneInv(s) ==
  Prunes(s) =>
    /\ op[s].todo \subseteq op[s].listed
    /\ Runs(s, {"unlinkMeta"}) => Doomed(s) \notin op[s].todo \cap Pristine
    /\ Cardinality((op[s].listed \cap Pristine) \ op[s].todo) <= MaxArtifacts
    /\ Nested(op[s].listed, settled)
    /\ \A t \in Sidecars : Prunes(t) => Nested(op[s].listed, op[t].listed)

BoundInv ==
  Cardinality(settled \cap Pristine) <= MaxArtifacts /\ \A s \in Sidecars : PruneInv(s)

\* The other sidecars, and what the surroundings leave alone.

\* Both files of artifact i are the same, gone, or new edits.
Fades(i) ==
  /\ files'[i].data = files[i].data \/ files'[i].data.version \notin 1 .. 1 + mishaps
  /\ files'[i].meta = files[i].meta \/ files'[i].meta.version \notin 1 .. 1 + mishaps

\* What a step does to the artifacts.
Artifacts ==
  /\ mishaps <= mishaps' /\ skipped \subseteq skipped'
  /\ \A i \in Ids : /\ Fresh(i) \/ Fades(i)
                    /\ Fresh(i)' => Fresh(i) /\ files'[i].meta.version = 0 /\ i \notin settled'

\* Fingerprints that were noted are those of a file only while it is the same.
LEMMA RecordedAreOld ==
  ASSUME NEW i \in Ids, Fades(i), NEW p, Recorded(p), PrintsOf(i)' = p
  PROVE  files'[i].data = files[i].data /\ PrintsOf(i) = p
<1>1. files'[i].data.version = p.data /\ files'[i].meta.version = p.meta
  BY DEF PrintsOf
<1>2. files'[i].data = files[i].data /\ files'[i].meta = files[i].meta
  BY <1>1 DEF Fades, Recorded
<1> QED  BY <1>2 DEF PrintsOf

LEMMA StillRecorded ==
  ASSUME StoreTypes, StoreTypes', mishaps <= mishaps'
  PROVE  \A p : Recorded(p) => Recorded(p)'
BY StoreAssumption DEF Recorded, StoreTypes, StoreTypeOK

\* A verdict that is kept stays right.
LEMMA VouchKept ==
  ASSUME IntactInv, StoreTypes', Artifacts, NEW t \in Sidecars, NEW i \in Ids,
         verified'[t][i] = verified[t][i], verified'[t][i].prints # Unknown
  PROVE  /\ Recorded(verified[t][i].prints)'
         /\ Vouched(t, i)' => verified'[t][i].body = files'[i].data.body
<1>2. Recorded(verified[t][i].prints)
  BY DEF IntactInv, VouchInv
<1>3. Recorded(verified[t][i].prints)'
  BY <1>2, StillRecorded DEF IntactInv, Artifacts
<1>4. ~Fresh(i) /\ Fades(i)
  <2>1. FreshInv  BY DEF IntactInv
  <2>2. ~Fresh(i)  BY <2>1 DEF FreshInv
  <2> QED  BY <2>2 DEF Artifacts
<1>5. ASSUME Vouched(t, i)' PROVE verified'[t][i].body = files'[i].data.body
  <2>1. PrintsOf(i)' = verified[t][i].prints  BY <1>5 DEF Vouched
  <2>2. files'[i].data = files[i].data /\ PrintsOf(i) = verified[t][i].prints
    BY <1>2, <1>4, <2>1, RecordedAreOld
  <2>3. Vouched(t, i)  BY <2>2 DEF Vouched
  <2> QED  BY <2>2, <2>3 DEF IntactInv, VouchInv
<1> QED  BY <1>3, <1>5

\* A cache whose entries are kept or dropped stays right.
LEMMA VouchStays ==
  ASSUME IntactInv, StoreTypes', Artifacts, NEW t \in Sidecars,
         \A i \in Ids : verified'[t][i] = verified[t][i] \/ verified'[t][i].prints = Unknown
  PROVE  VouchInv(t)'
BY VouchKept DEF VouchInv

\* A reader that does not move goes on with what it has.
LEMMA ReadStays ==
  ASSUME IntactInv, StoreTypes', Artifacts, NEW t \in Sidecars, op'[t] = op[t]
  PROVE  ReadInv(t)'
<1> SUFFICES ASSUME Runs(t, Reading)
             PROVE  /\ Recorded(op[t].prints)'
                    /\ StillThere(t)' =>
                         /\ ~Runs(t, {"hash"}) => op[t].body = files'[op[t].id].data.body
                         /\ Runs(t, {"recheckRead"}) => op[t].bytes = files'[op[t].id].data.body
  BY DEF ReadInv, Runs
<1>1. op[t].id \in Ids /\ Recorded(op[t].prints)
  BY DEF IntactInv, CallInv, ReadInv, Runs
<1>2. Recorded(op[t].prints)'
  BY <1>1, StillRecorded DEF IntactInv, Artifacts
<1>3. ~Fresh(op[t].id) /\ Fades(op[t].id)
  <2>1. FreshInv  BY DEF IntactInv
  <2>2. Reads(t, op[t].id)  BY DEF Reads
  <2>3. ~Fresh(op[t].id)  BY <1>1, <2>1, <2>2 DEF FreshInv
  <2> QED  BY <1>1, <2>3 DEF Artifacts
<1>4. ASSUME StillThere(t)'
      PROVE  StillThere(t) /\ files'[op[t].id].data = files[op[t].id].data
  <2>1. PrintsOf(op[t].id)' = op[t].prints  BY <1>4 DEF StillThere, PrintsOf
  <2> QED  BY <1>1, <1>3, <2>1, RecordedAreOld DEF StillThere
<1> QED  BY <1>2, <1>4 DEF IntactInv, ReadInv

\* What sidecar s does at a step, and what it leaves to the others.
StepOf(s) ==
  /\ StoreTypes' /\ VersionsInv' /\ ServedIsIntact' /\ Artifacts
  /\ \A t \in Sidecars \ {s} : op'[t] = op[t] /\ verified'[t] = verified[t]
  /\ \A i \in Ids : /\ used'[i].whole
                    /\ used'[i] = used[i] \/ (Runs(s, {"write"}) /\ op[s].id = i)
                    /\ Fresh(i)' => ~Reads(s, i)' /\ verified'[s][i].prints = Unknown /\ i \notin op'[s].listed
  /\ CallInv(s)' /\ VouchInv(s)' /\ ReadInv(s)'
  /\ IsCreate(s)' => \/ IsCreate(s) /\ op'[s].id = op[s].id
                     \/ \A t \in Sidecars : IsCreate(t) => op[t].id # op'[s].id

LEMMA StepKeepsIntact ==
  ASSUME IntactInv, NEW s \in Sidecars, StepOf(s)
  PROVE  IntactInv'
<1>1. StoreTypes' /\ Artifacts /\ \A t \in Sidecars \ {s} : op'[t] = op[t] /\ verified'[t] = verified[t]
  BY DEF StepOf
<1>2. CreatorsInv'
  <2> SUFFICES ASSUME NEW t \in Sidecars, NEW u \in Sidecars, IsCreate(t)', IsCreate(u)',
                      op'[t].id = op'[u].id
               PROVE  t = u
    BY DEF CreatorsInv
  <2>1. \A x \in Sidecars \ {s} : IsCreate(x)' => IsCreate(x) /\ op'[x].id = op[x].id
    BY <1>1 DEF IsCreate
  <2> QED  BY <2>1 DEF StepOf, IntactInv, CreatorsInv
<1>3. FreshInv'
  <2> SUFFICES ASSUME NEW i \in Ids, Fresh(i)', NEW t \in Sidecars
               PROVE  ~Reads(t, i)' /\ verified'[t][i].prints = Unknown /\ i \notin op'[t].listed
    BY <1>1 DEF FreshInv, Artifacts
  <2>1. CASE t = s  BY <2>1 DEF StepOf
  <2>2. CASE t # s
    <3>1. Fresh(i)  BY <1>1 DEF Artifacts
    <3> QED  BY <1>1, <2>2, <3>1 DEF IntactInv, FreshInv, Reads, Runs
  <2> QED  BY <2>1, <2>2
<1>4. ASSUME NEW t \in Sidecars, t # s PROVE CallInv(t)' /\ VouchInv(t)' /\ ReadInv(t)'
  <2>1. VouchInv(t)' /\ ReadInv(t)'
    BY <1>1, <1>4, VouchStays, ReadStays
  <2>2. CallInv(t) /\ op'[t] = op[t]
    BY <1>1, <1>4 DEF IntactInv
  <2>3. ASSUME Runs(t, {"capture", "write", "replaceData", "replaceMeta"})
        PROVE  used'[op[t].id] = used[op[t].id]
    <3>1. IsCreate(t) /\ op[t].id \in Ids
      BY <2>2, <2>3 DEF CallInv, Creating, Runs
    <3>2. Runs(s, {"write"}) => IsCreate(s)
      BY DEF IntactInv, CallInv, Creating, Runs
    <3> QED  BY <1>4, <3>1, <3>2 DEF StepOf, IntactInv, CreatorsInv
  <2>4. CallInv(t)'
    BY <2>2, <2>3 DEF CallInv, Runs, IsCreate
  <2> QED  BY <2>1, <2>4
<1> QED  BY <1>1, <1>2, <1>3, <1>4 DEF IntactInv, StepOf

\* The fields of a call.
LEMMA CallFields ==
  ASSUME IntactInv, NEW s \in Sidecars
  PROVE  /\ op \in [Sidecars -> OpCall] /\ op[s] \in OpCall /\ CallInv(s) /\ op[s].whole = TRUE
         /\ op[s].kind \in Kinds /\ op[s].phase \in Phases /\ op[s].id \in 0 .. MaxIds
         /\ op[s].todo \subseteq Ids /\ op[s].listed \subseteq Ids /\ op[s].prints \in Prints
         /\ op[s].body \in Bodies /\ op[s].bytes \in Bodies /\ op[s].got \in 0 .. Pieces
         /\ MaxIds \in Nat /\ MaxMishaps \in Nat /\ MaxReads \in Nat /\ MaxClock \in Nat
         /\ Pieces \in Nat /\ 0 < Pieces /\ Ids = 1 .. MaxIds /\ mishaps \in Nat
         /\ \A i \in op[s].listed : ~Fresh(i)
<1>1. op \in [Sidecars -> OpCall] /\ CallInv(s) /\ FreshInv /\ mishaps \in 0 .. MaxMishaps
  BY DEF IntactInv, StoreTypes, StoreTypeOK
<1>2. op[s] \in OpCall /\ op[s].whole = TRUE
  BY <1>1 DEF CallInv, OpCall
<1>3. op[s].listed \subseteq Ids  BY <1>2 DEF OpCall
<1>4. \A i \in op[s].listed : ~Fresh(i)
  BY <1>1, <1>3 DEF FreshInv
<1> QED  BY <1>1, <1>2, <1>3, <1>4, StoreAssumption DEF OpCall, Ids

\* A call with another kind, phase and artifact.
With(c, kind, phase, id) == [c EXCEPT !.kind = kind, !.phase = phase, !.id = id]

LEMMA WithFields ==
  ASSUME NEW c \in OpCall, NEW kind \in Kinds, NEW phase \in Phases, NEW id \in 0 .. MaxIds
  PROVE  LET d == With(c, kind, phase, id)
         IN  /\ d \in OpCall /\ d.kind = kind /\ d.phase = phase /\ d.id = id
             /\ d.todo = c.todo /\ d.listed = c.listed /\ d.prints = c.prints /\ d.body = c.body
             /\ d.bytes = c.bytes /\ d.got = c.got /\ d.whole = c.whole
BY DEF OpCall, With

\* A call with another set of artifacts to go, listing and phase.
Listing(c, todo, listed, phase) == [c EXCEPT !.todo = todo, !.listed = listed, !.phase = phase]

LEMMA ListingFields ==
  ASSUME NEW c \in OpCall, NEW todo \in SUBSET Ids, NEW listed \in SUBSET Ids, NEW phase \in Phases
  PROVE  LET d == Listing(c, todo, listed, phase)
         IN  /\ d \in OpCall /\ d.kind = c.kind /\ d.phase = phase /\ d.id = c.id
             /\ d.todo = todo /\ d.listed = listed /\ d.prints = c.prints /\ d.body = c.body
             /\ d.bytes = c.bytes /\ d.got = c.got /\ d.whole = c.whole
BY DEF OpCall, Listing

LEMMA NoOpIsACall == NoOp \in OpCall
BY StoreAssumption DEF NoOp, OpCall, Kinds, Phases, Prints, Unknown, Bodies

\* What the files are: their fingerprints, and artifacts with both files are not fresh.
LEMMA FileFields ==
  ASSUME IntactInv, NEW i \in Ids
  PROVE  /\ files[i].data \in File /\ files[i].meta \in File /\ PrintsOf(i) \in Prints
         /\ files[i].data.version # 0 /\ files[i].meta.version # 0 => ~Fresh(i) /\ Recorded(PrintsOf(i))
         /\ \A s \in Sidecars : verified[s][i].body \in Bodies /\ verified[s][i].prints \in Prints
<1>1. /\ files[i].data \in File /\ files[i].meta \in File
      /\ \A s \in Sidecars : verified[s][i].body \in Bodies /\ verified[s][i].prints \in Prints
  BY DEF IntactInv, StoreTypes, StoreTypeOK
<1>2. /\ files[i].data.version \in 0 .. 1 + MaxMishaps
      /\ files[i].meta.version \in 0 .. 1 + MaxMishaps
  BY <1>1 DEF File
<1>3. PrintsOf(i) \in Prints  BY <1>2 DEF PrintsOf, Prints
<1>4. ASSUME files[i].data.version # 0, files[i].meta.version # 0
      PROVE  ~Fresh(i) /\ Recorded(PrintsOf(i))
  <2>1. ~Fresh(i)  BY <1>4 DEF IntactInv, FreshInv
  <2>2. files[i].data.version <= 1 + mishaps /\ files[i].meta.version <= 1 + mishaps
    BY DEF IntactInv, VersionsInv
  <2>3. mishaps \in Nat  BY DEF IntactInv, StoreTypes, StoreTypeOK
  <2>4. files[i].data.version \in 1 .. 1 + mishaps /\ files[i].meta.version \in 1 .. 1 + mishaps
    BY <1>2, <1>4, <2>2, <2>3
  <2> QED  BY <2>1, <2>4 DEF Recorded, PrintsOf
<1> QED  BY <1>1, <1>3, <1>4

\* The types after a step of s.
Caches == [Sidecars -> [Ids -> [prints : Prints, body : Bodies]]]

LEMMA TypesKeep ==
  ASSUME IntactInv, NEW s \in Sidecars, op'[s] \in OpCall, op' = [op EXCEPT ![s] = op'[s]],
         files' \in [Ids -> [data : File, meta : File]], temps' \subseteq Ids, verified' \in Caches,
         used' \in [Ids -> [at : -1 .. MaxClock, whole : BOOLEAN]],
         reads' \in 0 .. MaxReads, UNCHANGED clock,
         mishaps' \in {mishaps, mishaps + 1}, mishaps' <= MaxMishaps,
         served' \in [id : 0 .. MaxIds, named : Bodies, bytes : Bodies], settled' \subseteq Ids,
         skipped' \subseteq Ids
  PROVE  /\ StoreTypes' /\ mishaps <= mishaps'
         /\ \A t \in Sidecars \ {s} : op'[t] = op[t]
<1>1. /\ op \in [Sidecars -> OpCall] /\ op' \in [Sidecars -> OpCall]
      /\ \A t \in Sidecars \ {s} : op'[t] = op[t]
  BY CallFields
<1>2. mishaps <= mishaps' /\ mishaps' \in 0 .. MaxMishaps
  <2>1. mishaps \in Nat /\ MaxMishaps \in Nat  BY CallFields
  <2>2. \A m, n, k \in Nat : m \in {n, n + 1} /\ m <= k => n <= m /\ m \in 0 .. k  OBVIOUS
  <2>3. mishaps' \in Nat  BY <2>1
  <2> QED  BY <2>1, <2>2, <2>3
<1>3. \A t \in Sidecars : op'[t] \in OpCall  BY <1>1
<1>4. \A t \in Sidecars : /\ op'[t].kind \in Kinds /\ op'[t].phase \in Phases /\ op'[t].id \in 0 .. MaxIds
                          /\ op'[t].todo \subseteq Ids /\ op'[t].listed \subseteq Ids
                          /\ op'[t].prints \in Prints /\ {op'[t].body, op'[t].bytes} \subseteq Bodies
                          /\ op'[t].got \in 0 .. Pieces /\ op'[t].whole \in BOOLEAN
  BY <1>3 DEF OpCall
<1>5. clock' \in 0 .. MaxClock  BY DEF IntactInv, StoreTypes, StoreTypeOK
<1> QED  BY <1>1, <1>2, <1>4, <1>5 DEF StoreTypes, StoreTypeOK, Caches

\* What becomes of the call at a step that creates no file and dates no artifact.
OpMoves(s) ==
  /\ op'[s] \in OpCall /\ op' = [op EXCEPT ![s] = op'[s]]
  /\ op'[s].phase \notin {"replaceData", "replaceMeta"}
  /\ op'[s].phase \in Reading => ~Fresh(op'[s].id)
  /\ \A i \in op'[s].listed : ~Fresh(i)
  /\ CallInv(s)' /\ ReadInv(s)'
  /\ IsCreate(s)' => \/ IsCreate(s) /\ op'[s].id = op[s].id
                     \/ \A t \in Sidecars : IsCreate(t) => op[t].id # op'[s].id

\* What a step leaves alone that moves a call only.
Rests ==
  /\ UNCHANGED <<files, verified, used, served, settled, clock>>
  /\ temps' \subseteq Ids /\ reads' \in 0 .. MaxReads
  /\ mishaps' \in {mishaps, mishaps + 1} /\ mishaps' <= MaxMishaps
  /\ skipped \subseteq skipped' /\ skipped' \subseteq Ids

\* A step of s that creates no file and dates no artifact.
LooseStep(s) ==
  /\ OpMoves(s)
  /\ files' \in [Ids -> [data : File, meta : File]]
  /\ \A i \in Ids : files'[i].data \in {files[i].data, Absent} /\ files'[i].meta \in {files[i].meta, Absent}
  /\ verified' \in Caches /\ \A t \in Sidecars \ {s} : verified'[t] = verified[t]
  /\ \A i \in Ids : \/ verified'[s][i] = verified[s][i] \/ verified'[s][i].prints = Unknown
                    \/ /\ files' = files /\ mishaps' = mishaps
                       /\ ~Fresh(i) /\ Recorded(verified'[s][i].prints)
                       /\ verified'[s][i].prints = PrintsOf(i) => verified'[s][i].body = files[i].data.body
  /\ UNCHANGED <<used, clock>> /\ temps' \subseteq Ids /\ reads' \in 0 .. MaxReads
  /\ mishaps' \in {mishaps, mishaps + 1} /\ mishaps' <= MaxMishaps
  /\ served' \in [id : 0 .. MaxIds, named : Bodies, bytes : Bodies] /\ ServedIsIntact'
  /\ settled' \subseteq settled \cup op[s].listed
  /\ skipped \subseteq skipped' /\ skipped' \subseteq Ids

LEMMA LooseStepKeeps ==
  ASSUME IntactInv, NEW s \in Sidecars, LooseStep(s)
  PROVE  StepOf(s)
<1>1. /\ StoreTypes' /\ mishaps <= mishaps' /\ \A t \in Sidecars \ {s} : op'[t] = op[t]
      /\ settled' \subseteq settled \cup op[s].listed /\ skipped \subseteq skipped'
  <2>1. settled \subseteq Ids /\ op[s].listed \subseteq Ids
        /\ used \in [Ids -> [at : -1 .. MaxClock, whole : BOOLEAN]]
    BY CallFields DEF IntactInv, StoreTypes, StoreTypeOK
  <2> QED  BY <2>1, TypesKeep DEF LooseStep, OpMoves
<1>2. VersionsInv'
  <2> SUFFICES ASSUME NEW i \in Ids, NEW f \in {files[i].data, files[i].meta, Absent}
               PROVE  f.version <= 1 + mishaps' /\ (f.version \in {0, 1} => f.body = "original")
    BY DEF VersionsInv, LooseStep, OpMoves
  <2>1. mishaps \in Nat /\ mishaps' \in Nat
    BY <1>1 DEF IntactInv, StoreTypes, StoreTypeOK
  <2>2. CASE f = Absent
    <3>1. \A m \in Nat : 0 <= 1 + m  OBVIOUS
    <3> QED  BY <2>1, <2>2, <3>1 DEF Absent
  <2>3. CASE f \in {files[i].data, files[i].meta}
    <3>1. f.version <= 1 + mishaps /\ (f.version \in {0, 1} => f.body = "original")
      BY <2>3 DEF IntactInv, VersionsInv
    <3>2. f.version \in Int  BY <2>3, FileFields DEF File
    <3>3. \A m, n, v \in Int : v <= 1 + m /\ m <= n => v <= 1 + n  OBVIOUS
    <3> QED  BY <1>1, <2>1, <3>1, <3>2, <3>3
  <2> QED  BY <2>2, <2>3
<1>3. \A i \in Ids : Fresh(i)' => Fresh(i)
  <2> SUFFICES ASSUME NEW i \in Ids, NEW t \in Sidecars,
                      Runs(t, {"replaceData", "replaceMeta"})', op'[t].id = i
               PROVE  Fresh(i)
    BY DEF Fresh, LooseStep, OpMoves
  <2>1. t # s  BY DEF LooseStep, OpMoves, Runs
  <2> QED  BY <1>1, <2>1 DEF Fresh, Runs
<1>4. Artifacts
  <2> SUFFICES ASSUME NEW i \in Ids
               PROVE  Fades(i) /\ (Fresh(i)' => Fresh(i) /\ files'[i].meta.version = 0 /\ i \notin settled')
    BY <1>1 DEF Artifacts
  <2>1. Fades(i)  BY DEF LooseStep, Fades, Absent
  <2>2. ASSUME Fresh(i)' PROVE files'[i].meta.version = 0 /\ i \notin settled'
    <3>1. Fresh(i)  BY <1>3, <2>2
    <3>2. files[i].meta.version = 0 /\ i \notin settled  BY <3>1 DEF IntactInv, FreshInv
    <3>3. i \notin op[s].listed  BY <3>1, CallFields
    <3> QED  BY <1>1, <3>2, <3>3 DEF LooseStep, Absent
  <2> QED  BY <1>3, <2>1, <2>2
<1>5. VouchInv(s)'
  <2> SUFFICES ASSUME NEW i \in Ids, verified'[s][i].prints # Unknown
               PROVE  /\ Recorded(verified[s][i].prints)'
                      /\ Vouched(s, i)' => verified'[s][i].body = files'[i].data.body
    BY DEF VouchInv
  <2>1. CASE files' = files /\ mishaps' = mishaps /\ Recorded(verified'[s][i].prints)
             /\ (verified'[s][i].prints = PrintsOf(i) => verified'[s][i].body = files[i].data.body)
    BY <2>1 DEF Recorded, Vouched, PrintsOf
  <2>2. CASE verified'[s][i] = verified[s][i]
    BY <1>1, <1>4, <2>2, VouchKept
  <2> QED  BY <2>1, <2>2 DEF LooseStep, OpMoves
<1>6. ASSUME NEW i \in Ids, Fresh(i)'
      PROVE  ~Reads(s, i)' /\ verified'[s][i].prints = Unknown /\ i \notin op'[s].listed
  <2>1. Fresh(i)  BY <1>3, <1>6
  <2>2. verified[s][i].prints = Unknown  BY <2>1 DEF IntactInv, FreshInv
  <2> QED  BY <2>1, <2>2 DEF LooseStep, OpMoves, Reads, Runs
<1> QED
  BY <1>1, <1>2, <1>4, <1>5, <1>6 DEF StepOf, LooseStep, OpMoves, IntactInv

\* A step of s that moves its call only.
QuietStep(s) == OpMoves(s) /\ Rests

LEMMA QuietStepKeeps ==
  ASSUME IntactInv, NEW s \in Sidecars, QuietStep(s)
  PROVE  StepOf(s)
<1>1. /\ files \in [Ids -> [data : File, meta : File]] /\ verified \in Caches
      /\ served \in [id : 0 .. MaxIds, named : Bodies, bytes : Bodies]
  BY DEF IntactInv, StoreTypes, StoreTypeOK, Caches
<1>2. ServedIsIntact'  BY DEF QuietStep, OpMoves, Rests, IntactInv, ServedIsIntact
<1>3. LooseStep(s)  BY <1>1, <1>2 DEF QuietStep, OpMoves, Rests, LooseStep
<1> QED  BY <1>3, LooseStepKeeps

\* A call that ends, with whatever it leaves behind.
LEMMA EndsMoves ==
  ASSUME IntactInv, NEW s \in Sidecars, Ends(s)
  PROVE  OpMoves(s) /\ op'[s] = NoOp
<1>1. op'[s] = NoOp /\ op' = [op EXCEPT ![s] = op'[s]]
  BY CallFields DEF Ends
<1>2. /\ op'[s].phase = "idle" /\ op'[s].kind = "list" /\ op'[s].listed = {} /\ op'[s].whole = TRUE
      /\ op'[s].got = 0 /\ 0 < Pieces
  BY <1>1, StoreAssumption DEF NoOp
<1> QED
  BY <1>1, <1>2, NoOpIsACall DEF OpMoves, CallInv, ReadInv, Runs, IsCreate, Creating, Reading

\* A call that only goes to another phase.
LEMMA GoesFields ==
  ASSUME IntactInv, NEW s \in Sidecars, NEW phase \in Phases, Goes(s, phase)
  PROVE  /\ op'[s] \in OpCall /\ op' = [op EXCEPT ![s] = op'[s]] /\ op'[s].phase = phase
         /\ op'[s].kind = op[s].kind /\ op'[s].id = op[s].id /\ op'[s].whole = op[s].whole
         /\ op'[s].todo = op[s].todo /\ op'[s].listed = op[s].listed
         /\ op'[s].prints = op[s].prints /\ op'[s].body = op[s].body /\ op'[s].bytes = op[s].bytes
         /\ op'[s].got = op[s].got
<1>1. op'[s] = [op[s] EXCEPT !.phase = phase] /\ op' = [op EXCEPT ![s] = op'[s]]
  BY CallFields DEF Goes
<1>2. op[s] \in OpCall  BY CallFields
<1> QED  BY <1>1, <1>2 DEF OpCall

\* A call begins: a new artifact, or one of the other calls.
LEMMA BeginIsQuiet ==
  ASSUME IntactInv, NEW s \in Sidecars, Begin(s)
  PROVE  QuietStep(s)
<1>1. /\ op[s] = NoOp /\ op \in [Sidecars -> OpCall] /\ Ids = 1 .. MaxIds /\ MaxIds \in Nat
      /\ 0 < Pieces /\ MaxReads \in Nat
      /\ UNCHANGED <<files, temps, verified, used, clock, mishaps, served, settled, skipped>>
  <2>1. Runs(s, {"idle"}) /\ UNCHANGED <<files, temps, verified, used, clock, mishaps, served, settled, skipped>>
    BY DEF Begin
  <2>2. CallInv(s)  BY DEF IntactInv
  <2>3. op[s] = NoOp  BY <2>1, <2>2 DEF CallInv
  <2> QED  BY <2>1, <2>3, CallFields
<1>2. /\ temps' \subseteq Ids /\ mishaps' \in {mishaps, mishaps + 1} /\ mishaps' <= MaxMishaps
      /\ skipped \subseteq skipped' /\ skipped' \subseteq Ids
  BY <1>1 DEF IntactInv, StoreTypes, StoreTypeOK
<1>3. ASSUME NEW i \in Ids, NEW kind \in {"dump", "archive"}, used[i].at = -1,
             \A t \in Sidecars : op[t].id # i \/ ~IsCreate(t),
             op' = [op EXCEPT ![s] = [NoOp EXCEPT !.kind = kind, !.phase = "capture", !.id = i]],
             UNCHANGED reads
      PROVE  QuietStep(s)
  <2>1. op'[s] = With(NoOp, kind, "capture", i) /\ op' = [op EXCEPT ![s] = op'[s]]
    BY <1>1, <1>3 DEF With
  <2>2. /\ op'[s] \in OpCall /\ op'[s].kind = kind /\ op'[s].phase = "capture" /\ op'[s].id = i
        /\ op'[s].whole = TRUE /\ op'[s].listed = {} /\ op'[s].got = 0
    <3>1. kind \in Kinds /\ "capture" \in Phases /\ i \in 0 .. MaxIds
      BY <1>1 DEF Kinds, Phases
    <3>2. NoOp.whole = TRUE /\ NoOp.listed = {} /\ NoOp.got = 0  BY DEF NoOp
    <3> QED  BY <2>1, <3>1, <3>2, NoOpIsACall, WithFields
  <2>3. CallInv(s)'
    BY <1>1, <1>3, <2>2 DEF CallInv, Runs, IsCreate, Creating, Reading
  <2>4. ReadInv(s)'  BY <2>2 DEF ReadInv, Runs, Reading
  <2> QED
    BY <1>1, <1>2, <1>3, <2>1, <2>2, <2>3, <2>4
       DEF QuietStep, OpMoves, Rests, Reading, IsCreate, IntactInv, StoreTypes, StoreTypeOK
<1>4. ASSUME NEW c \in OpCall, op' = [op EXCEPT ![s] = c], c.whole = TRUE, c.listed = {}, c.got = 0,
             reads < MaxReads, reads' = reads + 1,
             \/ c.kind = "list" /\ c.phase = "prune"
             \/ c.kind = "delete" /\ c.phase = "unlinkData" /\ c.id \in Ids
             \/ c.kind \in {"metadata", "preview"} /\ c.phase = "open" /\ c.id \in Ids
      PROVE  QuietStep(s)
  <2>1. op'[s] = c /\ op' = [op EXCEPT ![s] = op'[s]]
    BY <1>1, <1>4
  <2>2. CallInv(s)'
    BY <1>1, <1>4, <2>1 DEF CallInv, Runs, IsCreate, Creating, Reading
  <2>3. ReadInv(s)'  BY <1>4, <2>1 DEF ReadInv, Runs, Reading
  <2>4. reads' \in 0 .. MaxReads
    BY <1>1, <1>4 DEF IntactInv, StoreTypes, StoreTypeOK
  <2> QED
    BY <1>1, <1>2, <1>4, <2>1, <2>2, <2>3, <2>4 DEF QuietStep, OpMoves, Rests, Reading, IsCreate
<1>5. CASE \E i \in Ids, kind \in {"dump", "archive"} \cap CallsOf[s] :
             /\ used[i].at = -1 /\ \A t \in Sidecars : op[t].id # i \/ ~IsCreate(t)
             /\ op' = [op EXCEPT ![s] = [NoOp EXCEPT !.kind = kind, !.phase = "capture", !.id = i]]
             /\ UNCHANGED reads
  BY <1>3, <1>5
<1>6. CASE /\ reads < MaxReads /\ reads' = reads + 1
           /\ op' = [op EXCEPT ![s].phase = "prune"]
  <2> DEFINE c == [NoOp EXCEPT !.phase = "prune"]
  <2>1. op' = [op EXCEPT ![s] = c]  BY <1>1, <1>6
  <2>2. c \in OpCall /\ c.kind = "list" /\ c.phase = "prune" /\ c.whole = TRUE /\ c.listed = {} /\ c.got = 0
    BY NoOpIsACall DEF OpCall, NoOp, Phases
  <2> QED  BY <1>4, <1>6, <2>1, <2>2
<1>7. CASE /\ reads < MaxReads /\ reads' = reads + 1
           /\ \E i \in Ids, kind \in {"metadata", "preview", "delete"} \cap CallsOf[s] :
                op' = [op EXCEPT ![s].kind = kind, ![s].id = i,
                         ![s].phase = IF kind = "delete" THEN "unlinkData" ELSE "open"]
  <2>1. PICK i \in Ids, kind \in {"metadata", "preview", "delete"} :
          op' = [op EXCEPT ![s].kind = kind, ![s].id = i,
                   ![s].phase = IF kind = "delete" THEN "unlinkData" ELSE "open"]
    BY <1>7
  <2> DEFINE c == With(NoOp, kind, IF kind = "delete" THEN "unlinkData" ELSE "open", i)
  <2>2. op' = [op EXCEPT ![s] = c]  BY <1>1, <2>1 DEF With
  <2>3. /\ c \in OpCall /\ c.whole = TRUE /\ c.listed = {} /\ c.got = 0 /\ c.id = i /\ c.kind = kind
        /\ c.phase = IF kind = "delete" THEN "unlinkData" ELSE "open"
    <3>1. kind \in Kinds /\ {"unlinkData", "open"} \subseteq Phases /\ i \in 0 .. MaxIds
      BY <1>1 DEF Kinds, Phases
    <3>2. (IF kind = "delete" THEN "unlinkData" ELSE "open") \in Phases  BY <3>1
    <3>3. NoOp.whole = TRUE /\ NoOp.listed = {} /\ NoOp.got = 0  BY DEF NoOp
    <3> QED  BY <3>1, <3>2, <3>3, NoOpIsACall, WithFields
  <2> HIDE DEF c
  <2> QED  BY <1>4, <1>7, <2>2, <2>3
<1> QED  BY <1>5, <1>6, <1>7 DEF Begin

\* A chunk is captured where the one before ends, or the capture is given up.
LEMMA CaptureIsQuiet ==
  ASSUME IntactInv, NEW s \in Sidecars, Capture(s)
  PROVE  QuietStep(s)
<1>1. /\ op[s].phase = "capture" /\ UNCHANGED <<files, temps, verified, used, clock, reads, mishaps, served, settled, skipped>>
      /\ IsCreate(s) /\ op[s].id \in Ids /\ used[op[s].id].at = -1 /\ op[s].got < Pieces
  BY CallFields DEF Capture, CallInv, Runs, Creating
<1>2. /\ temps' \subseteq Ids /\ mishaps' \in {mishaps, mishaps + 1} /\ mishaps' <= MaxMishaps
      /\ reads' \in 0 .. MaxReads /\ skipped \subseteq skipped' /\ skipped' \subseteq Ids
  BY <1>1 DEF IntactInv, StoreTypes, StoreTypeOK
<1>3. CASE Ends(s)
  BY <1>1, <1>2, <1>3, EndsMoves DEF QuietStep, OpMoves, Rests
<1>4. ASSUME NEW at \in 0 .. Pieces, NEW last \in BOOLEAN, Accepted(s, at),
             IF op[s].got + 1 = Pieces THEN last ELSE last => op[s].kind = "archive",
             op' = [op EXCEPT ![s].got = IF last THEN 0 ELSE @ + 1,
                              ![s].whole = @ /\ at = op[s].got,
                              ![s].kind = IF last THEN "dump" ELSE @,
                              ![s].phase = IF last THEN "write" ELSE @]
      PROVE  QuietStep(s)
  <2> DEFINE got == IF last THEN 0 ELSE op[s].got + 1
             kind == IF last THEN "dump" ELSE op[s].kind
             phase == IF last THEN "write" ELSE op[s].phase
             c == [op[s] EXCEPT !.got = got, !.whole = TRUE, !.kind = kind, !.phase = phase]
  <2>1. (op[s].whole /\ at = op[s].got) = TRUE
    BY <1>4, CallFields DEF Accepted
  <2>2. op' = [op EXCEPT ![s] = c]
    BY <1>4, <2>1, CallFields
  <2>3. op[s].got \in 0 .. Pieces /\ Pieces \in Nat /\ 0 < Pieces
    BY CallFields
  <2>4. got \in 0 .. Pieces /\ got < Pieces
    BY <1>1, <1>4, <2>3
  <2>5. /\ c \in OpCall /\ c.whole = TRUE /\ c.got < Pieces /\ c.id = op[s].id /\ c.listed = op[s].listed
        /\ c.kind \in {"dump", op[s].kind} /\ c.phase \in {"capture", "write"}
    <3>1. kind \in Kinds /\ phase \in Phases
      BY CallFields DEF Kinds, Phases
    <3>2. op[s] \in OpCall  BY CallFields
    <3>3. kind \in {"dump", op[s].kind} /\ phase \in {"capture", "write"}  BY <1>1
    <3> HIDE DEF got, kind, phase
    <3>4. /\ c \in OpCall /\ c.whole = TRUE /\ c.got = got /\ c.id = op[s].id
          /\ c.listed = op[s].listed /\ c.kind = kind /\ c.phase = phase
      BY <2>4, <3>1, <3>2 DEF OpCall
    <3> QED  BY <2>4, <3>3, <3>4
  <2>6. op'[s] = c /\ op' = [op EXCEPT ![s] = op'[s]]
    BY <2>2, CallFields
  <2> HIDE DEF c, got, kind, phase
  <2>7. IsCreate(s)'  BY <1>1, <2>5, <2>6 DEF IsCreate
  <2>8. CallInv(s)'
    BY <1>1, <2>5, <2>6, <2>7 DEF CallInv, Runs, Creating, Reading
  <2>9. ReadInv(s)'  BY <2>5, <2>6 DEF ReadInv, Runs, Reading
  <2>10. \A i \in op'[s].listed : ~Fresh(i)
    BY <2>5, <2>6, CallFields
  <2> QED
    BY <1>1, <1>2, <2>5, <2>6, <2>7, <2>8, <2>9, <2>10 DEF QuietStep, OpMoves, Rests, Reading
<1> QED  BY <1>3, <1>4 DEF Capture

LEMMA UnchangedRests ==
  ASSUME IntactInv, UNCHANGED <<files, temps, verified, used, clock, reads, mishaps, served, settled, skipped>>
  PROVE  Rests
BY DEF Rests, IntactInv, StoreTypes, StoreTypeOK

LEMMA EndsQuietly ==
  ASSUME IntactInv, NEW s \in Sidecars, Rests, Ends(s)
  PROVE  QuietStep(s)
BY EndsMoves DEF QuietStep

\* A call that goes on with a phase that reads nothing.
LEMMA GoesMoves ==
  ASSUME IntactInv, NEW s \in Sidecars, NEW phase \in Phases, Goes(s, phase),
         phase \notin {"idle", "capture", "write", "replaceData", "replaceMeta"} \cup Reading,
         phase \in {"cleanTemps", "cleanData", "cleanMeta"} => IsCreate(s),
         phase \in {"open", "next"} => ~IsCreate(s),
         phase = "open" => op[s].id \in Ids
  PROVE  OpMoves(s)
<1>1. /\ op'[s] \in OpCall /\ op' = [op EXCEPT ![s] = op'[s]] /\ op'[s].phase = phase
      /\ op'[s].kind = op[s].kind /\ op'[s].id = op[s].id /\ op'[s].whole = op[s].whole
      /\ op'[s].listed = op[s].listed /\ op'[s].got = op[s].got
  BY GoesFields
<1>2. CallInv(s) /\ op[s].whole = TRUE /\ \A i \in op[s].listed : ~Fresh(i)
  BY CallFields
<1>3. CallInv(s)'
  BY <1>1, <1>2 DEF CallInv, Runs, IsCreate, Creating, Reading
<1>4. ReadInv(s)'  BY <1>1 DEF ReadInv, Runs
<1> QED  BY <1>1, <1>2, <1>3, <1>4 DEF OpMoves, IsCreate

LEMMA RefusesMoves ==
  ASSUME IntactInv, NEW s \in Sidecars, Refuses(s)
  PROVE  OpMoves(s)
<1>1. CASE op[s].kind = "list" /\ Goes(s, "next")
  BY <1>1, GoesMoves DEF IsCreate, Phases, Reading
<1> QED  BY <1>1, EndsMoves DEF Refuses

LEMMA RefusesQuietly ==
  ASSUME IntactInv, NEW s \in Sidecars, Rests, Refuses(s)
  PROVE  QuietStep(s)
BY RefusesMoves DEF QuietStep

\* Artifacts that are listed are there.
LEMMA OwnedAreThere == IntactInv => \A i \in Owned : i \in Ids /\ ~Fresh(i)
BY DEF IntactInv, FreshInv, Owned

\* The call of s becomes a prune of what its listing has seen: all but `missed'.
Lists(s, missed) ==
  /\ skipped' = skipped \cup missed
  /\ op'[s].todo = Removals(Owned \ missed) /\ op'[s].listed = Owned \ missed
  /\ op'[s].phase = "unlinkData" /\ op'[s].kind = op[s].kind

LEMMA PruneIsQuiet ==
  ASSUME IntactInv, NEW s \in Sidecars, Prune(s)
  PROVE  QuietStep(s) /\ \E missed \in SUBSET Owned : Lists(s, missed)
<1>1. PICK missed \in SUBSET Owned :
        /\ skipped' = skipped \cup missed
        /\ \/ missed = {} /\ UNCHANGED mishaps
           \/ missed # {} /\ mishaps < MaxMishaps /\ mishaps' = mishaps + 1
        /\ op' = [op EXCEPT ![s].todo = Removals(Owned \ missed), ![s].listed = Owned \ missed,
                            ![s].phase = "unlinkData"]
  BY DEF Prune
<1> DEFINE seen == Owned \ missed
<1>2. Removals(seen) \subseteq Ids /\ seen \subseteq Ids /\ missed \subseteq Ids
  BY DEF Removals, Expired, Owned
<1>3. Rests
  <2>1. skipped \subseteq skipped' /\ skipped' \subseteq Ids
    BY <1>1, <1>2 DEF IntactInv, StoreTypes, StoreTypeOK
  <2>2. mishaps' \in {mishaps, mishaps + 1} /\ mishaps' <= MaxMishaps
    <3>1. mishaps \in Nat /\ MaxMishaps \in Nat /\ mishaps \in 0 .. MaxMishaps
      BY CallFields DEF IntactInv, StoreTypes, StoreTypeOK
    <3>2. \A m, n \in Nat : m < n => m + 1 <= n  OBVIOUS
    <3> QED  BY <1>1, <3>1, <3>2
  <2>3. UNCHANGED <<files, temps, verified, used, clock, reads, served, settled>>
    BY DEF Prune
  <2> QED  BY <2>1, <2>2, <2>3 DEF Rests, IntactInv, StoreTypes, StoreTypeOK
<1>4. op[s] \in OpCall /\ op[s].phase = "prune" /\ "unlinkData" \in Phases
  BY CallFields DEF Prune, Runs, Phases
<1>5. op'[s] = Listing(op[s], Removals(seen), seen, "unlinkData") /\ op' = [op EXCEPT ![s] = op'[s]]
  BY <1>1, CallFields DEF Listing
<1> HIDE DEF seen
<1>6. /\ op'[s] \in OpCall /\ op'[s].phase = "unlinkData" /\ op'[s].listed = seen
      /\ op'[s].todo = Removals(seen) /\ op'[s].kind = op[s].kind /\ op'[s].id = op[s].id
      /\ op'[s].whole = op[s].whole /\ op'[s].got = op[s].got
  BY <1>2, <1>4, <1>5, ListingFields
<1>7. CallInv(s)'
  BY <1>4, <1>6, CallFields DEF CallInv, Runs, IsCreate, Creating, Reading
<1>8. ReadInv(s)'  BY <1>6 DEF ReadInv, Runs, Reading
<1>9. \A i \in seen : ~Fresh(i)  BY OwnedAreThere DEF seen
<1>10. QuietStep(s)
  BY <1>3, <1>5, <1>6, <1>7, <1>8, <1>9 DEF QuietStep, OpMoves, IsCreate, Reading
<1>11. Lists(s, missed)  BY <1>1, <1>6 DEF Lists, seen
<1> QED  BY <1>10, <1>11

LEMMA FailsIsQuiet ==
  ASSUME IntactInv, NEW s \in Sidecars, Fails(s)
  PROVE  QuietStep(s)
<1>1. Rests
  <2>1. mishaps \in Nat /\ MaxMishaps \in Nat /\ mishaps < MaxMishaps /\ mishaps' = mishaps + 1
    BY CallFields DEF Fails
  <2>2. mishaps' <= MaxMishaps
    <3>1. \A m, n \in Nat : m < n => m + 1 <= n  OBVIOUS
    <3> QED  BY <2>1, <3>1
  <2> QED  BY <2>1, <2>2 DEF Fails, Rests, IntactInv, StoreTypes, StoreTypeOK
<1>2. CASE Ends(s)  BY <1>1, <1>2, EndsQuietly
<1>3. CASE op[s].kind = "list" /\ Goes(s, "next")
  BY <1>1, <1>3, RefusesQuietly DEF Refuses
<1>4. CASE IsCreate(s) /\ op' = [op EXCEPT ![s].phase = "cleanTemps", ![s].todo = {}]
  <2>1. /\ op'[s] = [op[s] EXCEPT !.phase = "cleanTemps", !.todo = {}]
        /\ op' = [op EXCEPT ![s] = op'[s]] /\ op[s] \in OpCall
    BY <1>4, CallFields
  <2>2. "cleanTemps" \in Phases  BY DEF Phases
  <2>3. /\ op'[s] \in OpCall /\ op'[s].phase = "cleanTemps" /\ op'[s].listed = op[s].listed
        /\ op'[s].kind = op[s].kind /\ op'[s].id = op[s].id /\ op'[s].whole = op[s].whole
        /\ op'[s].got = op[s].got
    BY <2>1, <2>2 DEF OpCall
  <2>4. CallInv(s)'
    BY <1>4, <2>3, CallFields DEF CallInv, Runs, IsCreate, Creating, Reading
  <2>5. ReadInv(s)'  BY <2>3 DEF ReadInv, Runs, Reading
  <2> QED
    BY <1>1, <1>4, <2>1, <2>3, <2>4, <2>5, CallFields DEF QuietStep, OpMoves, Rests, IsCreate, Reading
<1> QED  BY <1>2, <1>3, <1>4 DEF Fails

LEMMA ListNextIsQuiet ==
  ASSUME IntactInv, NEW s \in Sidecars, ListNext(s)
  PROVE  QuietStep(s)
<1>1. Rests /\ op[s].phase = "next" /\ op[s] \in OpCall /\ ~IsCreate(s)
  BY CallFields, UnchangedRests DEF ListNext, Runs, CallInv
<1>2. CASE Ends(s)  BY <1>1, <1>2, EndsQuietly
<1>3. ASSUME NEW i \in op[s].todo,
             op' = [op EXCEPT ![s].id = i, ![s].todo = @ \ {i}, ![s].phase = "open"]
      PROVE  QuietStep(s)
  <2>1. /\ op'[s] = [op[s] EXCEPT !.id = i, !.todo = op[s].todo \ {i}, !.phase = "open"]
        /\ op' = [op EXCEPT ![s] = op'[s]]
    BY <1>3, CallFields
  <2>2. "open" \in Phases /\ i \in Ids /\ i \in 0 .. MaxIds
    <3>1. "open" \in Phases  BY DEF Phases
    <3>2. i \in Ids  BY CallFields
    <3>3. Ids = 1 .. MaxIds /\ MaxIds \in Nat  BY CallFields
    <3> QED  BY <3>1, <3>2, <3>3
  <2>3. /\ op'[s] \in OpCall /\ op'[s].phase = "open" /\ op'[s].listed = op[s].listed
        /\ op'[s].kind = op[s].kind /\ op'[s].id = i /\ op'[s].whole = op[s].whole
        /\ op'[s].got = op[s].got
    BY <1>1, <2>1, <2>2 DEF OpCall
  <2>4. CallInv(s)'
    BY <1>1, <2>2, <2>3, CallFields DEF CallInv, Runs, IsCreate, Creating, Reading
  <2>5. ReadInv(s)'  BY <2>3 DEF ReadInv, Runs, Reading
  <2> QED
    BY <1>1, <2>1, <2>3, <2>4, <2>5, CallFields DEF QuietStep, OpMoves, Rests, IsCreate, Reading
<1> QED  BY <1>2, <1>3 DEF ListNext

\* A step within the verification of an artifact or the read that follows it.
LEMMA NotesQuietly ==
  ASSUME IntactInv, NEW s \in Sidecars, Rests, Runs(s, Reading \cup {"open"}),
         NEW c \in OpCall, op' = [op EXCEPT ![s] = c],
         c.kind = op[s].kind, c.id = op[s].id, c.whole = op[s].whole, c.got = op[s].got,
         c.listed = op[s].listed, c.phase \in Reading, ~Fresh(op[s].id), Recorded(c.prints),
         PrintsOf(op[s].id) = c.prints =>
           /\ c.phase # "hash" => c.body = files[op[s].id].data.body
           /\ c.phase = "recheckRead" => c.bytes = files[op[s].id].data.body
  PROVE  QuietStep(s)
<1>1. op'[s] = c /\ op' = [op EXCEPT ![s] = op'[s]] /\ files' = files
  BY CallFields DEF Rests
<1>2. mishaps \in Nat /\ mishaps' \in {mishaps, mishaps + 1}
  BY CallFields DEF Rests
<1>3. Recorded(c.prints)'
  <2>1. \A m, n \in Nat : m \in {n, n + 1} => 1 .. 1 + n \subseteq 1 .. 1 + m  OBVIOUS
  <2>2. mishaps' \in Nat  BY <1>2
  <2>3. 1 .. 1 + mishaps \subseteq 1 .. 1 + mishaps'  BY <1>2, <2>1, <2>2
  <2> QED  BY <2>3 DEF Recorded
<1>4. ReadInv(s)'
  BY <1>1, <1>3 DEF ReadInv, Runs, StillThere, PrintsOf
<1>5. ~IsCreate(s) /\ op[s].id \in Ids
  BY CallFields DEF CallInv, Runs
<1>6. CallInv(s)'
  BY <1>1, <1>5, CallFields DEF CallInv, Runs, IsCreate, Creating, Reading
<1> QED
  BY <1>1, <1>4, <1>5, <1>6, CallFields DEF QuietStep, OpMoves, Rests, IsCreate, Reading

\* A call that notes fingerprints and a hash.
Noting(c, prints, body, phase) == [c EXCEPT !.prints = prints, !.body = body, !.phase = phase]

LEMMA NotingFields ==
  ASSUME NEW c \in OpCall, NEW prints \in Prints, NEW body \in Bodies, NEW phase \in Phases
  PROVE  LET d == Noting(c, prints, body, phase)
         IN  /\ d \in OpCall /\ d.kind = c.kind /\ d.phase = phase /\ d.id = c.id
             /\ d.todo = c.todo /\ d.listed = c.listed /\ d.prints = prints /\ d.body = body
             /\ d.bytes = c.bytes /\ d.got = c.got /\ d.whole = c.whole
BY DEF OpCall, Noting

LEMMA OpenIsQuiet ==
  ASSUME IntactInv, NEW s \in Sidecars, Open(s)
  PROVE  QuietStep(s)
<1> DEFINE i == op[s].id
<1>1. Rests /\ Runs(s, Reading \cup {"open"}) /\ op[s] \in OpCall /\ i \in Ids
  BY CallFields, UnchangedRests DEF Open, Runs, CallInv
<1>2. CASE Refuses(s)  BY <1>1, <1>2, RefusesQuietly
<1>3. ASSUME files[i].meta.version # 0, files[i].data.version # 0,
             op' = [op EXCEPT ![s].prints = PrintsOf(i), ![s].body = verified[s][i].body,
                              ![s].phase = IF Vouched(s, i) THEN "recheck" ELSE "hash"]
      PROVE  QuietStep(s)
  <2> DEFINE phase == IF Vouched(s, i) THEN "recheck" ELSE "hash"
             c == Noting(op[s], PrintsOf(i), verified[s][i].body, phase)
  <2>1. op' = [op EXCEPT ![s] = c]
    BY <1>3, CallFields DEF Noting
  <2>2. /\ c \in OpCall /\ c.kind = op[s].kind /\ c.id = i /\ c.whole = op[s].whole /\ c.got = op[s].got
        /\ c.listed = op[s].listed /\ c.phase = phase /\ c.prints = PrintsOf(i) /\ c.body = verified[s][i].body
    <3>1. phase \in Phases  BY DEF Phases
    <3>2. PrintsOf(i) \in Prints /\ verified[s][i].body \in Bodies  BY <1>1, FileFields
    <3> HIDE DEF phase
    <3> QED  BY <1>1, <3>1, <3>2, NotingFields
  <2>3. phase \in Reading /\ phase # "recheckRead"  BY DEF Reading
  <2>4. ~Fresh(i) /\ Recorded(PrintsOf(i))  BY <1>1, <1>3, FileFields
  <2>5. ASSUME phase # "hash" PROVE verified[s][i].body = files[i].data.body
    <3>1. Vouched(s, i)  BY <2>5
    <3>2. verified[s][i].prints # Unknown
      BY <1>3, <3>1 DEF Vouched, PrintsOf, Unknown
    <3> QED  BY <1>1, <3>1, <3>2 DEF IntactInv, VouchInv
  <2> HIDE DEF c, phase
  <2> QED  BY <1>1, <2>1, <2>2, <2>3, <2>4, <2>5, NotesQuietly
<1> QED  BY <1>2, <1>3 DEF Open

\* What a call that reads an artifact has: an artifact that is not fresh.
LEMMA ReadingFields ==
  ASSUME IntactInv, NEW s \in Sidecars, Runs(s, Reading)
  PROVE  op[s].id \in Ids /\ ~Fresh(op[s].id) /\ ReadInv(s) /\ Recorded(op[s].prints)
<1>1. op[s].id \in Ids  BY CallFields DEF CallInv, Runs
<1>2. FreshInv /\ ReadInv(s)  BY DEF IntactInv
<1>3. Reads(s, op[s].id)  BY DEF Reads
<1> QED  BY <1>1, <1>2, <1>3 DEF FreshInv, ReadInv

LEMMA HashIsQuiet ==
  ASSUME IntactInv, NEW s \in Sidecars, Hash(s)
  PROVE  QuietStep(s)
<1> DEFINE i == op[s].id
<1>1. Rests /\ Runs(s, Reading) /\ Runs(s, Reading \cup {"open"}) /\ op[s] \in OpCall
  BY CallFields, UnchangedRests DEF Hash, Runs, Reading
<1>2. CASE Refuses(s)  BY <1>1, <1>2, RefusesQuietly
<1>3. ASSUME files[i].meta.body = files[i].data.body,
             op' = [op EXCEPT ![s].phase = "recheck", ![s].body = files[i].meta.body]
      PROVE  QuietStep(s)
  <2> DEFINE c == Noting(op[s], op[s].prints, files[i].meta.body, "recheck")
  <2>1. i \in Ids /\ ~Fresh(i) /\ Recorded(op[s].prints)  BY <1>1, ReadingFields
  <2>2. op' = [op EXCEPT ![s] = c]
    BY <1>1, <1>3, CallFields DEF Noting, OpCall
  <2>3. /\ c \in OpCall /\ c.kind = op[s].kind /\ c.id = i /\ c.whole = op[s].whole /\ c.got = op[s].got
        /\ c.listed = op[s].listed /\ c.phase = "recheck" /\ c.prints = op[s].prints
        /\ c.body = files[i].meta.body
    <3>1. "recheck" \in Phases  BY DEF Phases
    <3>2. files[i].meta.body \in Bodies  BY <2>1, FileFields DEF File
    <3>3. op[s].prints \in Prints  BY CallFields
    <3> QED  BY <1>1, <3>1, <3>2, <3>3, NotingFields
  <2> HIDE DEF c
  <2>4. "recheck" \in Reading /\ "recheck" # "recheckRead"  BY DEF Reading
  <2> QED  BY <1>1, <1>3, <2>1, <2>2, <2>3, <2>4, NotesQuietly
<1> QED  BY <1>2, <1>3 DEF Hash

LEMMA ReadIsQuiet ==
  ASSUME IntactInv, NEW s \in Sidecars, Read(s)
  PROVE  QuietStep(s)
<1> DEFINE i == op[s].id
           c == [op[s] EXCEPT !.bytes = files[i].data.body, !.phase = "recheckRead"]
<1>1. Rests /\ op[s].phase = "read" /\ Runs(s, Reading) /\ Runs(s, Reading \cup {"open"}) /\ op[s] \in OpCall
  BY CallFields, UnchangedRests DEF Read, Runs, Reading
<1>2. op' = [op EXCEPT ![s] = c]
  BY CallFields DEF Read
<1>3. i \in Ids /\ ~Fresh(i) /\ Recorded(op[s].prints) /\ ReadInv(s)  BY <1>1, ReadingFields
<1>4. /\ c \in OpCall /\ c.kind = op[s].kind /\ c.id = i /\ c.whole = op[s].whole /\ c.got = op[s].got
      /\ c.listed = op[s].listed /\ c.phase = "recheckRead" /\ c.prints = op[s].prints
      /\ c.body = op[s].body /\ c.bytes = files[i].data.body
  <2>1. "recheckRead" \in Phases  BY DEF Phases
  <2>2. files[i].data.body \in Bodies  BY <1>3, FileFields DEF File
  <2> QED  BY <1>1, <2>1, <2>2 DEF OpCall
<1>5. PrintsOf(i) = op[s].prints => op[s].body = files[i].data.body
  BY <1>1, <1>3 DEF ReadInv, Runs, StillThere
<1> HIDE DEF c
<1>6. "recheckRead" \in Reading  BY DEF Reading
<1> QED  BY <1>1, <1>2, <1>3, <1>4, <1>5, <1>6, NotesQuietly

\* A file that is removed, and a verdict that is dropped.
LEMMA ErasesFields ==
  ASSUME IntactInv, NEW d,
         \/ files' = [files EXCEPT ![d].data = Absent]
         \/ files' = [files EXCEPT ![d].meta = Absent]
         \/ files' = files
  PROVE  /\ files' \in [Ids -> [data : File, meta : File]]
         /\ \A i \in Ids : files'[i].data \in {files[i].data, Absent} /\ files'[i].meta \in {files[i].meta, Absent}
<1>1. Absent \in File
  BY StoreAssumption DEF Absent, File, Bodies
<1>2. files \in [Ids -> [data : File, meta : File]]
  BY DEF IntactInv, StoreTypes, StoreTypeOK
<1> QED  BY <1>1, <1>2

LEMMA ForgetsFields ==
  ASSUME IntactInv, NEW s \in Sidecars, NEW d,
         verified' = [verified EXCEPT ![s][d].prints = Unknown] \/ verified' = verified
  PROVE  /\ verified' \in Caches /\ \A t \in Sidecars \ {s} : verified'[t] = verified[t]
         /\ \A i \in Ids : verified'[s][i] = verified[s][i] \/ verified'[s][i].prints = Unknown
<1>1. Unknown \in Prints
  BY StoreAssumption DEF Unknown, Prints
<1>2. verified \in Caches
  BY DEF IntactInv, StoreTypes, StoreTypeOK, Caches
<1> DEFINE row == [verified[s] EXCEPT ![d].prints = Unknown]
<1>3. /\ row \in [Ids -> [prints : Prints, body : Bodies]]
      /\ \A i \in Ids : row[i] = verified[s][i] \/ row[i].prints = Unknown
  <2>1. verified[s] \in [Ids -> [prints : Prints, body : Bodies]]  BY <1>2 DEF Caches
  <2> QED  BY <1>1, <2>1
<1>4. verified' = [verified EXCEPT ![s] = row] \/ verified' = verified  OBVIOUS
<1> HIDE DEF row
<1> QED  BY <1>2, <1>3, <1>4 DEF Caches

\* A step that does no more than remove, drop, and list.
LEMMA RemovesLoosely ==
  ASSUME IntactInv, NEW s \in Sidecars, NEW d, OpMoves(s),
         \/ files' = [files EXCEPT ![d].data = Absent]
         \/ files' = [files EXCEPT ![d].meta = Absent]
         \/ files' = files,
         verified' = [verified EXCEPT ![s][d].prints = Unknown] \/ verified' = verified,
         temps' \subseteq temps, UNCHANGED <<used, clock, reads, mishaps, served, skipped>>,
         settled' \in {settled, settled \cup op[s].listed}
  PROVE  StepOf(s)
<1>1. /\ temps' \subseteq Ids /\ reads' \in 0 .. MaxReads /\ mishaps' \in {mishaps, mishaps + 1}
      /\ mishaps' <= MaxMishaps /\ served' \in [id : 0 .. MaxIds, named : Bodies, bytes : Bodies]
      /\ skipped \subseteq skipped' /\ skipped' \subseteq Ids
  BY DEF IntactInv, StoreTypes, StoreTypeOK
<1>2. ServedIsIntact'  BY DEF IntactInv, ServedIsIntact
<1>3. LooseStep(s)
  BY <1>1, <1>2, ErasesFields, ForgetsFields DEF LooseStep
<1> QED  BY <1>3, LooseStepKeeps

LEMMA UnlinkDataKeeps ==
  ASSUME IntactInv, NEW s \in Sidecars, UnlinkData(s)
  PROVE  StepOf(s)
<1>1. CASE Ends(s) /\ UNCHANGED files
  BY <1>1, EndsMoves, RemovesLoosely DEF UnlinkData
<1>2. CASE Goes(s, "unlinkMeta") /\ files' = [files EXCEPT ![Doomed(s)].data = Absent]
  <2>1. OpMoves(s)
    BY <1>2, GoesMoves DEF Phases, Reading
  <2> QED  BY <1>2, <2>1, RemovesLoosely DEF UnlinkData
<1> QED  BY <1>1, <1>2 DEF UnlinkData

\* A prune that goes on with less to go, or a list with what is there.
LEMMA ListingMoves ==
  ASSUME IntactInv, NEW s \in Sidecars, NEW todo \in SUBSET Ids, NEW phase \in {"unlinkData", "next"},
         op' = [op EXCEPT ![s].todo = todo, ![s].phase = phase], phase = "next" => ~IsCreate(s)
  PROVE  /\ OpMoves(s) /\ op'[s].todo = todo /\ op'[s].phase = phase
         /\ op'[s].listed = op[s].listed /\ op'[s].kind = op[s].kind
<1>1. op'[s] = Listing(op[s], todo, op[s].listed, phase) /\ op' = [op EXCEPT ![s] = op'[s]]
  BY CallFields DEF Listing, OpCall
<1>2. op[s] \in OpCall /\ op[s].listed \in SUBSET Ids /\ phase \in Phases
  BY CallFields DEF Phases
<1>3. /\ op'[s] \in OpCall /\ op'[s].phase = phase /\ op'[s].listed = op[s].listed
      /\ op'[s].todo = todo /\ op'[s].kind = op[s].kind /\ op'[s].id = op[s].id
      /\ op'[s].whole = op[s].whole /\ op'[s].got = op[s].got
  BY <1>1, <1>2, ListingFields
<1>4. CallInv(s)'
  BY <1>3, CallFields DEF CallInv, Runs, IsCreate, Creating, Reading
<1>5. ReadInv(s)'  BY <1>3 DEF ReadInv, Runs, Reading
<1> QED
  BY <1>1, <1>3, <1>4, <1>5, CallFields DEF OpMoves, IsCreate, Reading

LEMMA UnlinkMetaKeeps ==
  ASSUME IntactInv, NEW s \in Sidecars, UnlinkMeta(s)
  PROVE  StepOf(s)
<1>1. OpMoves(s)
  <2>1. CASE Ends(s)  BY <2>1, EndsMoves
  <2>2. CASE op' = [op EXCEPT ![s].todo = @ \ {Doomed(s)}, ![s].phase = "unlinkData"]
    <3>1. op' = [op EXCEPT ![s].todo = op[s].todo \ {Doomed(s)}, ![s].phase = "unlinkData"]
      BY <2>2
    <3>2. op[s].todo \ {Doomed(s)} \in SUBSET Ids  BY CallFields
    <3> QED  BY <3>1, <3>2, ListingMoves
  <2> QED  BY <2>1, <2>2 DEF UnlinkMeta
<1> QED  BY <1>1, RemovesLoosely DEF UnlinkMeta

LEMMA PrunedKeeps ==
  ASSUME IntactInv, NEW s \in Sidecars, Pruned(s)
  PROVE  StepOf(s)
<1>1. OpMoves(s)
  <2>1. CASE Ends(s)  BY <2>1, EndsMoves
  <2>2. CASE ~IsCreate(s) /\ op' = [op EXCEPT ![s].phase = "next", ![s].todo = Owned]
    <3>1. op' = [op EXCEPT ![s].todo = Owned, ![s].phase = "next"]
      BY <2>2, CallFields DEF OpCall
    <3>2. Owned \in SUBSET Ids  BY DEF Owned
    <3> QED  BY <2>2, <3>1, <3>2, ListingMoves
  <2> QED  BY <2>1, <2>2 DEF Pruned
<1> QED  BY <1>1, RemovesLoosely DEF Pruned

LEMMA CleanUpKeeps ==
  ASSUME IntactInv, NEW s \in Sidecars, CleanUp(s)
  PROVE  StepOf(s)
<1>1. IsCreate(s)
  BY CallFields DEF CleanUp, CallInv, Runs, Creating
<1>2. {"cleanData", "cleanMeta"} \subseteq Phases /\ {"cleanData", "cleanMeta"} \cap Reading = {}
  BY DEF Phases, Reading
<1>3. CASE Goes(s, "cleanData") /\ temps' = temps \ {op[s].id} /\ UNCHANGED files
  <2>1. OpMoves(s)  BY <1>1, <1>2, <1>3, GoesMoves
  <2> QED  BY <1>3, <2>1, RemovesLoosely DEF CleanUp
<1>4. CASE Goes(s, "cleanMeta") /\ files' = [files EXCEPT ![op[s].id].data = Absent] /\ UNCHANGED temps
  <2>1. OpMoves(s)  BY <1>1, <1>2, <1>4, GoesMoves
  <2> QED  BY <1>4, <2>1, RemovesLoosely DEF CleanUp
<1>5. CASE Ends(s) /\ files' = [files EXCEPT ![op[s].id].meta = Absent] /\ UNCHANGED temps
  BY <1>5, EndsMoves, RemovesLoosely DEF CleanUp
<1> QED  BY <1>3, <1>4, <1>5 DEF CleanUp

\* What is served: the hash that was noted, and the bytes that were read under it.
LEMMA ServesFields ==
  ASSUME IntactInv, NEW s \in Sidecars, NEW bytes \in Bodies, Serves(s, bytes),
         op[s].id \in Ids, op[s].body = bytes, UNCHANGED used
  PROVE  served' \in [id : 0 .. MaxIds, named : Bodies, bytes : Bodies] /\ ServedIsIntact'
<1>1. op[s].id \in 0 .. MaxIds /\ op[s].body \in Bodies  BY CallFields
<1>2. used[op[s].id].whole  BY DEF IntactInv
<1> QED  BY <1>1, <1>2 DEF Serves, ServedIsIntact

LEMMA ServedStays ==
  ASSUME IntactInv, UNCHANGED <<served, used>>
  PROVE  served' \in [id : 0 .. MaxIds, named : Bodies, bytes : Bodies] /\ ServedIsIntact'
BY DEF IntactInv, StoreTypes, StoreTypeOK, ServedIsIntact

LEMMA RecheckReadKeeps ==
  ASSUME IntactInv, NEW s \in Sidecars, RecheckRead(s)
  PROVE  StepOf(s)
<1>1. OpMoves(s)  BY EndsMoves DEF RecheckRead
<1>2. op[s].phase = "recheckRead" /\ Runs(s, Reading)
  BY DEF RecheckRead, Runs, Reading
<1>3. op[s].id \in Ids /\ ReadInv(s) /\ op[s].bytes \in Bodies
  BY <1>2, ReadingFields, CallFields
<1>4. served' \in [id : 0 .. MaxIds, named : Bodies, bytes : Bodies] /\ ServedIsIntact'
  <2>1. CASE StillThere(s) /\ Serves(s, op[s].bytes)
    <3>1. op[s].body = op[s].bytes
      BY <1>2, <1>3, <2>1 DEF ReadInv, Runs
    <3> QED  BY <1>3, <2>1, <3>1, ServesFields DEF RecheckRead
  <2>2. CASE UNCHANGED served
    BY <2>2, ServedStays DEF RecheckRead
  <2> QED  BY <2>1, <2>2 DEF RecheckRead
<1>5. /\ temps' \subseteq Ids /\ reads' \in 0 .. MaxReads /\ mishaps' \in {mishaps, mishaps + 1}
      /\ mishaps' <= MaxMishaps /\ files' = files /\ verified' = verified /\ settled' = settled
      /\ UNCHANGED <<used, clock>> /\ skipped \subseteq skipped' /\ skipped' \subseteq Ids
  BY DEF RecheckRead, IntactInv, StoreTypes, StoreTypeOK
<1>6. LooseStep(s)
  BY <1>1, <1>4, <1>5, ErasesFields, ForgetsFields DEF LooseStep
<1> QED  BY <1>6, LooseStepKeeps

\* A new verdict of a cache.
Decides(s, d, prints, body) ==
  verified' = [verified EXCEPT ![s][d] = [prints |-> prints, body |-> body]]

LEMMA VerdictFields ==
  ASSUME IntactInv, NEW s \in Sidecars, NEW d \in Ids, NEW prints \in Prints, NEW body \in Bodies,
         Decides(s, d, prints, body)
  PROVE  /\ verified' \in Caches /\ \A t \in Sidecars \ {s} : verified'[t] = verified[t]
         /\ \A i \in Ids \ {d} : verified'[s][i] = verified[s][i]
         /\ verified'[s][d].prints = prints /\ verified'[s][d].body = body
<1>1. verified \in Caches
  BY DEF IntactInv, StoreTypes, StoreTypeOK, Caches
<1> DEFINE row == [verified[s] EXCEPT ![d] = [prints |-> prints, body |-> body]]
<1>2. /\ row \in [Ids -> [prints : Prints, body : Bodies]]
      /\ row[d].prints = prints /\ row[d].body = body
      /\ \A i \in Ids \ {d} : row[i] = verified[s][i]
  <2>1. verified[s] \in [Ids -> [prints : Prints, body : Bodies]]  BY <1>1 DEF Caches
  <2> QED  BY <2>1
<1>3. verified' = [verified EXCEPT ![s] = row]  BY DEF Decides
<1> HIDE DEF row
<1> QED  BY <1>1, <1>2, <1>3 DEF Caches

LEMMA RecheckKeeps ==
  ASSUME IntactInv, NEW s \in Sidecars, Recheck(s)
  PROVE  StepOf(s)
<1> DEFINE i == op[s].id
<1>1. op[s].phase = "recheck" /\ Runs(s, Reading)
  BY DEF Recheck, Runs, Reading
<1>2. /\ i \in Ids /\ ~Fresh(i) /\ ReadInv(s) /\ Recorded(op[s].prints)
      /\ op[s].prints \in Prints /\ op[s].body \in Bodies
  BY <1>1, ReadingFields, CallFields
<1>3. /\ temps' \subseteq Ids /\ reads' \in 0 .. MaxReads /\ mishaps' \in {mishaps, mishaps + 1}
      /\ mishaps' <= MaxMishaps /\ files' = files /\ mishaps' = mishaps /\ settled' = settled
      /\ UNCHANGED <<used, clock>> /\ skipped \subseteq skipped' /\ skipped' \subseteq Ids
  BY DEF Recheck, IntactInv, StoreTypes, StoreTypeOK
<1>4. CASE ~StillThere(s)
  <2>1. Refuses(s) /\ UNCHANGED <<verified, served>>  BY <1>4 DEF Recheck
  <2> QED
    BY <1>3, <2>1, RefusesMoves, ServedStays, ErasesFields, ForgetsFields, LooseStepKeeps DEF LooseStep
<1>5. CASE StillThere(s)
  <2>1. Decides(s, i, op[s].prints, op[s].body)
    BY <1>5 DEF Recheck, Decides
  <2>2. op[s].body = files[i].data.body
    BY <1>1, <1>2, <1>5 DEF ReadInv, Runs
  <2>3. /\ verified' \in Caches /\ \A t \in Sidecars \ {s} : verified'[t] = verified[t]
        /\ \A j \in Ids : \/ verified'[s][j] = verified[s][j]
                          \/ /\ j = i /\ Recorded(verified'[s][j].prints)
                             /\ verified'[s][j].body = files[j].data.body
    <3>1. /\ verified' \in Caches /\ \A t \in Sidecars \ {s} : verified'[t] = verified[t]
          /\ \A j \in Ids \ {i} : verified'[s][j] = verified[s][j]
          /\ verified'[s][i].prints = op[s].prints /\ verified'[s][i].body = op[s].body
      BY <1>2, <2>1, VerdictFields
    <3>2. Recorded(verified'[s][i].prints) /\ verified'[s][i].body = files[i].data.body
      BY <1>2, <2>2, <3>1
    <3> QED  BY <3>1, <3>2
  <2>4. OpMoves(s) /\ served' \in [id : 0 .. MaxIds, named : Bodies, bytes : Bodies] /\ ServedIsIntact'
    <3>1. CASE Goes(s, "read") /\ UNCHANGED served
      <4>1. /\ op'[s] \in OpCall /\ op' = [op EXCEPT ![s] = op'[s]] /\ op'[s].phase = "read"
            /\ op'[s].kind = op[s].kind /\ op'[s].id = i /\ op'[s].whole = op[s].whole
            /\ op'[s].listed = op[s].listed /\ op'[s].got = op[s].got /\ op'[s].prints = op[s].prints
            /\ op'[s].body = op[s].body
        <5>1. "read" \in Phases  BY DEF Phases
        <5> QED  BY <3>1, <5>1, GoesFields
      <4>2. CallInv(s) /\ op[s].whole = TRUE /\ ~IsCreate(s) /\ \A j \in op[s].listed : ~Fresh(j)
        BY <1>1, CallFields DEF CallInv, Runs
      <4>3. CallInv(s)'
        BY <1>2, <4>1, <4>2 DEF CallInv, Runs, IsCreate, Creating, Reading
      <4>4. ReadInv(s)'
        BY <1>2, <1>3, <2>2, <4>1 DEF ReadInv, Runs, Recorded
      <4>5. OpMoves(s)
        BY <1>2, <4>1, <4>2, <4>3, <4>4 DEF OpMoves, IsCreate
      <4> QED  BY <1>3, <3>1, <4>5, ServedStays
    <3>2. CASE Serves(s, files[i].data.body) /\ Refuses(s)
      BY <1>2, <1>3, <2>2, <3>2, RefusesMoves, ServesFields
    <3> QED  BY <1>5, <3>1, <3>2 DEF Recheck
  <2> QED
    BY <1>2, <1>3, <2>3, <2>4, ErasesFields, LooseStepKeeps DEF LooseStep
<1> QED  BY <1>4, <1>5

LEMMA DiesKeeps ==
  ASSUME IntactInv, NEW s \in Sidecars, Dies(s)
  PROVE  StepOf(s)
<1>1. OpMoves(s)  BY EndsMoves DEF Dies
<1>2. /\ temps' \subseteq Ids /\ reads' \in 0 .. MaxReads
      /\ files' = files /\ settled' = settled /\ UNCHANGED <<used, clock, served>>
      /\ skipped \subseteq skipped' /\ skipped' \subseteq Ids
  BY DEF Dies, IntactInv, StoreTypes, StoreTypeOK
<1>3. mishaps' \in {mishaps, mishaps + 1} /\ mishaps' <= MaxMishaps
  <2>1. mishaps \in Nat /\ MaxMishaps \in Nat /\ mishaps < MaxMishaps /\ mishaps' = mishaps + 1
    BY CallFields DEF Dies
  <2>2. \A m, n \in Nat : m < n => m + 1 <= n  OBVIOUS
  <2> QED  BY <2>1, <2>2
<1>4. /\ verified' \in Caches /\ \A t \in Sidecars \ {s} : verified'[t] = verified[t]
      /\ \A i \in Ids : verified'[s][i].prints = Unknown
  <2>1. "original" \in Bodies /\ Unknown \in Prints
    BY StoreAssumption DEF Bodies, Unknown, Prints
  <2>2. verified \in Caches  BY DEF IntactInv, StoreTypes, StoreTypeOK, Caches
  <2> QED  BY <2>1, <2>2 DEF Dies, Caches
<1>5. LooseStep(s)
  BY <1>1, <1>2, <1>3, <1>4, ErasesFields, ServedStays DEF LooseStep
<1> QED  BY <1>5, LooseStepKeeps

\* What create works on: an artifact of its own that is fresh.
LEMMA CreatingFields ==
  ASSUME IntactInv, NEW s \in Sidecars, Runs(s, {"write", "replaceData", "replaceMeta"})
  PROVE  /\ IsCreate(s) /\ op[s].id \in Ids /\ Fresh(op[s].id)
         /\ Runs(s, {"replaceData", "replaceMeta"}) => used[op[s].id].at # -1
         /\ \A t \in Sidecars \ {s} : IsCreate(t) => op[t].id # op[s].id
<1>1. CallInv(s) /\ IsCreate(s)
  BY CallFields DEF CallInv, Runs, Creating
<1>2. op[s].id \in Ids /\ (Runs(s, {"replaceData", "replaceMeta"}) => used[op[s].id].at # -1)
  BY <1>1 DEF CallInv
<1>3. Fresh(op[s].id)
  BY <1>1 DEF CallInv, Runs, Fresh
<1> QED  BY <1>1, <1>2, <1>3 DEF IntactInv, CreatorsInv

\* The call of s after a step of create.
Creates(c, phase) == [c EXCEPT !.phase = phase, !.whole = TRUE]

LEMMA CreatesCall ==
  ASSUME NEW c \in OpCall, NEW phase \in Phases
  PROVE  LET d == Creates(c, phase)
         IN  /\ d \in OpCall /\ d.kind = c.kind /\ d.phase = phase /\ d.id = c.id
             /\ d.listed = c.listed /\ d.got = c.got /\ d.whole
BY DEF OpCall, Creates

LEMMA CreatesFields ==
  ASSUME IntactInv, NEW s \in Sidecars, NEW phase \in {"replaceData", "replaceMeta", "prune"},
         Runs(s, {"write", "replaceData", "replaceMeta"}),
         op' = [op EXCEPT ![s].phase = phase, ![s].whole = TRUE],
         used'[op[s].id].at # -1
  PROVE  /\ op'[s] \in OpCall /\ op' = [op EXCEPT ![s] = op'[s]] /\ op'[s].phase = phase
         /\ op'[s].kind = op[s].kind /\ op'[s].id = op[s].id /\ op'[s].listed = op[s].listed
         /\ CallInv(s)' /\ ReadInv(s)' /\ IsCreate(s)' /\ IsCreate(s)
<1>1. op'[s] = Creates(op[s], phase) /\ op' = [op EXCEPT ![s] = op'[s]]
  BY CallFields DEF Creates
<1>2. op[s] \in OpCall /\ phase \in Phases
  BY CallFields DEF Phases
<1>3. /\ op'[s] \in OpCall /\ op'[s].phase = phase /\ op'[s].kind = op[s].kind /\ op'[s].id = op[s].id
      /\ op'[s].whole /\ op'[s].listed = op[s].listed /\ op'[s].got = op[s].got
  BY <1>1, <1>2, CreatesCall
<1>4. CallInv(s)'
  BY <1>3, CallFields, CreatingFields DEF CallInv, Runs, IsCreate, Creating, Reading
<1>5. ReadInv(s)'  BY <1>3 DEF ReadInv, Runs, Reading
<1> QED  BY <1>1, <1>3, <1>4, <1>5, CreatingFields DEF IsCreate

LEMMA WriteTempsKeeps ==
  ASSUME IntactInv, NEW s \in Sidecars, WriteTemps(s)
  PROVE  StepOf(s)
<1> DEFINE i == op[s].id
<1>1. /\ Runs(s, {"write"}) /\ Runs(s, {"write", "replaceData", "replaceMeta"}) /\ op[s].whole = TRUE
      /\ UNCHANGED <<files, verified, clock, reads, mishaps, served, settled, skipped>>
      /\ temps' = temps \cup {i} /\ used' = [used EXCEPT ![i] = [at |-> clock, whole |-> op[s].whole]]
      /\ op' = [op EXCEPT ![s].phase = "replaceData", ![s].whole = TRUE]
  BY CallFields DEF WriteTemps, Runs
<1>2. /\ i \in Ids /\ Fresh(i) /\ \A t \in Sidecars \ {s} : IsCreate(t) => op[t].id # i
  BY <1>1, CreatingFields
<1>3. /\ used' \in [Ids -> [at : -1 .. MaxClock, whole : BOOLEAN]] /\ used'[i].at # -1 /\ used'[i].whole
      /\ \A j \in Ids \ {i} : used'[j] = used[j]
  <2>1. /\ used \in [Ids -> [at : -1 .. MaxClock, whole : BOOLEAN]]
        /\ clock \in 0 .. MaxClock
    BY DEF IntactInv, StoreTypes, StoreTypeOK
  <2>2. clock \in -1 .. MaxClock /\ clock # -1  BY <2>1
  <2> QED  BY <1>1, <1>2, <2>1, <2>2
<1>4. /\ op'[s] \in OpCall /\ op' = [op EXCEPT ![s] = op'[s]] /\ op'[s].phase = "replaceData"
      /\ op'[s].kind = op[s].kind /\ op'[s].id = i /\ op'[s].listed = op[s].listed
      /\ CallInv(s)' /\ ReadInv(s)' /\ IsCreate(s)' /\ IsCreate(s)
  BY <1>1, <1>3, CreatesFields
<1>5. /\ StoreTypes' /\ mishaps <= mishaps' /\ \A t \in Sidecars \ {s} : op'[t] = op[t]
  <2>1. /\ files' \in [Ids -> [data : File, meta : File]] /\ temps' \subseteq Ids /\ verified' \in Caches
        /\ reads' \in 0 .. MaxReads /\ mishaps' \in {mishaps, mishaps + 1} /\ mishaps' <= MaxMishaps
        /\ served' \in [id : 0 .. MaxIds, named : Bodies, bytes : Bodies] /\ settled' \subseteq Ids
        /\ skipped' \subseteq Ids
    BY <1>1, <1>2 DEF IntactInv, StoreTypes, StoreTypeOK, Caches
  <2> QED  BY <1>1, <1>3, <1>4, <2>1, TypesKeep
<1>6. \A j \in Ids : Fresh(j)' => Fresh(j)
  BY <1>2, <1>3, <1>4, <1>5 DEF Fresh, Runs
<1>7. Artifacts
  BY <1>1, <1>5, <1>6 DEF Artifacts, Fades, IntactInv, FreshInv
<1>8. VersionsInv' /\ ServedIsIntact'
  <2>1. served.id # 0 => used'[served.id].whole
    <3>1. served.id \in 0 .. MaxIds /\ MaxIds \in Nat /\ Ids = 1 .. MaxIds
      BY CallFields DEF IntactInv, StoreTypes, StoreTypeOK
    <3>2. served.id # 0 => served.id \in Ids  BY <3>1
    <3> QED  BY <1>3, <3>2 DEF IntactInv
  <2> QED  BY <1>1, <2>1 DEF IntactInv, VersionsInv, ServedIsIntact
<1>9. VouchInv(s)'
  BY <1>1, <1>5, <1>7, VouchStays
<1>10. \A j \in Ids : Fresh(j)' => ~Reads(s, j)' /\ verified'[s][j].prints = Unknown /\ j \notin op'[s].listed
  BY <1>1, <1>4, <1>6, CallFields DEF IntactInv, FreshInv, Reads, Runs, Reading
<1>11. \A j \in Ids : used'[j].whole /\ (used'[j] = used[j] \/ (Runs(s, {"write"}) /\ i = j))
  BY <1>1, <1>3 DEF IntactInv
<1> QED
  BY <1>1, <1>4, <1>5, <1>7, <1>8, <1>9, <1>10, <1>11 DEF StepOf

\* A file that create puts in place is as it was captured.
LEMMA PlacesFields ==
  ASSUME IntactInv, NEW i \in Ids,
         \/ files' = [files EXCEPT ![i].data = [Absent EXCEPT !.version = 1]]
         \/ files' = [files EXCEPT ![i].meta = [Absent EXCEPT !.version = 1]],
         UNCHANGED mishaps
  PROVE  /\ files' \in [Ids -> [data : File, meta : File]] /\ VersionsInv'
         /\ \A j \in Ids \ {i} : files'[j] = files[j]
<1> DEFINE new == [Absent EXCEPT !.version = 1]
<1>1. new \in File /\ new.version = 1 /\ new.body = "original"
  BY StoreAssumption DEF Absent, File, Bodies
<1>2. files \in [Ids -> [data : File, meta : File]] /\ mishaps \in Nat
  BY CallFields DEF IntactInv, StoreTypes, StoreTypeOK
<1> HIDE DEF new
<1>3. /\ files' \in [Ids -> [data : File, meta : File]]
      /\ \A j \in Ids \ {i} : files'[j] = files[j]
      /\ files'[i].data \in {files[i].data, new} /\ files'[i].meta \in {files[i].meta, new}
  <2>1. files' = [files EXCEPT ![i].data = new] \/ files' = [files EXCEPT ![i].meta = new]
    BY DEF new
  <2> QED  BY <1>1, <1>2, <2>1
<1>4. VersionsInv'
  <2> SUFFICES ASSUME NEW j \in Ids, NEW f \in {files[j].data, files[j].meta, new}
               PROVE  f.version <= 1 + mishaps /\ (f.version \in {0, 1} => f.body = "original")
    BY <1>3 DEF VersionsInv
  <2>1. CASE f = new  BY <1>1, <1>2, <2>1
  <2>2. CASE f # new  BY <2>2 DEF IntactInv, VersionsInv
  <2> QED  BY <2>1, <2>2
<1> QED  BY <1>3, <1>4

LEMMA ReplaceDataKeeps ==
  ASSUME IntactInv, NEW s \in Sidecars, ReplaceData(s)
  PROVE  StepOf(s)
<1> DEFINE i == op[s].id
<1>1. /\ Runs(s, {"replaceData", "replaceMeta"}) /\ Runs(s, {"write", "replaceData", "replaceMeta"})
      /\ op[s].whole = TRUE /\ UNCHANGED <<temps, verified, used, clock, reads, mishaps, served, settled, skipped>>
      /\ files' = [files EXCEPT ![i].data = [Absent EXCEPT !.version = 1]]
      /\ Goes(s, "replaceMeta")
  BY CallFields DEF ReplaceData, Runs
<1>2. i \in Ids /\ Fresh(i) /\ used[i].at # -1
  BY <1>1, CreatingFields
<1>3. op' = [op EXCEPT ![s].phase = "replaceMeta", ![s].whole = TRUE]
  BY <1>1, CallFields DEF Goes, OpCall
<1>4. /\ op'[s] \in OpCall /\ op' = [op EXCEPT ![s] = op'[s]] /\ op'[s].phase = "replaceMeta"
      /\ op'[s].kind = op[s].kind /\ op'[s].id = i /\ op'[s].listed = op[s].listed
      /\ CallInv(s)' /\ ReadInv(s)' /\ IsCreate(s)' /\ IsCreate(s)
  BY <1>1, <1>2, <1>3, CreatesFields
<1>5. /\ files' \in [Ids -> [data : File, meta : File]] /\ VersionsInv'
      /\ \A j \in Ids \ {i} : files'[j] = files[j]
  BY <1>1, <1>2, PlacesFields
<1>6. files'[i].meta = files[i].meta
  BY <1>1 DEF IntactInv, StoreTypes, StoreTypeOK
<1>7. /\ StoreTypes' /\ mishaps <= mishaps' /\ \A t \in Sidecars \ {s} : op'[t] = op[t]
  <2>1. /\ temps' \subseteq Ids /\ verified' \in Caches
        /\ used' \in [Ids -> [at : -1 .. MaxClock, whole : BOOLEAN]]
        /\ reads' \in 0 .. MaxReads /\ mishaps' \in {mishaps, mishaps + 1} /\ mishaps' <= MaxMishaps
        /\ served' \in [id : 0 .. MaxIds, named : Bodies, bytes : Bodies] /\ settled' \subseteq Ids
        /\ skipped' \subseteq Ids
    BY <1>1 DEF IntactInv, StoreTypes, StoreTypeOK, Caches
  <2> QED  BY <1>1, <1>4, <1>5, <2>1, TypesKeep
<1>8. \A j \in Ids : Fresh(j)' => Fresh(j)
  BY <1>1, <1>2, <1>4, <1>7 DEF Fresh, Runs
<1>9. Artifacts
  <2>1. \A j \in Ids : Fresh(j)' => files'[j].meta.version = 0 /\ j \notin settled'
    BY <1>1, <1>5, <1>6, <1>8 DEF IntactInv, FreshInv
  <2>2. \A j \in Ids : Fresh(j) \/ Fades(j)
    BY <1>2, <1>5 DEF Fades
  <2> QED  BY <1>1, <1>7, <1>8, <2>1, <2>2 DEF Artifacts
<1>10. VouchInv(s)'
  BY <1>1, <1>7, <1>9, VouchStays
<1>11. \A j \in Ids : Fresh(j)' => ~Reads(s, j)' /\ verified'[s][j].prints = Unknown /\ j \notin op'[s].listed
  BY <1>1, <1>4, <1>8, CallFields DEF IntactInv, FreshInv, Reads, Runs, Reading
<1>12. ServedIsIntact' /\ \A j \in Ids : used'[j].whole /\ used'[j] = used[j]
  BY <1>1 DEF IntactInv, ServedIsIntact
<1> QED
  BY <1>1, <1>4, <1>5, <1>7, <1>9, <1>10, <1>11, <1>12 DEF StepOf

LEMMA ReplaceMetaKeeps ==
  ASSUME IntactInv, NEW s \in Sidecars, ReplaceMeta(s)
  PROVE  StepOf(s)
<1> DEFINE i == op[s].id
<1>1. /\ Runs(s, {"replaceData", "replaceMeta"}) /\ Runs(s, {"write", "replaceData", "replaceMeta"})
      /\ op[s].whole = TRUE /\ UNCHANGED <<used, clock, reads, mishaps, served, settled, skipped>>
      /\ files' = [files EXCEPT ![i].meta = [Absent EXCEPT !.version = 1]]
      /\ temps' = temps \ {i} /\ verified' = [verified EXCEPT ![s][i].prints = Unknown]
      /\ Goes(s, "prune")
  BY CallFields DEF ReplaceMeta, Runs
<1>2. /\ i \in Ids /\ Fresh(i) /\ used[i].at # -1
      /\ \A t \in Sidecars \ {s} : IsCreate(t) => op[t].id # i
  BY <1>1, CreatingFields
<1>3. op' = [op EXCEPT ![s].phase = "prune", ![s].whole = TRUE]
  BY <1>1, CallFields DEF Goes, OpCall
<1>4. /\ op'[s] \in OpCall /\ op' = [op EXCEPT ![s] = op'[s]] /\ op'[s].phase = "prune"
      /\ op'[s].kind = op[s].kind /\ op'[s].id = i /\ op'[s].listed = op[s].listed
      /\ CallInv(s)' /\ ReadInv(s)' /\ IsCreate(s)' /\ IsCreate(s)
  BY <1>1, <1>2, <1>3, CreatesFields
<1>5. /\ files' \in [Ids -> [data : File, meta : File]] /\ VersionsInv'
      /\ \A j \in Ids \ {i} : files'[j] = files[j]
  BY <1>1, <1>2, PlacesFields
<1>6. /\ verified' \in Caches /\ \A t \in Sidecars \ {s} : verified'[t] = verified[t]
      /\ \A j \in Ids : verified'[s][j] = verified[s][j] \/ verified'[s][j].prints = Unknown
  BY <1>1, ForgetsFields
<1>7. /\ StoreTypes' /\ mishaps <= mishaps' /\ \A t \in Sidecars \ {s} : op'[t] = op[t]
  <2>1. /\ temps' \subseteq Ids
        /\ used' \in [Ids -> [at : -1 .. MaxClock, whole : BOOLEAN]]
        /\ reads' \in 0 .. MaxReads /\ mishaps' \in {mishaps, mishaps + 1} /\ mishaps' <= MaxMishaps
        /\ served' \in [id : 0 .. MaxIds, named : Bodies, bytes : Bodies] /\ settled' \subseteq Ids
        /\ skipped' \subseteq Ids
    BY <1>1 DEF IntactInv, StoreTypes, StoreTypeOK
  <2> QED  BY <1>1, <1>4, <1>5, <1>6, <2>1, TypesKeep
<1>8. \A j \in Ids : Fresh(j)' => Fresh(j) /\ j # i
  <2>1. \A t \in Sidecars : Runs(t, {"replaceData", "replaceMeta"})' => t # s
    BY <1>4 DEF Runs
  <2>2. \A t \in Sidecars : Runs(t, {"replaceData", "replaceMeta"})' =>
          Runs(t, {"replaceData", "replaceMeta"}) /\ op'[t].id = op[t].id /\ op[t].id # i
    <3> SUFFICES ASSUME NEW t \in Sidecars, Runs(t, {"replaceData", "replaceMeta"})'
                 PROVE  Runs(t, {"replaceData", "replaceMeta"}) /\ op'[t].id = op[t].id /\ op[t].id # i
      OBVIOUS
    <3>1. t # s /\ op'[t] = op[t]  BY <1>7, <2>1
    <3>2. Runs(t, {"replaceData", "replaceMeta"})  BY <3>1 DEF Runs
    <3>3. CallInv(t) /\ IsCreate(t)
      BY <3>2, CallFields DEF CallInv, Runs, Creating
    <3> QED  BY <1>2, <3>1, <3>2, <3>3
  <2> QED  BY <1>1, <1>2, <2>2 DEF Fresh
<1>9. Artifacts
  <2>1. \A j \in Ids : Fresh(j)' => files'[j].meta.version = 0 /\ j \notin settled'
    BY <1>1, <1>5, <1>8 DEF IntactInv, FreshInv
  <2>2. \A j \in Ids : Fresh(j) \/ Fades(j)
    BY <1>2, <1>5 DEF Fades
  <2> QED  BY <1>1, <1>7, <1>8, <2>1, <2>2 DEF Artifacts
<1>10. VouchInv(s)'
  BY <1>6, <1>7, <1>9, VouchStays
<1>11. \A j \in Ids : Fresh(j)' => ~Reads(s, j)' /\ verified'[s][j].prints = Unknown /\ j \notin op'[s].listed
  BY <1>4, <1>6, <1>8, CallFields DEF IntactInv, FreshInv, Reads, Runs, Reading
<1>12. ServedIsIntact' /\ \A j \in Ids : used'[j].whole /\ used'[j] = used[j]
  BY <1>1 DEF IntactInv, ServedIsIntact
<1> QED
  BY <1>1, <1>4, <1>5, <1>6, <1>7, <1>9, <1>10, <1>11, <1>12 DEF StepOf

\* One of the files of artifact i becomes f.
Edits(i, f) == \/ files' = [files EXCEPT ![i].data = f] /\ f \in Edited(files[i].data)
               \/ files' = [files EXCEPT ![i].meta = f] /\ f \in Edited(files[i].meta)

\* An edit gives a file a fingerprint that it never had.
LEMMA EditFields ==
  ASSUME IntactInv, NEW i \in Ids, NEW f, f \in Edited(files[i].data) \cup Edited(files[i].meta),
         mishaps < MaxMishaps, mishaps' = mishaps + 1
  PROVE  /\ f \in File /\ f.version = 2 + mishaps /\ f.version \notin 1 .. 1 + mishaps
         /\ f.version <= 1 + mishaps'
<1>1. mishaps \in Nat /\ MaxMishaps \in Nat
  BY StoreAssumption DEF IntactInv, StoreTypes, StoreTypeOK
<1>2. f.version = 2 + mishaps /\ f \in [version : {2 + mishaps}, body : Bodies]
  BY DEF Edited, Bodies
<1>3. 2 + mishaps \in 0 .. 1 + MaxMishaps
  BY <1>1
<1>4. f \in File  BY <1>2, <1>3 DEF File
<1>5. 2 + mishaps = 1 + (mishaps + 1) /\ 2 + mishaps \notin 1 .. 1 + mishaps  BY <1>1
<1> QED  BY <1>1, <1>2, <1>4, <1>5

\* A step of the surroundings leaves every call alone; a file that is edited was there.
LEMMA SurroundingsFields ==
  ASSUME IntactInv, StoreSurroundings
  PROVE  /\ StoreTypes' /\ VersionsInv' /\ Artifacts
         /\ UNCHANGED <<temps, op, verified, used, reads, served, settled, skipped>>
         /\ \A i \in Ids : /\ files'[i].data = files[i].data \/ files'[i].data.version \notin 0 .. 1 + mishaps
                           /\ files'[i].meta = files[i].meta \/ files'[i].meta.version \notin 0 .. 1 + mishaps
<1>1. /\ files \in [Ids -> [data : File, meta : File]] /\ mishaps \in Nat /\ clock \in Nat
      /\ MaxMishaps \in Nat /\ MaxClock \in Nat /\ VersionsInv /\ FreshInv /\ StoreTypes
  BY StoreAssumption DEF IntactInv, StoreTypes, StoreTypeOK
<1>2. ASSUME NEW i \in Ids, mishaps < MaxMishaps, mishaps' = mishaps + 1,
             UNCHANGED <<temps, op, verified, used, clock, reads, served, settled, skipped>>,
             NEW f, Edits(i, f)
      PROVE  /\ StoreTypes' /\ VersionsInv' /\ Artifacts
             /\ UNCHANGED <<temps, op, verified, used, reads, served, settled, skipped>>
             /\ \A j \in Ids : /\ files'[j].data = files[j].data \/ files'[j].data.version \notin 0 .. 1 + mishaps
                               /\ files'[j].meta = files[j].meta \/ files'[j].meta.version \notin 0 .. 1 + mishaps
  <2>1. /\ f \in File /\ f.version = 2 + mishaps /\ f.version \notin 1 .. 1 + mishaps
        /\ f.version <= 1 + mishaps' /\ f.version \notin {0, 1} /\ f.version \notin 0 .. 1 + mishaps
    <3>1. /\ f \in File /\ f.version = 2 + mishaps /\ f.version \notin 1 .. 1 + mishaps
          /\ f.version <= 1 + mishaps'
      BY <1>2, EditFields DEF Edits
    <3>2. 2 + mishaps \notin {0, 1} /\ 2 + mishaps \notin 0 .. 1 + mishaps  BY <1>1
    <3> QED  BY <3>1, <3>2
  <2>2. /\ files' \in [Ids -> [data : File, meta : File]]
        /\ \A j \in Ids \ {i} : files'[j] = files[j]
        /\ \/ files'[i].data = f /\ files'[i].meta = files[i].meta /\ files[i].data # Absent
           \/ files'[i].meta = f /\ files'[i].data = files[i].data /\ files[i].meta # Absent
    BY <1>1, <1>2, <2>1 DEF Edited, Edits
  <2>3. mishaps' \in 0 .. MaxMishaps /\ mishaps <= mishaps'
    <3>1. \A m, n \in Nat : m < n => m + 1 \in 0 .. n /\ m <= m + 1  OBVIOUS
    <3> QED  BY <1>1, <1>2, <3>1
  <2>4. StoreTypes'
    BY <1>1, <1>2, <2>2, <2>3 DEF StoreTypes, StoreTypeOK
  <2>5. VersionsInv'
    <3> SUFFICES ASSUME NEW j \in Ids, NEW g \in {files[j].data, files[j].meta, f}
                 PROVE  g.version <= 1 + mishaps' /\ (g.version \in {0, 1} => g.body = "original")
      BY <2>2 DEF VersionsInv
    <3>1. CASE g = f  BY <2>1, <3>1
    <3>2. CASE g # f
      <4>1. g.version <= 1 + mishaps /\ (g.version \in {0, 1} => g.body = "original")
        BY <1>1, <3>2 DEF VersionsInv
      <4>2. g.version \in Int  BY <3>2, FileFields DEF File
      <4>3. \A v \in Int : v <= 1 + mishaps => v <= 1 + (mishaps + 1)  BY <1>1
      <4> QED  BY <1>2, <4>1, <4>2, <4>3
    <3> QED  BY <3>1, <3>2
  <2>6. \A j \in Ids : Fades(j)
    BY <2>1, <2>2 DEF Fades
  <2>7. ASSUME NEW j \in Ids, Fresh(j)'
        PROVE  Fresh(j) /\ files'[j].meta.version = 0 /\ j \notin settled'
    <3>1. Fresh(j)  BY <1>2, <2>7 DEF Fresh, Runs
    <3>2. files[j].meta.version = 0 /\ j \notin settled  BY <1>1, <3>1 DEF FreshInv
    <3>3. files[j].meta = Absent
      <4>1. files[j].meta \in [version : 0 .. 1 + MaxMishaps, body : Bodies]
        BY <1>1 DEF File
      <4>2. files[j].meta.body = "original"  BY <1>1, <3>2 DEF VersionsInv
      <4> QED  BY <3>2, <4>1, <4>2 DEF Absent
    <3>4. files'[j].meta = files[j].meta  BY <2>2, <3>3
    <3> QED  BY <1>2, <3>1, <3>2, <3>4
  <2> QED  BY <1>2, <2>1, <2>2, <2>3, <2>4, <2>5, <2>6, <2>7 DEF Artifacts
<1>3. ASSUME clock < MaxClock, clock' = clock + 1,
             UNCHANGED <<files, temps, op, verified, used, reads, mishaps, served, settled, skipped>>
      PROVE  StoreTypes' /\ VersionsInv' /\ Artifacts
  <2>1. clock' \in 0 .. MaxClock
    <3>1. \A m, n \in Nat : m < n => m + 1 \in 0 .. n  OBVIOUS
    <3> QED  BY <1>1, <1>3, <3>1
  <2>2. StoreTypes'  BY <1>1, <1>3, <2>1 DEF StoreTypes, StoreTypeOK
  <2>3. VersionsInv'  BY <1>1, <1>3 DEF VersionsInv
  <2>4. \A j \in Ids : Fresh(j)' = Fresh(j)  BY <1>3 DEF Fresh, Runs
  <2> QED  BY <1>1, <1>3, <2>2, <2>3, <2>4 DEF Artifacts, Fades, FreshInv
<1>4. CASE /\ mishaps < MaxMishaps /\ mishaps' = mishaps + 1
           /\ \E i \in Ids : \/ \E f \in Edited(files[i].data) : files' = [files EXCEPT ![i].data = f]
                             \/ \E f \in Edited(files[i].meta) : files' = [files EXCEPT ![i].meta = f]
           /\ UNCHANGED <<temps, op, verified, used, clock, reads, served, settled, skipped>>
  <2>1. PICK i \in Ids : \/ \E f \in Edited(files[i].data) : files' = [files EXCEPT ![i].data = f]
                         \/ \E f \in Edited(files[i].meta) : files' = [files EXCEPT ![i].meta = f]
    BY <1>4
  <2>2. PICK f : Edits(i, f)
    BY <2>1 DEF Edits
  <2>3. /\ mishaps < MaxMishaps /\ mishaps' = mishaps + 1
        /\ UNCHANGED <<temps, op, verified, used, clock, reads, served, settled, skipped>>
    BY <1>4
  <2> QED  BY <1>2, <2>2, <2>3
<1>5. CASE /\ clock < MaxClock /\ clock' = clock + 1
           /\ UNCHANGED <<files, temps, op, verified, used, reads, mishaps, served, settled, skipped>>
  BY <1>3, <1>5
<1> QED  BY <1>4, <1>5 DEF StoreSurroundings

LEMMA SurroundingsKeepIntact == IntactInv /\ StoreSurroundings => IntactInv'
<1> SUFFICES ASSUME IntactInv, StoreSurroundings PROVE IntactInv'
  OBVIOUS
<1>1. /\ StoreTypes' /\ VersionsInv' /\ Artifacts
      /\ UNCHANGED <<temps, op, verified, used, reads, served, settled, skipped>>
  BY SurroundingsFields
<1>2. CreatorsInv' /\ ServedIsIntact' /\ \A i \in Ids : used'[i].whole
  BY <1>1 DEF IntactInv, CreatorsInv, IsCreate, ServedIsIntact
<1>3. FreshInv'
  <2> SUFFICES ASSUME NEW i \in Ids, Fresh(i)'
               PROVE  /\ files'[i].meta.version = 0 /\ i \notin settled'
                      /\ \A s \in Sidecars : /\ ~Reads(s, i)' /\ verified'[s][i].prints = Unknown
                                             /\ i \notin op'[s].listed
    BY DEF FreshInv
  <2>1. Fresh(i) /\ files'[i].meta.version = 0 /\ i \notin settled'  BY <1>1 DEF Artifacts
  <2> QED  BY <1>1, <2>1 DEF IntactInv, FreshInv, Reads, Runs
<1>4. \A s \in Sidecars : CallInv(s)'
  BY <1>1 DEF IntactInv, CallInv, Runs, IsCreate
<1>5. \A s \in Sidecars : VouchInv(s)' /\ ReadInv(s)'
  BY <1>1, VouchStays, ReadStays
<1> QED  BY <1>1, <1>2, <1>3, <1>4, <1>5 DEF IntactInv

LEMMA IntactInitial == StoreInit => IntactInv
<1> SUFFICES ASSUME StoreInit PROVE IntactInv
  OBVIOUS
<1>1. /\ Unknown \in Prints /\ Absent \in File /\ "original" \in Bodies
      /\ 0 \in 0 .. MaxClock /\ 0 \in 0 .. MaxReads /\ 0 \in 0 .. MaxMishaps /\ 0 \in 0 .. MaxIds
      /\ -1 \in -1 .. MaxClock /\ 0 < Pieces
  BY StoreAssumption DEF Unknown, Prints, Absent, File, Bodies
<1>2. NoOp.phase = "idle" /\ NoOp.kind = "list" /\ NoOp.listed = {} /\ NoOp.whole /\ NoOp.got = 0
  BY DEF NoOp
<1>3. /\ op \in [Sidecars -> OpCall] /\ \A s \in Sidecars : op[s] = NoOp
  BY NoOpIsACall DEF StoreInit
<1>4. StoreTypes
  <2>1. \A s \in Sidecars : /\ op[s].kind \in Kinds /\ op[s].phase \in Phases /\ op[s].id \in 0 .. MaxIds
                            /\ op[s].todo \subseteq Ids /\ op[s].listed \subseteq Ids
                            /\ op[s].prints \in Prints /\ {op[s].body, op[s].bytes} \subseteq Bodies
                            /\ op[s].got \in 0 .. Pieces /\ op[s].whole \in BOOLEAN
    <3> SUFFICES ASSUME NEW c \in OpCall
                 PROVE  /\ c.kind \in Kinds /\ c.phase \in Phases /\ c.id \in 0 .. MaxIds
                        /\ c.todo \subseteq Ids /\ c.listed \subseteq Ids
                        /\ c.prints \in Prints /\ {c.body, c.bytes} \subseteq Bodies
                        /\ c.got \in 0 .. Pieces /\ c.whole \in BOOLEAN
      BY <1>3
    <3> QED  BY DEF OpCall
  <2> QED  BY <1>1, <1>3, <2>1 DEF StoreInit, StoreTypes, StoreTypeOK
<1>5. VersionsInv
  BY <1>1, StoreAssumption DEF StoreInit, VersionsInv, Absent
<1>6. FreshInv
  BY <1>2, <1>3 DEF StoreInit, FreshInv, Absent, Reads, Runs, Reading
<1>7. CreatorsInv /\ \A s \in Sidecars : CallInv(s) /\ ReadInv(s)
  BY <1>1, <1>2, <1>3 DEF CreatorsInv, IsCreate, CallInv, ReadInv, Runs, Creating, Reading
<1>8. ServedIsIntact /\ \A s \in Sidecars : VouchInv(s)
  BY DEF StoreInit, ServedIsIntact, VouchInv
<1>9. \A i \in Ids : used[i].whole
  BY DEF StoreInit
<1> QED  BY <1>4, <1>5, <1>6, <1>7, <1>8, <1>9 DEF IntactInv

LEMMA SidecarKeepsIntact ==
  ASSUME IntactInv, NEW s \in Sidecars, StoreSteps(s)
  PROVE  StepOf(s)
<1>1. CASE Begin(s)        BY <1>1, BeginIsQuiet, QuietStepKeeps
<1>2. CASE Capture(s)      BY <1>2, CaptureIsQuiet, QuietStepKeeps
<1>3. CASE WriteTemps(s)   BY <1>3, WriteTempsKeeps
<1>4. CASE ReplaceData(s)  BY <1>4, ReplaceDataKeeps
<1>5. CASE ReplaceMeta(s)  BY <1>5, ReplaceMetaKeeps
<1>6. CASE Prune(s)        BY <1>6, PruneIsQuiet, QuietStepKeeps
<1>7. CASE UnlinkData(s)   BY <1>7, UnlinkDataKeeps
<1>8. CASE UnlinkMeta(s)   BY <1>8, UnlinkMetaKeeps
<1>9. CASE Pruned(s)       BY <1>9, PrunedKeeps
<1>10. CASE Fails(s)       BY <1>10, FailsIsQuiet, QuietStepKeeps
<1>11. CASE CleanUp(s)     BY <1>11, CleanUpKeeps
<1>12. CASE ListNext(s)    BY <1>12, ListNextIsQuiet, QuietStepKeeps
<1>13. CASE Open(s)        BY <1>13, OpenIsQuiet, QuietStepKeeps
<1>14. CASE Hash(s)        BY <1>14, HashIsQuiet, QuietStepKeeps
<1>15. CASE Recheck(s)     BY <1>15, RecheckKeeps
<1>16. CASE Read(s)        BY <1>16, ReadIsQuiet, QuietStepKeeps
<1>17. CASE RecheckRead(s) BY <1>17, RecheckReadKeeps
<1>18. CASE Dies(s)        BY <1>18, DiesKeeps
<1> QED
  BY <1>1, <1>2, <1>3, <1>4, <1>5, <1>6, <1>7, <1>8, <1>9, <1>10, <1>11, <1>12, <1>13, <1>14,
     <1>15, <1>16, <1>17, <1>18 DEF StoreSteps

LEMMA IntactStep == IntactInv /\ [StoreNext]_storeVars => IntactInv'
<1> SUFFICES ASSUME IntactInv, [StoreNext]_storeVars PROVE IntactInv'
  OBVIOUS
<1>1. ASSUME NEW s \in Sidecars, StoreSteps(s) PROVE IntactInv'
  BY <1>1, SidecarKeepsIntact, StepKeepsIntact
<1>2. CASE StoreSurroundings  BY <1>2, SurroundingsKeepIntact
<1>3. CASE UNCHANGED storeVars
  BY <1>3 DEF storeVars, IntactInv, StoreTypes, StoreTypeOK, CreatorsInv, IsCreate, VersionsInv, FreshInv,
     Fresh, Reads, Runs, ServedIsIntact, CallInv, VouchInv, ReadInv, Recorded, Vouched, StillThere, PrintsOf
<1> QED  BY <1>1, <1>2, <1>3 DEF StoreNext

\* An artifact that is served agrees with the hash it is served with, although files are
\* edited, replaced and removed by anybody between any two of the system calls, and verdicts
\* are cached (artifacts.py 229-274 and 435-446).
THEOREM ArtifactsIntact == StoreSpec => [](StoreTypeOK /\ ServedIsIntact)
<1>1. IntactInv => StoreTypeOK /\ ServedIsIntact
  BY DEF IntactInv, StoreTypes
<1>2. StoreSpec => []IntactInv
  BY IntactInitial, IntactStep, PTL DEF StoreSpec
<1> QED  BY <1>1, <1>2, PTL

(* How many artifacts stay. *)

LEMMA NatsHaveLeast == \A T \in SUBSET Nat : T # {} => \E m \in T : \A n \in T : m <= n
<1> SUFFICES ASSUME NEW T \in SUBSET Nat, T # {} PROVE \E m \in T : \A n \in T : m <= n
  OBVIOUS
<1> DEFINE R == OpToRel(<, Nat)
<1>1. \A m, n \in Nat : m < n => <<m, n>> \in R
  BY DEF OpToRel
<1>2. IsWellFoundedOn(R, Nat)  BY NatLessThanWellFounded
<1> HIDE DEF R
<1>3. PICK m \in T : \A n \in T : ~(<<n, m>> \in R)
  BY <1>2, WFMin
<1>4. \A n \in T : m <= n
  <2> TAKE n \in T
  <2>1. m \in Nat /\ n \in Nat /\ ~(n < m)
    BY <1>1, <1>3
  <2> QED  BY <2>1
<1> QED  BY <1>4

\* Of some artifacts one is the oldest.
LEMMA OneIsOldest ==
  ASSUME IntactInv, NEW K \in SUBSET Ids, K # {}
  PROVE  \E m \in K : \A k \in K : k = m \/ Older(m, k)
<1>1. /\ \A i \in Ids : used[i].at \in -1 .. MaxClock
      /\ Ids \subseteq Nat /\ MaxClock \in Nat
  BY StoreAssumption DEF IntactInv, StoreTypes, StoreTypeOK, Ids
<1> DEFINE T == {used[i].at + 1 : i \in K}
<1>2. T \in SUBSET Nat /\ T # {}
  <2>1. \A i \in K : used[i].at + 1 \in Nat
    <3> TAKE i \in K
    <3>1. used[i].at \in -1 .. MaxClock  BY <1>1
    <3> QED  BY <1>1, <3>1
  <2> QED  BY <2>1
<1>3. PICK a \in T : \A b \in T : a <= b
  BY <1>2, NatsHaveLeast
<1> DEFINE L == {i \in K : used[i].at + 1 = a}
<1>4. L \in SUBSET Nat /\ L # {}
  BY <1>1, <1>3
<1>5. PICK m \in L : \A k \in L : m <= k
  BY <1>4, NatsHaveLeast
<1>6. ASSUME NEW k \in K PROVE k = m \/ Older(m, k)
  <2>1. m \in Nat /\ k \in Nat /\ used[m].at \in Int /\ used[k].at \in Int /\ used[m].at + 1 = a
    BY <1>1, <1>5
  <2>2. used[m].at + 1 <= used[k].at + 1
    BY <1>3, <2>1
  <2>3. CASE used[m].at = used[k].at
    <3>1. k \in L  BY <2>1, <2>3
    <3> QED  BY <1>5, <2>1, <2>3, <3>1 DEF Older
  <2>4. CASE used[m].at # used[k].at
    BY <2>1, <2>2, <2>4 DEF Older
  <2> QED  BY <2>3, <2>4
<1> QED  BY <1>5, <1>6

\* What a prune does not remove is within the bound.
LEMMA SurvivorsAreFew ==
  ASSUME IntactInv, NEW seen \in SUBSET Ids
  PROVE  IsFiniteSet(seen) /\ Cardinality(seen \ Removals(seen)) <= MaxArtifacts
<1> DEFINE kept == seen \ Expired(seen)
           newer(i) == {j \in kept : Older(i, j)}
           K == seen \ Removals(seen)
<1>1. seen \subseteq Ids /\ IsFiniteSet(Ids) /\ MaxArtifacts \in Nat \ {0}
  BY StoreAssumption, FS_Interval DEF Ids
<1>2. IsFiniteSet(seen) /\ IsFiniteSet(K)
  BY <1>1, FS_Subset
<1>3. K \subseteq kept /\ \A i \in K : ~(Cardinality(newer(i)) >= MaxArtifacts)
  BY DEF Removals, Expired
<1>4. CASE K = {}
  BY <1>1, <1>2, <1>4, FS_EmptySet
<1>5. CASE K # {}
  <2>1. PICK m \in K : \A k \in K : k = m \/ Older(m, k)
    BY <1>1, <1>5, OneIsOldest
  <2> DEFINE N == newer(m)
  <2>2. K \subseteq N \cup {m} /\ IsFiniteSet(N) /\ ~(Cardinality(N) >= MaxArtifacts)
    BY <1>2, <1>3, <2>1, FS_Subset
  <2> HIDE DEF N, K
  <2>3. Cardinality(N) \in Nat /\ Cardinality(N) < MaxArtifacts
    BY <1>1, <2>2, FS_CardinalityType
  <2>4. IsFiniteSet(N \cup {m}) /\ Cardinality(N \cup {m}) <= Cardinality(N) + 1
    <3>1. IsFiniteSet(N)  BY <2>2
    <3> HIDE DEF newer, kept
    <3>2. IsFiniteSet(N \cup {m}) /\ Cardinality(N \cup {m}) = IF m \in N THEN Cardinality(N) ELSE Cardinality(N) + 1
      BY <3>1, FS_AddElement
    <3> QED  BY <2>3, <3>2
  <2>5. Cardinality(K) <= Cardinality(N \cup {m})
    BY <2>2, <2>4, FS_Subset
  <2>6. Cardinality(K) \in Nat /\ Cardinality(N \cup {m}) \in Nat
    BY <1>2, <2>4, FS_CardinalityType
  <2>7. Cardinality(K) <= MaxArtifacts
    BY <1>1, <2>3, <2>4, <2>5, <2>6
  <2> QED  BY <1>2, <2>7 DEF K
<1> QED  BY <1>2, <1>4, <1>5

\* A subset of the artifacts is no larger than another that contains it.
LEMMA FewerIds ==
  ASSUME NEW S \in SUBSET Ids, NEW T \in SUBSET S, Cardinality(S) <= MaxArtifacts
  PROVE  Cardinality(T) <= MaxArtifacts
<1>1. IsFiniteSet(Ids) /\ MaxArtifacts \in Nat
  BY StoreAssumption, FS_Interval DEF Ids
<1>2. IsFiniteSet(S) /\ IsFiniteSet(T) /\ Cardinality(T) <= Cardinality(S)
  BY <1>1, FS_Subset
<1>3. Cardinality(S) \in Nat /\ Cardinality(T) \in Nat
  BY <1>2, FS_CardinalityType
<1> QED  BY <1>1, <1>2, <1>3

\* An artifact is pristine after a step only if it was before, or was fresh.
LEMMA PristineFades ==
  ASSUME IntactInv, Artifacts, NEW i \in Pristine'
  PROVE  i \in Ids /\ (i \in Pristine \/ Fresh(i))
<1>1. i \in Ids \ skipped /\ files'[i].meta.version = 1 /\ files'[i].data.version = 1
  BY DEF Pristine, PrintsOf, Artifacts
<1>2. mishaps \in Nat /\ 1 \in 1 .. 1 + mishaps
  BY DEF IntactInv, StoreTypes, StoreTypeOK
<1>3. ASSUME ~Fresh(i) PROVE i \in Pristine
  <2>1. Fades(i)  BY <1>1, <1>3 DEF Artifacts
  <2>2. files'[i].data = files[i].data /\ files'[i].meta = files[i].meta
    BY <1>1, <1>2, <2>1 DEF Fades
  <2> QED  BY <1>1, <2>2 DEF Pristine, PrintsOf
<1> QED  BY <1>1, <1>3

\* What is listed loses pristine artifacts only.
LEMMA ListedFades ==
  ASSUME IntactInv, Artifacts, NEW S, \A i \in S : ~Fresh(i)
  PROVE  S \cap Pristine' \subseteq S \cap Pristine
BY PristineFades

LEMMA NestedFades ==
  ASSUME IntactInv, Artifacts, NEW S, NEW T, \A i \in S \cup T : ~Fresh(i), Nested(S, T)
  PROVE  S \cap Pristine' \subseteq T \/ T \cap Pristine' \subseteq S
<1>1. S \cap Pristine' \subseteq S \cap Pristine /\ T \cap Pristine' \subseteq T \cap Pristine
  BY ListedFades
<1> QED  BY <1>1 DEF Nested

\* Nothing that was settled or listed is fresh.
LEMMA SettledAreOld ==
  ASSUME IntactInv
  PROVE  /\ settled \subseteq Ids /\ \A i \in settled : ~Fresh(i)
         /\ \A t \in Sidecars : op[t].listed \subseteq Ids /\ \A i \in op[t].listed : ~Fresh(i)
<1>1. settled \subseteq Ids /\ FreshInv
  BY DEF IntactInv, StoreTypes, StoreTypeOK
<1>2. \A i \in settled : ~Fresh(i)  BY <1>1 DEF FreshInv
<1> QED  BY <1>1, <1>2, CallFields

\* A prune that goes on, or begins no listing.
PrunesOn(s) ==
  Prunes(s)' =>
    /\ Prunes(s) /\ op'[s].listed = op[s].listed /\ op'[s].todo \subseteq op[s].todo
    /\ (op[s].todo \ op'[s].todo) \cap Pristine' = {}
    /\ Runs(s, {"unlinkMeta"})' => Doomed(s)' \notin op'[s].todo \cap Pristine'

LEMMA BoundStays ==
  ASSUME IntactInv, BoundInv, Artifacts, settled' = settled,
         \A t \in Sidecars : op'[t] = op[t] \/ PrunesOn(t)
  PROVE  BoundInv'
<1>1. /\ settled \subseteq Ids /\ \A i \in settled : ~Fresh(i)
      /\ \A t \in Sidecars : op[t].listed \subseteq Ids /\ \A i \in op[t].listed : ~Fresh(i)
  BY SettledAreOld
<1>2. Cardinality(settled' \cap Pristine') <= MaxArtifacts
  <2>1. settled \cap Pristine' \subseteq settled \cap Pristine
    BY <1>1, ListedFades
  <2>2. settled \cap Pristine \subseteq Ids /\ Cardinality(settled \cap Pristine) <= MaxArtifacts
    BY <1>1 DEF BoundInv
  <2>3. settled \cap Pristine \in SUBSET Ids /\ settled \cap Pristine' \in SUBSET (settled \cap Pristine)
    BY <2>1, <2>2
  <2> QED  BY <2>2, <2>3, FewerIds
<1>3. ASSUME NEW t \in Sidecars, Prunes(t)'
      PROVE  /\ Prunes(t) /\ op'[t].listed = op[t].listed /\ op'[t].todo \subseteq op[t].todo
             /\ (op[t].todo \ op'[t].todo) \cap Pristine' = {}
             /\ Runs(t, {"unlinkMeta"})' => Doomed(t)' \notin op'[t].todo \cap Pristine'
  <2>1. CASE PrunesOn(t)  BY <1>3, <2>1 DEF PrunesOn
  <2>2. CASE op'[t] = op[t]
    <3>1. Prunes(t) /\ Doomed(t)' = Doomed(t)
      BY <1>3, <2>2 DEF Prunes, Runs, Doomed
    <3>2. PruneInv(t)  BY DEF BoundInv
    <3>3. op[t].todo \cap Pristine' \subseteq op[t].todo \cap Pristine
      <4>1. \A i \in op[t].todo : ~Fresh(i)  BY <1>1, <3>1, <3>2 DEF PruneInv
      <4> QED  BY <4>1, ListedFades
    <3> QED  BY <2>2, <3>1, <3>2, <3>3 DEF PruneInv, Runs
  <2> QED  BY <2>1, <2>2
<1>4. ASSUME NEW t \in Sidecars PROVE PruneInv(t)'
  <2> SUFFICES ASSUME Prunes(t)'
               PROVE  /\ op'[t].todo \subseteq op'[t].listed
                      /\ Runs(t, {"unlinkMeta"})' => Doomed(t)' \notin op'[t].todo \cap Pristine'
                      /\ Cardinality((op'[t].listed \cap Pristine') \ op'[t].todo) <= MaxArtifacts
                      /\ Nested(op[t].listed, settled)'
                      /\ \A u \in Sidecars : Prunes(u)' => Nested(op[t].listed, op[u].listed)'
    BY DEF PruneInv
  <2>1. /\ PruneInv(t) /\ Prunes(t) /\ op'[t].listed = op[t].listed /\ op'[t].todo \subseteq op[t].todo
        /\ (op[t].todo \ op'[t].todo) \cap Pristine' = {}
        /\ Runs(t, {"unlinkMeta"})' => Doomed(t)' \notin op'[t].todo \cap Pristine'
    BY <1>3 DEF BoundInv
  <2>2. Cardinality((op'[t].listed \cap Pristine') \ op'[t].todo) <= MaxArtifacts
    <3> DEFINE S == (op[t].listed \cap Pristine) \ op[t].todo
               T == (op[t].listed \cap Pristine') \ op'[t].todo
    <3>1. op[t].listed \cap Pristine' \subseteq op[t].listed \cap Pristine
      BY <1>1, ListedFades
    <3>2. S \in SUBSET Ids /\ T \in SUBSET S
      BY <1>1, <2>1, <3>1
    <3>3. Cardinality(S) <= MaxArtifacts  BY <2>1 DEF PruneInv
    <3> HIDE DEF S, T
    <3>4. Cardinality(T) <= MaxArtifacts  BY <3>2, <3>3, FewerIds
    <3> QED  BY <2>1, <3>4 DEF T
  <2>3. Nested(op[t].listed, settled)'
    BY <1>1, <2>1, NestedFades DEF PruneInv, Nested
  <2>4. ASSUME NEW u \in Sidecars, Prunes(u)' PROVE Nested(op[t].listed, op[u].listed)'
    <3>1. Prunes(u) /\ op'[u].listed = op[u].listed  BY <1>3, <2>4
    <3> QED  BY <1>1, <2>1, <3>1, NestedFades DEF PruneInv, Nested
  <2> QED  BY <2>1, <2>2, <2>3, <2>4 DEF PruneInv
<1> QED  BY <1>2, <1>4 DEF BoundInv

\* The actions that begin no prune, list nothing, and go on with none.
LEMMA IdlesOn ==
  ASSUME IntactInv, NEW s \in Sidecars, StoreSteps(s),
         ~Prune(s), ~UnlinkData(s), ~UnlinkMeta(s), ~Pruned(s)
  PROVE  ~Prunes(s)' /\ settled' = settled
<1>1. op[s] \in OpCall /\ op \in [Sidecars -> OpCall]  BY CallFields
<1> DEFINE Rest == {"idle", "capture", "write", "replaceData", "replaceMeta", "prune", "cleanTemps",
                    "cleanData", "cleanMeta", "next", "open", "hash", "recheck", "read", "recheckRead"}
<1>2. ASSUME op'[s].phase \in Rest \/ op'[s].kind = "delete" PROVE ~Prunes(s)'
  BY <1>2 DEF Prunes, Runs
<1>3. ASSUME NEW phase \in Rest, Goes(s, phase) PROVE ~Prunes(s)'
  <2>1. phase \in Phases  BY DEF Phases
  <2>2. op'[s].phase \in Rest  BY <1>3, <2>1, GoesFields
  <2> QED  BY <1>2, <2>2
<1>4. ASSUME Ends(s) PROVE ~Prunes(s)'
  <2>1. op'[s].phase = "idle"  BY <1>4, EndsMoves DEF NoOp
  <2> QED  BY <1>2, <2>1
<1>5. ASSUME Refuses(s) PROVE ~Prunes(s)'
  BY <1>3, <1>4, <1>5 DEF Refuses
<1>6. ASSUME Begin(s) PROVE ~Prunes(s)'
  <2>1. op[s] = NoOp
    BY <1>6, CallFields DEF Begin, CallInv
  <2> QED  BY <1>1, <1>2, <1>6, <2>1 DEF Begin, NoOp
<1>7. ASSUME Capture(s) PROVE ~Prunes(s)'
  <2>1. op[s].phase = "capture"  BY <1>7 DEF Capture, Runs
  <2>2. ASSUME ~Ends(s) PROVE op'[s].phase \in {"capture", "write"}
    <3>1. PICK last \in BOOLEAN, at \in 0 .. Pieces :
            op' = [op EXCEPT ![s].got = IF last THEN 0 ELSE @ + 1,
                             ![s].whole = @ /\ at = op[s].got,
                             ![s].kind = IF last THEN "dump" ELSE @,
                             ![s].phase = IF last THEN "write" ELSE @]
      BY <1>7, <2>2 DEF Capture
    <3> QED  BY <1>1, <2>1, <3>1 DEF OpCall
  <2> QED  BY <1>2, <1>4, <2>2
<1>8. ASSUME WriteTemps(s) PROVE ~Prunes(s)'
  BY <1>1, <1>2, <1>8 DEF WriteTemps, OpCall
<1>9. ASSUME Fails(s) PROVE ~Prunes(s)'
  BY <1>1, <1>2, <1>3, <1>4, <1>9 DEF Fails, OpCall
<1>10. ASSUME ListNext(s) PROVE ~Prunes(s)'
  BY <1>1, <1>2, <1>4, <1>10 DEF ListNext, OpCall
<1>11. ASSUME Open(s) PROVE ~Prunes(s)'
  BY <1>1, <1>2, <1>5, <1>11 DEF Open, OpCall
<1>12. ASSUME Hash(s) PROVE ~Prunes(s)'
  BY <1>1, <1>2, <1>5, <1>12 DEF Hash, OpCall
<1>13. ASSUME Recheck(s) PROVE ~Prunes(s)'
  BY <1>3, <1>5, <1>13 DEF Recheck
<1>14. ASSUME Read(s) PROVE ~Prunes(s)'
  BY <1>1, <1>2, <1>14 DEF Read, OpCall
<1>15. ASSUME CleanUp(s) PROVE ~Prunes(s)'
  BY <1>3, <1>4, <1>15 DEF CleanUp
<1>16. ~Prunes(s)'
  BY <1>3, <1>4, <1>6, <1>7, <1>8, <1>9, <1>10, <1>11, <1>12, <1>13, <1>14, <1>15
     DEF StoreSteps, ReplaceData, ReplaceMeta, RecheckRead, Dies
<1>17. settled' = settled
  BY DEF StoreSteps, Begin, Capture, WriteTemps, ReplaceData, ReplaceMeta, Fails, ListNext, Open, Hash,
     Recheck, Read, RecheckRead, CleanUp, Dies
<1> QED  BY <1>16, <1>17

\* A prune removes the first of what it has to, one file at a time.
LEMMA UnlinkDataOn ==
  ASSUME IntactInv, BoundInv, NEW s \in Sidecars, UnlinkData(s)
  PROVE  PrunesOn(s) /\ settled' = settled
<1>1. settled' = settled  BY DEF UnlinkData
<1>2. CASE Ends(s)
  BY <1>1, <1>2, EndsMoves DEF PrunesOn, Prunes, Runs, NoOp
<1>3. CASE Goes(s, "unlinkMeta") /\ files' = [files EXCEPT ![Doomed(s)].data = Absent]
  <2>1. /\ op'[s].phase = "unlinkMeta" /\ op'[s].kind = op[s].kind /\ op'[s].id = op[s].id
        /\ op'[s].todo = op[s].todo /\ op'[s].listed = op[s].listed
    <3>1. "unlinkMeta" \in Phases  BY DEF Phases
    <3> QED  BY <1>3, <3>1, GoesFields
  <2>2. Doomed(s)' = Doomed(s)  BY <2>1 DEF Doomed
  <2>3. Doomed(s) \notin Pristine'
    <3> SUFFICES ASSUME Doomed(s) \in Ids PROVE files'[Doomed(s)].data.version # 1
      BY DEF Pristine, PrintsOf
    <3>1. files \in [Ids -> [data : File, meta : File]]
      BY DEF IntactInv, StoreTypes, StoreTypeOK
    <3>2. files'[Doomed(s)].data = Absent  BY <1>3, <3>1
    <3> QED  BY <3>2 DEF Absent
  <2>4. Prunes(s)' => Prunes(s)
    BY <2>1 DEF Prunes, UnlinkData, Runs
  <2> QED  BY <1>1, <2>1, <2>2, <2>3, <2>4 DEF PrunesOn
<1> QED  BY <1>2, <1>3 DEF UnlinkData

LEMMA UnlinkMetaOn ==
  ASSUME IntactInv, BoundInv, NEW s \in Sidecars, UnlinkMeta(s), Artifacts
  PROVE  PrunesOn(s) /\ settled' = settled
<1>1. settled' = settled  BY DEF UnlinkMeta
<1>2. CASE Ends(s)
  BY <1>1, <1>2, EndsMoves DEF PrunesOn, Prunes, Runs, NoOp
<1>3. CASE op[s].kind # "delete" /\ op' = [op EXCEPT ![s].todo = @ \ {Doomed(s)}, ![s].phase = "unlinkData"]
  <2>1. op' = [op EXCEPT ![s].todo = op[s].todo \ {Doomed(s)}, ![s].phase = "unlinkData"]
    BY <1>3
  <2>2. op[s].todo \ {Doomed(s)} \in SUBSET Ids  BY CallFields
  <2>3. /\ op'[s].todo = op[s].todo \ {Doomed(s)} /\ op'[s].phase = "unlinkData"
        /\ op'[s].listed = op[s].listed /\ op'[s].kind = op[s].kind
    BY <2>1, <2>2, ListingMoves
  <2>4. Prunes(s) /\ PruneInv(s) /\ Runs(s, {"unlinkMeta"})
    BY <1>3 DEF Prunes, UnlinkMeta, Runs, BoundInv
  <2>5. (op[s].todo \ op'[s].todo) \cap Pristine' = {}
    <3>1. \A i \in op[s].todo : ~Fresh(i)  BY <2>4, SettledAreOld DEF PruneInv
    <3>2. op[s].todo \cap Pristine' \subseteq op[s].todo \cap Pristine  BY <3>1, ListedFades
    <3>3. Doomed(s) \notin op[s].todo \cap Pristine  BY <2>4 DEF PruneInv
    <3> QED  BY <2>3, <3>2, <3>3
  <2>6. ~Runs(s, {"unlinkMeta"})'  BY <2>3 DEF Runs
  <2> QED  BY <1>1, <2>3, <2>4, <2>5, <2>6 DEF PrunesOn
<1> QED  BY <1>2, <1>3 DEF UnlinkMeta

\* A new listing has all that others have listed, that is still there and that it has seen.
LEMMA PruneKeepsBound ==
  ASSUME IntactInv, BoundInv, NEW s \in Sidecars, Prune(s), Artifacts
  PROVE  BoundInv'
<1>1. PICK missed \in SUBSET Owned : Lists(s, missed)
  BY PruneIsQuiet
<1> DEFINE seen == Owned \ missed
<1>2. /\ op'[s].todo = Removals(seen) /\ op'[s].listed = seen /\ op'[s].phase = "unlinkData"
      /\ skipped' = skipped \cup missed /\ UNCHANGED <<files, settled>>
      /\ \A t \in Sidecars \ {s} : op'[t] = op[t]
  BY <1>1, CallFields DEF Lists, Prune
<1>3. seen \subseteq Ids /\ Removals(seen) \subseteq seen
  BY DEF Removals, Expired, Owned
<1>4. Pristine' \subseteq seen
  <2>1. Pristine \subseteq Owned
    BY DEF Pristine, PrintsOf, Owned, IntactInv, VersionsInv
  <2>2. Pristine' \subseteq Pristine /\ Pristine' \cap missed = {}
    BY <1>2 DEF Pristine, PrintsOf
  <2> QED  BY <2>1, <2>2
<1>5. /\ settled \subseteq Ids /\ \A i \in settled : ~Fresh(i)
      /\ \A t \in Sidecars : op[t].listed \subseteq Ids /\ \A i \in op[t].listed : ~Fresh(i)
  BY SettledAreOld
<1>6. \A S : S \cap Pristine' \subseteq seen
  BY <1>4
<1>7. Cardinality((seen \cap Pristine') \ Removals(seen)) <= MaxArtifacts
  <2> DEFINE K == seen \ Removals(seen)
             T == (seen \cap Pristine') \ Removals(seen)
  <2>1. K \in SUBSET Ids /\ T \in SUBSET K
    BY <1>3
  <2>2. Cardinality(K) <= MaxArtifacts  BY <1>3, SurvivorsAreFew
  <2> HIDE DEF K, T, seen
  <2>3. Cardinality(T) <= MaxArtifacts  BY <2>1, <2>2, FewerIds
  <2> QED  BY <2>3 DEF T
<1>8. Cardinality(settled' \cap Pristine') <= MaxArtifacts
  <2>1. settled \cap Pristine' \subseteq settled \cap Pristine  BY <1>5, ListedFades
  <2>2. settled \cap Pristine \in SUBSET Ids /\ settled \cap Pristine' \in SUBSET (settled \cap Pristine)
        /\ Cardinality(settled \cap Pristine) <= MaxArtifacts
    BY <1>5, <2>1 DEF BoundInv
  <2> QED  BY <1>2, <2>2, FewerIds
<1> HIDE DEF seen
<1>9. PruneInv(s)'
  <2>1. ~Runs(s, {"unlinkMeta"})'  BY <1>2 DEF Runs
  <2>2. Nested(op[s].listed, settled)'  BY <1>2, <1>6 DEF Nested
  <2>3. \A t \in Sidecars : Nested(op[s].listed, op[t].listed)'
    BY <1>2, <1>6 DEF Nested
  <2> QED  BY <1>2, <1>3, <1>7, <2>1, <2>2, <2>3 DEF PruneInv
<1>10. ASSUME NEW t \in Sidecars, t # s, Prunes(t)' PROVE PruneInv(t)'
  <2>1. op'[t] = op[t] /\ PruneInv(t)  BY <1>2, <1>10 DEF BoundInv
  <2>2. Prunes(t) /\ Runs(t, {"unlinkMeta"})' = Runs(t, {"unlinkMeta"}) /\ Doomed(t)' = Doomed(t)
    BY <1>10, <2>1 DEF Prunes, Runs, Doomed
  <2>3. op[t].listed \cap Pristine' \subseteq op[t].listed \cap Pristine
    BY <1>5, ListedFades
  <2>4. op[t].todo \subseteq op[t].listed  BY <2>1, <2>2 DEF PruneInv
  <2>5. Runs(t, {"unlinkMeta"})' => Doomed(t)' \notin op'[t].todo \cap Pristine'
    BY <2>1, <2>2, <2>3, <2>4 DEF PruneInv
  <2>6. Cardinality((op'[t].listed \cap Pristine') \ op'[t].todo) <= MaxArtifacts
    <3> DEFINE S == (op[t].listed \cap Pristine) \ op[t].todo
               T == (op[t].listed \cap Pristine') \ op[t].todo
    <3>1. S \in SUBSET Ids /\ T \in SUBSET S
      BY <1>5, <2>3
    <3>2. Cardinality(S) <= MaxArtifacts  BY <2>1, <2>2 DEF PruneInv
    <3> HIDE DEF S, T
    <3>3. Cardinality(T) <= MaxArtifacts  BY <3>1, <3>2, FewerIds
    <3> QED  BY <2>1, <3>3 DEF T
  <2>7. Nested(op[t].listed, settled)'
    BY <1>2, <1>5, <2>1, <2>2, NestedFades DEF PruneInv, Nested
  <2>8. ASSUME NEW u \in Sidecars, Prunes(u)' PROVE Nested(op[t].listed, op[u].listed)'
    <3>1. CASE u = s  BY <1>2, <1>6, <2>1, <3>1 DEF Nested
    <3>2. CASE u # s
      <4>1. op'[u] = op[u] /\ Prunes(u)  BY <1>2, <2>8, <3>2 DEF Prunes, Runs
      <4>2. Nested(op[t].listed, op[u].listed)  BY <2>1, <2>2, <4>1 DEF PruneInv
      <4> QED  BY <1>5, <2>1, <4>1, <4>2, NestedFades DEF Nested
    <3> QED  BY <3>1, <3>2
  <2> QED  BY <2>1, <2>4, <2>5, <2>6, <2>7, <2>8 DEF PruneInv
<1>11. \A t \in Sidecars : PruneInv(t)'
  BY <1>9, <1>10 DEF PruneInv
<1> QED  BY <1>8, <1>11 DEF BoundInv

\* A prune that is complete: of what it listed and what was settled one has it all.
LEMMA PrunedKeepsBound ==
  ASSUME IntactInv, BoundInv, NEW s \in Sidecars, Pruned(s)
  PROVE  BoundInv'
<1>1. /\ Prunes(s) /\ PruneInv(s) /\ op[s].todo = {} /\ settled' = settled \cup op[s].listed
      /\ files' = files /\ Pristine' = Pristine
  BY DEF Pruned, Prunes, Runs, BoundInv, Pristine, PrintsOf
<1>2. ~Prunes(s)' /\ \A t \in Sidecars \ {s} : op'[t] = op[t]
  <2>1. CASE Ends(s)
    <3>1. op'[s].phase = "idle"  BY <2>1, EndsMoves DEF NoOp
    <3>2. \A t \in Sidecars \ {s} : op'[t] = op[t]  BY <2>1, CallFields DEF Ends
    <3> QED  BY <3>1, <3>2 DEF Prunes, Runs
  <2>2. CASE op' = [op EXCEPT ![s].phase = "next", ![s].todo = Owned]
    BY <2>2, CallFields DEF OpCall, Prunes, Runs
  <2> QED  BY <2>1, <2>2 DEF Pruned
<1>3. Cardinality(op[s].listed \cap Pristine) <= MaxArtifacts
  <2>1. (op[s].listed \cap Pristine) \ op[s].todo = op[s].listed \cap Pristine  BY <1>1
  <2> QED  BY <1>1, <2>1 DEF PruneInv
<1>4. Nested(op[s].listed, settled)  BY <1>1 DEF PruneInv
<1>5. Cardinality(settled' \cap Pristine') <= MaxArtifacts
  <2>1. \/ settled' \cap Pristine' = settled \cap Pristine
        \/ settled' \cap Pristine' = op[s].listed \cap Pristine
    BY <1>1, <1>4 DEF Nested
  <2> QED  BY <1>3, <2>1 DEF BoundInv
<1>6. ASSUME NEW t \in Sidecars, Prunes(t)' PROVE PruneInv(t)'
  <2>1. t # s /\ op'[t] = op[t] /\ PruneInv(t)  BY <1>2, <1>6 DEF BoundInv
  <2>2. Prunes(t) /\ Runs(t, {"unlinkMeta"})' = Runs(t, {"unlinkMeta"}) /\ Doomed(t)' = Doomed(t)
    BY <1>6, <2>1 DEF Prunes, Runs, Doomed
  <2>3. Nested(op[t].listed, settled) /\ Nested(op[t].listed, op[s].listed)
    BY <1>1, <2>1, <2>2 DEF PruneInv
  <2>4. Nested(op[t].listed, settled)'
    BY <1>1, <1>4, <2>1, <2>3 DEF Nested
  <2>5. ASSUME NEW u \in Sidecars, Prunes(u)' PROVE Nested(op[t].listed, op[u].listed)'
    <3>1. u # s /\ op'[u] = op[u] /\ Prunes(u)  BY <1>2, <2>5 DEF Prunes, Runs
    <3> QED  BY <1>1, <2>1, <2>2, <3>1 DEF PruneInv, Nested
  <2> QED  BY <1>1, <2>1, <2>2, <2>4, <2>5 DEF PruneInv
<1> QED  BY <1>5, <1>6 DEF BoundInv, PruneInv

LEMMA BoundInitial == StoreInit => BoundInv
<1> SUFFICES ASSUME StoreInit PROVE BoundInv
  OBVIOUS
<1>1. settled \cap Pristine = {} /\ \A s \in Sidecars : ~Prunes(s)
  BY DEF StoreInit, Prunes, Runs, NoOp
<1>2. Cardinality({}) <= MaxArtifacts
  BY StoreAssumption, FS_EmptySet
<1> QED  BY <1>1, <1>2 DEF BoundInv, PruneInv

LEMMA BoundStep == IntactInv /\ BoundInv /\ [StoreNext]_storeVars => BoundInv'
<1> SUFFICES ASSUME IntactInv, BoundInv, [StoreNext]_storeVars PROVE BoundInv'
  OBVIOUS
<1>1. ASSUME NEW s \in Sidecars, StoreSteps(s) PROVE BoundInv'
  <2>1. Artifacts /\ \A t \in Sidecars \ {s} : op'[t] = op[t]
    BY <1>1, SidecarKeepsIntact DEF StepOf
  <2>2. ASSUME PrunesOn(s), settled' = settled PROVE BoundInv'
    BY <2>1, <2>2, BoundStays
  <2>3. CASE Prune(s)       BY <2>1, <2>3, PruneKeepsBound
  <2>4. CASE Pruned(s)      BY <2>4, PrunedKeepsBound
  <2>5. CASE UnlinkData(s)  BY <2>2, <2>5, UnlinkDataOn
  <2>6. CASE UnlinkMeta(s)  BY <2>1, <2>2, <2>6, UnlinkMetaOn
  <2>7. CASE ~Prune(s) /\ ~UnlinkData(s) /\ ~UnlinkMeta(s) /\ ~Pruned(s)
    BY <1>1, <2>2, <2>7, IdlesOn DEF PrunesOn
  <2> QED  BY <2>3, <2>4, <2>5, <2>6, <2>7
<1>2. CASE StoreSurroundings
  <2>1. Artifacts /\ op' = op /\ settled' = settled  BY <1>2, SurroundingsFields
  <2> QED  BY <2>1, BoundStays
<1>3. CASE UNCHANGED storeVars
  BY <1>3 DEF storeVars, BoundInv, PruneInv, Prunes, Runs, Doomed, Nested, Pristine, PrintsOf
<1> QED  BY <1>1, <1>2, <1>3 DEF StoreNext

\* However many sidecars prune at once, each by its own listing, and whatever fails or dies
\* in between: no more than max_artifacts stay of the artifacts that a complete prune has
\* listed and that no listing has passed over (artifacts.py 344, 364-373 and 377-389).
THEOREM StoreBounded == StoreSpec => []StoreStaysBounded
<1>1. IntactInv /\ BoundInv => StoreStaysBounded
  <2> SUFFICES ASSUME IntactInv, BoundInv PROVE StoreStaysBounded
    OBVIOUS
  <2>1. Pristine \subseteq Owned
    BY DEF Pristine, PrintsOf, Owned, IntactInv, VersionsInv
  <2>2. {i \in (settled \cap Owned) \ skipped : PrintsOf(i) = [meta |-> 1, data |-> 1]}
          = settled \cap Pristine
    BY <2>1 DEF Pristine, Owned
  <2> QED  BY <2>2 DEF BoundInv, StoreStaysBounded
<1>2. StoreInit => IntactInv /\ BoundInv
  BY IntactInitial, BoundInitial
<1>3. IntactInv /\ BoundInv /\ [StoreNext]_storeVars => (IntactInv /\ BoundInv)'
  BY IntactStep, BoundStep
<1>4. StoreSpec => [](IntactInv /\ BoundInv)
  BY <1>2, <1>3, PTL DEF StoreSpec
<1> QED  BY <1>1, <1>4, PTL
=============================================================================
