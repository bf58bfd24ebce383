-------------------------- MODULE WorkerBundleProofs -------------------------
(* Proofs about the builds of a worker bundle, by any number of builders   *)
(* into one output: what a manifest and an archive say is beside them, and *)
(* what they say of where it came from is true.  And about one process     *)
(* that installs: the installation is whole or leaves nothing, and the     *)
(* worker that is started is one bundle, whatever the release publishes.   *)
EXTENDS WorkerBundle, WorkerInstall, FiniteSetTheorems, TLAPS

----------------------------------------------------------------------------
(* The inductive invariant.                                                *)

BaseManifest == [commit: Commits, tested: BOOLEAN, patches: SUBSET Patches, sums: Trees]

Libraries == Trees \cup {None, Altered}

\* The steps of a build that has read a manifest, and of the one that staged.
Validated == {"compile", "stage", "executable", "clean", "manifest", "done"}
Staged == {"executable", "clean", "manifest", "done"}
Copied == {"clean", "manifest", "done"}

PatchNames == {"layer-range", "other"}

BaseState ==
    [step: {"absent", "fetch", "resolve", "export", "patch", "inventory", "done", "failed"},
     ref: Commits \cup {"tag", None}, name: Commits \cup {"tag", None}, commit: Commits \cup {None},
     todo: SUBSET PatchNames, patch: PatchNames \cup {None}, applied: SUBSET Patches,
     tree: Trees \cup {None}, libs: Libraries, manifest: BaseManifest \cup {None},
     raced: SUBSET {"tag", "patch"}]

BuilderSteps == {"idle", "validate", "failed"} \cup Validated
Builder == [step: BuilderSteps, kind: Kinds \cup {None}, base: BaseManifest \cup {None},
            patches: SUBSET Patches]

Manifest == [kind: Kinds, sums: Trees, executable: Libraries, tested: BOOLEAN,
             patches: SUBSET Patches]

Output == [exists: BOOLEAN, scratch: [Kinds -> Libraries], executable: [Kinds -> Libraries],
           runtime: Libraries, manifest: Manifest \cup {None}]

Archive == [step: {"idle", "build", "runtime", "done"}, manifest: Manifest \cup {None},
            executable: [Kinds -> Libraries], runtime: Libraries]

Typed ==
    /\ tag \in Commits /\ version \in {0, 1} /\ base \in BaseState
    /\ builder \in [Builders -> Builder] /\ output \in Output /\ archive \in Archive

\* What was hashed is what was applied, but for the version of a file that was
\* edited in between, and for the patch that is still to be hashed.
Layered(patches) == \E v \in {0, 1} : LayerRange(v) \in patches
Unhashed == IF base.patch = None THEN {} ELSE {File(base.patch)}

HashedIsApplied ==
    /\ Other \in base.tree.patches <=> (Other \in base.applied \/ base.patch = "other")
    /\ \E v \in {0, 1} : base.tree.patches \subseteq {LayerRange(v), Other}
    /\ "layer-range" \in base.todo => ~Layered(base.tree.patches) /\ ~Layered(base.applied)
    /\ Layered(base.applied) \/ base.patch = "layer-range" => Layered(base.tree.patches)
    /\ "patch" \notin base.raced => base.tree.patches = base.applied \cup Unhashed

\* How far the base build is says what its directory holds.
BaseSteps ==
    /\ base.step \in {"fetch", "resolve"} => base.ref # None
    /\ base.step \in {"resolve", "export"} => base.name # None
    /\ base.step \in {"export", "patch", "inventory", "done"} =>
          base.commit \in Commits /\ (base.ref = "tag" => base.commit = Tested)
    /\ base.step = "export" /\ "tag" \notin base.raced => base.commit = Named(base.name)
    /\ base.step \in {"fetch", "resolve", "export"} =>
          base.patch = None /\ base.applied = {}
    /\ base.step \in {"patch", "inventory", "done"} =>
          /\ base.tree \in Trees /\ HashedIsApplied
          /\ "tag" \notin base.raced => base.tree.commit = base.commit
    /\ base.step \in {"inventory", "done"} => base.patch = None
    /\ base.step = "absent" => base = NoBase
    /\ base.step = "inventory" => base.libs = base.tree
    /\ base.step # "done" => base.manifest = None
    /\ base.step = "done" =>
          /\ base.libs \in {base.tree, Altered}
          /\ base.manifest \in BaseManifest
          /\ base.manifest.sums = base.tree /\ base.manifest.patches = base.applied
          /\ base.manifest.commit = base.commit
          /\ base.manifest.tested <=> base.commit = Tested

\* A worker build goes by the one manifest of the base, and a snapshot worker
\* by the layer-range patch alone.
BuildReads(b) ==
    /\ builder[b].step = "validate" => builder[b].kind \in Kinds
    /\ builder[b].step \in Validated =>
          /\ builder[b].kind \in Kinds
          /\ base.step = "done" /\ builder[b].base = base.manifest
          /\ builder[b].kind = "snapshot-worker" =>
                /\ builder[b].patches = base.manifest.patches
                /\ \E v \in {0, 1} : builder[b].patches = {LayerRange(v)}

\* What a build has put into the output is still there.
BuildWrote(b) ==
    /\ builder[b].step \in Staged => output.runtime = base.tree
    /\ builder[b].step = "executable" \/ (builder[b].step = "stage" /\ output.runtime = None)
          => output.scratch[builder[b].kind] # None
    /\ builder[b].step \in Copied => output.executable[builder[b].kind] # None

\* One build gets past the staging.
OneStaged ==
    \A b, c \in Builders : builder[b].step \in Staged /\ builder[c].step \in Staged => b = c

\* A manifest is of the build that is done.
ManifestWritten ==
    output.manifest # None => \E b \in Builders :
        /\ builder[b].step = "done"
        /\ output.manifest.kind = builder[b].kind
        /\ output.manifest.sums = builder[b].base.sums
        /\ output.manifest.executable = output.executable[builder[b].kind]
        /\ output.manifest.tested <=> builder[b].base.commit = Tested
        /\ output.manifest.patches = builder[b].patches

\* What pack() has read is what the output holds.
PackReads ==
    /\ archive.step # "idle" => output.manifest # None /\ archive.manifest = output.manifest
    /\ archive.step \in {"runtime", "done"} => archive.executable = output.executable
    /\ archive.step = "done" => archive.runtime = output.runtime

\* A build alone in its output links what it then stages.
Alone(b) == \A c \in Builders \ {b} : builder[c].step = "idle"
LinksShipped(b) ==
    Alone(b) =>
        /\ builder[b].step = "stage" =>
              output.scratch[builder[b].kind] = base.libs \/ base.libs = Altered
        /\ builder[b].step = "executable" => output.scratch[builder[b].kind] = output.runtime
        /\ builder[b].step \in Copied => output.executable[builder[b].kind] = output.runtime

BundleInv ==
    /\ Typed /\ BaseSteps
    /\ \A b \in Builders : BuildReads(b) /\ BuildWrote(b) /\ LinksShipped(b)
    /\ OneStaged /\ ManifestWritten /\ PackReads

----------------------------------------------------------------------------
(* The initial state, and the steps of the base build.                     *)

LEMMA InitB ==
    ASSUME Init
    PROVE  BundleInv
<1>1. Typed
  <2>1. base \in BaseState
    BY DEF Init, NoBase, BaseState, Libraries
  <2>2. builder \in [Builders -> Builder]
    BY DEF Init, Builder, BuilderSteps
  <2>3. output \in Output /\ archive \in Archive
    BY DEF Init, EmptyOutput, Output, Archive, Libraries
  <2> QED BY <2>1, <2>2, <2>3, TestedAssumption DEF Init, Typed
<1>2. BaseSteps
  BY DEF Init, NoBase, BaseSteps
<1>3. \A b \in Builders : BuildReads(b) /\ BuildWrote(b) /\ LinksShipped(b)
  BY DEF Init, BuildReads, BuildWrote, LinksShipped, Validated, Staged, Copied
<1>4. OneStaged /\ ManifestWritten /\ PackReads
  BY DEF Init, EmptyOutput, OneStaged, ManifestWritten, PackReads, Staged
<1> QED BY <1>1, <1>2, <1>3, <1>4 DEF BundleInv

LEMMA PatchesDiffer ==
    /\ LayerRange(0) # LayerRange(1) /\ LayerRange(0) # Other /\ LayerRange(1) # Other
    /\ Patches = {LayerRange(0), LayerRange(1), Other}
BY DEF LayerRange, Other, Patches

\* While the base is being built, nobody has read its manifest.
LEMMA BaseMoves ==
    ASSUME BundleInv, base.step # "done", base' \in BaseState, BaseSteps',
           tag' \in Commits, version' \in {0, 1}, UNCHANGED <<builder, output, archive>>
    PROVE  BundleInv'
<1>1. \A b \in Builders : builder[b].step \notin Validated
  BY DEF BundleInv, BuildReads
<1>2. Typed'
  BY DEF BundleInv, Typed
<1>3. \A b \in Builders : BuildReads(b)' /\ BuildWrote(b)' /\ LinksShipped(b)'
  BY <1>1 DEF BundleInv, BuildReads, BuildWrote, LinksShipped, Validated, Staged, Copied
<1>4. OneStaged' /\ ManifestWritten' /\ PackReads'
  BY DEF BundleInv, OneStaged, ManifestWritten, PackReads
<1> QED BY <1>2, <1>3, <1>4 DEF BundleInv

\* The steps of the base build leave the rest alone.
LEMMA BaseBuildMoves ==
    ASSUME BundleInv, base.step # "done", base' \in BaseState, BaseSteps',
           UNCHANGED <<tag, version, builder, output, archive>>
    PROVE  BundleInv'
BY BaseMoves DEF BundleInv, Typed

LEMMA BaseStartB ==
    ASSUME BundleInv, BaseStart
    PROVE  BundleInv'
<1>1. base = NoBase
  BY DEF BundleInv, BaseSteps, BaseStart
<1>2. PICK ref \in Commits \cup {"tag"}, todo \in SUBSET {"layer-range", "other"} :
          base' = [base EXCEPT !.step = "fetch", !.ref = ref, !.todo = todo]
  BY DEF BaseStart
<1>3. base \in BaseState
  BY DEF BundleInv, Typed
<1>4. /\ base' \in BaseState /\ base'.step = "fetch" /\ base'.ref = ref /\ base'.manifest = None
      /\ base'.patch = None /\ base'.applied = {}
  BY <1>1, <1>2, <1>3 DEF BaseState, NoBase, PatchNames
<1>5. ref # None
  BY NoneAssumption
<1>6. BaseSteps'
  BY <1>4, <1>5 DEF BaseSteps
<1> QED BY <1>4, <1>6, BaseBuildMoves DEF BaseStart

LEMMA FetchRevisionB ==
    ASSUME BundleInv, FetchRevision
    PROVE  BundleInv'
<1>1. /\ base \in BaseState /\ tag \in Commits /\ base.manifest = None /\ base.ref # None
      /\ base.patch = None /\ base.applied = {}
  BY DEF BundleInv, Typed, BaseSteps, FetchRevision
<1>2. PICK name \in {Named(base.ref), base.ref} :
          base' = [base EXCEPT !.step = "resolve", !.name = name]
  BY DEF FetchRevision
<1>3. name \in Commits \cup {"tag"} /\ name # None
  BY <1>1, NoneAssumption DEF Named, BaseState
<1>4. /\ base' \in BaseState /\ base'.step = "resolve" /\ base'.ref = base.ref
      /\ base'.name = name /\ base'.manifest = None /\ base'.patch = None /\ base'.applied = {}
  BY <1>1, <1>2, <1>3 DEF BaseState
<1>5. BaseSteps'
  BY <1>1, <1>3, <1>4 DEF BaseSteps
<1> QED BY <1>4, <1>5, BaseBuildMoves DEF FetchRevision

LEMMA ResolveB ==
    ASSUME BundleInv, Resolve
    PROVE  BundleInv'
<1> DEFINE commit == Named(base.name)
<1>1. /\ base \in BaseState /\ base.manifest = None /\ base.name # None
      /\ base.patch = None /\ base.applied = {} /\ tag \in Commits
  BY DEF BundleInv, Typed, Resolve, BaseSteps
<1>2. commit \in Commits
  BY <1>1 DEF Named, BaseState
<1>3. CASE base' = [base EXCEPT !.step = "failed"]
  <2>1. base' \in BaseState /\ base'.step = "failed" /\ base'.manifest = None
    BY <1>1, <1>3 DEF BaseState
  <2>2. BaseSteps'
    BY <2>1 DEF BaseSteps
  <2> QED BY <2>1, <2>2, BaseBuildMoves DEF Resolve
<1>4. CASE /\ ~(base.ref \in {"tag", Tested} /\ commit # Tested)
           /\ base' = [base EXCEPT !.step = "export", !.commit = commit]
  <2>1. /\ base' \in BaseState /\ base'.step = "export" /\ base'.manifest = None
        /\ base'.commit = commit /\ base'.ref = base.ref /\ base'.name = base.name
        /\ base'.patch = None /\ base'.applied = {}
    BY <1>1, <1>2, <1>4 DEF BaseState
  <2>2. Named(base.name)' = commit
    BY <2>1 DEF Named, Resolve
  <2>3. BaseSteps'
    BY <1>1, <1>2, <1>4, <2>1, <2>2 DEF BaseSteps
  <2> QED BY <2>1, <2>3, BaseBuildMoves DEF Resolve
<1> QED BY <1>3, <1>4 DEF Resolve

LEMMA ExportB ==
    ASSUME BundleInv, Export
    PROVE  BundleInv'
<1> DEFINE tree == [commit |-> Named(base.name), patches |-> {}]
<1>1. /\ base \in BaseState /\ base.manifest = None /\ base.commit \in Commits
      /\ base.ref = "tag" => base.commit = Tested
      /\ base.name # None /\ base.patch = None /\ base.applied = {}
      /\ "tag" \notin base.raced => base.commit = Named(base.name)
      /\ Named(base.name) \in Commits
  BY DEF BundleInv, Typed, Export, BaseSteps, Named, BaseState
<1>2. tree \in Trees /\ tree.commit = Named(base.name) /\ tree.patches = {}
  BY <1>1 DEF Trees
<1>3. base' = [base EXCEPT !.step = "patch", !.tree = tree]
  BY DEF Export
<1> HIDE DEF tree
<1>4. /\ base' \in BaseState /\ base'.step = "patch" /\ base'.manifest = None
      /\ base'.tree = tree /\ base'.commit = base.commit /\ base'.ref = base.ref
      /\ base'.patch = None /\ base'.applied = {} /\ base'.raced = base.raced
  BY <1>1, <1>2, <1>3 DEF BaseState
<1>5. HashedIsApplied'
  BY <1>2, <1>4, NoneAssumption DEF HashedIsApplied, Layered, Unhashed
<1>6. BaseSteps'
  BY <1>1, <1>2, <1>4, <1>5 DEF BaseSteps
<1> QED BY <1>4, <1>6, BaseBuildMoves DEF Export

\* While the tree is patched.
LEMMA Patching ==
    ASSUME BundleInv, base.step = "patch"
    PROVE  /\ base \in BaseState /\ base.manifest = None /\ base.commit \in Commits
           /\ base.ref = "tag" => base.commit = Tested
           /\ base.tree \in Trees /\ HashedIsApplied
           /\ "tag" \notin base.raced => base.tree.commit = base.commit
           /\ version \in {0, 1}
BY DEF BundleInv, Typed, BaseSteps

LEMMA RunPatchB ==
    ASSUME BundleInv, RunPatch
    PROVE  BundleInv'
<1>1. /\ base \in BaseState /\ base.manifest = None /\ base.commit \in Commits
      /\ base.ref = "tag" => base.commit = Tested
      /\ base.tree \in Trees /\ HashedIsApplied /\ version \in {0, 1}
      /\ "tag" \notin base.raced => base.tree.commit = base.commit
      /\ base.step = "patch" /\ base.patch = None /\ UNCHANGED version
  BY Patching DEF RunPatch
<1>2. PICK p \in base.todo :
          base' = [base EXCEPT !.todo = @ \ {p}, !.patch = p, !.tree.patches = @ \cup {File(p)}]
  BY DEF RunPatch
<1>3. p \in {"layer-range", "other"} /\ p # None
  BY <1>1, NoneAssumption DEF BaseState, PatchNames
<1>4. /\ p = "layer-range" => File(p) = LayerRange(version)
      /\ p = "other" => File(p) = Other
      /\ File(p) \in Patches
  BY <1>1, <1>3 DEF File, Patches
<1> DEFINE tree == [base.tree EXCEPT !.patches = @ \cup {File(p)}]
<1>5. tree \in Trees /\ tree.commit = base.tree.commit /\ tree.patches = base.tree.patches \cup {File(p)}
  BY <1>1, <1>4 DEF Trees
<1>6. base' = [base EXCEPT !.todo = @ \ {p}, !.patch = p, !.tree = tree]
  BY <1>1, <1>2 DEF BaseState
<1> HIDE DEF tree
<1>7. /\ base' \in BaseState /\ base'.step = base.step /\ base'.manifest = None
      /\ base'.tree = tree /\ base'.commit = base.commit /\ base'.ref = base.ref
      /\ base'.patch = p /\ base'.applied = base.applied /\ base'.raced = base.raced
      /\ base'.todo = base.todo \ {p}
  BY <1>1, <1>3, <1>5, <1>6 DEF BaseState, PatchNames
<1>8. HashedIsApplied'
  <2>1. Other \in tree.patches <=> (Other \in base.applied \/ p = "other")
    BY <1>1, <1>3, <1>4, <1>5, PatchesDiffer, NoneAssumption DEF HashedIsApplied
  <2>2. \E v \in {0, 1} : tree.patches \subseteq {LayerRange(v), Other}
    BY <1>1, <1>2, <1>3, <1>4, <1>5, PatchesDiffer DEF HashedIsApplied, Layered
  <2>3. "layer-range" \in base.todo \ {p} => ~Layered(tree.patches) /\ ~Layered(base.applied)
    BY <1>1, <1>3, <1>4, <1>5, PatchesDiffer DEF HashedIsApplied, Layered
  <2>4. Layered(base.applied) \/ p = "layer-range" => Layered(tree.patches)
    BY <1>1, <1>4, <1>5 DEF HashedIsApplied, Layered
  <2>5. "patch" \notin base.raced => tree.patches = base.applied \cup {File(p)}
    BY <1>1, <1>5 DEF HashedIsApplied, Unhashed
  <2>6. Unhashed' = {File(p)}
    BY <1>1, <1>3, <1>7 DEF Unhashed, File
  <2> QED BY <1>7, <2>1, <2>2, <2>3, <2>4, <2>5, <2>6 DEF HashedIsApplied, Layered
<1>9. BaseSteps'
  BY <1>1, <1>5, <1>7, <1>8 DEF BaseSteps
<1> QED BY <1>1, <1>7, <1>9, BaseBuildMoves DEF RunPatch

LEMMA HashPatchB ==
    ASSUME BundleInv, HashPatch
    PROVE  BundleInv'
<1> DEFINE p == base.patch
<1>1. /\ base \in BaseState /\ base.manifest = None /\ base.commit \in Commits
      /\ base.ref = "tag" => base.commit = Tested
      /\ base.tree \in Trees /\ HashedIsApplied /\ version \in {0, 1}
      /\ "tag" \notin base.raced => base.tree.commit = base.commit
      /\ base.step = "patch" /\ p # None
  BY Patching DEF HashPatch
<1>2. p \in {"layer-range", "other"}
  BY <1>1 DEF BaseState, PatchNames
<1>3. /\ p = "layer-range" => File(p) = LayerRange(version)
      /\ p = "other" => File(p) = Other
      /\ File(p) \in Patches
  BY <1>1, <1>2 DEF File, Patches
<1>4. base' = [base EXCEPT !.patch = None, !.applied = @ \cup {File(p)}]
  BY DEF HashPatch
<1>5. /\ base' \in BaseState /\ base'.step = base.step /\ base'.manifest = None
      /\ base'.tree = base.tree /\ base'.commit = base.commit /\ base'.ref = base.ref
      /\ base'.patch = None /\ base'.applied = base.applied \cup {File(p)}
      /\ base'.raced = base.raced /\ base'.todo = base.todo
  BY <1>1, <1>3, <1>4 DEF BaseState
<1>6. "layer-range" \in base.todo => p # "layer-range"
  BY <1>1 DEF HashedIsApplied
<1> HIDE DEF p
<1>7. HashedIsApplied'
  <2>1. Other \in base.tree.patches <=> Other \in base.applied \cup {File(p)}
    BY <1>1, <1>2, <1>3, PatchesDiffer DEF HashedIsApplied, p
  <2>2. "layer-range" \in base.todo =>
            ~Layered(base.tree.patches) /\ ~Layered(base.applied \cup {File(p)})
    BY <1>1, <1>2, <1>3, <1>6, PatchesDiffer DEF HashedIsApplied, Layered
  <2>3. Layered(base.applied \cup {File(p)}) => Layered(base.tree.patches)
    BY <1>1, <1>2, <1>3, PatchesDiffer DEF HashedIsApplied, Layered, p
  <2>4. "patch" \notin base.raced => base.tree.patches = base.applied \cup {File(p)}
    BY <1>1 DEF HashedIsApplied, Unhashed, p
  <2>5. Unhashed' = {}
    BY <1>5 DEF Unhashed
  <2> QED BY <1>1, <1>5, <2>1, <2>2, <2>3, <2>4, <2>5, NoneAssumption DEF HashedIsApplied, Layered
<1>8. BaseSteps'
  BY <1>1, <1>5, <1>7 DEF BaseSteps
<1> QED BY <1>1, <1>5, <1>8, BaseBuildMoves DEF HashPatch

LEMMA CompileLibrariesB ==
    ASSUME BundleInv, CompileLibraries
    PROVE  BundleInv'
<1>1. /\ base \in BaseState /\ base.manifest = None /\ base.commit \in Commits
      /\ base.ref = "tag" => base.commit = Tested
      /\ base.tree \in Trees /\ HashedIsApplied
      /\ "tag" \notin base.raced => base.tree.commit = base.commit
      /\ base.step = "patch" /\ base.patch = None
  BY Patching DEF CompileLibraries
<1>2. /\ base' \in BaseState /\ base'.step = "inventory" /\ base'.manifest = None
      /\ base'.tree = base.tree /\ base'.commit = base.commit /\ base'.ref = base.ref
      /\ base'.libs = base.tree /\ base'.patch = None /\ base'.applied = base.applied
      /\ base'.raced = base.raced /\ base'.todo = base.todo
  BY <1>1 DEF BaseState, CompileLibraries, Libraries
<1>3. HashedIsApplied'
  BY <1>1, <1>2 DEF HashedIsApplied, Layered, Unhashed
<1>4. BaseSteps'
  BY <1>1, <1>2, <1>3 DEF BaseSteps
<1> QED BY <1>1, <1>2, <1>4, BaseBuildMoves DEF CompileLibraries

LEMMA InventoryB ==
    ASSUME BundleInv, Inventory
    PROVE  BundleInv'
<1> DEFINE m == [commit |-> base.commit, tested |-> base.commit = Tested,
                 patches |-> base.applied, sums |-> base.libs]
<1>1. /\ base \in BaseState /\ base.commit \in Commits
      /\ base.ref = "tag" => base.commit = Tested
      /\ base.tree \in Trees /\ HashedIsApplied /\ base.libs = base.tree
      /\ "tag" \notin base.raced => base.tree.commit = base.commit
      /\ base.step = "inventory" /\ base.patch = None
  BY DEF BundleInv, Typed, Inventory, BaseSteps
<1>2. /\ m \in BaseManifest /\ m.sums = base.tree /\ m.patches = base.applied
      /\ m.commit = base.commit /\ (m.tested <=> base.commit = Tested)
  BY <1>1 DEF BaseManifest, BaseState
<1>3. base' = [base EXCEPT !.step = "done", !.manifest = m]
  BY DEF Inventory
<1> HIDE DEF m
<1>4. /\ base' \in BaseState /\ base'.step = "done" /\ base'.manifest = m
      /\ base'.tree = base.tree /\ base'.commit = base.commit /\ base'.ref = base.ref
      /\ base'.libs = base.libs /\ base'.patch = None /\ base'.applied = base.applied
      /\ base'.raced = base.raced /\ base'.todo = base.todo
  BY <1>1, <1>2, <1>3 DEF BaseState
<1>5. HashedIsApplied'
  BY <1>1, <1>4 DEF HashedIsApplied, Layered, Unhashed
<1>6. BaseSteps'
  BY <1>1, <1>2, <1>4, <1>5 DEF BaseSteps
<1> QED BY <1>1, <1>4, <1>6, BaseBuildMoves DEF Inventory

LEMMA BaseFailsB ==
    ASSUME BundleInv, BaseFails
    PROVE  BundleInv'
<1>1. base \in BaseState /\ base.manifest = None
  BY DEF BundleInv, Typed, BaseFails, BaseSteps
<1>2. base' \in BaseState /\ base'.step = "failed" /\ base'.manifest = None
  BY <1>1 DEF BaseState, BaseFails
<1>3. BaseSteps'
  BY <1>2 DEF BaseSteps
<1> QED BY <1>2, <1>3, BaseBuildMoves DEF BaseFails

----------------------------------------------------------------------------
(* What happens beside the builds.                                         *)

\* While the base is as it was, so are the builds that go by it.
LEMMA BesideB ==
    ASSUME BundleInv, UNCHANGED <<base, builder, output, archive>>, BaseSteps',
           tag' \in Commits, version' \in {0, 1}
    PROVE  BundleInv'
<1>1. Typed'
  BY DEF BundleInv, Typed
<1>2. \A b \in Builders : BuildReads(b)' /\ BuildWrote(b)' /\ LinksShipped(b)'
  BY DEF BundleInv, BuildReads, BuildWrote, LinksShipped, Alone
<1>3. OneStaged' /\ ManifestWritten' /\ PackReads'
  BY DEF BundleInv, OneStaged, ManifestWritten, PackReads
<1> QED BY <1>1, <1>2, <1>3 DEF BundleInv

\* A race is of the base that is still being built.
LEMMA RacesEffect ==
    ASSUME BundleInv, NEW what \in {"tag", "patch"}, Races(what)
    PROVE  /\ base' \in BaseState /\ base'.raced = base.raced \cup {what}
           /\ base'.step = base.step /\ base'.ref = base.ref /\ base'.name = base.name
           /\ base'.commit = base.commit /\ base'.todo = base.todo /\ base'.patch = base.patch
           /\ base'.applied = base.applied /\ base'.tree = base.tree /\ base'.libs = base.libs
           /\ base'.manifest = base.manifest
BY DEF BundleInv, Typed, Races, BaseState

LEMMA MoveTagB ==
    ASSUME BundleInv, MoveTag
    PROVE  BundleInv'
<1>1. /\ tag' \in Commits /\ version' = version /\ version \in {0, 1}
      /\ UNCHANGED <<builder, output, archive>> /\ BaseSteps
  BY DEF BundleInv, Typed, MoveTag
<1>2. CASE base.step = "export" /\ base.name = "tag"
  <2>1. Races("tag")
    BY <1>2 DEF MoveTag
  <2>2. BaseSteps'
    BY <1>1, <1>2, <2>1, RacesEffect DEF BaseSteps
  <2> QED BY <1>1, <1>2, <2>1, <2>2, RacesEffect, BaseMoves
<1>3. CASE ~(base.step = "export" /\ base.name = "tag")
  <2>1. base' = base
    BY <1>3 DEF MoveTag
  <2>2. HashedIsApplied => HashedIsApplied'
    BY <1>1, <2>1 DEF HashedIsApplied, Layered, Unhashed, File
  <2>3. base.step = "export" => Named(base.name)' = Named(base.name)
    BY <1>3, <2>1 DEF Named
  <2>4. BaseSteps'
    BY <1>1, <2>1, <2>2, <2>3 DEF BaseSteps
  <2> QED BY <1>1, <2>1, <2>4, BesideB
<1> QED BY <1>2, <1>3

LEMMA EditPatchB ==
    ASSUME BundleInv, EditPatch
    PROVE  BundleInv'
<1>1. /\ tag' = tag /\ tag \in Commits /\ version' \in {0, 1}
      /\ UNCHANGED <<builder, output, archive>> /\ BaseSteps
  BY DEF BundleInv, Typed, EditPatch
<1>2. CASE base.patch = "layer-range"
  <2>1. Races("patch")
    BY <1>2 DEF EditPatch
  <2>2. base.step \in {"patch", "failed"} /\ base'.step = base.step
    BY <1>1, <1>2, <2>1, RacesEffect, NoneAssumption DEF BaseSteps, NoBase, BundleInv, Typed, BaseState
  <2>3. "patch" \in base'.raced /\ ("tag" \in base'.raced <=> "tag" \in base.raced)
    BY <2>1, RacesEffect
  <2>4. HashedIsApplied => HashedIsApplied'
    BY <2>1, <2>3, RacesEffect DEF HashedIsApplied, Layered
  <2>5. BaseSteps'
    BY <1>1, <2>1, <2>2, <2>3, <2>4, RacesEffect DEF BaseSteps
  <2> QED BY <1>1, <2>1, <2>2, <2>5, RacesEffect, BaseMoves
<1>3. CASE base.patch # "layer-range"
  <2>1. base' = base
    BY <1>3 DEF EditPatch
  <2>2. HashedIsApplied => HashedIsApplied'
    BY <1>3, <2>1 DEF HashedIsApplied, Layered, Unhashed, File
  <2>3. Named(base.name)' = Named(base.name)
    BY <1>1, <2>1 DEF Named
  <2>4. BaseSteps'
    BY <1>1, <2>1, <2>2, <2>3 DEF BaseSteps
  <2> QED BY <1>1, <2>1, <2>4, BesideB
<1> QED BY <1>2, <1>3

\* The base is left alone by whatever else leaves the tag and the patch alone.
LEMMA BaseStepsStay ==
    ASSUME BaseSteps, UNCHANGED <<tag, version, base>> PROVE BaseSteps'
BY DEF BaseSteps, HashedIsApplied, Layered, Unhashed, File, Named

LEMMA StuttersB ==
    ASSUME BundleInv, UNCHANGED vars
    PROVE  BundleInv'
BY BaseStepsStay, BesideB DEF BundleInv, Typed, vars

LEMMA AlterBaseB ==
    ASSUME BundleInv, AlterBase
    PROVE  BundleInv'
<1>1. base \in BaseState /\ UNCHANGED <<tag, version, builder, output, archive>>
  BY DEF BundleInv, Typed, AlterBase
<1>2. /\ base' \in BaseState /\ base'.libs = Altered /\ base'.step = base.step
      /\ base'.ref = base.ref /\ base'.commit = base.commit /\ base'.tree = base.tree
      /\ base'.manifest = base.manifest /\ base.step = "done" /\ base'.patch = base.patch
      /\ base'.applied = base.applied /\ base'.todo = base.todo /\ base'.raced = base.raced
  BY <1>1 DEF AlterBase, BaseState, Libraries
<1>3. Typed'
  BY <1>1, <1>2 DEF BundleInv, Typed
<1>7. HashedIsApplied => HashedIsApplied'
  BY <1>1, <1>2 DEF HashedIsApplied, Layered, Unhashed, File
<1>4. BaseSteps'
  BY <1>2, <1>7 DEF BundleInv, BaseSteps
<1>5. \A b \in Builders : BuildReads(b)' /\ BuildWrote(b)' /\ LinksShipped(b)'
  BY <1>1, <1>2 DEF BundleInv, BuildReads, BuildWrote, LinksShipped, Alone
<1>6. OneStaged' /\ ManifestWritten' /\ PackReads'
  BY <1>1 DEF BundleInv, OneStaged, ManifestWritten, PackReads
<1> QED BY <1>3, <1>4, <1>5, <1>6 DEF BundleInv

----------------------------------------------------------------------------
(* The worker builds.                                                      *)

\* A step of one build.
Moves(b) ==
    /\ UNCHANGED <<tag, version, base, archive>>
    /\ builder' \in [Builders -> Builder] /\ output' \in Output
    /\ \A c \in Builders \ {b} : builder'[c] = builder[c]
    /\ builder'[b].step # "idle"

LEMMA GoesEffect ==
    ASSUME BundleInv, NEW b \in Builders, NEW step \in BuilderSteps, Goes(b, step)
    PROVE  /\ builder' \in [Builders -> Builder]
           /\ \A c \in Builders \ {b} : builder'[c] = builder[c]
           /\ builder'[b].step = step /\ builder'[b].kind = builder[b].kind
           /\ builder'[b].base = builder[b].base /\ builder'[b].patches = builder[b].patches
BY DEF BundleInv, Typed, Goes, Builder

LEMMA BuildMoves ==
    ASSUME BundleInv, NEW b \in Builders, Moves(b), BuildReads(b)', LinksShipped(b)',
           \A c \in Builders : BuildWrote(c)', OneStaged', ManifestWritten', PackReads'
    PROVE  BundleInv'
<1>1. Typed' /\ BaseSteps'
  BY BaseStepsStay DEF BundleInv, Typed, Moves
<1>2. ASSUME NEW c \in Builders \ {b}
      PROVE  BuildReads(c)' /\ LinksShipped(c)'
  BY DEF BundleInv, BuildReads, LinksShipped, Alone, Moves
<1> QED BY <1>1, <1>2 DEF BundleInv

\* A build that has not staged yet writes nothing anybody reads.
LEMMA QuietB ==
    ASSUME BundleInv, NEW b \in Builders, Moves(b), builder[b].step \notin Staged,
           builder'[b].step \notin Staged, output'.runtime = output.runtime,
           output'.executable = output.executable, output'.manifest = output.manifest,
           \A k \in Kinds : output.scratch[k] # None => output'.scratch[k] # None,
           BuildReads(b)', BuildWrote(b)', LinksShipped(b)'
    PROVE  BundleInv'
<1>1. ASSUME NEW c \in Builders \ {b} PROVE BuildWrote(c)'
  BY DEF BundleInv, BuildReads, BuildWrote, Moves, Staged, Copied, Validated
<1>2. OneStaged'
  BY DEF BundleInv, OneStaged, Moves
<1>3. ManifestWritten'
  BY DEF BundleInv, ManifestWritten, Moves, Staged
<1>4. PackReads'
  BY DEF BundleInv, PackReads, Moves
<1> QED BY <1>1, <1>2, <1>3, <1>4, BuildMoves

LEMMA FailsB ==
    ASSUME BundleInv, NEW b \in Builders, builder[b].step # "done", Goes(b, "failed"),
           UNCHANGED <<tag, version, base, output, archive>>
    PROVE  BundleInv'
<1>1. Moves(b) /\ builder'[b].step = "failed"
  BY GoesEffect DEF BundleInv, Typed, Moves, BuilderSteps
<1>2. BuildReads(b)' /\ LinksShipped(b)'
  BY <1>1 DEF BuildReads, LinksShipped, Validated, Copied
<1>3. ASSUME NEW c \in Builders PROVE BuildWrote(c)'
  BY <1>1 DEF BundleInv, BuildWrote, Moves, Staged, Copied
<1>4. OneStaged' /\ ManifestWritten' /\ PackReads'
  BY <1>1 DEF BundleInv, OneStaged, ManifestWritten, PackReads, Moves, Staged
<1> QED BY <1>1, <1>2, <1>3, <1>4, BuildMoves

LEMMA BuildFailsB ==
    ASSUME BundleInv, NEW b \in Builders, BuildFails(b)
    PROVE  BundleInv'
BY FailsB DEF BuildFails

LEMMA BuildStartB ==
    ASSUME BundleInv, NEW b \in Builders, BuildStart(b)
    PROVE  BundleInv'
<1>1. PICK k \in Kinds :
          builder' = [builder EXCEPT ![b].step = "validate", ![b].kind = k]
  BY DEF BuildStart
<1> DEFINE r == [builder[b] EXCEPT !.step = "validate", !.kind = k]
<1>2. builder \in [Builders -> Builder] /\ output \in Output
  BY DEF BundleInv, Typed
<1>3. r \in Builder /\ r.step = "validate" /\ r.kind = k
  BY <1>2 DEF Builder, BuilderSteps
<1>4. builder' = [builder EXCEPT ![b] = r]
  BY <1>1, <1>2
<1> HIDE DEF r
<1>5. Moves(b) /\ builder'[b].step = "validate" /\ builder'[b].kind = k /\ output' = output
  BY <1>2, <1>3, <1>4 DEF Moves, BuildStart
<1>6. BuildReads(b)' /\ BuildWrote(b)' /\ LinksShipped(b)'
  BY <1>5 DEF BuildReads, BuildWrote, LinksShipped, Validated, Staged, Copied
<1> QED BY <1>5, <1>6, QuietB DEF BuildStart, Staged

LEMMA ValidateBaseB ==
    ASSUME BundleInv, NEW b \in Builders, ValidateBase(b)
    PROVE  BundleInv'
<1>1. CASE Goes(b, "failed")
  BY <1>1, FailsB DEF ValidateBase
<1>2. CASE /\ base.libs = base.manifest.sums
           /\ builder[b].kind = "snapshot-worker" => LayerRangeBase
           /\ builder' = [builder EXCEPT ![b].step = "compile", ![b].base = base.manifest,
                              ![b].patches = IF builder[b].kind = "snapshot-worker"
                                             THEN {LayerRange(version)} ELSE {}]
  <2> DEFINE patches == IF builder[b].kind = "snapshot-worker" THEN {LayerRange(version)} ELSE {}
  <2>1. /\ base.step = "done" /\ base.manifest \in BaseManifest
        /\ builder[b].kind \in Kinds /\ version \in {0, 1}
    BY DEF BundleInv, Typed, BaseSteps, BuildReads, ValidateBase
  <2>2. patches \in SUBSET Patches
    BY <2>1 DEF Patches
  <2>3. builder' = [builder EXCEPT ![b].step = "compile", ![b].base = base.manifest,
                                   ![b].patches = patches]
    BY <1>2
  <2>4. builder[b].kind = "snapshot-worker" =>
            patches = base.manifest.patches /\ patches = {LayerRange(version)}
    BY <1>2 DEF LayerRangeBase
  <2> HIDE DEF patches
  <2>5. /\ Moves(b) /\ builder'[b].step = "compile" /\ builder'[b].kind = builder[b].kind
        /\ builder'[b].base = base.manifest /\ builder'[b].patches = patches
        /\ output' = output /\ base' = base
    BY <2>1, <2>2, <2>3 DEF BundleInv, Typed, Moves, ValidateBase, Builder, BuilderSteps, Validated
  <2>6. BuildReads(b)'
    BY <2>1, <2>4, <2>5 DEF BuildReads, Validated
  <2>7. BuildWrote(b)' /\ LinksShipped(b)'
    BY <2>5 DEF BuildWrote, LinksShipped, Staged, Copied
  <2> QED BY <2>5, <2>6, <2>7, QuietB DEF ValidateBase, Staged
<1> QED BY <1>1, <1>2 DEF ValidateBase

\* The libraries of a base that is done.
LEMMA DoneLibraries ==
    ASSUME BundleInv, base.step = "done"
    PROVE  /\ base.libs \in {base.tree, Altered} /\ base.tree \in Trees
           /\ base.manifest.sums = base.tree /\ base.tree # Altered
           /\ base.libs \in Libraries /\ base.libs # None /\ base.tree # None
<1>1. base.libs \in {base.tree, Altered} /\ base.tree \in Trees /\ base.manifest.sums = base.tree
  BY DEF BundleInv, BaseSteps
<1> QED BY <1>1, NoneAssumption DEF Libraries

LEMMA CompileB ==
    ASSUME BundleInv, NEW b \in Builders, Compile(b)
    PROVE  BundleInv'
<1> DEFINE k == builder[b].kind
<1>1. builder[b].step = "compile" /\ BuildReads(b) /\ k \in Kinds /\ output \in Output
  BY DEF Compile, BundleInv, BuildReads, Validated, Typed
<1>2. base.step = "done" /\ base.libs \in Libraries /\ base.libs # None
  BY <1>1, DoneLibraries DEF BuildReads, Validated
<1>3. output' = [output EXCEPT !.exists = TRUE, !.scratch[k] = base.libs]
  BY DEF Compile
<1> HIDE DEF k
<1>4. /\ output' \in Output /\ output'.runtime = output.runtime
      /\ output'.executable = output.executable /\ output'.manifest = output.manifest
      /\ output'.scratch[k] = base.libs
      /\ \A j \in Kinds \ {k} : output'.scratch[j] = output.scratch[j]
  BY <1>1, <1>2, <1>3 DEF Output
<1>5. /\ Moves(b) /\ builder'[b].step = "stage" /\ builder'[b].kind = k /\ base' = base
      /\ builder'[b].base = builder[b].base /\ builder'[b].patches = builder[b].patches
  BY <1>4, GoesEffect DEF Moves, Compile, BuilderSteps, Validated, k
<1>6. BuildReads(b)'
  BY <1>1, <1>5 DEF BuildReads, Validated, k
<1>7. BuildWrote(b)' /\ LinksShipped(b)'
  BY <1>2, <1>4, <1>5 DEF BuildWrote, LinksShipped, Staged, Copied
<1> QED BY <1>1, <1>2, <1>4, <1>5, <1>6, <1>7, QuietB DEF Staged

\* Nothing staged: there is no manifest yet, and so no archive.
LEMMA NothingStaged ==
    ASSUME BundleInv, output.runtime = None
    PROVE  /\ \A c \in Builders : builder[c].step \notin Staged
           /\ output.manifest = None /\ archive.step = "idle"
<1>1. \A c \in Builders : builder[c].step \notin Staged
  BY DoneLibraries DEF BundleInv, BuildReads, BuildWrote, Staged, Validated
<1>2. output.manifest = None
  BY <1>1 DEF BundleInv, ManifestWritten, Staged
<1> QED BY <1>1, <1>2 DEF BundleInv, PackReads

LEMMA StageB ==
    ASSUME BundleInv, NEW b \in Builders, Stage(b)
    PROVE  BundleInv'
<1> DEFINE k == builder[b].kind
<1>1. /\ builder[b].step = "stage" /\ BuildReads(b) /\ BuildWrote(b) /\ LinksShipped(b)
      /\ output \in Output /\ UNCHANGED <<tag, version, base, archive>>
  BY DEF Stage, BundleInv, Typed
<1>2. CASE output.runtime # None
  BY <1>1, <1>2, FailsB DEF Stage
<1>3. CASE output.runtime = None
  <2>1. /\ base.step = "done" /\ builder[b].base = base.manifest /\ k \in Kinds
        /\ output.scratch[k] # None
    BY <1>1, <1>3 DEF BuildReads, BuildWrote, Validated
  <2>2. /\ output' = [output EXCEPT !.runtime = base.libs]
        /\ Goes(b, IF base.libs = base.tree THEN "executable" ELSE "failed")
    BY <1>3, <2>1, DoneLibraries DEF Stage
  <2>3. /\ output' \in Output /\ output'.runtime = base.libs /\ output'.manifest = None
        /\ output'.executable = output.executable /\ output'.scratch = output.scratch
    BY <1>1, <2>1, <2>2, DoneLibraries, NothingStaged, <1>3 DEF Output
  <2>4. /\ Moves(b) /\ builder'[b].kind = k
        /\ builder'[b].base = base.manifest /\ builder'[b].patches = builder[b].patches
        /\ builder'[b].step = IF base.libs = base.tree THEN "executable" ELSE "failed"
    <3>1. (IF base.libs = base.tree THEN "executable" ELSE "failed") \in BuilderSteps
      BY DEF BuilderSteps, Validated
    <3> QED BY <1>1, <2>1, <2>2, <2>3, <3>1, GoesEffect DEF Moves
  <2>5. BuildReads(b)'
    BY <1>1, <2>1, <2>4 DEF BuildReads, Validated
  <2>6. ASSUME NEW c \in Builders PROVE BuildWrote(c)'
    <3>1. CASE c = b
      BY <1>1, <2>1, <2>3, <2>4, <3>1 DEF BuildWrote, Staged, Copied
    <3>2. CASE c # b
      BY <1>1, <1>3, <2>1, <2>3, <2>4, <3>2, DoneLibraries, NothingStaged
         DEF BuildWrote, Moves, Staged, Copied
    <3> QED BY <3>1, <3>2
  <2>7. LinksShipped(b)'
    BY <1>1, <2>1, <2>3, <2>4, DoneLibraries DEF LinksShipped, Alone, Moves, Copied
  <2>8. OneStaged' /\ ManifestWritten'
    BY <1>3, <2>3, <2>4, NothingStaged DEF OneStaged, ManifestWritten, Moves
  <2>9. PackReads'
    BY <1>1, <1>3, NothingStaged DEF PackReads
  <2> QED BY <2>4, <2>5, <2>6, <2>7, <2>8, <2>9, BuildMoves
<1> QED BY <1>2, <1>3

\* The build that staged is alone from there on, and writes the manifest last.
LEMMA StagedAlone ==
    ASSUME BundleInv, NEW b \in Builders, builder[b].step \in Staged \ {"done"}
    PROVE  /\ \A c \in Builders \ {b} : builder[c].step \notin Staged
           /\ output.manifest = None /\ archive.step = "idle"
           /\ output.runtime = base.tree /\ output.runtime # None
           /\ BuildReads(b) /\ BuildWrote(b) /\ LinksShipped(b) /\ builder[b].kind \in Kinds
           /\ output \in Output
<1>1. /\ BuildReads(b) /\ BuildWrote(b) /\ LinksShipped(b) /\ output \in Output
      /\ \A c \in Builders \ {b} : builder[c].step \notin Staged
  BY DEF BundleInv, OneStaged, Typed
<1>2. output.manifest = None
  BY <1>1 DEF BundleInv, ManifestWritten, Staged
<1>3. archive.step = "idle"
  BY <1>2 DEF BundleInv, PackReads
<1>4. output.runtime = base.tree /\ base.step = "done" /\ builder[b].kind \in Kinds
  BY <1>1 DEF BuildReads, BuildWrote, Staged, Validated
<1> QED BY <1>1, <1>2, <1>3, <1>4, DoneLibraries

LEMMA CopyExecutableB ==
    ASSUME BundleInv, NEW b \in Builders, CopyExecutable(b)
    PROVE  BundleInv'
<1> DEFINE k == builder[b].kind
<1>1. builder[b].step = "executable" /\ UNCHANGED <<tag, version, base, archive>>
  BY DEF CopyExecutable
<1>2. /\ \A c \in Builders \ {b} : builder[c].step \notin Staged
      /\ output.manifest = None /\ archive.step = "idle"
      /\ output.runtime = base.tree /\ output.runtime # None
      /\ BuildReads(b) /\ BuildWrote(b) /\ LinksShipped(b) /\ k \in Kinds /\ output \in Output
  BY <1>1, StagedAlone DEF Staged
<1>3. output' = [output EXCEPT !.executable[k] = output.scratch[k]]
  BY DEF CopyExecutable
<1>4. /\ output' \in Output /\ output'.runtime = output.runtime /\ output'.manifest = None
      /\ output'.scratch = output.scratch /\ output'.executable[k] = output.scratch[k]
  BY <1>2, <1>3 DEF Output
<1>5. /\ Moves(b) /\ builder'[b].step = "clean" /\ builder'[b].kind = k
      /\ builder'[b].base = builder[b].base /\ builder'[b].patches = builder[b].patches
  BY <1>1, <1>4, GoesEffect DEF Moves, CopyExecutable, BuilderSteps, Validated
<1>6. BuildReads(b)'
  BY <1>1, <1>2, <1>5 DEF BuildReads, Validated
<1>7. ASSUME NEW c \in Builders PROVE BuildWrote(c)'
  BY <1>1, <1>2, <1>4, <1>5 DEF BuildWrote, Moves, Staged, Copied
<1>8. LinksShipped(b)'
  BY <1>1, <1>2, <1>4, <1>5 DEF LinksShipped, Alone, Moves, Copied
<1>9. OneStaged' /\ ManifestWritten' /\ PackReads'
  BY <1>1, <1>2, <1>4, <1>5 DEF OneStaged, ManifestWritten, PackReads, Moves
<1> QED BY <1>5, <1>6, <1>7, <1>8, <1>9, BuildMoves

LEMMA RemoveScratchB ==
    ASSUME BundleInv, NEW b \in Builders, RemoveScratch(b)
    PROVE  BundleInv'
<1> DEFINE k == builder[b].kind
<1>1. builder[b].step = "clean" /\ UNCHANGED <<tag, version, base, archive>>
  BY DEF RemoveScratch
<1>2. /\ \A c \in Builders \ {b} : builder[c].step \notin Staged
      /\ output.manifest = None /\ archive.step = "idle"
      /\ output.runtime = base.tree /\ output.runtime # None
      /\ BuildReads(b) /\ BuildWrote(b) /\ LinksShipped(b) /\ k \in Kinds /\ output \in Output
  BY <1>1, StagedAlone DEF Staged
<1>3. output' = [output EXCEPT !.scratch = [j \in Kinds |-> None]]
  BY DEF RemoveScratch
<1>4. /\ output' \in Output /\ output'.runtime = output.runtime /\ output'.manifest = None
      /\ output'.executable = output.executable
  BY <1>2, <1>3 DEF Output, Libraries
<1>5. /\ Moves(b) /\ builder'[b].step = "manifest" /\ builder'[b].kind = k
      /\ builder'[b].base = builder[b].base /\ builder'[b].patches = builder[b].patches
  BY <1>1, <1>4, GoesEffect DEF Moves, RemoveScratch, BuilderSteps, Validated
<1>6. BuildReads(b)'
  BY <1>1, <1>2, <1>5 DEF BuildReads, Validated
<1>7. ASSUME NEW c \in Builders PROVE BuildWrote(c)'
  BY <1>1, <1>2, <1>4, <1>5 DEF BuildWrote, Moves, Staged, Copied
<1>8. LinksShipped(b)'
  BY <1>1, <1>2, <1>4, <1>5 DEF LinksShipped, Alone, Moves, Copied
<1>9. OneStaged' /\ ManifestWritten' /\ PackReads'
  BY <1>1, <1>2, <1>4, <1>5 DEF OneStaged, ManifestWritten, PackReads, Moves
<1> QED BY <1>5, <1>6, <1>7, <1>8, <1>9, BuildMoves

LEMMA WriteManifestB ==
    ASSUME BundleInv, NEW b \in Builders, WriteManifest(b)
    PROVE  BundleInv'
<1> DEFINE k == builder[b].kind
           m == [kind |-> k, sums |-> builder[b].base.sums,
                 executable |-> output.executable[k],
                 tested |-> builder[b].base.commit = Tested, patches |-> builder[b].patches]
<1>1. builder[b].step = "manifest" /\ UNCHANGED <<tag, version, base, archive>>
  BY DEF WriteManifest
<1>2. /\ \A c \in Builders \ {b} : builder[c].step \notin Staged
      /\ archive.step = "idle" /\ output.runtime = base.tree /\ output.runtime # None
      /\ BuildReads(b) /\ BuildWrote(b) /\ LinksShipped(b) /\ k \in Kinds /\ output \in Output
  BY <1>1, StagedAlone DEF Staged
<1>3. builder[b].base \in BaseManifest /\ builder[b].patches \in SUBSET Patches
  BY <1>1, <1>2 DEF BuildReads, Validated, BundleInv, BaseSteps, Typed, Builder
<1>4. /\ m \in Manifest /\ m.kind = k /\ m.sums = builder[b].base.sums
      /\ m.executable = output.executable[k] /\ m.patches = builder[b].patches
      /\ m.tested <=> builder[b].base.commit = Tested
  BY <1>2, <1>3 DEF Manifest, BaseManifest, Output
<1>5. output' = [output EXCEPT !.manifest = m]
  BY DEF WriteManifest
<1> HIDE DEF m
<1>6. /\ output' \in Output /\ output'.runtime = output.runtime /\ output'.manifest = m
      /\ output'.executable = output.executable /\ output'.scratch = output.scratch
  BY <1>2, <1>4, <1>5 DEF Output
<1>7. /\ Moves(b) /\ builder'[b].step = "done" /\ builder'[b].kind = k
      /\ builder'[b].base = builder[b].base /\ builder'[b].patches = builder[b].patches
  BY <1>1, <1>6, GoesEffect DEF Moves, WriteManifest, BuilderSteps, Validated
<1>8. BuildReads(b)'
  BY <1>1, <1>2, <1>7 DEF BuildReads, Validated
<1>9. ASSUME NEW c \in Builders PROVE BuildWrote(c)'
  BY <1>1, <1>2, <1>6, <1>7 DEF BuildWrote, Moves, Staged, Copied
<1>10. LinksShipped(b)'
  BY <1>1, <1>2, <1>6, <1>7 DEF LinksShipped, Alone, Moves, Copied
<1>11. OneStaged' /\ PackReads'
  BY <1>1, <1>2, <1>7 DEF OneStaged, PackReads, Moves
<1>12. ManifestWritten'
  BY <1>4, <1>6, <1>7 DEF ManifestWritten
<1> QED BY <1>7, <1>8, <1>9, <1>10, <1>11, <1>12, BuildMoves

LEMMA PackB ==
    ASSUME BundleInv, Pack
    PROVE  BundleInv'
<1>1. UNCHANGED <<tag, version, base, builder, output>> /\ output \in Output /\ archive \in Archive
  BY DEF BundleInv, Typed, Pack, PackStart, PackBuild, PackRuntime
<1>2. archive' \in Archive /\ PackReads'
  <2>1. CASE PackStart
    <3>1. /\ archive' \in Archive /\ archive'.step = "build" /\ output.manifest # None
          /\ archive'.manifest = output.manifest
      BY <1>1, <2>1 DEF PackStart, Archive, Output
    <3> QED BY <1>1, <3>1 DEF PackReads
  <2>2. CASE PackBuild
    <3>1. /\ archive' \in Archive /\ archive'.step = "runtime"
          /\ archive'.manifest = archive.manifest /\ archive'.executable = output.executable
          /\ archive.step = "build"
      BY <1>1, <2>2 DEF PackBuild, Archive, Output
    <3> QED BY <1>1, <3>1 DEF PackReads, BundleInv
  <2>3. CASE PackRuntime
    <3>1. /\ archive' \in Archive /\ archive'.step = "done" /\ archive'.runtime = output.runtime
          /\ archive'.manifest = archive.manifest /\ archive'.executable = archive.executable
          /\ archive.step = "runtime"
      BY <1>1, <2>3 DEF PackRuntime, Archive, Output
    <3> QED BY <1>1, <3>1 DEF PackReads, BundleInv
  <2> QED BY <2>1, <2>2, <2>3 DEF Pack
<1>3. Typed' /\ BaseSteps'
  BY <1>1, <1>2, BaseStepsStay DEF BundleInv, Typed
<1>4. \A b \in Builders : BuildReads(b)' /\ BuildWrote(b)' /\ LinksShipped(b)'
  BY <1>1 DEF BundleInv, BuildReads, BuildWrote, LinksShipped, Alone
<1>5. OneStaged' /\ ManifestWritten'
  BY <1>1 DEF BundleInv, OneStaged, ManifestWritten
<1> QED BY <1>2, <1>3, <1>4, <1>5 DEF BundleInv

----------------------------------------------------------------------------
(* The theorems.                                                           *)

\* What the output and the archive hold is what the builds put there, however
\* many build into the one output.
THEOREM BundleInvariantHolds == Spec => []BundleInv
<1>1. Init => BundleInv
  BY InitB
<1>2. BundleInv /\ [Next]_vars => BundleInv'
  <2> SUFFICES ASSUME BundleInv, [Next]_vars PROVE BundleInv'
    OBVIOUS
  <2>1. CASE BaseBuild
    BY <2>1, BaseStartB, FetchRevisionB, ResolveB, ExportB, RunPatchB, HashPatchB, CompileLibrariesB,
       InventoryB, BaseFailsB DEF BaseBuild
  <2>2. CASE MoveTag \/ EditPatch \/ UNCHANGED vars
    BY <2>2, MoveTagB, EditPatchB, StuttersB
  <2>3. CASE AlterBase \/ Pack
    BY <2>3, AlterBaseB, PackB
  <2>4. CASE \E b \in Builders : Build(b)
    BY <2>4, BuildStartB, ValidateBaseB, CompileB, StageB, CopyExecutableB, RemoveScratchB,
       WriteManifestB, BuildFailsB DEF Build
  <2> QED BY <2>1, <2>2, <2>3, <2>4 DEF Next
<1> QED BY <1>1, <1>2, PTL DEF Spec

\* What is done, with a manifest: the facts the theorems are read off.
LEMMA DoneFacts ==
    ASSUME BundleInv, output.manifest # None
    PROVE  \E b \in Builders :
              /\ builder[b].step = "done" /\ base.step = "done"
              /\ output.runtime = base.tree /\ builder[b].base = base.manifest
              /\ output.manifest.kind = builder[b].kind
              /\ output.manifest.sums = base.tree
              /\ output.manifest.executable = output.executable[builder[b].kind]
              /\ output.manifest.executable # None
              /\ output.manifest.tested <=> base.commit = Tested
              /\ output.manifest.patches = builder[b].patches
              /\ BuildReads(b) /\ LinksShipped(b)
<1>1. PICK b \in Builders :
          /\ builder[b].step = "done"
          /\ output.manifest.kind = builder[b].kind
          /\ output.manifest.sums = builder[b].base.sums
          /\ output.manifest.executable = output.executable[builder[b].kind]
          /\ output.manifest.tested <=> builder[b].base.commit = Tested
          /\ output.manifest.patches = builder[b].patches
  BY DEF BundleInv, ManifestWritten
<1>2. BuildReads(b) /\ BuildWrote(b) /\ LinksShipped(b)
  BY DEF BundleInv
<1>3. base.step = "done" /\ builder[b].base = base.manifest /\ output.runtime = base.tree
      /\ output.executable[builder[b].kind] # None
  BY <1>1, <1>2 DEF BuildReads, BuildWrote, Staged, Validated, Copied
<1>4. base.manifest.sums = base.tree /\ base.manifest.commit = base.commit
  BY <1>3 DEF BundleInv, BaseSteps
<1> QED BY <1>1, <1>2, <1>3, <1>4

\* What a manifest says is beside it, in the output and in a finished archive,
\* though other builds run into the output and the base changes under them.
THEOREM BundlesVouch == Spec => []BundleVouches
<1>1. BundleInv => ManifestVouches
  BY DoneFacts DEF ManifestVouches
<1>2. BundleInv => ArchiveVouches
  BY DoneFacts DEF ArchiveVouches, BundleInv, PackReads
<1> QED BY <1>1, <1>2, BundleInvariantHolds, PTL DEF BundleVouches

\* A snapshot bundle is built with the layer-range patch and with no other, in the
\* version its manifest names unless the file was edited between the patch program
\* and the hash; "tested" is said of the tested commit alone, unless the tag of a
\* clone moved between its two resolutions.
THEOREM ProvenanceHolds == Spec => []ProvenanceIsTrue
<1>1. BundleInv => TagIsTested
  BY DEF BundleInv, BaseSteps, TagIsTested
<1>2. ASSUME BundleInv, output.manifest # None
      PROVE  /\ "tag" \notin base.raced =>
                   output.manifest.tested = (output.runtime.commit = Tested)
             /\ output.manifest.kind = "snapshot-worker" =>
                   /\ \E v \in 0..1 : output.runtime.patches = {LayerRange(v)}
                   /\ "patch" \notin base.raced =>
                         output.manifest.patches = output.runtime.patches
  <2>1. PICK b \in Builders :
            /\ builder[b].step = "done" /\ base.step = "done"
            /\ output.runtime = base.tree /\ builder[b].base = base.manifest
            /\ output.manifest.kind = builder[b].kind
            /\ output.manifest.tested <=> base.commit = Tested
            /\ output.manifest.patches = builder[b].patches /\ BuildReads(b)
    BY <1>2, DoneFacts
  <2>2. /\ "tag" \notin base.raced => base.tree.commit = base.commit
        /\ base.manifest.patches = base.applied /\ HashedIsApplied /\ base.patch = None
        /\ base.tree \in Trees
    BY <1>2, <2>1 DEF BundleInv, BaseSteps
  <2>3. output.manifest.tested \in BOOLEAN
    BY <1>2 DEF BundleInv, Typed, Output, Manifest
  <2>4. "tag" \notin base.raced => output.manifest.tested = (output.runtime.commit = Tested)
    BY <2>1, <2>2, <2>3
  <2>5. ASSUME output.manifest.kind = "snapshot-worker"
        PROVE  /\ \E v \in 0..1 : output.runtime.patches = {LayerRange(v)}
               /\ "patch" \notin base.raced => output.manifest.patches = output.runtime.patches
    <3>1. PICK w \in {0, 1} : base.applied = {LayerRange(w)}
      BY <2>1, <2>2, <2>5 DEF BuildReads, Validated
    <3>2. Layered(base.tree.patches) /\ Other \notin base.tree.patches
      BY <2>2, <3>1, PatchesDiffer, NoneAssumption DEF HashedIsApplied, Layered
    <3>3. PICK v \in {0, 1} : base.tree.patches \subseteq {LayerRange(v), Other}
      BY <2>2 DEF HashedIsApplied
    <3>4. base.tree.patches = {LayerRange(v)}
      BY <3>2, <3>3, PatchesDiffer DEF Layered
    <3>5. "patch" \notin base.raced => base.tree.patches = base.applied
      BY <2>2 DEF HashedIsApplied, Unhashed
    <3>6. output.manifest.patches = base.applied
      BY <2>1, <2>2, <2>5 DEF BuildReads, Validated
    <3> QED BY <2>1, <3>3, <3>4, <3>5, <3>6
  <2> QED BY <2>4, <2>5
<1>3. BundleInv => ProvenanceIsTrue
  BY <1>1, <1>2 DEF ProvenanceIsTrue
<1> QED BY <1>3, BundleInvariantHolds, PTL

\* A build alone in its output ships the libraries its executable was linked
\* with, whenever the base was altered.
THEOREM ShippedAsLinked == Spec => []LinkedAsShipped
<1>1. ASSUME BundleInv, output.manifest # None,
             Cardinality({b \in Builders : builder[b].step # "idle"}) = 1
      PROVE  output.manifest.executable = output.runtime
  <2> DEFINE begun == {b \in Builders : builder[b].step # "idle"}
  <2>1. PICK b \in Builders :
            /\ builder[b].step = "done" /\ LinksShipped(b)
            /\ output.manifest.executable = output.executable[builder[b].kind]
    BY <1>1, DoneFacts
  <2>2. IsFiniteSet(begun)
    BY BuildersAssumption, FS_Subset
  <2>3. PICK x : begun = {x}
    BY <1>1, <2>2, FS_Singleton
  <2>4. Alone(b)
    BY <2>1, <2>3 DEF Alone
  <2> QED BY <2>1, <2>4 DEF LinksShipped, Copied
<1>2. BundleInv => LinkedAsShipped
  BY <1>1 DEF LinkedAsShipped
<1> QED BY <1>2, BundleInvariantHolds, PTL

----------------------------------------------------------------------------
(* Installing a bundle.                                                    *)

Steps == {"idle", "download", "digest", "attest", "unpack", "extract", "write", "remove",
          "report", "done"}

\* The members, by their places in the archive.
LEMMA MembersAre ==
    /\ Len(Members) = 4
    /\ Members[1] = "manifest" /\ Members[2] = "worker" /\ Members[3] = "snapshot-worker"
    /\ Members[4] = "runtime"
    /\ MemberSet = {"manifest", "worker", "snapshot-worker", "runtime"}
<1>1. Len(Members) = 4 /\ Members[1] = "manifest" /\ Members[2] = "worker"
      /\ Members[3] = "snapshot-worker" /\ Members[4] = "runtime"
  BY DEF Members
<1>2. 1..Len(Members) = {1, 2, 3, 4}
  BY <1>1
<1> QED BY <1>1, <1>2 DEF MemberSet

----------------------------------------------------------------------------
(* One fetcher alone in its output.                                        *)

FetchTypes ==
    /\ exists \in BOOLEAN
    /\ file \in [MemberSet -> Assets \cup Fetchers \cup {Nothing, Torn}]
    /\ ~exists => \A m \in MemberSet : file[m] = Nothing
    /\ pc \in [Fetchers -> Steps]
    /\ want \in [Fetchers -> Assets]
    /\ fetched \in [Fetchers -> Assets \cup {Nothing, Torn}]
    /\ next \in [Fetchers -> 1..5]
    /\ before \in [Fetchers -> BOOLEAN]
    /\ result \in [Fetchers -> {"none", "installed", "refused", "interrupted"}]

\* The members before the one that is extracted next.
Extracted(f) ==
    \A i \in {1, 2, 3, 4} : i < next[f] =>
        file[Members[i]] = want[f] \/ Members[i] \in Lacks[want[f]]

FetchInv(f) ==
    /\ FetchTypes
    /\ result[f] # "none" => pc[f] = "done"
    /\ pc[f] \notin {"idle", "done"} => ~before[f]
    /\ pc[f] \in {"download", "digest", "attest", "unpack"} => ~exists
    /\ pc[f] \in {"attest", "unpack", "extract", "write", "report"} => fetched[f] = want[f]
    /\ pc[f] \in {"extract", "write"} => Extracted(f)
    /\ pc[f] = "write" => next[f] <= 4 /\ file[Members[next[f]]] = f
    /\ pc[f] = "report" => exists /\ Whole(want[f]) /\ file["manifest"] \in Assets
    /\ result[f] = "installed" => exists /\ Whole(want[f])
    /\ result[f] = "refused" => exists = before[f]

\* A whole asset is one every member of which was extracted.
LEMMA ExtractedIsWhole ==
    ASSUME NEW f, Extracted(f), next[f] > 4, next[f] \in 1..5 PROVE Whole(want[f])
BY MembersAre DEF Extracted, Whole

\* Each step of the fetcher, up to the verified archive.
LEMMA DownloadStep ==
    ASSUME NEW f \in Fetchers, Fetchers = {f}, FetchInv(f),
           Start(f) \/ DownloadFails(f) \/ Download(f) \/ Digest(f) \/ Attest(f) \/ Unpack(f)
    PROVE  FetchInv(f)'
<1> USE DEF FetchInv, Steps
<1>0. UNCHANGED <<exists, file>>
  BY DEF Start, DownloadFails, Download, Digest, Attest, Unpack, directory
<1>1. FetchTypes'
  BY <1>0 DEF FetchTypes, Start, DownloadFails, Download, Digest, Attest, Unpack, Proceeds, Ends
<1>2. CASE Start(f)
  BY <1>0, <1>1, <1>2 DEF FetchTypes, Start, Proceeds, Ends
<1>3. CASE DownloadFails(f)
  BY <1>0, <1>1, <1>3 DEF FetchTypes, DownloadFails, Proceeds, Ends
<1>4. CASE Download(f)
  BY <1>0, <1>1, <1>4 DEF FetchTypes, Download, Proceeds, Ends
<1>5. CASE Digest(f)
  BY <1>0, <1>1, <1>5 DEF FetchTypes, Digest, Proceeds, Ends
<1>6. CASE Attest(f)
  BY <1>0, <1>1, <1>6 DEF FetchTypes, Attest, Proceeds, Ends
<1>7. CASE Unpack(f)
  <2>1. next'[f] = 1 /\ pc'[f] = "extract"
    BY <1>0, <1>7 DEF FetchTypes, Unpack, Proceeds
  <2> QED BY <1>0, <1>1, <1>7, <2>1 DEF FetchTypes, Unpack, Extracted
<1> QED BY <1>2, <1>3, <1>4, <1>5, <1>6, <1>7

\* Each step that writes the output or removes it.
LEMMA OutputStep ==
    ASSUME NEW f \in Fetchers, Fetchers = {f}, FetchInv(f),
           OpenMember(f) \/ WriteMember(f) \/ ExtractFails(f) \/ CheckMembers(f)
              \/ Remove(f) \/ Removed(f) \/ Report(f) \/ Interrupt(f)
    PROVE  FetchInv(f)'
<1> USE MembersAre, AssetsAssumption DEF FetchInv, Steps
<1>1. CASE OpenMember(f)
  <2>1. pc[f] = "extract" /\ next[f] \in {1, 2, 3, 4} /\ UNCHANGED <<want, fetched, before, result>>
    BY <1>1 DEF OpenMember, FetchTypes
  <2>2. CASE Holds(fetched[f], Members[next[f]])
    <3>1. /\ exists' /\ file' = [file EXCEPT ![Members[next[f]]] = f]
          /\ pc' = [pc EXCEPT ![f] = "write"] /\ UNCHANGED next
      BY <1>1, <2>2 DEF OpenMember, Proceeds
    <3>2. FetchTypes'
      BY <2>1, <3>1 DEF FetchTypes
    <3>3. Extracted(f)'
      BY <2>1, <3>1 DEF FetchTypes, Extracted
    <3>4. file'[Members[next[f]]] = f
      BY <2>1, <3>1 DEF FetchTypes
    <3>5. pc'[f] = "write" /\ result'[f] = "none" /\ ~before'[f] /\ fetched'[f] = want'[f]
      BY <2>1, <3>1 DEF FetchTypes
    <3> QED BY <2>1, <3>1, <3>2, <3>3, <3>4, <3>5
  <2>3. CASE ~Holds(fetched[f], Members[next[f]])
    <3>1. next' = [next EXCEPT ![f] = @ + 1] /\ UNCHANGED <<exists, file, pc>>
      BY <1>1, <2>3 DEF OpenMember
    <3>2. FetchTypes'
      BY <2>1, <3>1 DEF FetchTypes
    <3>3. Members[next[f]] \in Lacks[want[f]]
      BY <2>1, <2>3 DEF Holds
    <3>4. Extracted(f)'
      BY <2>1, <3>1, <3>3 DEF FetchTypes, Extracted
    <3> QED BY <2>1, <3>1, <3>2, <3>4 DEF FetchTypes
  <2> QED BY <2>2, <2>3
<1>2. CASE WriteMember(f)
  <2>1. pc[f] = "write" /\ next[f] \in {1, 2, 3, 4} /\ UNCHANGED <<exists, want, fetched, before, result>>
    BY <1>2 DEF WriteMember, FetchTypes
  <2>2. file' = [file EXCEPT ![Members[next[f]]] = want[f]]
    BY <1>2, <2>1 DEF WriteMember, FetchTypes
  <2>3. pc' = [pc EXCEPT ![f] = "extract"] /\ next' = [next EXCEPT ![f] = @ + 1]
    BY <1>2 DEF WriteMember, Proceeds
  <2>4. exists
    BY <2>1 DEF FetchTypes
  <2>5. FetchTypes'
    BY <2>1, <2>2, <2>3, <2>4 DEF FetchTypes
  <2>6. Extracted(f)'
    BY <2>1, <2>2, <2>3 DEF FetchTypes, Extracted
  <2> QED BY <2>1, <2>3, <2>5, <2>6 DEF FetchTypes
<1>3. CASE ExtractFails(f)
  BY <1>3 DEF ExtractFails, Proceeds, FetchTypes, directory
<1>4. CASE CheckMembers(f)
  <2>1. pc[f] = "extract" /\ next[f] > 4 /\ UNCHANGED <<directory, want, fetched, next, before, result>>
    BY <1>4 DEF CheckMembers
  <2>2. Whole(want[f])
    BY <2>1, ExtractedIsWhole DEF FetchTypes
  <2>3. (file["manifest"] \in Assets) => exists
    BY DEF FetchTypes
  <2>4. \/ pc' = [pc EXCEPT ![f] = "remove"]
        \/ pc' = [pc EXCEPT ![f] = "report"] /\ exists /\ file["manifest"] \in Assets
    <3>1. CASE file["manifest"] \in Assets /\ file[Kind[file["manifest"]]] # Nothing
      BY <1>4, <2>3, <3>1 DEF CheckMembers, Proceeds
    <3>2. CASE ~(file["manifest"] \in Assets /\ file[Kind[file["manifest"]]] # Nothing)
      BY <1>4, <3>2 DEF CheckMembers, Proceeds
    <3> QED BY <3>1, <3>2
  <2>5. FetchTypes'
    BY <2>1, <2>4 DEF FetchTypes, directory
  <2>6. Whole(want[f])'
    BY <2>1, <2>2 DEF Whole, directory
  <2> QED BY <2>1, <2>4, <2>5, <2>6 DEF FetchTypes, directory
<1>5. CASE Remove(f)
  BY <1>5 DEF Remove, FetchTypes, fetcher
<1>6. CASE Removed(f)
  BY <1>6 DEF Removed, Proceeds, Ends, FetchTypes
<1>7. CASE Report(f)
  <2>1. /\ pc' = [pc EXCEPT ![f] = "done"] /\ result' = [result EXCEPT ![f] = "installed"]
        /\ UNCHANGED <<directory, want, fetched, next, before>>
    BY <1>7 DEF Report, Proceeds, Ends
  <2>2. FetchTypes'
    BY <2>1 DEF FetchTypes, directory
  <2>3. exists' /\ Whole(want[f])'
    BY <1>7, <2>1 DEF Report, Whole, directory
  <2> QED BY <2>1, <2>2, <2>3 DEF FetchTypes
<1>8. CASE Interrupt(f)
  BY <1>8 DEF Interrupt, Proceeds, Ends, FetchTypes, directory
<1> QED BY <1>1, <1>2, <1>3, <1>4, <1>5, <1>6, <1>7, <1>8

\* Verification and stuttering leave the directory and the fetcher alone.
LEMMA FetcherStutters ==
    ASSUME NEW f \in Fetchers, FetchInv(f), UNCHANGED <<directory, fetcher>>
    PROVE  FetchInv(f)'
BY DEF FetchInv, FetchTypes, Extracted, Whole, directory, fetcher

\* The invariant of one fetcher alone is kept by every step.
LEMMA FetchStep ==
    ASSUME NEW f \in Fetchers, Fetchers = {f}, FetchInv(f), [InstallNext]_installVars PROVE FetchInv(f)'
<1>1. CASE UNCHANGED installVars \/ StartWorker
  <2>1. UNCHANGED <<directory, fetcher>>
    BY <1>1 DEF installVars, StartWorker, ReadManifest, HashExecutable, HashRuntime, HashModel, Execute,
                LoadLibraries, StartFails
  <2> QED BY <2>1, FetcherStutters
<1>2. CASE Start(f) \/ Fetch(f) \/ Interrupt(f)
  BY <1>2, DownloadStep, OutputStep DEF Fetch
<1> QED BY <1>1, <1>2 DEF InstallNext

\* What one fetcher starts from.
LEMMA FetchInit == ASSUME NEW f \in Fetchers, Fetchers = {f}, InstallInit PROVE FetchInv(f)
<1> DEFINE first == CHOOSE a \in Assets : TRUE
<1>1. first \in Assets
  BY AssetsAssumption
<1>2. want \in [Fetchers -> {first}]
  BY DEF InstallInit
<1> HIDE DEF first
<1>3. want \in [Fetchers -> Assets]
  BY <1>1, <1>2
<1>4. file = [m \in MemberSet |-> Nothing] /\ exists = FALSE
  BY DEF InstallInit
<1>5. file \in [MemberSet -> Assets \cup Fetchers \cup {Nothing, Torn}]
  BY <1>4
<1>6. /\ pc \in [Fetchers -> Steps] /\ fetched \in [Fetchers -> Assets \cup {Nothing, Torn}]
      /\ next \in [Fetchers -> 1..5] /\ before \in [Fetchers -> BOOLEAN]
      /\ result \in [Fetchers -> {"none", "installed", "refused", "interrupted"}]
  BY DEF InstallInit, Steps
<1>7. FetchTypes
  BY <1>3, <1>4, <1>5, <1>6 DEF FetchTypes
<1>8. pc[f] = "idle" /\ result[f] = "none"
  BY DEF InstallInit
<1> QED BY <1>7, <1>8 DEF FetchInv

\* What one fetcher alone in its output reported installed is there, whole and
\* of the asset asked for, and what it refused left the output as it was found,
\* whatever the release publishes and however often the download, the checks or
\* the extraction failed or were interrupted before.
THEOREM FetchAloneIsAllOrNothing ==
    ASSUME NEW f \in Fetchers, Fetchers = {f} PROVE InstallSpec => []FetchIsAllOrNothing
<1>1. FetchInv(f) => FetchIsAllOrNothing
  BY DEF FetchInv, FetchIsAllOrNothing, InstalledIsWhole, RefusedLeavesNothing
<1>2. InstallInit => FetchInv(f)
  BY FetchInit
<1>3. FetchInv(f) /\ [InstallNext]_installVars => FetchInv(f)'
  BY FetchStep
<1> QED BY <1>1, <1>2, <1>3, PTL DEF InstallSpec

----------------------------------------------------------------------------
(* The start of a worker beside one fetcher.                               *)

\* An asset without its manifest or its executable: no start accepts it.
Broken(a) == "manifest" \in Lacks[a] \/ Kind[a] \in Lacks[a]

\* A file is of an asset that has it, and the libraries are extracted last: once
\* those of a usable asset are there, all of it is, and no fetcher removes it.
DirectoryInv(f) ==
    /\ \A m \in MemberSet : file[m] \in Assets => m \notin Lacks[file[m]]
    /\ file["runtime"] \in Assets /\ ~Broken(file["runtime"]) =>
          /\ Whole(file["runtime"]) /\ exists
          /\ pc[f] \in {"extract", "report", "done"}
          /\ pc[f] = "extract" => next[f] = 5
    /\ pc[f] = "write" => Members[next[f]] \notin Lacks[want[f]]

Checks == {"idle", "executable", "runtime", "model", "verified", "loading", "running"}

\* What was hashed so far is what the manifest that was read lists; from the
\* libraries on it is also what is in the directory.
StartInv ==
    /\ check \in Checks /\ starting \in BundleKinds
    /\ seen \in [MemberSet -> Assets \cup {Nothing}]
    /\ DOMAIN process = {"executable", "runtime"}
    /\ check # "idle" =>
          /\ seen["manifest"] \in Assets /\ Kind[seen["manifest"]] = starting
          /\ "manifest" \notin Lacks[seen["manifest"]]
    /\ check \notin {"idle", "executable"} => starting \notin Lacks[seen["manifest"]]
    /\ check \notin {"idle", "executable", "runtime"} => file["runtime"] = seen["manifest"]
    /\ check \in {"loading", "running"} => process.executable = seen["manifest"]
    /\ check = "running" => process.runtime = seen["manifest"]

\* The directory under the steps of the fetcher.
LEMMA DirectoryStep ==
    ASSUME NEW f \in Fetchers, Fetchers = {f}, FetchInv(f), DirectoryInv(f),
           Start(f) \/ Fetch(f) \/ Interrupt(f)
    PROVE  DirectoryInv(f)' /\ (file["runtime"] \in Assets /\ ~Broken(file["runtime"]) =>
                                    file'["runtime"] = file["runtime"])
<1> USE MembersAre, AssetsAssumption
<1>1. /\ pc \in [Fetchers -> Steps] /\ next[f] \in 1..5 /\ exists \in BOOLEAN
      /\ file \in [MemberSet -> Assets \cup Fetchers \cup {Nothing, Torn}]
      /\ ~exists => \A m \in MemberSet : file[m] = Nothing
  BY DEF FetchInv, FetchTypes
<1>2. ASSUME UNCHANGED directory, pc'[f] # "write",
             pc'[f] \in {"report", "done"} \/ pc[f] \notin {"extract", "report", "done"}
      PROVE  DirectoryInv(f)' /\ file' = file
  BY <1>2 DEF DirectoryInv, Whole, directory
<1>3. CASE Start(f)
  <2>1. CASE exists
    BY <1>1, <1>2, <1>3, <2>1 DEF Start, Ends, Proceeds
  <2>2. CASE ~exists
    BY <1>1, <1>3, <2>2 DEF Start, DirectoryInv, directory, Proceeds
  <2> QED BY <2>1, <2>2
<1>4. CASE DownloadFails(f) \/ Download(f) \/ Digest(f) \/ Attest(f) \/ Unpack(f)
  BY <1>1, <1>2, <1>4 DEF DownloadFails, Download, Digest, Attest, Unpack, Proceeds, Ends
<1>5. CASE Report(f) \/ Interrupt(f)
  BY <1>1, <1>2, <1>5 DEF Report, Interrupt, Ends, Proceeds
<1>6. CASE OpenMember(f)
  <2>1. pc[f] = "extract" /\ next[f] \in {1, 2, 3, 4}
    BY <1>1, <1>6 DEF OpenMember
  <2>2. ~(file["runtime"] \in Assets /\ ~Broken(file["runtime"]))
    BY <2>1 DEF DirectoryInv
  <2>3. file' = file \/ file' = [file EXCEPT ![Members[next[f]]] = f]
    BY <1>6 DEF OpenMember
  <2>4. f \notin Assets /\ f # Nothing
    OBVIOUS
  <2>5. pc'[f] = "write" => next'[f] = next[f] /\ Members[next[f]] \notin Lacks[want[f]] /\ want' = want
    BY <1>1, <1>6, <2>1 DEF OpenMember, Holds, Proceeds, FetchInv, FetchTypes
  <2>6. file'["runtime"] \in Assets => file'["runtime"] = file["runtime"]
    BY <1>1, <2>1, <2>3, <2>4
  <2>7. \A m \in MemberSet : file'[m] \in Assets => m \notin Lacks[file'[m]]
    BY <1>1, <2>1, <2>3, <2>4 DEF DirectoryInv
  <2> QED BY <2>2, <2>5, <2>6, <2>7 DEF DirectoryInv
<1>7. CASE WriteMember(f)
  <2>1. /\ pc[f] = "write" /\ next[f] \in {1, 2, 3, 4} /\ Extracted(f) /\ fetched[f] = want[f]
        /\ file[Members[next[f]]] = f /\ want[f] \in Assets /\ next \in [Fetchers -> 1..5]
        /\ UNCHANGED <<exists, want>>
    BY <1>7 DEF WriteMember, FetchInv, FetchTypes
  <2>2. /\ file' = [file EXCEPT ![Members[next[f]]] = want[f]]
        /\ pc'[f] = "extract" /\ next'[f] = next[f] + 1
    BY <1>1, <1>7, <2>1 DEF WriteMember, Proceeds
  <2>3. ~(file["runtime"] \in Assets /\ ~Broken(file["runtime"]))
    BY <2>1 DEF DirectoryInv
  <2>4. exists
    BY <1>1, <2>1
  <2>5. Members[next[f]] \notin Lacks[want[f]]
    BY <2>1 DEF DirectoryInv
  <2>6. \A m \in MemberSet : file'[m] \in Assets => m \notin Lacks[file'[m]]
    BY <1>1, <2>1, <2>2, <2>5 DEF DirectoryInv
  <2>7. CASE next[f] = 4
    <3>1. file'["runtime"] = want[f] /\ next'[f] = 5
      BY <1>1, <2>1, <2>2, <2>7
    <3>2. \A m \in MemberSet : file'[m] = want[f] \/ m \in Lacks[want[f]]
      BY <1>1, <2>1, <2>2, <2>7 DEF Extracted
    <3> QED BY <2>1, <2>2, <2>3, <2>4, <2>6, <3>1, <3>2 DEF DirectoryInv, Whole
  <2>8. CASE next[f] # 4
    BY <1>1, <2>1, <2>2, <2>3, <2>6, <2>8 DEF DirectoryInv
  <2> QED BY <2>7, <2>8
<1>8. CASE ExtractFails(f)
  <2>1. UNCHANGED directory /\ pc[f] \in {"extract", "write"} /\ next[f] <= 4
    BY <1>8 DEF ExtractFails
  <2>2. ~(file["runtime"] \in Assets /\ ~Broken(file["runtime"]))
    BY <1>1, <2>1 DEF DirectoryInv
  <2>3. pc'[f] # "write"
    BY <1>1, <1>8 DEF ExtractFails, Proceeds
  <2> QED BY <2>1, <2>2, <2>3 DEF DirectoryInv, directory
<1>9. CASE CheckMembers(f)
  <2>1. UNCHANGED directory /\ pc[f] = "extract"
    BY <1>9 DEF CheckMembers
  <2>2. CASE file["runtime"] \in Assets /\ ~Broken(file["runtime"])
    <3> DEFINE a == file["runtime"]
    <3>1. file["manifest"] = a /\ file[Kind[a]] = a
      BY <2>2 DEF DirectoryInv, Whole, Broken, BundleKinds
    <3>2. pc'[f] = "report"
      BY <1>1, <1>9, <2>2, <3>1, file["manifest"] = a DEF CheckMembers, Proceeds
    <3> QED BY <1>2, <2>1, <3>2 DEF directory
  <2>3. CASE ~(file["runtime"] \in Assets /\ ~Broken(file["runtime"]))
    <3>1. pc'[f] # "write"
      BY <1>1, <1>9 DEF CheckMembers, Proceeds
    <3> QED BY <2>1, <2>3, <3>1 DEF DirectoryInv, directory
  <2> QED BY <2>2, <2>3
<1>10. CASE Remove(f) \/ Removed(f)
  <2>1. ~(file["runtime"] \in Assets /\ ~Broken(file["runtime"]))
    BY <1>10 DEF Remove, Removed, DirectoryInv
  <2>2. \A m \in MemberSet : file'[m] = file[m] \/ file'[m] = Nothing
    BY <1>1, <1>10 DEF Remove, Removed
  <2>3. pc'[f] # "write"
    BY <1>1, <1>10 DEF Remove, Removed, Ends, Proceeds, fetcher
  <2> QED BY <1>1, <2>1, <2>2, <2>3 DEF DirectoryInv
<1> QED BY <1>2, <1>3, <1>4, <1>5, <1>6, <1>7, <1>8, <1>9, <1>10 DEF Fetch, directory

\* The start of a worker leaves the directory and the fetcher alone, and what it
\* has hashed so far is of one usable asset.
LEMMA StartWorkerStep ==
    ASSUME NEW f \in Fetchers, Fetchers = {f}, FetchInv(f), DirectoryInv(f), StartInv, StartWorker
    PROVE  StartInv' /\ UNCHANGED <<directory, fetcher>>
<1> USE MembersAre, AssetsAssumption DEF StartInv, Checks
<1>1. UNCHANGED <<directory, fetcher>>
  BY DEF StartWorker, ReadManifest, HashExecutable, HashRuntime, HashModel, Execute, LoadLibraries,
         StartFails
<1>2. file' = file
  BY <1>1 DEF directory
<1>3. ASSUME Refuse, starting' \in BundleKinds PROVE StartInv'
  BY <1>2, <1>3 DEF Refuse, NoProcess
<1>4. \A m \in MemberSet : file[m] \in Assets => m \notin Lacks[file[m]]
  BY DEF DirectoryInv
<1>5. CASE ReadManifest
  <2>1. PICK kind \in BundleKinds :
            \/ /\ Accepts(kind)
               /\ check' = "executable" /\ starting' = kind /\ process' = NoProcess
               /\ seen' = [m \in MemberSet |-> IF m = "manifest" THEN file[m] ELSE Nothing]
            \/ Refuse /\ UNCHANGED starting
    BY <1>5 DEF ReadManifest
  <2>2. CASE Refuse /\ UNCHANGED starting
    BY <1>1, <1>3, <2>2
  <2>3. CASE /\ Accepts(kind)
             /\ check' = "executable" /\ starting' = kind /\ process' = NoProcess
             /\ seen' = [m \in MemberSet |-> IF m = "manifest" THEN file[m] ELSE Nothing]
    <3>1. file["manifest"] \in Assets /\ Kind[file["manifest"]] = kind
      BY <2>3 DEF Accepts
    <3>2. seen' \in [MemberSet -> Assets \cup {Nothing}] /\ seen'["manifest"] = file["manifest"]
      BY <2>3, <3>1
    <3>3. DOMAIN process' = {"executable", "runtime"}
      BY <2>3 DEF NoProcess
    <3> QED BY <1>1, <1>4, <2>3, <3>1, <3>2, <3>3
  <2> QED BY <2>1, <2>2, <2>3
<1>6. CASE HashExecutable
  BY <1>2, <1>3, <1>4, <1>6 DEF HashExecutable, Matches, BundleKinds
<1>7. CASE HashRuntime
  BY <1>2, <1>3, <1>7 DEF HashRuntime, Matches, BundleKinds
<1>8. CASE HashModel
  BY <1>2, <1>8 DEF HashModel
<1>9. CASE Execute
  <2>1. file["runtime"] = seen["manifest"] /\ ~Broken(seen["manifest"])
    BY <1>9 DEF Execute, Broken
  <2>2. file[starting] = seen["manifest"]
    BY <1>9, <2>1 DEF DirectoryInv, Whole, Execute, BundleKinds, Broken
  <2> QED BY <1>2, <1>3, <1>9, <2>2 DEF Execute
<1>10. CASE LoadLibraries
  BY <1>2, <1>3, <1>10 DEF LoadLibraries
<1>11. CASE StartFails
  BY <1>3, <1>11 DEF StartFails
<1> QED BY <1>1, <1>5, <1>6, <1>7, <1>8, <1>9, <1>10, <1>11 DEF StartWorker

\* The fetcher leaves the start alone, and the libraries that were verified.
LEMMA FetcherBesideStart ==
    ASSUME NEW f \in Fetchers, Fetchers = {f}, FetchInv(f), DirectoryInv(f), StartInv,
           Start(f) \/ Fetch(f) \/ Interrupt(f)
    PROVE  StartInv'
<1>1. UNCHANGED starter
  BY DEF Start, Fetch, Interrupt, DownloadFails, Download, Digest, Attest, Unpack, OpenMember,
         WriteMember, ExtractFails, CheckMembers, Remove, Removed, Report, directory, starter
<1>2. file["runtime"] \in Assets /\ ~Broken(file["runtime"]) => file'["runtime"] = file["runtime"]
  BY DirectoryStep
<1> QED BY <1>1, <1>2 DEF StartInv, starter, Broken, Checks

LEMMA StartInit ==
    ASSUME NEW f \in Fetchers, Fetchers = {f}, InstallInit PROVE DirectoryInv(f) /\ StartInv
<1>1. pc[f] = "idle" /\ \A m \in MemberSet : file[m] = Nothing
  BY DEF InstallInit
<1>2. DirectoryInv(f)
  BY <1>1, MembersAre, AssetsAssumption DEF DirectoryInv
<1>3. StartInv
  BY MembersAre DEF InstallInit, StartInv, NoProcess, Checks, BundleKinds
<1> QED BY <1>2, <1>3

\* While one process installs into the directory, whatever the release publishes
\* and however often it fails, is interrupted and starts over, a worker that runs
\* is the executable and the libraries of the one asset that was verified, though
\* both are opened again after the model was hashed.
THEOREM RunsOneBundle ==
    ASSUME NEW f \in Fetchers, Fetchers = {f} PROVE InstallSpec => []RunsWhatWasVerified
<1> DEFINE Inv == FetchInv(f) /\ DirectoryInv(f) /\ StartInv
<1>1. InstallInit => Inv
  BY FetchInit, StartInit
<1>2. Inv /\ [InstallNext]_installVars => Inv'
  <2> SUFFICES ASSUME Inv, [InstallNext]_installVars PROVE DirectoryInv(f)' /\ StartInv'
    BY FetchStep
  <2>1. CASE Start(f) \/ Fetch(f) \/ Interrupt(f)
    BY <2>1, DirectoryStep, FetcherBesideStart
  <2>2. CASE StartWorker
    <3>1. StartInv' /\ UNCHANGED <<directory, fetcher>>
      BY <2>2, StartWorkerStep
    <3> QED BY <3>1 DEF DirectoryInv, Whole, directory, fetcher
  <2>3. CASE UNCHANGED installVars
    BY <2>3 DEF DirectoryInv, Whole, StartInv, Checks, installVars, directory, fetcher, starter
  <2> QED BY <2>1, <2>2, <2>3 DEF InstallNext
<1>3. Inv => RunsWhatWasVerified
  BY DEF StartInv, RunsWhatWasVerified
<1> QED BY <1>1, <1>2, <1>3, PTL DEF InstallSpec

=============================================================================
