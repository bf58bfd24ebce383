---------------------------- MODULE WorkerBundle ----------------------------
(***************************************************************************)
(* Where a worker bundle comes from: the base runtime                      *)
(* (scripts/unridden/build_base_runtime.py), the builds of the two workers *)
(* against it (unridden/api/native/build.py, snapshots/build.py), and      *)
(* pack() of bundle.py.                                                    *)
(*                                                                         *)
(* What is built is told by the tree it was built from: a commit and the   *)
(* patches applied to it.  A hash is what it hashes.  Any step that runs a *)
(* program or writes a file can fail; a failed build stays where it is.    *)
(***************************************************************************)
EXTENDS Naturals, FiniteSets

CONSTANTS
    Commits,    \* commits of llama.cpp
    Tested,     \* TESTED_LLAMA_REVISION
    Builders,   \* runs of a worker build, all into one output
    Altered,    \* libraries that are not what was compiled
    None

\* A patch is its name and the version of its file.
LayerRange(v) == <<"layer-range", v>>
Other == <<"other", 0>>

\* A tree that is built from: a commit and the patches applied to it.
Patches == {LayerRange(0), LayerRange(1), Other}
Trees == [commit: Commits, patches: SUBSET Patches]

ASSUME TestedAssumption == Tested \in Commits
ASSUME BuildersAssumption == IsFiniteSet(Builders)
ASSUME NoneAssumption ==
    /\ None \notin Commits \cup Trees /\ Altered \notin Commits \cup Trees
    /\ None \notin {Altered, "tag", "layer-range", "other"}

VARIABLES
    tag,        \* the commit the tested tag names upstream
    version,    \* of the layer-range patch file
    base,       \* the base build: its step and what is in its directory
    builder,    \* of each worker build: its step, its kind and what it read
    output,     \* the files of the output directory
    archive     \* pack(): its step and the members archived

vars == <<tag, version, base, builder, output, archive>>

Kinds == {"worker", "snapshot-worker"}
EmptyOutput == [exists |-> FALSE, scratch |-> [k \in Kinds |-> None],
                executable |-> [k \in Kinds |-> None], runtime |-> None,
                manifest |-> None]

----------------------------------------------------------------------------
(* build_base_runtime.py.  mkdir() makes the base build the only one.      *)

\* "raced" is history: what changed between two readings the build makes of it.
NoBase == [step |-> "absent", ref |-> None, name |-> None, commit |-> None,
           todo |-> {}, patch |-> None, applied |-> {}, tree |-> None,
           libs |-> None, manifest |-> None, raced |-> {}]

\* The commit a name stands for now: the tag moves, a commit does not.
Named(name) == IF name = "tag" THEN tag ELSE name

BaseStart ==
    /\ base.step = "absent"
    /\ \E ref \in Commits \cup {"tag"}, todo \in SUBSET {"layer-range", "other"} :
          base' = [base EXCEPT !.step = "fetch", !.ref = ref, !.todo = todo]
    /\ UNCHANGED <<tag, version, builder, output, archive>>

\* fetch_revision() leaves FETCH_HEAD, one commit; verify_revision(), with
\* --llama-source, the ref as it was given.
FetchRevision ==
    /\ base.step = "fetch"
    /\ \E name \in {Named(base.ref), base.ref} :
          base' = [base EXCEPT !.step = "resolve", !.name = name]
    /\ UNCHANGED <<tag, version, builder, output, archive>>

\* resolve_commit() and check_tested_ref(): a tested ref must not have moved.
Resolve ==
    /\ base.step = "resolve"
    /\ LET commit == Named(base.name) IN
       base' = IF base.ref \in {"tag", Tested} /\ commit # Tested
               THEN [base EXCEPT !.step = "failed"]
               ELSE [base EXCEPT !.step = "export", !.commit = commit]
    /\ UNCHANGED <<tag, version, builder, output, archive>>

\* git archive resolves the name again; its tree, not the working copy.
Export ==
    /\ base.step = "export"
    /\ base' = [base EXCEPT !.step = "patch",
                            !.tree = [commit |-> Named(base.name), patches |-> {}]]
    /\ UNCHANGED <<tag, version, builder, output, archive>>

\* The file of a patch as it is now.
File(p) == IF p = "layer-range" THEN LayerRange(version) ELSE Other

\* apply_patches(): the patch program reads the file, and then digest() does.
RunPatch ==
    /\ base.step = "patch" /\ base.patch = None
    /\ \E p \in base.todo :
          base' = [base EXCEPT !.todo = @ \ {p}, !.patch = p, !.tree.patches = @ \cup {File(p)}]
    /\ UNCHANGED <<tag, version, builder, output, archive>>

HashPatch ==
    /\ base.step = "patch" /\ base.patch # None
    /\ base' = [base EXCEPT !.patch = None, !.applied = @ \cup {File(base.patch)}]
    /\ UNCHANGED <<tag, version, builder, output, archive>>

CompileLibraries ==
    /\ base.step = "patch" /\ base.todo = {} /\ base.patch = None
    /\ base' = [base EXCEPT !.step = "inventory", !.libs = base.tree]
    /\ UNCHANGED <<tag, version, builder, output, archive>>

\* The CUDA libraries are staged, everything hashed, the manifest written.
Inventory ==
    /\ base.step = "inventory"
    /\ base' = [base EXCEPT !.step = "done",
            !.manifest = [commit |-> base.commit, tested |-> base.commit = Tested,
                          patches |-> base.applied, sums |-> base.libs]]
    /\ UNCHANGED <<tag, version, builder, output, archive>>

BaseFails ==
    /\ base.step \in {"fetch", "resolve", "export", "patch", "inventory"}
    /\ base' = [base EXCEPT !.step = "failed"]
    /\ UNCHANGED <<tag, version, builder, output, archive>>

\* What may happen beside the builds: the tag moves, upstream or in the clone that
\* is built from, the patch file is edited, a library of a finished base changes.
Races(what) == base' = [base EXCEPT !.raced = @ \cup {what}]

MoveTag ==
    /\ tag' \in Commits \ {tag}
    /\ IF base.step = "export" /\ base.name = "tag" THEN Races("tag") ELSE UNCHANGED base
    /\ UNCHANGED <<version, builder, output, archive>>

EditPatch ==
    /\ version = 0 /\ version' = 1
    /\ IF base.patch = "layer-range" THEN Races("patch") ELSE UNCHANGED base
    /\ UNCHANGED <<tag, builder, output, archive>>

AlterBase ==
    /\ base.step = "done" /\ base.libs # Altered
    /\ base' = [base EXCEPT !.libs = Altered]
    /\ UNCHANGED <<tag, version, builder, output, archive>>

----------------------------------------------------------------------------
(* The worker builds.                                                      *)

Goes(b, step) == builder' = [builder EXCEPT ![b].step = step]

BuildStart(b) ==
    /\ builder[b].step = "idle" /\ ~output.exists
    /\ \E k \in Kinds : builder' = [builder EXCEPT ![b].step = "validate", ![b].kind = k]
    /\ UNCHANGED <<tag, version, base, output, archive>>

\* Mutant: patches beside the layer range are let pass.
LayerRangeBaseAmong == LayerRange(version) \in base.manifest.patches

\* require_layer_range_base(): the patch as it is today, and nothing else.  The
\* manifest of a snapshot bundle names that patch; a v1 one names none.
LayerRangeBase == base.manifest.patches = {LayerRange(version)}

ValidateBase(b) ==
    /\ builder[b].step = "validate" /\ base.manifest # None
    /\ IF /\ base.libs = base.manifest.sums
          /\ builder[b].kind = "snapshot-worker" => LayerRangeBase
       THEN builder' = [builder EXCEPT ![b].step = "compile", ![b].base = base.manifest,
                                       ![b].patches = IF builder[b].kind = "snapshot-worker"
                                                      THEN {LayerRange(version)} ELSE {}]
       ELSE Goes(b, "failed")
    /\ UNCHANGED <<tag, version, base, output, archive>>

\* cmake configures, builds and links in <output>/cmake.
Compile(b) ==
    /\ builder[b].step = "compile" /\ Goes(b, "stage")
    /\ output' = [output EXCEPT !.exists = TRUE, !.scratch[builder[b].kind] = base.libs]
    /\ UNCHANGED <<tag, version, base, archive>>

\* Mutant: the copy is not hashed again.
StageUnhashed(b) ==
    /\ builder[b].step = "stage"
    /\ IF output.runtime # None
       THEN Goes(b, "failed") /\ UNCHANGED output
       ELSE Goes(b, "executable") /\ output' = [output EXCEPT !.runtime = base.libs]
    /\ UNCHANGED <<tag, version, base, archive>>

\* Mutant: an existing runtime directory is copied over.
StageOver(b) ==
    /\ builder[b].step = "stage"
    /\ output' = [output EXCEPT !.runtime = base.libs]
    /\ Goes(b, IF base.libs = builder[b].base.sums THEN "executable" ELSE "failed")
    /\ UNCHANGED <<tag, version, base, archive>>

\* stage_runtime(): copytree() refuses an existing directory, so one build of
\* an output gets past it; the copy is hashed against the manifest.
Stage(b) ==
    /\ builder[b].step = "stage"
    /\ IF output.runtime # None
       THEN Goes(b, "failed") /\ UNCHANGED output
       ELSE /\ output' = [output EXCEPT !.runtime = base.libs]
            /\ Goes(b, IF base.libs = builder[b].base.sums THEN "executable" ELSE "failed")
    /\ UNCHANGED <<tag, version, base, archive>>

CopyExecutable(b) ==
    /\ builder[b].step = "executable" /\ Goes(b, "clean")
    /\ LET k == builder[b].kind IN
       output' = [output EXCEPT !.executable[k] = output.scratch[k]]
    /\ UNCHANGED <<tag, version, base, archive>>

RemoveScratch(b) ==
    /\ builder[b].step = "clean" /\ Goes(b, "manifest")
    /\ output' = [output EXCEPT !.scratch = [k \in Kinds |-> None]]
    /\ UNCHANGED <<tag, version, base, archive>>

WriteManifest(b) ==
    /\ builder[b].step = "manifest" /\ Goes(b, "done")
    /\ output' = [output EXCEPT !.manifest =
            [kind |-> builder[b].kind, sums |-> builder[b].base.sums,
             executable |-> output.executable[builder[b].kind],
             tested |-> builder[b].base.commit = Tested, patches |-> builder[b].patches]]
    /\ UNCHANGED <<tag, version, base, archive>>

\* A program fails, a file cannot be written, or the build is stopped.
BuildFails(b) ==
    /\ builder[b].step \notin {"idle", "done", "failed"} /\ Goes(b, "failed")
    /\ UNCHANGED <<tag, version, base, output, archive>>

----------------------------------------------------------------------------
(* pack(): the members one after the other.                                *)

PackStart ==
    /\ archive.step = "idle" /\ output.manifest # None
    /\ archive' = [archive EXCEPT !.step = "build", !.manifest = output.manifest]
    /\ UNCHANGED <<tag, version, base, builder, output>>

PackBuild ==
    /\ archive.step = "build"
    /\ archive' = [archive EXCEPT !.step = "runtime", !.executable = output.executable]
    /\ UNCHANGED <<tag, version, base, builder, output>>

PackRuntime ==
    /\ archive.step = "runtime"
    /\ archive' = [archive EXCEPT !.step = "done", !.runtime = output.runtime]
    /\ UNCHANGED <<tag, version, base, builder, output>>

----------------------------------------------------------------------------

Init ==
    /\ tag = Tested /\ version = 0 /\ base = NoBase
    /\ builder = [b \in Builders |-> [step |-> "idle", kind |-> None, base |-> None, patches |-> {}]]
    /\ output = EmptyOutput
    /\ archive = [step |-> "idle", manifest |-> None, executable |-> [k \in Kinds |-> None],
                  runtime |-> None]

BaseBuild ==
    \/ BaseStart \/ FetchRevision \/ Resolve \/ Export \/ RunPatch \/ HashPatch
    \/ CompileLibraries \/ Inventory \/ BaseFails

Build(b) ==
    \/ BuildStart(b) \/ ValidateBase(b) \/ Compile(b) \/ Stage(b) \/ CopyExecutable(b)
    \/ RemoveScratch(b) \/ WriteManifest(b) \/ BuildFails(b)

Pack == PackStart \/ PackBuild \/ PackRuntime

Next ==
    \/ BaseBuild \/ MoveTag \/ EditPatch \/ AlterBase \/ Pack
    \/ \E b \in Builders : Build(b)

Spec == Init /\ [][Next]_vars

----------------------------------------------------------------------------
(* Properties.                                                             *)

\* A manifest vouches for the files beside it, though another build runs into
\* the same output and the base changes under both.
ManifestVouches ==
    output.manifest # None =>
        /\ output.runtime = output.manifest.sums
        /\ output.executable[output.manifest.kind] = output.manifest.executable
        /\ output.manifest.executable # None

\* A build alone in its output ships the libraries its executable was linked
\* with, though the base may have changed between the two; a library that has
\* changed stays changed.
LinkedAsShipped ==
    /\ output.manifest # None
    /\ Cardinality({b \in Builders : builder[b].step # "idle"}) = 1
    => output.manifest.executable = output.runtime

\* A base that was asked for by the tested tag resolved to the tested commit.
TagIsTested ==
    (base.manifest # None /\ base.ref = "tag") => base.manifest.tested

\* Provenance: a snapshot bundle has the layer-range patch in it and no other.
\* It is the version the manifest names unless the file was edited after it was
\* applied and before it was hashed; and "tested" is said of the tested commit
\* only, whatever the tag names by now, unless a clone's tag moved after it was
\* resolved and before its tree was exported.
ProvenanceIsTrue ==
    /\ TagIsTested
    /\ output.manifest # None =>
          /\ "tag" \notin base.raced =>
                output.manifest.tested = (output.runtime.commit = Tested)
          /\ output.manifest.kind = "snapshot-worker" =>
                /\ \E v \in 0..1 : output.runtime.patches = {LayerRange(v)}
                /\ "patch" \notin base.raced => output.manifest.patches = output.runtime.patches

\* An archive that was finished unpacks to a bundle that verifies.
ArchiveVouches ==
    archive.step = "done" =>
        /\ archive.runtime = archive.manifest.sums
        /\ archive.executable[archive.manifest.kind] = archive.manifest.executable

\* What a manifest says is beside it, in the output and in the archive.
BundleVouches == ManifestVouches /\ ArchiveVouches
=============================================================================
