---------------------------- MODULE WorkerInstall ---------------------------
(***************************************************************************)
(* Installing a published worker bundle (unridden/api/native/fetch.py and  *)
(* unpack() of bundle.py) into one output directory, and the start of a    *)
(* worker of either kind from that directory: _verify_files() and then     *)
(* start() of native_backend.py and snapshots/backend.py.                  *)
(*                                                                         *)
(* Fetchers are separate processes; an action is one file operation of     *)
(* one of them, or of the start.  A file is told from another by the asset *)
(* it came from.                                                           *)
(* Errors while a directory is removed are left out (rmtree ignores them). *)
(***************************************************************************)
EXTENDS Naturals, Sequences

CONSTANTS
    Fetchers,   \* processes that run fetch()
    Assets,     \* what a release publishes: the flavors of both kinds of bundle
    Kind,       \* of each asset: the kind of bundle it is
    Lacks,      \* of each asset: the members it does not have
    Attested,   \* the assets GitHub attests
    Nothing     \* no asset, no member

\* The two kinds, and the executable each one carries.
BundleKinds == {"worker", "snapshot-worker"}
Members == <<"manifest", "worker", "snapshot-worker", "runtime">>
MemberSet == {Members[i] : i \in 1..Len(Members)}
Torn == "torn"

ASSUME AssetsAssumption ==
    /\ Nothing \notin Assets \cup Fetchers \cup MemberSet \cup {Torn}
    /\ Torn \notin Assets \cup Fetchers
    /\ Assets \cap Fetchers = {}
    /\ Assets # {} /\ Attested \subseteq Assets
    /\ Kind \in [Assets -> BundleKinds] /\ Lacks \in [Assets -> SUBSET MemberSet]

VARIABLES
    exists,     \* is there an output directory?
    file,       \* of each member: its asset, the fetcher that writes it, Nothing or Torn
    pc,         \* of each fetcher: what it does next
    want,       \* the asset it was asked for, or picked
    strict,     \* --require-attestation
    fetched,    \* the archive that came: an asset or Torn
    next,       \* the member of the archive it extracts next
    before,     \* did the directory exist when it started?
    result,     \* "none", "installed", "refused" or "interrupted"
    check,      \* what the start of the worker does next
    starting,   \* the kind of the backend that starts one
    seen,       \* the files _verify_files() hashed
    process     \* the files the worker was executed from and has loaded

directory == <<exists, file>>
fetcher == <<pc, want, strict, fetched, next, before, result>>
starter == <<check, starting, seen, process>>
installVars == <<directory, fetcher, starter>>

Proceeds(f, to) == pc' = [pc EXCEPT ![f] = to]
Ends(f, how) == Proceeds(f, "done") /\ result' = [result EXCEPT ![f] = how]

----------------------------------------------------------------------------
(* fetch(): up to the archive that matches its checksum.                   *)

\* Mutant: an output that exists is installed over.
StartOver(f) ==
    /\ pc[f] \in {"idle", "done"}
    /\ before' = [before EXCEPT ![f] = exists]
    /\ \E a \in Assets, s \in BOOLEAN :
          want' = [want EXCEPT ![f] = a] /\ strict' = [strict EXCEPT ![f] = s]
    /\ Proceeds(f, "download") /\ result' = [result EXCEPT ![f] = "none"]
    /\ UNCHANGED <<directory, fetched, next, starter>>

Start(f) ==
    /\ pc[f] \in {"idle", "done"}
    /\ before' = [before EXCEPT ![f] = exists]
    /\ \E a \in Assets, s \in BOOLEAN :
          want' = [want EXCEPT ![f] = a] /\ strict' = [strict EXCEPT ![f] = s]
    /\ IF exists THEN Ends(f, "refused")
       ELSE Proceeds(f, "download") /\ result' = [result EXCEPT ![f] = "none"]
    /\ UNCHANGED <<directory, fetched, next, starter>>

\* The checksums cannot be had or do not list the asset, or the archive cannot.
DownloadFails(f) ==
    /\ pc[f] = "download" /\ Ends(f, "refused")
    /\ UNCHANGED <<directory, want, strict, fetched, next, before, starter>>

\* What arrives need not be what the checksums are of.
Download(f) ==
    /\ pc[f] = "download" /\ Proceeds(f, "digest")
    /\ \E a \in Assets \cup {Torn} : fetched' = [fetched EXCEPT ![f] = a]
    /\ UNCHANGED <<directory, want, strict, next, before, result, starter>>

\* Mutant: a checksum that differs is a warning.
DigestWarns(f) ==
    /\ pc[f] = "digest" /\ Proceeds(f, "attest")
    /\ UNCHANGED <<directory, want, strict, fetched, next, before, result, starter>>

Digest(f) ==
    /\ pc[f] = "digest"
    /\ IF fetched[f] = want[f] THEN Proceeds(f, "attest") /\ UNCHANGED result ELSE Ends(f, "refused")
    /\ UNCHANGED <<directory, want, strict, fetched, next, before, starter>>

\* verify_attestation(): gh is missing, or fails, or passes what GitHub built.
Attest(f) ==
    /\ pc[f] = "attest"
    /\ \/ strict[f] /\ Ends(f, "refused")
       \/ (strict[f] => want[f] \in Attested) /\ Proceeds(f, "unpack") /\ UNCHANGED result
    /\ UNCHANGED <<directory, want, strict, fetched, next, before, starter>>

----------------------------------------------------------------------------
(* unpack(), and the removal when it raises.                               *)

Unpack(f) ==
    /\ pc[f] = "unpack"
    /\ Proceeds(f, IF exists THEN "remove" ELSE "extract")
    /\ next' = [next EXCEPT ![f] = 1]
    /\ UNCHANGED <<directory, want, strict, fetched, before, result, starter>>

\* The members of an archive: a torn one ends anywhere.
Holds(a, m) == a = Torn \/ m \notin Lacks[a]

OpenMember(f) ==
    /\ pc[f] = "extract" /\ next[f] <= Len(Members)
    /\ IF Holds(fetched[f], Members[next[f]])
       THEN /\ exists' = TRUE /\ file' = [file EXCEPT ![Members[next[f]]] = f]
            /\ Proceeds(f, "write") /\ UNCHANGED next
       ELSE next' = [next EXCEPT ![f] = @ + 1] /\ UNCHANGED <<exists, file, pc>>
    /\ UNCHANGED <<want, strict, fetched, before, result, starter>>

\* A file two processes write at once, or one removed under its writer, is no
\* asset's.
WriteMember(f) ==
    /\ pc[f] = "write"
    /\ LET m == Members[next[f]] IN
       file' = [file EXCEPT ![m] = IF @ = f THEN fetched[f] ELSE IF @ = Nothing THEN Nothing ELSE Torn]
    /\ Proceeds(f, "extract") /\ next' = [next EXCEPT ![f] = @ + 1]
    /\ UNCHANGED <<exists, want, strict, fetched, before, result, starter>>

\* The disk is full, the archive torn or refused by the filter.
ExtractFails(f) ==
    /\ pc[f] \in {"extract", "write"} /\ next[f] <= Len(Members)
    /\ Proceeds(f, "remove")
    /\ UNCHANGED <<directory, want, strict, fetched, next, before, result, starter>>

\* bundle_executable(): the manifest is there, and the executable it names.
CheckMembers(f) ==
    /\ pc[f] = "extract" /\ next[f] > Len(Members)
    /\ Proceeds(f, IF file["manifest"] \in Assets /\ file[Kind[file["manifest"]]] # Nothing
               THEN "report" ELSE "remove")
    /\ UNCHANGED <<directory, want, strict, fetched, next, before, result, starter>>

Remove(f) ==
    /\ pc[f] = "remove"
    /\ \E m \in MemberSet : file[m] # Nothing /\ file' = [file EXCEPT ![m] = Nothing]
    /\ UNCHANGED <<exists, fetcher, starter>>

Removed(f) ==
    /\ pc[f] = "remove" /\ \A m \in MemberSet : file[m] = Nothing
    /\ exists' = FALSE
    /\ Ends(f, "refused")
    /\ UNCHANGED <<file, want, strict, fetched, next, before, starter>>

\* The manifest is read once more for the report.
Report(f) ==
    /\ pc[f] = "report"
    /\ IF file["manifest"] \in Assets THEN Ends(f, "installed") ELSE Ends(f, "refused")
    /\ UNCHANGED <<directory, want, strict, fetched, next, before, starter>>

\* Ctrl-C, which is no Exception, or a kill: nothing of the output is removed.
Interrupt(f) ==
    /\ pc[f] \notin {"idle", "done"} /\ Ends(f, "interrupted")
    /\ UNCHANGED <<directory, want, strict, fetched, next, before, starter>>

----------------------------------------------------------------------------
(* The start of a worker: _verify_files() reads the manifest and hashes    *)
(* each file against it, the model last; then the worker is executed, and  *)
(* it loads the libraries.  Nothing is looked at again in between.         *)

NoProcess == [executable |-> Nothing, runtime |-> Nothing]
Refuse ==
    check' = "idle" /\ seen' = [m \in MemberSet |-> Nothing] /\ process' = NoProcess

\* A manifest names one executable, the backend is configured with its own.
Accepts(kind) ==
    /\ file["manifest"] \in Assets /\ Kind[file["manifest"]] = kind
    /\ file[kind] # Nothing

\* A worker that ran is gone before the next is started.
ReadManifest ==
    /\ check \in {"idle", "running"}
    /\ \E kind \in BundleKinds :
          IF Accepts(kind)
          THEN /\ check' = "executable" /\ starting' = kind /\ process' = NoProcess
               /\ seen' = [m \in MemberSet |-> IF m = "manifest" THEN file[m] ELSE Nothing]
          ELSE Refuse /\ UNCHANGED starting
    /\ UNCHANGED <<directory, fetcher>>

\* The hash of a file is the one the manifest that was read has for it.
Matches(m) == file[m] = seen["manifest"]

HashExecutable ==
    /\ check = "executable"
    /\ IF Matches(starting)
       THEN check' = "runtime" /\ seen' = [seen EXCEPT ![starting] = file[starting]] /\ UNCHANGED process
       ELSE Refuse
    /\ UNCHANGED <<directory, fetcher, starting>>

HashRuntime ==
    /\ check = "runtime"
    /\ IF Matches("runtime")
       THEN check' = "model" /\ seen' = [seen EXCEPT !["runtime"] = file["runtime"]] /\ UNCHANGED process
       ELSE Refuse
    /\ UNCHANGED <<directory, fetcher, starting>>

\* The model is no file of the bundle: its hash says nothing of the others.
HashModel ==
    /\ check = "model" /\ check' = "verified"
    /\ UNCHANGED <<directory, fetcher, starting, seen, process>>

\* create_subprocess_exec(): the path is opened again, whatever is there now.
Execute ==
    /\ check = "verified"
    /\ IF file[starting] # Nothing
       THEN check' = "loading" /\ process' = [process EXCEPT !.executable = file[starting]] /\ UNCHANGED seen
       ELSE Refuse
    /\ UNCHANGED <<directory, fetcher, starting>>

\* The worker links and loads from --runtime-dir, before it says hello.
LoadLibraries ==
    /\ check = "loading"
    /\ IF file["runtime"] # Nothing
       THEN check' = "running" /\ process' = [process EXCEPT !.runtime = file["runtime"]] /\ UNCHANGED seen
       ELSE Refuse
    /\ UNCHANGED <<directory, fetcher, starting>>

\* The model is not the configured one, the start is cancelled or timed out,
\* the worker dies.
StartFails ==
    /\ check # "idle" /\ Refuse
    /\ UNCHANGED <<directory, fetcher, starting>>

----------------------------------------------------------------------------

InstallInit ==
    /\ exists = FALSE /\ file = [m \in MemberSet |-> Nothing]
    /\ pc = [f \in Fetchers |-> "idle"]
    /\ want \in [Fetchers -> {CHOOSE a \in Assets : TRUE}]
    /\ strict = [f \in Fetchers |-> FALSE]
    /\ fetched = [f \in Fetchers |-> Nothing]
    /\ next = [f \in Fetchers |-> 1]
    /\ before = [f \in Fetchers |-> FALSE]
    /\ result = [f \in Fetchers |-> "none"]
    /\ check = "idle" /\ starting = "worker" /\ seen = [m \in MemberSet |-> Nothing]
    /\ process = NoProcess

Fetch(f) ==
    \/ DownloadFails(f) \/ Download(f) \/ Digest(f) \/ Attest(f) \/ Unpack(f)
    \/ OpenMember(f) \/ WriteMember(f) \/ ExtractFails(f) \/ CheckMembers(f)
    \/ Remove(f) \/ Removed(f) \/ Report(f)

StartWorker ==
    \/ ReadManifest \/ HashExecutable \/ HashRuntime \/ HashModel
    \/ Execute \/ LoadLibraries \/ StartFails

InstallNext == StartWorker \/ \E f \in Fetchers : Start(f) \/ Fetch(f) \/ Interrupt(f)

InstallSpec == InstallInit /\ [][InstallNext]_installVars

----------------------------------------------------------------------------
(* Properties.                                                             *)

TypeOK ==
    /\ exists \in BOOLEAN
    /\ file \in [MemberSet -> Assets \cup Fetchers \cup {Nothing, Torn}]
    /\ ~exists => \A m \in MemberSet : file[m] = Nothing
    /\ pc \in [Fetchers -> {"idle", "download", "digest", "attest", "unpack", "extract",
                            "write", "remove", "report", "done"}]
    /\ want \in [Fetchers -> Assets]
    /\ fetched \in [Fetchers -> Assets \cup {Nothing, Torn}]
    /\ next \in [Fetchers -> 1..(Len(Members) + 1)]
    /\ seen \in [MemberSet -> Assets \cup {Nothing}] /\ starting \in BundleKinds
    /\ check \in {"idle", "executable", "runtime", "model", "verified", "loading", "running"}
    /\ DOMAIN process = {"executable", "runtime"}

Whole(a) == \A m \in MemberSet : file[m] = a \/ m \in Lacks[a]

\* What was reported installed is there, all of it and of the asset asked for.
InstalledIsWhole ==
    \A f \in Fetchers : result[f] = "installed" => exists /\ Whole(want[f])

\* FetchError: "The bundle could not be installed. Nothing was left behind."
RefusedLeavesNothing ==
    \A f \in Fetchers : (pc[f] = "done" /\ result[f] = "refused") => exists = before[f]

\* A fetch alone in its output reports a whole bundle of one asset, or leaves the
\* directory as it found it, wherever the download or the extraction stopped.
FetchIsAllOrNothing == InstalledIsWhole /\ RefusedLeavesNothing

\* A worker that runs was executed from, and has loaded, the asset whose manifest
\* was verified, one of its own kind (a bundle "never shares a runtime directory"
\* with the other kind, bundle.py): though the model is hashed between the check
\* of the files and their use, and a fetch may fail, be interrupted or start over
\* in the directory meanwhile.  So it is while one process installs there.
RunsWhatWasVerified ==
    check \in {"loading", "running"} =>
        /\ seen["manifest"] \in Assets /\ Kind[seen["manifest"]] = starting
        /\ process.executable = seen["manifest"]
        /\ check = "running" => process.runtime = seen["manifest"]

=============================================================================
