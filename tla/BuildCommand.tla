---------------------------- MODULE BuildCommand ----------------------------
(***************************************************************************)
(* mosdat build (commands/build.py): find a package of the pull request -  *)
(* in the cache, at the URL the CI bot posted, by a clone and a build on   *)
(* the host, or by one on a Windows VM - and install it on the VMs; and    *)
(* install_release_on_vm, which installs a published release.              *)
(*                                                                         *)
(* Revisions of the pull request are numbers.  The symbol to verify is in  *)
(* revision 2 and later; revisions 2 and 3 have one version, and so one    *)
(* file name.                                                              *)
(***************************************************************************)
EXTENDS Process

CONSTANTS BVMs,      \* VM -> "linux" or "windows"
          Deploys,   \* values of --deploy: sequences of VMs
          Revs,      \* the last revision that is pushed
          Strays     \* revisions of copies of the app elsewhere on a VM

ASSUME BuildAssumption == Revs \in Nat /\ Deploys \subseteq Seq(DOMAIN BVMs)

VARIABLES
  opts,      \* the arguments
  head,      \* the head of the pull request
  comment,   \* the revision of the package at the URL in the newest comment, 0 for none
  ci,        \* the revision of the newest build run of the CI, which succeeded
  sha,       \* the head as resolve_artifact read it
  posted,    \* comment, as it was read together with the head
  cached,    \* the file in the cache directory, a Package
  sidecar,   \* the revision in its .sha file, 0 for none
  kept,      \* aria2c stored the download under another name (ghost)
  behind,    \* the cached file was posted for an older head than its .sha file names (ghost)
  clone,     \* the revision in the clone on the host, 0 for no clone
  artifact,  \* the package to install
  todo,      \* VMs to deploy to
  stage,      \* of build_on_windows_vm
  results,   \* VM -> DeployResult
  app,       \* VM -> [rev, new]: the app that is installed, and whether this command did it
  seen       \* VM -> the revision of the copy that was verified (ghost)

bVars == <<opts, head, comment, ci, sha, posted, cached, sidecar, kept, behind, clone, artifact, todo, stage, results, app, seen>>

\* size: "none" (no file), "tiny" (below 1 MiB), "part" (truncated above it), "whole"
Package(rev, size) == [rev |-> rev, size |-> size]
NoPackage  == Package(0, "none")
NotYet     == [scp |-> FALSE, install |-> FALSE, missing |-> FALSE, error |-> FALSE]
DryResult  == [NotYet EXCEPT !.scp = TRUE, !.install = TRUE]
HasSymbol(rev) == rev >= 2
Version(rev)   == rev \div 2
\* mutant: any file will do
Valid_any(p) == p.size # "none"

\* validate_artifact: the size, and the leading bytes
Valid(p)   == p.size \in {"part", "whole"}
Ext(target) == IF target = "exe" THEN "windows" ELSE "linux"

NoOpts == [goal |-> "none", target |-> "deb", first |-> FALSE, source |-> FALSE, pr |-> FALSE, dry |-> FALSE,
           deploy |-> <<>>]
BInit == /\ opts = NoOpts /\ head = 2 /\ comment = 0 /\ ci = 0 /\ sha = 0 /\ posted = 0 /\ cached = NoPackage /\ sidecar = 0
         /\ kept = FALSE /\ behind = FALSE /\ clone = 0 /\ artifact = NoPackage /\ todo = <<>> /\ stage = 0
         /\ results = [v \in DOMAIN BVMs |-> NotYet] /\ app = [v \in DOMAIN BVMs |-> [rev |-> 1, new |-> FALSE]]
         /\ seen = [v \in DOMAIN BVMs |-> 0]

ToSetB(s)  == {s[i] : i \in DOMAIN s}
\* Windows VMs only, and an exe: clone and build on the VM
OnWindows(o) == o.target = "exe" /\ o.deploy # <<>> /\ \A v \in ToSetB(o.deploy) : BVMs[v] = "windows"
\* (the last: of a run that had read the comments too early)
Caches == {<<NoPackage, 0>>, <<Package(2, "whole"), 2>>, <<Package(2, "tiny"), 2>>, <<Package(1, "whole"), 2>>}

\* the arguments of run_build, and of install_release_on_vm (the MCP server's); what earlier
\* runs left in the cache; where the CI stands
StartBuild ==
  /\ At("main")
  /\ \E g \in {"build", "release"}, t \in {"deb", "appimage", "exe"}, first, source, pr, dry \in BOOLEAN, d \in Deploys,
       file \in Caches, old \in {0, 1}, built \in {0, 2} :
       LET o == [goal |-> g, target |-> t, first |-> first, source |-> source, pr |-> pr, dry |-> dry, deploy |-> d] IN
       /\ opts' = o
       /\ g = "release" => Len(d) = 1 /\ BVMs[d[1]] = Ext(t) /\ ~source /\ ~first /\ ~pr
       /\ cached' = file[1] /\ sidecar' = file[2] /\ behind' = (file[1].rev < file[2]) /\ ci' = built /\ comment' = built /\ clone' = old
       \* (these where they can make a difference)
       /\ ~first \/ OnWindows(o) => file[1] = NoPackage /\ built = 0
       /\ ~pr \/ OnWindows(o) => ~first /\ old = 0
       /\ IF g = "release" THEN Goto("b.release")
          ELSE IF (o.source /\ ~OnWindows(o)) \/ ~(o.source \/ o.pr) THEN Exit(5)
          ELSE Goto(IF OnWindows(o) THEN "b.vm" ELSE IF o.first THEN "b.label" ELSE "b.clone")
       /\ todo' = d
  /\ UNCHANGED <<faults, head, sha, posted, kept, artifact, stage, results, app, seen>>

-----------------------------------------------------------------------------
(* GitHub *)

Hosted == UNCHANGED <<process, opts, sha, posted, cached, sidecar, kept, behind, clone, artifact, todo, stage, results, app, seen>>
\* somebody pushes; the CI builds the head, uploads it, and comments; its run ends
\* (while the package is chosen: later it makes no difference)
Push     == pc \in {"b.label", "b.gate", "b.cache", "b.clone"} /\ head < Revs /\ head' = head + 1 /\ UNCHANGED <<comment, ci>> /\ Hosted
Uploads  == pc \in {"b.label", "b.gate", "b.cache"} /\ comment < head /\ comment' = head /\ UNCHANGED <<head, ci>> /\ Hosted
CiEnds   == pc \in {"b.label", "b.gate", "b.cache"} /\ ci < comment /\ ci' = comment /\ UNCHANGED <<head, comment>> /\ Hosted

-----------------------------------------------------------------------------
(* resolve_artifact *)

Remote == UNCHANGED <<faults, opts, head, comment, ci, clone, todo, stage, results, app, seen>>
CacheKept   == UNCHANGED <<cached, sidecar, kept, behind>>
Read        == UNCHANGED <<sha, posted>>
FallBack == Goto("b.clone") /\ UNCHANGED artifact
Use(p, s) == artifact' = p /\ Goto(s)

\* the label, and fetch_pr_metadata: the head and the comments in one answer; gh may fail
Gate1 == /\ At("b.label") /\ Remote /\ CacheKept
         /\ \/ FallBack /\ Read
            \/ sha' = head /\ posted' = comment /\ Goto("b.gate") /\ UNCHANGED artifact
\* the newest build run is one of this head, and succeeded
Gate2 == /\ At("b.gate") /\ Remote /\ CacheKept /\ Read
         /\ \/ FallBack
            \/ ci = sha /\ Goto("b.cache") /\ UNCHANGED artifact
Hit   == cached.size # "none" /\ sidecar = sha
CacheHit     == At("b.cache") /\ Hit /\ Valid(cached) /\ Use(cached, "b.vm") /\ Remote /\ CacheKept /\ Read
\* (for a dry run too)
CacheUnusable == /\ At("b.cache") /\ Hit /\ ~Valid(cached) /\ cached' = NoPackage /\ sidecar' = 0 /\ behind' = FALSE
                 /\ Goto("b.cache") /\ Remote /\ Read /\ UNCHANGED <<artifact, kept>>
DryDownload  == /\ At("b.cache") /\ ~Hit /\ posted # 0 /\ opts.dry /\ Use(Package(posted, "whole"), "b.vm")
                /\ Remote /\ CacheKept /\ Read
\* the URL is the one of the comments that were read before the CI was asked.
\* curl writes over the file; aria2c gives the new file another name when there is one of
\* that name, and the old one is taken for it.  A download that fails leaves what it wrote.
SameName     == cached.size # "none" /\ Version(cached.rev) = Version(posted)
Download     ==
  /\ At("b.cache") /\ ~Hit /\ ~opts.dry /\ Remote /\ Read
  /\ \/ posted = 0 /\ FallBack /\ CacheKept
     \/ /\ posted # 0 /\ behind' = (posted < sha)
        /\ \/ cached' = Package(posted, "part") /\ FallBack /\ UNCHANGED <<sidecar, kept>>
           \/ /\ \/ cached' = Package(posted, "whole") /\ UNCHANGED kept
                 \/ SameName /\ UNCHANGED cached /\ kept' = TRUE
              /\ IF Valid(cached') THEN sidecar' = sha /\ Use(cached', "b.vm")
                 ELSE UNCHANGED sidecar /\ FallBack       \* (the file is removed)
NoUrl == At("b.cache") /\ ~Hit /\ opts.dry /\ posted = 0 /\ FallBack /\ Remote /\ CacheKept /\ Read

-----------------------------------------------------------------------------
(* clone_or_update, build, match_artifact *)

Local == UNCHANGED <<faults, opts, head, comment, ci, cached, sidecar, kept, behind, sha, posted, todo, stage, results, app, seen>>
\* gh that fails to name the branch of a new clone raises
CloneOrUpdate ==
  /\ At("b.clone") /\ Local
  /\ IF opts.dry THEN Goto("b.build") /\ UNCHANGED <<clone, artifact>>
     ELSE \/ clone' = head /\ Goto("b.build") /\ UNCHANGED artifact
          \/ Exit(4) /\ UNCHANGED <<clone, artifact>>
          \/ clone = 0 /\ Raise /\ UNCHANGED <<clone, artifact>>
\* install, build, package; the newest file in dist.  An empty package has been seen.
Build == /\ At("b.build") /\ Local /\ UNCHANGED clone
         /\ IF opts.dry THEN Use(Package(head, "whole"), "b.vm")
            ELSE \/ \E size \in {"tiny", "whole"} : Use(Package(clone, size), "b.vm")
                 \/ Exit(2) /\ UNCHANGED artifact

-----------------------------------------------------------------------------
(* install_release_on_vm: revision 1 is the release; a package of it may be cached *)

Release ==
  /\ At("b.release") /\ Local /\ UNCHANGED clone
  /\ IF opts.dry THEN Use(Package(1, "whole"), "b.vm")
     ELSE \/ Use(Package(1, "whole"), "b.vm")
          \/ Exit(3) /\ UNCHANGED artifact         \* the download fails; what it wrote is removed

-----------------------------------------------------------------------------
(* the loop over the VMs *)

Here     == Head(todo)
Deploying == UNCHANGED <<opts, head, comment, ci, sha, posted, cached, sidecar, kept, behind, clone>>
Report(r) == results' = [results EXCEPT ![Here] = r] /\ todo' = Tail(todo) /\ Goto("b.vm") /\ stage' = 0
Fails(r)  == Report([r EXCEPT !.error = TRUE])
ExitCode == LET rs == {results[v] : v \in ToSetB(opts.deploy)} IN
            IF \E r \in rs : r.missing THEN 1
            ELSE IF \E r \in rs : r.error \/ ~r.scp \/ ~r.install THEN 3 ELSE 0
\* mutant: a dry run goes on to the VM
NextVm_wet ==
  /\ At("b.vm") /\ Fine /\ Deploying /\ UNCHANGED <<artifact, app, seen>>
  /\ IF todo = <<>> THEN Exit(ExitCode) /\ UNCHANGED <<todo, stage, results>>
     ELSE IF BVMs[Here] # Ext(opts.target) THEN Fails(NotYet)
     ELSE Goto("b.push") /\ UNCHANGED <<todo, stage, results>>

NextVm ==
  /\ At("b.vm") /\ Fine /\ Deploying /\ UNCHANGED <<artifact, app, seen>>
  /\ IF todo = <<>> THEN Exit(ExitCode) /\ UNCHANGED <<todo, stage, results>>
     ELSE IF BVMs[Here] # Ext(opts.target) THEN Fails(NotYet)
     ELSE IF opts.dry THEN Report(DryResult)
     ELSE /\ UNCHANGED <<todo, results>>
          /\ IF OnWindows(opts) /\ opts.goal = "build" THEN Goto("b.native") /\ stage' = 1
             ELSE Goto("b.push") /\ UNCHANGED stage

\* build_on_windows_vm: git, the disk guard, the sources (whatever was in the workspace is
\* removed first, but for node_modules), node, corepack, the three yarn steps, the package
NativeSteps == <<"head_ref", "git", "disk", "sources", "inspect", "corepack", "yarn", "locate">>
SkippedBySource == {"head_ref", "git"}
Native ==
  /\ At("b.native") /\ Fine /\ Deploying /\ UNCHANGED <<app, seen>>
  /\ LET s == NativeSteps[stage] IN
     \/ /\ stage < Len(NativeSteps) /\ stage' = stage + 1 /\ Goto("b.native") /\ UNCHANGED <<todo, results>>
        /\ artifact' = IF s = "sources" THEN Package(head, "none")
                       ELSE IF s = "yarn" THEN [artifact EXCEPT !.size = "whole"] ELSE artifact
     \/ stage = Len(NativeSteps) /\ Goto("b.install") /\ stage' = 0 /\ UNCHANGED <<todo, artifact>>
        /\ results' = [results EXCEPT ![Here].scp = TRUE]
     \/ ~(opts.source /\ s \in SkippedBySource) /\ Fails(NotYet) /\ UNCHANGED artifact

\* deploy_to_vm, deploy_to_windows_vm
CopyPackage ==
  /\ At("b.push") /\ Fine /\ Deploying /\ UNCHANGED <<artifact, app, seen>>
  /\ \/ ~Valid(artifact) /\ Fails(NotYet)
     \/ Valid(artifact) /\ Fails(NotYet)                                   \* scp
     \/ Valid(artifact) /\ Goto("b.install") /\ results' = [results EXCEPT ![Here].scp = TRUE] /\ UNCHANGED <<todo, stage>>
\* dpkg -i || apt-get install -f: the second may succeed where the first refused the package.
\* On Windows the old app is uninstalled first.
Install ==
  /\ At("b.install") /\ Fine /\ Deploying /\ UNCHANGED <<artifact, seen>>
  /\ \/ app' = [app EXCEPT ![Here] = [rev |-> artifact.rev, new |-> TRUE]]
        /\ results' = [results EXCEPT ![Here].install = TRUE] /\ Goto("b.version") /\ UNCHANGED <<todo, stage>>
     \/ opts.target = "deb" /\ UNCHANGED <<app, todo, stage>>
        /\ results' = [results EXCEPT ![Here].install = TRUE] /\ Goto("b.version")
     \/ app' = [app EXCEPT ![Here] = IF BVMs[Here] = "windows" THEN [rev |-> 0, new |-> TRUE] ELSE @]
        /\ Fails(results[Here])
\* _check_installed_package_version: deb and rpm only
CheckVersion ==
  /\ At("b.version") /\ Fine /\ Deploying /\ UNCHANGED <<artifact, app, seen>>
  /\ IF opts.target = "deb" /\ Version(app[Here].rev) # Version(artifact.rev) THEN Fails([results[Here] EXCEPT !.install = FALSE])
     ELSE \/ Goto("b.symbols") /\ UNCHANGED <<todo, stage, results>>
          \/ opts.target = "deb" /\ Fails([results[Here] EXCEPT !.install = FALSE])    \* not to be read
\* the first copy that is found, in /opt, in the registry or at a known path
VerifySymbols ==
  /\ At("b.symbols") /\ Fine /\ Deploying /\ UNCHANGED <<artifact, app>>
  /\ \/ Fails(results[Here]) /\ UNCHANGED seen                             \* no copy is found
     \/ \E rev \in {app[Here].rev} \union Strays :
          /\ seen' = [seen EXCEPT ![Here] = rev]
          /\ Report([results[Here] EXCEPT !.missing = ~HasSymbol(rev)])

BMain == \/ Gate1 \/ Gate2 \/ CacheHit \/ CacheUnusable \/ DryDownload \/ Download \/ NoUrl \/ CloneOrUpdate \/ Build
         \/ Release \/ NextVm \/ Native \/ CopyPackage \/ Install \/ CheckVersion \/ VerifySymbols
BNext == BMain \/ Push \/ Uploads \/ CiEnds

-----------------------------------------------------------------------------
(* Properties *)

\* A build that exits with 0 has installed on each VM a whole package, of the head that
\* it read or a later one, in the version of that package (by the package database), with
\* the symbol in the copy it looked at.  Two ways to an older package are excused: aria2c
\* kept an older file of the same name, and the comments were read before the one for
\* the head was posted, by this run or by the one that filled the cache: the CI has
\* succeeded when it is asked, but the URL was picked before.
Deployed(v) == /\ artifact.size = "whole" /\ (artifact.rev >= sha \/ kept \/ (behind /\ artifact = cached))
               /\ opts.target = "deb" => Version(app[v].rev) = Version(artifact.rev)
               /\ opts.target # "deb" => app[v].new /\ app[v].rev = artifact.rev
               /\ HasSymbol(seen[v])
BuildHonest == pc = "exited" /\ code = 0 /\ ~opts.dry => \A v \in ToSetB(opts.deploy) : Deployed(v)

\* A dry run, and one that exits with 2, 4 or 5, has touched no VM.
NothingTouched == pc = "exited" /\ (opts.dry \/ code \in {2, 4, 5}) => \A v \in DOMAIN BVMs : ~app[v].new
=============================================================================
