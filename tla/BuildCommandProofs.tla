------------------------- MODULE BuildCommandProofs -------------------------
(***************************************************************************)
(* mosdat build on its own: the invariants behind NothingTouched and       *)
(* BuildHonest, and that its steps keep them.                              *)
(***************************************************************************)
EXTENDS BuildCommand, TLAPS

BLabels == {"b.label", "b.gate", "b.cache", "b.clone", "b.build", "b.release", "b.vm", "b.native", "b.push",
            "b.install", "b.version", "b.symbols"}

-----------------------------------------------------------------------------
(* Dry runs *)

\* A VM is touched by a build that is not a dry run and has a package: it is at
\* the loop over the VMs, or past it
Touching   == {"b.install", "b.version", "b.symbols", "b.vm", "b.push", "b.native"}
Untouched  == \A v \in DOMAIN BVMs : ~app[v].new
TouchedInv == /\ opts.dry => pc \notin Touching \ {"b.vm"}
              /\ Untouched \/ (~opts.dry /\ (pc \in Touching \/ (pc = "exited" /\ code \in {0, 1, 3})))

LEMMA TouchedStep ==
  ASSUME TouchedInv, BNext
  PROVE  TouchedInv'
<1> USE DEF TouchedInv, Touching, Untouched, Exit, Goto, At
<1>1. CASE Gate1 \/ Gate2 \/ CacheHit \/ CacheUnusable \/ DryDownload \/ Download \/ NoUrl
  BY <1>1 DEF Gate1, Gate2, CacheHit, CacheUnusable, DryDownload, Download, NoUrl, FallBack, Use, Remote
<1>2. CASE CloneOrUpdate \/ Build \/ Release
  BY <1>2 DEF CloneOrUpdate, Build, Release, Use, Local, Raise
<1>3. CASE NextVm
  <2>1. ExitCode \in {0, 1, 3}
    BY DEF ExitCode
  <2> QED
    BY <1>3, <2>1 DEF NextVm, Deploying, Report, Fails
<1>4. CASE Native \/ CopyPackage \/ CheckVersion \/ VerifySymbols
  BY <1>4 DEF Native, CopyPackage, CheckVersion, VerifySymbols, Deploying, Report, Fails
<1>5. CASE Install
  BY <1>5 DEF Install, Deploying, Report, Fails
<1>6. CASE Push \/ Uploads \/ CiEnds
  BY <1>6 DEF Push, Uploads, CiEnds, Hosted, process
<1> QED
  BY <1>1, <1>2, <1>3, <1>4, <1>5, <1>6 DEF BNext, BMain

-----------------------------------------------------------------------------
(* What a build says of the VMs it deployed to *)

Sizes == {"none", "tiny", "part", "whole"}
BuildTypes ==
  /\ opts \in [goal : {"none", "build", "release"}, target : {"deb", "appimage", "exe"}, first : BOOLEAN, source : BOOLEAN,
               pr : BOOLEAN, dry : BOOLEAN, deploy : Seq(DOMAIN BVMs)]
  /\ todo \in Seq(DOMAIN BVMs) /\ ToSetB(todo) \subseteq ToSetB(opts.deploy)
  /\ head \in Nat /\ comment \in Nat /\ ci \in Nat /\ sha \in Nat /\ posted \in Nat /\ sidecar \in Nat /\ clone \in Nat
  /\ behind \in BOOLEAN
  /\ cached \in [rev : Nat, size : Sizes] /\ artifact \in [rev : Nat, size : Sizes \ {"part"}]
  /\ results \in [DOMAIN BVMs -> [scp : BOOLEAN, install : BOOLEAN, missing : BOOLEAN, error : BOOLEAN]]
  /\ app \in [DOMAIN BVMs -> [rev : Nat, new : BOOLEAN]] /\ DOMAIN seen = DOMAIN BVMs
  /\ stage \in 0..Len(NativeSteps)
DeployLabels == {"b.vm", "b.native", "b.push", "b.install", "b.version", "b.symbols"}
Good(r)     == r.scp /\ r.install /\ ~r.missing /\ ~r.error
Behind      == ToSetB(opts.deploy) \ ToSetB(todo)
OnVm        == OnWindows(opts) /\ opts.goal = "build"
\* the package that is chosen is whole, and of the head that was read or a later one
PackageKnown ==
  /\ sha <= head /\ ci <= comment /\ comment <= head
  /\ pc \in {"b.label", "b.gate", "b.cache"} => cached.size # "part" /\ (cached.size # "none" => cached.rev = sidecar \/ behind)
  /\ pc = "b.release" => sha = 0
  /\ pc = "b.build" /\ ~opts.dry => sha <= clone
  /\ pc \in BLabels \ DeployLabels => ~OnVm /\ todo = opts.deploy /\ \A v \in DOMAIN BVMs : ~Good(results[v])
Fits(v)     == /\ opts.target = "deb" => Version(app[v].rev) = Version(artifact.rev)
               /\ opts.target # "deb" => app[v].new /\ app[v].rev = artifact.rev
\* the VMs that are behind, and the one under way
DeployKnown ==
  /\ artifact.rev >= sha \/ kept \/ (behind /\ artifact = cached)
  /\ \A v \in Behind : Good(results[v]) => Fits(v) /\ HasSymbol(seen[v]) /\ (OnVm => artifact.rev = head)
  /\ pc # "b.vm" => todo # <<>>
  /\ pc = "b.vm" /\ opts.deploy # <<>> => artifact.size = "whole" \/ \E v \in ToSetB(opts.deploy) : ~Good(results[v])
  /\ pc = "b.native" => OnVm /\ stage >= 1 /\ (stage > 4 => artifact.rev = head) /\ (stage > 7 => artifact.size = "whole")
  /\ pc \in {"b.install", "b.version", "b.symbols"} => artifact.size = "whole" /\ (OnVm => artifact.rev = head)
  /\ pc = "b.push" => ~OnVm
  /\ pc = "b.version" /\ opts.target # "deb" => Fits(Here)
  /\ pc = "b.symbols" => Fits(Here)
BuildInv ==
  /\ BuildTypes /\ PackageKnown /\ BuildHonest
  /\ opts.goal = "none" => BInit /\ pc \notin BLabels
  /\ opts.goal # "none" => pc \in BLabels \cup {"exited"}
  /\ pc \in DeployLabels \ {"b.vm"} => ~opts.dry
  /\ pc \in DeployLabels /\ ~opts.dry => DeployKnown


LEMMA HeadAndTail ==
  ASSUME NEW S, NEW s \in Seq(S), s # <<>>
  PROVE  Head(s) \in S /\ Tail(s) \in Seq(S) /\ ToSetB(s) = {Head(s)} \cup ToSetB(Tail(s))
<1>1. Head(s) \in S /\ Tail(s) \in Seq(S) /\ Len(s) \in Nat \ {0} /\ Len(Tail(s)) = Len(s) - 1 /\ Head(s) = s[1]
  OBVIOUS
<1>2. \A i \in 1..Len(s) - 1 : Tail(s)[i] = s[i + 1]
  OBVIOUS
<1>3. \A i \in 1..Len(s) : i = 1 \/ (i - 1 \in 1..Len(s) - 1 /\ s[i] = Tail(s)[i - 1])
  BY <1>1, <1>2
<1>4. DOMAIN s = 1..Len(s) /\ DOMAIN Tail(s) = 1..Len(s) - 1
  BY <1>1
<1>5. ToSetB(Tail(s)) \subseteq ToSetB(s) /\ Head(s) \in ToSetB(s)
  BY <1>1, <1>2, <1>4 DEF ToSetB
<1>6. ASSUME NEW x \in ToSetB(s) PROVE x \in {Head(s)} \cup ToSetB(Tail(s))
  <2>1. PICK i \in 1..Len(s) : x = s[i]
    BY <1>4 DEF ToSetB
  <2> QED
    BY <1>1, <1>3, <1>4, <2>1 DEF ToSetB
<1> QED
  BY <1>1, <1>5, <1>6

LEMMA BuildStarts ==
  ASSUME BuildInv, StartBuild
  PROVE  BuildInv'
<1> USE BuildAssumption
<1>1. opts.goal = "none" /\ BInit
  BY DEF BuildInv, StartBuild, At, BLabels
<1>2. PICK g \in {"build", "release"}, t \in {"deb", "appimage", "exe"}, first, source, pr, dry \in BOOLEAN, d \in Deploys,
           file \in Caches, old \in {0, 1}, built \in {0, 2} :
        LET o == [goal |-> g, target |-> t, first |-> first, source |-> source, pr |-> pr, dry |-> dry, deploy |-> d] IN
        /\ opts' = o
        /\ g = "release" => Len(d) = 1 /\ BVMs[d[1]] = Ext(t) /\ ~source /\ ~first /\ ~pr
        /\ cached' = file[1] /\ sidecar' = file[2] /\ behind' = (file[1].rev < file[2]) /\ ci' = built /\ comment' = built /\ clone' = old
        /\ ~first \/ OnWindows(o) => file[1] = NoPackage /\ built = 0
        /\ ~pr \/ OnWindows(o) => ~first /\ old = 0
        /\ IF g = "release" THEN Goto("b.release")
           ELSE IF (o.source /\ ~OnWindows(o)) \/ ~(o.source \/ o.pr) THEN Exit(5)
           ELSE Goto(IF OnWindows(o) THEN "b.vm" ELSE IF o.first THEN "b.label" ELSE "b.clone")
        /\ todo' = d
  BY Zenon DEF StartBuild
<1>3. UNCHANGED <<head, sha, posted, kept, artifact, stage, results, app, seen>>
  BY DEF StartBuild
<1>4. /\ opts' \in [goal : {"build", "release"}, target : {"deb", "appimage", "exe"}, first : BOOLEAN, source : BOOLEAN,
                    pr : BOOLEAN, dry : BOOLEAN, deploy : Seq(DOMAIN BVMs)]
      /\ todo' = opts'.deploy /\ opts'.goal = g
  BY <1>2
<1>5. /\ cached' \in [rev : Nat, size : Sizes] /\ sidecar' \in Nat /\ cached'.size # "part"
      /\ cached'.size # "none" => cached'.rev = sidecar' \/ behind'
      /\ behind' \in BOOLEAN
  BY <1>2 DEF Caches, NoPackage, Package, Sizes
<1>6. BuildTypes'
  BY <1>1, <1>2, <1>3, <1>4, <1>5 DEF BuildTypes, BInit, NoPackage, Package, Sizes, NotYet, NativeSteps
<1>7. \A v \in DOMAIN BVMs : ~Good(results'[v])
  BY <1>1, <1>3 DEF BInit, NotYet, Good
<1>8. pc' # "b.vm" => pc' \in {"b.label", "b.clone", "b.release", "exited"} /\ (pc' # "exited" => ~OnVm')
  BY <1>2, <1>4 DEF OnVm, OnWindows, Goto, Exit
<1>9. PackageKnown'
  BY <1>1, <1>2, <1>3, <1>4, <1>5, <1>7, <1>8 DEF PackageKnown, BInit, BLabels, DeployLabels
<1>10. BuildHonest'
  BY <1>2 DEF BuildHonest, Goto, Exit
<1>11. ToSetB(opts'.deploy) \subseteq DOMAIN BVMs /\ Behind' = {} /\ (opts'.deploy # <<>> => ToSetB(opts'.deploy) # {})
  BY <1>4, HeadAndTail DEF Behind, ToSetB
<1>12. pc' \in DeployLabels => DeployKnown'
  BY <1>1, <1>3, <1>7, <1>8, <1>11 DEF DeployKnown, DeployLabels, BInit, NoPackage, Package
<1>13. pc' \in BLabels \cup {"exited"} /\ pc' \notin DeployLabels \ {"b.vm"}
  BY <1>2 DEF Goto, Exit, BLabels, DeployLabels
<1> QED
  BY <1>4, <1>6, <1>9, <1>10, <1>12, <1>13 DEF BuildInv

LEMMA BuildAside ==
  ASSUME BuildInv, UNCHANGED bVars,
         \/ UNCHANGED <<pc, code>>
         \/ pc \notin BLabels \cup {"exited"} /\ pc' \notin BLabels \cup {"main"}
  PROVE  BuildInv'
<1>1. UNCHANGED <<opts, head, comment, ci, sha, posted, cached, sidecar, kept, behind, clone, artifact, todo, stage, results, app, seen>>
  BY DEF bVars
<1>2. CASE UNCHANGED <<pc, code>>
  BY <1>1, <1>2 DEF BuildInv, BuildTypes, PackageKnown, DeployKnown, BuildHonest, BInit, Behind, OnVm, Fits, Good,
                    Deployed, Here
<1>3. CASE pc \notin BLabels \cup {"exited"} /\ pc' \notin BLabels
  <2>1. opts.goal = "none" /\ BInit
    BY <1>3 DEF BuildInv
  <2>2. BInit' /\ BuildTypes'
    BY <1>1, <2>1 DEF BInit, BuildInv, BuildTypes
  <2>3. PackageKnown'
    BY <1>1, <1>3, <2>1 DEF PackageKnown, BInit, BLabels, DeployLabels
  <2>4. BuildHonest'
    BY <1>1, <2>1 DEF BuildHonest, BInit, NoOpts, ToSetB
  <2> QED
    BY <1>1, <1>3, <2>1, <2>2, <2>3, <2>4 DEF BuildInv, DeployLabels, BLabels
<1> QED
  BY <1>2, <1>3

\* while the package is chosen no VM has a result
LEMMA Choosing ==
  ASSUME BuildInv, pc \in BLabels \ DeployLabels, UNCHANGED <<opts, todo, results, app, seen, stage>>,
         pc' \in (BLabels \ DeployLabels) \cup {"b.vm", "exited"}, pc' = "exited" => code' # 0,
         /\ head' \in Nat /\ comment' \in Nat /\ ci' \in Nat /\ sha' \in Nat /\ posted' \in Nat /\ sidecar' \in Nat /\ clone' \in Nat
         /\ behind' \in BOOLEAN
         /\ cached' \in [rev : Nat, size : Sizes] /\ artifact' \in [rev : Nat, size : Sizes \ {"part"}],
         /\ sha' <= head' /\ ci' <= comment' /\ comment' <= head'
         /\ pc' \in {"b.label", "b.gate", "b.cache"} =>
              cached'.size # "part" /\ (cached'.size # "none" => cached'.rev = sidecar' \/ behind')
         /\ pc' # "b.release"
         /\ pc' = "b.build" /\ ~opts.dry => sha' <= clone'
         /\ pc' = "b.vm" /\ ~opts.dry => artifact'.rev >= sha' \/ kept' \/ (behind' /\ artifact' = cached')
  PROVE  BuildInv'
<1>1. opts.goal # "none" /\ "exited" \notin BLabels
  BY DEF BuildInv, BLabels
<1>2. BuildTypes'
  BY DEF BuildInv, BuildTypes
<1>3. PackageKnown'
  BY DEF BuildInv, PackageKnown, OnVm
<1>4. BuildHonest'
  BY DEF BuildHonest, BLabels, DeployLabels
<1>5. todo = opts.deploy /\ \A v \in DOMAIN BVMs : ~Good(results[v])
  BY DEF BuildInv, PackageKnown
<1>6. opts.deploy \in Seq(DOMAIN BVMs)
  BY DEF BuildInv, BuildTypes
<1>7. opts.deploy # <<>> => \E v \in ToSetB(opts.deploy) : v \in DOMAIN BVMs
  BY <1>6, HeadAndTail
<1>8. pc' = "b.vm" /\ ~opts.dry => DeployKnown'
  BY <1>5, <1>7 DEF DeployKnown, Behind
<1> QED
  BY <1>1, <1>2, <1>3, <1>4, <1>8 DEF BuildInv, BLabels, DeployLabels

LEMMA BuildChooses ==
  ASSUME BuildInv,
         \/ Gate1 \/ Gate2 \/ CacheHit \/ CacheUnusable \/ DryDownload \/ Download \/ NoUrl
         \/ CloneOrUpdate \/ Build \/ Release \/ Push \/ Uploads \/ CiEnds
  PROVE  BuildInv'
<1>1. BuildTypes /\ PackageKnown /\ Revs \in Nat
  BY BuildAssumption DEF BuildInv
<1> DEFINE Choice == {"b.label", "b.gate", "b.cache", "b.clone", "b.build", "b.release"}
<1>2. Choice = BLabels \ DeployLabels
  BY DEF BLabels, DeployLabels
<1> HIDE DEF Choice
<1> USE DEF Sizes
<1>3. CASE Gate1 \/ Gate2
  <2>1. UNCHANGED <<opts, todo, results, app, seen, stage, head, comment, ci, clone, cached, sidecar, kept, behind>>
    BY <1>3 DEF Gate1, Gate2, Remote, CacheKept
  <2>2. /\ pc \in Choice /\ pc' \in Choice /\ UNCHANGED artifact /\ sha' \in {sha, head} /\ posted' \in {posted, comment}
        /\ pc' \in {"b.label", "b.gate", "b.cache"} => pc \in {"b.label", "b.gate", "b.cache"}
        /\ pc' \notin {"b.build", "b.release"}
    BY <1>3 DEF Gate1, Gate2, FallBack, At, Goto, Choice, Read
  <2>3. pc' # "b.vm" /\ pc' # "exited"
    BY <2>2 DEF Choice
  <2> QED
    BY <1>1, <1>2, <2>1, <2>2, <2>3, Choosing DEF BuildTypes, PackageKnown
<1>4. CASE CacheHit \/ CacheUnusable \/ DryDownload \/ NoUrl
  <2>1. UNCHANGED <<opts, todo, results, app, seen, stage, head, comment, ci, clone, kept, sha, posted>>
    BY <1>4 DEF CacheHit, CacheUnusable, DryDownload, NoUrl, Remote, CacheKept, Read
  <2>2. /\ pc = "b.cache" /\ pc' \in {"b.cache", "b.vm", "b.clone"}
        /\ UNCHANGED <<cached, sidecar, behind>> \/ (cached' = NoPackage /\ sidecar' = 0 /\ behind' = FALSE)
        /\ \/ UNCHANGED artifact /\ (pc' = "b.vm" => opts.dry)
           \/ artifact' = cached /\ cached.size # "none" /\ sidecar = sha /\ UNCHANGED <<cached, behind>>
           \/ artifact' = Package(posted, "whole") /\ opts.dry
    BY <1>4 DEF CacheHit, CacheUnusable, DryDownload, NoUrl, FallBack, Use, At, Goto, Hit, CacheKept
  <2>3. pc \in Choice /\ pc' \in Choice \cup {"b.vm"} /\ pc' # "b.release"
    BY <2>2 DEF Choice
  <2>4. /\ cached' \in [rev : Nat, size : Sizes] /\ artifact' \in [rev : Nat, size : Sizes \ {"part"}] /\ sidecar' \in Nat
        /\ cached'.size # "part" /\ (cached'.size # "none" => cached'.rev = sidecar' \/ behind')
    BY <1>1, <2>1, <2>2 DEF BuildTypes, PackageKnown, NoPackage, Package
  <2>5. behind' \in BOOLEAN
    BY <1>1, <2>2, Zenon DEF BuildTypes
  <2>6. pc' = "b.vm" /\ ~opts.dry => artifact'.rev >= sha' \/ (behind' /\ artifact' = cached')
    BY <1>1, <2>1, <2>2 DEF BuildTypes, PackageKnown, NoPackage, Package
  <2> QED
    BY <1>1, <1>2, <2>1, <2>2, <2>3, <2>4, <2>5, <2>6, Choosing DEF BuildTypes, PackageKnown
<1>5. CASE Download
  <2>1. UNCHANGED <<opts, todo, results, app, seen, stage, head, comment, ci, clone, sha, posted>> /\ pc = "b.cache"
    BY <1>5 DEF Download, Remote, Read, At
  <2> DEFINE Whole == cached' = Package(posted, "whole") /\ behind' = (posted < sha)
             Kept  == UNCHANGED cached /\ kept'
             Early == behind' = behind \/ behind' = (posted < sha)
  <2>9. \/ FallBack /\ CacheKept
        \/ /\ behind' = (posted < sha)
           /\ \/ cached' = Package(posted, "part") /\ FallBack /\ sidecar' = sidecar
              \/ /\ Whole \/ Kept
                 /\ \/ sidecar' = sha /\ Use(cached', "b.vm")
                    \/ sidecar' = sidecar /\ FallBack
    <3>1. CASE posted = 0 /\ FallBack /\ CacheKept
      BY <3>1
    <3>2. CASE cached' = Package(posted, "part") /\ FallBack /\ UNCHANGED <<sidecar, kept>> /\ behind' = (posted < sha)
      BY <3>2
    <3>3. CASE /\ behind' = (posted < sha)
               /\ \/ cached' = Package(posted, "whole") /\ UNCHANGED kept
                  \/ SameName /\ UNCHANGED cached /\ kept' = TRUE
               /\ IF Valid(cached') THEN sidecar' = sha /\ Use(cached', "b.vm")
                  ELSE UNCHANGED sidecar /\ FallBack
      <4>1. Whole \/ Kept
        BY <3>3
      <4>2. (sidecar' = sha /\ Use(cached', "b.vm")) \/ (sidecar' = sidecar /\ FallBack)
        BY <3>3
      <4> HIDE DEF Whole, Kept
      <4> QED
        BY <3>3, <4>1, <4>2
    <3> QED
      BY <1>5, <3>1, <3>2, <3>3 DEF Download
  <2>2. /\ pc' \in {"b.vm", "b.clone"} /\ sidecar' \in {sidecar, sha}
        /\ UNCHANGED cached \/ cached' = Package(posted, "part") \/ cached' = Package(posted, "whole")
        /\ (UNCHANGED artifact /\ pc' = "b.clone") \/ (artifact' = cached' /\ (Whole \/ Kept))
    BY <2>9 DEF FallBack, Use, Goto, CacheKept
  <2>10. Early
    BY <2>9, Zenon DEF CacheKept
  <2>3. pc \in Choice /\ pc' \in Choice \cup {"b.vm"} /\ pc' \notin {"exited", "b.release"}
    BY <2>1, <2>2 DEF Choice
  <2>4. /\ cached' \in [rev : Nat, size : Sizes] /\ artifact' \in [rev : Nat, size : Sizes \ {"part"}] /\ sidecar' \in Nat
    BY <1>1, <2>1, <2>2 DEF BuildTypes, PackageKnown, Package
  <2>5. behind' \in BOOLEAN
    <3>1. behind \in BOOLEAN /\ (posted < sha) \in BOOLEAN
      BY <1>1 DEF BuildTypes
    <3> QED
      BY <2>10, <3>1, Zenon
  <2>6. pc' = "b.vm" /\ posted >= sha => artifact'.rev >= sha' \/ kept'
    BY <1>1, <2>1, <2>2 DEF BuildTypes, Package
  <2>7. pc' = "b.vm" /\ posted < sha => (behind' /\ artifact' = cached') \/ kept'
    BY <2>1, <2>2
  <2>8. pc' = "b.vm" => artifact'.rev >= sha' \/ kept' \/ (behind' /\ artifact' = cached')
    BY <1>1, <2>6, <2>7 DEF BuildTypes
  <2> QED
    BY <1>1, <1>2, <2>1, <2>2, <2>3, <2>4, <2>5, <2>8, Choosing DEF BuildTypes, PackageKnown
<1>6. CASE CloneOrUpdate \/ Build \/ Release
  <2>1. UNCHANGED <<opts, todo, results, app, seen, stage, head, comment, ci, cached, sidecar, kept, behind, sha, posted>>
    BY <1>6 DEF CloneOrUpdate, Build, Release, Local
  <2>2. /\ pc \in {"b.clone", "b.build", "b.release"} /\ pc' \in {"b.build", "b.vm", "exited"}
        /\ pc' = "exited" => code' # 0
        /\ clone' \in {clone, head} /\ (pc' = "b.build" => opts.dry \/ clone' = head)
        /\ \/ UNCHANGED artifact /\ pc' # "b.vm"
           \/ pc = "b.build" /\ artifact' = Package(head, "whole")
           \/ pc = "b.build" /\ ~opts.dry /\ \E size \in {"tiny", "whole"} : artifact' = Package(clone, size)
           \/ pc = "b.release" /\ artifact' = Package(1, "whole")
    BY <1>6 DEF CloneOrUpdate, Build, Release, Use, At, Goto, Exit, Raise
  <2>3. pc \in Choice /\ pc' \in Choice \cup {"b.vm", "exited"} /\ pc' \notin {"b.label", "b.gate", "b.cache", "b.release"}
    BY <2>2 DEF Choice
  <2>4. artifact' \in [rev : Nat, size : Sizes \ {"part"}] /\ clone' \in Nat
    BY <1>1, <2>2 DEF BuildTypes, Package
  <2>5. pc = "b.release" => sha <= 1
    BY <1>1 DEF PackageKnown
  <2>6. pc' = "b.vm" /\ ~opts.dry => artifact'.rev >= sha'
    BY <1>1, <2>1, <2>2, <2>5 DEF BuildTypes, PackageKnown, Package
  <2> QED
    BY <1>1, <1>2, <2>1, <2>2, <2>3, <2>4, <2>6, Choosing DEF BuildTypes, PackageKnown
<1>7. CASE Push \/ Uploads \/ CiEnds
  <2>1. UNCHANGED <<pc, code, opts, sha, posted, cached, sidecar, kept, behind, clone, artifact, todo, stage, results, app, seen>>
    BY <1>7 DEF Push, Uploads, CiEnds, Hosted, process
  <2>2. /\ pc \in {"b.label", "b.gate", "b.cache", "b.clone"}
        /\ \/ head' = head + 1 /\ UNCHANGED <<comment, ci>>
           \/ comment' = head /\ UNCHANGED <<head, ci>>
           \/ ci' = comment /\ UNCHANGED <<head, comment>>
    BY <1>7 DEF Push, Uploads, CiEnds
  <2>3. pc \in Choice /\ pc \notin {"exited", "b.vm", "b.release"}
    BY <2>2 DEF Choice
  <2>4. head' \in Nat /\ comment' \in Nat /\ ci' \in Nat /\ sha <= head' /\ ci' <= comment' /\ comment' <= head'
    BY <1>1, <2>2 DEF BuildTypes, PackageKnown
  <2> QED
    BY <1>1, <1>2, <2>1, <2>2, <2>3, <2>4, Choosing DEF BuildTypes, PackageKnown
<1> QED
  BY <1>3, <1>4, <1>5, <1>6, <1>7

\* a VM gets its result, and the loop goes on to the next
LEMMA Reporting ==
  ASSUME BuildInv, pc \in DeployLabels, todo # <<>>, Deploying, UNCHANGED <<artifact, code>>,
         NEW r \in [scp : BOOLEAN, install : BOOLEAN, missing : BOOLEAN, error : BOOLEAN], Report(r),
         app' \in [DOMAIN BVMs -> [rev : Nat, new : BOOLEAN]], DOMAIN seen' = DOMAIN BVMs,
         \A v \in DOMAIN BVMs \ {Here} : app'[v] = app[v] /\ seen'[v] = seen[v],
         ~opts.dry /\ Good(r) => /\ artifact.size = "whole"
                                 /\ opts.target = "deb" => Version(app'[Here].rev) = Version(artifact.rev)
                                 /\ opts.target # "deb" => app'[Here].new /\ app'[Here].rev = artifact.rev
                                 /\ HasSymbol(seen'[Here]) /\ (OnVm => artifact.rev = head)
  PROVE  BuildInv'
<1>1. BuildTypes /\ PackageKnown /\ opts.goal # "none" /\ (~opts.dry => DeployKnown)
  BY DEF BuildInv, DeployLabels, BLabels
<1>2. PICK w \in DOMAIN BVMs : w = Here
  BY <1>1, HeadAndTail DEF BuildTypes, Here
<1>3. /\ UNCHANGED <<opts, head, comment, ci, sha, posted, cached, sidecar, kept, behind, clone, artifact>> /\ stage' = 0
      /\ pc' = "b.vm" /\ results' = [results EXCEPT ![w] = r] /\ todo' = Tail(todo)
  BY <1>2 DEF Deploying, Report, Goto
<1>4. /\ todo' \in Seq(DOMAIN BVMs) /\ ToSetB(todo) = {w} \cup ToSetB(todo') /\ w \in ToSetB(opts.deploy)
      /\ ToSetB(todo') \subseteq ToSetB(opts.deploy)
  BY <1>1, <1>2, <1>3, HeadAndTail DEF BuildTypes, Here
<1>5. results'[w] = r /\ \A v \in DOMAIN BVMs \ {w} : results'[v] = results[v]
  BY <1>1, <1>3 DEF BuildTypes
<1>6. BuildTypes'
  <2>1. results' \in [DOMAIN BVMs -> [scp : BOOLEAN, install : BOOLEAN, missing : BOOLEAN, error : BOOLEAN]]
    BY <1>1, <1>3 DEF BuildTypes
  <2>2. 0 \in 0..Len(NativeSteps)
    BY DEF NativeSteps
  <2> QED
    BY <1>1, <1>3, <1>4, <2>1, <2>2 DEF BuildTypes
<1>7. PackageKnown'
  BY <1>1, <1>3 DEF PackageKnown, DeployLabels
<1>8. BuildHonest'
  BY <1>3 DEF BuildHonest
<1>9. ASSUME ~opts.dry PROVE DeployKnown'
  <2>1. Behind' \subseteq Behind \cup {w} /\ Behind \subseteq DOMAIN BVMs
    <3>1. ToSetB(opts.deploy) \subseteq DOMAIN BVMs
      BY <1>1 DEF BuildTypes, ToSetB
    <3> QED
      BY <1>3, <1>4, <3>1 DEF Behind
  <2>2. ASSUME NEW v \in Behind', Good(results'[v])
        PROVE  Fits(v)' /\ HasSymbol(seen'[v]) /\ (OnVm' => artifact'.rev = head')
    <3>1. CASE v = w
      BY <1>2, <1>3, <1>5, <1>9, <2>2, <3>1 DEF Fits, OnVm
    <3>2. CASE v # w
      <4>1. v \in Behind /\ v \in DOMAIN BVMs /\ Good(results[v]) /\ app'[v] = app[v] /\ seen'[v] = seen[v]
        BY <1>2, <1>5, <2>1, <2>2, <3>2
      <4> QED
        BY <1>1, <1>3, <1>9, <4>1 DEF DeployKnown, Fits, OnVm
    <3> QED
      BY <3>1, <3>2
  <2>3. artifact'.size = "whole" \/ \E v \in ToSetB(opts'.deploy) : ~Good(results'[v])
    BY <1>3, <1>4, <1>5, <1>9
  <2> QED
    BY <1>1, <1>3, <1>9, <2>2, <2>3 DEF DeployKnown
<1> QED
  BY <1>1, <1>3, <1>6, <1>7, <1>8, <1>9 DEF BuildInv, BLabels

\* the VM at hand is on its way
LEMMA Working ==
  ASSUME BuildInv, pc \in DeployLabels, ~opts.dry, todo # <<>>, Deploying, UNCHANGED <<todo, code, seen>>,
         pc' \in DeployLabels \ {"b.vm"}, stage' \in 0..Len(NativeSteps),
         artifact' \in [rev : Nat, size : Sizes \ {"part"}],
         results' \in [DOMAIN BVMs -> [scp : BOOLEAN, install : BOOLEAN, missing : BOOLEAN, error : BOOLEAN]],
         app' \in [DOMAIN BVMs -> [rev : Nat, new : BOOLEAN]],
         \A v \in DOMAIN BVMs \ {Here} : results'[v] = results[v] /\ app'[v] = app[v],
         /\ artifact' = artifact \/ (OnVm /\ artifact'.rev = head)
         /\ pc' = "b.native" => OnVm /\ stage' >= 1 /\ (stage' > 4 => artifact'.rev = head)
                                /\ (stage' > 7 => artifact'.size = "whole")
         /\ pc' \in {"b.install", "b.version", "b.symbols"} =>
              artifact'.size = "whole" /\ (OnVm => artifact'.rev = head)
         /\ pc' = "b.push" => ~OnVm
         /\ pc' = "b.version" /\ opts.target # "deb" => Fits(Here)'
         /\ pc' = "b.symbols" => Fits(Here)'
  PROVE  BuildInv'
<1>1. BuildTypes /\ PackageKnown /\ opts.goal # "none" /\ (~opts.dry => DeployKnown)
  BY DEF BuildInv, DeployLabels, BLabels
<1>2. UNCHANGED <<opts, head, comment, ci, sha, posted, cached, sidecar, kept, behind, clone, todo, seen>>
  BY DEF Deploying
<1>3. BuildTypes'
  BY <1>1, <1>2 DEF BuildTypes
<1>4. PackageKnown'
  BY <1>1, <1>2 DEF PackageKnown, DeployLabels
<1>5. BuildHonest'
  BY DEF BuildHonest, DeployLabels
<1>6. Here \in ToSetB(todo) /\ Here' = Here
  BY <1>1, <1>2, HeadAndTail DEF BuildTypes, Here
<1>7. Behind' = Behind /\ Here \notin Behind /\ Behind \subseteq DOMAIN BVMs /\ OnVm' = OnVm
  BY <1>1, <1>2, <1>6 DEF BuildTypes, Behind, ToSetB, OnVm
<1>8. ASSUME ~opts.dry PROVE DeployKnown'
  <2>1. ASSUME NEW v \in Behind', Good(results'[v])
        PROVE  Fits(v)' /\ HasSymbol(seen'[v]) /\ (OnVm' => artifact'.rev = head')
    <3>1. v \in Behind /\ Good(results[v]) /\ app'[v] = app[v] /\ seen'[v] = seen[v]
      BY <1>2, <1>7, <2>1
    <3>2. Fits(v) /\ HasSymbol(seen[v]) /\ (OnVm => artifact.rev = head)
      BY <1>1, <1>8, <3>1 DEF DeployKnown
    <3>3. artifact'.rev = artifact.rev /\ opts' = opts /\ head' = head
      BY <1>2, <1>8, <3>2
    <3> QED
      BY <1>7, <3>1, <3>2, <3>3 DEF Fits
  <2>2. artifact'.rev >= sha' \/ kept' \/ (behind' /\ artifact' = cached')
    <3>1. head >= sha /\ head \in Nat /\ sha \in Nat
      BY <1>1 DEF BuildTypes, PackageKnown
    <3> QED
      BY <1>1, <1>2, <1>8, <3>1 DEF DeployKnown
  <2> QED
    BY <1>1, <1>2, <1>6, <1>7, <1>8, <2>1, <2>2 DEF DeployKnown
<1> QED
  BY <1>1, <1>2, <1>3, <1>4, <1>5, <1>8 DEF BuildInv, BLabels, DeployLabels

\* the loop is over, or its next VM is taken up
LEMMA BuildNextVm ==
  ASSUME BuildInv, NextVm
  PROVE  BuildInv'
<1>1. BuildTypes /\ PackageKnown /\ opts.goal # "none" /\ (~opts.dry => DeployKnown) /\ pc = "b.vm"
  BY DEF BuildInv, NextVm, At, DeployLabels, BLabels
<1>2. Deploying /\ UNCHANGED <<artifact, app, seen>>
  BY DEF NextVm
<1>3. CASE todo = <<>>
  <2>1. UNCHANGED <<todo, stage, results>> /\ pc' = "exited" /\ code' = ExitCode
    BY <1>3 DEF NextVm, Exit
  <2>2. BuildTypes' /\ PackageKnown'
    BY <1>1, <1>2, <2>1 DEF BuildTypes, PackageKnown, Deploying, BLabels
  <2>3. ASSUME ~opts.dry, ExitCode = 0, NEW v \in ToSetB(opts.deploy)
        PROVE  Deployed(v)
    <3>1. ToSetB(opts.deploy) \subseteq DOMAIN BVMs /\ opts.deploy # <<>>
      BY <1>1, <2>3 DEF BuildTypes, ToSetB
    <3>2. \A u \in ToSetB(opts.deploy) : Good(results[u])
      BY <2>3 DEF ExitCode, Good
    <3>3. v \in Behind
      BY <1>3, <2>3 DEF Behind, ToSetB
    <3>4. Fits(v) /\ HasSymbol(seen[v]) /\ artifact.size = "whole"
             /\ (artifact.rev >= sha \/ kept \/ (behind /\ artifact = cached))
      BY <1>1, <2>3, <3>1, <3>2, <3>3 DEF DeployKnown
    <3> QED
      BY <3>4 DEF Fits, Deployed
  <2>4. BuildHonest'
    BY <1>2, <2>1, <2>3 DEF BuildHonest, Deployed, Deploying
  <2> QED
    BY <1>1, <1>2, <2>1, <2>2, <2>4 DEF BuildInv, Deploying, DeployLabels
<1>4. CASE todo # <<>> /\ BVMs[Here] # Ext(opts.target)
  <2>1. Report([NotYet EXCEPT !.error = TRUE]) /\ code' = code
    BY <1>4 DEF NextVm, Fails, Report, Goto
  <2>2. [NotYet EXCEPT !.error = TRUE] \in [scp : BOOLEAN, install : BOOLEAN, missing : BOOLEAN, error : BOOLEAN]
        /\ ~Good([NotYet EXCEPT !.error = TRUE])
    BY DEF NotYet, Good
  <2> QED
    BY <1>1, <1>2, <1>4, <2>1, <2>2, Reporting DEF BuildTypes, DeployLabels
<1>5. CASE todo # <<>> /\ BVMs[Here] = Ext(opts.target) /\ opts.dry
  <2>1. Report(DryResult) /\ code' = code
    BY <1>5 DEF NextVm, Report, Goto
  <2>2. DryResult \in [scp : BOOLEAN, install : BOOLEAN, missing : BOOLEAN, error : BOOLEAN]
    BY DEF DryResult, NotYet
  <2> QED
    BY <1>1, <1>2, <1>5, <2>1, <2>2, Reporting DEF BuildTypes, DeployLabels
<1>6. CASE todo # <<>> /\ BVMs[Here] = Ext(opts.target) /\ ~opts.dry
  <2>1. UNCHANGED <<todo, results, code>>
        /\ IF OnVm THEN pc' = "b.native" /\ stage' = 1 ELSE pc' = "b.push" /\ UNCHANGED stage
    BY <1>6 DEF NextVm, OnVm, Goto
  <2>2. 1 \in 0..Len(NativeSteps)
    BY DEF NativeSteps
  <2>3. stage' \in 0..Len(NativeSteps) /\ pc' \in DeployLabels \ {"b.vm"}
    BY <1>1, <2>1, <2>2 DEF BuildTypes, DeployLabels
  <2> QED
    BY <1>1, <1>2, <1>6, <2>1, <2>3, Working DEF BuildTypes, DeployLabels
<1> QED
  BY <1>3, <1>4, <1>5, <1>6

LEMMA BuildNative ==
  ASSUME BuildInv, Native
  PROVE  BuildInv'
<1>1. BuildTypes /\ (~opts.dry => DeployKnown) /\ pc = "b.native" /\ pc \in DeployLabels
  BY DEF BuildInv, Native, At, DeployLabels
<1>2. Deploying /\ UNCHANGED <<app, seen>>
  BY DEF Native
<1>3. todo # <<>> /\ ~opts.dry /\ OnVm /\ stage >= 1 /\ (stage > 4 => artifact.rev = head)
      /\ (stage > 7 => artifact.size = "whole")
  BY <1>1 DEF BuildInv, DeployKnown
<1>4. PICK w \in DOMAIN BVMs : w = Here
  BY <1>1, <1>3, HeadAndTail DEF BuildTypes, Here
<1> DEFINE s == NativeSteps[stage]
<1>5. Len(NativeSteps) = 8 /\ stage \in 1..8 /\ (s = "sources" <=> stage = 4) /\ (s = "yarn" <=> stage = 7)
  <2>1. Len(NativeSteps) = 8
    BY DEF NativeSteps
  <2>2. stage \in {1, 2, 3, 4, 5, 6, 7, 8}
    BY <1>1, <1>3, <2>1 DEF BuildTypes
  <2> QED
    BY <2>1, <2>2 DEF NativeSteps
<1>6. CASE /\ stage < Len(NativeSteps) /\ stage' = stage + 1 /\ Goto("b.native") /\ UNCHANGED <<todo, results>>
           /\ artifact' = IF s = "sources" THEN Package(head, "none")
                          ELSE IF s = "yarn" THEN [artifact EXCEPT !.size = "whole"] ELSE artifact
  <2> HIDE DEF s
  <2>1. artifact' \in [rev : Nat, size : Sizes \ {"part"}]
    BY <1>1, <1>6 DEF BuildTypes, Package, Sizes
  <2>2. artifact' = artifact \/ artifact'.rev = head
    <3>1. CASE s = "sources"
      BY <1>6, <3>1 DEF Package
    <3>2. CASE s = "yarn"
      <4>1. stage > 4 /\ s # "sources"
        BY <1>5, <3>2
      <4>2. artifact.rev = head /\ artifact' = [artifact EXCEPT !.size = "whole"]
        BY <1>3, <1>6, <3>2, <4>1
      <4> QED
        BY <1>1, <4>2 DEF BuildTypes
    <3>3. CASE s \notin {"sources", "yarn"}
      BY <1>6, <3>3
    <3> QED
      BY <3>1, <3>2, <3>3
  <2>3. stage' > 4 => artifact'.rev = head
    <3>1. stage' > 4 => stage = 4 \/ stage > 4
      BY <1>5, <1>6
    <3>2. stage = 4 => artifact'.rev = head
      BY <1>5, <1>6 DEF Package
    <3>3. stage > 4 => artifact'.rev = head
      BY <1>1, <1>3, <1>5, <1>6, <2>2 DEF BuildTypes
    <3> QED
      BY <3>1, <3>2, <3>3
  <2>4. stage' > 7 => artifact'.size = "whole"
    <3>1. stage' > 7 => stage = 7
      BY <1>5, <1>6
    <3> QED
      BY <1>1, <1>5, <1>6, <3>1 DEF BuildTypes
  <2>5. stage' \in 0..Len(NativeSteps) /\ stage' >= 1 /\ UNCHANGED <<todo, code, seen, app, results>> /\ pc' = "b.native"
    BY <1>2, <1>3, <1>5, <1>6 DEF Goto
  <2> QED
    BY <1>1, <1>2, <1>3, <2>1, <2>2, <2>3, <2>4, <2>5, Working DEF BuildTypes, DeployLabels
<1>7. CASE stage = Len(NativeSteps) /\ Goto("b.install") /\ stage' = 0 /\ UNCHANGED <<todo, artifact>>
           /\ results' = [results EXCEPT ![Here].scp = TRUE]
  <2>1. results' \in [DOMAIN BVMs -> [scp : BOOLEAN, install : BOOLEAN, missing : BOOLEAN, error : BOOLEAN]]
        /\ \A v \in DOMAIN BVMs \ {Here} : results'[v] = results[v]
    BY <1>1, <1>4, <1>7 DEF BuildTypes
  <2>2. artifact.rev = head /\ artifact.size = "whole" /\ stage' \in 0..Len(NativeSteps) /\ pc' = "b.install"
        /\ UNCHANGED <<todo, code, seen, app, artifact>>
    BY <1>2, <1>3, <1>5, <1>7 DEF Goto
  <2> QED
    BY <1>1, <1>2, <1>3, <2>1, <2>2, Working DEF BuildTypes, DeployLabels
<1>8. CASE Fails(NotYet) /\ UNCHANGED artifact
  <2>1. [NotYet EXCEPT !.error = TRUE] \in [scp : BOOLEAN, install : BOOLEAN, missing : BOOLEAN, error : BOOLEAN]
        /\ ~Good([NotYet EXCEPT !.error = TRUE])
    BY DEF NotYet, Good
  <2>2. Report([NotYet EXCEPT !.error = TRUE]) /\ code' = code
    BY <1>8 DEF Fails, Report, Goto
  <2> QED
    BY <1>1, <1>2, <1>3, <1>8, <2>1, <2>2, Reporting DEF BuildTypes
<1> QED
  BY <1>6, <1>7, <1>8 DEF Native

LEMMA BuildInstalls ==
  ASSUME BuildInv, CopyPackage \/ Install \/ CheckVersion \/ VerifySymbols
  PROVE  BuildInv'
<1> DEFINE Result == [scp : BOOLEAN, install : BOOLEAN, missing : BOOLEAN, error : BOOLEAN]
<1>1. pc \in {"b.push", "b.install", "b.version", "b.symbols"} /\ pc \in DeployLabels /\ BuildTypes /\ ~opts.dry
      /\ DeployKnown /\ todo # <<>>
  BY DEF BuildInv, DeployKnown, CopyPackage, Install, CheckVersion, VerifySymbols, At, DeployLabels
<1>2. Deploying /\ UNCHANGED artifact
  BY DEF CopyPackage, Install, CheckVersion, VerifySymbols
<1>3. PICK w \in DOMAIN BVMs : w = Here
  BY <1>1, HeadAndTail DEF BuildTypes, Here
<1>4. results[w] \in Result /\ app \in [DOMAIN BVMs -> [rev : Nat, new : BOOLEAN]] /\ DOMAIN seen = DOMAIN BVMs
  BY <1>1, <1>3 DEF BuildTypes
<1>5. /\ \A r \in Result : [r EXCEPT !.error = TRUE] \in Result /\ ~Good([r EXCEPT !.error = TRUE])
      /\ \A r \in Result, b \in BOOLEAN : [r EXCEPT !.missing = b] \in Result /\ [r EXCEPT !.install = b] \in Result
      /\ NotYet \in Result
  BY DEF Good, NotYet
<1>6. ASSUME NEW r \in Result, Fails(r), UNCHANGED seen, app' \in [DOMAIN BVMs -> [rev : Nat, new : BOOLEAN]],
             \A v \in DOMAIN BVMs \ {w} : app'[v] = app[v]
      PROVE  BuildInv'
  <2>1. Report([r EXCEPT !.error = TRUE]) /\ code' = code
    BY <1>6 DEF Fails, Report, Goto
  <2> QED
    BY <1>1, <1>2, <1>3, <1>4, <1>5, <1>6, <2>1, Reporting
<1>7. CASE CopyPackage
  <2>1. CASE Fails(NotYet)
    BY <1>4, <1>5, <1>6, <1>7, <2>1 DEF CopyPackage
  <2>2. CASE Valid(artifact) /\ Goto("b.install") /\ results' = [results EXCEPT ![Here].scp = TRUE] /\ UNCHANGED <<todo, stage>>
    <3>1. results' \in [DOMAIN BVMs -> Result] /\ \A v \in DOMAIN BVMs \ {Here} : results'[v] = results[v]
      BY <1>1, <1>3, <2>2 DEF BuildTypes
    <3>2. artifact.size = "whole" /\ ~OnVm
      BY <1>1, <1>7, <2>2 DEF CopyPackage, At, DeployKnown, Valid, BuildTypes
    <3>3. pc' = "b.install" /\ UNCHANGED <<todo, code, seen, app, stage>>
      BY <1>7, <2>2 DEF CopyPackage, Goto
    <3> QED
      BY <1>1, <1>2, <3>1, <3>2, <3>3, Working DEF BuildTypes, DeployLabels
  <2> QED
    BY <1>7, <2>1, <2>2 DEF CopyPackage
<1>8. CASE Install
  <2>1. CASE /\ \/ app' = [app EXCEPT ![Here] = [rev |-> artifact.rev, new |-> TRUE]]
                \/ opts.target = "deb" /\ UNCHANGED app
             /\ results' = [results EXCEPT ![Here].install = TRUE] /\ Goto("b.version") /\ UNCHANGED <<todo, stage>>
    <3>1. results' \in [DOMAIN BVMs -> Result] /\ \A v \in DOMAIN BVMs \ {Here} : results'[v] = results[v]
      BY <1>1, <1>3, <2>1 DEF BuildTypes
    <3>2. artifact.size = "whole" /\ (OnVm => artifact.rev = head)
      BY <1>1, <1>8 DEF Install, At, DeployKnown
    <3>3. /\ app' \in [DOMAIN BVMs -> [rev : Nat, new : BOOLEAN]] /\ \A v \in DOMAIN BVMs \ {Here} : app'[v] = app[v]
          /\ opts.target # "deb" => app'[w].new /\ app'[w].rev = artifact.rev
      <4>1. [rev |-> artifact.rev, new |-> TRUE] \in [rev : Nat, new : BOOLEAN]
        BY <1>1 DEF BuildTypes
      <4>2. PICK a \in [rev : Nat, new : BOOLEAN] : a = [rev |-> artifact.rev, new |-> TRUE]
        BY <4>1
      <4>3. CASE app' = [app EXCEPT ![w] = a]
        BY <1>3, <1>4, <4>2, <4>3
      <4>4. CASE opts.target = "deb" /\ UNCHANGED app
        BY <1>4, <4>4
      <4> QED
        BY <1>3, <2>1, <4>2, <4>3, <4>4
    <3>4. pc' = "b.version" /\ UNCHANGED <<todo, code, seen, stage, opts>>
      BY <1>2, <1>8, <2>1 DEF Install, Goto, Deploying
    <3>5. opts.target # "deb" => Fits(Here)'
      BY <1>2, <1>3, <3>3, <3>4 DEF Fits, Here
    <3> QED
      BY <1>1, <1>2, <3>1, <3>2, <3>3, <3>4, <3>5, Working DEF BuildTypes, DeployLabels
  <2>2. CASE /\ app' = [app EXCEPT ![Here] = IF BVMs[Here] = "windows" THEN [rev |-> 0, new |-> TRUE] ELSE @]
             /\ Fails(results[Here])
    <3>1. app' \in [DOMAIN BVMs -> [rev : Nat, new : BOOLEAN]] /\ \A v \in DOMAIN BVMs \ {w} : app'[v] = app[v]
      BY <1>3, <1>4, <2>2
    <3> QED
      BY <1>3, <1>4, <1>6, <1>8, <2>2, <3>1 DEF Install
  <2> QED
    BY <1>8, <2>1, <2>2 DEF Install
<1>9. CASE CheckVersion
  <2>1. CASE Fails([results[Here] EXCEPT !.install = FALSE])
    BY <1>3, <1>4, <1>5, <1>6, <1>9, <2>1 DEF CheckVersion
  <2>2. CASE /\ ~(opts.target = "deb" /\ Version(app[Here].rev) # Version(artifact.rev))
             /\ Goto("b.symbols") /\ UNCHANGED <<todo, stage, results>>
    <3>1. Fits(Here) /\ artifact.size = "whole" /\ (OnVm => artifact.rev = head)
      BY <1>1, <1>9, <2>2 DEF CheckVersion, At, DeployKnown, Fits
    <3>2. pc' = "b.symbols" /\ UNCHANGED <<todo, code, seen, stage, opts, app, results>>
      BY <1>2, <1>9, <2>2 DEF CheckVersion, Goto, Deploying
    <3>3. Fits(Here)'
      BY <1>2, <3>1, <3>2 DEF Fits, Here
    <3> QED
      BY <1>1, <1>2, <3>1, <3>2, <3>3, Working DEF BuildTypes, DeployLabels
  <2> QED
    BY <1>9, <2>1, <2>2 DEF CheckVersion
<1>10. CASE VerifySymbols
  <2>1. CASE Fails(results[Here]) /\ UNCHANGED seen
    BY <1>3, <1>4, <1>6, <1>10, <2>1 DEF VerifySymbols
  <2>2. CASE \E rev \in {app[Here].rev} \union Strays :
               /\ seen' = [seen EXCEPT ![Here] = rev]
               /\ Report([results[Here] EXCEPT !.missing = ~HasSymbol(rev)])
    <3>1. PICK rev : /\ seen' = [seen EXCEPT ![Here] = rev]
                     /\ Report([results[Here] EXCEPT !.missing = ~HasSymbol(rev)])
      BY <2>2
    <3>2. PICK r \in Result : r = [results[Here] EXCEPT !.missing = ~HasSymbol(rev)]
      <4>1. PICK old \in Result : old = results[Here]
        BY <1>3, <1>4, <1>5
      <4>2. PICK gone \in BOOLEAN : gone = ~HasSymbol(rev)
        BY DEF HasSymbol
      <4>3. [old EXCEPT !.missing = gone] \in Result
        OBVIOUS
      <4> QED
        BY <4>1, <4>2, <4>3
    <3>3. Good(r) => HasSymbol(rev)
      BY <1>3, <1>4, <3>2 DEF Good
    <3>4. seen'[Here] = rev /\ DOMAIN seen' = DOMAIN BVMs /\ \A v \in DOMAIN BVMs \ {Here} : seen'[v] = seen[v]
      BY <1>3, <1>4, <3>1
    <3>5. Fits(Here) /\ artifact.size = "whole" /\ (OnVm => artifact.rev = head) /\ UNCHANGED <<app, code>>
      BY <1>1, <1>10, <3>1 DEF VerifySymbols, At, DeployKnown, Report, Goto
    <3> QED
      BY <1>1, <1>2, <1>4, <3>1, <3>2, <3>3, <3>4, <3>5, Reporting DEF Fits
  <2> QED
    BY <1>10, <2>1, <2>2 DEF VerifySymbols
<1> QED
  BY <1>7, <1>8, <1>9, <1>10

LEMMA BuildStep ==
  ASSUME BuildInv, StartBuild \/ BNext
  PROVE  BuildInv'
BY BuildStarts, BuildChooses, BuildNextVm, BuildNative, BuildInstalls DEF BNext, BMain

=============================================================================
