------------------------------ MODULE ApplyPlan ------------------------------
(***************************************************************************)
(* What apply, prepare and compile_package make of the directories of jobs *)
(* and packages (Message/Apply.cs, Prepare.cs, CompilePackage.cs,          *)
(* ApplyPlan/, Util.cs), one at a time, as the handler's mutex has it.     *)
(* Each is a list of steps; a step fails and the process is restarted, or  *)
(* the process ends between two of them, and the director tries again.     *)
(*                                                                         *)
(* bits tells how much of its blob a directory holds, bound with whose     *)
(* properties the templates of a job were filled in, links where a         *)
(* symbolic link leads.  That a Write itself is cut short is module        *)
(* StateFile, what becomes of the services is module Monit.                *)
(***************************************************************************)
EXTENDS Naturals, Sequences, SequencesExt

CONSTANTS
  Specs,      \* specs a director sends: [deployment, configured, jobs, packages, properties]
  Compiles,   \* packages it has compiled: [package, dependencies]
  MaxFaults   \* bound on steps that fail and processes that end

Jobs == UNION {ToSet(s.jobs) : s \in Specs}
Packages == (UNION {ToSet(s.packages) : s \in Specs}) \cup {c.package : c \in Compiles}
            \cup (UNION {ToSet(c.dependencies) : c \in Compiles})

\* A job is <<template, version>>, a package <<name, version>>.
IsNamed(thing) == thing = <<thing[1], thing[2]>>
\* A list of things, each name once in it.
NamedOnce(seq, things) == seq \in Seq(things) /\ \A a, b \in ToSet(seq) : a[1] = b[1] => a = b

\* Packages and dependencies come as a hash, by name, templates from a director
\* that knows each by its name; nothing depends on itself.
ASSUME ApplyAssumption ==
  /\ \A thing \in Jobs \cup Packages : IsNamed(thing)
  /\ \A s \in Specs : NamedOnce(s.jobs, Jobs) /\ NamedOnce(s.packages, Packages) /\ s.configured \in BOOLEAN
  /\ \A c \in Compiles : NamedOnce(c.dependencies, Packages) /\ c.package \notin ToSet(c.dependencies)

VARIABLES
  bits, bound, links,
  saved,      \* the spec in Config.State and state.yml
  attempt,    \* the request under way, or the last one
  spoiled,    \* since saved was written a request was cut short, or compiled
  upload,     \* what was uploaded last
  faults

applyVars == <<bits, bound, links, saved, attempt, spoiled, upload, faults>>

None == "none"
NoSpec == [deployment |-> "", configured |-> FALSE, jobs |-> <<>>, packages |-> <<>>, properties |-> None]

JobDir(job) == <<"jobs", job[1], job[2]>>
PackageDir(package) == <<"packages", package[1], package[2]>>
JobLink(job) == <<"jobs", job[1]>>
PackageLink(package) == <<"packages", package[1]>>
SymlinkPathInJob(job, package) == <<"jobs", job[1], job[2], package[1]>>

JobDirs == {JobDir(j) : j \in Jobs}
PackageDirs == {PackageDir(p) : p \in Packages}
LinksInJob(job) == {SymlinkPathInJob(job, p) : p \in Packages}
Links == {JobLink(j) : j \in Jobs} \cup {PackageLink(p) : p \in Packages} \cup (UNION {LinksInJob(j) : j \in Jobs})

-----------------------------------------------------------------------------
\* The steps of a request.

Step(op, path, to) == [op |-> op, path |-> path, to |-> to]

\* An unpacked directory and a link to it.
FetchBits(dir) == <<Step("fetch", dir, None)>>
\* Variant: what is already linked is not deleted first.
CreateSymLinkOnly(target, link) == <<Step("symlink", link, target)>>
CreateSymLink(target, link) == <<Step("unlink", link, target), Step("symlink", link, target)>>

InstallJob(job) ==
  FetchBits(JobDir(job)) \o CreateSymLink(JobDir(job), JobLink(job)) \o <<Step("bind", JobDir(job), None)>>

InstallForJob(package, job) ==
  FetchBits(PackageDir(package)) \o CreateSymLink(PackageDir(package), PackageLink(package))
  \o CreateSymLink(PackageDir(package), SymlinkPathInJob(job, package))

Concat(lists) ==
  LET steps[i \in 0..Len(lists)] == IF i = 0 THEN <<>> ELSE steps[i - 1] \o lists[i]
  IN  steps[Len(lists)]
Each(F(_), seq) == Concat([i \in DOMAIN seq |-> F(seq[i])])

\* Without a job no package is installed.
InstallPackages(s) ==
  Each(LAMBDA job : Each(LAMBDA package : InstallForJob(package, job), s.packages), s.jobs)

ApplySteps(s) ==
  (IF s.configured
   THEN <<Step("stop", None, None)>> \o Each(InstallJob, s.jobs) \o InstallPackages(s)
        \o Each(LAMBDA job : <<Step("hook", JobDir(job), None)>>, s.jobs)
   ELSE <<>>)
  \o <<Step("write", None, None)>>

\* Prepare goes through the jobs of a spec without any, which are null.
PrepareSteps(s) ==
  <<Step("stop", None, None)>>
  \o (IF s.jobs = <<>> THEN <<Step("throw", None, None)>>
      ELSE Each(LAMBDA job : FetchBits(JobDir(job)), s.jobs)
           \o Each(LAMBDA package : FetchBits(PackageDir(package)), s.packages))

InstallDependencies(c) ==
  Each(LAMBDA p : FetchBits(PackageDir(p)) \o CreateSymLink(PackageDir(p), PackageLink(p)), c.dependencies)

\* The source package goes to directories of the compilation only.
CompileSteps(c) ==
  InstallDependencies(c)
  \o <<Step("source", None, None), Step("clear", PackageDir(c.package), None),
       Step("packaging", PackageDir(c.package), None), Step("upload", PackageDir(c.package), None),
       Step("cleanup", None, None)>>

-----------------------------------------------------------------------------
InitialAttempt == [kind |-> None, of |-> NoSpec, todo |-> <<>>, end |-> None]

ApplyInit ==
  /\ bits = [d \in JobDirs \cup PackageDirs |-> "none"]
  /\ bound = [d \in JobDirs |-> None]
  /\ links = [l \in Links |-> None]
  /\ saved = NoSpec
  /\ attempt = InitialAttempt
  /\ spoiled = FALSE /\ upload = None /\ faults = 0

BetweenRequests == attempt.todo = <<>>

Begins(kind, of, steps) == attempt' = [kind |-> kind, of |-> of, todo |-> steps, end |-> None]

Apply(s) ==
  /\ BetweenRequests
  /\ \/ saved.deployment \in {"", s.deployment} /\ Begins("apply", s, ApplySteps(s))
     \/ /\ saved.deployment \notin {"", s.deployment}
        /\ attempt' = [kind |-> "apply", of |-> s, todo |-> <<>>, end |-> "refused"]
  /\ UNCHANGED <<bits, bound, links, saved, spoiled, upload, faults>>

Prepare(s) ==
  /\ BetweenRequests
  /\ Begins("prepare", s, PrepareSteps(s))
  /\ UNCHANGED <<bits, bound, links, saved, spoiled, upload, faults>>

CompilePackage(c) ==
  /\ BetweenRequests
  /\ Begins("compile", c, CompileSteps(c))
  /\ spoiled' = TRUE
  /\ UNCHANGED <<bits, bound, links, saved, upload, faults>>

\* An exception ends the request, after the finally block of compile_package.
Throws(why) ==
  IF attempt.kind = "compile" /\ Len(attempt.todo) > 1
  THEN attempt' = [attempt EXCEPT !.todo = <<Last(attempt.todo)>>, !.end = why]
  ELSE attempt' = [attempt EXCEPT !.todo = <<>>, !.end = why]

Passes ==
  attempt' = [attempt EXCEPT !.todo = Tail(@),
                             !.end = IF Len(attempt.todo) = 1 /\ @ = None THEN "done" ELSE @]

\* Variant: a directory that is there is taken for the blob.
UnpackedOnce(step) == [bits EXCEPT ![step.path] = IF @ = "none" THEN "all" ELSE @]
\* A blob that has come whole is unpacked over what lies there.
Unpacked(step) == [bits EXCEPT ![step.path] = "all"]

Emptied(dirs) == [d \in DOMAIN bits |-> IF d \in dirs THEN "none" ELSE bits[d]]

UnpackBlob(step) == bits' = Unpacked(step) /\ UNCHANGED <<bound, links>>
DeleteLink(step) == links' = [links EXCEPT ![step.path] = None] /\ UNCHANGED <<bits, bound>>
CreateLink(step) == links' = [links EXCEPT ![step.path] = step.to] /\ UNCHANGED <<bits, bound>>
BindConfiguration(step) ==
  bound' = [bound EXCEPT ![step.path] = attempt.of.properties] /\ UNCHANGED <<bits, links>>
\* Variant: the packaging script adds to what an earlier compilation left.
KeepInstallDir(step) == UNCHANGED <<bits, bound, links>>
ClearInstallDir(step) == bits' = Emptied({step.path}) /\ UNCHANGED <<bound, links>>
\* Files of an earlier compilation would be packed with those of this one.
Packaging(step) ==
  bits' = [bits EXCEPT ![step.path] = IF @ = "none" THEN "all" ELSE "part"] /\ UNCHANGED <<bound, links>>
DeleteTempFiles == bits' = Emptied(PackageDirs) /\ UNCHANGED <<bound, links>>

BuiltOfWhole(c) ==
  /\ bits[PackageDir(c.package)] = "all"
  /\ \A p \in ToSet(c.dependencies) : links[PackageLink(p)] = PackageDir(p) /\ bits[PackageDir(p)] = "all"

\* What a step asks of what earlier ones made.
CanBeDone(step) ==
  /\ step.op = "symlink" => links[step.path] = None
  /\ step.op = "bind" => bits[step.path] = "all"
  /\ step.op # "throw"

Does(step) ==
  /\ \/ step.op = "fetch" /\ UnpackBlob(step)
     \/ step.op = "unlink" /\ DeleteLink(step)
     \/ step.op = "symlink" /\ CreateLink(step)
     \/ step.op = "bind" /\ BindConfiguration(step)
     \/ step.op = "clear" /\ ClearInstallDir(step)
     \/ step.op = "packaging" /\ Packaging(step)
     \/ step.op = "cleanup" /\ DeleteTempFiles
     \/ step.op \in {"stop", "hook", "source", "upload", "write"} /\ UNCHANGED <<bits, bound, links>>
  /\ upload' = IF step.op # "upload" THEN upload ELSE IF BuiltOfWhole(attempt.of) THEN "whole" ELSE "torn"
  /\ saved' = IF step.op = "write" THEN attempt.of ELSE saved
  /\ spoiled' = IF step.op = "write" THEN FALSE ELSE spoiled

StepPasses ==
  /\ ~BetweenRequests
  /\ CanBeDone(Head(attempt.todo))
  /\ Does(Head(attempt.todo))
  /\ Passes
  /\ UNCHANGED faults

\* What a step that fails may leave half done.
LeftHalfDone(step) ==
  \/ UNCHANGED <<bits, bound, links>>
  \/ step.op \in {"fetch", "packaging"} /\ bits' = [bits EXCEPT ![step.path] = "part"] /\ UNCHANGED <<bound, links>>
  \/ step.op = "bind" /\ bound' = [bound EXCEPT ![step.path] = "part"] /\ UNCHANGED <<bits, links>>
  \/ /\ step.op = "cleanup"
     /\ bits' = [d \in DOMAIN bits |-> IF d \in PackageDirs /\ bits[d] # "none" THEN "part" ELSE bits[d]]
     /\ UNCHANGED <<bound, links>>

StepFails ==
  /\ ~BetweenRequests
  /\ faults < MaxFaults
  /\ LeftHalfDone(Head(attempt.todo))
  /\ Throws("fault")
  /\ spoiled' = TRUE /\ faults' = faults + 1
  /\ UNCHANGED <<saved, upload>>

\* A step that the steps before it do not allow.
StepCannotPass ==
  /\ ~BetweenRequests
  /\ ~CanBeDone(Head(attempt.todo))
  /\ Throws(IF Head(attempt.todo).op = "throw" THEN "null" ELSE "stuck")
  /\ spoiled' = TRUE
  /\ UNCHANGED <<bits, bound, links, saved, upload, faults>>

\* The process ends: nothing is cleaned up.
EndOfProcess ==
  /\ ~BetweenRequests
  /\ faults < MaxFaults
  /\ LeftHalfDone(Head(attempt.todo))
  /\ attempt' = [attempt EXCEPT !.todo = <<>>, !.end = "ended"]
  /\ spoiled' = TRUE /\ faults' = faults + 1
  /\ UNCHANGED <<saved, upload>>

ApplyNext ==
  \/ \E s \in Specs : Apply(s) \/ Prepare(s)
  \/ \E c \in Compiles : CompilePackage(c)
  \/ StepPasses \/ StepFails \/ StepCannotPass \/ EndOfProcess

ApplySpec == ApplyInit /\ [][ApplyNext]_applyVars

-----------------------------------------------------------------------------
\* Everything a spec names is there whole, reached by its links, and made
\* with the properties of this spec.
Installed(s) ==
  \A job \in ToSet(s.jobs) :
    /\ bits[JobDir(job)] = "all" /\ links[JobLink(job)] = JobDir(job)
    /\ bound[JobDir(job)] = s.properties
    /\ \A package \in ToSet(s.packages) :
         /\ bits[PackageDir(package)] = "all"
         /\ links[PackageLink(package)] = PackageDir(package)
         /\ links[SymlinkPathInJob(job, package)] = PackageDir(package)

\* What state.yml names is installed, whatever earlier attempts left half
\* done, until a request that was cut short, or a compilation, which deletes
\* all packages, has spoiled it (Apply.ApplyPlan, CompilePackage.Start).
SavedIsInstalled == ~spoiled /\ BetweenRequests /\ saved.configured => Installed(saved)

\* No leftover of earlier attempts keeps a request from its end: it fails
\* when a step of its own does, or for what the director sent (Util.CreateSymLink,
\* Job.BindConfiguration).
LeftoversDoNotMatter == attempt.end # "stuck"

\* A package is uploaded that was built from whole dependencies in the
\* versions asked for, and of nothing else (CompilePackage.Compile).
UploadsAreWhole == upload # "torn"

ApplyInv == SavedIsInstalled /\ LeftoversDoNotMatter /\ UploadsAreWhole
=============================================================================
