----------------------------- MODULE ReleaseRetry -----------------------------
(***************************************************************************)
(* Incremental releases: a build is repeated without emptying its output.  *)
(* resume-native-release.py changes an audited checkout in place and gives *)
(* it a new record; seed-incremental-release.py does the same in a copy of *)
(* the source and output of a finished release.  Both synchronise the      *)
(* device files, patch the upstream files and keep the modification times  *)
(* by which the build system decides what to build again.                  *)
(*                                                                         *)
(* There is no clock: of an item it only matters whether its file is newer *)
(* than what was last built from it.  The tools run one at a time and are  *)
(* killed anywhere; developers edit device files at any moment, undo it,   *)
(* and build between the runs.                                             *)
(***************************************************************************)
EXTENDS Integers, Sequences

CONSTANTS
  Device,      \* device files
  Upstream,    \* integrated patches and overlays of upstream files
  Overlay,     \* the overlays among them
  Repatched,   \* the patches that a seed reverses and applies again
  Commit,      \* device commits
  Content,     \* the text of each item in each commit, or None
  Within,      \* <<patch, text, other>>: the other can be taken out of text
  Reviewed,    \* the pairs of commits between which a retry is permitted
  Kernel,      \* kernels built by Nix
  MaxRecords, MaxEdits,   \* bounds
  Experiment,  \* what a developer makes of a device file
  None, Partial

Item == Device \cup Upstream
Tree == {"original", "clone"}

Texts == {Content[c][i] : c \in Commit, i \in Item}
         \cup {None, Experiment}

Changed(c, d) == {i \in Item : Content[c][i] # Content[d][i]}

(* What reviewed changes bring into the upstream files. *)
Brought == UNION {Changed(r[1], r[2]) \cap Upstream : r \in Reviewed}

ASSUME RetryAssumption ==
  /\ Device \cap Upstream = {}
  /\ Repatched \subseteq Upstream /\ Overlay \subseteq Upstream
  /\ \A c \in Commit : Content[c] \in [Item -> Texts]
  /\ Reviewed \subseteq Commit \X Commit
  /\ \A r \in Reviewed, i \in Upstream :
       Content[r[1]][i] \in {None, Content[r[2]][i]}
  /\ MaxRecords \in Nat \ {0} /\ MaxEdits \in Nat

(* No patch can be taken out of a file without any, and one that a retry     *)
(* brings in has a file of its own, whose name shows whether it is there.    *)
ASSUME AuditAssumption ==
  \A w \in Within : w[2] # None /\ ~(w[1] \in Brought /\ w[3] = None)

(* An experiment is in no commit, and it is a file. *)
ASSUME ExperimentAssumption ==
  Experiment \notin {Content[c][i] : c \in Commit, i \in Device} \cup {None}

VARIABLES
  text,       \* the text of each item in each source tree
  newer,      \* whether its file is newer than what was built from it
  out,        \* the text each output was built from
  native,     \* .kiki-native-inputs of each source tree
  alias,      \* the output that the out link of the clone leads to
  records,    \* the build records, the oldest first
  pc, job,    \* where the running tool is, and what it was started for
  undone,     \* device files of which an edit was undone (history)
  backdated,  \* ... whose file then has an older time (history)
  raced,      \* device files edited between comparison and time (history)
  inherited,  \* what a seed left although its commit changes it (history)
  edits

trees == <<text, newer, out, native, alias>>
run == <<pc, job>>
history == <<undone, backdated, raced, inherited>>
vars == <<trees, records, run, history, edits>>

Version == {"0.3.0", "0.3.1"}

Record == [tree : Tree, commit : Commit, kernel : Kernel, version : Version,
           phase : {"building", "checking", "finished"},
           images : [Item -> Texts] \cup {None},
           place : {"current", "left", "astray"}]

Job == [kind : {"retry", "seed", "build"}, base : 1..MaxRecords,
        commit : Commit, kernel : Kernel, times : [Item -> BOOLEAN],
        rest : SUBSET Device, compared : Device \cup {None}]

TypeOK ==
  /\ text \in [Tree -> [Item -> Texts]] /\ out \in [Tree -> [Item -> Texts]]
  /\ newer \in [Tree -> [Item -> BOOLEAN]]
  /\ native \in [Tree -> Kernel \cup {None, Partial}]
  /\ alias \in {"absent", "original", "clone"}
  /\ records \in Seq(Record) /\ Len(records) <= MaxRecords
  /\ pc \in {"idle", "link", "sync", "compare", "utime",
             "reverse", "apply", "audit", "record", "compile", "inputs"}
  /\ job \in Job \cup {None}
  /\ undone \subseteq Tree \X Device /\ backdated \subseteq undone
  /\ raced \subseteq Tree \X Device /\ inherited \subseteq {"clone"} \X Upstream
  /\ edits \in 0..MaxEdits


(* One release build in the original trees, which failed or is finished. *)
Init ==
  \E c \in Commit, k \in Kernel, v \in Version, finished \in BOOLEAN :
    /\ records = <<[tree |-> "original", commit |-> c, kernel |-> k,
                    version |-> v, place |-> "current",
                    phase |-> IF finished THEN "finished" ELSE "building",
                    images |-> IF finished THEN Content[c] ELSE None]>>
    /\ text = [t \in Tree |-> IF t = "original" THEN Content[c]
                              ELSE [i \in Item |-> None]]
    /\ out = [t \in Tree |-> [i \in Item |-> IF finished THEN text[t][i]
                                                         ELSE None]]
    /\ newer = [t \in Tree |-> [i \in Item |-> t = "original" /\ ~finished]]
    /\ \E n \in {None, k} : native = [t \in Tree |->
                                        IF t = "original" THEN n ELSE None]
    /\ alias = "absent" /\ pc = "idle" /\ job = None
    /\ undone = {} /\ backdated = {} /\ raced = {} /\ inherited = {}
    /\ edits = 0

----------------------------------------------------------------------------
(* The audits                                                              *)

(* audit-aosp-integration.sh: patched files are compared by name, and each   *)
(* patch must come out of its files; overlays are compared by name only.     *)
UpstreamAudited(t, c) ==
  \A i \in Upstream :
    \/ text[t][i] = Content[c][i]
    \/ i \in Overlay /\ None \notin {text[t][i], Content[c][i]}
    \/ i \notin Overlay /\ <<i, text[t][i], Content[c][i]>> \in Within

(* A slip: a file that the commit does not have goes unnoticed. *)
KnownAsFrozen(t, c) ==
  \A i \in Device : Content[c][i] # None => text[t][i] = Content[c][i]

(* The device files are, name by name and byte by byte, the frozen ones. *)
DeviceAsFrozen(t, c) == \A i \in Device : text[t][i] = Content[c][i]

(* package-clean-release.py, audit_inputs(). *)
InputsAudited(r) ==
  /\ r.phase = "finished" /\ native[r.tree] = r.kernel
  /\ UpstreamAudited(r.tree, r.commit) /\ DeviceAsFrozen(r.tree, r.commit)
  /\ out[r.tree] = r.images

Packageable(r) == r.version = "0.3.1" /\ InputsAudited(r)

----------------------------------------------------------------------------
(* The tools                                                               *)

Base == records[job.base]

JobTree == IF job.kind = "seed" THEN "clone" ELSE Base.tree

Start(kind, r, c, k, label) ==
  /\ pc = "idle" /\ pc' = label
  /\ job' = [kind |-> kind, base |-> r, commit |-> c, kernel |-> k,
             times |-> [i \in Item |-> TRUE], rest |-> {}, compared |-> None]
  /\ UNCHANGED <<trees, records, history, edits>>

Step(label, next) ==
  pc = label /\ pc' = next /\ UNCHANGED <<native, history, edits>>

At(label, next) == Step(label, next) /\ UNCHANGED records

(* A file gets a text, and a modification time of this moment. *)
Write(t, new) ==
  /\ text' = [text EXCEPT ![t] = [i \in Item |->
                IF i \in DOMAIN new THEN new[i] ELSE @[i]]]
  /\ newer' = [newer EXCEPT ![t] = [i \in Item |->
                 i \in DOMAIN new \/ @[i]]]

(* Frozen worktrees are made for every record, so their files are new. *)
Frozen(items, c) == [i \in {j \in items : Content[c][j] # None} |-> Content[c][i]]

(* prepare-native-build-inputs.py: a directory that exists is never reused;  *)
(* killed before its last write, it leaves one that verify() refuses.        *)
PrepareNative(r) ==
  LET t == records[r].tree
  IN  /\ pc = "idle" /\ native[t] = None
      /\ native' \in {[native EXCEPT ![t] = k] : k \in {records[r].kernel, Partial}}
      /\ UNCHANGED <<text, newer, out, alias, records, run, history,
                     edits>>

(* A slip: the kernel is the one of the checkout, which is not verified.     *)
RetryUnverified(r, c) ==
  LET old == records[r]
  IN  /\ Len(records) < MaxRecords /\ <<old.commit, c>> \in Reviewed
      /\ DeviceAsFrozen(old.tree, old.commit)
      /\ Start("retry", r, c, native[old.tree], "sync")

(* A retry: the checkout is still what the old record describes, and the     *)
(* changes to the new commit were reviewed.                                  *)
Retry(r, c) ==
  LET old == records[r]
  IN  /\ old.phase \in {"building", "finished"}
      /\ Len(records) < MaxRecords
      /\ UpstreamAudited(old.tree, old.commit)
      /\ DeviceAsFrozen(old.tree, old.commit)
      /\ native[old.tree] = old.kernel
      /\ <<old.commit, c>> \in Reviewed
      /\ Start("retry", r, c, old.kernel, "sync")

(* A seed of a finished release in its copy, with the current kernel result. *)
Seed(r, c, k) ==
  LET old == records[r]
  IN  /\ old.tree = "original" /\ InputsAudited(old)
      /\ Len(records) < MaxRecords
      /\ alias = "original" /\ out["clone"] = old.images
      /\ Start("seed", r, c, k, "link")

(* The out link of the copy is replaced. *)
Relink == /\ At("link", "sync") /\ alias' = "clone"
          /\ UNCHANGED <<text, newer, out, job>>

(* History: from here the tree is no longer the one of its records. *)
Leave(t) == records' = [r \in DOMAIN records |->
  IF records[r].tree = t /\ records[r].place = "current"
  THEN [records[r] EXCEPT !.place = "left"] ELSE records[r]]

(* The files that a retry keeps: the commit does not change them.            *)
Kept == {i \in Device : Content[Base.commit][i] # None}
          \ Changed(Base.commit, job.commit)

(* sync-device-tree.sh from the new worktree; stale files are not removed.   *)
(* A retry has looked up the times of the old files.                         *)
Sync ==
  /\ Step("sync", IF job.kind = "retry" THEN "compare" ELSE "reverse")
  /\ Leave(JobTree)
  /\ Write(JobTree, Frozen(Device, job.commit))
  /\ job' = [job EXCEPT !.times = newer[JobTree], !.rest = Kept]
  /\ UNCHANGED <<out, alias>>

AsBefore(i) == text[JobTree][i] = Content[Base.commit][i]

TakeUp(i) == [job EXCEPT !.rest = @ \ {i}, !.compared = i]

(* A slip: the file is not compared. *)
CompareNothing ==
  /\ At("compare", "utime")
  /\ \E i \in job.rest : job' = TakeUp(i)
  /\ UNCHANGED <<text, newer, out, alias>>

(* The kept files one after the other, in any order: one is compared with    *)
(* the old worktree ...                                                      *)
Compare ==
  /\ At("compare", "utime")
  /\ \E i \in job.rest : AsBefore(i) /\ job' = TakeUp(i)
  /\ UNCHANGED <<text, newer, out, alias>>

(* ... and then gets its time back, whatever it is by now. *)
SetBack ==
  /\ At("utime", "compare")
  /\ newer' = [newer EXCEPT ![JobTree][job.compared] = job.times[job.compared]]
  /\ job' = [job EXCEPT !.compared = None]
  /\ UNCHANGED <<text, out, alias>>

(* A patch and an overlay that the reviewed change brings in, where there    *)
(* was neither.                                                              *)
Brings == Changed(Base.commit, job.commit) \cap Upstream

Absent(items) == \A i \in items : text[JobTree][i] = None

Patch ==
  /\ At("compare", "audit") /\ job.rest = {} /\ Absent(Brings)
  /\ Write(JobTree, Frozen(Brings, job.commit))
  /\ UNCHANGED <<out, alias, job>>

(* A seed takes the patches of the old snapshot back, if it has them ... *)
Reverse ==
  /\ At("reverse", "apply")
  /\ LET old == {i \in Repatched : Content[Base.commit][i] # None}
     IN  /\ \A i \in old : AsBefore(i)
         /\ Write(JobTree, [i \in old |-> None])
  /\ UNCHANGED <<out, alias, job>>

(* ... and applies those of the new one, which must have them. *)
Apply ==
  /\ At("apply", "audit") /\ Absent(Repatched)
  /\ \A i \in Repatched : Content[job.commit][i] # None
  /\ Write(JobTree, Frozen(Repatched, job.commit))
  /\ UNCHANGED <<out, alias, job>>

AuditIntegration ==
  /\ At("audit", "record") /\ UpstreamAudited(JobTree, job.commit)
  /\ UNCHANGED <<text, newer, out, alias, job>>

(* A new record, without the images of the old one.  A retry that brings in  *)
(* a patch is the next version.                                              *)
NewRecord ==
  [tree |-> JobTree, commit |-> job.commit, kernel |-> job.kernel,
   phase |-> "building", images |-> None, place |-> "current",
   version |-> IF job.kind = "seed" THEN "0.3.0"
               ELSE IF Brings # {} THEN "0.3.1" ELSE Base.version]

(* History: a seed takes over every other patch and overlay as it is. *)
Inherits == IF job.kind = "seed"
            THEN (Changed(Base.commit, job.commit) \cap Upstream) \ Repatched
            ELSE {}

WriteRecord ==
  /\ pc = "record" /\ records' = Append(records, NewRecord)
  /\ pc' = "idle" /\ job' = None
  /\ inherited' = inherited \cup {<<JobTree, i>> : i \in Inherits}
  /\ UNCHANGED <<trees, undone, backdated, raced, edits>>

(* build-clean-release.py --resume checks the patches, not the device files. *)
Build(r) ==
  LET b == records[r]
  IN  /\ b.version = "0.3.1"
      /\ b.phase \in {"building", "checking"}
      /\ UpstreamAudited(b.tree, b.commit)
      /\ Start("build", r, b.commit, b.kernel,
               IF b.phase = "building" THEN "compile" ELSE "inputs")

(* The build system makes what is older than its sources, until it fails. *)
Make(t, items) ==
  /\ out' = [out EXCEPT ![t] = [i \in Item |->
               IF i \in items THEN text[t][i] ELSE @[i]]]
  /\ newer' = [newer EXCEPT ![t] = [i \in Item |-> @[i] /\ i \notin items]]

Outdated(t) == {i \in Item : newer[t][i]}

(* History: the record is built after a retry has changed its checkout. *)
Resumed(place) == IF place = "left" THEN "astray" ELSE place

Compile ==
  /\ pc = "compile"
  /\ \E items \in SUBSET Outdated(JobTree) :
       LET done == items = Outdated(JobTree)
       IN  /\ Make(JobTree, items)
           /\ records' = [records EXCEPT
                ![job.base].place = Resumed(@),
                ![job.base].phase = IF done THEN "checking" ELSE @]
           /\ IF done THEN pc' = "inputs" /\ UNCHANGED job
                      ELSE pc' = "idle" /\ job' = None
  /\ UNCHANGED <<text, native, alias, history, edits>>

CheckInputs ==
  /\ pc = "inputs"
  /\ records' = [records EXCEPT ![job.base].phase = "finished",
                                ![job.base].place = Resumed(@),
                                ![job.base].images = out[JobTree]]
  /\ pc' = "idle" /\ job' = None
  /\ UNCHANGED <<trees, history, edits>>

(* The byte check of a retry or the last audit throws: the checkout stays as  *)
(* it is by then, without a record.  (A patch that fails ends like a kill.)  *)
Refused ==
  /\ \/ pc = "compare" /\ \E i \in job.rest : ~AsBefore(i)
     \/ pc = "audit" /\ ~UpstreamAudited(JobTree, job.commit)
  /\ pc' = "idle" /\ job' = None
  /\ UNCHANGED <<trees, records, history, edits>>

----------------------------------------------------------------------------
(* Around the tools                                                        *)

(* The operator's copies of source and output; they keep every time. *)
CloneTrees ==
  LET copied(f) == [f EXCEPT !["clone"] = f["original"]]
      both(s) == s \cup {<<"clone", p[2]>> : p \in s}
  IN  /\ pc = "idle" /\ alias = "absent" /\ alias' = "original"
      /\ text' = copied(text) /\ newer' = copied(newer) /\ out' = copied(out)
      /\ native' = copied(native)
      /\ undone' = both(undone) /\ backdated' = both(backdated)
      /\ raced' = both(raced)
      /\ UNCHANGED <<inherited, records, run, edits>>

Edit(t, i, new) ==
  /\ text[t][i] \notin {None, new} /\ edits < MaxEdits /\ edits' = edits + 1
  /\ text' = [text EXCEPT ![t][i] = new]
  /\ UNCHANGED <<out, native, alias, records, run>>

(* Between the comparison of a file and its time. *)
Unwatched(t, i) == pc = "utime" /\ t = JobTree /\ i = job.compared

DeveloperEdits(t, i) ==
  /\ Edit(t, i, Experiment)
  /\ newer' = [newer EXCEPT ![t][i] = TRUE]
  /\ raced' = IF Unwatched(t, i) THEN raced \cup {<<t, i>>} ELSE raced
  /\ UNCHANGED <<undone, backdated, inherited>>

(* The edit is taken back by hand, or the file is copied from a frozen       *)
(* worktree with the time it has there, as sync-device-tree.sh does.         *)
DeveloperUndoes(t, i) ==
  \E r \in DOMAIN records, copied \in BOOLEAN :
    /\ records[r].tree = t /\ Content[records[r].commit][i] # None
    /\ text[t][i] = Experiment
    /\ Edit(t, i, Content[records[r].commit][i])
    /\ newer' = [newer EXCEPT ![t][i] = ~copied]
    /\ undone' = undone \cup {<<t, i>>}
    /\ backdated' = IF copied \/ Unwatched(t, i)
                    THEN backdated \cup {<<t, i>>} ELSE backdated
    /\ UNCHANGED <<raced, inherited>>

(* Not in a copy whose out link still leads to the original output. *)
DeveloperBuilds(t) ==
  /\ pc = "idle" /\ (t = "original" \/ alias = "clone")
  /\ Outdated(t) # {} /\ Make(t, Outdated(t))
  /\ UNCHANGED <<text, native, alias, records, run, history, edits>>

(* A killed synchronisation has copied some of the files, and a retry may    *)
(* have brought in a patch without its overlay.                              *)
RunDies ==
  /\ pc # "idle"
  /\ \/ UNCHANGED <<text, newer, records>>
     \/ /\ pc = "sync" /\ Leave(JobTree)
        /\ \E items \in SUBSET Device :
             Write(JobTree, Frozen(items, job.commit))
     \/ /\ pc = "compare" /\ job.rest = {} /\ UNCHANGED records
        /\ \E items \in SUBSET Brings :
             Absent(items) /\ Write(JobTree, Frozen(items, job.commit))
  /\ pc' = "idle" /\ job' = None
  /\ UNCHANGED <<out, native, alias, history, edits>>

----------------------------------------------------------------------------
Steps == \/ Relink \/ Sync \/ Compare \/ SetBack \/ Patch
         \/ Reverse \/ Apply \/ AuditIntegration \/ WriteRecord
         \/ Compile \/ CheckInputs \/ Refused

Operator ==
  \/ \E r \in DOMAIN records :
       \/ PrepareNative(r) \/ Build(r)
       \/ \E c \in Commit : Retry(r, c) \/ \E k \in Kernel : Seed(r, c, k)
  \/ CloneTrees

Developers == \E t \in Tree : \/ DeveloperBuilds(t)
                              \/ \E i \in Device : \/ DeveloperEdits(t, i)
                                                   \/ DeveloperUndoes(t, i)

Next == Steps \/ Operator \/ Developers \/ RunDies

Spec == Init /\ [][Next]_vars

----------------------------------------------------------------------------
(* Properties                                                              *)

(* What is not older than its sources was built from them: after any retry,  *)
(* cut retry, seed, failed build or edit the build system misses nothing,    *)
(* although files are written again and times set back (lines 77 to 83).     *)
(* What can hide is an edit that is undone with an older time, and, as long  *)
(* as it is there, one made between the comparison of the file (line 82) and *)
(* its time (83).                                                            *)
IncrementalSound ==
  \A t \in Tree, i \in Item :
    \/ newer[t][i] \/ out[t][i] = text[t][i]
    \/ <<t, i>> \in backdated
    \/ <<t, i>> \in raced /\ text[t][i] = Experiment

(* What can be packaged is what its record claims, whatever was retried,     *)
(* seeded, killed, edited and built before (audit_inputs(), lines 80 to      *)
(* 147), although its audits look at patches and overlays only loosely;      *)
(* unless the record was built after a retry had changed its checkout, the   *)
(* edit of a file in it was undone, or a seed took over a patch or overlay   *)
(* that its commit changes.                                                  *)
PackagesHoldClaims ==
  \A k \in DOMAIN records :
    LET r == records[k]
    IN  Packageable(r) /\ r.place # "astray" =>
          \A i \in Item : \/ out[r.tree][i] = Content[r.commit][i]
                          \/ <<r.tree, i>> \in undone \cup inherited
=============================================================================
