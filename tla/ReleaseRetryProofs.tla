-------------------------- MODULE ReleaseRetryProofs --------------------------
(***************************************************************************)
(* Proofs about ReleaseRetry, for any device files, patches, commits,      *)
(* number of records and edits: its types, that the incremental build      *)
(* misses no change, and that packages hold what their records claim.      *)
(*                                                                         *)
(* The first argument is about the one step that makes a file older again: *)
(* a retry sets a time back after it has found in the file the text that   *)
(* the output was built from when the time was looked up; the file can     *)
(* only have been edited since.                                            *)
(***************************************************************************)
EXTENDS ReleaseRetry, SequenceTheorems, TLAPS

TreesTyped ==
  /\ text \in [Tree -> [Item -> Texts]] /\ out \in [Tree -> [Item -> Texts]]
  /\ newer \in [Tree -> [Item -> BOOLEAN]]

InputsTyped == /\ native \in [Tree -> Kernel \cup {None, Partial}]
               /\ alias \in {"absent", "original", "clone"}

HistoryTyped ==
  /\ undone \subseteq Tree \X Device /\ backdated \subseteq undone
  /\ raced \subseteq Tree \X Device /\ inherited \subseteq {"clone"} \X Upstream
  /\ edits \in 0..MaxEdits

Ongoing == {"link", "sync", "compare", "utime", "reverse", "apply", "audit",
            "record"}

(* A running tool has a job about an existing record, and room for its own. *)
RunTyped ==
  /\ records \in Seq(Record) /\ Len(records) <= MaxRecords
  /\ pc \in Ongoing \cup {"idle", "compile", "inputs"}
  /\ job \in Job \cup {None}
  /\ pc # "idle" => job \in Job /\ job.base \in 1..Len(records)
  /\ pc \in Ongoing => Len(records) < MaxRecords
  /\ pc = "link" => job.kind = "seed"
  /\ pc \in {"compare", "utime"} => job.kind = "retry" /\ job.rest \subseteq Kept
  /\ pc = "utime" => job.compared \in Kept

(* The files a retry keeps are as it found them, or show that they are not. *)
SyncReady ==
  pc = "sync" /\ job.kind = "retry" =>
    \A i \in Kept : \/ text[JobTree][i] = Content[Base.commit][i]
                    \/ newer[JobTree][i]
                    \/ <<JobTree, i>> \in backdated

(* A time that was not newer belongs to the text the output was built from. *)
TimesKept ==
  pc \in {"compare", "utime"} =>
    \A i \in Kept : \/ job.times[i]
                    \/ out[JobTree][i] = Content[Base.commit][i]
                    \/ <<JobTree, i>> \in backdated

(* A file that has been compared is as it was, or was edited since. *)
Watched ==
  pc = "utime" =>
    \/ AsBefore(job.compared)
    \/ <<JobTree, job.compared>> \in backdated
    \/ /\ <<JobTree, job.compared>> \in raced
       /\ text[JobTree][job.compared] = Experiment

IInv == /\ TreesTyped /\ InputsTyped /\ HistoryTyped /\ RunTyped
        /\ IncrementalSound /\ SyncReady /\ TimesKept /\ Watched

----------------------------------------------------------------------------
(* What the helpers do                                                     *)

LEMMA JobFacts ==
  ASSUME RunTyped, pc # "idle"
  PROVE  /\ job \in Job /\ Base \in Record /\ JobTree \in Tree
         /\ job.commit \in Commit /\ job.kernel \in Kernel
         /\ Base.commit \in Commit /\ Base.tree \in Tree /\ Base.version \in Version
<1>1. job \in Job /\ job.base \in 1..Len(records) /\ records \in Seq(Record)
  BY DEF RunTyped
<1> HIDE DEF Record
<1>2. Base \in Record BY <1>1, ElementOfSeq DEF Base
<1> USE DEF Record
<1>3. Base.commit \in Commit /\ Base.tree \in Tree /\ Base.version \in Version
  BY <1>2 DEF Record
<1>4. JobTree \in Tree BY <1>3 DEF JobTree, Tree
<1> QED BY <1>1, <1>2, <1>3, <1>4 DEF Job

(* A written file is newer, and no other file is touched. *)
LEMMA WriteFacts ==
  ASSUME TreesTyped, NEW t \in Tree, NEW new, DOMAIN new \subseteq Item,
         \A i \in DOMAIN new : new[i] \in Texts, Write(t, new)
  PROVE  /\ text' \in [Tree -> [Item -> Texts]]
         /\ newer' \in [Tree -> [Item -> BOOLEAN]]
         /\ \A u \in Tree, i \in Item :
              newer'[u][i] \/ (text'[u][i] = text[u][i] /\ newer'[u][i] = newer[u][i])
<1>1. /\ text' = [text EXCEPT ![t] = [i \in Item |->
                    IF i \in DOMAIN new THEN new[i] ELSE text[t][i]]]
      /\ newer' = [newer EXCEPT ![t] = [i \in Item |->
                     i \in DOMAIN new \/ newer[t][i]]]
  BY DEF Write, TreesTyped
<1>2. [i \in Item |-> IF i \in DOMAIN new THEN new[i] ELSE text[t][i]] \in [Item -> Texts]
  BY DEF TreesTyped
<1>3. [i \in Item |-> i \in DOMAIN new \/ newer[t][i]] \in [Item -> BOOLEAN]
  BY DEF TreesTyped
<1>4. text' \in [Tree -> [Item -> Texts]] BY <1>1, <1>2 DEF TreesTyped
<1>5. newer' \in [Tree -> [Item -> BOOLEAN]] BY <1>1, <1>3 DEF TreesTyped
<1>6. ASSUME NEW u \in Tree, NEW i \in Item
      PROVE  newer'[u][i] \/ (text'[u][i] = text[u][i] /\ newer'[u][i] = newer[u][i])
  <2>1. CASE u = t BY <1>1, <2>1 DEF TreesTyped
  <2>2. CASE u # t BY <1>1, <2>2 DEF TreesTyped
  <2> QED BY <2>1, <2>2
<1> QED BY <1>4, <1>5, <1>6

LEMMA FrozenFacts ==
  ASSUME NEW items \in SUBSET Item, NEW c \in Commit
  PROVE  /\ DOMAIN Frozen(items, c) \subseteq Item
         /\ \A i \in DOMAIN Frozen(items, c) : Frozen(items, c)[i] \in Texts
BY RetryAssumption DEF Frozen

(* A made output has the text of its source, and no other is touched. *)
LEMMA MakeFacts ==
  ASSUME TreesTyped, NEW t \in Tree, NEW items, Make(t, items)
  PROVE  /\ out' \in [Tree -> [Item -> Texts]]
         /\ newer' \in [Tree -> [Item -> BOOLEAN]]
         /\ \A u \in Tree, i \in Item :
              \/ out'[u][i] = text[u][i]
              \/ out'[u][i] = out[u][i] /\ newer'[u][i] = newer[u][i]
<1>1. /\ out' = [out EXCEPT ![t] = [i \in Item |->
                   IF i \in items THEN text[t][i] ELSE out[t][i]]]
      /\ newer' = [newer EXCEPT ![t] = [i \in Item |->
                     newer[t][i] /\ i \notin items]]
  BY DEF Make, TreesTyped
<1>2. [i \in Item |-> IF i \in items THEN text[t][i] ELSE out[t][i]] \in [Item -> Texts]
  BY DEF TreesTyped
<1>3. [i \in Item |-> newer[t][i] /\ i \notin items] \in [Item -> BOOLEAN]
  BY DEF TreesTyped
<1>4. out' \in [Tree -> [Item -> Texts]] BY <1>1, <1>2 DEF TreesTyped
<1>5. newer' \in [Tree -> [Item -> BOOLEAN]] BY <1>1, <1>3 DEF TreesTyped
<1>6. ASSUME NEW u \in Tree, NEW i \in Item
      PROVE  \/ out'[u][i] = text[u][i]
             \/ out'[u][i] = out[u][i] /\ newer'[u][i] = newer[u][i]
  <2>1. CASE u = t /\ i \in items BY <1>1, <2>1 DEF TreesTyped
  <2>2. CASE u = t /\ i \notin items BY <1>1, <2>2 DEF TreesTyped
  <2>3. CASE u # t BY <1>1, <2>3 DEF TreesTyped
  <2> QED BY <2>1, <2>2, <2>3
<1> QED BY <1>4, <1>5, <1>6

----------------------------------------------------------------------------
(* The source trees and the output                                         *)

Sound == TreesTyped /\ IncrementalSound

(* Writing files keeps the promise to the build system. *)
LEMMA SoundWrite ==
  ASSUME Sound, HistoryTyped, NEW t \in Tree, NEW new, DOMAIN new \subseteq Item,
         \A i \in DOMAIN new : new[i] \in Texts, Write(t, new),
         UNCHANGED <<out, backdated, raced>>
  PROVE  Sound'
<1>1. /\ text' \in [Tree -> [Item -> Texts]]
      /\ newer' \in [Tree -> [Item -> BOOLEAN]]
      /\ \A u \in Tree, i \in Item :
           newer'[u][i] \/ (text'[u][i] = text[u][i] /\ newer'[u][i] = newer[u][i])
  BY WriteFacts DEF Sound
<1> QED BY <1>1 DEF Sound, TreesTyped, IncrementalSound

LEMMA SoundMake ==
  ASSUME Sound, NEW t \in Tree, NEW items, Make(t, items),
         UNCHANGED <<text, backdated, raced>>
  PROVE  Sound'
<1>1. /\ out' \in [Tree -> [Item -> Texts]]
      /\ newer' \in [Tree -> [Item -> BOOLEAN]]
      /\ \A u \in Tree, i \in Item :
           \/ out'[u][i] = text[u][i]
           \/ out'[u][i] = out[u][i] /\ newer'[u][i] = newer[u][i]
  BY MakeFacts DEF Sound
<1> QED BY <1>1 DEF Sound, TreesTyped, IncrementalSound

(* A time that is set back. *)
LEMMA SoundSetBack ==
  ASSUME Sound, RunTyped, TimesKept, Watched, SetBack
  PROVE  Sound'
<1> DEFINE c == job.compared
<1>1. /\ pc = "utime" /\ UNCHANGED <<text, out, backdated, raced>>
      /\ newer' = [newer EXCEPT ![JobTree][c] = job.times[c]]
  BY DEF SetBack, At, Step, history
<1>2. JobTree \in Tree /\ job \in Job BY <1>1, JobFacts
<1>3. c \in Kept /\ c \in Item BY <1>1 DEF RunTyped, Kept, Item
<1>4. job.times[c] \in BOOLEAN BY <1>2, <1>3 DEF Job
<1> HIDE DEF c
<1>5. newer' \in [Tree -> [Item -> BOOLEAN]]
  BY <1>1, <1>2, <1>3, <1>4 DEF Sound, TreesTyped
<1>6. ASSUME NEW u \in Tree, NEW i \in Item
      PROVE  \/ newer'[u][i] \/ out[u][i] = text[u][i]
             \/ <<u, i>> \in backdated
             \/ <<u, i>> \in raced /\ text[u][i] = Experiment
  <2>1. CASE u # JobTree \/ i # c
    <3>1. newer'[u][i] = newer[u][i]
      BY <1>1, <1>2, <2>1 DEF Sound, TreesTyped
    <3> QED BY <3>1 DEF Sound, IncrementalSound
  <2>2. CASE u = JobTree /\ i = c
    <3>1. newer'[u][i] = job.times[c]
      BY <1>1, <1>2, <1>3, <2>2 DEF Sound, TreesTyped
    <3>2. \/ text[u][i] = Content[Base.commit][c]
          \/ <<u, i>> \in backdated
          \/ <<u, i>> \in raced /\ text[u][i] = Experiment
      BY <1>1, <2>2 DEF Watched, AsBefore, c
    <3>3. \/ job.times[c] \/ out[u][i] = Content[Base.commit][c]
          \/ <<u, i>> \in backdated
      BY <1>1, <1>3, <2>2 DEF TimesKept
    <3> QED BY <3>1, <3>2, <3>3
  <2> QED BY <2>1, <2>2
<1> QED BY <1>1, <1>5, <1>6 DEF Sound, TreesTyped, IncrementalSound

LEMMA SoundClone == ASSUME Sound, CloneTrees PROVE Sound'
<1> DEFINE copied(f) == [f EXCEPT !["clone"] = f["original"]]
<1>1. /\ text' = copied(text) /\ newer' = copied(newer) /\ out' = copied(out)
      /\ backdated' = backdated \cup {<<"clone", p[2]>> : p \in backdated}
      /\ raced' = raced \cup {<<"clone", p[2]>> : p \in raced}
  BY DEF CloneTrees
<1>2. "clone" \in Tree /\ "original" \in Tree BY DEF Tree
<1>3. TreesTyped' BY <1>1, <1>2 DEF Sound, TreesTyped
<1>4. ASSUME NEW u \in Tree, NEW i \in Item
      PROVE  \/ newer'[u][i] \/ out'[u][i] = text'[u][i]
             \/ <<u, i>> \in backdated'
             \/ <<u, i>> \in raced' /\ text'[u][i] = Experiment
  <2>1. CASE u = "clone"
    <3>1. /\ newer'[u][i] = newer["original"][i] /\ out'[u][i] = out["original"][i]
          /\ text'[u][i] = text["original"][i]
      BY <1>1, <1>2, <2>1 DEF Sound, TreesTyped
    <3>2. /\ <<"original", i>> \in backdated => <<u, i>> \in backdated'
          /\ <<"original", i>> \in raced => <<u, i>> \in raced'
      BY <1>1, <2>1
    <3> QED BY <1>2, <3>1, <3>2 DEF Sound, IncrementalSound
  <2>2. CASE u # "clone"
    <3>1. /\ newer'[u][i] = newer[u][i] /\ out'[u][i] = out[u][i]
          /\ text'[u][i] = text[u][i]
      BY <1>1, <2>2 DEF Sound, TreesTyped
    <3> QED BY <1>1, <3>1 DEF Sound, IncrementalSound
  <2> QED BY <2>1, <2>2
<1> QED BY <1>3, <1>4 DEF Sound, IncrementalSound

(* A developer's edit shows, unless it is undone and the file gets an older  *)
(* time.                                                                   *)
LEMMA SoundEdit ==
  ASSUME Sound, NEW t \in Tree, NEW i \in Device, NEW new \in Texts,
         NEW old \in BOOLEAN, Edit(t, i, new),
         newer' = [newer EXCEPT ![t][i] = ~old], raced \subseteq raced',
         backdated \subseteq backdated', old => <<t, i>> \in backdated'
  PROVE  Sound'
<1>1. text' = [text EXCEPT ![t][i] = new] /\ out' = out BY DEF Edit
<1>2. i \in Item BY DEF Item
<1>3. /\ text' \in [Tree -> [Item -> Texts]]
      /\ newer' \in [Tree -> [Item -> BOOLEAN]]
  BY <1>1, <1>2 DEF Sound, TreesTyped
<1>4. ASSUME NEW u \in Tree, NEW j \in Item
      PROVE  \/ newer'[u][j] \/ out'[u][j] = text'[u][j]
             \/ <<u, j>> \in backdated'
             \/ <<u, j>> \in raced' /\ text'[u][j] = Experiment
  <2>1. CASE u = t /\ j = i
    BY <1>2, <2>1 DEF Sound, TreesTyped
  <2>2. CASE ~(u = t /\ j = i)
    <3>1. newer'[u][j] = newer[u][j] /\ text'[u][j] = text[u][j]
      BY <1>1, <1>2, <2>2 DEF Sound, TreesTyped
    <3> QED BY <1>1, <3>1 DEF Sound, IncrementalSound
  <2> QED BY <2>1, <2>2
<1> QED BY <1>1, <1>3, <1>4 DEF Sound, TreesTyped, IncrementalSound

LEMMA SoundStep ==
  Sound /\ HistoryTyped /\ RunTyped /\ TimesKept /\ Watched /\ [Next]_vars => Sound'
<1> SUFFICES ASSUME Sound, HistoryTyped, RunTyped, TimesKept, Watched, [Next]_vars
             PROVE  Sound'
  OBVIOUS
<1>1. CASE UNCHANGED <<text, newer, out, backdated, raced>>
  BY <1>1 DEF Sound, TreesTyped, IncrementalSound
<1>2. CASE Sync
  <2>1. pc # "idle" /\ Write(JobTree, Frozen(Device, job.commit))
        /\ UNCHANGED <<out, backdated, raced>>
    BY <1>2 DEF Sync, Step, history
  <2>2. Device \in SUBSET Item BY DEF Item
  <2> QED BY <2>1, <2>2, JobFacts, FrozenFacts, SoundWrite
<1>3. CASE Patch
  <2> DEFINE items == Brings
  <2>1. pc # "idle" /\ Write(JobTree, Frozen(items, job.commit))
        /\ UNCHANGED <<out, backdated, raced>>
    BY <1>3 DEF Patch, At, Step, history
  <2>2. items \in SUBSET Item BY DEF Brings, Item
  <2> HIDE DEF items
  <2> QED BY <2>1, <2>2, JobFacts, FrozenFacts, SoundWrite
<1>4. CASE Reverse
  <2> DEFINE old == {i \in Repatched : Content[Base.commit][i] # None}
             gone == [i \in old |-> None]
  <2>1. pc # "idle" /\ Write(JobTree, gone) /\ UNCHANGED <<out, backdated, raced>>
    BY <1>4 DEF Reverse, At, Step, history
  <2>2. DOMAIN gone \subseteq Item /\ \A i \in DOMAIN gone : gone[i] \in Texts
    BY RetryAssumption DEF Item, Texts
  <2> HIDE DEF gone
  <2> QED BY <2>1, <2>2, JobFacts, SoundWrite
<1>5. CASE Apply
  <2>1. pc # "idle" /\ Write(JobTree, Frozen(Repatched, job.commit))
        /\ UNCHANGED <<out, backdated, raced>>
    BY <1>5 DEF Apply, At, Step, history
  <2>2. Repatched \in SUBSET Item BY RetryAssumption DEF Item
  <2> QED BY <2>1, <2>2, JobFacts, FrozenFacts, SoundWrite
<1>6. CASE SetBack BY <1>6, SoundSetBack
<1>7. CASE Compile
  <2>1. pc # "idle" /\ UNCHANGED <<text, backdated, raced>> BY <1>7 DEF Compile, history
  <2>2. PICK items : Make(JobTree, items) BY <1>7 DEF Compile
  <2> QED BY <2>1, <2>2, JobFacts, SoundMake
<1>8. CASE CloneTrees BY <1>8, SoundClone
<1>9. ASSUME NEW t \in Tree, DeveloperBuilds(t) PROVE Sound'
  BY <1>9, SoundMake DEF DeveloperBuilds, history
<1>10. ASSUME NEW t \in Tree, NEW i \in Device, DeveloperEdits(t, i) PROVE Sound'
  <2>1. Edit(t, i, Experiment) /\ newer' = [newer EXCEPT ![t][i] = ~FALSE]
        /\ backdated' = backdated /\ raced \subseteq raced'
    BY <1>10 DEF DeveloperEdits
  <2>2. Experiment \in Texts BY DEF Texts
  <2> QED BY <2>1, <2>2, SoundEdit
<1>11. ASSUME NEW t \in Tree, NEW i \in Device, DeveloperUndoes(t, i) PROVE Sound'
  <2>1. PICK r \in DOMAIN records, copied \in BOOLEAN :
          /\ Edit(t, i, Content[records[r].commit][i])
          /\ newer' = [newer EXCEPT ![t][i] = ~copied]
          /\ backdated' = IF copied \/ Unwatched(t, i)
                          THEN backdated \cup {<<t, i>>} ELSE backdated
          /\ raced' = raced
    BY <1>11 DEF DeveloperUndoes
  <2>2. records[r] \in Record
    <3> HIDE DEF Record
    <3> QED BY ElementOfSeq DEF RunTyped
  <2>3. Content[records[r].commit][i] \in Texts
    BY <2>2, RetryAssumption DEF Record, Item
  <2> QED BY <2>1, <2>3, SoundEdit
<1>12. CASE RunDies
  <2>1. /\ pc # "idle" /\ UNCHANGED <<out, backdated, raced>>
        /\ \/ UNCHANGED <<text, newer>>
           \/ \E items \in SUBSET Item : Write(JobTree, Frozen(items, job.commit))
    <3>1. \A items : items \in SUBSET Device \/ items \in SUBSET Brings
                      => items \in SUBSET Item
      BY DEF Brings, Item
    <3> QED BY <1>12, <3>1 DEF RunDies, history
  <2>2. CASE UNCHANGED <<text, newer>> BY <1>1, <2>1, <2>2
  <2>3. ASSUME NEW items \in SUBSET Item, Write(JobTree, Frozen(items, job.commit))
        PROVE  Sound'
    BY <2>1, <2>3, JobFacts, FrozenFacts, SoundWrite
  <2> QED BY <2>1, <2>2, <2>3
<1>13. \/ UNCHANGED <<text, newer, out, backdated, raced>>
       \/ Sync \/ Patch \/ Reverse \/ Apply \/ SetBack \/ Compile \/ CloneTrees
       \/ \E t \in Tree : DeveloperBuilds(t)
       \/ \E t \in Tree, i \in Device : DeveloperEdits(t, i) \/ DeveloperUndoes(t, i)
       \/ RunDies
  BY DEF Next, Steps, Operator, Developers, vars, trees, history, run, Relink, At,
     Step, Compare, AuditIntegration, WriteRecord, CheckInputs, Refused, PrepareNative,
     Build, Start, Retry, Seed
<1> QED BY <1>1, <1>2, <1>3, <1>4, <1>5, <1>6, <1>7, <1>8, <1>9, <1>10, <1>11,
           <1>12, <1>13

----------------------------------------------------------------------------
(* The records and the running tool                                        *)

(* What records say of tree and commit never changes. *)
LEMMA LeaveFacts ==
  ASSUME records \in Seq(Record), NEW t \in Tree, Leave(t)
  PROVE  /\ records' \in Seq(Record) /\ Len(records') = Len(records)
         /\ \A r \in 1..Len(records) : /\ records'[r].tree = records[r].tree
                                       /\ records'[r].commit = records[r].commit
<1> DEFINE left(r) == IF records[r].tree = t /\ records[r].place = "current"
                      THEN [records[r] EXCEPT !.place = "left"] ELSE records[r]
<1>1. records' = [r \in 1..Len(records) |-> left(r)] BY DEF Leave
<1>2. ASSUME NEW r \in 1..Len(records)
      PROVE  /\ left(r) \in Record /\ left(r).tree = records[r].tree
             /\ left(r).commit = records[r].commit
  <2>1. records[r] \in Record
    <3> HIDE DEF Record
    <3> QED BY ElementOfSeq
  <2> QED BY <2>1 DEF Record
<1>3. Len(records) \in Nat OBVIOUS
<1> HIDE DEF left, Record
<1>4. records' \in Seq(Record) BY <1>1, <1>2, <1>3
<1>5. Len(records') = Len(records) BY <1>1, <1>3, <1>4
<1> QED BY <1>1, <1>2, <1>4, <1>5

LEMMA StartTyped ==
  ASSUME RunTyped, NEW kind \in {"retry", "seed", "build"},
         NEW r \in 1..Len(records), NEW c \in Commit, NEW k \in Kernel,
         NEW label, Start(kind, r, c, k, label),
         \/ label = "sync" /\ kind = "retry" /\ Len(records) < MaxRecords
         \/ label = "link" /\ kind = "seed" /\ Len(records) < MaxRecords
         \/ label \in {"compile", "inputs"}
  PROVE  RunTyped'
<1>1. /\ records' = records /\ pc' = label
      /\ job' = [kind |-> kind, base |-> r, commit |-> c, kernel |-> k,
                 times |-> [i \in Item |-> TRUE], rest |-> {}, compared |-> None]
  BY DEF Start
<1>2. Len(records) \in Nat /\ r \in 1..MaxRecords
  BY RetryAssumption DEF RunTyped
<1>3. job' \in Job /\ job'.kind = kind /\ job'.base = r BY <1>1, <1>2 DEF Job
<1> HIDE DEF Job, Record
<1> QED BY <1>1, <1>2, <1>3 DEF RunTyped, Ongoing

LEMMA NewRecordTyped ==
  ASSUME RunTyped, pc # "idle" PROVE NewRecord \in Record
<1>1. /\ JobTree \in Tree /\ job.commit \in Commit /\ job.kernel \in Kernel
      /\ Base.version \in Version
  BY JobFacts
<1> QED BY <1>1 DEF NewRecord, Record, Version

LEMMA RunStep ==
  TreesTyped /\ RunTyped /\ [Next]_vars => RunTyped'
<1> SUFFICES ASSUME TreesTyped, RunTyped, [Next]_vars PROVE RunTyped'
  OBVIOUS
<1>0. Len(records) \in Nat /\ MaxRecords \in Nat /\ records \in Seq(Record)
  BY RetryAssumption DEF RunTyped
<1>b. Base'.commit = Base.commit /\ job'.commit = job.commit => Kept' = Kept
  BY DEF Kept, Changed
<1>a. ASSUME NEW r \in DOMAIN records
      PROVE  /\ r \in 1..Len(records) /\ records[r] \in Record
             /\ records[r].commit \in Commit /\ records[r].kernel \in Kernel
  <2>1. r \in 1..Len(records) BY <1>0
  <2>2. records[r] \in Record
    <3> HIDE DEF Record
    <3> QED BY <1>0, <2>1, ElementOfSeq
  <2> QED BY <2>1, <2>2 DEF Record
<1>1. CASE UNCHANGED <<records, pc, job>>
  BY <1>1, <1>b DEF RunTyped, Base
<1>2. CASE UNCHANGED records /\ pc' = "idle" /\ job' = None
  BY <1>2 DEF RunTyped, Ongoing
<1>3. CASE /\ UNCHANGED <<records, job>>
           /\ \/ pc = "link" /\ pc' = "sync"
              \/ pc \in {"compare", "reverse", "apply", "audit"}
                 /\ pc' \in {"apply", "audit", "record"}
  BY <1>3 DEF RunTyped, Ongoing
<1>13. CASE Compare \/ SetBack
  <2>1. /\ UNCHANGED records
        /\ \/ /\ pc = "compare" /\ pc' = "utime"
              /\ \E i \in job.rest :
                   job' = [job EXCEPT !.rest = @ \ {i}, !.compared = i]
           \/ /\ pc = "utime" /\ pc' = "compare"
              /\ job' = [job EXCEPT !.compared = None]
    BY <1>13 DEF Compare, TakeUp, SetBack, At, Step
  <2>2. job \in Job /\ job.kind = "retry" /\ job.rest \subseteq Kept
    BY <2>1 DEF RunTyped
  <2>3. /\ job' \in Job /\ job'.kind = job.kind /\ job'.base = job.base
        /\ job'.commit = job.commit /\ job'.rest \subseteq job.rest
        /\ pc' = "utime" => job'.compared \in job.rest
    BY <2>1, <2>2 DEF Job, Kept
  <2>4. Kept' = Kept BY <1>b, <2>1, <2>3 DEF Base
  <2> HIDE DEF Job, Record
  <2> QED BY <2>1, <2>2, <2>3, <2>4 DEF RunTyped, Ongoing
<1>4. ASSUME NEW r \in DOMAIN records, NEW c \in Commit, Retry(r, c)
      PROVE  RunTyped'
  BY <1>4, <1>a, StartTyped DEF Retry
<1>5. ASSUME NEW r \in DOMAIN records, NEW c \in Commit, NEW k \in Kernel,
             Seed(r, c, k)
      PROVE  RunTyped'
  BY <1>5, <1>a, StartTyped DEF Seed
<1>6. ASSUME NEW r \in DOMAIN records, Build(r) PROVE RunTyped'
  <2>1. PICK label \in {"compile", "inputs"} :
          Start("build", r, records[r].commit, records[r].kernel, label)
    BY <1>6 DEF Build
  <2> QED BY <2>1, <1>a, StartTyped
<1>7. CASE Sync
  <2>1. /\ pc = "sync" /\ Leave(JobTree)
        /\ pc' = (IF job.kind = "retry" THEN "compare" ELSE "reverse")
        /\ job' = [job EXCEPT !.times = newer[JobTree], !.rest = Kept]
    BY <1>7 DEF Sync, Step
  <2>2. job \in Job /\ JobTree \in Tree BY <2>1, JobFacts
  <2>3. newer[JobTree] \in [Item -> BOOLEAN] BY <2>2 DEF TreesTyped
  <2>4. /\ job' \in Job /\ job'.kind = job.kind /\ job'.base = job.base
        /\ job'.commit = job.commit /\ job'.rest = Kept
    <3>1. Kept \subseteq Device BY DEF Kept
    <3> QED BY <2>1, <2>2, <2>3, <3>1 DEF Job
  <2>5. records' \in Seq(Record) /\ Len(records') = Len(records)
    BY <1>0, <2>1, <2>2, LeaveFacts
  <2>6. Kept' = Kept
    <3> HIDE DEF Record
    <3>1. job.base \in 1..Len(records) BY <2>1 DEF RunTyped
    <3>2. Base'.commit = Base.commit
      BY <1>0, <2>1, <2>2, <2>4, <3>1, LeaveFacts DEF Base
    <3> QED BY <1>b, <2>4, <3>2
  <2> HIDE DEF Record, Job
  <2> QED BY <2>1, <2>4, <2>5, <2>6 DEF RunTyped, Ongoing
<1>8. CASE WriteRecord
  <2>1. /\ pc = "record" /\ records' = Append(records, NewRecord)
        /\ pc' = "idle" /\ job' = None
    BY <1>8 DEF WriteRecord
  <2>2. NewRecord \in Record BY <2>1, NewRecordTyped
  <2>3. Len(records) < MaxRecords BY <2>1 DEF RunTyped, Ongoing
  <2> HIDE DEF Record
  <2>4. records' \in Seq(Record) /\ Len(records') = Len(records) + 1
    BY <1>0, <2>1, <2>2
  <2> QED BY <1>0, <2>1, <2>3, <2>4 DEF RunTyped, Ongoing
<1>9. CASE Compile
  <2>1. pc = "compile" BY <1>9 DEF Compile
  <2>2. job \in Job /\ job.base \in 1..Len(records) BY <2>1 DEF RunTyped
  <2>3. PICK done \in BOOLEAN :
          /\ records' = [records EXCEPT ![job.base].place = Resumed(@),
                           ![job.base].phase = IF done THEN "checking" ELSE @]
          /\ IF done THEN pc' = "inputs" /\ job' = job
                     ELSE pc' = "idle" /\ job' = None
    BY <1>9 DEF Compile
  <2> DEFINE new == [records[job.base] EXCEPT !.place = Resumed(@),
                       !.phase = IF done THEN "checking" ELSE @]
  <2>4. new \in Record
    <3> DEFINE old == records[job.base]
    <3>1. old \in Record BY <2>2, <1>0, <1>a
    <3>2. Resumed(old.place) \in {"current", "left", "astray"}
      BY <3>1 DEF Record, Resumed
    <3>3. (IF done THEN "checking" ELSE old.phase)
            \in {"building", "checking", "finished"}
      BY <3>1 DEF Record
    <3> HIDE DEF old
    <3>4. [old EXCEPT !.place = Resumed(@), !.phase = IF done THEN "checking" ELSE @]
            \in Record
      BY <3>1, <3>2, <3>3 DEF Record
    <3> QED BY <3>4 DEF old
  <2>5. records' = [records EXCEPT ![job.base] = new] BY <2>3
  <2> HIDE DEF Record, new
  <2>6. records' \in Seq(Record) /\ Len(records') = Len(records)
    BY <1>0, <2>2, <2>4, <2>5
  <2> QED BY <2>1, <2>2, <2>3, <2>6 DEF RunTyped, Ongoing
<1>10. CASE CheckInputs
  <2>1. /\ pc = "inputs" /\ pc' = "idle" /\ job' = None
        /\ records' = [records EXCEPT ![job.base].phase = "finished",
                         ![job.base].place = Resumed(@),
                         ![job.base].images = out[JobTree]]
    BY <1>10 DEF CheckInputs
  <2>2. job \in Job /\ job.base \in 1..Len(records) BY <2>1 DEF RunTyped
  <2>3. out[JobTree] \in [Item -> Texts] BY <2>1, JobFacts DEF TreesTyped
  <2> DEFINE new == [records[job.base] EXCEPT !.phase = "finished",
                       !.place = Resumed(@), !.images = out[JobTree]]
  <2>4. new \in Record
    <3> DEFINE old == records[job.base]
    <3>1. old \in Record BY <2>2, <1>0, <1>a
    <3>2. Resumed(old.place) \in {"current", "left", "astray"}
      BY <3>1 DEF Record, Resumed
    <3> HIDE DEF old
    <3>3. [old EXCEPT !.phase = "finished", !.place = Resumed(@),
             !.images = out[JobTree]] \in Record
      BY <2>3, <3>1, <3>2 DEF Record
    <3> QED BY <3>3 DEF old
  <2>5. records' = [records EXCEPT ![job.base] = new] BY <2>1
  <2> HIDE DEF Record, new
  <2>6. records' \in Seq(Record) /\ Len(records') = Len(records)
    BY <1>0, <2>2, <2>4, <2>5
  <2> QED BY <2>1, <2>6 DEF RunTyped, Ongoing
<1>11. CASE RunDies
  <2>1. pc # "idle" /\ pc' = "idle" /\ job' = None
        /\ (records' = records \/ Leave(JobTree))
    BY <1>11 DEF RunDies
  <2>2. records' \in Seq(Record) /\ Len(records') = Len(records)
    BY <1>0, <2>1, JobFacts, LeaveFacts
  <2> HIDE DEF Record, Job
  <2> QED BY <2>1, <2>2 DEF RunTyped, Ongoing
<1>12. \/ UNCHANGED <<records, pc, job>>
       \/ UNCHANGED records /\ pc' = "idle" /\ job' = None
       \/ /\ UNCHANGED <<records, job>>
          /\ \/ pc = "link" /\ pc' = "sync"
             \/ pc \in {"compare", "reverse", "apply", "audit"}
                /\ pc' \in {"apply", "audit", "record"}
       \/ Compare \/ SetBack
       \/ \E r \in DOMAIN records :
            \/ Build(r)
            \/ \E c \in Commit : Retry(r, c) \/ \E k \in Kernel : Seed(r, c, k)
       \/ Sync \/ WriteRecord \/ Compile \/ CheckInputs \/ RunDies
  BY DEF Next, Steps, Operator, Developers, vars, run, Relink, At, Step,
     Patch, Reverse, Apply, AuditIntegration, Refused,
     PrepareNative, CloneTrees, DeveloperBuilds, DeveloperEdits,
     DeveloperUndoes, Edit
<1> QED BY <1>1, <1>2, <1>3, <1>4, <1>5, <1>6, <1>7, <1>8, <1>9, <1>10, <1>11,
           <1>12, <1>13

----------------------------------------------------------------------------
(* What a retry knows of the files it keeps                                *)

LEMMA SyncReadyStep ==
  TreesTyped /\ RunTyped /\ SyncReady /\ [Next]_vars => SyncReady'
<1> SUFFICES ASSUME TreesTyped, RunTyped, SyncReady, [Next]_vars,
                    pc' = "sync", job'.kind = "retry", NEW i \in Kept'
             PROVE  \/ text'[JobTree'][i] = Content[Base'.commit][i]
                    \/ newer'[JobTree'][i] \/ <<JobTree', i>> \in backdated'
  BY DEF SyncReady
<1>1. CASE UNCHANGED <<pc, job, records, text, newer, backdated>>
  BY <1>1 DEF SyncReady, Kept, JobTree, Base, Changed
<1>2. ASSUME NEW r \in DOMAIN records, NEW c \in Commit, Retry(r, c)
      PROVE  text'[JobTree'][i] = Content[Base'.commit][i]
  <2>1. /\ DeviceAsFrozen(records[r].tree, records[r].commit)
        /\ records' = records /\ text' = text
        /\ job' = [kind |-> "retry", base |-> r, commit |-> c,
                   kernel |-> records[r].kernel, times |-> [j \in Item |-> TRUE],
                   rest |-> {}, compared |-> None]
    BY <1>2 DEF Retry, Start, trees
  <2>2. Base' = records[r] BY <2>1 DEF Base
  <2>3. JobTree' = records[r].tree BY <2>1, <2>2 DEF JobTree
  <2>4. i \in Device BY DEF Kept
  <2> QED BY <2>1, <2>2, <2>3, <2>4 DEF DeviceAsFrozen
<1>3. ASSUME pc = "sync", UNCHANGED <<job, records>>,
             NEW t \in Tree, NEW d \in Device, NEW new, NEW old \in BOOLEAN,
             text' = [text EXCEPT ![t][d] = new],
             newer' = [newer EXCEPT ![t][d] = ~old],
             backdated \subseteq backdated', old => <<t, d>> \in backdated'
      PROVE  \/ text'[JobTree'][i] = Content[Base'.commit][i]
             \/ newer'[JobTree'][i] \/ <<JobTree', i>> \in backdated'
  <2>1. JobTree' = JobTree /\ Base' = Base /\ Kept' = Kept
    BY <1>3 DEF JobTree, Base, Kept, Changed
  <2>2. i \in Item /\ d \in Item /\ JobTree \in Tree
    BY <1>3, JobFacts DEF Kept, Item
  <2>3. CASE t = JobTree /\ d = i
    BY <1>3, <2>1, <2>2, <2>3 DEF TreesTyped
  <2>4. CASE ~(t = JobTree /\ d = i)
    <3>1. text'[JobTree][i] = text[JobTree][i] /\ newer'[JobTree][i] = newer[JobTree][i]
      BY <1>3, <2>2, <2>4 DEF TreesTyped
    <3> QED BY <1>3, <2>1, <3>1 DEF SyncReady
  <2> QED BY <2>3, <2>4
<1>4. ASSUME NEW t \in Tree, NEW d \in Device, DeveloperEdits(t, d)
      PROVE  \/ text'[JobTree'][i] = Content[Base'.commit][i]
             \/ newer'[JobTree'][i] \/ <<JobTree', i>> \in backdated'
  <2>1. /\ pc = "sync" /\ UNCHANGED <<job, records>>
        /\ text' = [text EXCEPT ![t][d] = Experiment]
        /\ newer' = [newer EXCEPT ![t][d] = ~FALSE] /\ backdated' = backdated
    BY <1>4 DEF DeveloperEdits, Edit, run
  <2> QED BY <1>3, <2>1
<1>5. ASSUME NEW t \in Tree, NEW d \in Device, DeveloperUndoes(t, d)
      PROVE  \/ text'[JobTree'][i] = Content[Base'.commit][i]
             \/ newer'[JobTree'][i] \/ <<JobTree', i>> \in backdated'
  <2>1. PICK r \in DOMAIN records, copied \in BOOLEAN :
          /\ pc = "sync" /\ UNCHANGED <<job, records>>
          /\ text' = [text EXCEPT ![t][d] = Content[records[r].commit][d]]
          /\ newer' = [newer EXCEPT ![t][d] = ~copied]
          /\ backdated' = IF copied THEN backdated \cup {<<t, d>>} ELSE backdated
    BY <1>5 DEF DeveloperUndoes, Unwatched, Edit, run
  <2>2. backdated \subseteq backdated' /\ (copied => <<t, d>> \in backdated')
    BY <2>1
  <2> QED BY <1>3, <2>1, <2>2
<1>6. \/ UNCHANGED <<pc, job, records, text, newer, backdated>>
      \/ \E r \in DOMAIN records, c \in Commit : Retry(r, c)
      \/ \E t \in Tree, d \in Device : DeveloperEdits(t, d) \/ DeveloperUndoes(t, d)
  <2>1. ~Relink BY DEF Relink, At, Step, RunTyped
  <2>2. ~(Sync \/ Compare \/ SetBack \/ Patch \/ Reverse \/ Apply
          \/ AuditIntegration \/ WriteRecord \/ Compile \/ CheckInputs \/ Refused
          \/ RunDies)
    BY DEF Sync, Compare, SetBack, Patch, Reverse, Apply, AuditIntegration, At, Step,
       WriteRecord, Compile, CheckInputs, Refused, RunDies
  <2>3. ASSUME NEW r \in DOMAIN records
        PROVE  ~Build(r) /\ \A c \in Commit, k \in Kernel : ~Seed(r, c, k)
    BY DEF Build, Seed, Start
  <2>4. ASSUME NEW t \in Tree PROVE ~DeveloperBuilds(t)
    BY DEF DeveloperBuilds, run
  <2>5. ~CloneTrees BY DEF CloneTrees, run
  <2>6. ASSUME NEW r \in DOMAIN records PROVE ~PrepareNative(r)
    BY DEF PrepareNative, run
  <2> QED BY <2>1, <2>2, <2>3, <2>4, <2>5, <2>6
          DEF Next, Steps, Operator, Developers, vars, trees, run, history
<1> QED BY <1>1, <1>2, <1>4, <1>5, <1>6

LEMMA TimesKeptStep ==
  /\ TreesTyped /\ IncrementalSound /\ RunTyped /\ SyncReady /\ TimesKept
  /\ HistoryTyped /\ [Next]_vars
  => TimesKept'
<1> SUFFICES ASSUME TreesTyped, IncrementalSound, RunTyped, SyncReady, TimesKept,
                    HistoryTyped, [Next]_vars, pc' \in {"compare", "utime"},
                    NEW i \in Kept'
             PROVE  \/ job'.times[i]
                    \/ out'[JobTree'][i] = Content[Base'.commit][i]
                    \/ <<JobTree', i>> \in backdated'
  BY DEF TimesKept
<1> DEFINE Goes == /\ pc \in {"compare", "utime"} /\ UNCHANGED <<records, out>>
                   /\ backdated \subseteq backdated'
                   /\ \/ UNCHANGED job
                      \/ \E j : job' = [job EXCEPT !.rest = @ \ {j}, !.compared = j]
                      \/ job' = [job EXCEPT !.compared = None]
<1>1. CASE Goes
  <2>1. job \in Job BY <1>1 DEF RunTyped
  <2>2. /\ job'.times = job.times /\ job'.base = job.base
        /\ job'.kind = job.kind /\ job'.commit = job.commit
    BY <1>1, <2>1 DEF Job
  <2>3. Base' = Base BY <1>1, <2>2 DEF Base
  <2>4. JobTree' = JobTree /\ Kept' = Kept BY <2>2, <2>3 DEF JobTree, Kept, Changed
  <2> QED BY <1>1, <2>2, <2>3, <2>4 DEF TimesKept
<1>2. CASE Sync
  <2>1. /\ pc = "sync" /\ job.kind = "retry" /\ Leave(JobTree)
        /\ job' = [job EXCEPT !.times = newer[JobTree], !.rest = Kept]
        /\ UNCHANGED <<out, backdated>>
    BY <1>2 DEF Sync, Step, history
  <2>2. job \in Job /\ JobTree \in Tree BY <2>1, JobFacts
  <2>3. /\ job'.times = newer[JobTree] /\ job'.base = job.base
        /\ job'.kind = job.kind /\ job'.commit = job.commit
    BY <2>1, <2>2 DEF Job
  <2>4. job.base \in 1..Len(records) /\ records \in Seq(Record)
    BY <2>1 DEF RunTyped
  <2>5. Base'.commit = Base.commit /\ Base'.tree = Base.tree
    <3> HIDE DEF Record
    <3> QED BY <2>1, <2>2, <2>3, <2>4, LeaveFacts DEF Base
  <2>6. JobTree' = JobTree BY <2>1, <2>3, <2>5 DEF JobTree
  <2>7. i \in Kept /\ i \in Device /\ i \in Item
    BY <2>3, <2>5 DEF Kept, Changed, Item
  <2>8. \/ newer[JobTree][i] \/ out[JobTree][i] = text[JobTree][i]
        \/ <<JobTree, i>> \in backdated
        \/ text[JobTree][i] = Experiment
    BY <2>2, <2>7 DEF IncrementalSound
  <2>9. \/ text[JobTree][i] = Content[Base.commit][i]
        \/ newer[JobTree][i] \/ <<JobTree, i>> \in backdated
    BY <2>1, <2>7 DEF SyncReady
  <2>10. Content[Base.commit][i] # Experiment
    BY <2>1, <2>7, JobFacts, ExperimentAssumption
  <2> QED BY <2>1, <2>3, <2>5, <2>6, <2>8, <2>9, <2>10
<1>3. Sync \/ Goes
  <2>1. ~(Relink \/ Patch \/ Reverse \/ Apply \/ AuditIntegration
          \/ WriteRecord \/ Compile \/ CheckInputs \/ Refused \/ RunDies)
    BY DEF Relink, Patch, Reverse, Apply, AuditIntegration, At, Step,
       WriteRecord, Compile, CheckInputs, Refused, RunDies
  <2>2. ASSUME NEW r \in DOMAIN records
        PROVE  /\ ~Build(r) /\ ~PrepareNative(r)
               /\ \A c \in Commit : ~Retry(r, c) /\ \A k \in Kernel : ~Seed(r, c, k)
    BY DEF Build, Seed, Retry, Start, PrepareNative, run
  <2>3. ASSUME NEW t \in Tree PROVE ~DeveloperBuilds(t)
    BY DEF DeveloperBuilds, run
  <2>4. ~CloneTrees BY DEF CloneTrees, run
  <2>5. ASSUME NEW t \in Tree, NEW d \in Device,
               DeveloperEdits(t, d) \/ DeveloperUndoes(t, d)
        PROVE  Goes
    BY <2>5 DEF DeveloperEdits, DeveloperUndoes, Edit, run
  <2>6. ASSUME Compare \/ SetBack PROVE Goes
    BY <2>6 DEF Compare, TakeUp, SetBack, At, Step, history
  <2>7. ASSUME UNCHANGED vars PROVE Goes BY <2>7 DEF vars, trees, run, history
  <2> HIDE DEF Goes
  <2> QED BY <2>1, <2>2, <2>3, <2>4, <2>5, <2>6, <2>7
          DEF Next, Steps, Operator, Developers
<1> QED BY <1>1, <1>2, <1>3

(* What happens to a file after its comparison is an edit, or one undone. *)
LEMMA WatchedStep ==
  TreesTyped /\ RunTyped /\ Watched /\ [Next]_vars => Watched'
<1> DEFINE Fine(t, i, x) == \/ text[t][i] = x
                            \/ <<t, i>> \in backdated
                            \/ <<t, i>> \in raced /\ text[t][i] = Experiment
<1> SUFFICES ASSUME TreesTyped, RunTyped, Watched, [Next]_vars, pc' = "utime",
                    NEW t, t = JobTree', NEW i, i = job'.compared,
                    NEW x, x = Content[Base'.commit][i]
             PROVE  Fine(t, i, x)'
  BY DEF Watched, AsBefore
<1>1. CASE Compare
  <2>1. PICK j \in job.rest :
          /\ AsBefore(j) /\ job' = [job EXCEPT !.rest = @ \ {j}, !.compared = j]
          /\ pc = "compare" /\ UNCHANGED <<records, text>>
    BY <1>1 DEF Compare, TakeUp, At, Step
  <2>2. job \in Job BY <2>1 DEF RunTyped
  <2>3. job'.base = job.base /\ job'.kind = job.kind /\ job'.compared = j
    BY <2>1, <2>2 DEF Job
  <2>4. Base' = Base BY <2>1, <2>3 DEF Base
  <2>5. JobTree' = JobTree BY <2>3, <2>4 DEF JobTree
  <2> QED BY <2>1, <2>3, <2>4, <2>5 DEF AsBefore
<1>2. ASSUME pc = "utime", UNCHANGED <<records, job>>
      PROVE  /\ t = JobTree /\ i = job.compared /\ t \in Tree /\ i \in Item
             /\ Fine(t, i, x)
  <2>1. Base' = Base BY <1>2 DEF Base
  <2>2. JobTree' = JobTree BY <1>2, <2>1 DEF JobTree
  <2>3. i \in Item BY <1>2 DEF RunTyped, Kept, Item
  <2> QED BY <1>2, <2>1, <2>2, <2>3, JobFacts DEF Watched, AsBefore
<1>3. CASE pc = "utime" /\ UNCHANGED <<records, job, text, backdated, raced>>
  BY <1>2, <1>3
<1>4. ASSUME NEW u \in Tree, NEW d \in Device, DeveloperEdits(u, d)
      PROVE  Fine(t, i, x)'
  <2>1. /\ pc = "utime" /\ UNCHANGED <<records, job, backdated>>
        /\ text' = [text EXCEPT ![u][d] = Experiment]
        /\ raced' = IF Unwatched(u, d) THEN raced \cup {<<u, d>>} ELSE raced
    BY <1>4 DEF DeveloperEdits, Edit, run
  <2>2. /\ t = JobTree /\ i = job.compared /\ t \in Tree /\ i \in Item
        /\ Fine(t, i, x)
    BY <1>2, <2>1
  <2>3. CASE u = t /\ d = i
    <3>1. text'[t][i] = Experiment BY <2>1, <2>2, <2>3 DEF TreesTyped
    <3>2. <<t, i>> \in raced' BY <2>1, <2>2, <2>3 DEF Unwatched
    <3> QED BY <3>1, <3>2
  <2>4. CASE ~(u = t /\ d = i)
    <3>1. text'[t][i] = text[t][i] BY <2>1, <2>2, <2>4 DEF TreesTyped
    <3>2. raced \subseteq raced' BY <2>1
    <3> QED BY <2>1, <2>2, <3>1, <3>2
  <2> QED BY <2>3, <2>4
<1>5. ASSUME NEW u \in Tree, NEW d \in Device, DeveloperUndoes(u, d)
      PROVE  Fine(t, i, x)'
  <2>1. PICK r \in DOMAIN records, copied \in BOOLEAN :
          /\ pc = "utime" /\ UNCHANGED <<records, job, raced>>
          /\ text' = [text EXCEPT ![u][d] = Content[records[r].commit][d]]
          /\ backdated' = IF copied \/ Unwatched(u, d)
                          THEN backdated \cup {<<u, d>>} ELSE backdated
    BY <1>5 DEF DeveloperUndoes, Edit, run
  <2>2. /\ t = JobTree /\ i = job.compared /\ t \in Tree /\ i \in Item
        /\ Fine(t, i, x)
    BY <1>2, <2>1
  <2>3. CASE u = t /\ d = i
    <3>1. <<t, i>> \in backdated' BY <2>1, <2>2, <2>3 DEF Unwatched
    <3> QED BY <3>1
  <2>4. CASE ~(u = t /\ d = i)
    <3>1. text'[t][i] = text[t][i] BY <2>1, <2>2, <2>4 DEF TreesTyped
    <3>2. backdated \subseteq backdated' BY <2>1
    <3> QED BY <2>1, <2>2, <3>1, <3>2
  <2> QED BY <2>3, <2>4
<1>6. \/ Compare
      \/ pc = "utime" /\ UNCHANGED <<records, job, text, backdated, raced>>
      \/ \E u \in Tree, d \in Device : DeveloperEdits(u, d) \/ DeveloperUndoes(u, d)
  <2>1. ~(Relink \/ Sync \/ SetBack \/ Patch \/ Reverse \/ Apply \/ AuditIntegration
          \/ WriteRecord \/ Compile \/ CheckInputs \/ Refused \/ RunDies)
    BY DEF Relink, Sync, SetBack, Patch, Reverse, Apply, AuditIntegration, At, Step,
       WriteRecord, Compile, CheckInputs, Refused, RunDies
  <2>2. ASSUME NEW r \in DOMAIN records
        PROVE  /\ ~Build(r) /\ ~PrepareNative(r)
               /\ \A c \in Commit : ~Retry(r, c) /\ \A k \in Kernel : ~Seed(r, c, k)
    BY DEF Build, Seed, Retry, Start, PrepareNative, run
  <2>3. ASSUME NEW u \in Tree PROVE ~DeveloperBuilds(u)
    BY DEF DeveloperBuilds, run
  <2>4. ~CloneTrees BY DEF CloneTrees, run
  <2> QED BY <2>1, <2>2, <2>3, <2>4
          DEF Next, Steps, Operator, Developers, vars, trees, run, history
<1> HIDE DEF Fine
<1> QED BY <1>1, <1>3, <1>4, <1>5, <1>6

----------------------------------------------------------------------------
(* The rest of the state                                                   *)

LEMMA HistoryStep == HistoryTyped /\ RunTyped /\ [Next]_vars => HistoryTyped'
<1> SUFFICES ASSUME HistoryTyped, RunTyped, [Next]_vars PROVE HistoryTyped'
  OBVIOUS
<1>1. CASE UNCHANGED <<undone, backdated, raced, inherited, edits>>
  BY <1>1 DEF HistoryTyped
<1>2. CASE CloneTrees
  <2>1. /\ undone' = undone \cup {<<"clone", p[2]>> : p \in undone}
        /\ backdated' = backdated \cup {<<"clone", p[2]>> : p \in backdated}
        /\ raced' = raced \cup {<<"clone", p[2]>> : p \in raced}
        /\ UNCHANGED <<inherited, edits>>
    BY <1>2 DEF CloneTrees
  <2>2. undone' \subseteq Tree \X Device BY <2>1 DEF HistoryTyped, Tree
  <2>3. backdated' \subseteq undone' BY <2>1 DEF HistoryTyped
  <2>4. raced' \subseteq Tree \X Device BY <2>1 DEF HistoryTyped, Tree
  <2> QED BY <2>1, <2>2, <2>3, <2>4 DEF HistoryTyped
<1>3. ASSUME NEW t \in Tree, NEW i \in Device,
             DeveloperEdits(t, i) \/ DeveloperUndoes(t, i)
      PROVE  HistoryTyped'
  <2>1. edits < MaxEdits /\ edits' = edits + 1
    BY <1>3 DEF DeveloperEdits, DeveloperUndoes, Edit
  <2>2. edits' \in 0..MaxEdits BY <2>1, RetryAssumption DEF HistoryTyped
  <2>3. /\ \/ UNCHANGED <<undone, backdated>>
           \/ /\ undone' = undone \cup {<<t, i>>}
              /\ backdated' \in {backdated, backdated \cup {<<t, i>>}}
        /\ raced' \in {raced, raced \cup {<<t, i>>}} /\ inherited' = inherited
    BY <1>3 DEF DeveloperEdits, DeveloperUndoes
  <2>4. /\ undone' \subseteq Tree \X Device /\ backdated' \subseteq undone'
        /\ raced' \subseteq Tree \X Device
    BY <2>3 DEF HistoryTyped
  <2> QED BY <2>2, <2>3, <2>4 DEF HistoryTyped
<1>4. CASE WriteRecord
  <2>1. /\ UNCHANGED <<undone, backdated, raced, edits>>
        /\ inherited' = inherited \cup {<<JobTree, i>> : i \in Inherits}
    BY <1>4 DEF WriteRecord
  <2>2. ASSUME NEW i \in Inherits PROVE JobTree = "clone" /\ i \in Upstream
    BY <2>2 DEF Inherits, JobTree
  <2>3. inherited' \subseteq {"clone"} \X Upstream BY <2>1, <2>2 DEF HistoryTyped
  <2> QED BY <2>1, <2>3 DEF HistoryTyped
<1> QED BY <1>1, <1>2, <1>3, <1>4
        DEF Next, Steps, Operator, Developers, vars, history, Relink, Sync,
            Compare, SetBack, Patch, Reverse, Apply, AuditIntegration, At, Step,
            Compile, CheckInputs, Refused, RunDies, PrepareNative,
            Retry, Seed, Build, Start, DeveloperBuilds

LEMMA InputsStep == InputsTyped /\ RunTyped /\ [Next]_vars => InputsTyped'
<1> SUFFICES ASSUME InputsTyped, RunTyped, [Next]_vars PROVE InputsTyped'
  OBVIOUS
<1>1. CASE UNCHANGED <<native, alias>>
  BY <1>1 DEF InputsTyped
<1>2. CASE CloneTrees
  BY <1>2 DEF CloneTrees, InputsTyped, Tree
<1>3. ASSUME NEW r \in DOMAIN records, PrepareNative(r) PROVE InputsTyped'
  <2>1. records[r] \in Record
    <3> HIDE DEF Record
    <3> QED BY ElementOfSeq DEF RunTyped
  <2>2. PICK k \in {records[r].kernel, Partial} :
          native' = [native EXCEPT ![records[r].tree] = k]
    BY <1>3 DEF PrepareNative
  <2>3. alias' = alias BY <1>3 DEF PrepareNative
  <2>4. records[r].kernel \in Kernel BY <2>1 DEF Record
  <2> QED BY <2>2, <2>3, <2>4 DEF InputsTyped
<1>4. CASE Relink
  BY <1>4 DEF Relink, At, Step, InputsTyped
<1> QED BY <1>1, <1>2, <1>3, <1>4
        DEF Next, Steps, Operator, Developers, vars, trees, Sync, Compare, SetBack,
            Patch, Reverse, Apply, AuditIntegration, At, Step, WriteRecord,
            Compile, CheckInputs, Refused, RunDies, Retry, Seed, Build, Start,
            DeveloperBuilds, DeveloperEdits, DeveloperUndoes, Edit

----------------------------------------------------------------------------
(* The invariant                                                           *)

LEMMA IInvInit == Init => IInv
<1> SUFFICES ASSUME Init PROVE IInv
  OBVIOUS
<1>1. PICK c \in Commit, k \in Kernel, v \in Version, finished \in BOOLEAN :
        /\ records = <<[tree |-> "original", commit |-> c, kernel |-> k,
                        version |-> v, place |-> "current",
                        phase |-> IF finished THEN "finished" ELSE "building",
                        images |-> IF finished THEN Content[c] ELSE None]>>
        /\ text = [t \in Tree |-> IF t = "original" THEN Content[c]
                                  ELSE [i \in Item |-> None]]
        /\ out = [t \in Tree |-> [i \in Item |-> IF finished THEN text[t][i]
                                                             ELSE None]]
        /\ newer = [t \in Tree |-> [i \in Item |-> t = "original" /\ ~finished]]
        /\ \E n \in {None, k} : native = [t \in Tree |->
                                            IF t = "original" THEN n ELSE None]
        /\ alias = "absent" /\ pc = "idle" /\ job = None
        /\ undone = {} /\ backdated = {} /\ raced = {} /\ inherited = {}
        /\ edits = 0
  BY DEF Init
<1>2. Content[c] \in [Item -> Texts] /\ None \in Texts
  BY RetryAssumption DEF Texts
<1>3. TreesTyped BY <1>1, <1>2 DEF TreesTyped, Tree
<1>4. InputsTyped BY <1>1 DEF InputsTyped
<1>5. HistoryTyped BY <1>1, RetryAssumption DEF HistoryTyped
<1>6. RunTyped
  <2> DEFINE first == [tree |-> "original", commit |-> c, kernel |-> k,
                       version |-> v, place |-> "current",
                       phase |-> IF finished THEN "finished" ELSE "building",
                       images |-> IF finished THEN Content[c] ELSE None]
  <2>1. first \in Record BY <1>2 DEF Record, Tree
  <2>2. records = <<first>> BY <1>1
  <2> HIDE DEF first, Record
  <2>3. records \in Seq(Record) /\ Len(records) = 1 BY <2>1, <2>2
  <2> QED BY <1>1, <2>3, RetryAssumption DEF RunTyped, Ongoing
<1>7. IncrementalSound
  <2>1. ASSUME NEW t \in Tree, NEW i \in Item
        PROVE  newer[t][i] \/ out[t][i] = text[t][i]
    <3>1. newer[t][i] = (t = "original" /\ ~finished) BY <1>1
    <3>2. out[t][i] = IF finished THEN text[t][i] ELSE None BY <1>1
    <3>3. CASE t = "original" BY <3>1, <3>2, <3>3
    <3>4. CASE t # "original"
      <4>1. text[t][i] = None BY <1>1, <3>4
      <4> QED BY <3>2, <4>1
    <3> QED BY <3>3, <3>4
  <2> QED BY <2>1 DEF IncrementalSound
<1>8. SyncReady /\ TimesKept /\ Watched BY <1>1 DEF SyncReady, TimesKept, Watched
<1> QED BY <1>3, <1>4, <1>5, <1>6, <1>7, <1>8 DEF IInv

LEMMA IInvStep == IInv /\ [Next]_vars => IInv'
<1> SUFFICES ASSUME IInv, [Next]_vars PROVE IInv'
  OBVIOUS
<1>1. TreesTyped' /\ IncrementalSound' BY SoundStep DEF IInv, Sound
<1>2. InputsTyped' BY InputsStep DEF IInv
<1>3. HistoryTyped' BY HistoryStep DEF IInv
<1>4. RunTyped' BY RunStep DEF IInv
<1>5. SyncReady' BY SyncReadyStep DEF IInv
<1>6. TimesKept' BY TimesKeptStep DEF IInv
<1>7. Watched' BY WatchedStep DEF IInv
<1> QED BY <1>1, <1>2, <1>3, <1>4, <1>5, <1>6, <1>7 DEF IInv

LEMMA IInvHolds == Spec => []IInv
BY IInvInit, IInvStep, PTL DEF Spec

----------------------------------------------------------------------------
(* The theorems                                                            *)

(* Every variable of the retries, seeds and builds keeps its type, whatever *)
(* is killed, refused and edited: a running tool always has its job.       *)
THEOREM TypeCorrect == Spec => []TypeOK
<1>1. IInv => TypeOK
  BY DEF IInv, TreesTyped, InputsTyped, HistoryTyped, RunTyped, Ongoing, TypeOK
<1> QED BY <1>1, IInvHolds, PTL

(* The build system misses no change: what is not newer than its output was *)
(* built as it is now, although resume-native-release.py sets modification *)
(* times back (lines 77 to 83), for any commits, files, retries and kills: *)
(* but for an edit that is undone with an older time, and for one, as long *)
(* as it is there, that was made after the file was compared and before    *)
(* its time was set back.                                                  *)
THEOREM IncrementalBuildsSound == Spec => []IncrementalSound
<1>1. IInv => IncrementalSound BY DEF IInv
<1> QED BY <1>1, IInvHolds, PTL

----------------------------------------------------------------------------
(***************************************************************************)
(* What can be packaged is what its record claims                          *)
(*                                                                         *)
(* The argument follows a text from the source tree into the images.       *)
(* The audits are too loose to tell what an upstream file is, so that what *)
(* the tools have written there is followed as well: nothing but a patch   *)
(* or overlay where there was none, or, in a copy before its first record, *)
(* the patches that a seed replaces.                                       *)
(*                                                                         *)
(* Until a retry changes a tree, a device file is the frozen one or an     *)
(* experiment; so is what is built from it, and an experiment in the       *)
(* images is still in the tree.                                            *)
(* A retry refuses a tree with an experiment in it: what it leaves behind  *)
(* as images holds the frozen texts, and no later audit can see another    *)
(* one there.                                                              *)
(***************************************************************************)
NoClone == \A k \in DOMAIN records : records[k].tree = "original"

(* The tree is the copy only once it has its own output, and a seed is the *)
(* first to make a record of it; a build has a job of its own kind.        *)
JobSound ==
  /\ alias # "clone" => NoClone
  /\ pc # "idle" /\ job.kind = "seed" => NoClone
  /\ pc # "idle" /\ job.kind = "seed" /\ pc # "link" => alias = "clone"
  /\ pc \in {"compile", "inputs"} => job.kind = "build"
  /\ pc \in Ongoing => job.kind # "build"
  /\ pc = "inputs" => Base.phase = "checking"
  /\ pc = "record" => UpstreamAudited(JobTree, job.commit)
  /\ pc = "link" => alias = "original"
  /\ pc \in {"reverse", "apply"} => job.kind = "seed"
  /\ pc \in Ongoing /\ job.kind = "retry" => <<Base.commit, job.commit>> \in Reviewed

(* A device file is the frozen one, an experiment, or was one once. *)
Derived(t, c) ==
  \A i \in Device : \/ Content[c][i] \in {None, text[t][i]}
                    \/ text[t][i] = Experiment
                    \/ <<t, i>> \in undone

AfterSync == {"compare", "utime", "reverse", "apply", "audit", "record"}

Synced ==
  pc \in AfterSync =>
    /\ Derived(JobTree, job.commit)
    /\ \A k \in DOMAIN records :
         records[k].place = "current" => records[k].tree # JobTree

(* The upstream files are those of a commit, but for what a seed took over ... *)
Integrated(t, c) ==
  \A i \in Upstream : text[t][i] = Content[c][i] \/ <<t, i>> \in inherited

(* ... and for what a retry brought in later. *)
Grown(t, c) ==
  \A i \in Upstream : \/ text[t][i] = Content[c][i] \/ <<t, i>> \in inherited
                      \/ i \in Brought /\ Content[c][i] = None

RecordsGrown == \A k \in DOMAIN records : Grown(records[k].tree, records[k].commit)

(* Until it has a record, the copy differs by what was brought in since. *)
CloneText ==
  alias # "absent" /\ NoClone =>
    \A i \in Upstream \ Repatched :
      \/ text["clone"][i] = text["original"][i]
      \/ i \in Brought /\ text["clone"][i] = None

(* When it comes to the last audit, the patches are in. *)
Integrating ==
  pc \in {"audit", "record"} =>
    IF job.kind = "seed"
    THEN \A i \in Repatched : text[JobTree][i] = Content[job.commit][i]
    ELSE Grown(JobTree, job.commit)

(* The texts f are those of the record, but for undone edits. *)
Claimed(r, f) ==
  /\ \A i \in Upstream : f[i] = Content[r.commit][i] \/ <<r.tree, i>> \in inherited
  /\ \A i \in Device : \/ Content[r.commit][i] \in {None, f[i]}
                       \/ <<r.tree, i>> \in undone

(* ... and but for experiments that are still in the tree. *)
Made(r, f) ==
  /\ \A i \in Upstream : f[i] = Content[r.commit][i] \/ <<r.tree, i>> \in inherited
  /\ \A i \in Device : \/ Content[r.commit][i] \in {None, f[i]}
                       \/ text[r.tree][i] = Experiment
                       \/ <<r.tree, i>> \in undone

CurrentSound(r) ==
  r.place = "current" =>
    /\ Integrated(r.tree, r.commit) /\ Derived(r.tree, r.commit)
    /\ r.phase # "building" => Made(r, out[r.tree])
    /\ r.phase = "finished" => Made(r, r.images)

LeftSound(r) == r.place = "left" /\ r.phase = "finished" => Claimed(r, r.images)

(* A retry is about to leave a tree in which it found no experiment. *)
ReadyToLeave(r) ==
  (pc = "sync" /\ job.kind = "retry" /\ r.tree = JobTree) =>
    (r.place = "current" /\ r.phase = "finished" => Claimed(r, r.images))

(* No device file is ever removed: where there is none there was none. *)
NeverThere(r) ==
  r.phase = "finished" =>
    \A i \in Device : text[r.tree][i] = None => r.images[i] = None

RecordSound(r) == /\ CurrentSound(r) /\ LeftSound(r)
                  /\ ReadyToLeave(r) /\ NeverThere(r)

RecordsSound == \A k \in DOMAIN records : RecordSound(records[k])

NothingBuiltOfNothing ==
  \A t \in Tree, i \in Device : text[t][i] = None => out[t][i] = None

(* With IInv, the inductive invariant of what can be packaged. *)
PInv == /\ JobSound /\ Synced /\ RecordsSound /\ NothingBuiltOfNothing
        /\ RecordsGrown /\ CloneText /\ Integrating

----------------------------------------------------------------------------
(* What a step does to the trees                                           *)

(* Files are written into the tree of the running tool, device files with  *)
(* the text of a commit.                                                   *)
ToolWrites ==
  \E new : /\ pc \in {"sync", "compare", "reverse", "apply"}
           /\ DOMAIN new \subseteq Item /\ Write(JobTree, new)
           /\ \A i \in DOMAIN new : new[i] \in Texts
           /\ \A i \in Device \cap DOMAIN new : pc = "sync" /\ new[i] # None
           /\ \A i \in DOMAIN new :
                /\ pc = "compare" => i \in Brings /\ text[JobTree][i] = None
                /\ pc \in {"reverse", "apply"} => i \in Repatched
                /\ pc = "sync" => i \in Device
           /\ IF pc = "sync" THEN Leave(JobTree) ELSE UNCHANGED records
           /\ UNCHANGED <<out, alias, undone, backdated>>

(* A developer changes a device file. *)
DeveloperChanges ==
  \E t \in Tree, d \in Device, new \in Texts \ {None} :
    /\ text' = [text EXCEPT ![t][d] = new]
    /\ new = Experiment \/ <<t, d>> \in undone'
    /\ undone \subseteq undone'
    /\ UNCHANGED <<out, alias, records, pc, job>>

LEMMA FrozenText ==
  ASSUME NEW items, NEW c PROVE \A i \in DOMAIN Frozen(items, c) :
                                  /\ i \in items /\ Frozen(items, c)[i] # None
                                  /\ Frozen(items, c)[i] = Content[c][i]
BY DEF Frozen

LEMMA WriteText ==
  ASSUME TreesTyped, NEW t \in Tree, NEW new, DOMAIN new \subseteq Item,
         Write(t, new)
  PROVE  \A u \in Tree, i \in Item :
           text'[u][i] = IF u = t /\ i \in DOMAIN new THEN new[i] ELSE text[u][i]
<1>1. text' = [text EXCEPT ![t] = [i \in Item |->
                 IF i \in DOMAIN new THEN new[i] ELSE text[t][i]]]
  BY DEF Write, TreesTyped
<1>2. ASSUME NEW u \in Tree, NEW i \in Item
      PROVE  text'[u][i] = IF u = t /\ i \in DOMAIN new THEN new[i] ELSE text[u][i]
  <2>1. CASE u = t BY <1>1, <2>1 DEF TreesTyped
  <2>2. CASE u # t BY <1>1, <2>2 DEF TreesTyped
  <2> QED BY <2>1, <2>2
<1> QED BY <1>2

LEMMA ToolWritesFrozen ==
  ASSUME NEW items \in SUBSET Item, RunTyped,
         pc \in {"sync", "compare", "apply"},
         Write(JobTree, Frozen(items, job.commit)),
         pc = "compare" => items \subseteq Brings /\ Absent(items),
         pc = "apply" => items \subseteq Repatched,
         IF pc = "sync" THEN items \subseteq Device /\ Leave(JobTree)
                        ELSE items \cap Device = {} /\ UNCHANGED records,
         UNCHANGED <<out, alias, undone, backdated>>
  PROVE  ToolWrites
<1>1. job.commit \in Commit BY JobFacts
<1> DEFINE new == Frozen(items, job.commit)
<1>2. /\ DOMAIN new \subseteq Item /\ \A i \in DOMAIN new : new[i] \in Texts
      /\ \A i \in DOMAIN new : new[i] # None /\ i \in items
  BY <1>1, FrozenFacts, FrozenText
<1>3. Write(JobTree, new) OBVIOUS
<1>4. \A i \in DOMAIN new :
        /\ pc = "compare" => i \in Brings /\ text[JobTree][i] = None
        /\ pc \in {"reverse", "apply"} => i \in Repatched
        /\ pc = "sync" => i \in Device
  BY <1>2 DEF Absent
<1> HIDE DEF new
<1> QED BY <1>2, <1>3, <1>4 DEF ToolWrites

(* What the steps leave alone. *)
LEMMA Frames ==
  /\ Relink => /\ pc = "link"
               /\ UNCHANGED <<text, out, records, job, undone, inherited>>
  /\ Sync => /\ pc = "sync" /\ pc' # "sync" /\ Leave(JobTree)
             /\ UNCHANGED <<out, alias, undone, inherited>>
  /\ Compare \/ SetBack \/ AuditIntegration =>
       /\ pc \in {"compare", "utime", "audit"}
       /\ UNCHANGED <<text, out, alias, records, undone, inherited>>
  /\ AuditIntegration => UNCHANGED job
  /\ Patch \/ Reverse \/ Apply =>
       /\ pc \in {"compare", "reverse", "apply"}
       /\ UNCHANGED <<out, alias, records, job, undone, inherited>>
  /\ WriteRecord => /\ pc = "record" /\ pc' = "idle"
                    /\ UNCHANGED <<text, out, alias, undone>>
  /\ Compile => /\ pc = "compile" /\ (UNCHANGED job \/ pc' = "idle")
                /\ UNCHANGED <<text, alias, undone, inherited>>
  /\ CheckInputs => /\ pc = "inputs" /\ pc' = "idle"
                    /\ UNCHANGED <<text, out, alias, undone, inherited>>
  /\ Refused => /\ pc \in {"compare", "audit"} /\ pc' = "idle"
                /\ UNCHANGED <<text, out, alias, records, undone, inherited>>
  /\ RunDies => /\ pc # "idle" /\ pc' = "idle"
                /\ UNCHANGED <<out, alias, undone, inherited>>
                /\ UNCHANGED records \/ (pc = "sync" /\ Leave(JobTree))
  /\ \A r, c, k : PrepareNative(r) \/ Build(r) \/ Retry(r, c) \/ Seed(r, c, k) =>
       /\ pc = "idle"
       /\ UNCHANGED <<text, out, alias, records, undone, inherited>>
  /\ \A r : PrepareNative(r) => UNCHANGED <<pc, job>>
  /\ CloneTrees => pc = "idle" /\ UNCHANGED <<records, pc, job, inherited>>
  /\ \A t : DeveloperBuilds(t) =>
       /\ pc = "idle"
       /\ UNCHANGED <<text, alias, records, pc, job, undone, inherited>>
  /\ \A t, i : DeveloperEdits(t, i) \/ DeveloperUndoes(t, i) =>
       UNCHANGED <<out, alias, records, pc, job, inherited>>
<1>1. Relink => /\ pc = "link"
                /\ UNCHANGED <<text, out, records, job, undone, inherited>>
  BY DEF Relink, At, Step, history
<1>2. Sync => /\ pc = "sync" /\ pc' # "sync" /\ Leave(JobTree)
              /\ UNCHANGED <<out, alias, undone, inherited>>
  BY DEF Sync, Step, history
<1>3. Compare \/ SetBack \/ AuditIntegration =>
        /\ pc \in {"compare", "utime", "audit"}
        /\ UNCHANGED <<text, out, alias, records, undone, inherited>>
  BY DEF Compare, SetBack, AuditIntegration, At, Step, history
<1>4. AuditIntegration => UNCHANGED job BY DEF AuditIntegration
<1>5. Patch \/ Reverse \/ Apply =>
        /\ pc \in {"compare", "reverse", "apply"}
        /\ UNCHANGED <<out, alias, records, job, undone, inherited>>
  BY DEF Patch, Reverse, Apply, At, Step, history
<1>6. WriteRecord => /\ pc = "record" /\ pc' = "idle"
                     /\ UNCHANGED <<text, out, alias, undone>>
  BY DEF WriteRecord, trees
<1>7. Compile => /\ pc = "compile" /\ (UNCHANGED job \/ pc' = "idle")
                 /\ UNCHANGED <<text, alias, undone, inherited>>
  BY DEF Compile, history
<1>8. CheckInputs => /\ pc = "inputs" /\ pc' = "idle"
                     /\ UNCHANGED <<text, out, alias, undone, inherited>>
  BY DEF CheckInputs, trees, history
<1>9. Refused => /\ pc \in {"compare", "audit"} /\ pc' = "idle"
                 /\ UNCHANGED <<text, out, alias, records, undone, inherited>>
  BY DEF Refused, trees, history
<1>10. RunDies => /\ pc # "idle" /\ pc' = "idle"
                  /\ UNCHANGED <<out, alias, undone, inherited>>
                  /\ UNCHANGED records \/ (pc = "sync" /\ Leave(JobTree))
  BY DEF RunDies, history
<1>11. ASSUME NEW r, NEW c, NEW k,
              PrepareNative(r) \/ Build(r) \/ Retry(r, c) \/ Seed(r, c, k)
       PROVE  /\ pc = "idle"
              /\ UNCHANGED <<text, out, alias, records, undone, inherited>>
  BY <1>11 DEF PrepareNative, Build, Retry, Seed, Start, trees, history
<1>12. ASSUME NEW r, PrepareNative(r) PROVE UNCHANGED <<pc, job>>
  BY <1>12 DEF PrepareNative, run
<1>13. CloneTrees => pc = "idle" /\ UNCHANGED <<records, pc, job, inherited>>
  BY DEF CloneTrees, run
<1>14. ASSUME NEW t, DeveloperBuilds(t)
       PROVE  /\ pc = "idle"
              /\ UNCHANGED <<text, alias, records, pc, job, undone, inherited>>
  BY <1>14 DEF DeveloperBuilds, run, history
<1>15. ASSUME NEW t, NEW i, DeveloperEdits(t, i) \/ DeveloperUndoes(t, i)
       PROVE  UNCHANGED <<out, alias, records, pc, job, inherited>>
  BY <1>15 DEF DeveloperEdits, DeveloperUndoes, Edit, run
<1> QED BY <1>1, <1>2, <1>3, <1>4, <1>5, <1>6, <1>7, <1>8, <1>9, <1>10, <1>11,
           <1>12, <1>13, <1>14, <1>15

LEMMA TextStep ==
  ASSUME TreesTyped, RunTyped, [Next]_vars
  PROVE  \/ UNCHANGED <<text, undone>> \/ ToolWrites \/ CloneTrees \/ DeveloperChanges
<1>1. ASSUME Sync PROVE ToolWrites
  <2>1. Device \in SUBSET Item BY DEF Item
  <2> QED BY <1>1, <2>1, ToolWritesFrozen DEF Sync, Step, history
<1>2. ASSUME Patch PROVE ToolWrites
  <2>1. Brings \in SUBSET Item /\ Brings \cap Device = {}
    BY RetryAssumption DEF Brings, Item
  <2>2. /\ pc = "compare" /\ Write(JobTree, Frozen(Brings, job.commit))
        /\ Absent(Brings) /\ UNCHANGED <<out, alias, records, undone, backdated>>
    BY <1>2 DEF Patch, At, Step, history
  <2> QED BY <2>1, <2>2, ToolWritesFrozen
<1>3. ASSUME Reverse PROVE ToolWrites
  <2> DEFINE old == {i \in Repatched : Content[Base.commit][i] # None}
             gone == [i \in old |-> None]
  <2>1. /\ pc = "reverse" /\ Write(JobTree, gone)
        /\ UNCHANGED <<out, alias, records, undone, backdated>>
    BY <1>3 DEF Reverse, At, Step, history
  <2>2. /\ DOMAIN gone \subseteq Item /\ \A i \in DOMAIN gone : gone[i] \in Texts
        /\ Device \cap DOMAIN gone = {} /\ DOMAIN gone \subseteq Repatched
    BY RetryAssumption DEF Item, Texts
  <2> HIDE DEF gone
  <2> QED BY <2>1, <2>2 DEF ToolWrites
<1>4. ASSUME Apply PROVE ToolWrites
  <2>1. Repatched \in SUBSET Item /\ Repatched \cap Device = {}
    BY RetryAssumption DEF Item
  <2> QED BY <1>4, <2>1, ToolWritesFrozen DEF Apply, At, Step, history
<1>5. ASSUME NEW t \in Tree, NEW d \in Device, DeveloperEdits(t, d)
      PROVE  DeveloperChanges
  <2>1. /\ text' = [text EXCEPT ![t][d] = Experiment]
        /\ UNCHANGED <<out, alias, records, pc, job, undone>>
    BY <1>5 DEF DeveloperEdits, Edit, run
  <2>2. Experiment \in Texts \ {None} BY ExperimentAssumption DEF Texts
  <2> QED BY <2>1, <2>2 DEF DeveloperChanges
<1>6. ASSUME NEW t \in Tree, NEW d \in Device, DeveloperUndoes(t, d)
      PROVE  DeveloperChanges
  <2>1. PICK r \in DOMAIN records :
          /\ Content[records[r].commit][d] # None
          /\ text' = [text EXCEPT ![t][d] = Content[records[r].commit][d]]
          /\ UNCHANGED <<out, alias, records, pc, job>>
          /\ undone' = undone \cup {<<t, d>>}
    BY <1>6 DEF DeveloperUndoes, Edit, run
  <2>2. records[r] \in Record
    <3> HIDE DEF Record
    <3> QED BY ElementOfSeq DEF RunTyped
  <2>3. Content[records[r].commit][d] \in Texts
    BY <2>2, RetryAssumption DEF Record, Item
  <2>4. <<t, d>> \in undone' /\ undone \subseteq undone' BY <2>1
  <2> DEFINE new == Content[records[r].commit][d]
  <2>5. new \in Texts \ {None} /\ text' = [text EXCEPT ![t][d] = new]
    BY <2>1, <2>3
  <2> HIDE DEF new
  <2> QED BY <2>1, <2>4, <2>5 DEF DeveloperChanges
<1>7. ASSUME RunDies PROVE UNCHANGED <<text, undone>> \/ ToolWrites
  <2>1. /\ UNCHANGED <<out, alias, undone, backdated>>
        /\ \/ UNCHANGED text
           \/ /\ pc = "sync" /\ Leave(JobTree)
              /\ \E items \in SUBSET Device :
                   Write(JobTree, Frozen(items, job.commit))
           \/ /\ pc = "compare" /\ UNCHANGED records
              /\ \E items \in SUBSET Brings :
                   Absent(items) /\ Write(JobTree, Frozen(items, job.commit))
    BY <1>7 DEF RunDies, history
  <2>2. ASSUME pc = "sync", Leave(JobTree), NEW items \in SUBSET Device,
               Write(JobTree, Frozen(items, job.commit))
        PROVE  ToolWrites
    <3>1. items \in SUBSET Item BY DEF Item
    <3> QED BY <2>1, <2>2, <3>1, ToolWritesFrozen
  <2>3. ASSUME pc = "compare", UNCHANGED records, NEW items \in SUBSET Brings,
               Absent(items), Write(JobTree, Frozen(items, job.commit))
        PROVE  ToolWrites
    <3>1. items \in SUBSET Item /\ items \cap Device = {}
      BY RetryAssumption DEF Brings, Item
    <3> QED BY <2>1, <2>3, <3>1, ToolWritesFrozen
  <2> QED BY <2>1, <2>2, <2>3
<1>8. \/ UNCHANGED <<text, undone>>
      \/ Sync \/ Patch \/ Reverse \/ Apply \/ CloneTrees \/ RunDies
      \/ \E t \in Tree, d \in Device : DeveloperEdits(t, d) \/ DeveloperUndoes(t, d)
  BY Frames DEF Next, Steps, Operator, Developers, vars, trees, run, history
<1> QED BY <1>1, <1>2, <1>3, <1>4, <1>5, <1>6, <1>7, <1>8

(* Outputs are made of what is in the tree, and files are not removed. *)
Frame(t) ==
  /\ undone \subseteq undone' /\ inherited \subseteq inherited'
  /\ \A i \in Item : \/ out'[t][i] = out[t][i]
                     \/ out'[t][i] = text[t][i] /\ text'[t][i] = text[t][i]
  /\ \A i \in Device : text'[t][i] = None => text[t][i] = None

LEMMA OutStep ==
  ASSUME TreesTyped, RunTyped, [Next]_vars, ~CloneTrees
  PROVE  \/ UNCHANGED out
         \/ /\ UNCHANGED <<text, undone>>
            /\ \A u \in Tree, i \in Item : out'[u][i] \in {out[u][i], text[u][i]}
<1>1. ASSUME NEW t \in Tree, NEW items, Make(t, items)
      PROVE  \A u \in Tree, i \in Item : out'[u][i] \in {out[u][i], text[u][i]}
  BY <1>1, MakeFacts
<1>2. CASE Compile
  <2>1. pc # "idle" /\ UNCHANGED <<text, undone>> /\ \E items : Make(JobTree, items)
    BY <1>2 DEF Compile, history
  <2> QED BY <1>1, <2>1, JobFacts
<1>3. ASSUME NEW t \in Tree, DeveloperBuilds(t)
      PROVE  /\ UNCHANGED <<text, undone>>
             /\ \A u \in Tree, i \in Item : out'[u][i] \in {out[u][i], text[u][i]}
  BY <1>1, <1>3 DEF DeveloperBuilds, history
<1>4. UNCHANGED out \/ Compile \/ \E t \in Tree : DeveloperBuilds(t)
  BY Frames DEF Next, Steps, Operator, Developers, vars, trees, run, history
<1> QED BY <1>2, <1>3, <1>4

LEMMA InheritedGrows == [Next]_vars => inherited \subseteq inherited'
<1> SUFFICES ASSUME [Next]_vars PROVE inherited \subseteq inherited'
  OBVIOUS
<1>1. CASE WriteRecord BY <1>1 DEF WriteRecord
<1>2. WriteRecord \/ UNCHANGED inherited
  BY Frames DEF Next, Steps, Operator, Developers, vars, trees, run, history
<1> QED BY <1>1, <1>2

LEMMA FrameStep ==
  ASSUME TreesTyped, RunTyped, [Next]_vars, NEW t \in Tree,
         CloneTrees => t = "original"
  PROVE  Frame(t)
<1>0. inherited \subseteq inherited' BY InheritedGrows
<1>1. CASE CloneTrees
  <2> DEFINE copied(f) == [f EXCEPT !["clone"] = f["original"]]
  <2>1. /\ text' = copied(text) /\ out' = copied(out) /\ t = "original"
        /\ undone' = undone \cup {<<"clone", p[2]>> : p \in undone}
    BY <1>1 DEF CloneTrees
  <2>2. text'[t] = text[t] /\ out'[t] = out[t] BY <2>1 DEF TreesTyped, Tree
  <2>3. undone \subseteq undone' BY <2>1
  <2> QED BY <1>0, <2>2, <2>3 DEF Frame
<1>2. CASE ~CloneTrees
  <2>1. undone \subseteq undone'
    BY <1>2, TextStep DEF ToolWrites, DeveloperChanges
  <2>2. \A i \in Item : \/ out'[t][i] = out[t][i]
                        \/ out'[t][i] = text[t][i] /\ text'[t][i] = text[t][i]
    BY <1>2, OutStep
  <2>3. ASSUME NEW i \in Device, text'[t][i] = None PROVE text[t][i] = None
    <3>0. i \in Item BY DEF Item
    <3>1. CASE ToolWrites
      <4>1. PICK new : /\ pc # "idle" /\ DOMAIN new \subseteq Item
                       /\ Write(JobTree, new)
                       /\ \A j \in Device \cap DOMAIN new : new[j] # None
        BY <3>1 DEF ToolWrites
      <4>2. text'[t][i] = IF t = JobTree /\ i \in DOMAIN new THEN new[i] ELSE text[t][i]
        BY <3>0, <4>1, JobFacts, WriteText
      <4> QED BY <2>3, <4>1, <4>2
    <3>2. CASE DeveloperChanges
      <4>1. PICK u \in Tree, d \in Device, new \in Texts \ {None} :
              text' = [text EXCEPT ![u][d] = new]
        BY <3>2 DEF DeveloperChanges
      <4>2. CASE u = t /\ d = i
        <5>1. text'[t][i] = new BY <3>0, <4>1, <4>2 DEF TreesTyped
        <5> QED BY <2>3, <5>1
      <4>3. CASE ~(u = t /\ d = i)
        BY <2>3, <3>0, <4>1, <4>3 DEF TreesTyped
      <4> QED BY <4>2, <4>3
    <3> QED BY <1>2, <2>3, <3>1, <3>2, TextStep
  <2> QED BY <1>0, <2>1, <2>2, <2>3 DEF Frame
<1> QED BY <1>1, <1>2

LEMMA UnwrittenText ==
  ASSUME TreesTyped, RunTyped, [Next]_vars, NEW t \in Tree,
         CloneTrees => t = "original"
  PROVE  /\ \/ ToolWrites /\ t = JobTree
            \/ \A i \in Upstream : text'[t][i] = text[t][i]
         /\ \/ ToolWrites /\ t = JobTree /\ pc = "sync"
            \/ \A i \in Device : \/ text'[t][i] \in {text[t][i], Experiment}
                                 \/ <<t, i>> \in undone'
<1>1. CASE CloneTrees
  <2>1. text' = [text EXCEPT !["clone"] = text["original"]] /\ t = "original"
    BY <1>1 DEF CloneTrees
  <2>2. text'[t] = text[t] BY <2>1 DEF TreesTyped, Tree
  <2> QED BY <2>2
<1>2. CASE ToolWrites
  <2>1. PICK new : /\ pc # "idle" /\ DOMAIN new \subseteq Item
                   /\ Write(JobTree, new)
                   /\ \A i \in Device \cap DOMAIN new : pc = "sync"
    BY <1>2 DEF ToolWrites
  <2>2. \A i \in Item : t # JobTree \/ i \notin DOMAIN new => text'[t][i] = text[t][i]
    BY <2>1, JobFacts, WriteText
  <2> QED BY <1>2, <2>1, <2>2 DEF Item
<1>3. CASE DeveloperChanges
  <2>1. PICK u \in Tree, d \in Device, new \in Texts \ {None} :
          /\ text' = [text EXCEPT ![u][d] = new]
          /\ new = Experiment \/ <<u, d>> \in undone'
    BY <1>3 DEF DeveloperChanges
  <2>2. ASSUME NEW i \in Item
        PROVE  IF u = t /\ i = d THEN text'[t][i] = new ELSE text'[t][i] = text[t][i]
    BY <2>1, <2>2 DEF TreesTyped
  <2>3. \A i \in Upstream : i \in Item /\ i # d BY RetryAssumption DEF Item
  <2>4. \A i \in Device : i \in Item BY DEF Item
  <2> QED BY <2>1, <2>2, <2>3, <2>4
<1> QED BY <1>1, <1>2, <1>3, TextStep

----------------------------------------------------------------------------
(* The jobs                                                                *)

(* A build changes the record it was started for, and no other. *)
LEMMA CompileFacts ==
  ASSUME RunTyped, Compile
  PROVE  /\ DOMAIN records' = DOMAIN records /\ job.base \in DOMAIN records
         /\ \A k \in DOMAIN records : k # job.base => records'[k] = records[k]
         /\ records'[job.base].tree = Base.tree
         /\ records'[job.base].commit = Base.commit
         /\ records'[job.base].images = Base.images
         /\ records'[job.base].place = Resumed(Base.place)
         /\ \/ records'[job.base].phase = Base.phase /\ pc' = "idle"
            \/ /\ records'[job.base].phase = "checking" /\ pc' = "inputs"
               /\ UNCHANGED job /\ Make(JobTree, Outdated(JobTree))
<1>1. PICK items :
        /\ Make(JobTree, items)
        /\ records' = [records EXCEPT ![job.base].place = Resumed(@),
                         ![job.base].phase = IF items = Outdated(JobTree)
                                             THEN "checking" ELSE @]
        /\ IF items = Outdated(JobTree) THEN pc' = "inputs" /\ UNCHANGED job
                                        ELSE pc' = "idle" /\ job' = None
  BY DEF Compile
<1>2. /\ records \in Seq(Record) /\ job.base \in 1..Len(records)
      /\ DOMAIN records = 1..Len(records)
  BY DEF Compile, RunTyped
<1>3. Base \in Record
  <2> HIDE DEF Record
  <2> QED BY <1>2, ElementOfSeq DEF Base
<1> DEFINE phase == IF items = Outdated(JobTree) THEN "checking" ELSE Base.phase
           new == [Base EXCEPT !.place = Resumed(@), !.phase = phase]
<1>4. records' = [records EXCEPT ![job.base] = new] BY <1>1 DEF Base
<1>5. /\ new.tree = Base.tree /\ new.commit = Base.commit /\ new.images = Base.images
      /\ new.place = Resumed(Base.place) /\ new.phase = phase
  BY <1>3 DEF Record
<1> HIDE DEF new
<1>6. /\ DOMAIN records' = DOMAIN records /\ records'[job.base] = new
      /\ \A k \in DOMAIN records : k # job.base => records'[k] = records[k]
  BY <1>2, <1>4
<1> QED BY <1>1, <1>2, <1>5, <1>6

LEMMA CheckFacts ==
  ASSUME RunTyped, CheckInputs
  PROVE  /\ DOMAIN records' = DOMAIN records /\ job.base \in DOMAIN records
         /\ \A k \in DOMAIN records : k # job.base => records'[k] = records[k]
         /\ records'[job.base].tree = Base.tree
         /\ records'[job.base].commit = Base.commit
         /\ records'[job.base].images = out[JobTree]
         /\ records'[job.base].place = Resumed(Base.place)
         /\ records'[job.base].phase = "finished"
<1>1. records' = [records EXCEPT ![job.base].phase = "finished",
                    ![job.base].place = Resumed(@),
                    ![job.base].images = out[JobTree]]
  BY DEF CheckInputs
<1>2. /\ records \in Seq(Record) /\ job.base \in 1..Len(records)
      /\ DOMAIN records = 1..Len(records)
  BY DEF CheckInputs, RunTyped
<1>3. Base \in Record
  <2> HIDE DEF Record
  <2> QED BY <1>2, ElementOfSeq DEF Base
<1> DEFINE new == [Base EXCEPT !.phase = "finished", !.place = Resumed(@),
                     !.images = out[JobTree]]
<1>4. records' = [records EXCEPT ![job.base] = new] BY <1>1 DEF Base
<1>5. /\ new.tree = Base.tree /\ new.commit = Base.commit
      /\ new.images = out[JobTree]
      /\ new.place = Resumed(Base.place) /\ new.phase = "finished"
  BY <1>3 DEF Record
<1> HIDE DEF new
<1>6. /\ DOMAIN records' = DOMAIN records /\ records'[job.base] = new
      /\ \A k \in DOMAIN records : k # job.base => records'[k] = records[k]
  BY <1>2, <1>4
<1> QED BY <1>2, <1>5, <1>6

(* Which tree and which commit a record is about never changes. *)
LEMMA RecordsKept ==
  ASSUME TreesTyped, RunTyped, [Next]_vars
  PROVE  \A k \in 1..Len(records) :
           /\ k \in DOMAIN records'
           /\ records'[k].tree = records[k].tree
           /\ records'[k].commit = records[k].commit
<1>0. records \in Seq(Record) /\ Len(records) \in Nat BY DEF RunTyped
<1>1. ASSUME pc # "idle", Leave(JobTree)
      PROVE  \A k \in 1..Len(records) : /\ k \in DOMAIN records'
                                        /\ records'[k].tree = records[k].tree
                                        /\ records'[k].commit = records[k].commit
  <2>1. JobTree \in Tree BY <1>1, JobFacts
  <2> HIDE DEF Record
  <2> QED BY <1>0, <1>1, <2>1, LeaveFacts
<1>2. ASSUME WriteRecord
      PROVE  \A k \in 1..Len(records) : k \in DOMAIN records' /\ records'[k] = records[k]
  <2>1. records' = Append(records, NewRecord) BY <1>2 DEF WriteRecord
  <2> HIDE DEF Record
  <2> QED BY <1>0, <2>1
<1>3. ASSUME Compile \/ CheckInputs
      PROVE  \A k \in 1..Len(records) : /\ k \in DOMAIN records'
                                        /\ records'[k].tree = records[k].tree
                                        /\ records'[k].commit = records[k].commit
  <2>1. DOMAIN records = 1..Len(records) BY <1>0
  <2>2. \A k \in DOMAIN records : /\ k \in DOMAIN records'
                                 /\ records'[k].tree = records[k].tree
                                 /\ records'[k].commit = records[k].commit
    BY <1>3, CompileFacts, CheckFacts DEF Base
  <2> QED BY <2>1, <2>2
<1>4. \/ UNCHANGED records
      \/ pc # "idle" /\ Leave(JobTree)
      \/ WriteRecord \/ Compile \/ CheckInputs
  BY Frames DEF Next, Steps, Operator, Developers, vars, trees, run, history
<1>5. CASE UNCHANGED records BY <1>0, <1>5
<1> QED BY <1>0, <1>1, <1>2, <1>3, <1>4, <1>5

(* A tool that goes on keeps its job, its tree and its commits. *)
LEMMA JobKept ==
  ASSUME TreesTyped, RunTyped, [Next]_vars, pc # "idle", pc' # "idle"
  PROVE  /\ job'.kind = job.kind /\ job'.commit = job.commit /\ job'.base = job.base
         /\ JobTree' = JobTree
         /\ Base'.tree = Base.tree /\ Base'.commit = Base.commit
<1>1. job \in Job /\ job.base \in 1..Len(records) BY DEF RunTyped
<1>2. \/ UNCHANGED job
      \/ job' = [job EXCEPT !.times = newer[JobTree], !.rest = Kept]
      \/ \E i : job' = [job EXCEPT !.rest = @ \ {i}, !.compared = i]
      \/ job' = [job EXCEPT !.compared = None]
  <2>1. UNCHANGED job \/ Sync \/ Compare \/ SetBack
    BY Frames DEF Next, Steps, Operator, Developers, vars, trees, run, history
  <2> QED BY <2>1 DEF Sync, Compare, TakeUp, SetBack
<1>3. job'.kind = job.kind /\ job'.commit = job.commit /\ job'.base = job.base
  BY <1>1, <1>2 DEF Job
<1>4. Base'.tree = Base.tree /\ Base'.commit = Base.commit
  BY <1>1, <1>3, RecordsKept DEF Base
<1> QED BY <1>3, <1>4 DEF JobTree

LEMMA JobSoundStep ==
  ASSUME TreesTyped, RunTyped, [Next]_vars, JobSound
  PROVE  JobSound'
<1>0. records \in Seq(Record) /\ DOMAIN records = 1..Len(records)
  BY DEF RunTyped
<1>1. ASSUME NoClone, ~WriteRecord \/ JobTree = "original" PROVE NoClone'
  <2>1. \A k \in 1..Len(records) : records'[k].tree = "original"
    BY <1>0, <1>1, RecordsKept DEF NoClone
  <2>2. CASE DOMAIN records' = DOMAIN records BY <1>0, <2>1, <2>2 DEF NoClone
  <2>3. CASE WriteRecord
    <3>1. records' = Append(records, NewRecord) /\ pc # "idle" BY <2>3 DEF WriteRecord
    <3>2. NewRecord \in Record /\ NewRecord.tree = "original"
      BY <1>1, <2>3, <3>1, NewRecordTyped DEF NewRecord
    <3> HIDE DEF Record
    <3>3. /\ DOMAIN records' = 1..Len(records) + 1
          /\ records'[Len(records) + 1] = NewRecord
      BY <1>0, <3>1, <3>2
    <3>4. \A k \in 1..Len(records) + 1 : k \in 1..Len(records) \/ k = Len(records) + 1
      BY <1>0
    <3> QED BY <2>1, <3>2, <3>3, <3>4 DEF NoClone
  <2>4. DOMAIN records' = DOMAIN records \/ WriteRecord
    <3>1. \/ UNCHANGED records \/ Leave(JobTree)
          \/ WriteRecord \/ Compile \/ CheckInputs
      BY Frames DEF Next, Steps, Operator, Developers, vars, trees, run, history
    <3> QED BY <3>1 DEF Leave, Compile, CheckInputs
  <2> QED BY <2>2, <2>3, <2>4
<1>2. alias' # "clone" => NoClone'
  <2>1. SUFFICES ASSUME alias' # "clone" PROVE NoClone'
    OBVIOUS
  <2>2. alias # "clone"
    <3>1. UNCHANGED alias \/ Relink \/ CloneTrees
      BY Frames DEF Next, Steps, Operator, Developers, vars, trees, run, history
    <3> QED BY <2>1, <3>1 DEF Relink, CloneTrees
  <2>3. NoClone BY <2>2 DEF JobSound
  <2>4. ASSUME WriteRecord PROVE JobTree = "original"
    <3>1. pc = "record" BY <2>4 DEF WriteRecord
    <3>2. job.kind # "seed" BY <2>2, <3>1 DEF JobSound
    <3>3. Base.tree = "original" BY <1>0, <2>3, <3>1 DEF NoClone, RunTyped, Base
    <3> QED BY <3>2, <3>3 DEF JobTree
  <2> QED BY <1>1, <2>3, <2>4
<1>3. ASSUME pc' # "idle", job'.kind = "seed"
      PROVE  NoClone' /\ (pc' # "link" => alias' = "clone")
  <2>1. ~WriteRecord BY <1>3 DEF WriteRecord
  <2>2. CASE pc = "idle"
    <3>1. PICK r \in DOMAIN records, c \in Commit, k \in Kernel : Seed(r, c, k)
      <4>1. \/ UNCHANGED pc
            \/ \E r \in DOMAIN records :
                 \/ Build(r)
                 \/ \E c \in Commit : Retry(r, c) \/ \E k \in Kernel : Seed(r, c, k)
        BY <2>2 DEF Next, Steps, Operator, Developers, vars, run, Relink, Sync, At,
           Step, Compare, SetBack, Patch, Reverse, Apply, AuditIntegration, Refused,
           PrepareNative, CloneTrees, DeveloperBuilds, WriteRecord,
           DeveloperEdits, DeveloperUndoes, Edit, RunDies, Compile, CheckInputs
      <4>2. ASSUME NEW r \in DOMAIN records, Build(r) PROVE job'.kind # "seed"
        BY <4>2 DEF Build, Start
      <4>3. ASSUME NEW r \in DOMAIN records, NEW c \in Commit, Retry(r, c)
            PROVE  job'.kind # "seed"
        BY <4>3 DEF Retry, Start
      <4> QED BY <1>3, <2>2, <4>1, <4>2, <4>3
    <3>2. alias = "original" /\ pc' = "link" BY <3>1 DEF Seed, Start
    <3>3. NoClone BY <3>2 DEF JobSound
    <3> QED BY <1>1, <2>1, <3>2, <3>3
  <2>3. CASE pc # "idle"
    <3>1. job.kind = "seed" BY <1>3, <2>3, JobKept
    <3>2. NoClone BY <2>3, <3>1 DEF JobSound
    <3>3. pc' # "link" => alias' = "clone"
      <4>1. UNCHANGED alias \/ alias' = "clone"
        <5>1. UNCHANGED alias \/ Relink
          BY <2>3, Frames DEF Next, Steps, Operator, Developers, vars, trees
        <5> QED BY <5>1 DEF Relink
      <4>2. CASE pc = "link"
        <5>1. pc' = "link" \/ alias' = "clone"
          BY <1>3, <4>2 DEF Next, Steps, Operator, Developers, vars, trees, run,
             Relink, Sync, At, Step, Compare, SetBack, Patch, Reverse, Apply,
             AuditIntegration, Refused, PrepareNative, CloneTrees, DeveloperBuilds,
             WriteRecord, Build, Start, Retry, Seed, DeveloperEdits,
             DeveloperUndoes, Edit, RunDies, Compile, CheckInputs
        <5> QED BY <5>1
      <4>3. CASE pc # "link"
        <5>1. alias = "clone" BY <2>3, <3>1, <4>3 DEF JobSound
        <5> QED BY <4>1, <5>1
      <4> QED BY <4>2, <4>3
    <3> QED BY <1>1, <2>1, <3>2, <3>3
  <2> QED BY <2>2, <2>3
<1>4. ASSUME pc' \in {"compile", "inputs"}
      PROVE  job'.kind = "build" /\ (pc' = "inputs" => Base'.phase = "checking")
  <2>1. CASE UNCHANGED <<pc, job, records>>
    BY <1>4, <2>1 DEF JobSound, Base
  <2>2. ASSUME NEW r \in DOMAIN records, Build(r)
        PROVE  job'.kind = "build" /\ (pc' = "inputs" => Base'.phase = "checking")
    <3>1. /\ records[r].phase \in {"building", "checking"}
          /\ pc' = (IF records[r].phase = "building" THEN "compile" ELSE "inputs")
          /\ job' = [kind |-> "build", base |-> r, commit |-> records[r].commit,
                     kernel |-> records[r].kernel, times |-> [i \in Item |-> TRUE],
                     rest |-> {}, compared |-> None]
          /\ records' = records
      BY <2>2 DEF Build, Start
    <3>2. Base' = records[r] BY <3>1 DEF Base
    <3> QED BY <3>1, <3>2
  <2>3. CASE Compile
    <3>1. /\ pc = "compile" /\ UNCHANGED job
          /\ records'[job.base].phase = "checking"
      BY <1>4, <2>3, CompileFacts DEF Compile
    <3> QED BY <3>1 DEF JobSound, Base
  <2>4. \/ UNCHANGED <<pc, job, records>> \/ Compile
        \/ \E r \in DOMAIN records : Build(r)
    <3>1. ~(Relink \/ Sync \/ Compare \/ SetBack \/ Patch \/ Reverse \/ Apply
            \/ AuditIntegration \/ WriteRecord \/ CheckInputs \/ Refused \/ RunDies)
      BY <1>4 DEF Relink, Sync, Compare, SetBack, Patch, Reverse, Apply,
         AuditIntegration, At, Step, WriteRecord, CheckInputs, Refused, RunDies
    <3>2. ASSUME NEW r \in DOMAIN records
          PROVE  \A c \in Commit : ~Retry(r, c) /\ \A k \in Kernel : ~Seed(r, c, k)
      BY <1>4 DEF Retry, Seed, Start
    <3> QED BY <3>1, <3>2 DEF Next, Steps, Operator, Developers, vars, run,
               PrepareNative, CloneTrees, DeveloperBuilds, DeveloperEdits,
               DeveloperUndoes, Edit
  <2> QED BY <2>1, <2>2, <2>3, <2>4
<1>5. ASSUME pc' = "record" PROVE UpstreamAudited(JobTree, job.commit)'
  <2>1. pc \in {"audit", "record"} /\ ~CloneTrees /\ ~ToolWrites
    BY <1>5 DEF Next, Steps, Operator, Developers, vars, run, Relink, Sync, At,
       Step, Compare, SetBack, Patch, Reverse, Apply, AuditIntegration, Refused,
       PrepareNative, CloneTrees, DeveloperBuilds, WriteRecord, Build,
       DeveloperEdits, DeveloperUndoes, Edit, RunDies, CheckInputs, Compile,
       Retry, Seed, Start, ToolWrites
  <2>2. JobTree' = JobTree /\ job'.commit = job.commit /\ JobTree \in Tree
    BY <1>5, <2>1, JobKept, JobFacts
  <2>3. UpstreamAudited(JobTree, job.commit)
    <3>1. CASE pc = "record" BY <3>1 DEF JobSound
    <3>2. CASE pc = "audit"
      <4>1. AuditIntegration
        BY <1>5, <3>2 DEF Next, Steps, Operator, Developers, vars, run, Relink, Sync,
           At, Step, Compare, SetBack, Patch, Reverse, Apply, Refused,
           PrepareNative, CloneTrees, DeveloperBuilds, WriteRecord, Build,
           DeveloperEdits, DeveloperUndoes, Edit, RunDies, CheckInputs, Compile,
           Retry, Seed, Start
      <4> QED BY <4>1 DEF AuditIntegration
    <3> QED BY <2>1, <3>1, <3>2
  <2>4. \A i \in Upstream : text'[JobTree][i] = text[JobTree][i]
    BY <2>1, <2>2, UnwrittenText
  <2> QED BY <2>2, <2>3, <2>4 DEF UpstreamAudited
<1>6. ASSUME pc' \in Ongoing
      PROVE  /\ job'.kind # "build"
             /\ job'.kind = "retry" => <<Base'.commit, job'.commit>> \in Reviewed
             /\ pc' = "link" => alias' = "original"
             /\ pc' \in {"reverse", "apply"} => job'.kind = "seed"
  <2>1. CASE pc \in Ongoing
    <3>1. pc # "idle" /\ pc' # "idle" BY <1>6, <2>1 DEF Ongoing
    <3>2. /\ job'.kind = job.kind /\ job'.commit = job.commit
          /\ Base'.commit = Base.commit
      BY <3>1, JobKept
    <3>3. CASE UNCHANGED <<pc, alias>> BY <2>1, <3>2, <3>3 DEF JobSound
    <3>4. CASE Sync
      <4>1. pc = "sync" /\ pc' = IF job.kind = "retry" THEN "compare" ELSE "reverse"
        BY <3>4 DEF Sync, Step
      <4>2. job.kind \in {"retry", "seed", "build"} BY <3>1, JobFacts DEF Job
      <4> QED BY <2>1, <3>2, <4>1, <4>2 DEF JobSound
    <3>5. CASE /\ pc' \notin {"link", "reverse"}
               /\ pc' = "apply" => pc = "reverse"
      BY <2>1, <3>2, <3>5 DEF JobSound
    <3>6. \/ UNCHANGED <<pc, alias>> \/ Sync
          \/ pc' \notin {"link", "reverse"} /\ (pc' = "apply" => pc = "reverse")
      <4>1. ASSUME \/ Relink \/ Compare \/ SetBack \/ Patch \/ Reverse \/ Apply
                   \/ AuditIntegration \/ WriteRecord \/ Compile \/ CheckInputs
                   \/ Refused \/ RunDies
            PROVE  pc' \notin {"link", "reverse"} /\ (pc' = "apply" => pc = "reverse")
        BY <4>1 DEF Relink, Compare, SetBack, Patch, Reverse, Apply,
           AuditIntegration, At, Step, WriteRecord, Compile, CheckInputs, Refused,
           RunDies
      <4>2. ASSUME NEW r \in DOMAIN records
            PROVE  /\ ~Build(r) /\ ~PrepareNative(r)
                   /\ \A c \in Commit : ~Retry(r, c) /\ \A l \in Kernel : ~Seed(r, c, l)
        BY <3>1 DEF Build, Retry, Seed, Start, PrepareNative
      <4>3. ~CloneTrees BY <3>1 DEF CloneTrees
      <4> QED BY <4>1, <4>2, <4>3 DEF Next, Steps, Operator, Developers, vars, run,
                 trees, DeveloperBuilds, DeveloperEdits, DeveloperUndoes, Edit
    <3> QED BY <3>3, <3>4, <3>5, <3>6
  <2>2. ASSUME NEW r \in DOMAIN records, NEW c \in Commit, Retry(r, c)
        PROVE  /\ job'.kind = "retry" /\ pc' = "sync"
               /\ <<Base'.commit, job'.commit>> \in Reviewed
    <3>1. /\ <<records[r].commit, c>> \in Reviewed /\ records' = records
          /\ job'.kind = "retry" /\ job'.base = r /\ job'.commit = c /\ pc' = "sync"
      BY <2>2 DEF Retry, Start
    <3> QED BY <3>1 DEF Base
  <2>3. ASSUME NEW r \in DOMAIN records, NEW c \in Commit, NEW l \in Kernel, Seed(r, c, l)
        PROVE  job'.kind = "seed" /\ alias' = "original" /\ pc' = "link"
    BY <2>3 DEF Seed, Start, trees
  <2>4. \/ pc \in Ongoing
        \/ \E r \in DOMAIN records, c \in Commit :
             Retry(r, c) \/ \E l \in Kernel : Seed(r, c, l)
    <3>1. ASSUME Relink \/ Sync \/ Compare \/ SetBack \/ Patch \/ Reverse \/ Apply
                 \/ AuditIntegration
          PROVE  pc \in Ongoing
      BY <3>1 DEF Ongoing, Relink, Sync, Compare, SetBack, Patch, Reverse, Apply,
         AuditIntegration, At, Step
    <3>2. ~(WriteRecord \/ Compile \/ CheckInputs \/ Refused \/ RunDies)
      BY <1>6 DEF Ongoing, WriteRecord, Compile, CheckInputs, Refused, RunDies
    <3>3. ASSUME NEW r \in DOMAIN records PROVE ~Build(r)
      BY <1>6 DEF Ongoing, Build, Start
    <3>4. ASSUME UNCHANGED pc PROVE pc \in Ongoing BY <1>6, <3>4
    <3> QED BY <3>1, <3>2, <3>3, <3>4 DEF Next, Steps, Operator, Developers, vars,
               run, PrepareNative, CloneTrees, DeveloperBuilds, DeveloperEdits,
               DeveloperUndoes, Edit
  <2> QED BY <2>1, <2>2, <2>3, <2>4
<1>7. /\ pc' = "link" => alias' = "original"
      /\ pc' \in {"reverse", "apply"} => job'.kind = "seed"
  BY <1>6 DEF Ongoing
<1> QED BY <1>2, <1>3, <1>4, <1>5, <1>6, <1>7 DEF JobSound

LEMMA DerivedKept ==
  ASSUME NEW t, NEW c, Derived(t, c), undone \subseteq undone',
         \A i \in Device : \/ text'[t][i] \in {text[t][i], Experiment}
                           \/ <<t, i>> \in undone'
  PROVE  Derived(t, c)'
BY DEF Derived

(* From the synchronisation of a run to its record, the device files are   *)
(* those it has copied, and the tree has no record of its own.             *)
LEMMA SyncedStep ==
  ASSUME TreesTyped, RunTyped, [Next]_vars, Synced
  PROVE  Synced'
<1> SUFFICES ASSUME pc' \in AfterSync
             PROVE  /\ Derived(JobTree, job.commit)'
                    /\ \A k \in DOMAIN records' :
                         records'[k].place = "current" => records'[k].tree # JobTree'
  BY DEF Synced
<1>1. pc' # "idle" /\ pc' # "link" BY DEF AfterSync
<1>2. pc # "idle" /\ (pc \in AfterSync \/ Sync)
  <2>1. ~(Relink \/ WriteRecord \/ Compile \/ CheckInputs \/ Refused \/ RunDies)
    BY DEF AfterSync, Relink, At, Step, WriteRecord, Compile, CheckInputs, Refused,
       RunDies
  <2>2. ASSUME NEW r \in DOMAIN records
        PROVE  ~Build(r) /\ \A c \in Commit : /\ ~Retry(r, c)
                                              /\ \A k \in Kernel : ~Seed(r, c, k)
    BY DEF AfterSync, Build, Retry, Seed, Start
  <2>3. ASSUME Compare \/ SetBack \/ Patch \/ Reverse \/ Apply \/ AuditIntegration
        PROVE  pc \in AfterSync
    BY <2>3 DEF AfterSync, Compare, SetBack, Patch, Reverse, Apply, AuditIntegration,
       At, Step
  <2>4. ASSUME UNCHANGED pc PROVE pc \in AfterSync BY <2>4
  <2>5. pc \in AfterSync \/ Sync
    BY <2>1, <2>2, <2>3, <2>4 DEF Next, Steps, Operator, Developers, vars, run,
       PrepareNative, CloneTrees, DeveloperBuilds, DeveloperEdits,
       DeveloperUndoes, Edit
  <2>6. ASSUME Sync PROVE pc # "idle" BY <2>6 DEF Sync, Step
  <2> QED BY <2>5, <2>6 DEF AfterSync
<1>3. /\ JobTree' = JobTree /\ job'.commit = job.commit /\ JobTree \in Tree
      /\ job.commit \in Commit
  BY <1>1, <1>2, JobKept, JobFacts
<1>4. ~CloneTrees BY <1>2 DEF CloneTrees
<1>5. SUFFICES ASSUME NEW t, t = JobTree, NEW c, c = job.commit
               PROVE  /\ Derived(t, c)'
                      /\ \A k \in DOMAIN records' :
                           records'[k].place = "current" => records'[k].tree # t
  BY <1>3 DEF Derived
<1>6. CASE pc \in AfterSync
  <2>1. UNCHANGED records
    <3>1. \/ UNCHANGED records \/ pc \in {"sync", "record", "compile", "inputs"}
      BY Frames DEF Next, Steps, Operator, Developers, vars, trees, run, history
    <3>2. ~WriteRecord BY <1>1 DEF WriteRecord
    <3>3. ASSUME pc = "record" PROVE UNCHANGED records
      BY <3>2, <3>3 DEF Next, Steps, Operator, Developers, vars, Relink, Sync, At,
         Step, Compare, SetBack, Patch, Reverse, Apply, AuditIntegration, Refused,
         PrepareNative, Build, Start, Retry, Seed, CloneTrees, DeveloperBuilds,
         DeveloperEdits, DeveloperUndoes, Edit, RunDies, Compile, CheckInputs
    <3> QED BY <1>6, <3>1, <3>3 DEF AfterSync
  <2>2. /\ Derived(t, c)
        /\ \A k \in DOMAIN records :
             records[k].place = "current" => records[k].tree # t
    BY <1>5, <1>6 DEF Synced
  <2>3. \A i \in Device : \/ text'[t][i] \in {text[t][i], Experiment}
                          \/ <<t, i>> \in undone'
    BY <1>3, <1>4, <1>5, <1>6, UnwrittenText DEF AfterSync
  <2>4. undone \subseteq undone' BY <1>3, <1>4, FrameStep DEF Frame
  <2>5. Derived(t, c)' BY <2>2, <2>3, <2>4, DerivedKept
  <2> QED BY <2>1, <2>2, <2>5
<1>7. CASE Sync
  <2>1. /\ Leave(t) /\ Write(t, Frozen(Device, c)) /\ t \in Tree /\ c \in Commit
    BY <1>3, <1>5, <1>7 DEF Sync
  <2>2. ASSUME NEW i \in Device PROVE Content[c][i] \in {None, text'[t][i]}
    <3> DEFINE new == Frozen(Device, c)
    <3>1. DOMAIN new \subseteq Item /\ i \in Item BY <2>1, FrozenFacts DEF Item
    <3>2. Content[c][i] # None => i \in DOMAIN new /\ new[i] = Content[c][i]
      BY DEF Frozen
    <3> HIDE DEF new
    <3>3. i \in DOMAIN new => text'[t][i] = new[i]
      <4>1. Write(t, new) BY <2>1 DEF new
      <4> QED BY <2>1, <3>1, <4>1, WriteText
    <3> QED BY <3>2, <3>3
  <2>3. Derived(t, c)' BY <2>2 DEF Derived
  <2>4. ASSUME NEW k \in DOMAIN records', records'[k].place = "current"
        PROVE  records'[k].tree # t
    <3>1. records' = [r \in DOMAIN records |->
                        IF records[r].tree = t /\ records[r].place = "current"
                        THEN [records[r] EXCEPT !.place = "left"] ELSE records[r]]
      BY <2>1 DEF Leave
    <3>2. k \in DOMAIN records BY <3>1
    <3>3. records[k] \in Record
      <4> HIDE DEF Record
      <4> QED BY <3>2, ElementOfSeq DEF RunTyped
    <3>4. ~(records[k].tree = t /\ records[k].place = "current")
      <4>1. SUFFICES ASSUME records[k].tree = t, records[k].place = "current"
                     PROVE  FALSE
        OBVIOUS
      <4>2. records'[k] = [records[k] EXCEPT !.place = "left"]
        BY <3>1, <3>2, <4>1
      <4> QED BY <2>4, <3>3, <4>2 DEF Record
    <3>5. records'[k] = records[k] BY <3>1, <3>2, <3>4
    <3> QED BY <2>4, <3>4, <3>5
  <2> QED BY <2>3, <2>4
<1> QED BY <1>2, <1>6, <1>7

LEMMA NothingStep ==
  ASSUME TreesTyped, RunTyped, [Next]_vars, NothingBuiltOfNothing
  PROVE  NothingBuiltOfNothing'
<1> SUFFICES ASSUME NEW t \in Tree, NEW i \in Device, text'[t][i] = None
             PROVE  out'[t][i] = None
  BY DEF NothingBuiltOfNothing
<1>0. i \in Item BY DEF Item
<1>1. CASE CloneTrees /\ t = "clone"
  <2>1. /\ text' = [text EXCEPT !["clone"] = text["original"]]
        /\ out' = [out EXCEPT !["clone"] = out["original"]]
    BY <1>1 DEF CloneTrees
  <2>2. text'[t] = text["original"] /\ out'[t] = out["original"] /\ "original" \in Tree
    BY <1>1, <2>1 DEF TreesTyped, Tree
  <2> QED BY <2>2 DEF NothingBuiltOfNothing
<1>2. CASE CloneTrees => t = "original"
  <2>1. Frame(t) BY <1>2, FrameStep
  <2> QED BY <1>0, <2>1 DEF Frame, NothingBuiltOfNothing
<1> QED BY <1>1, <1>2 DEF Tree

----------------------------------------------------------------------------
(* The records                                                             *)

LEMMA RecordStep ==
  ASSUME TreesTyped, RunTyped, [Next]_vars, NEW k \in DOMAIN records'
  PROVE  \/ k \in DOMAIN records /\ records'[k] = records[k]
         \/ /\ k \in DOMAIN records /\ pc = "sync" /\ pc' # "sync"
            /\ records[k].tree = JobTree /\ records[k].place = "current"
            /\ records'[k] = [records[k] EXCEPT !.place = "left"]
         \/ WriteRecord /\ records'[k] = NewRecord
         \/ k = job.base /\ (Compile \/ CheckInputs)
<1>1. CASE UNCHANGED records BY <1>1
<1>2. CASE pc = "sync" /\ pc' # "sync" /\ Leave(JobTree)
  BY <1>2 DEF Leave
<1>3. CASE WriteRecord
  <2>1. /\ records' = Append(records, NewRecord) /\ pc # "idle"
        /\ records \in Seq(Record)
    BY <1>3 DEF WriteRecord, RunTyped
  <2>2. NewRecord \in Record BY <2>1, NewRecordTyped
  <2> HIDE DEF Record
  <2>3. /\ DOMAIN records' = 1..Len(records) + 1
        /\ records'[Len(records) + 1] = NewRecord
        /\ \A r \in 1..Len(records) : records'[r] = records[r]
        /\ DOMAIN records = 1..Len(records) /\ Len(records) \in Nat
    BY <2>1, <2>2
  <2>4. k \in 1..Len(records) \/ k = Len(records) + 1 BY <2>3
  <2> QED BY <1>3, <2>3, <2>4
<1>4. CASE Compile \/ CheckInputs
  BY <1>4, CompileFacts, CheckFacts
<1>5. \/ UNCHANGED records
      \/ pc = "sync" /\ pc' # "sync" /\ Leave(JobTree)
      \/ WriteRecord \/ Compile \/ CheckInputs
  BY Frames DEF Next, Steps, Operator, Developers, vars, trees, run, history
<1> QED BY <1>1, <1>2, <1>3, <1>4, <1>5

----------------------------------------------------------------------------
(* The upstream files                                                      *)

(* An upstream file is copied, is brought in where there was none, or is   *)
(* one of those that a seed replaces.                                      *)
LEMMA UpstreamWrites ==
  ASSUME TreesTyped, RunTyped, [Next]_vars, NEW t \in Tree, NEW i \in Upstream
  PROVE  \/ text'[t][i] = text[t][i]
         \/ CloneTrees /\ t = "clone"
         \/ /\ pc = "compare" /\ t = JobTree
            /\ i \in Brings /\ text[t][i] = None
         \/ pc \in {"reverse", "apply"} /\ t = JobTree /\ i \in Repatched
<1>1. CASE ToolWrites /\ t = JobTree
  <2>1. PICK new : /\ pc \in {"sync", "compare", "reverse", "apply"} /\ pc # "idle"
                   /\ DOMAIN new \subseteq Item /\ Write(JobTree, new)
                   /\ \A j \in Device \cap DOMAIN new : pc = "sync" /\ new[j] # None
                   /\ \A j \in DOMAIN new :
                        /\ pc = "compare" => j \in Brings /\ text[JobTree][j] = None
                        /\ pc \in {"reverse", "apply"} => j \in Repatched
                        /\ pc = "sync" => j \in Device
    BY <1>1 DEF ToolWrites
  <2>2. i \in Item /\ i \notin Device BY RetryAssumption DEF Item
  <2>3. text'[t][i] = IF i \in DOMAIN new THEN new[i] ELSE text[t][i]
    BY <1>1, <2>1, <2>2, JobFacts, WriteText
  <2> QED BY <1>1, <2>1, <2>2, <2>3
<1>2. CASE ~CloneTrees \/ t = "original"
  BY <1>1, <1>2, UnwrittenText
<1> QED BY <1>2 DEF Tree

LEMMA BringsReviewed ==
  ASSUME RunTyped, JobSound, pc = "compare"
  PROVE  /\ Brings \subseteq Brought /\ job.kind = "retry"
         /\ \A i \in Brings : Content[Base.commit][i] = None
<1>1. job.kind = "retry" BY DEF RunTyped
<1>2. <<Base.commit, job.commit>> \in Reviewed BY <1>1 DEF JobSound, Ongoing
<1>3. Brings \subseteq Brought BY <1>2 DEF Brings, Brought
<1>4. ASSUME NEW i \in Brings PROVE Content[Base.commit][i] = None
  <2>1. Content[Base.commit][i] \in {None, Content[job.commit][i]}
    BY <1>2, RetryAssumption DEF Brings
  <2> QED BY <2>1 DEF Brings, Changed
<1> QED BY <1>1, <1>3, <1>4

LEMMA GrownKept ==
  ASSUME TreesTyped, RunTyped, JobSound, [Next]_vars, NEW t \in Tree, NEW c,
         Grown(t, c), CloneTrees => t = "original",
         pc \in {"reverse", "apply"} => t # JobTree
  PROVE  Grown(t, c)'
<1>1. inherited \subseteq inherited' BY InheritedGrows
<1>2. ASSUME NEW i \in Upstream
      PROVE  \/ text'[t][i] = Content[c][i] \/ <<t, i>> \in inherited'
             \/ i \in Brought /\ Content[c][i] = None
  <2>1. \/ text[t][i] = Content[c][i] \/ <<t, i>> \in inherited
        \/ i \in Brought /\ Content[c][i] = None
    BY DEF Grown
  <2>2. CASE text'[t][i] = text[t][i] BY <1>1, <2>1, <2>2
  <2>3. CASE pc = "compare" /\ i \in Brings /\ text[t][i] = None
    BY <1>1, <2>1, <2>3, BringsReviewed
  <2> QED BY <2>2, <2>3, UpstreamWrites
<1> QED BY <1>2 DEF Grown

(* No patch is missed that has a file of its own, and none that is there. *)
LEMMA AuditFacts ==
  ASSUME NEW t, NEW c, UpstreamAudited(t, c), NEW i \in Upstream
  PROVE  /\ i \in Brought /\ Content[c][i] = None => text[t][i] = None
         /\ text[t][i] = None => Content[c][i] = None
<1>1. \/ text[t][i] = Content[c][i]
      \/ None \notin {text[t][i], Content[c][i]}
      \/ <<i, text[t][i], Content[c][i]>> \in Within
  BY DEF UpstreamAudited
<1>2. ASSUME <<i, text[t][i], Content[c][i]>> \in Within
      PROVE  text[t][i] # None /\ ~(i \in Brought /\ Content[c][i] = None)
  BY <1>2, AuditAssumption
<1> QED BY <1>1, <1>2

(* The last audit, and what the tools have written, make the difference. *)
LEMMA NewIntegrated ==
  ASSUME TreesTyped, HistoryTyped, RunTyped, JobSound, RecordsGrown, CloneText,
         Integrating, WriteRecord, NEW t, t = JobTree, NEW c, c = job.commit
  PROVE  Integrated(t, c)'
<1>1. /\ pc = "record" /\ text' = text
      /\ inherited' = inherited \cup {<<t, i>> : i \in Inherits}
  BY DEF WriteRecord, trees
<1>2. UpstreamAudited(t, c) BY <1>1 DEF JobSound
<1>3. SUFFICES ASSUME NEW i \in Upstream
               PROVE  text[t][i] = Content[c][i] \/ <<t, i>> \in inherited'
  BY <1>1 DEF Integrated
<1>4. CASE job.kind # "seed"
  <2>1. \/ text[t][i] = Content[c][i] \/ <<t, i>> \in inherited
        \/ i \in Brought /\ Content[c][i] = None
    BY <1>1, <1>4 DEF Integrating, Grown
  <2> QED BY <1>1, <1>2, <2>1, AuditFacts
<1>5. CASE job.kind = "seed" /\ i \in Repatched
  BY <1>1, <1>5 DEF Integrating
<1>6. CASE job.kind = "seed" /\ i \in Inherits
  BY <1>1, <1>6
<1>7. CASE job.kind = "seed" /\ i \notin Repatched /\ i \notin Inherits
  <2>1. Content[Base.commit][i] = Content[c][i]
    BY <1>7 DEF Inherits, Changed, Item
  <2>2. t = "clone" /\ alias = "clone" /\ NoClone
    BY <1>1, <1>7 DEF JobTree, JobSound
  <2>3. job.base \in DOMAIN records BY <1>1 DEF RunTyped
  <2>4. Base.tree = "original" /\ Grown(Base.tree, Base.commit)
    BY <2>2, <2>3 DEF NoClone, RecordsGrown, Base
  <2>5. \/ text["original"][i] = Content[c][i]
        \/ i \in Brought /\ Content[c][i] = None
    BY <2>1, <2>4 DEF Grown, HistoryTyped
  <2>6. \/ text[t][i] = text["original"][i]
        \/ i \in Brought /\ text[t][i] = None
    BY <1>7, <2>2 DEF CloneText
  <2> QED BY <1>2, <2>5, <2>6, AuditFacts
<1> QED BY <1>4, <1>5, <1>6, <1>7

LEMMA RecordsGrownStep ==
  ASSUME TreesTyped, HistoryTyped, RunTyped, JobSound, RecordsGrown, CloneText,
         Integrating, [Next]_vars
  PROVE  RecordsGrown'
<1>0. DOMAIN records = 1..Len(records) /\ Len(records) \in Nat BY DEF RunTyped
<1>1. ASSUME NEW k \in DOMAIN records, NEW t, t = records[k].tree,
             NEW c, c = records[k].commit
      PROVE  Grown(t, c)'
  <2>1. records[k] \in Record
    <3> HIDE DEF Record
    <3> QED BY ElementOfSeq DEF RunTyped
  <2>2. t \in Tree BY <1>1, <2>1 DEF Record
  <2>3. Grown(t, c) BY <1>1 DEF RecordsGrown
  <2>4. CloneTrees => t = "original"
    BY <1>1 DEF CloneTrees, JobSound, NoClone
  <2>5. pc \in {"reverse", "apply"} => t # JobTree
    <3>1. SUFFICES ASSUME pc \in {"reverse", "apply"} PROVE t # JobTree
      OBVIOUS
    <3>2. job.kind = "seed" /\ NoClone BY <3>1 DEF JobSound
    <3> QED BY <1>1, <3>2 DEF NoClone, JobTree
  <2> QED BY <2>2, <2>3, <2>4, <2>5, GrownKept
<1>2. ASSUME NEW k \in DOMAIN records', NEW t, t = records'[k].tree,
             NEW c, c = records'[k].commit
      PROVE  Grown(t, c)'
  <2>1. CASE k \in DOMAIN records
    <3>1. t = records[k].tree /\ c = records[k].commit
      BY <1>0, <1>2, <2>1, RecordsKept
    <3> QED BY <1>1, <2>1, <3>1
  <2>2. CASE k \notin DOMAIN records
    <3>1. WriteRecord /\ records'[k] = NewRecord
      <4>1. k = job.base /\ (Compile \/ CheckInputs) => k \in DOMAIN records
        BY CompileFacts, CheckFacts
      <4> QED BY <1>2, <2>2, <4>1, RecordStep
    <3>2. t = JobTree /\ c = job.commit BY <1>2, <3>1 DEF NewRecord
    <3>3. Integrated(t, c)' BY <3>1, <3>2, NewIntegrated
    <3> QED BY <3>3 DEF Integrated, Grown
  <2> QED BY <2>1, <2>2
<1>3. ASSUME NEW k \in DOMAIN records'
      PROVE  Grown(records[k].tree, records[k].commit)'
  <2>1. \A t, c : t = records'[k].tree /\ c = records'[k].commit => Grown(t, c)'
    BY <1>2
  <2> QED BY <2>1 DEF Grown
<1> QED BY <1>3 DEF RecordsGrown

LEMMA CloneTextStep ==
  ASSUME TreesTyped, RunTyped, JobSound, CloneText, [Next]_vars
  PROVE  CloneText'
<1> SUFFICES ASSUME alias' # "absent", NoClone', NEW i \in Upstream \ Repatched
             PROVE  \/ text'["clone"][i] = text'["original"][i]
                    \/ i \in Brought /\ text'["clone"][i] = None
  BY DEF CloneText
<1>0. "clone" \in Tree /\ "original" \in Tree BY DEF Tree
<1>1. CASE CloneTrees
  <2>1. text' = [text EXCEPT !["clone"] = text["original"]] BY <1>1 DEF CloneTrees
  <2>2. text'["clone"] = text["original"] /\ text'["original"] = text["original"]
    BY <1>0, <2>1 DEF TreesTyped
  <2> QED BY <2>2
<1>2. CASE ~CloneTrees
  <2>1. NoClone
    <3>1. DOMAIN records = 1..Len(records) BY DEF RunTyped
    <3> QED BY <3>1, RecordsKept DEF NoClone
  <2>2. alias # "absent"
    <3>1. UNCHANGED alias \/ Relink
      BY <1>2, Frames DEF Next, Steps, Operator, Developers, vars, trees, run, history
    <3>2. Relink => alias = "original" BY DEF Relink, At, Step, JobSound
    <3> QED BY <3>1, <3>2
  <2>3. \/ text["clone"][i] = text["original"][i]
        \/ i \in Brought /\ text["clone"][i] = None
    BY <2>1, <2>2 DEF CloneText
  <2>4. text'["clone"][i] = text["clone"][i]
    <3>1. pc = "compare" => JobTree # "clone"
      <4>1. SUFFICES ASSUME pc = "compare" PROVE JobTree # "clone"
        OBVIOUS
      <4>2. job.kind = "retry" /\ job.base \in DOMAIN records BY <4>1 DEF RunTyped
      <4> QED BY <2>1, <4>2 DEF NoClone, JobTree, Base
    <3> QED BY <1>0, <1>2, <3>1, UpstreamWrites
  <2>5. \/ text'["original"][i] = text["original"][i]
        \/ i \in Brought /\ text["original"][i] = None
    BY <1>0, <1>2, UpstreamWrites, BringsReviewed
  <2> QED BY <2>3, <2>4, <2>5
<1> QED BY <1>1, <1>2

LEMMA IntegratingStep ==
  ASSUME TreesTyped, RunTyped, JobSound, RecordsGrown, Integrating, [Next]_vars
  PROVE  Integrating'
<1> SUFFICES ASSUME pc' \in {"audit", "record"}
             PROVE  IF job'.kind = "seed"
                    THEN \A i \in Repatched :
                           text'[JobTree'][i] = Content[job'.commit][i]
                    ELSE Grown(JobTree, job.commit)'
  BY DEF Integrating
<1>1. pc \in {"audit", "record"} \/ Patch \/ Apply
  <2>1. ~(Relink \/ Sync \/ Compare \/ SetBack \/ Reverse \/ WriteRecord \/ Compile
          \/ CheckInputs \/ Refused \/ RunDies)
    BY DEF Relink, Sync, Compare, SetBack, Reverse, At, Step, WriteRecord, Compile,
       CheckInputs, Refused, RunDies
  <2>2. ASSUME NEW r \in DOMAIN records
        PROVE  ~Build(r) /\ \A c \in Commit : /\ ~Retry(r, c)
                                              /\ \A l \in Kernel : ~Seed(r, c, l)
    BY DEF Build, Retry, Seed, Start
  <2>3. AuditIntegration => pc \in {"audit", "record"}
    BY DEF AuditIntegration, At, Step
  <2>4. ASSUME UNCHANGED pc PROVE pc \in {"audit", "record"} BY <2>4
  <2> QED BY <2>1, <2>2, <2>3, <2>4 DEF Next, Steps, Operator, Developers, vars, run,
             PrepareNative, CloneTrees, DeveloperBuilds, DeveloperEdits,
             DeveloperUndoes, Edit
<1>2. pc # "idle" /\ pc' # "idle" BY <1>1 DEF Patch, Apply, At, Step
<1>3. /\ job'.kind = job.kind /\ job'.commit = job.commit /\ JobTree' = JobTree
      /\ JobTree \in Tree /\ job.commit \in Commit /\ ~CloneTrees
  BY <1>2, JobKept, JobFacts DEF CloneTrees
<1>4. SUFFICES ASSUME NEW t, t = JobTree, NEW c, c = job.commit
               PROVE  IF job.kind = "seed"
                      THEN \A i \in Repatched : text'[t][i] = Content[c][i]
                      ELSE Grown(t, c)'
  BY <1>3 DEF Grown
<1>5. CASE pc \in {"audit", "record"}
  <2>1. \A i \in Upstream : text'[t][i] = text[t][i]
    BY <1>3, <1>4, <1>5, UpstreamWrites
  <2>2. inherited \subseteq inherited' BY InheritedGrows
  <2> QED BY <1>4, <1>5, <2>1, <2>2, RetryAssumption DEF Integrating, Grown
<1>6. CASE Patch
  <2>1. /\ pc = "compare" /\ Write(t, Frozen(Brings, c))
    BY <1>4, <1>6 DEF Patch, At, Step
  <2>2. /\ job.kind = "retry" /\ Brings \subseteq Brought /\ Brings \in SUBSET Item
        /\ \A i \in Brings : Content[Base.commit][i] = None
    BY <2>1, BringsReviewed DEF Brings, Item
  <2>3. job.base \in DOMAIN records BY <2>1 DEF RunTyped
  <2>4. t = Base.tree /\ Grown(Base.tree, Base.commit)
    BY <1>4, <2>2, <2>3 DEF JobTree, RecordsGrown, Base
  <2>5. ASSUME NEW i \in Upstream
        PROVE  \/ text'[t][i] = Content[c][i] \/ <<t, i>> \in inherited'
               \/ i \in Brought /\ Content[c][i] = None
    <3>0. i \in Item BY DEF Item
    <3>1. CASE i \in Brings
      <4>1. Content[c][i] # None
        BY <1>4, <2>2, <3>1 DEF Brings, Changed
      <4>2. i \in DOMAIN Frozen(Brings, c) /\ Frozen(Brings, c)[i] = Content[c][i]
        BY <3>1, <4>1 DEF Frozen
      <4>3. DOMAIN Frozen(Brings, c) \subseteq Item
        BY <1>3, <1>4, <2>2, FrozenFacts
      <4> QED BY <1>3, <1>4, <2>1, <3>0, <4>2, <4>3, WriteText
    <3>2. CASE i \notin Brings
      <4>1. Content[Base.commit][i] = Content[c][i]
        BY <1>4, <3>0, <3>2 DEF Brings, Changed
      <4>2. text'[t][i] = text[t][i]
        BY <1>3, <1>4, <2>1, <3>2, UpstreamWrites
      <4>3. inherited \subseteq inherited' BY InheritedGrows
      <4> QED BY <2>4, <4>1, <4>2, <4>3 DEF Grown
    <3> QED BY <3>1, <3>2
  <2> QED BY <2>2, <2>5 DEF Grown
<1>7. CASE Apply
  <2>1. /\ pc = "apply" /\ Write(t, Frozen(Repatched, c))
        /\ \A i \in Repatched : Content[c][i] # None
    BY <1>4, <1>7 DEF Apply, At, Step
  <2>2. job.kind = "seed" BY <2>1 DEF JobSound
  <2>3. ASSUME NEW i \in Repatched PROVE text'[t][i] = Content[c][i]
    <3>1. i \in Item /\ Repatched \in SUBSET Item BY RetryAssumption DEF Item
    <3>2. i \in DOMAIN Frozen(Repatched, c) /\ Frozen(Repatched, c)[i] = Content[c][i]
      BY <2>1 DEF Frozen
    <3>3. DOMAIN Frozen(Repatched, c) \subseteq Item
      BY <1>3, <1>4, <3>1, FrozenFacts
    <3> QED BY <1>3, <1>4, <2>1, <3>1, <3>2, <3>3, WriteText
  <2> QED BY <2>2, <2>3
<1> QED BY <1>1, <1>5, <1>6, <1>7

----------------------------------------------------------------------------
(* What the records say                                                    *)

LEMMA ClaimedKept ==
  ASSUME NEW r, NEW f, Claimed(r, f), undone \subseteq undone',
         inherited \subseteq inherited'
  PROVE  Claimed(r, f)'
BY DEF Claimed

(* What is made of a tree of the record is made again of what is in it. *)
LEMMA MadeKept ==
  ASSUME NEW r, NEW f, NEW g, Made(r, f), undone \subseteq undone',
         inherited \subseteq inherited',
         Integrated(r.tree, r.commit), Derived(r.tree, r.commit),
         \A i \in Device : \/ text'[r.tree][i] \in {text[r.tree][i], Experiment}
                           \/ <<r.tree, i>> \in undone',
         \A i \in Item : \/ g[i] = f[i]
                         \/ /\ g[i] = text[r.tree][i]
                            /\ text'[r.tree][i] = text[r.tree][i]
  PROVE  Made(r, g)'
<1>1. ASSUME NEW i \in Upstream
      PROVE  g[i] = Content[r.commit][i] \/ <<r.tree, i>> \in inherited'
  BY DEF Made, Integrated, Item
<1>2. ASSUME NEW i \in Device
      PROVE  \/ Content[r.commit][i] \in {None, g[i]}
             \/ text'[r.tree][i] = Experiment \/ <<r.tree, i>> \in undone'
  <2>1. i \in Item BY DEF Item
  <2>2. CASE g[i] = f[i] BY <2>2 DEF Made
  <2>3. CASE g[i] = text[r.tree][i] /\ text'[r.tree][i] = text[r.tree][i]
    BY <2>3 DEF Derived
  <2> QED BY <2>1, <2>2, <2>3
<1> QED BY <1>1, <1>2 DEF Made

Known == /\ TreesTyped /\ HistoryTyped /\ RunTyped /\ IncrementalSound
         /\ JobSound /\ Synced /\ NothingBuiltOfNothing
         /\ RecordsGrown /\ CloneText /\ Integrating

(* The tree of a record is not replaced by a copy. *)
LEMMA RecordFrame ==
  ASSUME Known, [Next]_vars, NEW k \in DOMAIN records, NEW r, r = records[k]
  PROVE  /\ r \in Record /\ r.tree \in Tree
         /\ CloneTrees => r.tree = "original"
         /\ Frame(r.tree)
<1>1. r \in Record
  <2> HIDE DEF Record
  <2> QED BY ElementOfSeq DEF Known, RunTyped
<1>2. r.tree \in Tree BY <1>1 DEF Record
<1>3. CloneTrees => r.tree = "original"
  BY DEF Known, CloneTrees, JobSound, NoClone
<1>4. Frame(r.tree) BY <1>2, <1>3, FrameStep DEF Known
<1> QED BY <1>1, <1>2, <1>3, <1>4

(* A tree with a current record is written by developers only. *)
LEMMA CurrentText ==
  ASSUME Known, [Next]_vars, NEW k \in DOMAIN records, NEW r, r = records[k],
         r.place = "current", k \in DOMAIN records', records'[k] = r
  PROVE  /\ \A i \in Upstream : text'[r.tree][i] = text[r.tree][i]
         /\ \A i \in Device : \/ text'[r.tree][i] \in {text[r.tree][i], Experiment}
                              \/ <<r.tree, i>> \in undone'
<1>1. r.tree \in Tree /\ (CloneTrees => r.tree = "original") BY RecordFrame
<1>2. ASSUME ToolWrites, r.tree = JobTree PROVE FALSE
  <2>1. CASE pc = "sync"
    <3>1. Leave(JobTree) BY <1>2, <2>1 DEF ToolWrites
    <3>2. records'[k] = [r EXCEPT !.place = "left"] BY <1>2, <3>1 DEF Leave
    <3>3. r \in Record BY RecordFrame
    <3> QED BY <3>2, <3>3 DEF Record
  <2>2. CASE pc # "sync"
    <3>1. pc \in AfterSync BY <1>2, <2>2 DEF ToolWrites, AfterSync
    <3> QED BY <1>2, <3>1 DEF Known, Synced
  <2> QED BY <2>1, <2>2
<1> QED BY <1>1, <1>2, UnwrittenText DEF Known

LEMMA CurrentKept ==
  ASSUME Known, [Next]_vars, NEW k \in DOMAIN records, NEW r, r = records[k],
         RecordSound(r), k \in DOMAIN records', records'[k] = r
  PROVE  CurrentSound(r)'
<1> SUFFICES ASSUME r.place = "current"
             PROVE  /\ Integrated(r.tree, r.commit)'
                    /\ Derived(r.tree, r.commit)'
                    /\ r.phase # "building" => Made(r, out[r.tree])'
                    /\ r.phase = "finished" => Made(r, r.images)'
  BY DEF CurrentSound
<1>1. /\ Integrated(r.tree, r.commit) /\ Derived(r.tree, r.commit)
      /\ r.phase # "building" => Made(r, out[r.tree])
      /\ r.phase = "finished" => Made(r, r.images)
  BY DEF RecordSound, CurrentSound
<1>2. /\ \A i \in Upstream : text'[r.tree][i] = text[r.tree][i]
      /\ \A i \in Device : \/ text'[r.tree][i] \in {text[r.tree][i], Experiment}
                           \/ <<r.tree, i>> \in undone'
  BY CurrentText
<1>3. /\ undone \subseteq undone' /\ inherited \subseteq inherited'
      /\ \A i \in Item : \/ out'[r.tree][i] = out[r.tree][i]
                         \/ /\ out'[r.tree][i] = text[r.tree][i]
                            /\ text'[r.tree][i] = text[r.tree][i]
  BY RecordFrame DEF Frame
<1>4. Integrated(r.tree, r.commit)' BY <1>1, <1>2, <1>3 DEF Integrated
<1>5. Derived(r.tree, r.commit)' BY <1>1, <1>2, <1>3 DEF Derived
<1>6. ASSUME r.phase # "building" PROVE Made(r, out[r.tree])'
  <2>1. ASSUME NEW f, f = out[r.tree], NEW g, g = out'[r.tree] PROVE Made(r, g)'
    BY <1>1, <1>2, <1>3, <1>6, <2>1, MadeKept
  <2>2. \A g : g = out'[r.tree] => Made(r, g)' BY <2>1
  <2> QED BY <2>2 DEF Made
<1>7. ASSUME r.phase = "finished" PROVE Made(r, r.images)'
  BY <1>1, <1>2, <1>3, <1>7, MadeKept
<1> QED BY <1>4, <1>5, <1>6, <1>7

(* A retry that starts has found no experiment in the tree. *)
LEMMA ReadyKept ==
  ASSUME Known, [Next]_vars, NEW k \in DOMAIN records, NEW r, r = records[k],
         RecordSound(r)
  PROVE  ReadyToLeave(r)'
<1> SUFFICES ASSUME pc' = "sync", job'.kind = "retry", r.tree = JobTree',
                    r.place = "current", r.phase = "finished"
             PROVE  Claimed(r, r.images)'
  BY DEF ReadyToLeave
<1>1. undone \subseteq undone' /\ inherited \subseteq inherited'
  BY RecordFrame DEF Frame
<1>2. CASE pc = "sync"
  <2>1. job'.kind = job.kind /\ JobTree' = JobTree BY <1>2, JobKept DEF Known
  <2>2. Claimed(r, r.images) BY <1>2, <2>1 DEF RecordSound, ReadyToLeave
  <2> QED BY <1>1, <2>2, ClaimedKept
<1>3. ASSUME NEW b \in DOMAIN records, NEW c \in Commit, Retry(b, c)
      PROVE  Claimed(r, r.images)'
  <2>1. /\ DeviceAsFrozen(records[b].tree, records[b].commit)
        /\ records' = records
        /\ job' = [kind |-> "retry", base |-> b, commit |-> c,
                   kernel |-> records[b].kernel, times |-> [i \in Item |-> TRUE],
                     rest |-> {}, compared |-> None]
    BY <1>3 DEF Retry, Start
  <2>2. Base' = records[b] BY <2>1 DEF Base
  <2>3. JobTree' = records[b].tree BY <2>1, <2>2 DEF JobTree
  <2>4. records[b].commit \in Commit
    <3>1. records[b] \in Record BY RecordFrame
    <3> QED BY <3>1 DEF Record
  <2>5. \A i \in Device : text[r.tree][i] # Experiment
    BY <2>1, <2>3, <2>4, ExperimentAssumption DEF DeviceAsFrozen
  <2>6. Made(r, r.images) BY DEF RecordSound, CurrentSound
  <2>7. Claimed(r, r.images) BY <2>5, <2>6 DEF Made, Claimed
  <2> QED BY <1>1, <2>7, ClaimedKept
<1>4. pc = "sync" \/ \E b \in DOMAIN records, c \in Commit : Retry(b, c)
  <2>1. ~Relink BY DEF Relink, At, Step, Known, RunTyped
  <2>2. ~(Sync \/ Compare \/ SetBack \/ Patch \/ Reverse \/ Apply \/ AuditIntegration
          \/ WriteRecord \/ Compile \/ CheckInputs \/ Refused \/ RunDies)
    BY DEF Sync, Compare, SetBack, Patch, Reverse, Apply, AuditIntegration, At, Step,
       WriteRecord, Compile, CheckInputs, Refused, RunDies
  <2>3. ASSUME NEW b \in DOMAIN records
        PROVE  ~Build(b) /\ \A c \in Commit, l \in Kernel : ~Seed(b, c, l)
    BY DEF Build, Seed, Start
  <2> QED BY <2>1, <2>2, <2>3 DEF Next, Steps, Operator, Developers, vars, run,
             PrepareNative, CloneTrees, DeveloperBuilds, DeveloperEdits,
             DeveloperUndoes, Edit
<1> QED BY <1>2, <1>3, <1>4

LEMMA SameKept ==
  ASSUME Known, [Next]_vars, NEW k \in DOMAIN records, NEW r, r = records[k],
         RecordSound(r), k \in DOMAIN records', records'[k] = r
  PROVE  RecordSound(r)'
<1>1. CurrentSound(r)' BY CurrentKept
<1>2. Frame(r.tree) BY RecordFrame
<1>3. LeftSound(r)' BY <1>2, ClaimedKept DEF RecordSound, LeftSound, Frame
<1>4. ReadyToLeave(r)' BY ReadyKept
<1>5. NeverThere(r)' BY <1>2 DEF RecordSound, NeverThere, Frame
<1> QED BY <1>1, <1>3, <1>4, <1>5 DEF RecordSound

LEMMA LeavesSound ==
  ASSUME Known, [Next]_vars, NEW k \in DOMAIN records, NEW r, r = records[k],
         RecordSound(r), pc = "sync", pc' # "sync", r.tree = JobTree,
         r.place = "current", NEW s, s = [r EXCEPT !.place = "left"]
  PROVE  RecordSound(s)'
<1>1. /\ s.tree = r.tree /\ s.commit = r.commit /\ s.phase = r.phase
      /\ s.images = r.images /\ s.place = "left"
  <2>1. r \in Record BY RecordFrame
  <2> QED BY <2>1 DEF Record
<1>2. Frame(r.tree) BY RecordFrame
<1>3. job.kind = "retry"
  <2>1. job.kind \in {"retry", "seed", "build"} BY JobFacts DEF Known, Job
  <2>2. ASSUME job.kind = "seed" PROVE FALSE
    <3>1. JobTree = "clone" BY <2>2 DEF JobTree
    <3>2. r.tree = "original" BY <2>2 DEF Known, JobSound, NoClone
    <3> QED BY <3>1, <3>2
  <2>3. job.kind # "build"
    BY DEF Known, JobSound, Ongoing
  <2> QED BY <2>1, <2>2, <2>3
<1>4. CurrentSound(s)' BY <1>1 DEF CurrentSound
<1>5. LeftSound(s)'
  <2>1. s.phase = "finished" => Claimed(r, r.images)
    BY <1>1, <1>3 DEF RecordSound, ReadyToLeave
  <2>2. s.phase = "finished" => Claimed(r, r.images)'
    BY <1>2, <2>1, ClaimedKept DEF Frame
  <2> QED BY <1>1, <2>2 DEF LeftSound, Claimed
<1>6. ReadyToLeave(s)' BY <1>1 DEF ReadyToLeave
<1>7. NeverThere(s)'
  BY <1>1, <1>2 DEF RecordSound, NeverThere, Frame
<1> QED BY <1>4, <1>5, <1>6, <1>7 DEF RecordSound

(* A new record describes the tree as the run has left it. *)
LEMMA NewSound ==
  ASSUME Known, WriteRecord, NEW s, s = NewRecord
  PROVE  RecordSound(s)'
<1>1. /\ s.tree = JobTree /\ s.commit = job.commit /\ s.phase = "building"
      /\ s.place = "current"
  BY DEF NewRecord
<1>2. pc = "record" /\ pc' = "idle" /\ UNCHANGED <<text, undone>>
  BY DEF WriteRecord, trees
<1>3. Derived(s.tree, s.commit)
  BY <1>1, <1>2 DEF Known, Synced, AfterSync
<1>4. Integrated(s.tree, s.commit)' /\ Derived(s.tree, s.commit)'
  <2>1. Integrated(s.tree, s.commit)'
    BY <1>1, NewIntegrated DEF Known
  <2>2. Derived(s.tree, s.commit)' BY <1>2, <1>3 DEF Derived
  <2> QED BY <2>1, <2>2
<1> QED BY <1>1, <1>2, <1>4
        DEF RecordSound, CurrentSound, LeftSound, ReadyToLeave, NeverThere

(* A build that is complete has made every output of what is in the tree. *)
LEMMA CompileSound ==
  ASSUME Known, Compile, [Next]_vars, NEW r, r = Base, RecordSound(r),
         NEW s, s = records'[job.base]
  PROVE  RecordSound(s)'
<1>1. /\ job.base \in DOMAIN records /\ r = records[job.base]
      /\ s.tree = r.tree /\ s.commit = r.commit /\ s.images = r.images
      /\ s.place = Resumed(r.place)
      /\ \/ s.phase = r.phase /\ pc' = "idle"
         \/ /\ s.phase = "checking" /\ pc' = "inputs"
            /\ Make(JobTree, Outdated(JobTree))
  BY CompileFacts DEF Known, Base
<1>2. UNCHANGED <<text, undone, inherited>> /\ pc = "compile" BY DEF Compile, history
<1>3. JobTree = r.tree /\ r.tree \in Tree /\ r \in Record
  <2>1. job.kind = "build" BY <1>2 DEF Known, JobSound
  <2> QED BY <1>1, <2>1, RecordFrame DEF JobTree
<1>4. pc' # "sync" BY <1>1
<1>5. ASSUME s.place = "current"
      PROVE  /\ Integrated(s.tree, s.commit)' /\ Derived(s.tree, s.commit)'
             /\ s.phase # "building" => Made(s, out[s.tree])'
             /\ s.phase = "finished" => Made(s, s.images)'
  <2>1. r.place = "current" BY <1>1, <1>5 DEF Resumed
  <2>2. /\ Integrated(r.tree, r.commit) /\ Derived(r.tree, r.commit)
        /\ r.phase # "building" => Made(r, out[r.tree])
        /\ r.phase = "finished" => Made(r, r.images)
    BY <2>1 DEF RecordSound, CurrentSound
  <2>3. Integrated(s.tree, s.commit)' /\ Derived(s.tree, s.commit)'
    BY <1>1, <1>2, <2>2 DEF Integrated, Derived
  <2>4. CASE s.phase = r.phase
    <3>1. \A i \in Item : \/ out'[r.tree][i] = out[r.tree][i]
                          \/ /\ out'[r.tree][i] = text[r.tree][i]
                             /\ text'[r.tree][i] = text[r.tree][i]
      BY <1>1, RecordFrame DEF Frame
    <3>2. ASSUME r.phase # "building", NEW f, f = out[r.tree],
                 NEW g, g = out'[r.tree]
          PROVE  Made(r, g)'
      BY <1>2, <2>2, <3>1, <3>2, MadeKept
    <3>3. r.phase # "building" => \A g : g = out'[r.tree] => Made(r, g)' BY <3>2
    <3>4. r.phase = "finished" => Made(r, r.images)'
      BY <1>2, <2>2 DEF Made
    <3> QED BY <1>1, <2>3, <2>4, <3>3, <3>4 DEF Made
  <2>5. CASE s.phase = "checking" /\ Make(JobTree, Outdated(JobTree))
    <3>1. ASSUME NEW i \in Item
          PROVE  \/ out'[r.tree][i] = text[r.tree][i] \/ <<r.tree, i>> \in undone
                 \/ i \in Device /\ text[r.tree][i] = Experiment
      <4>1. out' = [out EXCEPT ![r.tree] = [j \in Item |->
                      IF j \in Outdated(r.tree) THEN text[r.tree][j]
                                                ELSE out[r.tree][j]]]
        BY <1>3, <2>5 DEF Make, Known, TreesTyped
      <4>2. out'[r.tree][i] = IF newer[r.tree][i] THEN text[r.tree][i]
                                                  ELSE out[r.tree][i]
        BY <1>3, <4>1 DEF Outdated, Known, TreesTyped
      <4>3. \/ newer[r.tree][i] \/ out[r.tree][i] = text[r.tree][i]
            \/ <<r.tree, i>> \in backdated
            \/ <<r.tree, i>> \in raced /\ text[r.tree][i] = Experiment
        BY <1>3 DEF Known, IncrementalSound
      <4> QED BY <4>2, <4>3 DEF Known, HistoryTyped
    <3>2. ASSUME NEW i \in Upstream
          PROVE  \/ out'[r.tree][i] = Content[r.commit][i]
                 \/ <<r.tree, i>> \in inherited
      <4>1. i \in Item /\ i \notin Device /\ <<r.tree, i>> \notin undone
        BY RetryAssumption DEF Item, Known, HistoryTyped
      <4> QED BY <2>2, <3>1, <4>1 DEF Integrated
    <3>3. ASSUME NEW i \in Device
          PROVE  \/ Content[r.commit][i] \in {None, out'[r.tree][i]}
                 \/ text[r.tree][i] = Experiment \/ <<r.tree, i>> \in undone
      BY <2>2, <3>1 DEF Derived, Item
    <3>4. Made(s, out[s.tree])' BY <1>1, <1>2, <3>2, <3>3 DEF Made
    <3> QED BY <2>3, <2>5, <3>4
  <2> QED BY <1>1, <2>4, <2>5
<1>6. CurrentSound(s)' BY <1>5 DEF CurrentSound
<1>7. LeftSound(s)' BY <1>1 DEF LeftSound, Resumed
<1>8. ReadyToLeave(s)' BY <1>4 DEF ReadyToLeave
<1>9. NeverThere(s)' BY <1>1, <1>2 DEF RecordSound, NeverThere
<1> QED BY <1>6, <1>7, <1>8, <1>9 DEF RecordSound

LEMMA CheckSound ==
  ASSUME Known, CheckInputs, [Next]_vars, NEW r, r = Base, RecordSound(r),
         NEW s, s = records'[job.base]
  PROVE  RecordSound(s)'
<1>1. /\ job.base \in DOMAIN records /\ r = records[job.base]
      /\ s.tree = r.tree /\ s.commit = r.commit /\ s.images = out[JobTree]
      /\ s.place = Resumed(r.place) /\ s.phase = "finished"
  BY CheckFacts DEF Known, Base
<1>2. /\ UNCHANGED <<text, out, undone, inherited>>
      /\ pc = "inputs" /\ pc' = "idle"
  BY DEF CheckInputs, trees, history
<1>3. JobTree = r.tree /\ r.tree \in Tree /\ r.phase = "checking"
  <2>1. job.kind = "build" /\ r.phase = "checking"
    BY <1>2 DEF Known, JobSound
  <2> QED BY <1>1, <2>1, RecordFrame DEF JobTree
<1>4. ASSUME s.place = "current"
      PROVE  /\ Integrated(s.tree, s.commit)' /\ Derived(s.tree, s.commit)'
             /\ Made(s, out[s.tree])' /\ Made(s, s.images)'
  <2>1. r.place = "current" BY <1>1, <1>4 DEF Resumed
  <2>2. /\ Integrated(r.tree, r.commit) /\ Derived(r.tree, r.commit)
        /\ Made(r, out[r.tree])
    BY <1>3, <2>1 DEF RecordSound, CurrentSound
  <2>3. Integrated(s.tree, s.commit)' /\ Derived(s.tree, s.commit)'
    BY <1>1, <1>2, <2>2 DEF Integrated, Derived
  <2>4. Made(s, out[s.tree])' /\ Made(s, s.images)'
    BY <1>1, <1>2, <1>3, <2>2 DEF Made
  <2> QED BY <2>3, <2>4
<1>5. CurrentSound(s)' BY <1>4 DEF CurrentSound
<1>6. LeftSound(s)' BY <1>1 DEF LeftSound, Resumed
<1>7. ReadyToLeave(s)' BY <1>2 DEF ReadyToLeave
<1>8. NeverThere(s)'
  BY <1>1, <1>2, <1>3 DEF NeverThere, Known, NothingBuiltOfNothing
<1> QED BY <1>5, <1>6, <1>7, <1>8 DEF RecordSound

(* A record stays as it is, is left, or is the one of the running tool.    *)
LEMMA RecordsStep ==
  ASSUME Known, [Next]_vars, RecordsSound
  PROVE  RecordsSound'
<1>0. DOMAIN records = 1..Len(records) BY DEF Known, RunTyped
<1>1. ASSUME NEW k \in DOMAIN records PROVE RecordSound(records[k])
  BY DEF RecordsSound
<1>2. ASSUME NEW k \in DOMAIN records', NEW s, s = records'[k]
      PROVE  RecordSound(s)'
  <2>1. CASE k \in DOMAIN records /\ records'[k] = records[k]
    <3>1. ASSUME NEW r, r = records[k] PROVE RecordSound(s)'
      <4>1. r = s /\ RecordSound(r) BY <1>1, <1>2, <2>1, <3>1
      <4> QED BY <1>2, <2>1, <3>1, <4>1, SameKept
    <3> QED BY <3>1
  <2>2. CASE /\ k \in DOMAIN records /\ pc = "sync" /\ pc' # "sync"
             /\ records[k].tree = JobTree /\ records[k].place = "current"
             /\ records'[k] = [records[k] EXCEPT !.place = "left"]
    <3>1. ASSUME NEW r, r = records[k] PROVE RecordSound(s)'
      <4>1. s = [r EXCEPT !.place = "left"] /\ RecordSound(r)
        BY <1>1, <1>2, <2>2, <3>1
      <4> QED BY <2>2, <3>1, <4>1, LeavesSound
    <3> QED BY <3>1
  <2>3. CASE WriteRecord /\ records'[k] = NewRecord
    BY <1>2, <2>3, NewSound
  <2>4. CASE k = job.base /\ (Compile \/ CheckInputs)
    <3>1. ASSUME NEW r, r = Base PROVE RecordSound(s)'
      <4>1. job.base \in DOMAIN records /\ r = records[job.base]
        BY <2>4, <3>1, CompileFacts, CheckFacts DEF Base, Known
      <4>2. RecordSound(r) BY <1>1, <4>1
      <4>3. s = records'[job.base] BY <1>2, <2>4
      <4> QED BY <2>4, <3>1, <4>2, <4>3, CompileSound, CheckSound
    <3> QED BY <3>1
  <2> QED BY <2>1, <2>2, <2>3, <2>4, RecordStep DEF Known
<1>3. ASSUME NEW k \in DOMAIN records' PROVE RecordSound(records[k])'
  <2>1. \A s : s = records'[k] => RecordSound(s)' BY <1>2
  <2> QED BY <2>1 DEF RecordSound, CurrentSound, LeftSound, ReadyToLeave, NeverThere,
             Claimed, Made, Integrated, Derived
<1> QED BY <1>3 DEF RecordsSound

LEMMA PInvInit == Init => PInv
<1> SUFFICES ASSUME Init PROVE PInv
  OBVIOUS
<1>1. PICK c \in Commit, k \in Kernel, v \in Version, finished \in BOOLEAN :
        /\ records = <<[tree |-> "original", commit |-> c, kernel |-> k,
                        version |-> v, place |-> "current",
                        phase |-> IF finished THEN "finished" ELSE "building",
                        images |-> IF finished THEN Content[c] ELSE None]>>
        /\ text = [t \in Tree |-> IF t = "original" THEN Content[c]
                                  ELSE [i \in Item |-> None]]
        /\ out = [t \in Tree |-> [i \in Item |-> IF finished THEN text[t][i]
                                                             ELSE None]]
        /\ pc = "idle" /\ alias = "absent"
  BY DEF Init
<1> DEFINE r == records[1]
<1>2. /\ DOMAIN records = {1} /\ r.tree = "original" /\ r.commit = c
      /\ r.place = "current" /\ r.phase = (IF finished THEN "finished" ELSE "building")
      /\ finished => r.images = Content[c]
  BY <1>1
<1>3. /\ text["original"] = Content[c]
      /\ \A i \in Item : finished => out["original"][i] = Content[c][i]
  BY <1>1 DEF Tree
<1>4. JobSound
  BY <1>1, <1>2 DEF JobSound, NoClone, Ongoing
<1>5. Synced BY <1>1 DEF Synced, AfterSync
<1>6. NothingBuiltOfNothing
  BY <1>1 DEF NothingBuiltOfNothing, Item
<1>7. CurrentSound(r)
  <2>1. Integrated(r.tree, r.commit) /\ Derived(r.tree, r.commit)
    BY <1>2, <1>3 DEF Integrated, Derived
  <2>2. r.phase # "building" => Made(r, out[r.tree]) /\ Made(r, r.images)
    BY <1>2, <1>3 DEF Made, Item
  <2>3. r.phase = "finished" => r.phase # "building" OBVIOUS
  <2> HIDE DEF r
  <2> QED BY <2>1, <2>2, <2>3 DEF CurrentSound
<1>8. LeftSound(r) BY <1>2 DEF LeftSound
<1>9. ReadyToLeave(r) BY <1>1 DEF ReadyToLeave
<1>10. NeverThere(r) BY <1>2, <1>3 DEF NeverThere
<1> HIDE DEF r
<1>11. \A n \in DOMAIN records : records[n] = r BY <1>2 DEF r
<1>12. RecordsSound
  BY <1>7, <1>8, <1>9, <1>10, <1>11 DEF RecordsSound, RecordSound
<1>13. RecordsGrown
  <2>1. Grown("original", c) BY <1>3 DEF Grown
  <2> QED BY <1>2, <1>11, <2>1 DEF RecordsGrown
<1>14. CloneText /\ Integrating BY <1>1 DEF CloneText, Integrating
<1> QED BY <1>4, <1>5, <1>6, <1>12, <1>13, <1>14 DEF PInv

LEMMA PInvStep == IInv /\ PInv /\ [Next]_vars => PInv'
<1> SUFFICES ASSUME IInv, PInv, [Next]_vars PROVE PInv'
  OBVIOUS
<1>1. Known /\ RecordsSound BY DEF IInv, PInv, Known
<1>2. JobSound' BY <1>1, JobSoundStep DEF Known
<1>3. Synced' BY <1>1, SyncedStep DEF Known
<1>4. NothingBuiltOfNothing' BY <1>1, NothingStep DEF Known
<1>5. RecordsSound' BY <1>1, RecordsStep
<1>6. RecordsGrown' BY <1>1, RecordsGrownStep DEF Known
<1>7. CloneText' BY <1>1, CloneTextStep DEF Known
<1>8. Integrating' BY <1>1, IntegratingStep DEF Known
<1> QED BY <1>2, <1>3, <1>4, <1>5, <1>6, <1>7, <1>8 DEF PInv

(* The audits of a package compare the tree with the commit and the output *)
(* with the images; the invariant says what the images are of.             *)
LEMMA ClaimsFromPInv ==
  ASSUME IInv, PInv PROVE PackagesHoldClaims
<1> SUFFICES ASSUME NEW k \in DOMAIN records, NEW r, r = records[k],
                    Packageable(r), r.place # "astray", NEW i \in Item
             PROVE  \/ out[r.tree][i] = Content[r.commit][i]
                    \/ <<r.tree, i>> \in undone \cup inherited
  BY DEF PackagesHoldClaims
<1>1. /\ r.phase = "finished" /\ out[r.tree] = r.images
      /\ \A j \in Device : text[r.tree][j] = Content[r.commit][j]
  BY DEF Packageable, InputsAudited, DeviceAsFrozen
<1>2. r \in Record
  <2> HIDE DEF Record
  <2> QED BY ElementOfSeq DEF IInv, RunTyped
<1>3. CurrentSound(r) /\ LeftSound(r) /\ NeverThere(r)
  BY DEF PInv, RecordsSound, RecordSound
<1>4. CASE r.place = "left"
  <2>1. Claimed(r, r.images) BY <1>1, <1>3, <1>4 DEF LeftSound
  <2>2. CASE i \in Upstream BY <1>1, <2>1, <2>2 DEF Claimed
  <2>3. CASE i \in Device BY <1>1, <1>3, <2>1, <2>3 DEF Claimed, NeverThere
  <2> QED BY <2>2, <2>3 DEF Item
<1>5. CASE r.place = "current"
  <2>1. Made(r, r.images) BY <1>1, <1>3, <1>5 DEF CurrentSound
  <2>2. CASE i \in Upstream BY <1>1, <2>1, <2>2 DEF Made
  <2>3. CASE i \in Device
    <3>1. text[r.tree][i] # Experiment
      BY <1>1, <1>2, <2>3, ExperimentAssumption DEF Record
    <3> QED BY <1>1, <1>3, <2>1, <2>3, <3>1 DEF Made, NeverThere
  <2> QED BY <2>2, <2>3 DEF Item
<1> QED BY <1>2, <1>4, <1>5 DEF Record

(* What package-clean-release.py accepts (audit_inputs(), lines 80 to 147) *)
(* was built from the commit of its record, whatever was retried, seeded,  *)
(* killed, edited and built before, for any commits, files and records,    *)
(* although its audits look at patches and overlays only loosely: unless   *)
(* the record was built after a retry had changed its checkout, an edit of *)
(* a file was undone, or a seed took over a patch or overlay that its      *)
(* commit changes.                                                         *)
THEOREM ClaimsHold == Spec => []PackagesHoldClaims
<1>1. Init => IInv /\ PInv BY IInvInit, PInvInit
<1>2. (IInv /\ PInv) /\ [Next]_vars => (IInv /\ PInv)' BY IInvStep, PInvStep
<1>3. IInv /\ PInv => PackagesHoldClaims BY ClaimsFromPInv
<1> QED BY <1>1, <1>2, <1>3, PTL DEF Spec
=============================================================================
