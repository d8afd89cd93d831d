-------------------------- MODULE TaskCommitsProofs --------------------------
(***************************************************************************)
(* For every set of tasks, files and plans and every number of edits and    *)
(* attempts: KeptOut, where the commands that find out what to keep out,    *)
(* and the one that unstages it, do not fail; CompletedWorkCommitted,       *)
(* whichever commands fail; and StyleKept, where the history that the run   *)
(* follows can be read and has one style.                                   *)
(***************************************************************************)
EXTENDS TaskCommits, WellFoundedInduction, TLAPS

\* What the commit of the current task must leave out.
Foreign == local \union origin[current] \union RunFiles \union Strays

Steps == {"idle", "worker", "root", "log", "add", "names", "restore", "reset", "diff",
          "commit", "hash"}

TypeInv == /\ work \in [Paths -> Contents]
           /\ index \in [Paths -> Contents]
           /\ head \in [Paths -> Contents]
           /\ attempts \in [Tasks -> Nat]
           /\ baseline \in [Tasks -> SUBSET Paths]
           /\ origin \in [Tasks -> SUBSET Paths]
           /\ local \subseteq Paths
           /\ excluded \subseteq Paths
           /\ step \in Steps
           /\ step # "idle" => current \in Tasks

\* What is local is not what is committed, and every task that was started knows it, and
\* what else was changed by then.
LocalKnown == /\ \A p \in local : work[p] # head[p]
              /\ \A t \in Tasks : attempts[t] > 0 =>
                    local \union origin[t] \subseteq baseline[t] \union RunFiles
              /\ step # "idle" => attempts[current] > 0

\* Between the look at the index and the commit: what is foreign will be unstaged, or
\* is not staged, and after git reset none of it is.
Unstaging == /\ step \in {"restore", "reset"} =>
                   \A p \in Foreign : p \in excluded \/ index[p] = head[p]
             /\ step \in {"diff", "commit"} => \A p \in Foreign : index[p] = head[p]

IInv == TypeInv /\ LocalKnown /\ Unstaging

-----------------------------------------------------------------------------
\* A run starts without excluded paths and with the changes it finds.
LEMMA InitEstablishes == Init => IInv
<1> SUFFICES ASSUME Init PROVE IInv
  OBVIOUS
<1>1. PICK tree \in Trees : head = tree.head /\ index = tree.index /\ work = tree.work
  BY DEF Init
<1>2. TypeInv
  BY <1>1, TreeAssumption DEF Init, TypeInv, Steps
<1>3. LocalKnown
  BY DEF Init, LocalKnown
<1>4. Unstaging
  BY DEF Init, Unstaging
<1> QED
  BY <1>2, <1>3, <1>4 DEF IInv

\* What a step keeps of the invariant when it touches neither the files nor the
\* bookkeeping, and stays away from the steps that Unstaging speaks of.
LEMMA Quiet ==
    ASSUME IInv, UNCHANGED <<files, attempts, baseline, excluded, local, origin>>,
           step' \in Steps \ {"restore", "reset", "diff", "commit"},
           step' # "idle" => step # "idle" /\ current' = current
    PROVE  IInv'
<1>1. TypeInv'
  BY DEF IInv, TypeInv, files
<1>2. LocalKnown'
  BY DEF IInv, LocalKnown, files
<1>3. Unstaging'
  BY DEF Unstaging
<1> QED
  BY <1>1, <1>2, <1>3 DEF IInv

\* A change of a file makes nothing local that was not, and leaves index and HEAD.
LEMMA EditPreserves == ASSUME IInv, Edit PROVE IInv'
<1>1. PICK p \in Paths \ RunFiles, content \in Contents :
          work' = [work EXCEPT ![p] = content]
  BY DEF Edit
<1>2. local' \subseteq local /\ \A q \in local' : work'[q] # head[q]
  BY DEF Edit
<1>3. TypeInv'
  BY <1>1, <1>2 DEF Edit, IInv, TypeInv
<1>4. LocalKnown'
  BY <1>2 DEF Edit, IInv, LocalKnown
<1>5. Unstaging'
  BY <1>2 DEF Edit, IInv, Unstaging, Foreign
<1> QED
  BY <1>3, <1>4, <1>5 DEF IInv

-----------------------------------------------------------------------------
\* The commands that find out what to keep out, and the one that unstages it.
Reliable == {"status", "names", "reset"} \intersect Failing = {}

\* The first attempt at a task sees every local path; later ones remember it.
LEMMA StartTaskPreserves ==
    ASSUME IInv, Reliable, NEW t \in Tasks, StartTask(t)
    PROVE  IInv'
<1>1. /\ baseline' = [baseline EXCEPT ![t] = IF attempts[t] > 0 THEN baseline[t]
                                             ELSE Dirty \ RunFiles]
      /\ attempts' = [attempts EXCEPT ![t] = @ + 1]
      /\ origin' = [origin EXCEPT ![t] = IF attempts[t] = 0 THEN Dirty ELSE @]
      /\ step' = "worker" /\ current' = t
      /\ UNCHANGED <<files, excluded, local>>
  BY DEF StartTask, Baseline, Results, MayFail, Reliable
<1>2. local \subseteq Dirty
  BY DEF IInv, TypeInv, LocalKnown, Dirty
<1>3. TypeInv'
  BY <1>1 DEF IInv, TypeInv, Steps, Dirty, files
<1>4. ASSUME NEW u \in Tasks, attempts'[u] > 0
      PROVE  local' \union origin'[u] \subseteq baseline'[u] \union RunFiles
  <2>1. CASE u = t
    BY <1>1, <1>2, <2>1 DEF IInv, TypeInv, LocalKnown
  <2>2. CASE u # t
    BY <1>1, <1>4, <2>2 DEF IInv, TypeInv, LocalKnown
  <2> QED
    BY <2>1, <2>2
<1>5. attempts'[current'] > 0
  BY <1>1 DEF IInv, TypeInv
<1>6. LocalKnown'
  BY <1>1, <1>4, <1>5 DEF IInv, LocalKnown, files
<1>7. Unstaging'
  BY <1>1 DEF Unstaging
<1> QED
  BY <1>3, <1>6, <1>7 DEF IInv

\* git add -A stages foreign files too; what was staged is not excluded yet.
LEMMA AddPreserves == ASSUME IInv, Add PROVE IInv'
<1>1. /\ index' \in {index, work}
      /\ step' \in {"names", "idle"} /\ step = "add"
      /\ UNCHANGED <<work, head, attempts, baseline, current, excluded, local, origin>>
  BY DEF Add, Command, Continue, Return
<1>2. TypeInv'
  BY <1>1 DEF IInv, TypeInv, Steps
<1>3. LocalKnown'
  BY <1>1 DEF IInv, LocalKnown
<1>4. Unstaging'
  BY <1>1 DEF Unstaging
<1> QED
  BY <1>2, <1>3, <1>4 DEF IInv

\* Every foreign path that is staged is excluded.
LEMMA NamesPreserves == ASSUME IInv, Reliable, Names PROVE IInv'
<1>1. /\ excluded' = RunFiles \union baseline[current] \union Artifacts
      /\ step' = "restore" /\ step = "names"
      /\ UNCHANGED <<files, attempts, baseline, current, local, origin>>
  BY DEF Names, Command, Continue, Excluded, Results, MayFail, Reliable
<1>2. /\ current \in Tasks
      /\ local \union origin[current] \subseteq baseline[current] \union RunFiles
  BY <1>1 DEF IInv, TypeInv, LocalKnown
<1>3. TypeInv'
  BY <1>1, <1>2, PathAssumption DEF IInv, TypeInv, Steps, Artifacts, files
<1>4. LocalKnown'
  BY <1>1 DEF IInv, LocalKnown, files
<1>5. Unstaging'
  BY <1>1, <1>2 DEF Unstaging, Foreign, Artifacts, files
<1> QED
  BY <1>3, <1>4, <1>5 DEF IInv

\* Both commands bring paths of the index back to HEAD, or do nothing.
LEMMA UnstagedProperties ==
    ASSUME TypeInv
    PROVE  /\ Unstaged \in [Paths -> Contents]
           /\ \A p \in Paths : Unstaged[p] = IF p \in excluded THEN head[p] ELSE index[p]
BY DEF Unstaged, TypeInv

LEMMA RestorePreserves == ASSUME IInv, Restore PROVE IInv'
<1>1. /\ index' \in {index, Unstaged}
      /\ step' = "reset" /\ step = "restore"
      /\ UNCHANGED <<work, head, attempts, baseline, current, excluded, local, origin>>
  BY DEF Restore, Command, Continue, Results
<1>2. TypeInv'
  BY <1>1, UnstagedProperties DEF IInv, TypeInv, Steps
<1>3. LocalKnown'
  BY <1>1 DEF IInv, LocalKnown
<1>4. Foreign \subseteq Paths
  BY <1>1, PathAssumption DEF IInv, TypeInv, Foreign
<1>5. \A p \in Foreign : p \in excluded \/ index'[p] = head[p]
  BY <1>1, <1>4, UnstagedProperties DEF IInv, Unstaging
<1>6. Unstaging'
  BY <1>1, <1>5 DEF Unstaging, Foreign
<1> QED
  BY <1>2, <1>3, <1>6 DEF IInv

LEMMA ResetPreserves == ASSUME IInv, Reliable, Reset PROVE IInv'
<1>1. /\ index' = Unstaged
      /\ step' = "diff" /\ step = "reset"
      /\ UNCHANGED <<work, head, attempts, baseline, current, excluded, local, origin>>
  BY DEF Reset, Command, Continue, Results, MayFail, Reliable
<1>2. TypeInv'
  BY <1>1, UnstagedProperties DEF IInv, TypeInv, Steps
<1>3. LocalKnown'
  BY <1>1 DEF IInv, LocalKnown
<1>4. Foreign \subseteq Paths
  BY <1>1, PathAssumption DEF IInv, TypeInv, Foreign
<1>5. \A p \in Foreign : index'[p] = head[p]
  BY <1>1, <1>4, UnstagedProperties DEF IInv, Unstaging
<1>6. Unstaging'
  BY <1>1, <1>5 DEF Unstaging, Foreign
<1> QED
  BY <1>2, <1>3, <1>6 DEF IInv

\* The index agrees with HEAD on everything foreign from git reset to the commit.
LEMMA DiffPreserves == ASSUME IInv, Diff PROVE IInv'
<1>1. /\ step' \in {"idle", "commit"} /\ step = "diff"
      /\ UNCHANGED <<files, attempts, baseline, current, excluded, local, origin>>
  BY DEF Diff, Command, Continue, Return
<1>2. TypeInv'
  BY <1>1 DEF IInv, TypeInv, Steps, files
<1>3. LocalKnown'
  BY <1>1 DEF IInv, LocalKnown, files
<1>4. Unstaging'
  BY <1>1 DEF IInv, Unstaging, Foreign, files
<1> QED
  BY <1>2, <1>3, <1>4 DEF IInv

LEMMA CommitPreserves == ASSUME IInv, Commit PROVE IInv'
<1>1. /\ head' \in {head, index}
      /\ step' \in {"idle", "hash"} /\ step = "commit"
      /\ UNCHANGED <<work, index, attempts, baseline, current, excluded, local, origin>>
  BY DEF Commit, Command, Continue, Return
<1>2. TypeInv'
  BY <1>1 DEF IInv, TypeInv, Steps
<1>3. \A p \in Foreign : head'[p] = head[p]
  BY <1>1 DEF IInv, Unstaging
<1>4. LocalKnown'
  BY <1>1, <1>3 DEF IInv, LocalKnown, Foreign
<1>5. Unstaging'
  BY <1>1 DEF Unstaging
<1> QED
  BY <1>2, <1>4, <1>5 DEF IInv

-----------------------------------------------------------------------------
\* Every action preserves the invariant.
LEMMA NextPreserves == ASSUME Reliable, IInv, [Next]_vars PROVE IInv'
<1>1. CASE Edit
  BY <1>1, EditPreserves
<1>2. ASSUME NEW t \in Tasks, StartTask(t) PROVE IInv'
  BY <1>2, StartTaskPreserves
<1>3. ASSUME NEW done \in BOOLEAN, WorkerDone(done) PROVE IInv'
  BY <1>3, Quiet DEF WorkerDone, Steps, history
<1>4. CASE WorkerFails \/ Obsolete
  BY <1>4, Quiet DEF WorkerFails, Obsolete, Steps, history
<1>5. CASE Replan
  BY <1>5, Quiet DEF Replan, Steps, history
<1>6. CASE Root
  BY <1>6, Quiet DEF Root, Command, Continue, Return, Steps
<1>7. CASE Log
  BY <1>7, Quiet DEF Log, Command, Continue, Steps
<1>8. CASE Add
  BY <1>8, AddPreserves
<1>9. CASE Names
  BY <1>9, NamesPreserves
<1>10. CASE Restore
  BY <1>10, RestorePreserves
<1>11. CASE Reset
  BY <1>11, ResetPreserves
<1>12. CASE Diff
  BY <1>12, DiffPreserves
<1>13. CASE Commit
  BY <1>13, CommitPreserves
<1>14. CASE Hash
  BY <1>14, Quiet DEF Hash, Command, Return, Steps
<1>15. CASE UNCHANGED vars
  BY <1>15 DEF IInv, TypeInv, LocalKnown, Unstaging, Foreign, vars, files, history
<1> QED
  BY <1>1, <1>2, <1>3, <1>4, <1>5, <1>6, <1>7, <1>8, <1>9, <1>10, <1>11, <1>12, <1>13,
     <1>14, <1>15 DEF Next

\* The files of a run, the results of others and what was changed when the run began or the
\* task of the commit was first started are in no commit: only git commit moves HEAD, to an
\* index that agrees with it on them.
THEOREM NothingForeignCommitted ==
    ASSUME Reliable
    PROVE  Spec => KeptOut
<1>1. Init => IInv
  BY InitEstablishes
<1>2. IInv /\ [Next]_vars => IInv'
  BY NextPreserves
<1>3. IInv /\ [Next]_vars =>
          [\A p \in Paths : head'[p] # head[p] =>
               p \notin local \union origin[current] \union RunFiles \union Strays]_vars
  <2> SUFFICES ASSUME IInv, Next
               PROVE  \A p \in Paths : head'[p] # head[p] => p \notin Foreign
    BY DEF Foreign
  <2>1. CASE Commit
    BY <2>1 DEF Commit, Command, IInv, Unstaging
  <2>2. CASE ~Commit
    BY <2>2 DEF Next, Edit, StartTask, WorkerDone, WorkerFails, Obsolete, Replan, Root,
                Log, Add, Names, Restore, Reset, Diff, Hash, files
  <2> QED
    BY <2>1, <2>2
<1> QED
  BY <1>1, <1>2, <1>3, PTL DEF Spec, KeptOut

-----------------------------------------------------------------------------
(* What a task changed, whatever commands fail.                             *)
\* The paths whose changes are the task's own.
Own == Paths \ (origin[current] \union RunFiles \union Strays)

FileType == /\ work \in [Paths -> Contents]
            /\ index \in [Paths -> Contents]
            /\ head \in [Paths -> Contents]
            /\ step \in Steps

\* Only what was dirty when the task was first started is kept out for it.
BaselineIsOld == /\ attempts \in [Tasks -> Nat]
                 /\ baseline \in [Tasks -> SUBSET Paths]
                 /\ origin \in [Tasks -> SUBSET Paths]
                 /\ \A t \in Tasks : baseline[t] \subseteq origin[t]
                 /\ step # "idle" => current \in Tasks

\* What was staged of the task's own changes stays staged, and is committed.
StaysStaged ==
    /\ step \in {"names", "restore", "reset", "diff", "commit"} =>
          \A p \in Own : index[p] = added[p]
    /\ step \in {"restore", "reset"} => excluded \intersect Own = {}
    /\ step = "hash" => \A p \in Own : head[p] = added[p]
    /\ step \notin {"idle", "hash"} => report \notin {"hash", "no staged diff"}

WorkInv == FileType /\ BaselineIsOld /\ StaysStaged /\ CompletedWorkCommitted

LEMMA WorkInit == Init => WorkInv
<1> SUFFICES ASSUME Init PROVE WorkInv
  OBVIOUS
<1>1. PICK tree \in Trees : head = tree.head /\ index = tree.index /\ work = tree.work
  BY DEF Init
<1>2. FileType
  BY <1>1, TreeAssumption DEF Init, FileType, Steps
<1>3. BaselineIsOld
  BY DEF Init, BaselineIsOld
<1>4. StaysStaged /\ CompletedWorkCommitted
  BY DEF Init, StaysStaged, CompletedWorkCommitted
<1> QED
  BY <1>2, <1>3, <1>4 DEF WorkInv

\* A step away from the git commands that leaves no report of a commit.
LEMMA WorkQuiet ==
    ASSUME WorkInv, UNCHANGED files,
           step' \in {"idle", "worker", "root", "log", "add"},
           report' \notin {"hash", "no staged diff"},
           BaselineIsOld'
    PROVE  WorkInv'
BY DEF WorkInv, FileType, StaysStaged, CompletedWorkCommitted, files, Steps

\* Nothing of a task is staged yet when it starts.
LEMMA WorkStart == ASSUME WorkInv, NEW t \in Tasks, StartTask(t) PROVE WorkInv'
<1>1. PICK paths \in Baseline(t) : baseline' = [baseline EXCEPT ![t] = paths]
  BY DEF StartTask
<1>2. /\ origin' = [origin EXCEPT ![t] = IF attempts[t] = 0 THEN Dirty ELSE @]
      /\ step' = "worker" /\ current' = t /\ report' = "none"
      /\ UNCHANGED files
  BY DEF StartTask
<1>3. Dirty \subseteq Paths
  BY DEF Dirty
<1>4. paths \subseteq Paths /\ (paths \subseteq IF attempts[t] = 0 THEN Dirty ELSE origin[t])
  BY <1>3 DEF Baseline, Results, WorkInv, BaselineIsOld
<1>5. BaselineIsOld'
  <2>1. attempts' = [attempts EXCEPT ![t] = @ + 1]
    BY DEF StartTask
  <2> QED
    BY <1>1, <1>2, <1>3, <1>4, <2>1 DEF WorkInv, BaselineIsOld
<1> QED
  BY <1>2, <1>5, WorkQuiet

\* Between two git commands only the files, the index and HEAD may have changed.
LEMMA WorkCommand ==
    ASSUME WorkInv, UNCHANGED <<attempts, baseline, current, origin>>,
           step # "idle",
           work' \in [Paths -> Contents], index' \in [Paths -> Contents],
           head' \in [Paths -> Contents], step' \in Steps,
           StaysStaged',
           step' = "idle" /\ report' \in {"hash", "no staged diff"} =>
               \A p \in Own : head'[p] = added'[p]
    PROVE  WorkInv'
BY DEF WorkInv, FileType, BaselineIsOld, CompletedWorkCommitted, Own

\* git add -A stages everything; a failure ends the attempt to commit.
LEMMA WorkAdd == ASSUME WorkInv, Add PROVE WorkInv'
<1>1. /\ step = "add"
      /\ \/ index' = work /\ added' = work /\ step' = "names" /\ report' = report
         \/ index' = index /\ step' = "idle" /\ report' = "error"
      /\ UNCHANGED <<work, head, attempts, baseline, current, origin>>
  BY DEF Add, Command, Continue, Return
<1>2. StaysStaged'
  BY <1>1 DEF WorkInv, StaysStaged, FileType, Own
<1> QED
  BY <1>1, <1>2, WorkCommand DEF WorkInv, FileType, Steps

\* What is excluded is foreign or was dirty before the task.
LEMMA WorkNames == ASSUME WorkInv, Names PROVE WorkInv'
<1>1. PICK artifacts \in Results("names", Artifacts, {}) : excluded' = Excluded(artifacts)
  BY DEF Names
<1>2. /\ step = "names" /\ step' = "restore" /\ report' = report
      /\ UNCHANGED <<work, index, head, attempts, baseline, current, origin, added>>
  BY DEF Names, Command, Continue, files
<1>3. artifacts \subseteq RunFiles \union Strays
  BY DEF Results, Artifacts
<1>4. baseline[current] \subseteq origin[current]
  BY <1>2 DEF WorkInv, BaselineIsOld
<1>5. excluded' \intersect Own = {}
  BY <1>1, <1>3, <1>4 DEF Excluded, Own
<1>6. StaysStaged'
  BY <1>2, <1>5 DEF WorkInv, StaysStaged, Own
<1> QED
  BY <1>2, <1>6, WorkCommand DEF WorkInv, FileType, Steps

\* Unstaging takes nothing of it back.
LEMMA WorkUnstaged ==
    ASSUME WorkInv, step \in {"restore", "reset"}
    PROVE  /\ Unstaged \in [Paths -> Contents]
           /\ \A p \in Own : Unstaged[p] = index[p]
BY DEF Unstaged, WorkInv, FileType, StaysStaged, Own

LEMMA WorkUnstage == ASSUME WorkInv, Restore \/ Reset PROVE WorkInv'
<1>1. /\ index' \in {index, Unstaged}
      /\ step \in {"restore", "reset"}
      /\ step' = IF step = "restore" THEN "reset" ELSE "diff"
      /\ report' = report
      /\ UNCHANGED <<work, head, attempts, baseline, current, origin, added, excluded>>
  <2>1. CASE Restore
    BY <2>1 DEF Restore, Command, Continue, Results
  <2>2. CASE Reset
    BY <2>2 DEF Reset, Command, Continue, Results
  <2> QED
    BY <2>1, <2>2
<1>2. index' \in [Paths -> Contents] /\ \A p \in Own : index'[p] = index[p]
  BY <1>1, WorkUnstaged DEF WorkInv, FileType
<1>3. StaysStaged'
  BY <1>1, <1>2 DEF WorkInv, StaysStaged, Own
<1> QED
  BY <1>1, <1>2, <1>3, WorkCommand DEF WorkInv, FileType, Steps

\* An index that agrees with HEAD has committed the task's changes already; otherwise
\* git commit does.
LEMMA WorkEnds == ASSUME WorkInv, Diff \/ Commit \/ Hash PROVE WorkInv'
<1>1. CASE Diff
  <2>1. /\ step = "diff"
        /\ \/ index = head /\ step' = "idle" /\ report' = "no staged diff"
           \/ step' = "commit" /\ report' = report
           \/ step' = "idle" /\ report' = "error"
        /\ UNCHANGED <<work, index, head, attempts, baseline, current, origin, added, excluded>>
    BY <1>1 DEF Diff, Command, Continue, Return, files
  <2>2. StaysStaged'
    BY <2>1 DEF WorkInv, StaysStaged, Own
  <2>3. \A p \in Own : index[p] = added[p]
    BY <2>1 DEF WorkInv, StaysStaged
  <2> QED
    BY <2>1, <2>2, <2>3, WorkCommand DEF WorkInv, FileType, StaysStaged, Steps
<1>2. CASE Commit
  <2>1. /\ step = "commit"
        /\ \/ head' = index /\ step' = "hash" /\ report' = report
           \/ head' = head /\ step' = "idle" /\ report' = "error"
        /\ UNCHANGED <<work, index, attempts, baseline, current, origin, added, excluded>>
    BY <1>2 DEF Commit, Command, Continue, Return
  <2>2. StaysStaged'
    BY <2>1 DEF WorkInv, StaysStaged, Own
  <2> QED
    BY <2>1, <2>2, WorkCommand DEF WorkInv, FileType, Steps
<1>3. CASE Hash
  <2>1. /\ step = "hash" /\ step' = "idle" /\ report' \in {"hash", "error"}
        /\ UNCHANGED <<work, index, head, attempts, baseline, current, origin, added, excluded>>
    BY <1>3 DEF Hash, Command, Return, files
  <2>2. StaysStaged'
    BY <2>1 DEF WorkInv, StaysStaged
  <2>3. \A p \in Own : head[p] = added[p]
    BY <2>1 DEF WorkInv, StaysStaged
  <2> QED
    BY <2>1, <2>2, <2>3, WorkCommand DEF WorkInv, FileType, Steps
<1> QED
  BY <1>1, <1>2, <1>3

\* An edit changes neither the index nor HEAD.
LEMMA WorkEdit == ASSUME WorkInv, Edit PROVE WorkInv'
<1>1. PICK p \in Paths \ RunFiles, content \in Contents :
          work' = [work EXCEPT ![p] = content]
  BY DEF Edit
<1>2. FileType'
  BY <1>1 DEF Edit, WorkInv, FileType
<1>3. BaselineIsOld' /\ StaysStaged' /\ CompletedWorkCommitted'
  BY DEF Edit, WorkInv, BaselineIsOld, StaysStaged, CompletedWorkCommitted, Own
<1> QED
  BY <1>2, <1>3 DEF WorkInv

LEMMA WorkNext == ASSUME WorkInv, [Next]_vars PROVE WorkInv'
<1> USE DEF Steps
<1>1. CASE Edit
  BY <1>1, WorkEdit
<1>2. ASSUME NEW t \in Tasks, StartTask(t) PROVE WorkInv'
  BY <1>2, WorkStart
<1>3. CASE \/ \E done \in BOOLEAN : WorkerDone(done)
           \/ WorkerFails \/ Obsolete
  <2>1. /\ UNCHANGED <<files, attempts, baseline, current, origin>>
        /\ step = "worker" /\ step' \in {"idle", "root"}
        /\ report' \in {report, "skipped"}
    BY <1>3 DEF WorkerDone, WorkerFails, Obsolete, history
  <2> QED
    BY <2>1, WorkQuiet DEF WorkInv, BaselineIsOld, StaysStaged
<1>4. CASE Replan \/ UNCHANGED vars
  BY <1>4 DEF Replan, vars, files, history, WorkInv, FileType, BaselineIsOld, StaysStaged,
              CompletedWorkCommitted, Own
<1>5. CASE Root \/ Log
  <2>1. /\ UNCHANGED <<files, attempts, baseline, current, origin>>
        /\ step \in {"root", "log"} /\ step' \in {"idle", "log", "add"}
        /\ report' \in {report, "error"}
    BY <1>5 DEF Root, Log, Command, Continue, Return
  <2> QED
    BY <2>1, WorkQuiet DEF WorkInv, BaselineIsOld, StaysStaged
<1>6. CASE Add \/ Names
  BY <1>6, WorkAdd, WorkNames
<1>7. CASE Restore \/ Reset
  BY <1>7, WorkUnstage
<1>8. CASE Diff \/ Commit \/ Hash
  BY <1>8, WorkEnds
<1> QED
  BY <1>1, <1>2, <1>3, <1>4, <1>5, <1>6, <1>7, <1>8 DEF Next

\* When a task is reported as committed, or as having nothing to commit, everything it
\* changed since it was first started is in HEAD as it was staged, whichever commands
\* failed on the way and whatever was edited meanwhile.
THEOREM NothingOfTaskLost == Spec => []CompletedWorkCommitted
<1>1. WorkInv => CompletedWorkCommitted
  BY DEF WorkInv
<1> QED
  BY <1>1, WorkInit, WorkNext, PTL DEF Spec

-----------------------------------------------------------------------------
(* The style of the commits.                                                *)
Listed(commits) == Len(commits) \in Nat /\ commits = [i \in 1..Len(commits) |-> commits[i]]
Plain(commits) == {i \in DOMAIN commits : commits[i].kind = "plain"}

\* Two subjects in one style.
Alike(s, t) == /\ s.prefix = t.prefix
               /\ s.period = t.period
               /\ s.case = t.case \/ "none" \in {s.case, t.case}

\* The plain subjects are alike, the newest of them is recent, and it has a letter if
\* one of them has.
OneStyle(commits) ==
    /\ Listed(commits)
    /\ \A i, j \in Plain(commits) : Alike(commits[i], commits[j])
    /\ \A i \in Plain(commits) : (\A j \in Plain(commits) : i <= j) =>
          /\ i <= RecentLimit
          /\ commits[i].case = "none" => \A j \in Plain(commits) : commits[j].case = "none"

\* The user's commits have one style, no title brings a style of its own, and git log
\* does not fail.
Styled ==
    /\ ~MayFail("log")
    /\ \A commits \in Histories : OneStyle(commits)
    /\ \A t \in Tasks : /\ Title[t].prefix = NoPrefix
                         /\ Title[t].case # "none"
                         /\ Title[t].kind \in {"plain", "generated", "blank"}
                         /\ DOMAIN Title[t] = DOMAIN DefaultSubject

\* Until it is committed the message is in the style of the log.
Fits(s, commits) ==
    /\ s.kind = "plain" /\ s.case # "none"
    /\ \A i \in Plain(commits) : Alike(s, commits[i])

StyleInv ==
    /\ OneStyle(log)
    /\ step \notin {"idle", "worker"} => current \in Tasks
    /\ step = "worker" => current \in Tasks
    /\ step \in {"add", "names", "restore", "reset", "diff", "commit"} => Fits(subject, log)

\* A nonempty set of numbers has a least one.
LEMMA LeastElement ==
    ASSUME NEW S, S \subseteq Nat, S # {}
    PROVE  \E i \in S : \A j \in S : i <= j
<1> DEFINE Less == OpToRel(<, Nat)
<1>1. IsWellFoundedOn(Less, Nat)
  BY NatLessThanWellFounded
<1>2. \A j \in Nat, i \in Nat : j < i => <<j, i>> \in Less
  BY Zenon DEF OpToRel
<1> HIDE DEF Less
<1>3. PICK i \in S : \A j \in S : ~(<<j, i>> \in Less)
  BY <1>1, WFMin
<1>4. \A j \in S : ~(j < i)
  BY <1>2, <1>3
<1> QED
  BY <1>3, <1>4

\* A commit in front of the others.
LEMMA Pushed ==
    ASSUME NEW commits, Listed(commits), NEW s
    PROVE  LET all == <<s>> \o commits
           IN  /\ Listed(all) /\ DOMAIN all = 1..(Len(commits) + 1)
               /\ all[1] = s
               /\ \A i \in 1..Len(commits) : all[i + 1] = commits[i]
<1> DEFINE n == Len(commits)
           T == {commits[i] : i \in 1..n} \union {s}
           all == <<s>> \o commits
<1>1. commits \in [1..n -> T] /\ n \in Nat /\ s \in T
  BY DEF Listed
<1> HIDE DEF T, n
<1>2. commits \in Seq(T) /\ <<s>> \in Seq(T)
  BY <1>1
<1>3. Len(commits) = n
  BY DEF n
<1>4. /\ all \in Seq(T) /\ Len(all) = n + 1
      /\ all[1] = s
      /\ \A i \in 1..n : all[i + 1] = commits[i]
  BY <1>1, <1>2, <1>3
<1> HIDE DEF all
<1>5. all \in [1..Len(all) -> T]
  BY <1>4
<1> QED
  BY <1>1, <1>3, <1>4, <1>5 DEF Listed, all

\* A message in the style of the log keeps it in that style.
LEMMA CommittedInStyle ==
    ASSUME NEW commits, OneStyle(commits), NEW s, Fits(s, commits)
    PROVE  OneStyle(<<s>> \o commits)
<1> DEFINE n == Len(commits)
           all == <<s>> \o commits
<1>1. /\ Listed(all) /\ DOMAIN all = 1..(n + 1) /\ n \in Nat
      /\ all[1] = s /\ \A i \in 1..n : all[i + 1] = commits[i]
      /\ DOMAIN commits = 1..n
  BY Pushed DEF OneStyle, Listed
<1> HIDE DEF all, n
<1>2. ASSUME NEW i \in Plain(all), i # 1
      PROVE  i - 1 \in Plain(commits) /\ all[i] = commits[i - 1]
  <2>1. i \in 1..(n + 1) /\ all[i].kind = "plain"
    BY <1>1 DEF Plain
  <2>2. i - 1 \in 1..n /\ i = (i - 1) + 1
    BY <1>1, <1>2, <2>1
  <2>3. all[i] = commits[i - 1]
    BY <1>1, <2>2
  <2> QED
    BY <1>1, <2>1, <2>2, <2>3 DEF Plain
<1>3. 1 \in Plain(all)
  BY <1>1 DEF Plain, Fits
<1>4. ASSUME NEW i \in Plain(all), NEW j \in Plain(all) PROVE Alike(all[i], all[j])
  <2>1. CASE i = 1 /\ j = 1
    BY <2>1 DEF Alike
  <2>2. CASE i = 1 /\ j # 1
    BY <1>1, <1>2, <2>2 DEF Fits
  <2>3. CASE i # 1 /\ j = 1
    <3>1. Alike(all[j], all[i])
      BY <1>1, <1>2, <2>3 DEF Fits
    <3> QED
      BY <3>1 DEF Alike
  <2>4. CASE i # 1 /\ j # 1
    BY <1>2, <2>4 DEF OneStyle
  <2> QED
    BY <2>1, <2>2, <2>3, <2>4
<1>5. ASSUME NEW i \in Plain(all), \A j \in Plain(all) : i <= j
      PROVE  i <= RecentLimit /\ all[i].case # "none"
  <2>1. i \in 1..(n + 1) /\ i <= 1
    BY <1>1, <1>3, <1>5 DEF Plain
  <2>2. i = 1
    BY <1>1, <2>1
  <2> QED
    BY <1>1, <2>2, LimitAssumption DEF Fits
<1> QED
  BY <1>1, <1>4, <1>5 DEF OneStyle, all

\* The message for a task, after the newest plain subject of the log.
LEMMA MessageFits ==
    ASSUME Styled, OneStyle(log), current \in Tasks, Log
    PROVE  Fits(subject', log)
<1> DEFINE body   == NormalizedTaskSubject(Title[current])
           recent == RecentCommitSubjects
<1>1. /\ body.kind = "plain" /\ body.case # "none" /\ body.prefix = NoPrefix
      /\ {"prefix", "case", "period", "kind"} \subseteq DOMAIN body
  <2> DEFINE title == Title[current]
  <2>1. /\ title.prefix = NoPrefix /\ title.case # "none"
        /\ title.kind \in {"plain", "generated", "blank"}
        /\ DOMAIN title = {"prefix", "case", "period", "kind"}
    BY DEF Styled, DefaultSubject
  <2> HIDE DEF title
  <2>2. CASE title.kind = "blank"
    BY <2>2 DEF NormalizedTaskSubject, DefaultSubject, title
  <2>3. CASE title.kind # "blank"
    <3> DEFINE first == [title EXCEPT !.period = FALSE]
               second == [first EXCEPT !.kind = IF @ = "generated" THEN "plain" ELSE @]
    <3>1. /\ first.kind = title.kind /\ first.case = title.case
          /\ first.prefix = title.prefix /\ DOMAIN first = DOMAIN title
      BY <2>1
    <3> HIDE DEF first
    <3>2. /\ second.kind = "plain" /\ second.case = title.case
          /\ second.prefix = title.prefix /\ DOMAIN second = DOMAIN title
      BY <2>1, <2>3, <3>1
    <3>3. body = second
      BY <2>3 DEF NormalizedTaskSubject, title, first
    <3> QED
      BY <2>1, <3>2, <3>3
  <2> QED
    BY <2>2, <2>3
<1>2. subject' = FormatSubjectLikeRecentCommits(body, recent)
  BY DEF Log, Results, Styled
<1> HIDE DEF body
<1>3. CASE Plain(log) = {}
  <2>1. recent = {}
    BY <1>3 DEF RecentCommitSubjects, Plain
  <2>2. subject' = body
    BY <1>2, <2>1 DEF FormatSubjectLikeRecentCommits
  <2> QED
    BY <1>1, <1>3, <2>2 DEF Fits
<1>4. CASE Plain(log) # {}
  <2>1. Plain(log) \subseteq Nat
    BY DEF Plain, OneStyle, Listed
  <2>2. PICK first \in Plain(log) : \A j \in Plain(log) : first <= j
    BY <1>4, <2>1, LeastElement
  <2>3. first <= RecentLimit
    BY <2>2 DEF OneStyle
  <2>4. recent = {log[first]}
    <3> DEFINE plain == {i \in DOMAIN log : i <= RecentLimit /\ log[i].kind = "plain"}
    <3>1. first \in plain /\ plain \subseteq Plain(log)
      BY <2>3 DEF Plain
    <3> HIDE DEF plain
    <3>2. ASSUME NEW j \in plain, \A k \in plain : j <= k PROVE j = first
      BY <2>1, <2>2, <3>1, <3>2
    <3>3. {j \in plain : \A k \in plain : j <= k} = {first}
      BY <2>2, <3>1, <3>2
    <3> QED
      BY <3>3 DEF RecentCommitSubjects, plain
  <2> DEFINE sample == log[first]
             cased == [body EXCEPT !.case = IF sample.case = "none" \/ @ = "none" THEN @
                                            ELSE sample.case]
             like == [cased EXCEPT !.period = sample.period]
             prefixed == [like EXCEPT !.prefix = sample.prefix]
             renamed == [prefixed EXCEPT !.kind = "plain"]
  <2>5. subject' = IF sample.prefix = NoPrefix THEN like ELSE renamed
    <3>1. (CHOOSE s \in {sample} : TRUE) = sample
      OBVIOUS
    <3>2. {sample} # {}
      OBVIOUS
    <3> HIDE DEF sample
    <3> QED
      BY <1>2, <2>4, <3>1, <3>2 DEF FormatSubjectLikeRecentCommits, FormatSubjectBody, sample
  <2>6. /\ sample.case = "none" => \A j \in Plain(log) : log[j].case = "none"
        /\ \A j \in Plain(log) : Alike(sample, log[j])
    BY <2>2 DEF OneStyle
  <2> HIDE DEF sample
  <2>7. /\ cased.kind = "plain" /\ cased.prefix = NoPrefix
        /\ cased.case = IF sample.case = "none" THEN body.case ELSE sample.case
        /\ DOMAIN cased = DOMAIN body
    BY <1>1
  <2> HIDE DEF cased
  <2>8. /\ like.kind = "plain" /\ like.prefix = NoPrefix /\ like.case = cased.case
        /\ like.period = sample.period /\ DOMAIN like = DOMAIN body
    BY <1>1, <2>7
  <2> HIDE DEF like
  <2>9. /\ prefixed.prefix = sample.prefix /\ prefixed.case = cased.case
        /\ prefixed.period = sample.period /\ DOMAIN prefixed = DOMAIN body
    BY <1>1, <2>8
  <2> HIDE DEF prefixed
  <2>10. /\ renamed.prefix = sample.prefix /\ renamed.case = cased.case
         /\ renamed.period = sample.period /\ renamed.kind = "plain"
    BY <1>1, <2>9
  <2> HIDE DEF renamed
  <2>11. /\ subject'.prefix = sample.prefix /\ subject'.period = sample.period
         /\ subject'.kind = "plain"
         /\ subject'.case = IF sample.case = "none" THEN body.case ELSE sample.case
    BY <2>5, <2>7, <2>8, <2>10
  <2>12. ASSUME NEW i \in Plain(log) PROVE Alike(subject', log[i])
    BY <1>1, <2>6, <2>11 DEF Alike
  <2> QED
    BY <1>1, <2>11, <2>12 DEF Fits
<1> QED
  BY <1>3, <1>4

LEMMA StyleStep == ASSUME Styled, StyleInv, [Next]_vars PROVE StyleInv'
<1>1. CASE \/ Edit \/ (\E t \in Tasks : StartTask(t)) \/ (\E done \in BOOLEAN : WorkerDone(done))
           \/ WorkerFails \/ Obsolete \/ Replan \/ Root \/ Add \/ Names \/ Restore \/ Reset
           \/ Diff \/ Hash \/ UNCHANGED vars
  <2>1. UNCHANGED <<log, subject>>
    BY <1>1 DEF Edit, StartTask, WorkerDone, WorkerFails, Obsolete, Replan, Root, Add, Names,
                Restore, Reset, Diff, Hash, vars
  <2>2. /\ step' \in {"add", "names", "restore", "reset", "diff", "commit"} =>
              step \in {"add", "names", "restore", "reset", "diff", "commit"}
        /\ step' # "idle" => current' \in Tasks
    BY <1>1 DEF Edit, StartTask, WorkerDone, WorkerFails, Obsolete, Replan, Root, Add, Names,
                Restore, Reset, Diff, Hash, vars, Command, Continue, Return, StyleInv
  <2> QED
    BY <2>1, <2>2 DEF StyleInv, OneStyle, Fits
<1>2. CASE Log
  <2>1. current \in Tasks /\ UNCHANGED <<log, current>> /\ step' = "add"
    BY <1>2 DEF Log, Command, Continue, StyleInv
  <2>2. Fits(subject', log)
    BY <1>2, <2>1, MessageFits DEF StyleInv
  <2> QED
    BY <2>1, <2>2 DEF StyleInv, OneStyle, Fits
<1>3. CASE Commit
  <2>1. /\ current' = current /\ current \in Tasks /\ Fits(subject, log)
        /\ step' \in {"idle", "hash"}
    BY <1>3 DEF Commit, Command, Continue, Return, StyleInv
  <2>2. log' = <<subject>> \o log \/ log' = log
    BY <1>3 DEF Commit
  <2>3. OneStyle(<<subject>> \o log)
    BY <2>1, CommittedInStyle DEF StyleInv
  <2>4. OneStyle(log')
    BY <2>2, <2>3 DEF StyleInv
  <2> QED
    BY <2>1, <2>4 DEF StyleInv, OneStyle
<1> QED
  BY <1>1, <1>2, <1>3 DEF Next

\* StyleKept for any titles, plans, retries and edits: a commit of the run follows the
\* newest plain one, and is the next one's example.
THEOREM StyleIsKept ==
    ASSUME Styled
    PROVE  Spec => []StyleKept
<1>1. Init => StyleInv
  BY DEF Init, StyleInv, Styled
<1>2. StyleInv /\ [Next]_vars => StyleInv'
  BY StyleStep
<1>3. StyleInv => StyleKept
  BY DEF StyleInv, StyleKept, OneStyle, Plain, Alike, ToSet
<1> QED
  BY <1>1, <1>2, <1>3, PTL DEF Spec
=============================================================================
