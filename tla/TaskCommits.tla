----------------------------- MODULE TaskCommits -----------------------------
(***************************************************************************)
(* The commits of a run with commits enabled (src/src/git.ts and its calls   *)
(* in the worker loop of src/src/coordinator.ts).  Every await of a git      *)
(* command is a step of its own, before which the user may edit any file.    *)
(* A file has a content in the working tree, in the index and in HEAD.       *)
(***************************************************************************)
EXTENDS Naturals, FiniteSets, Sequences, SequencesExt

CONSTANTS Tasks, NoTask,
          Plans,        \* the sets of tasks a run may start with
          Paths,
          RunFiles,     \* TODO.md, TASK_RESULT.md and what else the run directory holds
          Strays,       \* TASK_RESULT.md files elsewhere
          Contents, Missing,
          Trees,        \* the states of the repository a run may start in
          Title,        \* the title of each task, as a subject
          Histories,    \* the user's commits, newest first
          RecentLimit,  \* RECENT_COMMIT_SUBJECT_LIMIT
          Failing,      \* the git commands that may fail
          MaxEdits, MaxAttempts

ASSUME LimitAssumption == RecentLimit \in Nat \ {0}
ASSUME PathAssumption == RunFiles \subseteq Paths /\ Strays \subseteq Paths
ASSUME TreeAssumption == \A tree \in Trees : {tree.head, tree.index, tree.work}
                                                \subseteq [Paths -> Contents]

VARIABLES work, index, head,  \* the content of each path
          log,        \* the subjects of the commits, newest first
          pending,    \* tasks to do
          attempts,   \* attempts of each task
          baseline,   \* protectedDirtyPathsByTask
          step,       \* what the run waits for: a worker or a git command
          current,    \* the task it is about
          subject,    \* the commit message
          excluded,   \* the paths to unstage
          report      \* what the last call of commitAfterSession returned

\* What the properties compare with, and the bound on edits.
VARIABLES local,      \* paths with uncommitted changes ever since the run began
          origin,     \* paths with changes when each task was first started
          added,      \* the working tree when it was staged
          edits

files == <<work, index, head>>
history == <<local, origin, added, edits>>
vars == <<files, log, pending, attempts, baseline, step, current, subject, excluded,
          report, history>>

-----------------------------------------------------------------------------
\* Subjects: [prefix, case, period, kind].  A prefix is a conventional one such as
\* "feat(api): "; kind is "plain", "merge" (or revert) or "generated" (by an older
\* version of the program, "Complete TODO 3"), and "blank" where nothing is left of it.
NoPrefix == "none"
DefaultSubject == [prefix |-> NoPrefix, case |-> "upper", period |-> FALSE, kind |-> "plain"]

\* normalizedTaskSubject: a generated prefix and the final punctuation go.
NormalizedTaskSubject(title) ==
    IF title.kind = "blank" THEN DefaultSubject
    ELSE [title EXCEPT !.period = FALSE,
                       !.kind = IF @ = "generated" THEN "plain" ELSE @]

\* Mutant: whatever was committed last is the example.
RecentCommitSubjects_Last == {log[i] : i \in DOMAIN log \intersect {1}}

\* recentCommitSubjects, of which the newest is the example.
RecentCommitSubjects ==
    LET plain == {i \in DOMAIN log : i <= RecentLimit /\ log[i].kind = "plain"}
    IN  {log[i] : i \in {j \in plain : \A k \in plain : j <= k}}

\* formatSubjectBody; a body without a letter has case "none".
FormatSubjectBody(body, sample) ==
    [body EXCEPT !.case = IF sample.case = "none" \/ @ = "none" THEN @ ELSE sample.case,
                 !.period = sample.period]

\* formatSubjectLikeRecentCommits: a conventional prefix is taken over as it is, and
\* then decides that the subject is neither a merge nor a revert.
FormatSubjectLikeRecentCommits(body, recent) ==
    IF recent = {} THEN body
    ELSE LET sample == CHOOSE s \in recent : TRUE
             like   == FormatSubjectBody(body, sample)
         IN  IF sample.prefix = NoPrefix THEN like
             ELSE [like EXCEPT !.prefix = sample.prefix, !.kind = "plain"]

-----------------------------------------------------------------------------
Dirty == {p \in Paths : work[p] # index[p] \/ index[p] # head[p]}

\* The files that never enter a commit, whether or not the task changed them.
Artifacts == RunFiles \union {p \in Strays : index[p] # head[p]}

\* A git command may fail; Results are what the caller makes of it.
MayFail(command) == command \in Failing
Results(command, usual, failed) == {usual} \union (IF MayFail(command) THEN {failed} ELSE {})

Init == /\ \E tree \in Trees : head = tree.head /\ index = tree.index /\ work = tree.work
        /\ log \in Histories
        /\ pending \in Plans
        /\ attempts = [t \in Tasks |-> 0]
        /\ baseline = [t \in Tasks |-> {}]
        /\ step = "idle"
        /\ current = NoTask
        /\ subject = DefaultSubject
        /\ excluded = {}
        /\ report = "none"
        /\ local = {p \in Paths : work[p] # head[p]}
        /\ origin = [t \in Tasks |-> {}]
        /\ added = work
        /\ edits = 0

\* The user edits a file at any time, a worker while it works.
Edit ==
    /\ edits < MaxEdits
    /\ \E p \in Paths \ RunFiles, content \in Contents :
        /\ work[p] # content
        /\ work' = [work EXCEPT ![p] = content]
    /\ local' = {p \in local : work'[p] # head[p]}
    /\ edits' = edits + 1
    /\ UNCHANGED <<index, head, log, pending, attempts, baseline, step, current,
                   subject, excluded, report, origin, added>>

-----------------------------------------------------------------------------
\* Mutant: every attempt looks again.
Baseline_EachAttempt(t) == {Dirty \ RunFiles}

\* The worker loop takes a task.  Only its first attempt looks for changes that
\* are there already; gitDirtyPaths takes a command that fails for a clean tree, be
\* it the one that finds the repository or git status ("status" stands for both).
Baseline(t) ==
    IF attempts[t] > 0 THEN {baseline[t]}
    ELSE Results("status", Dirty \ RunFiles, {})

StartTask(t) ==
    /\ step = "idle"
    /\ t \in pending
    /\ attempts[t] < MaxAttempts
    /\ \E paths \in Baseline(t) : baseline' = [baseline EXCEPT ![t] = paths]
    /\ origin' = [origin EXCEPT ![t] = IF attempts[t] = 0 THEN Dirty ELSE @]
    /\ attempts' = [attempts EXCEPT ![t] = @ + 1]
    /\ step' = "worker"
    /\ current' = t
    /\ report' = "none"
    /\ UNCHANGED <<files, log, pending, subject, excluded, local, added, edits>>

\* The worker is done, reports partial or blocked work, or fails or runs out of
\* time: shouldCommitOutcome refuses the last.
WorkerDone(done) ==
    /\ step = "worker"
    /\ pending' = IF done THEN pending \ {current} ELSE pending
    /\ step' = "root"
    /\ UNCHANGED <<files, log, attempts, baseline, current, subject, excluded, report,
                   history>>

WorkerFails ==
    /\ step = "worker"
    /\ step' = "idle"
    /\ report' = "skipped"
    /\ UNCHANGED <<files, log, pending, attempts, baseline, current, subject, excluded,
                   history>>

\* A revision replaced the task or removed it while the worker was busy: nothing of
\* it is committed.
Obsolete ==
    /\ step = "worker"
    /\ \E new \in SUBSET {t \in Tasks : attempts[t] = 0} :
          pending' = (pending \ {current}) \union new
    /\ step' = "idle"
    /\ report' = "skipped"
    /\ UNCHANGED <<files, log, attempts, baseline, current, subject, excluded, history>>

\* A revision adds, removes, rewords (the task gets another identity) or reorders
\* tasks between attempts.
Replan ==
    /\ step = "idle"
    /\ \E t \in pending, new \in {u \in Tasks : attempts[u] = 0} \ pending :
          pending' = (pending \ {t}) \union {new}
    /\ UNCHANGED <<files, log, attempts, baseline, step, current, subject, excluded,
                   report, history>>

-----------------------------------------------------------------------------
\* commitAfterSession: what a command leaves alone, and how it returns.
Command(at) == step = at /\ UNCHANGED <<pending, attempts, baseline, current, local,
                                        origin, edits>>
Return(result) == step' = "idle" /\ report' = result
Continue(next) == step' = next /\ UNCHANGED report

\* gitRoot.
Root ==
    /\ Command("root")
    /\ \/ Continue("log")
       \/ MayFail("root") /\ Return("error")
    /\ UNCHANGED <<files, log, subject, excluded, added>>

\* commitMessageForOutcome; a history that cannot be read is an empty one.
Log ==
    /\ Command("log")
    /\ \E recent \in Results("log", RecentCommitSubjects, {}) :
          subject' = FormatSubjectLikeRecentCommits(NormalizedTaskSubject(Title[current]),
                                                    recent)
    /\ Continue("add")
    /\ UNCHANGED <<files, log, excluded, added>>

\* git add -A.
Add ==
    /\ Command("add")
    /\ \/ index' = work /\ added' = work /\ Continue("names")
       \/ MayFail("add") /\ Return("error") /\ UNCHANGED <<index, added>>
    /\ UNCHANGED <<work, head, log, subject, excluded>>

\* stagedArtifactPaths, which finds nothing where git fails, and the other excluded
\* paths.
Excluded(artifacts) == RunFiles \union baseline[current] \union artifacts
Names ==
    /\ Command("names")
    /\ \E artifacts \in Results("names", Artifacts, {}) :
          excluded' = Excluded(artifacts)
    /\ Continue("restore")
    /\ UNCHANGED <<files, log, subject, added>>

\* unstagePaths: git restore --staged does nothing at all where one path is unknown
\* to git (a run directory that is ignored, a file that was deleted again) or there is
\* no commit yet; git reset does it then.  What they return is ignored.
Unstaged == [p \in Paths |-> IF p \in excluded THEN head[p] ELSE index[p]]
Restore ==
    /\ Command("restore")
    /\ index' \in IF \A p \in excluded : index[p] # Missing \/ head[p] # Missing
                 THEN Results("restore", Unstaged, index) ELSE {index}
    /\ Continue("reset")
    /\ UNCHANGED <<work, head, log, subject, excluded, added>>
\* Mutant: git restore is all there is.
Reset_RestoreOnly ==
    /\ Command("reset")
    /\ Continue("diff")
    /\ UNCHANGED <<files, log, subject, excluded, added>>
Reset ==
    /\ Command("reset")
    /\ index' \in Results("reset", Unstaged, index)
    /\ Continue("diff")
    /\ UNCHANGED <<work, head, log, subject, excluded, added>>

\* git diff --cached --quiet.
Diff ==
    /\ Command("diff")
    /\ \/ index = head /\ Return("no staged diff")
       \/ index # head /\ Continue("commit")
       \/ MayFail("diff") /\ Return("error")
    /\ UNCHANGED <<files, log, subject, excluded, added>>

\* git commit, which a hook may refuse.
Commit ==
    /\ Command("commit")
    /\ \/ head' = index /\ log' = <<subject>> \o log /\ Continue("hash")
       \/ MayFail("commit") /\ Return("error") /\ UNCHANGED <<head, log>>
    /\ UNCHANGED <<work, index, subject, excluded, added>>

\* git rev-parse --short HEAD.
Hash ==
    /\ Command("hash")
    /\ \/ Return("hash")
       \/ MayFail("hash") /\ Return("error")
    /\ UNCHANGED <<files, log, subject, excluded, added>>

Next == \/ Edit
        \/ \E t \in Tasks : StartTask(t)
        \/ \E done \in BOOLEAN : WorkerDone(done)
        \/ WorkerFails \/ Obsolete \/ Replan
        \/ Root \/ Log \/ Add \/ Names \/ Restore \/ Reset \/ Diff \/ Commit \/ Hash

Spec == Init /\ [][Next]_vars

-----------------------------------------------------------------------------
\* "Generated run files and pre-existing dirty files are kept out of those commits"
\* (README.md:19), "files that were dirty before a worker started are not included"
\* (README.md:451): what was changed and not committed when the run began, and is so
\* still, and what was when the task of the commit was first started, be it by the user
\* or by a task before, is in no commit, whatever attempts, revisions and failed
\* commands come in between (those that find out what to keep out, and git reset, do
\* not fail); nor are the files of this run or the results of other ones.
KeptOut ==
    [][\A p \in Paths : head'[p] # head[p] =>
          p \notin local \union origin[current] \union RunFiles \union Strays]_vars

\* A hash, or a skip for want of a staged change, means that everything the task
\* changed in all its attempts is committed: the files that were clean when it was
\* first started are committed as they were staged.
CompletedWorkCommitted ==
    step = "idle" /\ report \in {"hash", "no staged diff"} =>
        \A p \in Paths \ (origin[current] \union RunFiles \union Strays) : head[p] = added[p]

\* The commits of a run keep to the style of the user's: a commit of the run is the
\* next one's example, and nothing drifts.
StyleKept ==
    \A s, t \in {u \in ToSet(log) : u.kind = "plain"} :
        /\ s.prefix = t.prefix
        /\ s.period = t.period
        /\ s.case = t.case \/ "none" \in {s.case, t.case}
=============================================================================
