---------------------------- MODULE MCTaskCommits ----------------------------
(* Two source files, the run's files, a result of another run; two tasks.   *)
EXTENDS TaskCommits

Subject(prefix, case, period, kind) ==
    [prefix |-> prefix, case |-> case, period |-> period, kind |-> kind]
Merge == Subject("none", "upper", FALSE, "merge")
Generated == Subject("none", "upper", FALSE, "generated")

MCTitle == [t1 |-> Subject("none", "upper", TRUE, "plain"),
            t2 |-> Subject("none", "lower", FALSE, "generated")]
\* The newest commit that is neither a merge nor generated is the example, if any.
MCHistories == { <<>>, <<Generated, Merge, Subject("feat: ", "lower", TRUE, "plain")>> }

\* A tracked file that is clean, changed, staged, or staged and changed back, and one
\* that is new or not there; the run's files are ignored, or there are results of
\* another run.
Tracked == {[head |-> 1, work |-> w, index |-> i] : w \in 1..2, i \in 1..2}
Untracked(here) == [head |-> 0, work |-> IF here THEN 1 ELSE 0, index |-> 0]
Tree(a, b, run, stray) ==
    [field \in {"head", "work", "index"} |->
        [a |-> a[field], b |-> b[field], run |-> run[field], stray |-> stray[field]]]
MCTrees == {Tree(a, b, Untracked(other), Untracked(~other)) :
                a \in Tracked, b \in {Untracked(FALSE), Untracked(TRUE)},
                other \in BOOLEAN}
=============================================================================
