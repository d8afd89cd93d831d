------------------------------ MODULE TodoPlan ------------------------------
(***************************************************************************)
(* The TODO document of a run: made of the input or of the planner's        *)
(* answers (generateOrNormalizeTodoMarkdown of src/src/coordinator.ts),     *)
(* then checked off task by task and revised (src/src/plan_store.ts,        *)
(* src/src/plan_revision_generation.ts).  PlanReconcile decides about tasks;*)
(* here its decisions become lines, and the lines are read again.           *)
(***************************************************************************)
EXTENDS TodoGenerator, FiniteSets

CONSTANTS Inputs,       \* texts a user may supply
          Goals,        \* kinds of goal
          Constraints,  \* lines about what workers cannot do
          SpecLines,    \* lines about the specification of a goal
          Answers,      \* texts the planner may answer with
          Revisions(_), \* texts it may answer with when it revises a document
          NoRevision,   \* the value of a reconciliation that throws
          MaxRevisions

VARIABLES phase,     \* "input", "generated", "planner", "repair", "running", "failed"
          input,     \* the text the plan is to be made of
          goal,
          additions, \* the lines its workers have to be told besides the goal
          doc,       \* TODO.md, <<>> before there is one
          tasks,     \* the tasks read from it
          revisions  \* revisions asked for

vars == <<phase, input, goal, additions, doc, tasks, revisions>>

\* A run starts from the user's input, or from the TODO document that the planning
\* run of a goal wrote.
Init == /\ \/ phase = "input" /\ input \in Inputs /\ additions = Constraints
           \/ phase = "generated" /\ input \in Answers /\ additions = SpecLines
        /\ goal \in Goals
        /\ doc = <<>>
        /\ tasks = <<>>
        /\ revisions = 0

-----------------------------------------------------------------------------
\* Reconciliation of tasks, and what the store promises of the document.
Register == INSTANCE PlanRegister WITH todo <- tasks

\* sectionWithStableId: the first marker, fenced or not, becomes this one.
WithMarker(section, id) ==
    LET markers == Of(section, {"marker"})
        marker  == Line("marker", 0, id, FALSE)
    IN  IF markers = {} THEN InsertAt(section, 2, marker)
        ELSE ReplaceAt(section, Min(markers), marker)

\* taskForState and renumberTaskSection: the section of a reconciled task.
SectionOf(item, k, prev, rev) ==
    LET task    == IF item.revised # 0 THEN rev[item.revised] ELSE prev[item.previous]
        section == SetTaskDone(WithMarker(task.section, item.identity),
                               task.taskId, item.state = "completed")
    IN  ReplaceAt(section, 1, Heading(k, item.title))

\* renderReconciledTodoMarkdown.
RenderTodo(proposal, active, prev, rev) ==
    LET at == FirstOf(Of(proposal, {"progress"}), Len(proposal) + 1)
    IN  Document(SubSeq(proposal, 1, at - 1), Register!Render(active),
                 [k \in DOMAIN active |-> SectionOf(active[k], k, prev, rev)])

\* taskWithStableId of src/src/plan_store.ts: the first marker goes, and this one
\* comes after the heading.
Remarked(task, id) ==
    LET markers == Of(task.section, {"marker"})
        bare    == IF markers = {} THEN task.section
                   ELSE RemoveAt(task.section, Min(markers))
    IN  [task EXCEPT !.stableId = id,
                     !.section = IF id = NoId THEN bare
                                 ELSE InsertAt(bare, 2, Line("marker", 0, id, FALSE))]

\* What reconciliation makes of some new tasks, and the document rendered from it;
\* <<>> where one of them throws.
Reconciled(targets) ==
    Register!Reconcile(tasks, AsPlan(targets), 0, Register!Pending(tasks), {}, revisions + 1)
Rendered(result, proposal, targets) ==
    IF result = NoRevision THEN <<>>
    ELSE RenderTodo(proposal, result.active, ParseTasks(doc), targets)

\* generatePlanRevision proposes a document, and applyRevision makes its own of it.
Targets(parsed, active) ==
    AsTuple([k \in DOMAIN parsed |->
        IF active[k].previous # 0 /\ active[k].kind # "follow_up" /\ active[k].revised # 0
        THEN Remarked(parsed[k], tasks[active[k].previous].id)
        ELSE parsed[k]])
Apply(proposed, targets) == Rendered(Reconciled(targets), proposed, targets)
ApplyRevision(proposed, active) ==
    IF ~IsValidTodo(proposed) THEN <<>>
    ELSE Apply(proposed, Targets(ParseTasks(proposed), active))
Generate(result, proposal, targets) ==
    ApplyRevision(Rendered(result, proposal, targets), result.active)
Revised(proposal, targets) == Generate(Reconciled(targets), proposal, targets)

-----------------------------------------------------------------------------
SetDoc(lines) == doc' = lines /\ tasks' = PlanTasks(lines)

Adopt(plan) ==
    /\ IF IsValidTodo(plan) THEN SetDoc(plan) /\ phase' = "running"
       ELSE phase' = "failed" /\ UNCHANGED <<doc, tasks>>
    /\ UNCHANGED <<input, goal, additions, revisions>>

\* The input is a plan, or a list of items: no planner is asked.
Normalize ==
    /\ phase = "input"
    /\ IsTodoInput(input)
    /\ Adopt(WithConstraints(FromString(input, goal), additions))

Ask(next) ==
    /\ phase' = next
    /\ input' \in Answers
    /\ UNCHANGED <<goal, additions, doc, tasks, revisions>>

AskPlanner == phase = "input" /\ ~IsTodoInput(input) /\ Ask("planner")

\* extractAndValidateTodoMarkdown finds a plan in the answer; the goal and what else
\* the workers are told are added to it.
AnswerAdopted ==
    /\ phase \in {"planner", "repair", "generated"}
    /\ \E plan \in ExtractTodo(input) :
          Adopt(WithConstraints(WithGoal(plan, goal), additions))

\* It finds none: the planner gets one repair, and no second one.
AnswerRefused ==
    /\ phase \in {"planner", "repair", "generated"}
    /\ ExtractTodo(input) = {}
    /\ \/ phase = "planner" /\ Ask("repair")
       \/ /\ phase # "planner"
          /\ phase' = "failed"
          /\ UNCHANGED <<input, goal, additions, doc, tasks, revisions>>

\* completeTask, which refuses to write a document that is not valid.
Complete ==
    /\ phase = "running"
    /\ \E task \in ToSet(ParseTasks(doc)) :
        /\ ~task.done
        /\ \E lines \in {MarkTaskDone(doc, task.taskId)} : IsValidTodo(lines) /\ SetDoc(lines)
    /\ UNCHANGED <<phase, input, goal, additions, revisions>>

Installed(plans) == OrElse({plan \in plans : IsValidTodo(plan)}, {doc})

\* A revision is generated and applied, or refused and the document stays.
Revise ==
    /\ phase = "running"
    /\ revisions < MaxRevisions
    /\ \E text \in Revisions(doc) :
        \E lines \in Installed({Revised(plan, ParseTasks(plan)) : plan \in ExtractTodo(text)}) :
            SetDoc(lines)
    /\ revisions' = revisions + 1
    /\ UNCHANGED <<phase, input, goal, additions>>

Next == Normalize \/ AskPlanner \/ AnswerAdopted \/ AnswerRefused \/ Complete \/ Revise

Spec == Init /\ [][Next]_vars

-----------------------------------------------------------------------------
Adopted == phase # "running" /\ phase' = "running"

\* "Checked progress in pasted TODO markdown is preserved" (README.md): a pasted
\* plan, or one the planner wrote without fences, is adopted with its tasks in
\* their order, each with its title, its checkbox and everything its section said,
\* and with the instructions above it.  (Instructions that end inside a fence, as they
\* do where the first Progress heading is a quoted one, hide the plan laid out below.)
PlanIsFaithful ==
    [][Adopted /\ HasTodoHeadings(input) /\ Unfenced(doc')
               /\ (phase = "input" \/ Of(input, Fences) = {}) =>
        LET given == ParseTasks(input)
            plan  == ParseTasks(doc')
            added == {CoverageBullet, Bare("verify")}
            kept(section) == SelectSeq(Tail(section), LAMBDA line : line \notin added)
        IN  /\ Len(plan) = Len(given)
            /\ \A k \in DOMAIN plan :
                /\ plan[k].title = CleanTitle(given[k].title)
                /\ plan[k].done = given[k].done
                /\ plan[k].stableId = given[k].stableId
                /\ IsPrefix(kept(given[k].section), kept(plan[k].section))
            /\ phase = "input" =>
                ToSet(SubSeq(input, 1, given[1].from - 1)) \ ToSet(Preamble(doc'))
                    \subseteq {line \in ToSet(input) : line.kind \in {"progress", "rule", "box"}}
      ]_vars

\* The document supplied again as the input of another run is the same document, and
\* as long as it is not revised a run with the same goal adds nothing to it either:
\* completed tasks are skipped and no worker's reference loses its task.  (A title
\* that ends with two periods loses one each time, and a plan that a fence hides is
\* laid out behind the fence again.)
SuppliedAgain ==
    /\ phase = "running"
    /\ Unfenced(doc)
    /\ \A line \in ToSet(doc) : line.kind = "heading" => line.t[2] = 0
    =>
        /\ IsTodoInput(doc)
        /\ \A told \in {<<"none", <<>>>>, <<goal, additions>>} :
              revisions = 0 \/ told[1] = "none" =>
                  WithConstraints(FromString(doc, told[1]), told[2]) = doc

\* Validation, which skips fenced lines, and the parser, which does not, see the
\* same progress wherever no fence hides the progress section; and no completion
\* can be refused by validation, there or anywhere.
ProgressAgrees ==
    phase = "running" =>
        /\ Unfenced(doc) =>
              LET boxes == ProgressEntries(doc, ParseTasks(doc)[1].from)
              IN  \A k \in DOMAIN tasks : boxes[k].done = tasks[k].done
        /\ \A lines \in {doc} \union {MarkTaskDone(doc, k) : k \in DOMAIN tasks} :
              IsValidTodo(lines)

\* A bullet that was added is there once, unless the user or the planner repeats it.
Count(lines, bullet) == Cardinality({i \in DOMAIN lines : lines[i] = bullet})
AddedOnce(lines, bullet) == Count(lines, bullet) \in {0, 1, Count(input, bullet)}

\* Every worker is told the goal, or that its instructions were cut, and every task
\* of a coverage goal is told to verify it; and neither is told again what it says
\* already, be it within a longer line.  (A revision may drop what its planner does
\* not repeat.)
GoalReachesWorkers ==
    phase = "running" /\ revisions = 0 =>
        /\ LET told == GlobalInstructions(doc)
           IN  \A bullet \in ToSet(GoalLines(goal)) :
                  /\ Says(told, bullet) \/ Last(told) = Truncated
                  /\ AddedOnce(told, bullet)
        /\ goal = "coverage" =>
              \A task \in ToSet(ParseTasks(doc)) :
                /\ Says(task.section, CoverageBullet)
                /\ AddedOnce(task.section, CoverageBullet)

\* Read as tasks, the document changes as the register of PlanRegister: one task is
\* checked off, or a revision is installed that keeps identities and history.  (A
\* marker inside a fence is written to, but not read.)
ImplementsRegister ==
    [][phase = "running" /\ Of(doc', {"marker"}) \subseteq Visible(doc') =>
            Register!Next \/ UNCHANGED tasks]_vars
=============================================================================
