---------------------------- MODULE TodoGenerator ----------------------------
(***************************************************************************)
(* How src/src/todo_generator.ts makes a TODO document: from pasted TODO    *)
(* markdown, from a list of items, or out of a planner's answer, and how it *)
(* adds the goal and the workers' constraints.  An operation that throws    *)
(* yields a document that IsValidTodo refuses.                              *)
(***************************************************************************)
EXTENDS TodoDocument

CONSTANT Inside  \* pairs of texts: a line of the second contains the bullet of the first

Bullet(t) == Line("item", 0, t, FALSE)

\* String.includes: a line contains a bullet, as it is or within a longer text.
Includes(line, bullet) == line = bullet \/ <<bullet.t, line.t>> \in Inside
Says(lines, bullet) == \E i \in DOMAIN lines : Includes(lines[i], bullet)

\* cleanTitle: one period at the end is dropped.
CleanTitle(title) == <<title[1], IF title[2] > 0 THEN title[2] - 1 ELSE 0>>

-----------------------------------------------------------------------------
\* The four parts of a section that the generator writes.
GoalPart(title) == <<Line("goal", 0, title, FALSE)>>
StatusPart(title) == <<Bare("status"), Line("check", 0, title, FALSE)>>
VerifyPart == <<Bare("verify"), Bullet(<<"run focused checks">>)>>
DonePart == <<Bare("donewhen"), Bullet(<<"implemented and verified">>)>>

Unless(condition, lines) == IF condition THEN <<>> ELSE lines

\* normalizeTaskSection: the body, and the parts it lacks after it.
NormalizedSection(n, title, body) ==
    <<Heading(n, title)>> \o body
        \o Unless(Has(body, "goal"), GoalPart(title))
        \o Unless(Has(body, "status"), StatusPart(title))
        \o Unless(~Has(body, "status") \/ Of(body, Checkboxes) # {},
                  Tail(StatusPart(title)))
        \o Unless(MentionsChecks(<<Heading(n, title)>> \o body), VerifyPart)
        \o Unless(Has(body, "donewhen"), DonePart)

\* The document that normalizeExistingTodoMarkdown, generatedTodoMarkdown and
\* renderReconciledTodoMarkdown lay out.
Document(prefix, tasks, sections) ==
    prefix \o <<Bare("progress")>>
        \o [k \in DOMAIN tasks |-> Box(k, tasks[k].title, tasks[k].done)]
        \o <<Bare("rule")>> \o FlattenSeq(sections)

\* extractGlobalInstructions.
ExtractGlobals(input) ==
    SelectSeq(Preamble(input), LAMBDA line : line.kind # "title")

\* normalizeExistingTodoMarkdown: the tasks in their order under new numbers.
Renumbered(input, found) ==
    LET tasks == [k \in DOMAIN found |->
                    [title |-> CleanTitle(found[k].title), done |-> found[k].done]]
    IN  Document(<<Bare("title")>> \o ExtractGlobals(input), tasks,
                 [k \in DOMAIN found |->
                    NormalizedSection(k, tasks[k].title, Tail(found[k].section))])

\* Mutant: every task of a pasted plan starts unchecked.
Normalized_Unchecked(input) ==
    LET found == ParseTasks(input)
    IN  Renumbered(input, [k \in DOMAIN found |-> [found[k] EXCEPT !.done = FALSE]])

Normalized(input) == Renumbered(input, ParseTasks(input))

\* simpleListItems: every line is a bullet, and there are two at least.  A check
\* mark goes; the number of a box stays in the text.
Item(line) ==
    CleanTitle(IF line.kind = "box" THEN <<<<"TODO", line.n>> \o line.t[1], line.t[2]>>
               ELSE line.t)
ListItems(input) ==
    IF Len(input) >= 2 /\ Of(input, {"item"} \union Checkboxes) = DOMAIN input
    THEN [i \in DOMAIN input |-> Item(input[i])]
    ELSE <<>>

\* generatedTodoMarkdown.
Generated(items) ==
    LET tasks == [k \in DOMAIN items |->
                    [title |-> CleanTitle(items[k]), done |-> FALSE]]
        section(k, title) == <<Heading(k, title)>> \o GoalPart(title)
                                \o StatusPart(title) \o VerifyPart \o DonePart
    IN  Document(<<Bare("title")>>, tasks,
                 [k \in DOMAIN tasks |-> section(k, tasks[k].title)])

-----------------------------------------------------------------------------
\* Mutant: the additions are inserted whether they are there or not.
InsertGlobals_Again(lines, additions) ==
    LET at == FirstOf(Of(lines, {"progress"}), Len(lines) + 1)
    IN  IF at > Len(lines) \/ additions = <<>> THEN lines
        ELSE SubSeq(lines, 1, at - 1) \o <<Bare("globals")>> \o additions
                \o SubSeq(lines, at, Len(lines))

\* insertGlobalInstructions: what no line above Progress contains goes right before it.
InsertGlobals(lines, additions) ==
    LET at == FirstOf(Of(lines, {"progress"}), Len(lines) + 1)
        above == SubSeq(lines, 1, at - 1)
        missing == SelectSeq(additions, LAMBDA bullet : ~Says(above, bullet))
        header == Unless(Has(above, "globals"), <<Bare("globals")>>)
    IN  IF at > Len(lines) \/ missing = <<>> THEN lines
        ELSE above \o header \o missing \o SubSeq(lines, at, Len(lines))

\* goalInstructionLines, for no goal, a goal, and a goal of test coverage.
GoalLines(goal) ==
    CASE goal = "none"  -> <<>>
      [] goal = "plain" -> <<Bullet(<<"long task goal">>)>>
      [] OTHER -> <<Bullet(<<"long task goal">>), Bullet(<<"coverage goal">>),
                    Bullet(<<"coverage verification">>)>>

CoverageBullet == Bullet(<<"verify the coverage">>)

\* Mutant: a section without a Verify field is passed over.
CoveredSection_VerifyOnly(section) ==
    IF Says(section, CoverageBullet) \/ ~Has(section, "verify") THEN section
    ELSE InsertAt(section, Min(Of(section, {"verify"})) + 1, CoverageBullet)

\* One section of appendCoverageVerificationToTasks: the bullet comes first under
\* Verify, or in a Verify field before Done when.
CoveredSection(section) ==
    LET done == FirstOf(Of(section, {"donewhen"}), Len(section) + 1)
    IN  IF Says(section, CoverageBullet) THEN section
        ELSE IF Has(section, "verify")
        THEN InsertAt(section, Min(Of(section, {"verify"})) + 1, CoverageBullet)
        ELSE SubSeq(section, 1, done - 1) \o <<Bare("verify"), CoverageBullet>>
                \o SubSeq(section, done, Len(section))

\* appendCoverageVerificationToTasks.
Covered(lines, tasks) ==
    IF tasks = <<>> THEN lines
    ELSE SubSeq(lines, 1, tasks[1].from - 1)
            \o FlattenSeq([k \in DOMAIN tasks |-> CoveredSection(tasks[k].section)])
AppendCoverage(lines) == Covered(lines, ParseTasks(lines))

\* applyGoalInstructionsToTodoMarkdown.
WithGoal(lines, goal) ==
    LET next == InsertGlobals(lines, GoalLines(goal))
    IN  IF goal = "coverage" THEN AppendCoverage(next) ELSE next

\* applyWorkerCapabilityConstraintsToTodoMarkdown.
WithConstraints(lines, constraints) == InsertGlobals(lines, constraints)

-----------------------------------------------------------------------------
HasTodoHeadings(input) == Of(input, {"heading"}) # {}

\* todoMarkdownFromString: whether it is one, and the document.
IsTodoInput(input) == HasTodoHeadings(input) \/ ListItems(input) # <<>>
FromString(input, goal) ==
    WithGoal(IF HasTodoHeadings(input) THEN Normalized(input)
             ELSE Generated(ListItems(input)), goal)

\* normalizeCandidate: the document as a set of at most one.
Candidate(lines) ==
    {doc \in {FromString(lines, "none")} : IsTodoInput(lines) /\ IsValidTodo(doc)}

\* fencedMarkdownBlocks: the lines between a fence without a language and the
\* next fence after it, whatever their lengths, from left to right.
FencedBlocks(text) ==
    LET fences == Of(text, {"fence"})
        blocks[i \in 1..(Len(text) + 2)] ==
            LET open  == FirstOf({f \in fences : f >= i /\ text[f].t = NoText},
                                 Len(text) + 1)
                close == FirstOf({f \in fences : f > open + 1}, Len(text) + 1)
            IN  IF close > Len(text) THEN <<>>
                ELSE <<SubSeq(text, open + 1, close - 1)>> \o blocks[close + 1]
    IN  blocks[1]

From(text, kind) ==
    SubSeq(text, FirstOf(Of(text, {kind}), Len(text) + 1), Len(text))

OrElse(plan, other) == IF plan = {} THEN other ELSE plan
FirstCandidate(parts) ==
    LET among[i \in 0..Len(parts)] ==
            IF i = 0 THEN {} ELSE OrElse(among[i - 1], Candidate(parts[i]))
    IN  among[Len(parts)]

\* extractTodoMarkdown: the first fenced block that makes a plan, else the text
\* from the title on, else the text from the first TODO heading on.
ExtractTodo(text) ==
    FirstCandidate(FencedBlocks(text) \o <<From(text, "title"), From(text, "heading")>>)
=============================================================================
