---------------------------- MODULE TodoDocument ----------------------------
(***************************************************************************)
(* A TODO document as the lines of src/src/todo_parser.ts, and what the     *)
(* code reads from it and writes to it (validateTodoMarkdown of             *)
(* src/src/todo_generator.ts included).                                     *)
(*                                                                         *)
(* A line is a record of its kind, a number, a text and a check mark:       *)
(*   "title" and "globals"   # Pi Long Task TODO;  Global instructions:     *)
(*   "progress", "rule"      ## Progress;  ---                              *)
(*   "heading"               ## TODO n - t                                  *)
(*   "box"                   - [ ] TODO n - t     (checked when done)       *)
(*   "check"                 - [ ] t              (any other checkbox)      *)
(*   "status", "verify", "donewhen"               (a field on its own line) *)
(*   "goal"                  **Goal:** t          (text follows the field)  *)
(*   "fence" and "tilde"     a run of n backticks or tildes, t its language *)
(*   "marker"                <!-- pi-long-task-id: t -->                    *)
(*   "item", "text"          a bullet; anything else                        *)
(* Blank lines are left out: no reader stops or starts at one.  A title is  *)
(* a pair of its text and the number of periods it ends with; every text is *)
(* a tuple.                                                                 *)
(***************************************************************************)
EXTENDS Naturals, Sequences, FiniteSets, SequencesExt

CONSTANTS Checking,        \* texts that mention checks or verification
          MaxInstructions  \* lines within the limit of todoGlobalInstructions

NoText == <<>>
NoId == <<>>  \* of a task without a marker

Line(kind, n, t, done) == [kind |-> kind, n |-> n, t |-> t, done |-> done]
Bare(kind) == Line(kind, 0, NoText, FALSE)
Heading(n, title) == Line("heading", n, title, FALSE)
Box(n, title, done) == Line("box", n, title, done)

Fields == {"status", "verify", "donewhen"}
Checkboxes == {"box", "check"}
Fences == {"fence", "tilde"}

\* The positions of lines of some kinds, and the first of some positions (the
\* default comes after them).
Of(lines, kinds) == {i \in DOMAIN lines : lines[i].kind \in kinds}
FirstOf(positions, default) == Min(positions \union {default})

\* Positions as a sequence, in their order.
InOrder(positions) ==
    [k \in 1..Cardinality(positions) |->
        CHOOSE i \in positions : Cardinality({j \in positions : j <= i}) = k]

\* The sequence itself; TLC evaluates each element of a concatenation once.
AsTuple(seq) == seq \o <<>>

-----------------------------------------------------------------------------
\* The fence that is open after one more line: it closes at a run of its own
\* character that is at least as long.
NoFence == <<"none", 0>>
NextFence(fence, line) ==
    IF line.kind \notin Fences THEN fence
    ELSE IF fence = NoFence THEN <<line.kind, line.n>>
    ELSE IF line.kind = fence[1] /\ line.n >= fence[2] THEN NoFence
    ELSE fence

\* The lines outside fences.
Visible(lines) ==
    LET scan[i \in 0..Len(lines)] ==
            IF i = 0 THEN [open |-> NoFence, seen |-> {}]
            ELSE LET before == scan[i - 1]
                     shown  == before.open = NoFence /\ lines[i].kind \notin Fences
                 IN  [open |-> NextFence(before.open, lines[i]),
                      seen |-> before.seen \union (IF shown THEN {i} ELSE {})]
    IN  scan[Len(lines)].seen

TaskHeadings(lines) ==
    InOrder(Visible(lines) \intersect Of(lines, {"heading"}))

\* findStableId: the first marker outside fences.
StableId(lines, from, to) ==
    LET markers == Visible(lines) \intersect Of(lines, {"marker"}) \intersect from..to
    IN  IF markers = {} THEN NoId ELSE lines[Min(markers)].t

\* Mutant: the box is looked for in the whole document.
ProgressDone_Anywhere(lines, n) ==
    LET boxes == {i \in Of(lines, {"box"}) : lines[i].n = n}
    IN  IF boxes = {} THEN {} ELSE {lines[Min(boxes)].done}

\* findProgressDone, as a set of at most one check mark: the first box of task n
\* between the first Progress heading and a rule or TODO heading, fenced or not.
ProgressDone(lines, n) ==
    LET start == FirstOf(Of(lines, {"progress"}), Len(lines) + 1)
        stop  == FirstOf({i \in Of(lines, {"rule", "heading"}) : i > start},
                         Len(lines) + 1)
        boxes == {i \in Of(lines, {"box"}) :
                    start < i /\ i < stop /\ lines[i].n = n}
    IN  IF boxes = {} THEN {} ELSE {lines[Min(boxes)].done}

\* findStatusItems: the checkboxes after the first Status line, up to the first
\* other field, or to anything else once a checkbox was seen.
StatusBoxes(lines, from, to) ==
    LET start == FirstOf(Of(lines, {"status"}) \intersect from..to, to)
        boxes == {i \in Of(lines, Checkboxes) : start < i /\ i <= to}
        ends  == {i \in (start + 1)..to :
                    /\ lines[i].kind \notin Checkboxes \union {"status"}
                    /\ \/ lines[i].kind \in Fields
                       \/ \E b \in boxes : b < i}
    IN  {i \in boxes : i < FirstOf(ends, to + 1)}

SectionEnd(lines, headings, k) ==
    IF k < Len(headings) THEN headings[k + 1] - 1 ELSE Len(lines)

\* parseTasks.  Without a heading it throws; here there are no tasks then.
TaskAt(lines, from, to) ==
    LET boxes    == StatusBoxes(lines, from, to)
        progress == ProgressDone(lines, lines[from].n)
    IN  [taskId   |-> lines[from].n,
         title    |-> lines[from].t,
         stableId |-> StableId(lines, from, to),
         section  |-> SubSeq(lines, from, to),
         from     |-> from,
         to       |-> to,
         status   |-> {<<i, lines[i].done>> : i \in boxes},
         done     |-> IF progress # {} THEN progress = {TRUE}
                      ELSE boxes # {} /\ \A i \in boxes : lines[i].done]
TasksAt(lines, headings) ==
    AsTuple([k \in DOMAIN headings |->
                TaskAt(lines, headings[k], SectionEnd(lines, headings, k))])
ParseTasks(lines) == TasksAt(lines, TaskHeadings(lines))

\* Mutant: every checkbox of the progress section is set.
SetTaskDone_EveryBox(lines, n, done) ==
    [i \in DOMAIN lines |-> IF lines[i].kind = "box"
                            THEN [lines[i] EXCEPT !.done = done]
                            ELSE lines[i]]

\* setTaskDone: every box of task n, wherever it is, and the status block of the
\* first section of task n.
SetTaskDone(lines, n, done) ==
    LET headings == TaskHeadings(lines)
        mine == {k \in DOMAIN headings : lines[headings[k]].n = n}
        block == IF mine = {} THEN {}
                 ELSE StatusBoxes(lines, headings[Min(mine)],
                                  SectionEnd(lines, headings, Min(mine)))
        boxes == {i \in Of(lines, {"box"}) : lines[i].n = n}
    IN  AsTuple([i \in DOMAIN lines |-> IF i \in boxes \union block
                                        THEN [lines[i] EXCEPT !.done = done]
                                        ELSE lines[i]])

MarkTaskDone(lines, n) == SetTaskDone(lines, n, TRUE)
MarkTaskPending(lines, n) == SetTaskDone(lines, n, FALSE)

\* The lines above the plan, which a Progress or TODO heading ends, fenced or not.
Preamble(lines) ==
    SubSeq(lines, 1,
           FirstOf(Of(lines, {"progress", "heading"}), Len(lines) + 1) - 1)

\* todoGlobalInstructions: what workers are given of them, cut at 6000 characters.
\* (Here it is cut between two lines.)
Truncated == Line("text", 0, <<"truncated by Pi Long Task">>, FALSE)
GlobalInstructions(lines) ==
    LET above == Preamble(lines)
    IN  IF Len(above) <= MaxInstructions THEN above
        ELSE Append(SubSeq(above, 1, MaxInstructions), Truncated)

-----------------------------------------------------------------------------
\* validatedProgressEntries: the visible boxes between a Progress heading and a
\* rule that precede the tasks; <<>> when one of the two is missing.  (It throws at
\* a line there that names a task in another form; there is no line of that kind.)
ProgressEntries(lines, firstTask) ==
    LET visible == Visible(lines)
        before(kind, i) == {j \in visible \intersect Of(lines, {kind}) :
                                i < j /\ j < firstTask}
        start == FirstOf(before("progress", 0), firstTask)
        stops == before("rule", start)
        stop  == IF stops = {} THEN 0 ELSE Min(stops)
        boxes == InOrder({i \in visible \intersect Of(lines, {"box"}) : start < i /\ i < stop})
    IN  [k \in DOMAIN boxes |-> lines[boxes[k]]]

Has(section, kind) == \E i \in DOMAIN section : section[i].kind = kind
MentionsChecks(section) ==
    \E i \in DOMAIN section :
        section[i].kind = "verify" \/ section[i].t \in Checking

IsValidTask(task, k, entry) ==
    /\ task.taskId = k
    /\ entry.n = k
    /\ entry.t = task.title
    /\ \A kind \in {"goal", "status", "donewhen"} : Has(task.section, kind)
    /\ task.status # {}
    /\ MentionsChecks(task.section)

AreValid(tasks, entries) ==
    /\ Len(entries) = Len(tasks)
    /\ \A k \in DOMAIN tasks : IsValidTask(tasks[k], k, entries[k])

\* validateTodoMarkdown returns without an error.
IsValidTodo(lines) ==
    /\ lines # <<>> /\ lines[1].kind = "title"
    /\ \E tasks \in {ParseTasks(lines)} :
          tasks # <<>> /\ AreValid(tasks, ProgressEntries(lines, tasks[1].from))
\* The lines before the tasks that lay out the progress section are outside fences.
Unfenced(lines) ==
    LET first   == ParseTasks(lines)[1].from
        visible == Visible(lines)
    IN  \A i \in Of(lines, {"progress", "rule", "heading", "box"}) :
            i < first => i \in visible

-----------------------------------------------------------------------------
\* The tasks of a document as reconciliation sees them: what a task says without its
\* heading, its marker and its check marks.
Body(section) ==
    LET says == InOrder(2..Len(section) \ Of(section, {"marker"}))
    IN  [k \in DOMAIN says |-> [section[says[k]] EXCEPT !.done = FALSE]]
PlanTask(task) == [id |-> task.stableId, title |-> task.title,
                   body |-> Body(task.section), done |-> task.done]
AsPlan(parsed) == AsTuple([k \in DOMAIN parsed |-> PlanTask(parsed[k])])
PlanTasks(lines) == AsPlan(ParseTasks(lines))
=============================================================================
