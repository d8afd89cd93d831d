----------------------------- MODULE MCTodoPlan -----------------------------
(* Pasted plans of up to two sections with every combination of opening,     *)
(* progress section, numbers and bodies; lists; answers of the planner.      *)
EXTENDS TodoPlan

A == <<<<"a">>, 0>>
B == <<<<"b">>, 1>>
s1 == <<"s1">>
x == <<"x">>
checks == <<"checks">>
Check(done) == Line("check", 0, x, done)
Fence(n) == Line("fence", n, NoText, FALSE)
Tilde(n) == Line("tilde", n, NoText, FALSE)
Code == Line("fence", 3, <<"sh">>, FALSE)
Marker == Line("marker", 0, s1, FALSE)
Words(t) == Line("text", 0, t, FALSE)
Title == Bare("title")

\* Texts that mention the goal, and the verification of its coverage, among others.
ofGoal == <<"long task goal", "and", "more">>
ofCoverage == <<"verify the coverage", "and", "more">>

MCChecking == {checks, <<"run focused checks">>, <<"verify the coverage">>, ofCoverage}
MCInside == { << <<"long task goal">>, ofGoal >>, << <<"verify the coverage">>, ofCoverage >> }

\* What precedes the tasks: fenced headings and other fences among it, a goal and a
\* longer one, and more lines than workers are given.
Openings == { <<>>, <<Title, Words(x), Box(1, A, TRUE)>>,
              <<Title, Bare("globals"), Bullet(<<"long task goal">>)>>,
              <<Title, Bullet(ofGoal)>>,
              <<Title>> \o [i \in 1..6 |-> Words(x)],
              <<Title, Fence(4), Bare("progress"), Heading(1, A), Fence(3), Tilde(4), Fence(4)>> }

Progress(m, n) ==
    { <<>>,
      <<Bare("progress"), Box(m, A, TRUE), Box(n, B, FALSE), Bare("rule")>> }

\* Sections with nothing, a marker, two runs of checkboxes, a box of task 2, and
\* headings and boxes inside fences.
Bodies ==
    { <<>>,
      <<Marker, Bare("status"), Check(TRUE)>>,
      <<Bare("status"), Check(TRUE), Check(FALSE), Words(checks), Check(FALSE)>>,
      <<Bare("status"), Check(FALSE), Words(ofCoverage)>>,
      <<Line("goal", 0, x, FALSE), Bare("status"), Box(2, x, FALSE), Bare("verify"),
        Bullet(x), Bare("donewhen"), Bullet(x)>>,
      <<Code, Heading(2, B), Bare("progress"), Marker, Fence(3), Bare("status"),
        Check(FALSE)>>,
      <<Fence(4), Fence(3), Heading(1, B), Box(1, x, FALSE), Fence(4), Bare("donewhen")>> }

\* A section whose only checkbox is not in its Status block.
Misplaced == <<Bare("status"), Bare("verify"), Check(TRUE)>>

Single == {opening \o progress \o <<Heading(1, B)>> \o body :
              opening \in Openings,
              progress \in Progress(1, 2) \union {<<Bare("progress"), Box(1, A, TRUE)>>},
              body \in Bodies \union {Misplaced}}
Double == UNION {{<<Title, Box(1, A, TRUE)>> \o progress \o <<Heading(m, A)>> \o first
                     \o <<Heading(3 - m, B)>> \o second :
                         progress \in Progress(m, 3 - m),
                         first \in Bodies, second \in Bodies} : m \in 1..2}
Lists == { <<Bullet(A), Bullet(<<<<"b">>, 2>>)>>, <<Line("check", 0, B, FALSE), Bullet(A)>>,
           <<Box(1, A, TRUE), Box(2, B, FALSE), Bullet(A)>>,
           <<Bullet(A), Words(x)>>, <<Words(x)>> }

\* A quoted Progress heading above a plan that quotes another: what is made of it has
\* its own progress and its first tasks inside a fence.
Hidden == {<<Title, Fence(4), Bare("progress"), Fence(4), Heading(1, A), Fence(4),
             Bare("progress"), Box(1, B, box), Bare("rule"), Heading(1, B),
             Line("goal", 0, x, FALSE), Bare("status"), Check(check), Bare("verify"),
             Bare("donewhen"), Fence(4)>> : box \in BOOLEAN, check \in BOOLEAN}
MCInputs == Single \union Double \union Lists \union Hidden

Plan == <<Title, Words(x), Bare("progress"), Box(1, A, FALSE), Box(2, B, FALSE), Bare("rule"),
          Heading(1, A), Bare("status"), Check(FALSE), Heading(2, B), Code, Words(x), Fence(3)>>
MCAnswers == { Plan, <<Words(x)>>, <<Words(x)>> \o Tail(Plan),
               <<Fence(3), Words(x), Fence(3), Fence(4)>> \o SubSeq(Plan, 1, 10) \o <<Fence(4)>>,
               <<Fence(3)>> \o Plan \o <<Fence(3)>> }

\* Drop the first task, add one and reorder them all, or change the first; without
\* a task left the answer is refused.
MCRevisions(lines) ==
    LET parsed == ParseTasks(lines)
        sections == [k \in DOMAIN parsed |-> parsed[k].section]
        plan(ss) == <<Title>> \o FlattenSeq(ss)
    IN  { plan(Tail(sections)),
          plan(Reverse(sections \o << <<Heading(7, A), Words(x)>> >>)),
          plan(<<Append(sections[1], Words(x))>> \o Tail(sections)) }

MCSpecLines == <<Bullet(<<"specification">>), Bullet(<<"definition of done">>)>>
MCConstraints == <<Bullet(<<"no network">>)>>
=============================================================================
