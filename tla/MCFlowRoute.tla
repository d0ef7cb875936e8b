----------------------------- MODULE MCFlowRoute -----------------------------
(* Small schemas for the interpreter, each with a hard case or two. *)
EXTENDS FlowRoute

App == [name |-> "app", lists |-> <<>>, maxSteps |-> 0, tag |-> None, target |-> None,
        max |-> 0, failover |-> None, flags |-> {}]
Tagged(a, t) == [a EXCEPT !.tag = t]
If(then, else) == [App EXCEPT !.name = "if", !.lists = [then |-> then, else |-> else]]
Switch(cases) == [App EXCEPT !.name = "switch", !.lists = cases]
While(n, do) == [App EXCEPT !.name = "while", !.maxSteps = n, !.lists = [do |-> do]]
GoTo(t) == [App EXCEPT !.name = "goto", !.target = t]
Limited(a, n, t) == [a EXCEPT !.max = n, !.failover = t]
Stop == [App EXCEPT !.name = "break"]
Function == [App EXCEPT !.name = "function"]

MCSchemas == <<
  \* jumps between the top and a branch, and back into the branch
  << Tagged(App, "a1"), If(<<App, Tagged(App, "a2"), GoTo("a1")>>, <<GoTo("a2"), App>>), GoTo("a2") >>,
  \* a loop left by a goto and reached again; it is the first of its node
  << Tagged(While(3, <<App, If(<<GoTo("b1")>>, <<>>), App>>), "b1"), GoTo("b1"), App >>,
  \* a loop reached again after a function definition and an application
  << Function, App, Tagged(App, "c1"), While(2, <<If(<<GoTo("c1")>>, <<App>>)>>), While(2, <<>>), GoTo("c1") >>,
  \* loops in loops, tags in a loop and a break
  << While(2, <<Tagged(App, "d1"), While(3, <<App>>), If(<<Stop>>, <<>>)>>), GoTo("d1"), App >>,
  \* limits with and without a tag to go to, a jump to a tag that is not there
  << Tagged(Limited(App, 2, "e2"), "e1"), GoTo("e1"), Tagged(App, "e2"), Limited(App, 1, "nowhere"),
     GoTo("nowhere"), GoTo("e1"), [App EXCEPT !.flags = {"break"}], App >>,
  \* a branch left from further down and entered again
  << Tagged(App, "k1"), If(<<App, If(<<GoTo("k1")>>, <<>>), App>>, <<>>), App >>,
  \* nested switches, jumps over them
  << Switch([x |-> <<Switch([y |-> <<App, GoTo("f1")>>, z |-> <<GoTo("f2")>>]), Tagged(App, "f2"), App>>,
             default |-> <<App>>]), Tagged(App, "f1"), GoTo("f2"), App >>,
  \* jumps into a branch of a branch, from the top, from between and from inside
  << If(<<App, If(<<App, Tagged(App, "g1")>>, <<GoTo("g2")>>), App, Tagged(App, "g2"), GoTo("g1")>>, <<>>),
     App, GoTo("g1"), App >>,
  \* jumps into and out of a loop in a branch in a loop
  << While(2, <<If(<<While(2, <<Tagged(App, "h1"), GoTo("h2")>>), App>>, <<App>>), App>>),
     Tagged(App, "h2"), GoTo("h1"), App >>,
  \* three levels down
  << If(<<If(<<App, If(<<Tagged(App, "i1"), App>>, <<>>), App>>, <<>>), App>>, <<GoTo("i1")>>), App, GoTo("i1") >>,
  \* four levels down, past a node left by a goto
  << Tagged(App, "j1"), If(<<If(<<If(<<If(<<Tagged(App, "j2")>>, <<>>), GoTo("j1")>>, <<>>)>>, <<>>), GoTo("j2")>>, <<>>) >> >>

Parse == INSTANCE FlowParse WITH Schemas <- MCSchemas
MCNodes == Parse!ParsedNodes
MCRoots == Parse!ParsedRoots
MCParent == Parse!ParsedParent
MCIdx == Parse!ParsedIdx
MCAncestors == Parse!ParsedAncestors
MCPathOf == Parse!ParsedPath
MCChildren == Parse!ParsedChildren
MCTags == Parse!ParsedTags
MCLimiters == Parse!ParsedLimiters

=============================================================================
