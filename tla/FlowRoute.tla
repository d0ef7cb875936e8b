------------------------------ MODULE FlowRoute ------------------------------
(***************************************************************************)
(* The interpreter of flow/: Route takes one request after another from a  *)
(* tree of nodes and lets its handler run.  A node is a list of requests   *)
(* and a position; the handlers of if, switch and while move the flow into *)
(* a nested node, goto moves it to a tag anywhere in the tree, and the end *)
(* of a node moves it back to the parent.                                  *)
(*                                                                         *)
(* Where the flow goes on is not kept on a stack: it is spread over the    *)
(* positions of all nodes.  StructuredFlow says what they have to amount   *)
(* to.  A request is named by its node and its index there; a position is  *)
(* the number of requests already taken.                                   *)
(***************************************************************************)
EXTENDS Integers, Sequences

CONSTANTS Nodes,      \* nodes of the trees
          Roots,      \* top nodes, one for each schema
          Parent,     \* node a node is nested in, or None
          Idx,        \* index, in the parent, of the request that owns a node
          Ancestors,  \* a node and all it is nested in
          PathOf,     \* the same, from the top one down
          Children,   \* requests of a node
          Tags,       \* the request each tag stands for, by node and index
          Limiters,   \* limits of requests
          MaxGoto,    \* MAX_GOTO
          None

ASSUME NodesAssumption ==
  /\ None \notin Nodes
  /\ Roots \subseteq Nodes
  /\ Parent \in [Nodes -> Nodes \cup {None}]
  /\ Idx \in [Nodes -> Nat]
  /\ \A n \in Roots : Parent[n] = None
  /\ \A n \in Nodes : Parent[n] # None => Idx[n] < Len(Children[Parent[n]])
  /\ MaxGoto \in Nat
ASSUME AncestorsAssumption ==
  \A n \in Nodes :
    /\ Ancestors[n] = {n} \cup (IF Parent[n] = None THEN {} ELSE Ancestors[Parent[n]])
    /\ Parent[n] # None => n \notin Ancestors[Parent[n]]
    /\ \A m \in Ancestors[n] : m \in Nodes /\ Ancestors[m] \subseteq Ancestors[n]
ASSUME PathAssumption ==
  \A n \in Nodes :
    /\ PathOf[n] \in Seq(Ancestors[n])
    /\ PathOf[n] = IF Parent[n] = None THEN <<n>> ELSE Append(PathOf[Parent[n]], n)
    /\ \A i \in 1..(Len(PathOf[n]) - 1) : Parent[PathOf[n][i + 1]] = PathOf[n][i]
\* An if or a switch may lead into the nodes it owns, a while into its node
\* [do]; the last request of [do] is that while again.
ASSUME ChildrenAssumption ==
  \A n \in Nodes :
    /\ Len(Children[n]) \in Nat
    /\ \A k \in 1..Len(Children[n]) :
         /\ Children[n][k].limiter \in Limiters \cup {None}
         /\ Children[n][k].branches \subseteq Nodes
         /\ \A b \in Children[n][k].branches : Parent[b] = n /\ Idx[b] = k - 1
         /\ Children[n][k].name = "while" =>
              LET d == Children[n][k].do IN
              /\ d \in Nodes /\ (d = n \/ (Parent[d] = n /\ Idx[d] = k - 1))
              /\ Children[n][k].maxSteps \in Int
ASSUME TagsAssumption ==
  \A t \in DOMAIN Tags : /\ Tags[t].parent \in Nodes
                         /\ Tags[t].idx \in 0..(Len(Children[Tags[t].parent]) - 1)

VARIABLES node,      \* currentNode
          pos,       \* position of each node
          prev,      \* prevRequest, by node and index
          gotos,     \* gotoCounter
          count,     \* count of each limiter
          step,      \* whileArgs.step, by the node [do]
          counter,   \* whileArgs.counter, by the node [do]
          pc,        \* where Route is: about to take a request, at its handler,
                     \* returned, or returned by a break
          strayed    \* history: tags nested deeper that it has jumped to

vars == <<node, pos, prev, gotos, count, step, counter, pc, strayed>>

\* The shapes of the state; positions never run past the end of a node.
TypeOK ==
  /\ node \in Nodes
  /\ pos \in [Nodes -> Nat]
  /\ \A n \in Nodes : pos[n] <= Len(Children[n])
  /\ prev \in (Nodes \X Nat) \cup {None}
  /\ gotos \in 0..(MaxGoto + 1)
  /\ count \in [Limiters -> Nat]
  /\ step \in [Nodes -> Nat]
  /\ counter \in [Nodes -> Nat]
  /\ pc \in {"next", "handler", "end", "break"}
  /\ pc = "handler" => pos[node] > 0
  /\ strayed \subseteq DOMAIN Tags

Init ==
  /\ node \in Roots
  /\ pos = [n \in Nodes |-> 0]
  /\ prev = None
  /\ gotos = 0
  /\ count = [l \in Limiters |-> 0]
  /\ step = [n \in Nodes |-> 0]
  /\ counter = [n \in Nodes |-> 0]
  /\ pc = "next"
  /\ strayed = {}

-----------------------------------------------------------------------------
(* NextRequest: the next request of the current node, or of the nearest    *)
(* node around it that has one.                                            *)

AtEnd == pos[node] = Len(Children[node])

GetParentNode ==
  /\ pc = "next" /\ AtEnd
  /\ Parent[node] # None
  /\ node' = Parent[node]
  /\ pos' = [pos EXCEPT ![node] = 0]
  /\ UNCHANGED <<prev, gotos, count, step, counter, pc, strayed>>

End ==
  /\ pc = "next" /\ AtEnd
  /\ Parent[node] = None
  /\ pos' = [pos EXCEPT ![node] = 0]
  /\ pc' = "end"
  /\ UNCHANGED <<node, prev, gotos, count, step, counter, strayed>>

PreviousRequest == IF pos[node] = 0 THEN None ELSE <<node, pos[node] - 1>>

\* The request that Next returns, and the one whose handler runs.
NextChild == Children[node][pos[node] + 1]
Current == Children[node][pos[node]]

MaxCount(r) == r.limiter # None /\ count[r.limiter] >= r.max

Take ==
  /\ pc = "next" /\ ~AtEnd
  /\ ~MaxCount(NextChild)
  /\ pos' = [pos EXCEPT ![node] = @ + 1]
  /\ prev' = PreviousRequest
  /\ count' = IF NextChild.limiter = None THEN count
              ELSE [count EXCEPT ![NextChild.limiter] = @ + 1]
  /\ pc' = "handler"
  /\ UNCHANGED <<node, gotos, step, counter, strayed>>

-----------------------------------------------------------------------------
(* Goto. *)

\* The nodes CompleteTreeTraversal, called on g, marks as done: from g upwards,
\* those that are not the top one and have not been started.
Completed(g, p) ==
  {m \in (IF g = None THEN {} ELSE Ancestors[g]) :
     \A k \in Ancestors[g] : m \in Ancestors[k] => Parent[k] # None /\ p[k] = 0}

\* Mutant: the parent goes on with the request that owns the tag's node.
JumpToOwner(p, n, k) ==
  LET there == [[p EXCEPT ![node] = 0] EXCEPT ![n] = k]
      up == [there EXCEPT ![Parent[n]] = Idx[n]]
      done == Completed(Parent[Parent[n]], up)
  IN IF Parent[n] = None THEN there
     ELSE [m \in Nodes |-> IF m \in done THEN Len(Children[m]) ELSE up[m]]

\* Mutant: only the parent is taken care of.
JumpNoCompletion(p, n, k) ==
  LET there == [[p EXCEPT ![node] = 0] EXCEPT ![n] = k]
  IN IF Parent[n] = None THEN there ELSE [there EXCEPT ![Parent[n]] = Idx[n] + 1]

\* The positions p after a jump to request k of node n.
Jump(p, n, k) ==
  LET there == [[p EXCEPT ![node] = 0] EXCEPT ![n] = k]
      up == [there EXCEPT ![Parent[n]] = Idx[n] + 1]
      done == Completed(Parent[Parent[n]], up)
  IN IF Parent[n] = None THEN there
     ELSE [m \in Nodes |-> IF m \in done THEN Len(Children[m]) ELSE up[m]]

CanGoto(t) == gotos <= MaxGoto /\ t \in DOMAIN Tags

\* The tags at the top of a schema or in a node right below it.
Shallow ==
  {t \in DOMAIN Tags :
     Parent[Tags[t].parent] = None \/ Parent[Parent[Tags[t].parent]] = None}

\* Mutant: jumps are not counted.
GotoUncounted(p, t) ==
  /\ CanGoto(t)
  /\ node' = Tags[t].parent
  /\ pos' = Jump(p, Tags[t].parent, Tags[t].idx)
  /\ gotos' = gotos
  /\ strayed' = strayed \cup ({t} \ Shallow)

Goto(p, t) ==
  /\ CanGoto(t)
  /\ node' = Tags[t].parent
  /\ pos' = Jump(p, Tags[t].parent, Tags[t].idx)
  /\ gotos' = gotos + 1
  /\ strayed' = strayed \cup ({t} \ Shallow)

\* A request at its limit is not run: the flow goes to the failover tag ...
LimitReached ==
  /\ pc = "next" /\ ~AtEnd
  /\ MaxCount(NextChild)
  /\ Goto([pos EXCEPT ![node] = @ + 1], NextChild.failover)
  /\ prev' = PreviousRequest
  /\ UNCHANGED <<count, step, counter, pc>>

\* ... and ends if it cannot.
LimitEnds ==
  /\ pc = "next" /\ ~AtEnd
  /\ MaxCount(NextChild)
  /\ ~CanGoto(NextChild.failover)
  /\ pos' = [pos EXCEPT ![node] = @ + 1]
  /\ prev' = PreviousRequest
  /\ pc' = "end"
  /\ UNCHANGED <<node, gotos, count, step, counter, strayed>>

-----------------------------------------------------------------------------
(* The handlers.  Whatever they answer, Route goes on unless the request   *)
(* has the break flag or its handler has cancelled the flow.               *)

Handler(name) ==
  /\ pc = "handler"
  /\ Current.name = name
  /\ pc' = IF "break" \in Current.flags THEN "break" ELSE "next"

Application ==
  /\ Handler("app")
  /\ UNCHANGED <<node, pos, prev, gotos, count, step, counter, strayed>>

Break ==
  /\ pc = "handler" /\ Current.name = "break"
  /\ pc' = "break"
  /\ UNCHANGED <<node, pos, prev, gotos, count, step, counter, strayed>>

\* Mutant: the branch goes on where it was left.
BranchNoFirst ==
  /\ Handler("if")
  /\ \E b \in Current.branches : node' = b
  /\ UNCHANGED <<pos, prev, gotos, count, step, counter, strayed>>

\* conditionHandler and switchHandler enter one of their nodes ...
Branch ==
  /\ Handler("if")
  /\ \E b \in Current.branches : node' = b /\ pos' = [pos EXCEPT ![b] = 0]
  /\ UNCHANGED <<prev, gotos, count, step, counter, strayed>>

\* ... or none: a condition that fails, a switch with no case that fits.
NoBranch ==
  /\ Handler("if")
  /\ UNCHANGED <<node, pos, prev, gotos, count, step, counter, strayed>>

GotoTag ==
  /\ Handler("goto")
  /\ Goto(pos, Current.target)
  /\ UNCHANGED <<prev, count, step, counter>>

GotoFails ==
  /\ Handler("goto")
  /\ ~CanGoto(Current.target)
  /\ UNCHANGED <<node, pos, prev, gotos, count, step, counter, strayed>>

-----------------------------------------------------------------------------
(* whileHandler, for a while with the node d to do. *)

OriginalParent(d) == IF Idx[d] = 0 THEN None ELSE <<Parent[d], Idx[d] - 1>>

\* Mutant: a while reached again does not start over.
StepOfNoReset(d) == step[d]

\* A while that was left by a goto and is reached again starts over.
StepOf(d) == IF counter[d] # 0 /\ prev = OriginalParent(d) THEN 0 ELSE step[d]

Counted(d) == counter' = [counter EXCEPT ![d] = @ + 1]

\* The body holds something besides the while at its end.
HasBody(d) == Len(Children[d]) # 1

\* The first iteration runs whatever the condition, the others if it holds.
WhileNext ==
  /\ Handler("while")
  /\ LET d == Current.do IN
       /\ counter[d] < Current.maxSteps
       /\ HasBody(d)
       /\ node' = d
       /\ pos' = [pos EXCEPT ![d] = 0]
       /\ step' = [step EXCEPT ![d] = StepOf(d) + 1]
       /\ Counted(d)
  /\ UNCHANGED <<prev, gotos, count, strayed>>

WhileEnds ==
  /\ Handler("while")
  /\ LET d == Current.do IN
       /\ counter[d] < Current.maxSteps
       /\ StepOf(d) # 0 \/ ~HasBody(d)
       /\ step' = [step EXCEPT ![d] = 0]
       /\ Counted(d)
  /\ UNCHANGED <<node, pos, prev, gotos, count, strayed>>

WhileExhausted ==
  /\ Handler("while")
  /\ LET d == Current.do IN
       /\ counter[d] >= Current.maxSteps
       /\ step' = [step EXCEPT ![d] = StepOf(d)]
  /\ UNCHANGED <<node, pos, prev, gotos, count, counter, strayed>>

-----------------------------------------------------------------------------
Route ==
  \/ GetParentNode \/ End \/ Take \/ LimitReached \/ LimitEnds
  \/ Application \/ Break \/ Branch \/ NoBranch \/ GotoTag \/ GotoFails
  \/ WhileNext \/ WhileEnds \/ WhileExhausted

Returned == pc \in {"end", "break"} /\ UNCHANGED vars

Next == Route \/ Returned

Spec == Init /\ [][Next]_vars

\* The handlers of the requests modelled here all return.
FairSpec == Spec /\ WF_vars(Route)

-----------------------------------------------------------------------------
(* Properties. *)

\* Every flow comes to its end, whatever its gotos, limits and loops: jumps
\* are limited by MAX_GOTO and iterations by maxSteps.
Ends == <>(pc \in {"end", "break"})

\* "first step of cycle - execute [do] without conditions": a while that is
\* reached from the node it is in, the first time or again after a goto out of
\* its body, never ends without an iteration.
DoWhile ==
  [][\A d \in Nodes :
       (pc = "handler" /\ Current.name = "while" /\ Current.do = d /\ node = Parent[d]
        /\ counter[d] < Current.maxSteps /\ HasBody(d)) => node' = d]_vars

\* The nodes around the current one all stand right after the request they
\* were entered through, so that the flow goes on there when it comes back, as
\* long as gotos lead to the top of the schema or one node below it.
WellNested ==
  strayed = {} /\ pc \in {"next", "handler"} =>
    \A n \in Ancestors[node] : Parent[n] # None => pos[Parent[n]] = Idx[n] + 1

\* The tags at most three nodes below the top.
Near ==
  {t \in DOMAIN Tags :
     t \in Shallow \/ LET g == Parent[Parent[Tags[t].parent]]
                      IN Parent[g] = None \/ Parent[Parent[g]] = None}

\* Coming back from a nested node, the flow never starts the node around it
\* from its first request, even where a goto has led into nodes nested in one
\* that was not started; that is what CompleteTreeTraversal is for.  It stops at
\* the first node that was started, and one more than three nodes below the top
\* may be so from an earlier goto while a node around it is not: nothing is said
\* of a flow after a goto to a tag that deep.
ComesBackStarted ==
  strayed \subseteq Near /\ pc \in {"next", "handler"} =>
    \A n \in Ancestors[node] :
      Parent[n] # None /\ Parent[Parent[n]] # None => pos[Parent[n]] # 0

\* The place in the schema that the positions amount to; none after a goto to a
\* tag that is nested deeper than one node below the top.
Going == pc \in {"next", "handler"} /\ strayed = {}
Phase == IF Going THEN pc ELSE "end"
Places ==
  IF Going THEN [i \in DOMAIN PathOf[node] |->
                   [node |-> PathOf[node][i], pos |-> pos[PathOf[node][i]]]]
  ELSE <<>>

\* Requests are taken in the order of the schema, nested nodes are run to their
\* end and left to the request after them, and a goto continues as if the flow
\* had come to the tag by itself.
Abstract == INSTANCE StructuredFlow WITH at <- Phase, stack <- Places
IsStructured == Abstract!Spec

=============================================================================
