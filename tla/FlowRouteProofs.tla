--------------------------- MODULE FlowRouteProofs ---------------------------
(***************************************************************************)
(* For every tree of nodes, until a goto leads more than one node below    *)
(* the top, the nodes around the current one stand right after the         *)
(* requests they were entered through: WellNested, which is inductive with *)
(* TypeOK; until one leads more than three nodes below it, they have been  *)
(* started: ComesBackStarted, inductive as well.  What both rest on is     *)
(* that a node is never among its own ancestors and that a branch is owned *)
(* by the request just taken.  And a while that is reached from the node   *)
(* it is in iterates: DoWhile, by what prevRequest is.                     *)
(***************************************************************************)
EXTENDS FlowRoute, SequenceTheorems, TLAPS

\* The ancestors of a node are closed under Parent.
LEMMA UpIsAncestor ==
  ASSUME NEW m \in Nodes, NEW n \in Ancestors[m], Parent[n] # None
  PROVE  Parent[n] \in Ancestors[m] /\ Parent[n] \in Nodes /\ n \in Nodes
<1>1. n \in Nodes /\ Ancestors[n] \subseteq Ancestors[m]
  BY AncestorsAssumption
<1>2. Parent[n] \in Nodes
  BY <1>1, NodesAssumption
<1>3. Parent[n] \in Ancestors[Parent[n]] /\ Ancestors[Parent[n]] \subseteq Ancestors[n]
  BY <1>1, <1>2, AncestorsAssumption
<1>4. QED
  BY <1>1, <1>2, <1>3

\* No node that is around m has m as its parent.
LEMMA NotBelow ==
  ASSUME NEW m \in Nodes, NEW n \in Ancestors[m], Parent[n] # None
  PROVE  Parent[n] # m
BY UpIsAncestor, AncestorsAssumption

\* Goto leaves every position within its node.
LEMMA JumpType ==
  ASSUME TypeOK, NEW t \in DOMAIN Tags,
         NEW p \in [Nodes -> Nat], \A n \in Nodes : p[n] <= Len(Children[n])
  PROVE  LET q == Jump(p, Tags[t].parent, Tags[t].idx)
         IN q \in [Nodes -> Nat] /\ \A n \in Nodes : q[n] <= Len(Children[n])
<1> DEFINE n == Tags[t].parent
           k == Tags[t].idx
           there == [[p EXCEPT ![node] = 0] EXCEPT ![n] = k]
           up == [there EXCEPT ![Parent[n]] = Idx[n] + 1]
<1>1. n \in Nodes /\ k \in Nat /\ k <= Len(Children[n])
  BY TagsAssumption, ChildrenAssumption
<1>2. node \in Nodes /\ \A m \in Nodes : Len(Children[m]) \in Nat
  BY ChildrenAssumption DEF TypeOK
<1>3. there \in [Nodes -> Nat] /\ \A m \in Nodes : there[m] <= Len(Children[m])
  <2> HIDE DEF n, k
  <2> QED
    BY <1>1, <1>2
<1>4. CASE Parent[n] = None
  BY <1>3, <1>4 DEF Jump
<1>5. CASE Parent[n] # None
  <2>1. Parent[n] \in Nodes /\ Idx[n] + 1 \in Nat /\ Idx[n] + 1 <= Len(Children[Parent[n]])
    <3> HIDE DEF n
    <3> QED
      BY <1>1, <1>2, <1>5, NodesAssumption
  <2>2. up \in [Nodes -> Nat] /\ \A m \in Nodes : up[m] <= Len(Children[m])
    <3> HIDE DEF there, n, k
    <3> QED
      BY <1>2, <1>3, <2>1
  <2>3. Jump(p, n, k) = [m \in Nodes |-> IF m \in Completed(Parent[Parent[n]], up)
                                         THEN Len(Children[m]) ELSE up[m]]
    BY <1>5 DEF Jump
  <2> HIDE DEF up, there, n, k
  <2>4. Jump(p, n, k) \in [Nodes -> Nat] /\ \A m \in Nodes : Jump(p, n, k)[m] <= Len(Children[m])
    BY <1>2, <2>2, <2>3
  <2> QED
    BY <2>4 DEF n, k
<1>6. QED
  BY <1>4, <1>5

\* A jump to a tag at the top or one node below it leaves the nodes around the
\* tag right after the requests they are entered through.
LEMMA JumpNests ==
  ASSUME TypeOK, NEW p \in [Nodes -> Nat], NEW t, Goto(p, t)
  PROVE  WellNested'
<1> DEFINE n == Tags[t].parent
           k == Tags[t].idx
           there == [[p EXCEPT ![node] = 0] EXCEPT ![n] = k]
           up == [there EXCEPT ![Parent[n]] = Idx[n] + 1]
<1>1. t \in DOMAIN Tags /\ n \in Nodes /\ node' = n /\ pos' = Jump(p, n, k)
  BY TagsAssumption DEF Goto, CanGoto
<1> SUFFICES ASSUME strayed' = {} PROVE WellNested'
  BY DEF WellNested
<1>s. t \in Shallow
  BY DEF Goto
<1>2. CASE Parent[n] = None
  <2>1. Ancestors[n] = {n}
    BY <1>1, <1>2, AncestorsAssumption
  <2> QED
    BY <1>1, <1>2, <2>1 DEF WellNested
<1>3. CASE Parent[n] # None
  <2>1. Parent[Parent[n]] = None
    BY <1>3, <1>s DEF Shallow
  <2>2. Parent[n] \in Nodes
    <3> HIDE DEF n
    <3> QED
      BY <1>1, <1>3, NodesAssumption
  <2>3. Ancestors[n] = {n, Parent[n]}
    <3> HIDE DEF n
    <3> QED
      BY <1>1, <1>3, <2>1, <2>2, AncestorsAssumption
  <2>4. Completed(Parent[Parent[n]], up) = {}
    BY <2>1 DEF Completed
  <2>5. pos' = [m \in Nodes |-> IF m \in Completed(Parent[Parent[n]], up)
                                THEN Len(Children[m]) ELSE up[m]]
    BY <1>1, <1>3 DEF Jump
  <2>6. pos'[Parent[n]] = up[Parent[n]]
    <3> HIDE DEF up, n
    <3> QED
      BY <2>2, <2>4, <2>5
  <2>7. up[Parent[n]] = Idx[n] + 1
    <3>1. there \in [Nodes -> Nat \cup {k}]
      <4> HIDE DEF n, k
      <4> QED
        BY Zenon
    <3> HIDE DEF there, n
    <3> QED
      BY <2>2, <3>1
  <2> HIDE DEF up, n
  <2> QED
    BY <1>1, <2>1, <2>3, <2>6, <2>7 DEF WellNested
<1>4. QED
  BY <1>2, <1>3

\* Entering a node below the current one, through the request just taken.
LEMMA EntersBelow ==
  ASSUME TypeOK, WellNested, pc = "handler", NEW b \in Nodes,
         Parent[b] = node, Idx[b] = pos[node] - 1,
         node' = b, pos' = [pos EXCEPT ![b] = 0], strayed' = strayed
  PROVE  WellNested'
<1>1. node \in Nodes /\ node # None
  BY NodesAssumption DEF TypeOK
<1>2. Ancestors[b] = {b} \cup Ancestors[node] /\ b \notin Ancestors[node] /\ node \in Ancestors[node]
  BY <1>1, AncestorsAssumption
<1>3. pos'[node] = Idx[b] + 1
  BY <1>1, <1>2 DEF TypeOK
<1>4. \A n \in Ancestors[node] : Parent[n] # None =>
        Parent[n] \in Nodes /\ Parent[n] # b
  BY <1>1, <1>2, UpIsAncestor
<1>5. strayed = {} => \A n \in Ancestors[node] : Parent[n] # None => pos'[Parent[n]] = Idx[n] + 1
  BY <1>4 DEF WellNested, TypeOK
<1>6. QED
  BY <1>2, <1>3, <1>5 DEF WellNested

\* The node [do] of the while that the flow is at.
LEMMA WhileNode ==
  ASSUME TypeOK, pc = "handler", Current.name = "while"
  PROVE  /\ Current.do \in Nodes
         /\ Current.do = node \/ (Parent[Current.do] = node /\ Idx[Current.do] = pos[node] - 1)
         /\ Current.maxSteps \in Int
<1>1. node \in Nodes /\ pos[node] \in 1..Len(Children[node])
  BY ChildrenAssumption DEF TypeOK
<1>2. QED
  BY <1>1, ChildrenAssumption DEF Current

\* A step keeps the shapes of the state, and positions within their nodes.
LEMMA TypeStep ==
  ASSUME TypeOK, [Next]_vars
  PROVE  TypeOK'
<1>1. CASE GetParentNode
  <2>1. node' \in Nodes
    BY Zenon, <1>1, NodesAssumption DEF GetParentNode, TypeOK
  <2>2. pos' \in [Nodes -> Nat] /\ \A n \in Nodes : pos'[n] <= Len(Children[n])
    BY <1>1, ChildrenAssumption DEF GetParentNode, TypeOK
  <2> QED
    BY <1>1, <2>1, <2>2 DEF GetParentNode, TypeOK
<1>2. CASE End
  BY <1>2, ChildrenAssumption DEF End, TypeOK
<1>3. CASE Take
  <2>1. pos[node] + 1 \in Nat /\ pos[node] + 1 <= Len(Children[node])
    BY <1>3, ChildrenAssumption DEF Take, AtEnd, TypeOK
  <2>2. NextChild.limiter \in Limiters \cup {None}
    BY <2>1, ChildrenAssumption DEF NextChild, TypeOK
  <2>3. count' \in [Limiters -> Nat]
    BY <1>3, <2>2 DEF Take, TypeOK
  <2>4. prev' \in (Nodes \X Nat) \cup {None}
    BY <1>3 DEF Take, PreviousRequest, TypeOK
  <2>5. /\ pos' \in [Nodes -> Nat] /\ \A n \in Nodes : pos'[n] <= Len(Children[n])
        /\ pos'[node] > 0
    BY <1>3, <2>1 DEF Take, TypeOK
  <2> QED
    BY <1>3, <2>3, <2>4, <2>5 DEF Take, TypeOK
<1>4. CASE LimitReached
  <2> DEFINE p == [pos EXCEPT ![node] = @ + 1]
  <2>1. p \in [Nodes -> Nat] /\ \A n \in Nodes : p[n] <= Len(Children[n])
    BY <1>4, ChildrenAssumption DEF LimitReached, AtEnd, TypeOK
  <2>2. Goto(p, NextChild.failover)
    BY <1>4 DEF LimitReached
  <2>3. node' \in Nodes /\ pos' \in [Nodes -> Nat] /\ \A n \in Nodes : pos'[n] <= Len(Children[n])
    <3> HIDE DEF p
    <3> QED
      BY Zenon, <2>1, <2>2, JumpType, TagsAssumption DEF Goto, CanGoto, TypeOK
  <2>4. gotos' \in 0..(MaxGoto + 1) /\ strayed' \subseteq DOMAIN Tags
    BY <2>2, NodesAssumption DEF Goto, CanGoto, TypeOK
  <2>5. prev' \in (Nodes \X Nat) \cup {None}
    BY <1>4 DEF LimitReached, PreviousRequest, TypeOK
  <2> QED
    BY <1>4, <2>3, <2>4, <2>5 DEF LimitReached, TypeOK
<1>5. CASE LimitEnds
  <2>1. pos[node] + 1 \in Nat /\ pos[node] + 1 <= Len(Children[node])
    BY <1>5, ChildrenAssumption DEF LimitEnds, AtEnd, TypeOK
  <2>2. prev' \in (Nodes \X Nat) \cup {None}
    BY <1>5 DEF LimitEnds, PreviousRequest, TypeOK
  <2> QED
    BY <1>5, <2>1, <2>2 DEF LimitEnds, TypeOK
<1>6. CASE Application
  BY <1>6 DEF Application, Handler, TypeOK, Counted, StepOf
<1>7. CASE Break
  BY <1>7 DEF Break, TypeOK
<1>8. CASE Branch
  <2>1. PICK b \in Current.branches : node' = b /\ pos' = [pos EXCEPT ![b] = 0]
    BY Zenon, <1>8 DEF Branch
  <2>2. b \in Nodes
    BY <1>8, ChildrenAssumption DEF Branch, Handler, Current, TypeOK
  <2>3. pos' \in [Nodes -> Nat] /\ \A n \in Nodes : pos'[n] <= Len(Children[n])
    BY <2>1, <2>2, ChildrenAssumption DEF TypeOK
  <2> QED
    BY <1>8, <2>1, <2>2, <2>3 DEF Branch, Handler, TypeOK, Counted, StepOf
<1>9. CASE NoBranch
  BY <1>9 DEF NoBranch, Handler, TypeOK, Counted, StepOf
<1>10. CASE GotoTag
  <2>1. node' \in Nodes /\ pos' \in [Nodes -> Nat] /\ \A n \in Nodes : pos'[n] <= Len(Children[n])
    BY Zenon, <1>10, JumpType, TagsAssumption DEF GotoTag, Goto, CanGoto, TypeOK
  <2>2. gotos' \in 0..(MaxGoto + 1) /\ strayed' \subseteq DOMAIN Tags
    BY <1>10, NodesAssumption DEF GotoTag, Goto, CanGoto, TypeOK
  <2> QED
    BY <1>10, <2>1, <2>2 DEF GotoTag, Handler, TypeOK
<1>11. CASE GotoFails
  BY <1>11 DEF GotoFails, Handler, TypeOK, Counted, StepOf
<1>12. CASE WhileNext
  <2> DEFINE d == Current.do
  <2>1. d \in Nodes
    BY <1>12, WhileNode DEF WhileNext, Handler
  <2>2. StepOf(d) + 1 \in Nat /\ counter[d] + 1 \in Nat
    BY <2>1 DEF StepOf, TypeOK
  <2>3. /\ node' = d /\ pos' = [pos EXCEPT ![d] = 0] /\ step' = [step EXCEPT ![d] = StepOf(d) + 1]
        /\ counter' = [counter EXCEPT ![d] = @ + 1] /\ pc' \in {"next", "break"}
        /\ UNCHANGED <<prev, gotos, count, strayed>>
    BY <1>12 DEF WhileNext, Handler, Counted
  <2> HIDE DEF d
  <2>4. pos' \in [Nodes -> Nat] /\ \A n \in Nodes : pos'[n] <= Len(Children[n])
    BY <2>1, <2>3, ChildrenAssumption DEF TypeOK
  <2>5. step' \in [Nodes -> Nat]
    BY <2>1, <2>2, <2>3 DEF TypeOK
  <2>6. counter' \in [Nodes -> Nat]
    BY <2>1, <2>2, <2>3 DEF TypeOK
  <2> QED
    BY <2>1, <2>3, <2>4, <2>5, <2>6 DEF TypeOK
<1>13. CASE WhileEnds
  <2> DEFINE d == Current.do
  <2>1. d \in Nodes
    BY <1>13, WhileNode DEF WhileEnds, Handler
  <2>2. StepOf(d) \in Nat /\ counter[d] + 1 \in Nat
    BY <2>1 DEF StepOf, TypeOK
  <2>3. /\ step' \in {[step EXCEPT ![d] = 0], [step EXCEPT ![d] = StepOf(d)]}
        /\ counter' \in {counter, [counter EXCEPT ![d] = @ + 1]} /\ pc' \in {"next", "break"}
        /\ UNCHANGED <<node, pos, prev, gotos, count, strayed>>
    BY <1>13 DEF WhileEnds, Handler, Counted
  <2> HIDE DEF d
  <2>4. step' \in [Nodes -> Nat]
    BY <2>1, <2>2, <2>3 DEF TypeOK
  <2>5. counter' \in [Nodes -> Nat]
    BY <2>1, <2>2, <2>3 DEF TypeOK
  <2> QED
    BY <2>3, <2>4, <2>5 DEF TypeOK
<1>14. CASE WhileExhausted
  <2> DEFINE d == Current.do
  <2>1. d \in Nodes
    BY <1>14, WhileNode DEF WhileExhausted, Handler
  <2>2. StepOf(d) \in Nat /\ counter[d] + 1 \in Nat
    BY <2>1 DEF StepOf, TypeOK
  <2>3. /\ step' \in {[step EXCEPT ![d] = 0], [step EXCEPT ![d] = StepOf(d)]}
        /\ counter' \in {counter, [counter EXCEPT ![d] = @ + 1]} /\ pc' \in {"next", "break"}
        /\ UNCHANGED <<node, pos, prev, gotos, count, strayed>>
    BY <1>14 DEF WhileExhausted, Handler, Counted
  <2> HIDE DEF d
  <2>4. step' \in [Nodes -> Nat]
    BY <2>1, <2>2, <2>3 DEF TypeOK
  <2>5. counter' \in [Nodes -> Nat]
    BY <2>1, <2>2, <2>3 DEF TypeOK
  <2> QED
    BY <2>3, <2>4, <2>5 DEF TypeOK
<1>15. CASE UNCHANGED vars
  BY <1>15 DEF vars, TypeOK
<1>16. QED
  BY <1>1, <1>2, <1>3, <1>4, <1>5, <1>6, <1>7, <1>8, <1>9, <1>10, <1>11, <1>12, <1>13, <1>14, <1>15 DEF Next, Route, Returned

\* A step keeps the nodes around the current one in place.
LEMMA NestedStep ==
  ASSUME TypeOK, WellNested, [Next]_vars
  PROVE  WellNested'
<1>a. node \in Nodes
  BY DEF TypeOK
<1>b. \A n \in Ancestors[node] : Parent[n] # None => Parent[n] # node
  BY <1>a, NotBelow
<1>1. CASE GetParentNode
  <2>1. node' = Parent[node] /\ Parent[node] \in Nodes /\ pos' = [pos EXCEPT ![node] = 0]
    BY Zenon, <1>1, NodesAssumption DEF GetParentNode, TypeOK
  <2>2. \A n \in Ancestors[Parent[node]] : n \in Ancestors[node] /\ n \in Nodes /\ n # node
    BY <2>1, NodesAssumption, AncestorsAssumption DEF TypeOK
  <2>3. \A n \in Ancestors[Parent[node]] : Parent[n] # None => Parent[n] \in Ancestors[Parent[node]]
    BY <2>1, UpIsAncestor
  <2>4. \A n \in Ancestors[node'] : Parent[n] # None => pos'[Parent[n]] = pos[Parent[n]]
    BY <2>1, <2>2, <2>3 DEF TypeOK
  <2> QED
    BY <1>1, <2>1, <2>2, <2>4 DEF GetParentNode, WellNested
<1>2. CASE End
  BY <1>2 DEF End, WellNested
<1>3. CASE Take
  BY <1>3, <1>a, <1>b DEF Take, WellNested, TypeOK
<1>4. CASE LimitReached
  <2>1. [pos EXCEPT ![node] = @ + 1] \in [Nodes -> Nat]
    BY DEF TypeOK
  <2> QED
    BY Zenon, <1>4, <2>1, JumpNests DEF LimitReached
<1>5. CASE LimitEnds
  BY <1>5 DEF LimitEnds, WellNested
<1>6. CASE Application
  BY <1>6 DEF Application, Handler, WellNested
<1>7. CASE Break
  BY <1>7 DEF Break, WellNested
<1>8. CASE Branch
  <2>1. PICK b \in Current.branches : node' = b /\ pos' = [pos EXCEPT ![b] = 0]
    BY Zenon, <1>8 DEF Branch
  <2>2. b \in Nodes /\ Parent[b] = node /\ Idx[b] = pos[node] - 1
    BY <1>8, ChildrenAssumption DEF Branch, Handler, Current, TypeOK
  <2> QED
    BY Zenon, <1>8, <2>1, <2>2, EntersBelow DEF Branch, Handler
<1>9. CASE NoBranch
  BY <1>9 DEF NoBranch, Handler, WellNested
<1>10. CASE GotoTag
  <2>1. pos \in [Nodes -> Nat]
    BY DEF TypeOK
  <2> QED
    BY <1>10, <2>1, JumpNests DEF GotoTag
<1>11. CASE GotoFails
  BY <1>11 DEF GotoFails, Handler, WellNested
<1>12. CASE WhileNext
  <2> DEFINE d == Current.do
  <2>1. d \in Nodes /\ (d = node \/ (Parent[d] = node /\ Idx[d] = pos[node] - 1))
    BY Zenon, <1>12, WhileNode DEF WhileNext, Handler
  <2>2. node' = d /\ pos' = [pos EXCEPT ![d] = 0] /\ pc = "handler" /\ strayed' = strayed
    BY <1>12 DEF WhileNext, Handler
  <2> HIDE DEF d
  <2>3. CASE d = node
    BY <2>1, <2>2, <2>3, <1>a, <1>b DEF WellNested, TypeOK
  <2> QED
    BY Zenon, <2>1, <2>2, <2>3, EntersBelow
<1>13. CASE WhileEnds
  BY <1>13 DEF WhileEnds, Handler, WellNested
<1>14. CASE WhileExhausted
  BY <1>14 DEF WhileExhausted, Handler, WellNested
<1>15. CASE UNCHANGED vars
  BY <1>15 DEF vars, WellNested
<1>16. QED
  BY <1>1, <1>2, <1>3, <1>4, <1>5, <1>6, <1>7, <1>8, <1>9, <1>10, <1>11, <1>12, <1>13, <1>14, <1>15 DEF Next, Route, Returned

\* No request is ever taken past the end of a node: the positions that Next,
\* setPreviousRequest and RepeatInterrupted index with stay in range.
THEOREM PositionsInRange == Spec => []TypeOK
<1>1. Init => TypeOK
  BY NodesAssumption, ChildrenAssumption DEF Init, TypeOK
<1>2. TypeOK /\ [Next]_vars => TypeOK'
  BY TypeStep
<1>3. QED
  BY <1>1, <1>2, PTL DEF Spec

\* In every schema, until a goto leads more than one node below the top,
\* branches, loops and gotos leave the flow so that every nested node goes back
\* to the request after the one it was entered through.
THEOREM AlwaysNested == Spec => []WellNested
<1>1. Init => WellNested
  <2> SUFFICES ASSUME Init PROVE WellNested
    OBVIOUS
  <2>1. node \in Nodes /\ Parent[node] = None
    BY NodesAssumption DEF Init
  <2>2. Ancestors[node] = {node}
    BY <2>1, AncestorsAssumption
  <2> QED
    BY <2>1, <2>2 DEF WellNested
<1>2. TypeOK /\ WellNested /\ [Next]_vars => WellNested'
  BY NestedStep
<1>3. QED
  BY <1>1, <1>2, PositionsInRange, PTL DEF Spec

-----------------------------------------------------------------------------
\* Around a node that is not at the top there is only what is around its parent,
\* and a node that has a node nested in it has requests.
LEMMA Around ==
  ASSUME NEW n \in Nodes, Parent[n] # None
  PROVE  /\ Parent[n] \in Nodes /\ Ancestors[n] = {n} \cup Ancestors[Parent[n]]
         /\ Len(Children[Parent[n]]) # 0 /\ Idx[n] + 1 # 0
<1>1. Parent[n] \in Nodes /\ Idx[n] \in Nat /\ Idx[n] < Len(Children[Parent[n]])
  BY NodesAssumption
<1>2. Len(Children[Parent[n]]) \in Nat
  BY Zenon, <1>1, ChildrenAssumption
<1>3. Ancestors[n] = {n} \cup Ancestors[Parent[n]]
  BY Zenon, AncestorsAssumption
<1>4. Len(Children[Parent[n]]) # 0 /\ Idx[n] + 1 # 0
  BY <1>1, <1>2
<1> QED BY Zenon, <1>1, <1>3, <1>4

\* Around a node at the top there is nothing.
LEMMA AroundTop ==
  ASSUME NEW n \in Nodes, Parent[n] = None PROVE Ancestors[n] = {n}
BY Zenon, AncestorsAssumption

\* CompleteTreeTraversal marks the node it is called on, unless that was started.
LEMMA MarksFirst ==
  ASSUME NEW g \in Nodes, Parent[g] # None, NEW p, p[g] = 0
  PROVE  g \in Completed(g, p)
<1>1. g # None /\ g \in Ancestors[g]
  BY Zenon, NodesAssumption, AncestorsAssumption
<1>2. ASSUME NEW k \in Ancestors[g], g \in Ancestors[k] PROVE k = g
  <2> SUFFICES ASSUME k # g PROVE FALSE
    OBVIOUS
  <2>1. k \in Ancestors[Parent[g]] /\ Parent[g] \in Nodes
    BY Zenon, Around
  <2>2. Ancestors[k] \subseteq Ancestors[Parent[g]]
    BY Zenon, <2>1, AncestorsAssumption
  <2> QED BY Zenon, <1>2, <2>2, AncestorsAssumption
<1> QED BY Zenon, <1>1, <1>2 DEF Completed

\* A jump to a tag at most three nodes below the top leaves no node around the
\* tag, but the top one, unstarted.
LEMMA JumpStarts ==
  ASSUME TypeOK, NEW p \in [Nodes -> Nat], NEW t, Goto(p, t)
  PROVE  ComesBackStarted'
<1> DEFINE n == Tags[t].parent
           k == Tags[t].idx
           there == [[p EXCEPT ![node] = 0] EXCEPT ![n] = k]
           up == [there EXCEPT ![Parent[n]] = Idx[n] + 1]
           g == Parent[Parent[n]]
<1>1. t \in DOMAIN Tags /\ n \in Nodes /\ node' = n /\ pos' = Jump(p, n, k)
  BY TagsAssumption DEF Goto, CanGoto
<1> SUFFICES ASSUME strayed' \subseteq Near PROVE ComesBackStarted'
  BY Zenon DEF ComesBackStarted
<1>2. t \in Near
  <2>1. t \in Shallow \/ t \in strayed'
    BY Zenon DEF Goto
  <2> QED BY Zenon, <1>1, <2>1 DEF Near
<1> SUFFICES ASSUME NEW x \in Ancestors[n], Parent[x] # None, Parent[Parent[x]] # None
             PROVE  pos'[Parent[x]] # 0
  BY Zenon, <1>1 DEF ComesBackStarted
<1>3. Parent[n] # None
  <2> SUFFICES ASSUME Parent[n] = None PROVE FALSE
    OBVIOUS
  <2>1. Ancestors[n] = {n}
    BY Zenon, <1>1, AncestorsAssumption
  <2> QED BY Zenon, <2>1
<1>4. Parent[n] \in Nodes /\ Ancestors[n] = {n} \cup Ancestors[Parent[n]] /\ Len(Children[Parent[n]]) # 0 /\ Idx[n] + 1 # 0
  BY Zenon, <1>1, <1>3, Around
<1>5. pos' = [m \in Nodes |-> IF m \in Completed(g, up) THEN Len(Children[m]) ELSE up[m]]
  BY Zenon, <1>1, <1>3 DEF Jump
<1>6. up[Parent[n]] = Idx[n] + 1
  <2>1. DOMAIN there = Nodes
    <3> HIDE DEF n, k
    <3> QED BY Zenon
  <2> HIDE DEF there, n
  <2> QED BY Zenon, <1>4, <2>1
<1>7. ASSUME NEW m \in Nodes, Len(Children[m]) # 0, m \in Completed(g, up) \/ up[m] # 0
      PROVE  pos'[m] # 0
  BY Zenon, <1>5, <1>7
<1>8. CASE x = n
  BY Zenon, <1>4, <1>6, <1>7, <1>8
<1>9. CASE x # n
  <2>1. x \in Ancestors[Parent[n]]
    BY Zenon, <1>4, <1>9
  <2>2. g # None
    <3> SUFFICES ASSUME g = None PROVE FALSE
      OBVIOUS
    <3>1. Ancestors[Parent[n]] = {Parent[n]}
      BY Zenon, <1>4, AroundTop
    <3> QED BY Zenon, <2>1, <3>1
  <2>3. g \in Nodes /\ Ancestors[Parent[n]] = {Parent[n]} \cup Ancestors[g] /\ Len(Children[g]) # 0
    BY Zenon, <1>4, <2>2, Around
  <2>4. CASE x = Parent[n]
    <3>1. up[g] = 0 => g \in Completed(g, up)
      BY Zenon, <2>3, <2>4, MarksFirst
    <3> QED BY Zenon, <1>7, <2>3, <2>4, <3>1
  <2>5. CASE x # Parent[n]
    <3>1. x \in Ancestors[g]
      BY Zenon, <2>1, <2>3, <2>5
    <3>2. t \notin Shallow
      BY Zenon, <1>3, <2>2 DEF Shallow
    <3>3. Parent[g] = None \/ Parent[Parent[g]] = None
      BY Zenon, <1>2, <3>2 DEF Near
    <3>4. Parent[g] # None
      <4> SUFFICES ASSUME Parent[g] = None PROVE FALSE
        OBVIOUS
      <4>1. Ancestors[g] = {g}
        BY Zenon, <2>3, AroundTop
      <4> QED BY Zenon, <3>1, <4>1
    <3>5. Parent[g] \in Nodes /\ Ancestors[g] = {g} \cup Ancestors[Parent[g]]
      BY Zenon, <2>3, <3>4, Around
    <3>6. Ancestors[Parent[g]] = {Parent[g]}
      BY Zenon, <3>3, <3>4, <3>5, AroundTop
    <3> QED BY Zenon, <3>1, <3>3, <3>4, <3>5, <3>6
  <2> QED BY Zenon, <2>4, <2>5
<1> QED BY Zenon, <1>8, <1>9

\* Entering a node below the current one.
LEMMA EntersStarted ==
  ASSUME TypeOK, ComesBackStarted, pc = "handler", NEW b \in Nodes, Parent[b] = node,
         node' = b, pos' = [pos EXCEPT ![b] = 0], strayed' = strayed
  PROVE  ComesBackStarted'
<1>1. node \in Nodes /\ node # None /\ pos \in [Nodes -> Nat] /\ pos[node] # 0
  BY NodesAssumption DEF TypeOK
<1>2. Ancestors[b] = {b} \cup Ancestors[node] /\ b \notin Ancestors[node]
  BY Zenon, <1>1, AncestorsAssumption
<1>3. node \in Ancestors[node] /\ pos'[node] = pos[node]
  BY Zenon, <1>1, <1>2, AncestorsAssumption
<1>4. \A n \in Ancestors[node] : Parent[n] # None => Parent[n] \in Nodes /\ pos'[Parent[n]] = pos[Parent[n]]
  BY Zenon, <1>1, <1>2, UpIsAncestor
<1> QED BY Zenon, <1>1, <1>2, <1>3, <1>4 DEF ComesBackStarted

\* A step keeps the nodes around the current one started.
LEMMA StartedStep ==
  ASSUME TypeOK, ComesBackStarted, [Next]_vars
  PROVE  ComesBackStarted'
<1>1. node \in Nodes /\ pos \in [Nodes -> Nat] /\ pos[node] \in Nat
  BY DEF TypeOK
<1>2. \A n \in Ancestors[node] : Parent[n] # None => Parent[n] # node /\ Parent[n] \in Nodes
  BY Zenon, <1>1, NotBelow, UpIsAncestor
<1>3. CASE GetParentNode
  <2>1. /\ node' = Parent[node] /\ Parent[node] \in Nodes /\ pos' = [pos EXCEPT ![node] = 0]
        /\ strayed' = strayed /\ pc = "next"
    BY Zenon, <1>1, <1>3, NodesAssumption DEF GetParentNode
  <2>2. \A n \in Ancestors[Parent[node]] : n \in Ancestors[node]
    BY Zenon, <1>1, <1>3, Around DEF GetParentNode
  <2>3. \A n \in Ancestors[Parent[node]] : Parent[n] # None => pos'[Parent[n]] = pos[Parent[n]]
    BY Zenon, <1>1, <1>2, <2>1, <2>2
  <2> QED BY Zenon, <2>1, <2>2, <2>3 DEF ComesBackStarted
<1>4. CASE Take
  <2>1. pos' = [pos EXCEPT ![node] = pos[node] + 1] /\ node' = node /\ strayed' = strayed /\ pc = "next"
    BY Zenon, <1>4 DEF Take
  <2>2. \A n \in Ancestors[node] : Parent[n] # None => pos'[Parent[n]] = pos[Parent[n]]
    BY Zenon, <1>1, <1>2, <2>1
  <2> QED BY Zenon, <2>1, <2>2 DEF ComesBackStarted
<1>5. CASE LimitReached
  <2>1. [pos EXCEPT ![node] = pos[node] + 1] \in [Nodes -> Nat]
    BY <1>1
  <2> QED BY Zenon, <1>5, <2>1, JumpStarts DEF LimitReached
<1>6. CASE GotoTag
  BY Zenon, <1>1, <1>6, JumpStarts DEF GotoTag
<1>7. ASSUME UNCHANGED <<node, pos, strayed>>, pc \in {"next", "handler"} PROVE ComesBackStarted'
  BY Zenon, <1>7 DEF ComesBackStarted
<1>8. CASE End \/ LimitEnds \/ Break
  BY Zenon, <1>8 DEF End, LimitEnds, Break, ComesBackStarted
<1>9. CASE Application \/ NoBranch \/ GotoFails \/ WhileEnds \/ WhileExhausted
  BY Zenon, <1>7, <1>9 DEF Application, NoBranch, GotoFails, WhileEnds, WhileExhausted, Handler
<1>10. CASE Branch
  <2>1. PICK b \in Current.branches : node' = b /\ pos' = [pos EXCEPT ![b] = 0]
    BY Zenon, <1>10 DEF Branch
  <2>2. b \in Nodes /\ Parent[b] = node
    BY <1>10, ChildrenAssumption DEF Branch, Handler, Current, TypeOK
  <2> QED BY Zenon, <1>10, <2>1, <2>2, EntersStarted DEF Branch, Handler
<1>11. CASE WhileNext
  <2> DEFINE d == Current.do
  <2>1. node' = d /\ pos' = [pos EXCEPT ![d] = 0] /\ pc = "handler" /\ strayed' = strayed
    BY Zenon, <1>11 DEF WhileNext, Handler
  <2>2. d \in Nodes /\ (d = node \/ Parent[d] = node)
    BY Zenon, <1>11, WhileNode DEF WhileNext, Handler
  <2> HIDE DEF d
  <2>3. CASE d = node
    <3>1. \A n \in Ancestors[node] : Parent[n] # None => pos'[Parent[n]] = pos[Parent[n]]
      BY Zenon, <1>1, <1>2, <2>1, <2>3
    <3> QED BY Zenon, <2>1, <2>3, <3>1 DEF ComesBackStarted
  <2> QED BY Zenon, <2>1, <2>2, <2>3, EntersStarted
<1>12. CASE UNCHANGED vars
  BY Zenon, <1>12 DEF vars, ComesBackStarted
<1> QED BY Zenon, <1>3, <1>4, <1>5, <1>6, <1>8, <1>9, <1>10, <1>11, <1>12 DEF Next, Route, Returned

\* In every schema, until a goto leads more than three nodes below the top, a
\* flow that comes back to a node finds it started: what Goto and
\* CompleteTreeTraversal leave of the positions is enough.
THEOREM AlwaysStarted == Spec => []ComesBackStarted
<1>1. Init => ComesBackStarted
  <2> SUFFICES ASSUME Init PROVE ComesBackStarted
    OBVIOUS
  <2>1. node \in Nodes /\ Parent[node] = None
    BY Zenon, NodesAssumption DEF Init
  <2>2. Ancestors[node] = {node}
    BY Zenon, <2>1, AncestorsAssumption
  <2> QED BY Zenon, <2>1, <2>2 DEF ComesBackStarted
<1>2. TypeOK /\ ComesBackStarted /\ [Next]_vars => ComesBackStarted'
  BY Zenon, StartedStep
<1> QED BY <1>1, <1>2, PositionsInRange, PTL DEF Spec

-----------------------------------------------------------------------------
\* At a handler prevRequest is the request before it in its node, and a while
\* that is in an iteration has been counted.
PrevOK ==
  /\ pc = "handler" => prev = IF pos[node] = 1 THEN None ELSE <<node, pos[node] - 2>>
  /\ \A d \in Nodes : counter[d] = 0 => step[d] = 0

\* Every step keeps that.
LEMMA PrevStep ==
  ASSUME TypeOK, PrevOK, [Next]_vars
  PROVE  PrevOK'
<1>0. /\ node \in Nodes /\ pos \in [Nodes -> Nat] /\ pos[node] \in Nat
      /\ step \in [Nodes -> Nat] /\ counter \in [Nodes -> Nat]
  BY DEF TypeOK
<1>1. ASSUME pc' # "handler", UNCHANGED <<step, counter>> PROVE PrevOK'
  BY Zenon, <1>1 DEF PrevOK
<1>2. CASE Take
  <2>1. /\ pos' = [pos EXCEPT ![node] = pos[node] + 1] /\ prev' = PreviousRequest
        /\ UNCHANGED <<node, step, counter>>
    BY Zenon, <1>2 DEF Take
  <2>2. pos'[node] = pos[node] + 1
    BY <1>0, <2>1
  <2>3. pos'[node] - 2 = pos[node] - 1 /\ (pos'[node] = 1 <=> pos[node] = 0)
    BY <1>0, <2>2
  <2> QED BY Zenon, <2>1, <2>3 DEF PrevOK, PreviousRequest
<1>3. CASE \/ GetParentNode \/ End \/ LimitReached \/ LimitEnds \/ Application \/ Break
           \/ Branch \/ NoBranch \/ GotoTag \/ GotoFails
  <2>1. pc' # "handler" /\ UNCHANGED <<step, counter>>
    BY Zenon, <1>3
    DEF GetParentNode, End, LimitReached, LimitEnds, Application, Break,
        Branch, NoBranch, GotoTag, GotoFails, Handler
  <2> QED BY Zenon, <1>1, <2>1
<1>4. ASSUME NEW d \in Nodes, pc' # "handler", counter' = [counter EXCEPT ![d] = counter[d] + 1],
             NEW s, step' = [step EXCEPT ![d] = s]
      PROVE  PrevOK'
  <2>1. counter'[d] # 0 /\ \A m \in Nodes : m # d => counter'[m] = counter[m] /\ step'[m] = step[m]
    BY <1>0, <1>4
  <2> QED BY Zenon, <1>4, <2>1 DEF PrevOK
<1>5. CASE WhileNext \/ WhileEnds
  <2>1. Current.do \in Nodes
    BY Zenon, <1>5, WhileNode DEF WhileNext, WhileEnds, Handler
  <2> QED BY Zenon, <1>4, <1>5, <2>1 DEF WhileNext, WhileEnds, Handler, Counted
<1>6. CASE WhileExhausted
  <2>1. Current.do \in Nodes
    BY Zenon, <1>6, WhileNode DEF WhileExhausted, Handler
  <2> DEFINE d == Current.do
  <2>2. pc' # "handler" /\ counter' = counter /\ step' = [step EXCEPT ![d] = StepOf(d)]
    BY Zenon, <1>6 DEF WhileExhausted, Handler
  <2> HIDE DEF d
  <2>3. counter[d] = 0 => StepOf(d) = step[d]
    BY Zenon DEF StepOf
  <2>4. \A m \in Nodes : step'[m] = IF m = d THEN StepOf(d) ELSE step[m]
    BY Zenon, <1>0, <2>2
  <2> QED BY Zenon, <2>2, <2>3, <2>4 DEF PrevOK
<1>7. CASE UNCHANGED vars
  BY Zenon, <1>7 DEF PrevOK, vars
<1> QED BY Zenon, <1>2, <1>3, <1>5, <1>6, <1>7 DEF Next, Route, Returned

\* "first step of cycle - execute [do] without conditions": in every schema, a
\* while that is reached from the node it is in runs an iteration, as often as
\* gotos have left its body before; whileHandler can tell by prevRequest.
THEOREM IteratesFirst == Spec => DoWhile
<1>1. Init => PrevOK
  BY Zenon DEF Init, PrevOK
<1>2. TypeOK /\ PrevOK /\ [Next]_vars => PrevOK'
  BY Zenon, PrevStep
<1>3. ASSUME TypeOK, PrevOK, Next, ~UNCHANGED vars, NEW d \in Nodes,
             pc = "handler", Current.name = "while", Current.do = d, node = Parent[d],
             counter[d] < Current.maxSteps, HasBody(d)
      PROVE  node' = d
  <2>0. node \in Nodes /\ pos[node] \in Nat /\ pos[node] > 0 /\ counter[d] \in Nat
    BY <1>3 DEF TypeOK
  <2>1. Idx[d] = pos[node] - 1
    <3>1. Parent[d] # None
      BY Zenon, <1>3, <2>0, NodesAssumption
    <3>2. d \in Ancestors[d]
      BY Zenon, <3>1, Around
    <3>3. d # node
      BY Zenon, <1>3, <3>1, <3>2, NotBelow
    <3> QED BY Zenon, <1>3, <3>1, <3>3, WhileNode
  <2>2. (Idx[d] = 0 <=> pos[node] = 1) /\ Idx[d] - 1 = pos[node] - 2
    BY <2>0, <2>1
  <2>3. prev = OriginalParent(d)
    BY Zenon, <1>3, <2>2 DEF PrevOK, OriginalParent
  <2>4. StepOf(d) = 0
    BY Zenon, <1>3, <2>3 DEF PrevOK, StepOf
  <2>5. ~WhileEnds
    BY Zenon, <1>3, <2>4 DEF WhileEnds
  <2>6. ~WhileExhausted
    <3> SUFFICES ASSUME WhileExhausted PROVE FALSE
      OBVIOUS
    <3>1. counter[d] >= Current.maxSteps
      BY Zenon, <1>3 DEF WhileExhausted
    <3>2. Current.maxSteps \in Int /\ counter[d] < Current.maxSteps
      BY Zenon, <1>3, WhileNode
    <3> HIDE DEF Current
    <3> QED BY <2>0, <3>1, <3>2
  <2>7. WhileNext
    <3>1. "while" \notin {"app", "break", "if", "goto"} /\ "handler" \notin {"next", "end", "break"}
      OBVIOUS
    <3> QED
      BY Zenon, <1>3, <2>5, <2>6, <3>1
      DEF Next, Route, Returned, GetParentNode, End, Take, LimitReached, LimitEnds, Application, Break,
          Branch, NoBranch, GotoTag, GotoFails, Handler
  <2> QED BY Zenon, <1>3, <2>7 DEF WhileNext
<1>4. TypeOK /\ PrevOK /\ [Next]_vars =>
        [\A d \in Nodes :
           (pc = "handler" /\ Current.name = "while" /\ Current.do = d /\ node = Parent[d]
            /\ counter[d] < Current.maxSteps /\ HasBody(d)) => node' = d]_vars
  BY Zenon, <1>3
<1> QED BY <1>1, <1>2, <1>4, PositionsInRange, PTL DEF Spec, DoWhile

-----------------------------------------------------------------------------
(* The positions as one place in the schema. *)

\* The place that positions p amount to for a flow in node n.
PlacesOf(n, p) == [i \in DOMAIN PathOf[n] |-> [node |-> PathOf[n][i], pos |-> p[PathOf[n][i]]]]
PlaceSet == [node: Nodes, pos: Nat]

\* p and q differ in node n at most.
SameBut(n, p, q) == \A m \in Nodes : m # n => p[m] = q[m]

\* The way down to a node.
LEMMA Paths ==
  ASSUME NEW n \in Nodes
  PROVE  /\ PathOf[n] \in Seq(Nodes) /\ Len(PathOf[n]) \in Nat /\ Len(PathOf[n]) >= 1
         /\ DOMAIN PathOf[n] = 1..Len(PathOf[n]) /\ PathOf[n][Len(PathOf[n])] = n
         /\ \A i \in 1..Len(PathOf[n]) : PathOf[n][i] \in Ancestors[n] /\ PathOf[n][i] \in Nodes
         /\ \A i \in 1..(Len(PathOf[n]) - 1) : PathOf[n][i] # n /\ Parent[PathOf[n][i + 1]] = PathOf[n][i]
         /\ Parent[n] # None =>
              /\ Len(PathOf[n]) = Len(PathOf[Parent[n]]) + 1
              /\ \A i \in 1..Len(PathOf[Parent[n]]) : PathOf[n][i] = PathOf[Parent[n]][i]
<1>1. PathOf[n] \in Seq(Ancestors[n]) /\ \A m \in Ancestors[n] : m \in Nodes
  BY Zenon, PathAssumption, AncestorsAssumption
<1>2. \A i \in 1..(Len(PathOf[n]) - 1) : Parent[PathOf[n][i + 1]] = PathOf[n][i]
  BY Zenon, PathAssumption
<1>3. /\ PathOf[n] \in Seq(Nodes) /\ Len(PathOf[n]) \in Nat /\ DOMAIN PathOf[n] = 1..Len(PathOf[n])
      /\ \A i \in 1..Len(PathOf[n]) : PathOf[n][i] \in Ancestors[n] /\ PathOf[n][i] \in Nodes
  BY <1>1
<1>4. CASE Parent[n] = None
  <2>1. PathOf[n] = <<n>>
    BY Zenon, <1>4, PathAssumption
  <2>2. Len(PathOf[n]) = 1 /\ PathOf[n][1] = n /\ 1..(1 - 1) = {} /\ 1 >= 1
    BY <2>1
  <2> QED BY Zenon, <1>2, <1>3, <1>4, <2>2
<1>5. CASE Parent[n] # None
  <2>1. PathOf[n] = Append(PathOf[Parent[n]], n) /\ Parent[n] \in Nodes
    BY Zenon, <1>5, PathAssumption, Around
  <2>2. PathOf[Parent[n]] \in Seq(Ancestors[Parent[n]]) /\ n \notin Ancestors[Parent[n]]
    BY Zenon, <1>5, <2>1, PathAssumption, AncestorsAssumption
  <2> DEFINE A == Ancestors[Parent[n]]
             q == PathOf[Parent[n]]
  <2> HIDE DEF A, q
  <2>3. q \in Seq(A) /\ n \notin A /\ PathOf[n] = Append(q, n)
    BY Zenon, <2>1, <2>2 DEF A, q
  <2>4. /\ Len(PathOf[n]) = Len(q) + 1 /\ Len(q) \in Nat /\ PathOf[n][Len(q) + 1] = n
        /\ \A i \in 1..Len(q) : PathOf[n][i] = q[i] /\ q[i] \in A
    BY <2>3
  <2>5. Len(PathOf[n]) >= 1 /\ Len(PathOf[n]) - 1 = Len(q)
    BY <2>4
  <2>6. PathOf[n][Len(PathOf[n])] = n
    BY Zenon, <2>4
  <2>7. \A i \in 1..(Len(PathOf[n]) - 1) : PathOf[n][i] # n
    BY Zenon, <2>3, <2>4, <2>5
  <2>8. /\ Len(PathOf[n]) = Len(PathOf[Parent[n]]) + 1
        /\ \A i \in 1..Len(PathOf[Parent[n]]) : PathOf[n][i] = PathOf[Parent[n]][i]
    BY Zenon, <2>4 DEF q
  <2> QED BY Zenon, <1>2, <1>3, <2>5, <2>6, <2>7, <2>8
<1> QED BY Zenon, <1>4, <1>5

\* What a place is.
LEMMA PlacesShape ==
  ASSUME NEW n \in Nodes, NEW p \in [Nodes -> Nat]
  PROVE  /\ PlacesOf(n, p) \in Seq(PlaceSet) /\ Len(PlacesOf(n, p)) = Len(PathOf[n])
         /\ \A i \in 1..Len(PathOf[n]) : PlacesOf(n, p)[i] = [node |-> PathOf[n][i], pos |-> p[PathOf[n][i]]]
         /\ PlacesOf(n, p)[Len(PlacesOf(n, p))] = [node |-> n, pos |-> p[n]]
<1>1. /\ Len(PathOf[n]) \in Nat /\ Len(PathOf[n]) >= 1 /\ DOMAIN PathOf[n] = 1..Len(PathOf[n])
      /\ PathOf[n][Len(PathOf[n])] = n /\ \A i \in 1..Len(PathOf[n]) : PathOf[n][i] \in Nodes
  BY Zenon, Paths
<1>2. \A i \in 1..Len(PathOf[n]) : PlacesOf(n, p)[i] = [node |-> PathOf[n][i], pos |-> p[PathOf[n][i]]]
  BY Zenon, <1>1 DEF PlacesOf
<1>3. \A m \in Nodes : [node |-> m, pos |-> p[m]] \in PlaceSet
  BY DEF PlaceSet
<1>4. PlacesOf(n, p) \in [1..Len(PathOf[n]) -> PlaceSet]
  BY Zenon, <1>1, <1>3 DEF PlacesOf
<1>5. PlacesOf(n, p) \in Seq(PlaceSet) /\ Len(PlacesOf(n, p)) = Len(PathOf[n])
  BY <1>1, <1>4
<1>6. Len(PathOf[n]) \in 1..Len(PathOf[n])
  BY <1>1
<1> QED BY Zenon, <1>1, <1>2, <1>5, <1>6

\* Frame i is the i-th node around n with its position.
LEMMA PlaceAt ==
  ASSUME NEW n \in Nodes, NEW p \in [Nodes -> Nat], NEW i \in 1..Len(PathOf[n])
  PROVE  PlacesOf(n, p)[i] = [node |-> PathOf[n][i], pos |-> p[PathOf[n][i]]]
BY Zenon, PlacesShape

\* A place without its last node.
LEMMA Above ==
  ASSUME NEW X, NEW q \in Seq(X), Len(q) >= 1
  PROVE  /\ SubSeq(q, 1, Len(q) - 1) \in Seq(X)
         /\ Len(SubSeq(q, 1, Len(q) - 1)) = Len(q) - 1
         /\ \A i \in 1..(Len(q) - 1) : SubSeq(q, 1, Len(q) - 1)[i] = q[i]
<1> DEFINE n == Len(q) - 1
<1>1. n \in Nat /\ \A i \in 1..n : q[i] \in X
  OBVIOUS
<1> HIDE DEF n
<1>2. SubSeq(q, 1, n) \in Seq(X)
  BY <1>1, SubSeqProperties
<1>3. Len(SubSeq(q, 1, n)) = n
  BY <1>1, SubSeqProperties
<1>4. \A i \in 1..n : SubSeq(q, 1, n)[i] = q[i]
  BY <1>1, SubSeqProperties
<1> QED BY Zenon, <1>2, <1>3, <1>4 DEF n

\* The position of the current node changes.
LEMMA PlaceMoves ==
  ASSUME NEW n \in Nodes, NEW p \in [Nodes -> Nat], NEW q \in [Nodes -> Nat], SameBut(n, p, q)
  PROVE  PlacesOf(n, q) = Append(SubSeq(PlacesOf(n, p), 1, Len(PlacesOf(n, p)) - 1), [node |-> n, pos |-> q[n]])
<1> DEFINE s == PlacesOf(n, p)
           t == PlacesOf(n, q)
           f == SubSeq(s, 1, Len(s) - 1)
           e == [node |-> n, pos |-> q[n]]
           l == Len(PathOf[n])
<1>1. l \in Nat /\ l >= 1
  BY Zenon, Paths
<1>0. s \in Seq(PlaceSet) /\ Len(s) = l /\ \A i \in 1..l : s[i] = [node |-> PathOf[n][i], pos |-> p[PathOf[n][i]]]
  BY Zenon, PlacesShape
<1>00. t \in Seq(PlaceSet) /\ Len(t) = l /\ \A i \in 1..l : t[i] = [node |-> PathOf[n][i], pos |-> q[PathOf[n][i]]]
  BY Zenon, PlacesShape
<1>2. \A i \in 1..l : i \in 1..(l - 1) \/ i = l
  BY <1>1
<1>3. \A i \in 1..(l - 1) : i \in 1..l
  BY <1>1
<1>4. PathOf[n][l] = n /\ \A i \in 1..(l - 1) : PathOf[n][i] \in Nodes /\ PathOf[n][i] # n
  BY Zenon, <1>3, Paths
<1>11. l \in 1..l
  BY <1>1
<1> HIDE DEF s, t, l
<1>5. t[l] = e /\ \A i \in 1..(l - 1) : t[i] = s[i]
  <2>1. t[l] = e
    BY Zenon, <1>00, <1>4, <1>11
  <2> SUFFICES ASSUME NEW i \in 1..(l - 1) PROVE t[i] = s[i]
    BY Zenon, <2>1
  <2>2. i \in 1..l /\ p[PathOf[n][i]] = q[PathOf[n][i]]
    BY Zenon, <1>3, <1>4 DEF SameBut
  <2> QED BY Zenon, <1>0, <1>00, <2>2
<1>6. e \in PlaceSet
  BY DEF PlaceSet
<1> HIDE DEF e
<1>7. f \in Seq(PlaceSet) /\ Len(f) = l - 1 /\ \A i \in 1..(l - 1) : f[i] = s[i]
  <2>1. Len(s) >= 1
    BY Zenon, <1>0, <1>1
  <2>2. f \in Seq(PlaceSet) /\ Len(f) = Len(s) - 1 /\ \A i \in 1..(Len(s) - 1) : f[i] = s[i]
    BY Zenon, <1>0, <2>1, Above
  <2> HIDE DEF f
  <2> QED BY Zenon, <1>0, <2>2
<1> HIDE DEF f
<1>8. /\ Append(f, e) \in Seq(PlaceSet) /\ Len(Append(f, e)) = l /\ Append(f, e)[l] = e
      /\ \A i \in 1..(l - 1) : Append(f, e)[i] = f[i]
  BY <1>1, <1>6, <1>7
<1>9. \A i \in 1..l : t[i] = Append(f, e)[i]
  BY Zenon, <1>2, <1>5, <1>7, <1>8
<1>10. t = Append(f, e)
  BY <1>00, <1>8, <1>9, SeqEqual
<1> QED BY Zenon, <1>10 DEF s, t, e, f

\* The current node is left for its parent.
LEMMA PlaceLeft ==
  ASSUME NEW n \in Nodes, NEW p \in [Nodes -> Nat], NEW q \in [Nodes -> Nat], SameBut(n, p, q),
         Parent[n] # None
  PROVE  /\ PlacesOf(Parent[n], q) = SubSeq(PlacesOf(n, p), 1, Len(PlacesOf(n, p)) - 1)
         /\ Len(PlacesOf(n, p)) > 1
<1> DEFINE s == PlacesOf(n, p)
           t == PlacesOf(Parent[n], q)
           f == SubSeq(s, 1, Len(s) - 1)
           l == Len(PathOf[Parent[n]])
<1>0. Parent[n] \in Nodes
  BY Zenon, Around
<1>1. l \in Nat /\ l >= 1
  BY Zenon, <1>0, Paths
<1>2. Len(PathOf[n]) = l + 1 /\ \A i \in 1..l : PathOf[n][i] = PathOf[Parent[n]][i]
  BY Zenon, Paths
<1>3. l + 1 - 1 = l /\ (\A i \in 1..l : i \in 1..(l + 1)) /\ l + 1 > 1 /\ l + 1 >= 1
  BY <1>1
<1>4. \A i \in 1..l : PathOf[n][i] \in Nodes /\ PathOf[n][i] # n
  <2>1. /\ \A i \in 1..Len(PathOf[n]) : PathOf[n][i] \in Nodes
        /\ \A i \in 1..(Len(PathOf[n]) - 1) : PathOf[n][i] # n
    BY Zenon, Paths
  <2>2. Len(PathOf[n]) - 1 = l /\ \A i \in 1..l : i \in 1..Len(PathOf[n])
    BY <1>1, <1>2
  <2> QED BY Zenon, <2>1, <2>2
<1>5. t \in Seq(PlaceSet) /\ Len(t) = l /\ \A i \in 1..l : t[i] = [node |-> PathOf[Parent[n]][i], pos |-> q[PathOf[Parent[n]][i]]]
  BY Zenon, <1>0, PlacesShape
<1>9. s \in Seq(PlaceSet) /\ Len(s) = l + 1 /\ \A i \in 1..l : s[i] = [node |-> PathOf[n][i], pos |-> p[PathOf[n][i]]]
  <2>1. /\ s \in Seq(PlaceSet) /\ Len(s) = Len(PathOf[n])
        /\ \A i \in 1..Len(PathOf[n]) : s[i] = [node |-> PathOf[n][i], pos |-> p[PathOf[n][i]]]
    BY Zenon, PlacesShape
  <2> QED BY Zenon, <1>2, <1>3, <2>1
<1> HIDE DEF s, t, l
<1>10. \A i \in 1..l : t[i] = s[i]
  <2> SUFFICES ASSUME NEW i \in 1..l PROVE t[i] = s[i]
    OBVIOUS
  <2>1. PathOf[Parent[n]][i] = PathOf[n][i] /\ p[PathOf[n][i]] = q[PathOf[n][i]]
    BY Zenon, <1>2, <1>4 DEF SameBut
  <2>2. /\ t[i] = [node |-> PathOf[Parent[n]][i], pos |-> q[PathOf[Parent[n]][i]]]
        /\ s[i] = [node |-> PathOf[n][i], pos |-> p[PathOf[n][i]]]
    BY Zenon, <1>5, <1>9
  <2> QED BY <2>1, <2>2
<1>6. f \in Seq(PlaceSet) /\ Len(f) = l /\ \A i \in 1..l : f[i] = s[i]
  <2>1. Len(s) >= 1 /\ Len(s) - 1 = l
    <3>1. Len(s) = l + 1
      BY Zenon, <1>9
    <3> QED BY <1>1, <3>1
  <2>2. f \in Seq(PlaceSet) /\ Len(f) = Len(s) - 1 /\ \A i \in 1..(Len(s) - 1) : f[i] = s[i]
    BY Zenon, <1>9, <2>1, Above
  <2> HIDE DEF f
  <2> QED BY Zenon, <2>1, <2>2
<1> HIDE DEF f
<1>7. \A i \in 1..l : t[i] = f[i]
  BY Zenon, <1>10, <1>6
<1>8. t = f
  BY <1>5, <1>6, <1>7, SeqEqual
<1> QED BY Zenon, <1>3, <1>9, <1>8 DEF s, t, f

\* A node below the current one is entered.
LEMMA PlaceEntered ==
  ASSUME NEW b \in Nodes, NEW n \in Nodes, Parent[b] = n,
         NEW p \in [Nodes -> Nat], NEW q \in [Nodes -> Nat], SameBut(b, p, q)
  PROVE  PlacesOf(b, q) = Append(PlacesOf(n, p), [node |-> b, pos |-> q[b]])
<1> DEFINE s == PlacesOf(n, p)
           t == PlacesOf(b, q)
           e == [node |-> b, pos |-> q[b]]
           l == Len(PathOf[n])
<1>1. l \in Nat /\ l >= 1
  BY Zenon, Paths
<1>2. Len(PathOf[b]) = l + 1 /\ \A i \in 1..l : PathOf[b][i] = PathOf[n][i]
  <2>1. Parent[b] # None
    BY Zenon, NodesAssumption
  <2>2. /\ Len(PathOf[b]) = Len(PathOf[Parent[b]]) + 1
        /\ \A i \in 1..Len(PathOf[Parent[b]]) : PathOf[b][i] = PathOf[Parent[b]][i]
    BY Zenon, <2>1, Paths
  <2> QED BY Zenon, <2>2
<1>3. /\ l + 1 - 1 = l /\ (\A i \in 1..l : i \in 1..(l + 1)) /\ l + 1 \in 1..(l + 1)
      /\ \A i \in 1..(l + 1) : i \in 1..l \/ i = l + 1
  BY <1>1
<1>4. PathOf[b][l + 1] = b /\ \A i \in 1..l : PathOf[b][i] \in Nodes /\ PathOf[b][i] # b
  <2>1. /\ \A i \in 1..Len(PathOf[b]) : PathOf[b][i] \in Nodes
        /\ \A i \in 1..(Len(PathOf[b]) - 1) : PathOf[b][i] # b
        /\ PathOf[b][Len(PathOf[b])] = b
    BY Zenon, Paths
  <2>2. Len(PathOf[b]) - 1 = l /\ \A i \in 1..l : i \in 1..Len(PathOf[b])
    BY <1>1, <1>2
  <2> QED BY Zenon, <1>2, <2>1, <2>2
<1>10. s \in Seq(PlaceSet) /\ Len(s) = l /\ \A i \in 1..l : s[i] = [node |-> PathOf[n][i], pos |-> p[PathOf[n][i]]]
  <2>1. s \in Seq(PlaceSet) /\ Len(s) = l
    BY Zenon, PlacesShape
  <2>2. ASSUME NEW i \in 1..l PROVE s[i] = [node |-> PathOf[n][i], pos |-> p[PathOf[n][i]]]
    BY Zenon, PlaceAt
  <2> HIDE DEF s, l
  <2> QED BY Zenon, <2>1, <2>2
<1>11. t \in Seq(PlaceSet) /\ Len(t) = l + 1 /\ \A i \in 1..(l + 1) : t[i] = [node |-> PathOf[b][i], pos |-> q[PathOf[b][i]]]
  <2>1. t \in Seq(PlaceSet) /\ Len(t) = Len(PathOf[b])
    BY Zenon, PlacesShape
  <2>2. ASSUME NEW i \in 1..Len(PathOf[b]) PROVE t[i] = [node |-> PathOf[b][i], pos |-> q[PathOf[b][i]]]
    BY Zenon, PlaceAt
  <2> HIDE DEF t, l
  <2> QED BY Zenon, <1>2, <2>1, <2>2
<1> HIDE DEF s, t, l
<1>5. t[l + 1] = e /\ \A i \in 1..l : t[i] = s[i]
  <2>1. t[l + 1] = e
    BY Zenon, <1>3, <1>4, <1>11
  <2>2. \A i \in 1..l : t[i] = s[i]
    <3> SUFFICES ASSUME NEW i \in 1..l PROVE t[i] = s[i]
      OBVIOUS
    <3>1. i \in 1..(l + 1) /\ PathOf[b][i] = PathOf[n][i] /\ p[PathOf[b][i]] = q[PathOf[b][i]]
      BY Zenon, <1>2, <1>3, <1>4 DEF SameBut
    <3>2. /\ t[i] = [node |-> PathOf[b][i], pos |-> q[PathOf[b][i]]]
          /\ s[i] = [node |-> PathOf[n][i], pos |-> p[PathOf[n][i]]]
      BY Zenon, <1>10, <1>11, <3>1
    <3> QED BY <3>1, <3>2
  <2> QED BY Zenon, <2>1, <2>2
<1>6. e \in PlaceSet
  BY DEF PlaceSet
<1> HIDE DEF e
<1>7. /\ Append(s, e) \in Seq(PlaceSet) /\ Len(Append(s, e)) = l + 1 /\ Append(s, e)[l + 1] = e
      /\ \A i \in 1..l : Append(s, e)[i] = s[i]
  BY <1>10, <1>6
<1>8. \A i \in 1..(l + 1) : t[i] = Append(s, e)[i]
  BY Zenon, <1>3, <1>5, <1>7
<1>9. t = Append(s, e)
  BY <1>11, <1>7, <1>8, SeqEqual
<1> QED BY Zenon, <1>9 DEF s, t, e

\* Where the nodes around n stand after the requests they were entered through,
\* the flow is at the place of its request.
LEMMA PlaceJumped ==
  ASSUME NEW n \in Nodes, NEW q \in [Nodes -> Nat],
         \A x \in Ancestors[n] : Parent[x] # None => q[Parent[x]] = Idx[x] + 1
  PROVE  PlacesOf(n, q) = Abstract!PlaceOf(n, q[n])
<1>1. PICK l \in Nat : l = Len(PathOf[n]) /\ l >= 1
  BY Zenon, Paths
<1>2. /\ \A i \in 1..l : i \in 1..(l - 1) \/ i = l
      /\ \A i \in 1..(l - 1) : i \in 1..l /\ i + 1 \in 1..l /\ i # l
  BY <1>1
<1>3. \A i \in 1..(l - 1) : q[PathOf[n][i]] = Idx[PathOf[n][i + 1]] + 1
  <2> SUFFICES ASSUME NEW i \in 1..(l - 1) PROVE q[PathOf[n][i]] = Idx[PathOf[n][i + 1]] + 1
    OBVIOUS
  <2>1. PathOf[n][i + 1] \in Ancestors[n] /\ Parent[PathOf[n][i + 1]] = PathOf[n][i] /\ PathOf[n][i] \in Nodes
    BY Zenon, <1>1, <1>2, Paths
  <2>2. PathOf[n][i] # None
    BY Zenon, <2>1, NodesAssumption
  <2> QED BY Zenon, <2>1, <2>2
<1>4. PathOf[n][l] = n /\ DOMAIN PathOf[n] = 1..l
  BY Zenon, <1>1, Paths
<1>5. \A i \in 1..l : q[PathOf[n][i]] = IF i = l THEN q[n] ELSE Idx[PathOf[n][i + 1]] + 1
  BY Zenon, <1>2, <1>3, <1>4
<1> QED BY Zenon, <1>1, <1>4, <1>5 DEF PlacesOf, Abstract!PlaceOf

\* The last node of the place is the current one.
LEMMA CurrentPlace ==
  ASSUME TypeOK, Going
  PROVE  /\ Phase = pc /\ Places = PlacesOf(node, pos)
         /\ Abstract!Top = [node |-> node, pos |-> pos[node]]
         /\ Abstract!Top.node = node /\ Abstract!Top.pos = pos[node] /\ Abstract!Taken = Current
<1>1. node \in Nodes /\ pos \in [Nodes -> Nat]
  BY Zenon DEF TypeOK
<1>2. Phase = pc /\ Places = PlacesOf(node, pos)
  BY Zenon DEF Phase, Places, PlacesOf
<1>3. Abstract!Top = [node |-> node, pos |-> pos[node]]
  BY Zenon, <1>1, <1>2, PlacesShape DEF Abstract!Top
<1>4. Abstract!Top.node = node /\ Abstract!Top.pos = pos[node]
  BY Zenon, <1>3
<1> QED BY Zenon, <1>2, <1>3, <1>4 DEF Abstract!Taken, Current

\* A flow that has returned or strayed stays so.
LEMMA GoingBefore ==
  ASSUME Next, Going' PROVE Going
<1>1. strayed \subseteq strayed'
  BY Zenon
  DEF Next, Route, Returned, GetParentNode, End, Take, LimitReached, LimitEnds, Application, Break, Branch,
      NoBranch, GotoTag, GotoFails, WhileNext, WhileEnds, WhileExhausted, Goto, vars
<1>2. pc \in {"next", "handler"}
  BY Zenon
  DEF Going, Next, Route, Returned, GetParentNode, End, Take, LimitReached, LimitEnds, Application, Break,
      Branch, NoBranch, GotoTag, GotoFails, WhileNext, WhileEnds, WhileExhausted, Handler, vars
<1> QED BY Zenon, <1>1, <1>2 DEF Going

\* A jump puts the flow at the place of the tag.
LEMMA JumpStructured ==
  ASSUME TypeOK, TypeOK', WellNested', Going, Going', NEW p \in [Nodes -> Nat], NEW t, Goto(p, t)
  PROVE  t \in DOMAIN Tags /\ Places' = Abstract!PlaceOf(Tags[t].parent, Tags[t].idx)
<1> DEFINE n == Tags[t].parent
           k == Tags[t].idx
           there == [[p EXCEPT ![node] = 0] EXCEPT ![n] = k]
           up == [there EXCEPT ![Parent[n]] = Idx[n] + 1]
<1>1. t \in DOMAIN Tags /\ n \in Nodes /\ node' = n /\ pos' = Jump(p, n, k) /\ t \in Shallow
  BY Zenon, TagsAssumption DEF Goto, CanGoto, Going
<1>2. pos' \in [Nodes -> Nat]
  BY Zenon DEF TypeOK
<1>3. there[n] = k
  <2> HIDE DEF n, k
  <2> QED BY Zenon, <1>1
<1>4. pos'[n] = k
  <2>1. CASE Parent[n] = None
    BY Zenon, <1>1, <1>3, <2>1 DEF Jump
  <2>2. CASE Parent[n] # None
    <3>1. Completed(Parent[Parent[n]], up) = {}
      BY Zenon, <1>1, <2>2 DEF Shallow, Completed
    <3>2. pos'[n] = up[n]
      BY Zenon, <1>1, <2>2, <3>1 DEF Jump
    <3>3. Parent[n] # n
      BY Zenon, <1>1, <2>2, AncestorsAssumption
    <3>4. DOMAIN there = Nodes
      <4> HIDE DEF n, k
      <4> QED BY Zenon
    <3> HIDE DEF there, n
    <3> QED BY Zenon, <1>1, <1>3, <3>2, <3>3, <3>4
  <2> QED BY Zenon, <2>1, <2>2
<1>5. \A x \in Ancestors[n] : Parent[x] # None => pos'[Parent[x]] = Idx[x] + 1
  BY Zenon, <1>1 DEF WellNested, Going
<1>6. Places' = PlacesOf(n, pos')
  BY Zenon, <1>1 DEF Places, PlacesOf
<1>7. PlacesOf(n, pos') = Abstract!PlaceOf(n, pos'[n])
  BY Zenon, <1>1, <1>2, <1>5, PlaceJumped
<1> QED BY Zenon, <1>1, <1>4, <1>6, <1>7

\* Every step is one of a structured flow, or changes nothing there.
LEMMA StructuredStep ==
  ASSUME TypeOK, TypeOK', WellNested', [Next]_vars
  PROVE  [Abstract!Next]_<<Places, Phase>>
<1>1. CASE UNCHANGED vars
  BY Zenon, <1>1 DEF vars, Places, Phase, Going
<1>2. ASSUME ~Going' PROVE Phase' = "end" /\ Places' = <<>>
  BY Zenon, <1>2 DEF Phase, Places
<1>3. CASE Next /\ ~Going
  <2>1. ~Going'
    BY Zenon, <1>3, GoingBefore
  <2> QED BY Zenon, <1>2, <1>3, <2>1 DEF Phase, Places
<1>4. CASE ~Going'
  BY Zenon, <1>2, <1>4 DEF Abstract!Next, Abstract!End
<1>5. CASE Next /\ Going /\ Going'
  <2>0. /\ node \in Nodes /\ pos \in [Nodes -> Nat] /\ pos[node] \in Nat /\ node' \in Nodes /\ pos' \in [Nodes -> Nat]
        /\ pos[node] <= Len(Children[node]) /\ Len(Children[node]) \in Nat
    BY ChildrenAssumption DEF TypeOK
  <2>1. /\ Phase = pc /\ Places = PlacesOf(node, pos)
        /\ Abstract!Top = [node |-> node, pos |-> pos[node]]
        /\ Abstract!Top.node = node /\ Abstract!Top.pos = pos[node] /\ Abstract!Taken = Current
    BY Zenon, <1>5, CurrentPlace
  <2>2. Phase' = pc' /\ Places' = PlacesOf(node', pos')
    BY Zenon, <1>5 DEF Phase, Places, PlacesOf
  <2>3. pc' # "end" /\ pc' # "break" /\ strayed' = {}
    BY Zenon, <1>5 DEF Going
  <2>4. ASSUME node' = node, SameBut(node, pos, pos')
        PROVE  Places' = Append(Abstract!Front, [node |-> node, pos |-> pos'[node]])
    BY Zenon, <2>0, <2>1, <2>2, <2>4, PlaceMoves DEF Abstract!Front
  <2>5. ASSUME NEW b \in Nodes, pos' = [pos EXCEPT ![b] = 0]
        PROVE  SameBut(b, pos, pos') /\ pos'[b] = 0
    BY Zenon, <2>0, <2>5 DEF SameBut
  <2>6. CASE GetParentNode
    <3>1. /\ pc = "next" /\ pc' = "next" /\ pos[node] = Len(Children[node]) /\ Parent[node] # None
          /\ node' = Parent[node] /\ pos' = [pos EXCEPT ![node] = 0]
      BY Zenon, <2>6 DEF GetParentNode, AtEnd
    <3>2. Places' = Abstract!Front /\ Len(Places) > 1
      <4>1. SameBut(node, pos, pos')
        BY Zenon, <2>0, <2>5, <3>1
      <4>2. /\ PlacesOf(node', pos') = SubSeq(PlacesOf(node, pos), 1, Len(PlacesOf(node, pos)) - 1)
            /\ Len(PlacesOf(node, pos)) > 1
        BY Zenon, <2>0, <3>1, <4>1, PlaceLeft
      <4> QED BY Zenon, <2>1, <2>2, <4>2 DEF Abstract!Front
    <3> QED BY Zenon, <2>1, <2>2, <3>1, <3>2 DEF Abstract!Leave, Abstract!Next
  <2>7. CASE Take
    <3>1. /\ pc = "next" /\ pc' = "handler" /\ pos[node] # Len(Children[node])
          /\ node' = node /\ pos' = [pos EXCEPT ![node] = pos[node] + 1]
      BY Zenon, <2>7 DEF Take, AtEnd
    <3>2. pos'[node] = pos[node] + 1 /\ SameBut(node, pos, pos')
      BY Zenon, <2>0, <3>1 DEF SameBut
    <3>3. pos[node] < Len(Children[node])
      BY <2>0, <3>1
    <3>4. [Abstract!Top EXCEPT !.pos = Abstract!Top.pos + 1] = [node |-> node, pos |-> pos[node] + 1]
      BY <2>1
    <3>5. Places' = Append(Abstract!Front, [Abstract!Top EXCEPT !.pos = Abstract!Top.pos + 1])
      BY Zenon, <2>4, <3>1, <3>2, <3>4
    <3> QED BY Zenon, <2>1, <2>2, <3>1, <3>3, <3>5 DEF Abstract!Take, Abstract!Next
  <2>8. CASE LimitReached
    <3>1. /\ pc = "next" /\ pc' = pc /\ Goto([pos EXCEPT ![node] = pos[node] + 1], NextChild.failover)
      BY Zenon, <2>8 DEF LimitReached
    <3>2. [pos EXCEPT ![node] = pos[node] + 1] \in [Nodes -> Nat]
      BY <2>0
    <3>3. PICK t : t = NextChild.failover
      OBVIOUS
    <3>4. t \in DOMAIN Tags /\ Places' = Abstract!PlaceOf(Tags[t].parent, Tags[t].idx)
      BY Zenon, <1>5, <3>1, <3>2, <3>3, JumpStructured
    <3>5. t = Children[Abstract!Top.node][Abstract!Top.pos + 1].failover
      BY Zenon, <2>1, <3>3 DEF NextChild
    <3> QED BY Zenon, <2>1, <2>2, <3>1, <3>4, <3>5 DEF Abstract!Jump, Abstract!Next
  <2>9. CASE GotoTag
    <3>1. pc = "handler" /\ pc' = "next" /\ Goto(pos, Current.target)
      BY Zenon, <2>3, <2>9 DEF GotoTag, Handler
    <3>2. PICK t : t = Current.target
      OBVIOUS
    <3>3. t \in DOMAIN Tags /\ Places' = Abstract!PlaceOf(Tags[t].parent, Tags[t].idx)
      BY Zenon, <1>5, <2>0, <3>1, <3>2, JumpStructured
    <3> QED BY Zenon, <2>1, <2>2, <3>1, <3>2, <3>3 DEF Abstract!Jump, Abstract!Next
  <2>10. CASE Application \/ NoBranch \/ GotoFails \/ WhileEnds \/ WhileExhausted
    <3>1. pc = "handler" /\ pc' = "next" /\ node' = node /\ pos' = pos
      BY Zenon, <2>3, <2>10 DEF Application, NoBranch, GotoFails, WhileEnds, WhileExhausted, Handler
    <3>2. Places' = Places
      BY Zenon, <2>1, <2>2, <3>1
    <3> QED BY Zenon, <2>1, <2>2, <3>1, <3>2 DEF Abstract!Stay, Abstract!Next
  <2>11. ASSUME NEW b \in Nodes, Parent[b] = node, node' = b, pos' = [pos EXCEPT ![b] = 0]
         PROVE  Places' = Append(Places, [node |-> b, pos |-> 0])
    <3>1. PlacesOf(b, pos') = Append(PlacesOf(node, pos), [node |-> b, pos |-> pos'[b]])
      <4>1. SameBut(b, pos, pos')
        BY Zenon, <2>5, <2>11
      <4>2. /\ b \in Nodes /\ node \in Nodes /\ Parent[b] = node
            /\ pos \in [Nodes -> Nat] /\ pos' \in [Nodes -> Nat]
        BY Zenon, <2>0, <2>11
      <4> QED BY Zenon, <4>1, <4>2, PlaceEntered
    <3> QED BY Zenon, <2>1, <2>2, <2>5, <2>11, <3>1
  <2>12. CASE Branch
    <3>1. PICK b \in Current.branches : node' = b /\ pos' = [pos EXCEPT ![b] = 0]
      BY Zenon, <2>12 DEF Branch
    <3>2. b \in Nodes /\ Parent[b] = node
      BY <2>12, ChildrenAssumption DEF Branch, Handler, Current, TypeOK
    <3>3. pc = "handler" /\ pc' = "next"
      BY Zenon, <2>3, <2>12 DEF Branch, Handler
    <3> QED BY Zenon, <2>1, <2>2, <2>11, <3>1, <3>2, <3>3 DEF Abstract!Enter, Abstract!Next
  <2>13. CASE WhileNext
    <3>1. PICK d : d = Current.do
      OBVIOUS
    <3>2. pc = "handler" /\ pc' = "next" /\ node' = d /\ pos' = [pos EXCEPT ![d] = 0]
      BY Zenon, <2>3, <2>13, <3>1 DEF WhileNext, Handler
    <3>3. d \in Nodes /\ (d = node \/ Parent[d] = node)
      BY Zenon, <2>13, <3>1, WhileNode DEF WhileNext, Handler
    <3>4. CASE d = node
      <4>1. [Abstract!Top EXCEPT !.pos = 0] = [node |-> node, pos |-> 0]
        BY <2>1
      <4>2. Places' = Append(Abstract!Front, [Abstract!Top EXCEPT !.pos = 0])
        BY Zenon, <2>0, <2>4, <2>5, <3>2, <3>4, <4>1
      <4> QED BY Zenon, <2>1, <2>2, <3>1, <3>2, <3>4, <4>2 DEF Abstract!Again, Abstract!Next
    <3>5. CASE d # node
      <4>1. Places' = Append(Places, [node |-> d, pos |-> 0])
        BY Zenon, <2>11, <3>2, <3>3, <3>5
      <4>2. d \in {Abstract!Taken.do} \ {None, Abstract!Top.node}
        BY Zenon, <2>1, <3>1, <3>3, <3>5, NodesAssumption
      <4> QED BY Zenon, <2>1, <2>2, <3>2, <4>1, <4>2 DEF Abstract!Enter, Abstract!Next
    <3> QED BY Zenon, <3>4, <3>5
  <2>14. ~End /\ ~LimitEnds /\ ~Break
    BY Zenon, <2>3 DEF End, LimitEnds, Break
  <2> QED BY Zenon, <1>1, <1>5, <2>6, <2>7, <2>8, <2>9, <2>10, <2>12, <2>13, <2>14 DEF Next, Route, Returned
<1> QED BY Zenon, <1>1, <1>3, <1>4, <1>5

\* In every schema the positions of the nodes amount to one place, which moves as
\* StructuredFlow says, until a goto leads more than one node below the top: the
\* interpreter with its positions spread over the tree implements a flow with a
\* stack of places.
THEOREM PositionsAreStack == Spec => IsStructured
<1>1. Init => Abstract!Init
  <2> SUFFICES ASSUME Init PROVE Abstract!Init
    OBVIOUS
  <2>1. node \in Roots /\ node \in Nodes /\ Parent[node] = None /\ pos = [n \in Nodes |-> 0] /\ Going /\ pc = "next"
    BY Zenon, NodesAssumption DEF Init, Going
  <2>2. PathOf[node] = <<node>> /\ pos[node] = 0
    BY Zenon, <2>1, PathAssumption
  <2>3. Places = [i \in DOMAIN PathOf[node] |-> [node |-> PathOf[node][i], pos |-> pos[PathOf[node][i]]]]
    BY Zenon, <2>1 DEF Places
  <2>4. Places = <<[node |-> node, pos |-> 0]>>
    <3>1. DOMAIN <<node>> = 1..1 /\ <<node>>[1] = node /\ \A i \in 1..1 : i = 1
      OBVIOUS
    <3>2. Places = [i \in 1..1 |-> [node |-> node, pos |-> 0]]
      BY Zenon, <2>2, <2>3, <3>1
    <3> QED BY <3>2
  <2> QED BY Zenon, <2>1, <2>4 DEF Abstract!Init, Phase
<1>2. TypeOK /\ TypeOK' /\ WellNested' /\ [Next]_vars => [Abstract!Next]_<<Places, Phase>>
  BY Zenon, StructuredStep
<1> QED BY <1>1, <1>2, PositionsInRange, AlwaysNested, PTL DEF Spec, IsStructured, Abstract!Spec

=============================================================================
