--------------------------- MODULE StructuredFlow ---------------------------
(***************************************************************************)
(* What the interpreter promises about the order of requests: a flow is at *)
(* one place of its schema, given by the nodes it is in, from the top one  *)
(* down, and the number of requests taken in each.  A nested node is       *)
(* entered through the request just taken and left at its end; a jump puts *)
(* the flow where it would be had it come to the tag by itself.            *)
(***************************************************************************)
EXTENDS Naturals, Sequences

CONSTANTS Roots, Idx, Children, Tags, None,
          PathOf  \* the nodes from the top one to a node

VARIABLES stack,  \* places, [node, pos], from the top node to the current one
          at      \* next: between requests, handler: at one, end: nowhere

Front == SubSeq(stack, 1, Len(stack) - 1)
Top == stack[Len(stack)]
Taken == Children[Top.node][Top.pos]

\* The place of request k of node n.
PlaceOf(n, k) ==
  [i \in 1..Len(PathOf[n]) |->
     [node |-> PathOf[n][i],
      pos |-> IF i = Len(PathOf[n]) THEN k ELSE Idx[PathOf[n][i + 1]] + 1]]

Init == \E r \in Roots : stack = <<[node |-> r, pos |-> 0]>> /\ at = "next"

Take ==
  /\ at = "next" /\ at' = "handler"
  /\ Top.pos < Len(Children[Top.node])
  /\ stack' = Append(Front, [Top EXCEPT !.pos = @ + 1])

Stay == at = "handler" /\ at' = "next" /\ UNCHANGED stack

Enter ==
  /\ at = "handler" /\ at' = "next"
  /\ \E b \in Taken.branches \cup ({Taken.do} \ {None, Top.node}) :
       stack' = Append(stack, [node |-> b, pos |-> 0])

Again ==
  /\ at = "handler" /\ at' = "next"
  /\ Taken.do = Top.node
  /\ stack' = Append(Front, [Top EXCEPT !.pos = 0])

Leave ==
  /\ at = "next" /\ UNCHANGED at
  /\ Top.pos = Len(Children[Top.node])
  /\ Len(stack) > 1
  /\ stack' = Front

Jump ==
  /\ at' = "next"
  /\ \E t \in DOMAIN Tags :
       /\ \/ at = "handler" /\ t = Taken.target
          \/ at = "next" /\ t = Children[Top.node][Top.pos + 1].failover
       /\ stack' = PlaceOf(Tags[t].parent, Tags[t].idx)

End == at' = "end" /\ stack' = <<>>

Next == Take \/ Stay \/ Enter \/ Again \/ Leave \/ Jump \/ End

Spec == Init /\ [][Next]_<<stack, at>>

=============================================================================
