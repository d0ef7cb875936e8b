------------------------------ MODULE FlowParse ------------------------------
(***************************************************************************)
(* parseFlowArray and what it calls: from the nested lists of applications *)
(* of a schema to nodes and requests.  An application is a record that     *)
(* says only what the interpreter looks at; a node is named by its schema  *)
(* and the way down to it, a sequence of <<index of the owner, branch>>.   *)
(***************************************************************************)
EXTENDS Naturals, Sequences, FiniteSets, SequencesExt

CONSTANTS Schemas,  \* sequence of schemas, each a list of applications
          None

\* function and trigger only register what they hold; an application with no
\* name is dropped.
Kept(apps) == SelectSeq(apps, LAMBDA a : a.name \notin {"function", "trigger", ""})

\* The lists nested in an application, by branch.
Lists(a) == IF a.name \in {"if", "switch", "while"} THEN a.lists ELSE [b \in {} |-> <<>>]

RECURSIVE ListAt(_, _)
ListAt(apps, path) ==
  IF path = <<>> THEN apps
  ELSE ListAt(Lists(Kept(apps)[Head(path)[1] + 1])[Head(path)[2]], Tail(path))

RECURSIVE PathsIn(_)
PathsIn(apps) ==
  {<<>>} \cup UNION {UNION {{<<<<k - 1, b>>>> \o p : p \in PathsIn(Lists(Kept(apps)[k])[b])}
                            : b \in DOMAIN Lists(Kept(apps)[k])} : k \in DOMAIN Kept(apps)}

ParsedRoots == {<<s, <<>>>> : s \in DOMAIN Schemas}
ParsedNodes == UNION {{<<s, p>> : p \in PathsIn(Schemas[s])} : s \in DOMAIN Schemas}

ParsedParent == [n \in ParsedNodes |-> IF n[2] = <<>> THEN None ELSE <<n[1], Front(n[2])>>]
ParsedIdx == [n \in ParsedNodes |-> IF n[2] = <<>> THEN 0 ELSE Last(n[2])[1]]
ParsedAncestors == [n \in ParsedNodes |-> {<<n[1], SubSeq(n[2], 1, k)>> : k \in 0..Len(n[2])}]
ParsedPath == [n \in ParsedNodes |-> [k \in 1..(Len(n[2]) + 1) |-> <<n[1], SubSeq(n[2], 1, k - 1)>>]]

\* The applications of node n.
Apps(n) == Kept(ListAt(Schemas[n[1]], n[2]))

\* The request made of application k of node n.
ParseReq(n, k) ==
  LET a == Apps(n)[k]
      Nested(b) == <<n[1], Append(n[2], <<k - 1, b>>)>>
  IN [name |-> IF a.name = "switch" THEN "if" ELSE a.name,
      branches |-> IF a.name = "while" THEN {} ELSE {Nested(b) : b \in DOMAIN Lists(a)},
      do |-> IF a.name = "while" THEN Nested("do") ELSE None,
      maxSteps |-> IF a.name = "while" THEN a.maxSteps ELSE 0,
      target |-> a.target,
      limiter |-> IF a.max > 0 /\ a.failover # None THEN <<n, k - 1>> ELSE None,
      max |-> a.max, failover |-> a.failover, flags |-> a.flags]

IsDo(n) == n[2] # <<>> /\ Last(n[2])[2] = "do"

\* newWhileArgs adds the while itself to the end of its node.
ParsedChildren ==
  [n \in ParsedNodes |-> [k \in DOMAIN Apps(n) |-> ParseReq(n, k)]
                     \o IF IsDo(n) THEN <<ParseReq(ParsedParent[n], ParsedIdx[n] + 1)>> ELSE <<>>]

ParsedLimiters == UNION {{r.limiter : r \in Range(ParsedChildren[n])} : n \in ParsedNodes} \ {None}

\* trySetTag files the place of an application under its tag.
ParsedTags ==
  [t \in UNION {{a.tag : a \in Range(Apps(n))} : n \in ParsedNodes} \ {None} |->
     LET n == CHOOSE m \in ParsedNodes : \E a \in Range(Apps(m)) : a.tag = t
     IN [parent |-> n, idx |-> (CHOOSE k \in DOMAIN Apps(n) : Apps(n)[k].tag = t) - 1]]

=============================================================================
