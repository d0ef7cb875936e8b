---------------------------- MODULE SuspendProofs ----------------------------
(***************************************************************************)
(* What is proved of dialogs that are suspended and of those that wait in  *)
(* a queue of the call centre.                                             *)
(*                                                                         *)
(* FlowSuspend, for every schema and any number of suspensions: where a    *)
(* schema goes on when it is resumed, and that it starts nothing twice.    *)
(* CcQueue, for any number of joins, dialogs, subscriptions and lost       *)
(* connections: which channel a connection holds, and, with one            *)
(* subscription at a time, that the listener sends on a closed channel     *)
(* only after an interruption.                                             *)
(***************************************************************************)
EXTENDS FlowSuspend, CcQueue, SequenceTheorems, TLAPS

-----------------------------------------------------------------------------
(* FlowSuspend. *)

\* The flow and the request that frame i of the stack is at.
FlowAt(i) == stack[i].flow
At(i) == <<stack[i].flow, stack[i].pos>>

StackOK ==
  /\ stack \in Seq(Frame) /\ Len(stack) >= 1
  /\ FlowAt(1) = "main"
  /\ \A i \in 1..Len(stack) : stack[i].pos <= Len(Program[FlowAt(i)])
  /\ starts \in [Request -> Nat]

\* A flow that waits for another is at the request that calls it.
Calls ==
  \A i \in 1..(Len(stack) - 1) :
    At(i) \in Request /\ Name(At(i)) = FlowAt(i + 1) /\ starts[At(i)] # 0

\* Where Route has started a request, it was counted, and nothing is cut off.
AtRequest ==
  /\ at \in {"started", "select"} => Current \in Request
  /\ at = "started" => starts[Current] # 0 /\ cut = None
  /\ run # "route" => Len(stack) = 1 /\ at = "return"
  /\ interrupted # None => interrupted \in Request

\* When a run of the schema is over, it was cut off where it is.
CutInPlace ==
  /\ Len(stack) > 1 /\ cut # None => cut[1] # "main"
  /\ at = "return" /\ cut # None /\ cut[1] = "main" /\ ~over =>
       interrupted = cut /\ cut = At(1)

\* No flow is run inside itself.
FlowsDiffer ==
  \A i, j \in 1..Len(stack) : FlowAt(i) = FlowAt(j) => i = j

\* What is still to come in a flow has not been started.
Ahead(i) ==
  \A k \in DOMAIN Program[FlowAt(i)] :
    k > stack[i].pos /\ Program[FlowAt(i)][k] \notin ForCustomer => starts[<<FlowAt(i), k>>] = 0

\* Nor has what is in a function that was not called.
Uncalled(r) ==
  \A k \in DOMAIN Program[Name(r)] :
    Program[Name(r)][k] \notin ForCustomer => starts[<<Name(r), k>>] = 0

NotStarted ==
  ~over =>
    /\ \A i \in 1..Len(stack) : i < Len(stack) \/ at # "return" \/ i = 1 => Ahead(i)
    /\ \A r \in Request :
         Name(r) \in Functions /\ (starts[r] = 0 \/ (at = "started" /\ r = Current)) => Uncalled(r)

RunInv == StackOK /\ Calls /\ AtRequest /\ CutInPlace
OnceInv == CalledOnce => FlowsDiffer /\ NotStarted /\ NeverTwice

-----------------------------------------------------------------------------
\* What a sequence is.
LEMMA SeqShape ==
  ASSUME NEW X, NEW q \in Seq(X)
  PROVE  /\ Len(q) \in Nat /\ DOMAIN q = 1..Len(q)
         /\ \A k \in 1..Len(q) : q[k] \in X
OBVIOUS

\* A sequence without its last element.
LEMMA ButLast ==
  ASSUME NEW X, NEW q \in Seq(X), Len(q) >= 1
  PROVE  /\ SubSeq(q, 1, Len(q) - 1) \in Seq(X)
         /\ Len(SubSeq(q, 1, Len(q) - 1)) = Len(q) - 1
         /\ \A i \in 1..(Len(q) - 1) : SubSeq(q, 1, Len(q) - 1)[i] = q[i]
<1> DEFINE n == Len(q) - 1
<1>1. n \in Nat
  OBVIOUS
<1>2. \A i \in 1..n : q[i] \in X
  OBVIOUS
<1> HIDE DEF n
<1>3. SubSeq(q, 1, n) \in Seq(X)
  BY <1>1, <1>2, SubSeqProperties
<1>4. Len(SubSeq(q, 1, n)) = n
  BY <1>1, <1>2, SubSeqProperties
<1>5. \A i \in 1..n : SubSeq(q, 1, n)[i] = q[i]
  BY <1>1, <1>2, SubSeqProperties
<1> QED BY Zenon, <1>3, <1>4, <1>5 DEF n

\* The requests of the program.
LEMMA Programs ==
  /\ \A f \in Functions :
       /\ Len(Program[f]) \in Nat /\ DOMAIN Program[f] = 1..Len(Program[f])
       /\ \A k \in 1..Len(Program[f]) :
            /\ <<f, k>> \in Request /\ Name(<<f, k>>) = Program[f][k]
            /\ Name(<<f, k>>) # "main"
            /\ Name(<<f, k>>) \in Functions => Name(<<f, k>>) \notin ForCustomer
  /\ \A r \in Request : r = <<r[1], r[2]>> /\ r[1] \in Functions /\ r[2] \in 1..Len(Program[r[1]])
<1>1. ASSUME NEW f \in Functions
      PROVE  /\ Len(Program[f]) \in Nat /\ DOMAIN Program[f] = 1..Len(Program[f])
             /\ \A k \in 1..Len(Program[f]) : Program[f][k] \in Applications \cup (Functions \ {"main"})
  <2> DEFINE X == Applications \cup (Functions \ {"main"})
  <2>1. Program[f] \in Seq(X)
    BY Zenon, ProgramAssumption
  <2> HIDE DEF X
  <2>2. /\ Len(Program[f]) \in Nat /\ DOMAIN Program[f] = 1..Len(Program[f])
        /\ \A k \in 1..Len(Program[f]) : Program[f][k] \in X
    BY Zenon, <2>1, SeqShape
  <2> QED BY Zenon, <2>2 DEF X
<1>2. \A x \in Applications : x # "main" /\ x \notin Functions
  BY Zenon, ProgramAssumption
<1>3. ForCustomer \subseteq Applications
  BY Zenon DEF Applications, Waits
<1>4. ASSUME NEW f \in Functions, NEW k \in 1..Len(Program[f])
      PROVE  <<f, k>> \in Request /\ Name(<<f, k>>) = Program[f][k]
  BY <1>1 DEF Request, Name
<1>5. ASSUME NEW r \in Request
      PROVE  r = <<r[1], r[2]>> /\ r[1] \in Functions /\ r[2] \in 1..Len(Program[r[1]])
  <2>1. PICK f \in Functions : \E k \in DOMAIN Program[f] : r = <<f, k>>
    BY Zenon DEF Request
  <2> QED BY <1>1, <2>1
<1>6. ASSUME NEW f \in Functions, NEW k \in 1..Len(Program[f])
      PROVE  /\ Name(<<f, k>>) # "main"
             /\ Name(<<f, k>>) \in Functions => Name(<<f, k>>) \notin ForCustomer
  <2>1. Program[f][k] \in Applications \cup (Functions \ {"main"}) /\ Name(<<f, k>>) = Program[f][k]
    BY Zenon, <1>1, <1>4
  <2> QED BY Zenon, <1>2, <1>3, <2>1
<1>7. \A f \in Functions :
        /\ Len(Program[f]) \in Nat /\ DOMAIN Program[f] = 1..Len(Program[f])
        /\ \A k \in 1..Len(Program[f]) :
             /\ <<f, k>> \in Request /\ Name(<<f, k>>) = Program[f][k]
             /\ Name(<<f, k>>) # "main"
             /\ Name(<<f, k>>) \in Functions => Name(<<f, k>>) \notin ForCustomer
  BY Zenon, <1>1, <1>4, <1>6
<1> QED BY Zenon, <1>5, <1>7

\* A frame of the stack.
LEMMA Frames ==
  ASSUME StackOK, NEW i \in 1..Len(stack)
  PROVE  /\ stack[i] \in Frame /\ FlowAt(i) \in Functions /\ stack[i].pos \in Nat
         /\ stack[i].pos > 0 => At(i) \in Request
         /\ At(i)[1] = FlowAt(i) /\ At(i)[2] = stack[i].pos
<1>1. stack \in Seq(Frame)
  BY Zenon DEF StackOK
<1>2. stack[i] \in Frame
  BY <1>1
<1>3. FlowAt(i) \in Functions /\ stack[i].pos \in Nat
  BY <1>2 DEF Frame, FlowAt
<1>4. stack[i].pos <= Len(Program[FlowAt(i)]) /\ Len(Program[FlowAt(i)]) \in Nat
  BY Zenon, <1>3, Programs DEF StackOK
<1>5. stack[i].pos > 0 => stack[i].pos \in 1..Len(Program[FlowAt(i)])
  BY <1>3, <1>4
<1> QED BY Zenon, <1>2, <1>3, <1>5, Programs DEF At, FlowAt

\* The last frame is replaced, or dropped.
LEMMA TopChanges ==
  ASSUME StackOK, NEW f \in Frame
  PROVE  /\ WithTop(f) \in Seq(Frame) /\ Len(WithTop(f)) = Len(stack) /\ WithTop(f)[Len(stack)] = f
         /\ \A i \in 1..(Len(stack) - 1) : WithTop(f)[i] = stack[i]
<1>1. stack \in Seq(Frame) /\ Len(stack) >= 1
  BY Zenon DEF StackOK
<1>2. /\ Below \in Seq(Frame) /\ Len(Below) = Len(stack) - 1
      /\ \A i \in 1..(Len(stack) - 1) : Below[i] = stack[i]
  BY Zenon, <1>1, ButLast DEF Below
<1> HIDE DEF Below
<1> QED BY <1>1, <1>2 DEF WithTop

\* The stack has the flows and the positions it had, up to frame n.
SameTo(n) ==
  \A i \in 1..n : stack'[i].flow = stack[i].flow /\ stack'[i].pos = stack[i].pos

\* Frames with another position or another cancel.
LEMMA FrameMoves ==
  ASSUME NEW f \in Frame, NEW p \in Nat, NEW c \in {"no", "yes"}
  PROVE  /\ [f EXCEPT !.pos = p] \in Frame /\ [f EXCEPT !.pos = p].flow = f.flow /\ [f EXCEPT !.pos = p].pos = p
         /\ [f EXCEPT !.cancel = c] \in Frame /\ [f EXCEPT !.cancel = c].flow = f.flow
         /\ [f EXCEPT !.cancel = c].pos = f.pos
         /\ [f EXCEPT !.cancel = c, !.pos = p] \in Frame /\ [f EXCEPT !.cancel = c, !.pos = p].flow = f.flow
         /\ [f EXCEPT !.cancel = c, !.pos = p].pos = p
BY Zenon DEF Frame

\* A stack of one frame.
LEMMA OneFrame ==
  ASSUME NEW f \in Frame PROVE <<f>> \in Seq(Frame) /\ Len(<<f>>) = 1 /\ <<f>>[1] = f
OBVIOUS

\* The last request of a flow and the first of a function.
LEMMA TopMoves ==
  ASSUME StackOK
  PROVE  /\ EndOfFlow => /\ stack' \in Seq(Frame) /\ Len(stack') = Len(stack) /\ SameTo(Len(stack) - 1)
                         /\ stack'[Len(stack)].flow = Top.flow /\ stack'[Len(stack)].pos = 0
         /\ Start => /\ stack' \in Seq(Frame) /\ Len(stack') = Len(stack) /\ SameTo(Len(stack) - 1)
                     /\ stack'[Len(stack)].flow = Top.flow /\ stack'[Len(stack)].pos = Top.pos + 1
         /\ Execute => /\ stack' \in Seq(Frame) /\ Len(stack') = Len(stack) + 1 /\ SameTo(Len(stack))
                       /\ stack'[Len(stack) + 1].flow = Name(Current) /\ stack'[Len(stack) + 1].pos = 0
<1>0. stack \in Seq(Frame) /\ Len(stack) \in Nat /\ Len(stack) \in 1..Len(stack)
  <2>1. stack \in Seq(Frame) /\ Len(stack) >= 1
    BY Zenon DEF StackOK
  <2> QED BY <2>1
<1>1. Top \in Frame /\ Top.pos \in Nat /\ 0 \in Nat /\ Top.pos + 1 \in Nat
  <2>1. Top \in Frame
    BY Zenon, <1>0, Frames DEF Top
  <2> QED BY <2>1 DEF Frame
<1> HIDE DEF Top
<1>2. ASSUME NEW p \in Nat, stack' = WithTop([Top EXCEPT !.pos = p])
      PROVE  /\ stack' \in Seq(Frame) /\ Len(stack') = Len(stack) /\ SameTo(Len(stack) - 1)
             /\ stack'[Len(stack)].flow = Top.flow /\ stack'[Len(stack)].pos = p
  <2>1. /\ [Top EXCEPT !.pos = p] \in Frame /\ [Top EXCEPT !.pos = p].flow = Top.flow
        /\ [Top EXCEPT !.pos = p].pos = p
    BY Zenon, <1>1, FrameMoves
  <2> QED BY Zenon, <1>2, <2>1, TopChanges DEF SameTo
<1>3. EndOfFlow => /\ stack' \in Seq(Frame) /\ Len(stack') = Len(stack) /\ SameTo(Len(stack) - 1)
                   /\ stack'[Len(stack)].flow = Top.flow /\ stack'[Len(stack)].pos = 0
  BY Zenon, <1>1, <1>2 DEF EndOfFlow
<1>4. Start => /\ stack' \in Seq(Frame) /\ Len(stack') = Len(stack) /\ SameTo(Len(stack) - 1)
               /\ stack'[Len(stack)].flow = Top.flow /\ stack'[Len(stack)].pos = Top.pos + 1
  BY Zenon, <1>1, <1>2 DEF Start
<1>5. ASSUME Execute
      PROVE  /\ stack' \in Seq(Frame) /\ Len(stack') = Len(stack) + 1 /\ SameTo(Len(stack))
             /\ stack'[Len(stack) + 1].flow = Name(Current) /\ stack'[Len(stack) + 1].pos = 0
  <2> DEFINE f == Started(Name(Current))
  <2>1. f \in Frame /\ f.flow = Name(Current) /\ f.pos = 0
    <3>1. Name(Current) \in Functions
      BY Zenon, <1>5 DEF Execute
    <3> HIDE DEF Name, Current
    <3> QED BY <3>1 DEF Started, Frame
  <2>2. stack' = Append(stack, f)
    BY Zenon, <1>5 DEF Execute
  <2> HIDE DEF f
  <2>3. /\ stack' \in Seq(Frame) /\ Len(stack') = Len(stack) + 1 /\ stack'[Len(stack) + 1] = f
        /\ \A i \in 1..Len(stack) : stack'[i] = stack[i]
    BY <1>0, <2>1, <2>2
  <2> QED BY Zenon, <2>1, <2>3 DEF SameTo
<1> QED BY Zenon, <1>3, <1>4, <1>5

\* The other steps of Route, and a suspension, keep where the flows are that
\* they do not drop.
LEMMA StackKept ==
  ASSUME StackOK, Block \/ HandlerDone \/ AnswerFirst \/ DoneFirst \/ Return \/ Check \/ Suspend
  PROVE  /\ stack' \in Seq(Frame) /\ Len(stack') \in 1..Len(stack) /\ SameTo(Len(stack'))
         /\ Len(stack') \in {1, Len(stack) - 1, Len(stack)}
<1>0. stack \in Seq(Frame) /\ Len(stack) \in Nat /\ Len(stack) \in 1..Len(stack) /\ 1 \in 1..Len(stack)
  <2>1. stack \in Seq(Frame) /\ Len(stack) >= 1
    BY Zenon DEF StackOK
  <2> QED BY <2>1
<1>1. CASE stack' = stack
  BY Zenon, <1>0, <1>1 DEF SameTo
<1>2. CASE stack' = <<[stack[1] EXCEPT !.cancel = "yes"]>>
  <2> DEFINE f == [stack[1] EXCEPT !.cancel = "yes"]
  <2>1. f \in Frame /\ f.flow = stack[1].flow /\ f.pos = stack[1].pos
    BY Zenon, <1>0, Frames, FrameMoves
  <2>2. stack' = <<f>>
    BY Zenon, <1>2
  <2> HIDE DEF f
  <2>3. stack' \in Seq(Frame) /\ Len(stack') = 1 /\ stack'[1] = f
    BY Zenon, <2>1, <2>2, OneFrame
  <2>4. \A i \in 1..1 : i = 1
    OBVIOUS
  <2> QED BY Zenon, <1>0, <2>1, <2>3, <2>4 DEF SameTo
<1>3. CASE HandlerDone
  <2>1. CASE Name(Current) = "break"
    <3> DEFINE f == [Top EXCEPT !.cancel = "yes"]
    <3>1. f \in Frame /\ f.flow = stack[Len(stack)].flow /\ f.pos = stack[Len(stack)].pos
      BY Zenon, <1>0, Frames, FrameMoves DEF Top
    <3>2. stack' = WithTop(f)
      BY Zenon, <1>3, <2>1 DEF HandlerDone
    <3> HIDE DEF f
    <3>3. /\ stack' \in Seq(Frame) /\ Len(stack') = Len(stack) /\ stack'[Len(stack)] = f
          /\ \A i \in 1..(Len(stack) - 1) : stack'[i] = stack[i]
      BY Zenon, <3>1, <3>2, TopChanges
    <3>4. \A i \in 1..Len(stack) : i \in 1..(Len(stack) - 1) \/ i = Len(stack)
      BY <1>0
    <3> QED BY Zenon, <1>0, <3>1, <3>3, <3>4 DEF SameTo
  <2>2. CASE Name(Current) # "break"
    BY Zenon, <1>1, <1>3, <2>2 DEF HandlerDone
  <2> QED BY Zenon, <2>1, <2>2
<1>4. CASE Return
  <2>1. CASE Len(stack) = 1
    BY Zenon, <1>1, <1>4, <2>1 DEF Return
  <2>2. CASE Len(stack) # 1
    <3> DEFINE n == Len(stack) - 1
               c == IF Top.cancel = "yes" THEN "yes" ELSE stack[n].cancel
    <3>0. n \in Nat /\ n >= 1 /\ n \in 1..Len(stack) /\ n \in 1..n /\ Len(stack) >= 1
      <4>1. Len(stack) \in Nat /\ Len(stack) >= 1
        BY Zenon, <1>0 DEF StackOK
      <4> QED BY <2>2, <4>1
    <3>1. /\ Below \in Seq(Frame) /\ Len(Below) = n /\ \A i \in 1..n : Below[i] = stack[i]
      BY Zenon, <1>0, <3>0, ButLast DEF Below
    <3>2. stack' = [Below EXCEPT ![n].cancel = c]
      BY Zenon, <1>4, <2>2 DEF Return
    <3>3. c \in {"no", "yes"}
      <4>1. stack[n] \in Frame
        BY Zenon, <3>0, Frames
      <4> HIDE DEF n
      <4>2. stack[n].cancel \in {"no", "yes"}
        BY <4>1 DEF Frame
      <4> QED BY Zenon, <4>2
    <3> HIDE DEF c, n, Below
    <3>4. stack[n] \in Frame /\ Below[n] = stack[n] /\ DOMAIN Below = 1..n
      BY <3>0, <3>1, Frames
    <3>5. /\ [stack[n] EXCEPT !.cancel = c] \in Frame
          /\ [stack[n] EXCEPT !.cancel = c].flow = stack[n].flow
          /\ [stack[n] EXCEPT !.cancel = c].pos = stack[n].pos
      BY Zenon, <3>3, <3>4, FrameMoves
    <3>6. stack' = [Below EXCEPT ![n] = [stack[n] EXCEPT !.cancel = c]]
      BY Zenon, <3>2, <3>4
    <3>7. stack' \in Seq(Frame) /\ Len(stack') = n
      BY <3>0, <3>1, <3>5, <3>6
    <3>8. /\ stack'[n] = [stack[n] EXCEPT !.cancel = c]
          /\ \A i \in 1..n : i # n => stack'[i] = stack[i]
      BY Zenon, <3>0, <3>1, <3>4, <3>6
    <3> QED BY Zenon, <3>0, <3>5, <3>7, <3>8 DEF SameTo, n
  <2> QED BY Zenon, <2>1, <2>2
<1>5. CASE Block \/ AnswerFirst \/ DoneFirst \/ Check \/ Suspend
  <2>1. stack' = stack \/ stack' = <<[stack[1] EXCEPT !.cancel = "yes"]>>
    BY Zenon, <1>5 DEF Block, AnswerFirst, DoneFirst, Check, Suspend
  <2> QED BY Zenon, <1>1, <1>2, <2>1
<1> QED BY Zenon, <1>3, <1>4, <1>5

\* Requests that are not in the schema itself.
LEMMA NamesCalled ==
  \A r \in Request : Name(r) # "main" /\ (Name(r) \in Functions => Name(r) \notin ForCustomer)
<1> SUFFICES ASSUME NEW r \in Request
             PROVE  Name(r) # "main" /\ (Name(r) \in Functions => Name(r) \notin ForCustomer)
  OBVIOUS
<1>1. r = <<r[1], r[2]>> /\ r[1] \in Functions /\ r[2] \in 1..Len(Program[r[1]])
  BY Zenon, Programs
<1>2. Name(<<r[1], r[2]>>) # "main" /\ (Name(<<r[1], r[2]>>) \in Functions => Name(<<r[1], r[2]>>) \notin ForCustomer)
  BY Zenon, <1>1, Programs
<1> QED BY Zenon, <1>1, <1>2

\* Only the first flow of the stack is the schema, and it is at a request when
\* Route is or when a function is run.
LEMMA SchemaFirst ==
  ASSUME RunInv
  PROVE  /\ Len(stack) \in Nat /\ Len(stack) >= 1
         /\ \A i \in 1..Len(stack) : FlowAt(i) = "main" => i = 1
         /\ Current = At(Len(stack)) /\ At(1) = <<"main", stack[1].pos>>
         /\ Current[1] = "main" => Len(stack) = 1
         /\ at \in {"started", "select"} \/ Len(stack) > 1 => At(1) \in Request
<1>1. Len(stack) \in Nat /\ Len(stack) >= 1
  <2>1. stack \in Seq(Frame) /\ Len(stack) >= 1
    BY Zenon DEF RunInv, StackOK
  <2> QED BY <2>1
<1>2. ASSUME NEW i \in 1..Len(stack), FlowAt(i) = "main" PROVE i = 1
  <2> SUFFICES ASSUME i # 1 PROVE FALSE
    OBVIOUS
  <2>1. i - 1 \in 1..(Len(stack) - 1) /\ i - 1 + 1 = i
    BY <1>1
  <2>2. At(i - 1) \in Request /\ Name(At(i - 1)) = FlowAt(i - 1 + 1)
    BY Zenon, <2>1 DEF RunInv, Calls
  <2>3. Name(At(i - 1)) = "main"
    BY Zenon, <1>2, <2>1, <2>2
  <2> QED BY Zenon, <2>2, <2>3, NamesCalled
<1>3. Current = At(Len(stack)) /\ At(1) = <<"main", stack[1].pos>>
  BY Zenon DEF Current, Top, At, RunInv, StackOK, FlowAt
<1>4. Current[1] = "main" => Len(stack) = 1
  <2>1. Len(stack) \in 1..Len(stack) /\ Current[1] = FlowAt(Len(stack))
    BY <1>1 DEF Current, Top, FlowAt
  <2> QED BY Zenon, <1>2, <2>1
<1>5. at \in {"started", "select"} \/ Len(stack) > 1 => At(1) \in Request
  <2>1. CASE Len(stack) = 1
    <3>1. ~(Len(stack) > 1)
      BY <2>1
    <3> QED BY Zenon, <1>3, <2>1, <3>1 DEF RunInv, AtRequest
  <2>2. CASE Len(stack) # 1
    <3>1. 1 \in 1..(Len(stack) - 1)
      BY <1>1, <2>2
    <3> QED BY Zenon, <3>1 DEF RunInv, Calls
  <2> QED BY Zenon, <2>1, <2>2
<1> QED BY Zenon, <1>1, <1>2, <1>3, <1>4, <1>5

\* Where no frame moves, the stack stays right.
LEMMA KeptOK ==
  ASSUME StackOK, Calls, stack' \in Seq(Frame), Len(stack') \in 1..Len(stack),
         SameTo(Len(stack')), starts' = starts
  PROVE  /\ StackOK' /\ Calls'
         /\ \A i \in 1..Len(stack') : i \in 1..Len(stack) /\ At(i)' = At(i) /\ FlowAt(i)' = FlowAt(i)
<1>0. /\ Len(stack) \in Nat /\ Len(stack') \in Nat /\ Len(stack') >= 1 /\ 1 \in 1..Len(stack')
      /\ \A i \in 1..Len(stack') : i \in 1..Len(stack)
      /\ \A i \in 1..(Len(stack') - 1) : i \in 1..(Len(stack) - 1) /\ i \in 1..Len(stack') /\ i + 1 \in 1..Len(stack')
  <2>1. stack \in Seq(Frame)
    BY Zenon DEF StackOK
  <2>2. Len(stack) \in Nat
    BY <2>1
  <2> QED BY <2>2
<1>1. \A i \in 1..Len(stack') : At(i)' = At(i) /\ FlowAt(i)' = FlowAt(i) /\ stack'[i].pos = stack[i].pos
  BY Zenon DEF SameTo, At, FlowAt
<1>2. StackOK'
  <2>1. FlowAt(1)' = "main"
    BY Zenon, <1>0, <1>1 DEF StackOK
  <2>2. \A i \in 1..Len(stack') : stack'[i].pos <= Len(Program[FlowAt(i)'])
    BY Zenon, <1>0, <1>1 DEF StackOK
  <2> QED BY Zenon, <1>0, <2>1, <2>2 DEF StackOK
<1>3. ASSUME NEW i \in 1..(Len(stack') - 1)
      PROVE  At(i)' \in Request /\ Name(At(i)') = FlowAt(i + 1)' /\ starts'[At(i)'] # 0
  BY Zenon, <1>0, <1>1 DEF Calls
<1>4. Calls'
  BY Zenon, <1>3 DEF Calls
<1> QED BY Zenon, <1>0, <1>1, <1>2, <1>4

\* The steps that keep where the flows are.
LEMMA RunKept ==
  ASSUME RunInv, Block \/ HandlerDone \/ AnswerFirst \/ DoneFirst \/ Return \/ Check \/ Suspend
  PROVE  RunInv'
<1>0. /\ StackOK /\ Calls /\ AtRequest /\ CutInPlace
  BY Zenon DEF RunInv
<1>1. /\ stack' \in Seq(Frame) /\ Len(stack') \in 1..Len(stack) /\ SameTo(Len(stack'))
      /\ Len(stack') \in {1, Len(stack) - 1, Len(stack)} /\ starts' = starts
  BY Zenon, <1>0, StackKept
  DEF Block, HandlerDone, AnswerFirst, DoneFirst, Return, Check, Suspend
<1>2. /\ StackOK' /\ Calls'
      /\ \A i \in 1..Len(stack') : i \in 1..Len(stack) /\ At(i)' = At(i)
  BY Zenon, <1>0, <1>1, KeptOK
<1>3. /\ Len(stack) \in Nat /\ Len(stack) >= 1 /\ Len(stack') \in Nat
      /\ Len(stack') <= Len(stack) /\ 1 \in 1..Len(stack') /\ Len(stack') \in 1..Len(stack')
      /\ Len(stack') > 1 => Len(stack) > 1
      /\ Len(stack) # 1 => Len(stack) > 1
      /\ ~(1 > 1)
  <2>1. Len(stack) \in Nat /\ Len(stack) >= 1
    BY Zenon, SchemaFirst
  <2> QED BY <1>1, <2>1
<1>4. /\ Current = At(Len(stack)) /\ At(1) = <<"main", stack[1].pos>>
      /\ Current[1] = "main" => Len(stack) = 1
      /\ at \in {"started", "select"} \/ Len(stack) > 1 => At(1) \in Request
  BY Zenon, SchemaFirst
<1>5. At(1)' = At(1)
  BY Zenon, <1>2, <1>3
<1>6. stack' = stack => Current' = Current
  BY Zenon DEF Current, Top
<1> HIDE DEF At
<1>7. CASE Block
  <2>1. /\ at = "started" /\ at' = "select" /\ UNCHANGED <<stack, run, interrupted, cut, starts>>
        /\ run = "route"
    BY Zenon, <1>7 DEF Block
  <2>2. AtRequest'
    BY Zenon, <1>0, <1>6, <2>1 DEF AtRequest
  <2>3. CutInPlace'
    BY Zenon, <1>0, <2>1 DEF CutInPlace
  <2> QED BY Zenon, <1>2, <2>2, <2>3 DEF RunInv
<1>8. CASE HandlerDone
  <2>1. /\ at' \in {"next", "return"} /\ run = "route" /\ UNCHANGED <<run, interrupted, cut>>
        /\ at' = "return" => over' = (over \/ Len(stack) = 1)
    BY Zenon, <1>8 DEF HandlerDone
  <2>2. AtRequest'
    BY Zenon, <1>0, <2>1 DEF AtRequest
  <2>3. CutInPlace'
    BY Zenon, <1>0, <1>3, <2>1 DEF CutInPlace
  <2> QED BY Zenon, <1>2, <2>2, <2>3 DEF RunInv
<1>9. CASE AnswerFirst
  <2>1. /\ at' = "next" /\ run = "route" /\ cut' \in {Current, None} /\ UNCHANGED <<run, interrupted, stack>>
    BY Zenon, <1>9 DEF AnswerFirst
  <2>2. AtRequest'
    BY Zenon, <1>0, <2>1 DEF AtRequest
  <2>3. CutInPlace'
    BY Zenon, <1>3, <1>4, <2>1 DEF CutInPlace
  <2> QED BY Zenon, <1>2, <2>2, <2>3 DEF RunInv
<1>10. ASSUME run = "route", at' = "return", run' = run, interrupted' = <<"main", stack[1].pos>>,
              Len(stack') = 1, cut' \in {Current, None}, At(1) \in Request
       PROVE  RunInv'
  <2>1. AtRequest'
    BY Zenon, <1>4, <1>10 DEF AtRequest
  <2>2. CutInPlace'
    BY Zenon, <1>3, <1>4, <1>5, <1>10 DEF CutInPlace
  <2> QED BY Zenon, <1>2, <2>1, <2>2 DEF RunInv
<1>11. CASE DoneFirst
  <2>1. /\ run = "route" /\ at = "started" /\ at' = "return" /\ run' = run
        /\ interrupted' = <<"main", stack[1].pos>> /\ cut' = Current
        /\ stack' = <<[stack[1] EXCEPT !.cancel = "yes"]>>
    BY Zenon, <1>11 DEF DoneFirst
  <2>2. Len(stack') = 1
    BY <2>1
  <2> QED BY Zenon, <1>4, <1>10, <2>1, <2>2
<1>12. CASE Return
  <2>1. CASE Len(stack) = 1
    <3>1. /\ at = "return" /\ run' = "check" /\ UNCHANGED <<stack, at, over, interrupted, cut>>
      BY Zenon, <1>12, <2>1 DEF Return
    <3>2. AtRequest'
      BY Zenon, <1>0, <2>1, <3>1 DEF AtRequest
    <3>3. CutInPlace'
      BY Zenon, <1>0, <1>5, <3>1 DEF CutInPlace
    <3> QED BY Zenon, <1>2, <3>2, <3>3 DEF RunInv
  <2>2. CASE Len(stack) # 1
    <3>1. /\ at' \in {"next", "return"} /\ run = "route" /\ UNCHANGED <<run, interrupted, cut>>
      BY Zenon, <1>12, <2>2 DEF Return
    <3>2. AtRequest'
      BY Zenon, <1>0, <3>1 DEF AtRequest
    <3>3. CutInPlace'
      BY Zenon, <1>0, <1>3, <2>2, <3>1 DEF CutInPlace
    <3> QED BY Zenon, <1>2, <3>2, <3>3 DEF RunInv
  <2> QED BY Zenon, <2>1, <2>2
<1>13. ASSUME UNCHANGED <<stack, at, interrupted, cut, over>>, run' = run \/ run # "route" PROVE RunInv'
  <2>1. AtRequest'
    BY Zenon, <1>0, <1>1, <1>6, <1>13 DEF AtRequest
  <2>2. CutInPlace'
    BY Zenon, <1>0, <1>5, <1>13 DEF CutInPlace
  <2> QED BY Zenon, <1>2, <2>1, <2>2 DEF RunInv
<1>14. CASE Check
  BY Zenon, <1>13, <1>14 DEF Check
<1>15. CASE Suspend
  <2>1. CASE run = "route" /\ (at = "select" \/ Len(stack) > 1)
    <3>1. /\ at' = "return" /\ run' = run
          /\ interrupted' = <<"main", stack[1].pos>> /\ cut' \in {Current, None}
          /\ stack' = <<[stack[1] EXCEPT !.cancel = "yes"]>>
      BY Zenon, <1>15, <2>1 DEF Suspend
    <3>2. Len(stack') = 1
      BY <3>1
    <3> QED BY Zenon, <1>4, <1>10, <2>1, <3>1, <3>2
  <2>2. CASE ~(run = "route" /\ (at = "select" \/ Len(stack) > 1))
    BY Zenon, <1>13, <1>15, <2>2 DEF Suspend
  <2> QED BY Zenon, <2>1, <2>2
<1> QED BY Zenon, <1>7, <1>8, <1>9, <1>11, <1>12, <1>14, <1>15

\* The steps that move the last flow of the stack.
LEMMA RunMoves ==
  ASSUME RunInv, EndOfFlow \/ Start \/ Execute
  PROVE  RunInv'
<1>0. /\ StackOK /\ Calls /\ AtRequest /\ CutInPlace
  BY Zenon DEF RunInv
<1>1. PICK n \in Nat : n = Len(stack) /\ n >= 1
  BY Zenon, SchemaFirst
<1>2. /\ n \in 1..n /\ n + 1 \in Nat /\ n + 1 >= 1
      /\ \A i \in 1..n : i \in 1..(n - 1) \/ i = n
      /\ \A i \in 1..(n - 1) : i \in 1..n /\ i # n
      /\ \A i \in 1..(n + 1) : i \in 1..n \/ i = n + 1
      /\ \A i \in 1..n : i + 1 \in 1..n \/ i = n
      /\ \A i \in 1..(n - 1) : i + 1 \in 1..n
      /\ n + 1 - 1 = n /\ n + 1 > 1
      /\ n # 1 => n > 1 /\ 1 \in 1..(n - 1)
      /\ 1 \in 1..n
  BY <1>1
<1>3. /\ Top.flow \in Functions /\ Top.pos \in Nat /\ Current = At(n) /\ Top = stack[n]
      /\ Len(Program[Top.flow]) \in Nat
  BY Zenon, <1>0, <1>1, <1>2, Frames, Programs, SchemaFirst DEF FlowAt, Top
<1>4. ASSUME NEW m, m \in 1..n, SameTo(m)
      PROVE  \A i \in 1..m : At(i)' = At(i) /\ FlowAt(i)' = FlowAt(i) /\ stack'[i].pos = stack[i].pos
  BY Zenon, <1>4 DEF SameTo, At, FlowAt
<1>5. SameTo(n - 1) =>
        \A i \in 1..(n - 1) : At(i)' = At(i) /\ FlowAt(i)' = FlowAt(i) /\ stack'[i].pos = stack[i].pos
  BY Zenon DEF SameTo, At, FlowAt
<1>6. ASSUME stack' \in Seq(Frame), Len(stack') = n, SameTo(n - 1), stack'[n].flow = Top.flow,
             stack'[n].pos <= Len(Program[Top.flow]),
             starts' \in [Request -> Nat], \A r \in Request : starts[r] # 0 => starts'[r] # 0
      PROVE  StackOK' /\ Calls'
  <2>1. \A i \in 1..n : FlowAt(i)' = FlowAt(i)
    BY Zenon, <1>2, <1>3, <1>5, <1>6 DEF FlowAt
  <2>2. \A i \in 1..n : stack'[i].pos <= Len(Program[FlowAt(i)'])
    <3>1. \A i \in 1..n : stack[i].pos <= Len(Program[FlowAt(i)])
      BY Zenon, <1>1, <1>0 DEF StackOK
    <3>2. FlowAt(n) = Top.flow
      BY Zenon, <1>3 DEF FlowAt
    <3> QED BY Zenon, <1>2, <1>5, <1>6, <2>1, <3>1, <3>2
  <2>3. StackOK'
    <3>1. FlowAt(1)' = "main"
      BY Zenon, <1>0, <1>2, <2>1 DEF StackOK
    <3> QED BY Zenon, <1>1, <1>6, <2>2, <3>1 DEF StackOK
  <2>4. ASSUME NEW i \in 1..(n - 1)
        PROVE  At(i)' \in Request /\ Name(At(i)') = FlowAt(i + 1)' /\ starts'[At(i)'] # 0
    <3>1. At(i) \in Request /\ Name(At(i)) = FlowAt(i + 1) /\ starts[At(i)] # 0
      BY Zenon, <1>1, <1>0 DEF Calls
    <3>2. At(i)' = At(i) /\ FlowAt(i + 1)' = FlowAt(i + 1)
      BY Zenon, <1>2, <1>5, <1>6, <2>1
    <3> QED BY Zenon, <1>6, <3>1, <3>2
  <2>5. Calls'
    BY Zenon, <1>6, <2>4 DEF Calls
  <2> QED BY Zenon, <2>3, <2>5
<1>7. CASE EndOfFlow
  <2>1. /\ stack' \in Seq(Frame) /\ Len(stack') = n /\ SameTo(n - 1)
        /\ stack'[n].flow = Top.flow /\ stack'[n].pos = 0
    BY Zenon, <1>1, <1>0, <1>7, TopMoves
  <2>2. /\ run = "route" /\ at' = "return" /\ over' = (over \/ n = 1)
        /\ UNCHANGED <<run, interrupted, cut, starts>>
    BY Zenon, <1>1, <1>7 DEF EndOfFlow
  <2>3. 0 <= Len(Program[Top.flow])
    BY <1>3
  <2>4. StackOK' /\ Calls'
    BY Zenon, <1>0, <1>6, <2>1, <2>2, <2>3 DEF StackOK
  <2>5. AtRequest'
    BY Zenon, <1>0, <2>2 DEF AtRequest
  <2>6. CutInPlace'
    BY Zenon, <1>1, <1>0, <1>2, <2>1, <2>2 DEF CutInPlace
  <2> QED BY Zenon, <2>4, <2>5, <2>6 DEF RunInv
<1>8. CASE Start
  <2>1. /\ stack' \in Seq(Frame) /\ Len(stack') = n /\ SameTo(n - 1)
        /\ stack'[n].flow = Top.flow /\ stack'[n].pos = Top.pos + 1
    BY Zenon, <1>1, <1>0, <1>8, TopMoves
  <2>2. /\ run = "route" /\ at' = "started" /\ cut' = None
        /\ starts' = [starts EXCEPT ![<<Top.flow, Top.pos + 1>>] = starts[<<Top.flow, Top.pos + 1>>] + 1]
        /\ UNCHANGED <<run, interrupted>> /\ Top.pos < Len(Program[Top.flow])
    BY Zenon, <1>8 DEF Start
  <2>3. Top.pos + 1 <= Len(Program[Top.flow]) /\ Top.pos + 1 \in 1..Len(Program[Top.flow])
    BY <1>3, <2>2
  <2> DEFINE r == <<Top.flow, Top.pos + 1>>
  <2>4. r \in Request
    BY Zenon, <1>3, <2>3, Programs
  <2>5. Current' = r
    BY Zenon, <1>1, <2>1 DEF Current, Top
  <2>6. starts \in [Request -> Nat] /\ starts' = [starts EXCEPT ![r] = starts[r] + 1]
    BY Zenon, <1>0, <2>2 DEF StackOK
  <2> HIDE DEF r
  <2>7. /\ starts' \in [Request -> Nat] /\ starts'[r] # 0
        /\ \A x \in Request : starts[x] # 0 => starts'[x] # 0
    BY <2>4, <2>6
  <2>8. StackOK' /\ Calls'
    BY Zenon, <1>6, <2>1, <2>3, <2>7
  <2>9. AtRequest'
    BY Zenon, <1>0, <2>2, <2>4, <2>5, <2>7 DEF AtRequest
  <2>10. CutInPlace'
    BY Zenon, <2>2 DEF CutInPlace
  <2> QED BY Zenon, <2>8, <2>9, <2>10 DEF RunInv
<1>9. CASE Execute
  <2>1. /\ stack' \in Seq(Frame) /\ Len(stack') = n + 1 /\ SameTo(n)
        /\ stack'[n + 1].flow = Name(Current) /\ stack'[n + 1].pos = 0
    BY Zenon, <1>1, <1>0, <1>9, TopMoves
  <2>2. /\ run = "route" /\ at = "started" /\ at' = "next" /\ Name(Current) \in Functions
        /\ UNCHANGED <<run, interrupted, cut, starts>>
    BY Zenon, <1>9 DEF Execute
  <2>3. \A i \in 1..n : At(i)' = At(i) /\ FlowAt(i)' = FlowAt(i) /\ stack'[i].pos = stack[i].pos
    BY Zenon, <1>2, <1>4, <2>1
  <2>4. FlowAt(n + 1)' = Name(Current) /\ 0 <= Len(Program[Name(Current)])
    <3>1. Len(Program[Name(Current)]) \in Nat
      BY Zenon, <2>2, Programs
    <3>2. 0 <= Len(Program[Name(Current)])
      BY <3>1
    <3> QED BY Zenon, <2>1, <3>2 DEF FlowAt
  <2>5. StackOK'
    <3>1. FlowAt(1)' = "main" /\ \A i \in 1..n : stack'[i].pos <= Len(Program[FlowAt(i)'])
      BY Zenon, <1>1, <1>0, <1>2, <2>3 DEF StackOK
    <3>2. \A i \in 1..(n + 1) : stack'[i].pos <= Len(Program[FlowAt(i)'])
      BY Zenon, <1>2, <2>1, <2>4, <3>1
    <3> QED BY Zenon, <1>0, <1>2, <2>1, <2>2, <3>1, <3>2 DEF StackOK
  <2>6. ASSUME NEW i \in 1..n
        PROVE  At(i)' \in Request /\ Name(At(i)') = FlowAt(i + 1)' /\ starts'[At(i)'] # 0
    <3>1. CASE i = n
      BY Zenon, <1>0, <1>3, <2>2, <2>3, <2>4, <3>1 DEF AtRequest
    <3>2. CASE i \in 1..(n - 1)
      <4>1. At(i) \in Request /\ Name(At(i)) = FlowAt(i + 1) /\ starts[At(i)] # 0
        BY Zenon, <1>1, <1>0, <3>2 DEF Calls
      <4> QED BY Zenon, <1>2, <2>2, <2>3, <3>2, <4>1
    <3> QED BY Zenon, <1>2, <3>1, <3>2
  <2>7. Calls'
    <3>0. Len(stack') = n + 1
      BY Zenon, <2>1
    <3>1. Len(stack') - 1 = n
      BY <1>1, <3>0
    <3> QED BY Zenon, <2>6, <3>1 DEF Calls
  <2>8. AtRequest'
    BY Zenon, <1>0, <2>2 DEF AtRequest
  <2>9. CutInPlace'
    BY Zenon, <1>0, <2>2 DEF CutInPlace, AtRequest
  <2> QED BY Zenon, <2>5, <2>7, <2>8, <2>9 DEF RunInv
<1> QED BY Zenon, <1>7, <1>8, <1>9

\* A schema that is resumed goes on where it was cut off.
LEMMA RunResumes ==
  ASSUME RunInv, Resume
  PROVE  /\ RunInv' /\ Len(stack') = 1 /\ FlowAt(1)' = "main" /\ starts' = starts /\ at' = "next"
         /\ \/ stack'[1].pos = stack[1].pos
            \/ /\ interrupted = At(1) /\ At(1) \in Request /\ Name(At(1)) \in ForCustomer
               /\ stack'[1].pos = stack[1].pos - 1
         /\ interrupted = At(1) /\ Name(At(1)) \in ForCustomer => stack'[1].pos = stack[1].pos - 1
<1>0. /\ StackOK /\ Calls /\ AtRequest /\ CutInPlace
  BY Zenon DEF RunInv
<1> DEFINE p == stack[1].pos
           q == RepeatInterrupted(p)
<1>1. /\ 1 \in 1..Len(stack) /\ At(1) = <<"main", p>> /\ FlowAt(1) = "main"
  <2>1. Len(stack) \in Nat /\ Len(stack) >= 1
    BY Zenon, SchemaFirst
  <2>2. 1 \in 1..Len(stack)
    BY <2>1
  <2> QED BY Zenon, <1>0, <2>2, SchemaFirst DEF StackOK
<1>2. /\ stack[1] \in Frame /\ p \in Nat /\ stack[1].flow = "main" /\ p <= Len(Program["main"])
      /\ At(1)[2] = p
  BY Zenon, <1>0, <1>1, Frames DEF StackOK, FlowAt
<1>3. At(1) \in Request => p \in 1..Len(Program["main"])
  BY Zenon, <1>1, <1>2, Programs DEF At
<1>4. /\ stack' = <<[stack[1] EXCEPT !.cancel = "no", !.pos = q]>> /\ interrupted' = None
      /\ run' = "route" /\ at' = "next" /\ UNCHANGED <<cut, starts>>
  BY Zenon DEF Resume
<1>5. q = IF interrupted = At(1) /\ Name(At(1)) \in ForCustomer THEN p - 1 ELSE p
  BY Zenon, <1>1 DEF RepeatInterrupted
<1>6. interrupted = At(1) => At(1) \in Request
  <2>1. "main" \in Functions
    BY Zenon, ProgramAssumption
  <2>2. At(1) \in Functions \X Nat
    BY <1>1, <1>2, <2>1
  <2> QED BY Zenon, <1>0, <2>2, ProgramAssumption DEF AtRequest
<1>7. Len(Program["main"]) \in Nat
  BY Zenon, Programs, ProgramAssumption
<1> HIDE DEF p, q, At
<1>8. q \in Nat /\ q <= Len(Program["main"])
  BY <1>2, <1>3, <1>5, <1>6, <1>7
<1> DEFINE f == [stack[1] EXCEPT !.cancel = "no", !.pos = q]
<1>9. f \in Frame /\ f.flow = "main" /\ f.pos = q
  BY Zenon, <1>2, <1>8, FrameMoves
<1>10. stack' = <<f>>
  BY Zenon, <1>4
<1> HIDE DEF f
<1>11. stack' \in Seq(Frame) /\ Len(stack') = 1 /\ stack'[1] = f
  BY Zenon, <1>9, <1>10, OneFrame
<1>12. 1 >= 1 /\ ~(1 > 1) /\ 1..(1 - 1) = {} /\ \A i \in 1..1 : i = 1
  OBVIOUS
<1>13. FlowAt(1)' = "main"
  BY Zenon, <1>9, <1>11 DEF FlowAt
<1>14. \A i \in 1..1 : stack'[i].pos <= Len(Program[FlowAt(i)'])
  BY Zenon, <1>8, <1>9, <1>11, <1>12, <1>13
<1>15. StackOK'
  BY Zenon, <1>0, <1>4, <1>11, <1>12, <1>13, <1>14 DEF StackOK
<1>16. Calls'
  BY Zenon, <1>11, <1>12 DEF Calls
<1>17. AtRequest'
  BY Zenon, <1>4 DEF AtRequest
<1>18. CutInPlace'
  BY Zenon, <1>4, <1>11, <1>12 DEF CutInPlace
<1>19. stack'[1].pos = q
  BY Zenon, <1>9, <1>11
<1> QED BY Zenon, <1>4, <1>5, <1>6, <1>11, <1>13, <1>15, <1>16, <1>17, <1>18, <1>19 DEF RunInv, p

\* It holds at the start and every step keeps it.
LEMMA RunInvariant == Spec => []RunInv
<1>1. Init => RunInv
  <2> SUFFICES ASSUME Init PROVE RunInv
    OBVIOUS
  <2>1. /\ stack = <<Started("main")>> /\ at = "next" /\ run = "route" /\ interrupted = None /\ cut = None
        /\ starts = [r \in Request |-> 0]
    BY Zenon DEF Init
  <2>2. Started("main") \in Frame /\ Started("main").flow = "main" /\ Started("main").pos = 0
    BY ProgramAssumption DEF Started, Frame
  <2>3. stack \in Seq(Frame) /\ Len(stack) = 1 /\ stack[1] = Started("main")
    BY Zenon, <2>1, <2>2, OneFrame
  <2>4. Len(Program["main"]) \in Nat
    BY Zenon, Programs, ProgramAssumption
  <2>5. 1 >= 1 /\ ~(1 > 1) /\ 1..(1 - 1) = {} /\ (\A i \in 1..1 : i = 1) /\ 0 <= Len(Program["main"])
    BY <2>4
  <2>6. starts \in [Request -> Nat]
    BY <2>1
  <2>7. StackOK
    BY Zenon, <2>2, <2>3, <2>5, <2>6 DEF StackOK, FlowAt
  <2>8. Calls
    BY Zenon, <2>3, <2>5 DEF Calls
  <2> QED BY Zenon, <2>1, <2>7, <2>8 DEF RunInv, AtRequest, CutInPlace
<1>2. ASSUME RunInv, UNCHANGED vars PROVE RunInv'
  BY Zenon, <1>2 DEF RunInv, StackOK, Calls, AtRequest, CutInPlace, FlowAt, At, Current, Top, vars
<1>3. RunInv /\ [Next]_vars => RunInv'
  BY Zenon, <1>2, RunKept, RunMoves, RunResumes DEF Next, Route, Ended
<1> QED BY <1>1, <1>3, PTL DEF Spec

\* A schema that was cut off goes on at the request it was cut off at if that
\* waits for the customer, and after it otherwise (runSchema, RepeatInterrupted),
\* whatever its program is and however often it is suspended.
THEOREM SchemaResumes == Spec => ResumesInPlace
<1>1. ASSUME RunInv, Resume, cut # None, cut[1] = "main", ~over
      PROVE  stack'[1].pos + 1 = IF Name(cut) \in ForCustomer THEN cut[2] ELSE cut[2] + 1
  <2>1. at = "return"
    BY Zenon, <1>1 DEF RunInv, AtRequest, Resume
  <2>2. interrupted = cut /\ cut = At(1)
    BY Zenon, <1>1, <2>1 DEF RunInv, CutInPlace
  <2>3. stack[1].pos \in Nat /\ cut[2] = stack[1].pos
    <3>1. Len(stack) \in Nat /\ Len(stack) >= 1
      BY Zenon, <1>1, SchemaFirst
    <3>2. 1 \in 1..Len(stack)
      BY <3>1
    <3> QED BY Zenon, <1>1, <2>2, <3>2, Frames DEF RunInv
  <2>4. CASE Name(cut) \in ForCustomer
    <3>1. stack'[1].pos = stack[1].pos - 1
      BY Zenon, <1>1, <2>2, <2>4, RunResumes
    <3> QED BY <2>3, <2>4, <3>1
  <2>5. CASE Name(cut) \notin ForCustomer
    <3>1. stack'[1].pos = stack[1].pos
      BY Zenon, <1>1, <2>2, <2>5, RunResumes
    <3> QED BY Zenon, <2>3, <2>5, <3>1
  <2> QED BY Zenon, <2>4, <2>5
<1>2. RunInv =>
        (Resume /\ cut # None /\ cut[1] = "main" /\ ~over =>
           stack'[1].pos + 1 = IF Name(cut) \in ForCustomer THEN cut[2] ELSE cut[2] + 1)
  BY Zenon, <1>1
<1> QED BY <1>2, RunInvariant, PTL DEF ResumesInPlace

-----------------------------------------------------------------------------
\* A function that the last flow of the stack calls is not run already.
LEMMA NotInItself ==
  ASSUME CalledOnce, RunInv, FlowsDiffer, NEW n \in Nat, n = Len(stack), n >= 1,
         NEW r \in Request, r[1] = FlowAt(n), Name(r) \in Functions, NEW i \in 1..n
  PROVE  FlowAt(i) # Name(r)
<1> SUFFICES ASSUME FlowAt(i) = Name(r) PROVE FALSE
  OBVIOUS
<1>1. FlowAt(1) = "main" /\ Name(r) # "main"
  BY Zenon, NamesCalled DEF RunInv, StackOK
<1>2. i # 1
  BY Zenon, <1>1
<1>3. i - 1 \in 1..(n - 1) /\ i - 1 + 1 = i /\ i - 1 \in 1..n /\ n \in 1..n /\ i - 1 # n
  BY <1>2
<1>4. At(i - 1) \in Request /\ Name(At(i - 1)) = FlowAt(i - 1 + 1)
  BY Zenon, <1>3 DEF RunInv, Calls
<1>5. At(i - 1) = r
  BY Zenon, <1>3, <1>4 DEF CalledOnce
<1>6. FlowAt(i - 1) = FlowAt(n)
  BY Zenon, <1>3, <1>5, Frames DEF RunInv
<1> QED BY Zenon, <1>3, <1>6 DEF FlowsDiffer

\* What is still to come stays so while the flows and the counts do.
LEMMA OnceKept ==
  ASSUME CalledOnce, RunInv, FlowsDiffer, NotStarted, NeverTwice,
         Block \/ HandlerDone \/ AnswerFirst \/ DoneFirst \/ Return \/ Check \/ Suspend
  PROVE  FlowsDiffer' /\ NotStarted' /\ NeverTwice'
<1>0. StackOK /\ Calls
  BY Zenon DEF RunInv
<1>1. /\ stack' \in Seq(Frame) /\ Len(stack') \in 1..Len(stack) /\ SameTo(Len(stack'))
      /\ starts' = starts
  BY Zenon, <1>0, StackKept
  DEF Block, HandlerDone, AnswerFirst, DoneFirst, Return, Check, Suspend
<1>2. over => over'
  BY Zenon DEF Block, HandlerDone, AnswerFirst, DoneFirst, Return, Check, Suspend
<1>3. /\ at' = "started" => stack' = stack /\ at = "started"
      /\ at' # "return" /\ Len(stack') = Len(stack) => at # "return"
  <2>1. CASE Return
    <3>1. CASE Len(stack) = 1
      BY Zenon, <2>1, <3>1 DEF Return
    <3>2. CASE Len(stack) # 1
      <4>1. stack \in Seq(Frame) /\ Len(stack) >= 1
        BY Zenon, <1>0 DEF StackOK
      <4>2. Len(stack) \in Nat
        BY <4>1
      <4>3. Below \in Seq(Frame) /\ Len(Below) = Len(stack) - 1
        BY Zenon, <4>1, ButLast DEF Below
      <4>4. at' \in {"next", "return"} /\ \E c : stack' = [Below EXCEPT ![Len(stack) - 1].cancel = c]
        BY Zenon, <2>1, <3>2 DEF Return
      <4> HIDE DEF Below
      <4>5. DOMAIN Below = 1..(Len(stack) - 1) /\ DOMAIN stack' = DOMAIN Below /\ DOMAIN stack' = 1..Len(stack')
        BY <1>1, <4>3, <4>4
      <4>6. Len(stack') # Len(stack)
        <5> SUFFICES ASSUME Len(stack') = Len(stack) PROVE FALSE
          OBVIOUS
        <5>1. Len(stack) \in 1..Len(stack)
          BY <4>1, <4>2
        <5>2. Len(stack) \in 1..(Len(stack) - 1)
          BY Zenon, <4>5, <5>1
        <5> QED BY <4>2, <5>2
      <4> QED BY Zenon, <4>4, <4>6
    <3> QED BY Zenon, <3>1, <3>2
  <2>2. CASE Block \/ HandlerDone \/ AnswerFirst \/ DoneFirst
    BY Zenon, <2>2 DEF Block, HandlerDone, AnswerFirst, DoneFirst
  <2>3. CASE Check \/ Suspend
    BY Zenon, <2>3 DEF Check, Suspend
  <2> QED BY Zenon, <2>1, <2>2, <2>3
<1>4. \A i \in 1..Len(stack') : i \in 1..Len(stack) /\ FlowAt(i)' = FlowAt(i) /\ (Ahead(i) => Ahead(i)')
  BY Zenon, <1>0, <1>1, KeptOK DEF Ahead, SameTo, FlowAt
<1>5. FlowsDiffer'
  BY Zenon, <1>4 DEF FlowsDiffer
<1>6. ASSUME ~over', NEW i \in 1..Len(stack'), i < Len(stack') \/ at' # "return" \/ i = 1
      PROVE  Ahead(i)'
  <2>1. i < Len(stack) \/ at # "return" \/ i = 1
    <3>1. Len(stack) \in Nat
      BY Zenon, SchemaFirst
    <3>2. i < Len(stack') \/ Len(stack') # Len(stack) => i < Len(stack)
      BY <1>1, <3>1
    <3> QED BY Zenon, <1>3, <1>6, <3>2
  <2> QED BY Zenon, <1>2, <1>4, <1>6, <2>1 DEF NotStarted
<1>7. ASSUME ~over', NEW r \in Request, Name(r) \in Functions,
             starts[r] = 0 \/ (at' = "started" /\ r = Current')
      PROVE  Uncalled(r)'
  <2>1. at' = "started" => at = "started" /\ Current' = Current
    BY Zenon, <1>3 DEF Current, Top
  <2>2. Uncalled(r)
    BY Zenon, <1>2, <1>7, <2>1 DEF NotStarted
  <2> QED BY Zenon, <1>1, <2>2 DEF Uncalled
<1>8. NotStarted'
  BY Zenon, <1>1, <1>6, <1>7 DEF NotStarted
<1>9. NeverTwice'
  BY Zenon, <1>1, <1>2 DEF NeverTwice
<1> QED BY Zenon, <1>5, <1>8, <1>9

\* A request is started: it was still to come in the last flow, and no function
\* that was not called has it.
LEMMA OnceStarts ==
  ASSUME CalledOnce, RunInv, FlowsDiffer, NotStarted, NeverTwice, Start
  PROVE  FlowsDiffer' /\ NotStarted' /\ NeverTwice'
<1>0. StackOK /\ Calls
  BY Zenon DEF RunInv
<1>1. PICK n \in Nat : n = Len(stack) /\ n >= 1
  BY Zenon, SchemaFirst
<1>2. /\ n \in 1..n /\ 1 \in 1..n
      /\ \A i \in 1..n : i \in 1..(n - 1) \/ i = n
      /\ n # 1 => n - 1 \in 1..(n - 1) /\ n - 1 + 1 = n
  BY <1>1
<1>3. Top = stack[n] /\ FlowAt(n) = Top.flow /\ Top.flow \in Functions /\ Top.pos \in Nat
  BY Zenon, <1>0, <1>1, <1>2, Frames DEF FlowAt, Top
<1>4. /\ Len(stack') = n /\ SameTo(n - 1) /\ stack'[n].flow = Top.flow /\ stack'[n].pos = Top.pos + 1
  BY Zenon, <1>0, <1>1, TopMoves
<1> DEFINE r == <<Top.flow, Top.pos + 1>>
<1>5. /\ at = "next" /\ at' = "started" /\ over' = over /\ Top.pos < Len(Program[Top.flow])
      /\ starts' = [starts EXCEPT ![r] = starts[r] + 1] /\ starts \in [Request -> Nat]
  BY Zenon, <1>0 DEF Start, StackOK
<1>6. /\ r \in Request /\ Top.pos + 1 \in DOMAIN Program[Top.flow] /\ Name(r) = Program[Top.flow][Top.pos + 1]
      /\ Top.pos + 1 > Top.pos
  <2>1. Len(Program[Top.flow]) \in Nat
    BY Zenon, <1>3, Programs
  <2>2. Top.pos + 1 \in 1..Len(Program[Top.flow]) /\ Top.pos + 1 > Top.pos
    BY <1>3, <1>5, <2>1
  <2> QED BY Zenon, <1>3, <2>2, Programs
<1>7. Current' = r
  BY Zenon, <1>1, <1>4 DEF Current, Top
<1>8. r[1] = FlowAt(n) /\ \A f, k : <<f, k>> = r => f = FlowAt(n) /\ k = Top.pos + 1
  BY <1>3
<1>9. \A i \in 1..n : FlowAt(i)' = FlowAt(i)
  BY Zenon, <1>2, <1>3, <1>4 DEF FlowAt, SameTo
<1>10. FlowsDiffer'
  BY Zenon, <1>1, <1>4, <1>9 DEF FlowsDiffer
<1> HIDE DEF r
<1>11. starts' \in [Request -> Nat] /\ \A x \in Request : x # r => starts'[x] = starts[x]
  BY <1>5, <1>6
<1>12. starts'[r] = starts[r] + 1
  BY <1>5, <1>6
<1>13. ASSUME ~over, Name(r) \notin ForCustomer PROVE starts[r] = 0
  <2>1. Ahead(n)
    BY Zenon, <1>1, <1>2, <1>5, <1>13 DEF NotStarted
  <2> QED BY Zenon, <1>3, <1>6, <1>13, <2>1 DEF Ahead, r
<1>14. NeverTwice'
  <2> SUFFICES ASSUME ~over, NEW x \in Request, Name(x) \notin ForCustomer PROVE starts'[x] <= 1
    BY Zenon, <1>5 DEF NeverTwice
  <2>1. CASE x = r
    BY <1>12, <1>13, <2>1
  <2>2. CASE x # r
    BY Zenon, <1>11, <2>2 DEF NeverTwice
  <2> QED BY Zenon, <2>1, <2>2
<1>15. ASSUME ~over, NEW i \in 1..n PROVE Ahead(i)'
  <2>0. Ahead(i) /\ FlowAt(i) \in Functions
    BY Zenon, <1>0, <1>1, <1>5, <1>15, Frames DEF NotStarted
  <2> SUFFICES ASSUME NEW k \in DOMAIN Program[FlowAt(i)], k > stack'[i].pos,
                      Program[FlowAt(i)][k] \notin ForCustomer
               PROVE  starts'[<<FlowAt(i), k>>] = 0
    BY Zenon, <1>9 DEF Ahead
  <2>1. <<FlowAt(i), k>> \in Request /\ k \in Nat
    <3>1. k \in 1..Len(Program[FlowAt(i)]) /\ Len(Program[FlowAt(i)]) \in Nat
      BY Zenon, <2>0, Programs
    <3>2. k \in Nat
      BY <3>1
    <3> QED BY Zenon, <2>0, <3>1, <3>2, Programs
  <2>2. CASE i = n
    <3>0. stack'[i].pos = Top.pos + 1 /\ stack[i].pos = Top.pos
      BY Zenon, <1>3, <1>4, <2>2
    <3>1. k > Top.pos /\ k # Top.pos + 1
      BY <1>3, <2>1, <3>0
    <3>2. starts[<<FlowAt(i), k>>] = 0
      BY Zenon, <2>0, <3>0, <3>1 DEF Ahead
    <3> QED BY Zenon, <1>8, <1>11, <2>1, <3>1, <3>2
  <2>3. CASE i # n
    <3>1. stack'[i].pos = stack[i].pos
      BY Zenon, <1>2, <1>4, <2>3 DEF SameTo
    <3>2. starts[<<FlowAt(i), k>>] = 0
      BY Zenon, <2>0, <3>1 DEF Ahead
    <3>3. FlowAt(i) # FlowAt(n)
      BY Zenon, <1>1, <1>2, <2>3 DEF FlowsDiffer
    <3>4. <<FlowAt(i), k>> # r
      BY <1>8, <3>3
    <3> QED BY Zenon, <1>11, <2>1, <3>2, <3>4
  <2> QED BY Zenon, <2>2, <2>3
<1>16. ASSUME ~over, NEW x \in Request, Name(x) \in Functions, starts'[x] = 0 \/ x = r
       PROVE  Uncalled(x)'
  <2>1. starts[x] = 0
    <3>1. Name(x) \notin ForCustomer
      BY Zenon, <1>16, NamesCalled
    <3> QED BY Zenon, <1>11, <1>13, <1>16, <3>1
  <2>2. Uncalled(x)
    BY Zenon, <1>16, <2>1 DEF NotStarted
  <2>3. Name(x) # FlowAt(n)
    <3>1. CASE x = r
      BY Zenon, <1>1, <1>2, <1>6, <1>8, <1>16, <3>1, NotInItself
    <3>2. CASE x # r
      <4> SUFFICES ASSUME Name(x) = FlowAt(n) PROVE FALSE
        OBVIOUS
      <4>1. n # 1
        BY Zenon, <1>0, NamesCalled DEF StackOK
      <4>2. At(n - 1) \in Request /\ Name(At(n - 1)) = FlowAt(n) /\ starts[At(n - 1)] # 0
        BY Zenon, <1>0, <1>1, <1>2, <4>1 DEF Calls
      <4> QED BY Zenon, <1>16, <2>1, <4>2 DEF CalledOnce
    <3> QED BY Zenon, <3>1, <3>2
  <2>4. ASSUME NEW k \in DOMAIN Program[Name(x)] PROVE starts'[<<Name(x), k>>] = starts[<<Name(x), k>>]
    BY Zenon, <1>8, <1>11, <1>16, <2>3, Programs
  <2> QED BY Zenon, <2>2, <2>4 DEF Uncalled
<1>17. NotStarted'
  BY Zenon, <1>4, <1>5, <1>7, <1>15, <1>16 DEF NotStarted
<1> QED BY Zenon, <1>10, <1>14, <1>17

\* A function is run: nothing of it was started, and it is not run already.
LEMMA OnceExecutes ==
  ASSUME CalledOnce, RunInv, FlowsDiffer, NotStarted, NeverTwice, Execute
  PROVE  FlowsDiffer' /\ NotStarted' /\ NeverTwice'
<1>0. StackOK /\ AtRequest
  BY Zenon DEF RunInv
<1>1. PICK n \in Nat : n = Len(stack) /\ n >= 1
  BY Zenon, SchemaFirst
<1>2. n \in 1..n /\ \A i \in 1..(n + 1) : i \in 1..n \/ i = n + 1
  BY <1>1
<1>3. /\ Len(stack') = n + 1 /\ SameTo(n)
      /\ stack'[n + 1].flow = Name(Current) /\ stack'[n + 1].pos = 0
  BY Zenon, <1>0, <1>1, TopMoves
<1>4. /\ at = "started" /\ at' = "next" /\ Name(Current) \in Functions /\ UNCHANGED <<over, starts>>
  BY Zenon DEF Execute
<1>5. Current \in Request /\ Current[1] = FlowAt(n)
  BY Zenon, <1>0, <1>1, <1>2, <1>4, Frames, SchemaFirst DEF AtRequest
<1>6. (\A i \in 1..n : FlowAt(i)' = FlowAt(i) /\ stack'[i].pos = stack[i].pos) /\ FlowAt(n + 1)' = Name(Current)
  BY Zenon, <1>3 DEF FlowAt, SameTo
<1>7. \A i \in 1..n : FlowAt(i) # Name(Current)
  BY Zenon, <1>1, <1>4, <1>5, NotInItself
<1>8. FlowsDiffer'
  <2> SUFFICES ASSUME NEW i \in 1..(n + 1), NEW j \in 1..(n + 1), FlowAt(i)' = FlowAt(j)' PROVE i = j
    BY Zenon, <1>3 DEF FlowsDiffer
  <2>1. CASE i \in 1..n /\ j \in 1..n
    <3>1. FlowAt(i) = FlowAt(j)
      BY Zenon, <1>6, <2>1
    <3> QED BY Zenon, <1>1, <2>1, <3>1 DEF FlowsDiffer
  <2> QED BY Zenon, <1>2, <1>6, <1>7, <2>1
<1>9. ASSUME ~over, NEW i \in 1..(n + 1) PROVE Ahead(i)'
  <2>1. CASE i \in 1..n
    <3>1. Ahead(i)
      BY Zenon, <1>1, <1>4, <1>9, <2>1 DEF NotStarted
    <3> QED BY Zenon, <1>4, <1>6, <2>1, <3>1 DEF Ahead
  <2>2. CASE i = n + 1
    <3>1. Uncalled(Current)
      BY Zenon, <1>4, <1>5, <1>9 DEF NotStarted
    <3> QED BY Zenon, <1>4, <1>6, <2>2, <3>1 DEF Ahead, Uncalled
  <2> QED BY Zenon, <1>2, <2>1, <2>2
<1>10. NotStarted'
  BY Zenon, <1>3, <1>4, <1>9 DEF NotStarted, Uncalled
<1> QED BY Zenon, <1>4, <1>8, <1>10 DEF NeverTwice

\* A flow comes to its end.
LEMMA OnceEnds ==
  ASSUME CalledOnce, RunInv, FlowsDiffer, NotStarted, NeverTwice, EndOfFlow
  PROVE  FlowsDiffer' /\ NotStarted' /\ NeverTwice'
<1>0. StackOK
  BY Zenon DEF RunInv
<1>1. PICK n \in Nat : n = Len(stack) /\ n >= 1
  BY Zenon, SchemaFirst
<1>2. /\ \A i \in 1..n : i \in 1..(n - 1) \/ i = n
      /\ \A i \in 1..(n - 1) : i \in 1..n /\ i < n
      /\ ~(n < n)
  BY <1>1
<1>3. /\ Len(stack') = n /\ SameTo(n - 1) /\ stack'[n].flow = stack[n].flow
  BY Zenon, <1>0, <1>1, TopMoves DEF Top
<1>4. /\ at' = "return" /\ over' = (over \/ n = 1) /\ starts' = starts
  BY Zenon, <1>1 DEF EndOfFlow
<1>5. \A i \in 1..n : FlowAt(i)' = FlowAt(i)
  BY Zenon, <1>2, <1>3 DEF FlowAt, SameTo
<1>6. FlowsDiffer'
  BY Zenon, <1>1, <1>3, <1>5 DEF FlowsDiffer
<1>7. ASSUME ~over', NEW i \in 1..n, i < n \/ i = 1 PROVE Ahead(i)'
  <2>1. ~over /\ i \in 1..(n - 1) /\ i < n
    BY Zenon, <1>2, <1>4, <1>7
  <2>2. Ahead(i)
    BY Zenon, <1>1, <2>1 DEF NotStarted
  <2> QED BY Zenon, <1>3, <1>4, <1>5, <2>1, <2>2 DEF Ahead, SameTo
<1>8. NotStarted'
  BY Zenon, <1>3, <1>4, <1>7 DEF NotStarted, Uncalled
<1> QED BY Zenon, <1>4, <1>6, <1>8 DEF NeverTwice

\* The schema is resumed: what it goes back over waits for the customer.
LEMMA OnceResumes ==
  ASSUME CalledOnce, RunInv, FlowsDiffer, NotStarted, NeverTwice, Resume
  PROVE  FlowsDiffer' /\ NotStarted' /\ NeverTwice'
<1>1. Len(stack) \in Nat /\ 1 \in 1..Len(stack) /\ \A i \in 1..1 : i = 1
  <2>1. Len(stack) \in Nat /\ Len(stack) >= 1
    BY Zenon, SchemaFirst
  <2> QED BY <2>1
<1>2. /\ Len(stack') = 1 /\ FlowAt(1)' = "main" /\ starts' = starts /\ at' = "next"
      /\ \/ stack'[1].pos = stack[1].pos
         \/ Name(At(1)) \in ForCustomer /\ stack'[1].pos = stack[1].pos - 1
  BY Zenon, RunResumes
<1>3. over' = over
  BY Zenon DEF Resume
<1>4. FlowAt(1) = "main" /\ FlowAt(1) \in Functions /\ stack[1].pos \in Nat
  BY Zenon, <1>1, Frames DEF RunInv, StackOK
<1>5. FlowsDiffer'
  BY Zenon, <1>1, <1>2 DEF FlowsDiffer
<1>6. ASSUME ~over PROVE Ahead(1)'
  <2>0. Ahead(1)
    BY Zenon, <1>1, <1>6 DEF NotStarted
  <2> SUFFICES ASSUME NEW k \in DOMAIN Program["main"], k > stack'[1].pos, Program["main"][k] \notin ForCustomer
               PROVE  starts[<<"main", k>>] = 0
    BY Zenon, <1>2 DEF Ahead
  <2>1. k \in Nat
    <3>1. k \in 1..Len(Program["main"]) /\ Len(Program["main"]) \in Nat
      BY Zenon, <1>4, Programs
    <3> QED BY <3>1
  <2>2. Name(At(1)) \in ForCustomer => k # stack[1].pos
    <3>1. At(1) = <<"main", stack[1].pos>>
      BY Zenon, SchemaFirst
    <3>2. Name(At(1)) = Program["main"][stack[1].pos]
      BY <3>1 DEF Name
    <3> QED BY Zenon, <3>2
  <2>3. k > stack[1].pos
    BY <1>2, <1>4, <2>1, <2>2
  <2> QED BY Zenon, <1>4, <2>0, <2>3 DEF Ahead
<1>7. NotStarted'
  BY Zenon, <1>1, <1>2, <1>3, <1>6 DEF NotStarted, Uncalled
<1> QED BY Zenon, <1>2, <1>3, <1>5, <1>7 DEF NeverTwice

\* However often it is suspended, a schema that has not come to its end and calls
\* each of its functions once never starts a request twice, except those that
\* wait for the customer: for every such schema.
THEOREM NothingTwice == Spec => []NeverTwice
<1>1. Init => OnceInv
  <2> SUFFICES ASSUME Init, CalledOnce PROVE FlowsDiffer /\ NotStarted /\ NeverTwice
    BY Zenon DEF OnceInv
  <2>1. stack = <<Started("main")>> /\ starts = [r \in Request |-> 0]
    BY Zenon DEF Init
  <2>2. Len(stack) = 1 /\ (\A i \in 1..1 : i = 1) /\ 0 <= 1
    BY <2>1
  <2>3. \A r \in Request : starts[r] = 0
    BY Zenon, <2>1
  <2>4. FlowAt(1) = "main" /\ "main" \in Functions
    BY <2>1, ProgramAssumption DEF FlowAt, Started
  <2>5. Ahead(1)
    BY Zenon, <2>3, <2>4, Programs DEF Ahead
  <2>6. \A r \in Request : Name(r) \in Functions => Uncalled(r)
    BY Zenon, <2>3, Programs DEF Uncalled
  <2> QED BY Zenon, <2>2, <2>3, <2>5, <2>6 DEF FlowsDiffer, NotStarted, NeverTwice
<1>2. ASSUME OnceInv, UNCHANGED vars PROVE OnceInv'
  BY Zenon, <1>2
  DEF OnceInv, FlowsDiffer, NotStarted, NeverTwice, FlowAt, Ahead, Uncalled, Current, Top, vars
<1>3. RunInv /\ OnceInv /\ [Next]_vars => OnceInv'
  <2> SUFFICES ASSUME RunInv, OnceInv, Next, CalledOnce PROVE FlowsDiffer' /\ NotStarted' /\ NeverTwice'
    BY Zenon, <1>2 DEF OnceInv
  <2>1. FlowsDiffer /\ NotStarted /\ NeverTwice
    BY Zenon DEF OnceInv
  <2>2. CASE Ended
    BY Zenon, <1>2, <2>2 DEF Ended, OnceInv
  <2> QED BY Zenon, <2>1, <2>2, OnceKept, OnceStarts, OnceExecutes, OnceEnds, OnceResumes DEF Next, Route
<1>4. OnceInv => NeverTwice
  BY Zenon DEF OnceInv, NeverTwice
<1> QED BY <1>1, <1>3, <1>4, RunInvariant, PTL DEF Spec

-----------------------------------------------------------------------------
(* CcQueue. *)

JoinPlace == {"no", "join", "subscribe", "enter", "select", "leave", "unsubscribe", "done"}

JoinTypeOK ==
  /\ join \in [Join -> JoinPlace]
  /\ joinCtx \in [Join -> {"live", "done"}]
  /\ dialog \in [Join -> Dialog \cup {0}]
  /\ queueReturn \in [Dialog -> Join \cup {0}]
  /\ \A j \in cutOff : j \in Join /\ join[j] # "no"
  /\ \A j \in returned : j \in cutOff
  /\ \A j \in Join : join[j] # "no" => dialog[j] \in Dialog

\* A dialog joins again only when the joinQueue before it has returned or was
\* interrupted.
JoinsInOrder ==
  /\ \A j \in Join : joinCtx[j] = "done" => join[j] = "done" \/ j \in cutOff
  /\ \A i, j \in Join : i < j /\ join[j] # "no" => join[i] # "no"
  /\ \A i, j \in Join : i < j /\ join[j] # "no" /\ dialog[i] = dialog[j] =>
       join[i] = "done" \/ i \in cutOff

\* The two conjuncts of HandBackHeard, one for each direction.
ChannelOfJoin ==
  \A d \in Dialog, j \in Join :
    queueReturn[d] = j => join[j] \in {"select", "leave"} /\ dialog[j] = d

JoinHasChannel ==
  \A j \in Join : join[j] = "select" =>
    \/ queueReturn[dialog[j]] = j
    \/ \E i \in cutOff : i <= j /\ dialog[i] = dialog[j]

JoinInv == JoinTypeOK /\ JoinsInOrder /\ ChannelOfJoin /\ JoinHasChannel

\* Joins and dialogs are numbers.
LEMMA Numbers == /\ \A j \in Join : j \in Nat /\ j # 0
                 /\ \A d \in Dialog : d \in Nat /\ d # 0
BY CcQueueAssumption DEF Join, Dialog

\* The joins start in the invariant.
LEMMA JoinInvInit == CcInit => JoinInv
BY Numbers DEF CcInit, JoinInv, JoinTypeOK, JoinsInOrder, ChannelOfJoin, JoinHasChannel, JoinPlace

\* A joinQueue that has begun goes on, and no channel of a connection changes.
LEMMA JoinMoves ==
  ASSUME JoinInv, NEW j \in Join, NEW pc \in JoinPlace \ {"no", "select"},
         join[j] \notin {"no", "done"}, join' = [join EXCEPT ![j] = pc],
         \A d \in Dialog : queueReturn[d] = j => pc = "leave",
         UNCHANGED <<dialog, joinCtx, queueReturn, cutOff>>,
         \A i \in returned' : i \in returned
  PROVE  JoinInv'
<1> USE DEF JoinInv
<1>1. /\ join' \in [Join -> JoinPlace] /\ join'[j] = pc
      /\ \A i \in Join \ {j} : join'[i] = join[i]
  BY Zenon DEF JoinTypeOK
<1>2. JoinTypeOK'
  BY Zenon, <1>1 DEF JoinTypeOK
<1>3. JoinsInOrder'
  BY Zenon, <1>1 DEF JoinsInOrder
<1>4. ChannelOfJoin'
  BY <1>1 DEF ChannelOfJoin
<1>5. JoinHasChannel'
  BY Zenon, <1>1 DEF JoinHasChannel
<1> QED
  BY Zenon, <1>2, <1>3, <1>4, <1>5

\* Every step keeps the invariant.
LEMMA JoinInvNext ==
  ASSUME JoinInv, CcNext PROVE JoinInv'
<1> USE DEF JoinInv
<1>1. ASSUME UNCHANGED joinVars, UNCHANGED cutOff PROVE JoinInv'
  BY Zenon, <1>1 DEF joinVars, JoinTypeOK, JoinsInOrder, ChannelOfJoin, JoinHasChannel
<1>2. CASE \/ \E k \in 1..MaxConsumers : Look(k)
           \/ SendClosed
           \/ ConnectionLost \/ Resubscribe
           \/ \E j \in Join : BridgeAttempt(j) \/ EndAttempt(j)
  BY Zenon, <1>1, <1>2 DEF Look, SendClosed, ConnectionLost, Resubscribe, BridgeAttempt, EndAttempt, histVars
<1>3. ASSUME NEW j \in Join, NEW d \in Dialog, Begin(j, d) PROVE JoinInv'
  <2>1. /\ join[j] = "no" /\ dialog' = [dialog EXCEPT ![j] = d]
        /\ \A i \in 1..(j - 1) : join[i] # "no" /\ (dialog[i] = d => join[i] = "done" \/ joinCtx[i] = "done")
        /\ UNCHANGED <<joinCtx, queueReturn, returned, cutOff>>
    BY Zenon, <1>3 DEF Begin, histVars
  <2>2. /\ join' \in [Join -> JoinPlace] /\ join'[j] \in {"join", "done"}
        /\ \A i \in Join \ {j} : join'[i] = join[i]
    BY Zenon, <1>3 DEF Begin, To, JoinTypeOK, JoinPlace
  <2>3. /\ dialog' \in [Join -> Dialog \cup {0}] /\ dialog'[j] = d
        /\ \A i \in Join \ {j} : dialog'[i] = dialog[i]
    BY Zenon, <2>1 DEF JoinTypeOK
  <2>4. j \notin cutOff /\ joinCtx[j] = "live" /\ \A i \in Join : i > j => join[i] = "no"
    BY Zenon, <2>1, Numbers DEF JoinTypeOK, JoinsInOrder
  <2>5. JoinTypeOK'
    BY Zenon, <2>1, <2>2, <2>3 DEF JoinTypeOK
  <2>6. \A i \in Join : i < j => /\ join[i] # "no"
                                 /\ dialog[i] = d => join[i] = "done" \/ i \in cutOff
    <3>1. \A i \in Join : i < j => i \in 1..(j - 1)
      BY CcQueueAssumption DEF Join
    <3> QED
      BY Zenon, <2>1, <3>1 DEF JoinsInOrder
  <2>7. JoinsInOrder'
    <3>1. \A i \in Join : joinCtx'[i] = "done" => join'[i] = "done" \/ i \in cutOff'
      BY Zenon, <2>1, <2>2, <2>4 DEF JoinsInOrder
    <3>2. ASSUME NEW i \in Join, NEW k \in Join, i < k, join'[k] # "no"
          PROVE  join'[i] # "no" /\ (dialog'[i] = dialog'[k] => join'[i] = "done" \/ i \in cutOff')
      <4>1. CASE k = j
        BY Zenon, <2>1, <2>2, <2>3, <2>6, <3>2, <4>1, Numbers
      <4>2. CASE k # j
        <5>1. i # j
          BY Zenon, <2>2, <2>4, <3>2, <4>2
        <5> QED
          BY Zenon, <2>1, <2>2, <2>3, <3>2, <4>2, <5>1 DEF JoinsInOrder
      <4> QED
        BY Zenon, <4>1, <4>2
    <3> QED
      BY Zenon, <3>1, <3>2 DEF JoinsInOrder
  <2>8. ChannelOfJoin'
    BY <2>1, <2>2, <2>3 DEF ChannelOfJoin
  <2>9. JoinHasChannel'
    BY <2>1, <2>2, <2>3, <2>4 DEF JoinHasChannel
  <2> QED
    BY Zenon, <2>5, <2>7, <2>8, <2>9
<1>4. ASSUME NEW j \in Join, JoinIMToQueue(j) \/ SubscribeAttempt(j) PROVE JoinInv'
  <2>1. /\ join[j] \in {"join", "subscribe"}
        /\ \E pc \in {"subscribe", "enter", "done"} : join' = [join EXCEPT ![j] = pc]
        /\ UNCHANGED <<dialog, joinCtx, queueReturn, returned, cutOff>>
    BY Zenon, <1>4 DEF JoinIMToQueue, SubscribeAttempt, To, histVars
  <2>2. \A d \in Dialog : queueReturn[d] # j
    BY Zenon, <2>1 DEF ChannelOfJoin
  <2> QED
    BY Zenon, <2>1, <2>2, JoinMoves DEF JoinPlace
<1>5. ASSUME NEW j \in Join, EnterQueue(j) PROVE JoinInv'
  <2>1. /\ join[j] = "enter" /\ join' = [join EXCEPT ![j] = "select"]
        /\ queueReturn' = [queueReturn EXCEPT ![dialog[j]] = j]
        /\ UNCHANGED <<dialog, joinCtx, returned, cutOff>>
    BY Zenon, <1>5 DEF EnterQueue, To, histVars
  <2>2. /\ join' \in [Join -> JoinPlace] /\ join'[j] = "select"
        /\ \A i \in Join \ {j} : join'[i] = join[i]
    BY Zenon, <2>1 DEF JoinTypeOK, JoinPlace
  <2>3. /\ dialog[j] \in Dialog /\ queueReturn' \in [Dialog -> Join \cup {0}]
        /\ queueReturn'[dialog[j]] = j
        /\ \A d \in Dialog \ {dialog[j]} : queueReturn'[d] = queueReturn[d]
    BY Zenon, <2>1 DEF JoinTypeOK
  <2>4. JoinTypeOK'
    BY Zenon, <2>1, <2>2, <2>3 DEF JoinTypeOK
  <2>5. JoinsInOrder'
    BY Zenon, <2>1, <2>2 DEF JoinsInOrder
  <2>6. ChannelOfJoin'
    BY <2>1, <2>2, <2>3 DEF ChannelOfJoin
  <2>7. ASSUME NEW i \in Join, i # j, join[i] = "select", dialog[i] = dialog[j]
        PROVE  \E k \in cutOff : k <= i /\ dialog[k] = dialog[i]
    <3>1. CASE i < j
      BY <2>1, <2>7, <3>1, Numbers DEF JoinsInOrder
    <3>2. CASE j < i
      BY <2>1, <2>7, <3>2, Numbers DEF JoinsInOrder
    <3> QED
      BY <2>7, <3>1, <3>2, Numbers
  <2>8. JoinHasChannel'
    <3>1. ASSUME NEW i \in Join, join'[i] = "select"
          PROVE  \/ queueReturn'[dialog[i]] = i
                 \/ \E k \in cutOff : k <= i /\ dialog[k] = dialog[i]
      <4>1. CASE i = j
        BY Zenon, <2>3, <4>1
      <4>2. CASE i # j /\ dialog[i] = dialog[j]
        BY Zenon, <2>2, <2>7, <3>1, <4>2
      <4>3. CASE i # j /\ dialog[i] # dialog[j]
        <5>1. join[i] = "select" /\ dialog[i] \in Dialog
          BY Zenon, <2>2, <3>1, <4>3 DEF JoinTypeOK
        <5> QED
          BY Zenon, <2>3, <4>3, <5>1 DEF JoinHasChannel
      <4> QED
        BY Zenon, <4>1, <4>2, <4>3
    <3> QED
      BY Zenon, <2>1, <3>1 DEF JoinHasChannel
  <2> QED
    BY Zenon, <2>4, <2>5, <2>6, <2>8
<1>6. ASSUME NEW j \in Join, Interrupted(j) PROVE JoinInv'
  <2>1. /\ join[j] = "select" /\ join' = [join EXCEPT ![j] = "leave"]
        /\ UNCHANGED <<dialog, joinCtx, queueReturn, returned, cutOff>>
    BY Zenon, <1>6 DEF Interrupted, To, histVars
  <2> QED
    BY Zenon, <2>1, JoinMoves DEF JoinPlace
<1>7. ASSUME NEW j \in Join, Receive(j) PROVE JoinInv'
  <2>1. /\ join[j] = "select"
        /\ UNCHANGED join \/ join' = [join EXCEPT ![j] = "leave"]
        /\ UNCHANGED <<dialog, joinCtx, queueReturn, returned, cutOff>>
    BY Zenon, <1>7 DEF Receive, To, histVars
  <2>2. CASE UNCHANGED join
    BY Zenon, <2>1, <2>2 DEF JoinTypeOK, JoinsInOrder, ChannelOfJoin, JoinHasChannel
  <2>3. CASE join' = [join EXCEPT ![j] = "leave"]
    BY Zenon, <2>1, <2>3, JoinMoves DEF JoinPlace
  <2> QED
    BY Zenon, <2>1, <2>2, <2>3
<1>8. ASSUME NEW j \in Join, LeaveQueue(j) PROVE JoinInv'
  <2>1. /\ join[j] = "leave" /\ join' = [join EXCEPT ![j] = "unsubscribe"]
        /\ queueReturn' = [queueReturn EXCEPT ![dialog[j]] = 0]
        /\ UNCHANGED <<dialog, joinCtx, returned, cutOff>>
    BY Zenon, <1>8 DEF LeaveQueue, To, histVars
  <2>2. /\ join' \in [Join -> JoinPlace] /\ join'[j] = "unsubscribe"
        /\ \A i \in Join \ {j} : join'[i] = join[i]
    BY Zenon, <2>1 DEF JoinTypeOK, JoinPlace
  <2>3. /\ dialog[j] \in Dialog /\ queueReturn' \in [Dialog -> Join \cup {0}]
        /\ queueReturn'[dialog[j]] = 0
        /\ \A d \in Dialog \ {dialog[j]} : queueReturn'[d] = queueReturn[d]
    BY Zenon, <2>1 DEF JoinTypeOK
  <2>4. JoinTypeOK'
    BY Zenon, <2>1, <2>2, <2>3 DEF JoinTypeOK
  <2>5. JoinsInOrder'
    BY Zenon, <2>1, <2>2 DEF JoinsInOrder
  <2>6. ChannelOfJoin'
    <3>1. \A d \in Dialog : queueReturn[d] = j => d = dialog[j]
      BY Zenon DEF ChannelOfJoin
    <3> QED
      BY <2>1, <2>2, <2>3, <3>1, Numbers DEF ChannelOfJoin
  <2>7. ASSUME NEW i \in Join, i # j, join[i] = "select", dialog[i] = dialog[j]
        PROVE  \E k \in cutOff : k <= i /\ dialog[k] = dialog[i]
    <3>1. CASE i < j
      BY <2>1, <2>7, <3>1, Numbers DEF JoinsInOrder
    <3>2. CASE j < i
      BY <2>1, <2>7, <3>2, Numbers DEF JoinsInOrder
    <3> QED
      BY <2>7, <3>1, <3>2, Numbers
  <2>8. JoinHasChannel'
    <3>1. ASSUME NEW i \in Join, join'[i] = "select"
          PROVE  \/ queueReturn'[dialog[i]] = i
                 \/ \E k \in cutOff : k <= i /\ dialog[k] = dialog[i]
      <4>1. i # j /\ join[i] = "select" /\ dialog[i] \in Dialog
        BY Zenon, <2>2, <3>1 DEF JoinTypeOK
      <4>2. CASE dialog[i] = dialog[j]
        BY Zenon, <2>7, <4>1, <4>2
      <4>3. CASE dialog[i] # dialog[j]
        BY Zenon, <2>3, <4>1, <4>3 DEF JoinHasChannel
      <4> QED
        BY Zenon, <4>2, <4>3
    <3> QED
      BY Zenon, <2>1, <3>1 DEF JoinHasChannel
  <2> QED
    BY Zenon, <2>4, <2>5, <2>6, <2>8
<1>9. ASSUME NEW j \in Join, UnSubscribeAttempt(j) PROVE JoinInv'
  <2>1. /\ join[j] = "unsubscribe" /\ join' = [join EXCEPT ![j] = "done"]
        /\ joinCtx' = [joinCtx EXCEPT ![j] = "done"] /\ returned' = returned \ {j}
        /\ UNCHANGED <<dialog, queueReturn, cutOff>>
    BY Zenon, <1>9 DEF UnSubscribeAttempt, To, histVars
  <2>2. /\ join' \in [Join -> JoinPlace] /\ join'[j] = "done"
        /\ \A i \in Join \ {j} : join'[i] = join[i] /\ joinCtx'[i] = joinCtx[i]
        /\ joinCtx' \in [Join -> {"live", "done"}]
    BY Zenon, <2>1 DEF JoinTypeOK, JoinPlace
  <2>3. JoinTypeOK'
    BY Zenon, <2>1, <2>2 DEF JoinTypeOK
  <2>4. JoinsInOrder'
    BY Zenon, <2>1, <2>2 DEF JoinsInOrder
  <2>5. ChannelOfJoin'
    BY <2>1, <2>2 DEF ChannelOfJoin
  <2>6. JoinHasChannel'
    BY <2>1, <2>2 DEF JoinHasChannel
  <2> QED
    BY Zenon, <2>3, <2>4, <2>5, <2>6
<1>10. ASSUME NEW j \in Join, SuspendJoin(j) PROVE JoinInv'
  <2>1. /\ join[j] # "no" /\ joinCtx' = [joinCtx EXCEPT ![j] = "done"]
        /\ cutOff' = cutOff \cup {j}
        /\ UNCHANGED <<join, dialog, queueReturn, returned>>
    BY Zenon, <1>10 DEF SuspendJoin
  <2>2. JoinTypeOK'
    BY Zenon, <2>1 DEF JoinTypeOK
  <2>3. JoinsInOrder'
    BY Zenon, <2>1 DEF JoinsInOrder, JoinTypeOK
  <2>4. ChannelOfJoin' /\ JoinHasChannel'
    BY Zenon, <2>1 DEF ChannelOfJoin, JoinHasChannel
  <2> QED
    BY Zenon, <2>2, <2>3, <2>4
<1>11. ASSUME NEW d \in Dialog, ReturnFromQueue(d) PROVE JoinInv'
  <2>1. /\ queueReturn[d] # 0 /\ returned' = returned \cup {queueReturn[d]}
        /\ cutOff' = cutOff \cup {queueReturn[d]}
        /\ queueReturn' = [queueReturn EXCEPT ![d] = 0]
        /\ UNCHANGED <<join, dialog, joinCtx>>
    BY Zenon, <1>11 DEF ReturnFromQueue
  <2>2. PICK j \in Join : queueReturn[d] = j /\ join[j] # "no" /\ dialog[j] = d
    BY Zenon, <2>1 DEF JoinTypeOK, ChannelOfJoin
  <2>3. /\ queueReturn' \in [Dialog -> Join \cup {0}] /\ queueReturn'[d] = 0
        /\ \A e \in Dialog \ {d} : queueReturn'[e] = queueReturn[e]
    BY Zenon, <2>1 DEF JoinTypeOK
  <2>4. JoinTypeOK'
    BY Zenon, <2>1, <2>2, <2>3 DEF JoinTypeOK
  <2>5. JoinsInOrder'
    BY Zenon, <2>1 DEF JoinsInOrder
  <2>6. ChannelOfJoin'
    BY Zenon, <2>1, <2>3, Numbers DEF ChannelOfJoin
  <2>7. JoinHasChannel'
    <3>1. ASSUME NEW i \in Join, join[i] = "select"
          PROVE  \/ queueReturn'[dialog[i]] = i
                 \/ \E k \in cutOff' : k <= i /\ dialog[k] = dialog[i]
      <4>1. dialog[i] \in Dialog
        BY Zenon, <3>1 DEF JoinTypeOK
      <4>2. CASE queueReturn[dialog[i]] = i
        <5>1. CASE dialog[i] = d
          BY <2>1, <2>2, <4>2, <5>1, Numbers
        <5>2. CASE dialog[i] # d
          BY Zenon, <2>3, <4>1, <4>2, <5>2
        <5> QED
          BY Zenon, <5>1, <5>2
      <4>3. CASE \E k \in cutOff : k <= i /\ dialog[k] = dialog[i]
        BY Zenon, <2>1, <4>3
      <4> QED
        BY Zenon, <3>1, <4>2, <4>3 DEF JoinHasChannel
    <3> QED
      BY Zenon, <2>1, <3>1 DEF JoinHasChannel
  <2> QED
    BY Zenon, <2>4, <2>5, <2>6, <2>7
<1> QED
  BY Zenon, <1>2, <1>3, <1>4, <1>5, <1>6, <1>7, <1>8, <1>9, <1>10, <1>11 DEF CcNext, CcGoroutines

\* The joins never leave the invariant.
LEMMA JoinInvariant == CcSpec => []JoinInv
<1>1. ASSUME JoinInv, UNCHANGED ccVars PROVE JoinInv'
  BY Zenon, <1>1 DEF JoinInv, ccVars, joinVars, histVars, JoinTypeOK, JoinsInOrder, ChannelOfJoin,
              JoinHasChannel
<1> QED
  BY <1>1, JoinInvInit, JoinInvNext, PTL DEF CcSpec

\* ReturnFromQueue reaches the joinQueue that waits (EnterQueue and LeaveQueue
\* of routes/im/queue.go), for any number of joins and dialogs, unless that one
\* or an earlier one of the dialog was interrupted.
THEOREM HandBacksHeard == CcSpec => []HandBackHeard
<1>1. JoinInv => HandBackHeard
  BY DEF JoinInv, ChannelOfJoin, JoinHasChannel, HandBackHeard
<1> QED
  BY <1>1, JoinInvariant, PTL

-----------------------------------------------------------------------------
(* One subscription. *)

Event == [attempt : Join, name : {"bridged", "leaving"}]
Queue == events[1]
Pending(j) == \E m \in 1..Len(Queue) : Queue[m].attempt = j

\* The call centre says nothing of an attempt before it is made and after it has
\* ended.
LastWord ==
  /\ Queue \in Seq(Event)
  /\ \A j \in Join : join[j] \in {"no", "join"} => cc[j] = "none"
  /\ \A m \in 1..Len(Queue) :
       /\ cc[Queue[m].attempt] # "none"
       /\ Queue[m].name = "leaving" =>
            /\ cc[Queue[m].attempt] = "left"
            /\ \A n \in 1..Len(Queue) : n > m => Queue[n].attempt # Queue[m].attempt

\* The event that the listener has is from the queue.
Held ==
  lis = "send" =>
    /\ event \in Event
    /\ cc[event.attempt] # "none"
    /\ event.name = "leaving" => cc[event.attempt] = "left" /\ ~Pending(event.attempt)

\* A joinQueue that leaves by itself has had the last event of its attempt.
Gone(j) == join[j] \in {"leave", "unsubscribe"} \/ j \in closed
LeftLast ==
  \A j \in Join : Gone(j) /\ j \notin cutOff =>
    /\ cc[j] = "left" /\ ~Pending(j)
    /\ ~(lis = "send" /\ event.attempt = j)

\* There is only that one queue.
OneQueue == consumers <= 1 /\ \A k \in 1..MaxConsumers : k > 1 => events[k] = <<>>

EventInv ==
  /\ DOMAIN cc = Join /\ consumers \in Nat /\ DOMAIN events = 1..MaxConsumers
  /\ \A j \in closed : j \in Join /\ join[j] = "done"
  /\ several \in {"no", "yes"}
  /\ several = "no" => OneQueue /\ LastWord /\ Held /\ LeftLast /\ PanicNeedsInterrupt

\* What is put at the end of a queue.
LEMMA AppendEvent ==
  ASSUME NEW q \in Seq(Event), NEW e \in Event
  PROVE  /\ Append(q, e) \in Seq(Event) /\ Len(q) \in Nat /\ Len(Append(q, e)) = Len(q) + 1
         /\ \A m \in 1..Len(q) : Append(q, e)[m] = q[m]
         /\ Append(q, e)[Len(q) + 1] = e
OBVIOUS

\* What is taken from its front.
LEMMA TailEvent ==
  ASSUME NEW q \in Seq(Event), q # <<>>
  PROVE  /\ Tail(q) \in Seq(Event) /\ Len(q) \in Nat \ {0} /\ Len(Tail(q)) = Len(q) - 1
         /\ \A m \in 1..Len(Tail(q)) : m + 1 \in 1..Len(q) /\ Tail(q)[m] = q[m + 1]
         /\ Head(q) = q[1] /\ Head(q) \in Event
OBVIOUS

\* What is kept of it.
LEMMA KeptEvents ==
  ASSUME NEW q \in Seq(Event), NEW n \in Nat, n <= Len(q)
  PROVE  /\ SubSeq(q, 1, n) \in Seq(Event) /\ Len(SubSeq(q, 1, n)) = n
         /\ \A m \in 1..n : m \in 1..Len(q) /\ SubSeq(q, 1, n)[m] = q[m]
OBVIOUS

\* The joins and the listener start in the invariant.
LEMMA EventInvInit == CcInit => EventInv
<1> SUFFICES ASSUME CcInit PROVE EventInv
  OBVIOUS
<1> USE DEF CcInit
<1>1. DOMAIN cc = Join /\ consumers \in Nat /\ DOMAIN events = 1..MaxConsumers /\ OneQueue
  BY DEF OneQueue
<1>2. Queue = <<>>
  BY <1>1, CcQueueAssumption DEF Queue
<1>3. LastWord
  BY <1>2 DEF LastWord
<1>4. Held /\ LeftLast /\ PanicNeedsInterrupt
  BY Zenon DEF Held, LeftLast, Gone, PanicNeedsInterrupt
<1> QED
  BY Zenon, <1>1, <1>3, <1>4 DEF EventInv

\* The listener and the queue rest, and no joinQueue leaves by itself.
LEMMA EventQuiet ==
  ASSUME EventInv, UNCHANGED <<consumers, several, events, cc, lis, event>>, crashed' # "closed",
         \A j \in Join : Gone(j)' => Gone(j) \/ j \in cutOff,
         \A j \in Join : join'[j] \in {"no", "join"} => join[j] \in {"no", "join"},
         \A j \in closed' : j \in Join /\ join'[j] = "done",
         \A j \in cutOff : j \in cutOff'
  PROVE  EventInv'
<1> SUFFICES ASSUME several = "no" PROVE (OneQueue /\ LastWord /\ Held /\ LeftLast /\ PanicNeedsInterrupt)'
  BY Zenon DEF EventInv
<1> USE DEF EventInv
<1>1. Queue' = Queue /\ OneQueue' /\ \A j : Pending(j)' = Pending(j)
  BY Zenon DEF Queue, OneQueue, Pending
<1>2. LastWord'
  BY <1>1 DEF LastWord
<1>3. Held'
  BY Zenon, <1>1 DEF Held
<1>4. LeftLast'
  BY Zenon, <1>1 DEF LeftLast
<1> QED
  BY Zenon, <1>1, <1>2, <1>3, <1>4 DEF PanicNeedsInterrupt

\* The queues, when the call centre tells something.
LEMMA PublishedTo ==
  ASSUME EventInv, NEW j \in Join, NEW name, Publish(j, name), UNCHANGED consumers
  PROVE  /\ DOMAIN events' = 1..MaxConsumers /\ (OneQueue => OneQueue')
         /\ consumers = 0 => Queue' = Queue
         /\ consumers # 0 => Queue' = Append(Queue, [attempt |-> j, name |-> name])
<1> USE DEF EventInv, Publish
<1>1. ASSUME OneQueue PROVE OneQueue'
  <2>1. ASSUME NEW k \in 1..MaxConsumers, k > 1 PROVE events'[k] = <<>>
    <3>1. events[k] = <<>> /\ ~(k <= consumers)
      BY <1>1, <2>1, CcQueueAssumption DEF OneQueue
    <3> QED
      BY Zenon, <3>1
  <2> QED
    BY Zenon, <1>1, <2>1 DEF OneQueue
<1>2. 1 \in 1..MaxConsumers /\ (consumers # 0 => 1 <= consumers) /\ (consumers = 0 => ~(1 <= consumers))
  BY CcQueueAssumption
<1> QED
  BY Zenon, <1>1, <1>2 DEF Queue

\* The call centre ends an attempt or connects it, and nobody is told.
LEMMA EventUnheard ==
  ASSUME EventInv, NEW j \in Join, NEW name \in {"bridged", "leaving"}, NEW state \in {"bridged", "left"},
         cc[j] \in {"waiting", "bridged"}, cc' = [cc EXCEPT ![j] = state],
         name = "leaving" => state = "left",
         Publish(j, name), UNCHANGED <<consumers, several, lisVars, joinVars, cutOff>>, crashed' # "closed", consumers = 0
  PROVE  EventInv'
<1> USE DEF EventInv, lisVars, joinVars
<1>1. DOMAIN cc' = Join /\ consumers' \in Nat /\ DOMAIN events' = 1..MaxConsumers
  BY Zenon, PublishedTo
<1>2. cc'[j] = state /\ \A i \in Join \ {j} : cc'[i] = cc[i]
  OBVIOUS
<1> SUFFICES ASSUME several = "no" PROVE (OneQueue /\ LastWord /\ Held /\ LeftLast /\ PanicNeedsInterrupt)'
  BY Zenon, <1>1
<1>3. Queue' = Queue /\ OneQueue' /\ \A i : Pending(i)' = Pending(i)
  BY Zenon, PublishedTo DEF Pending
<1>4. \A i \in Join : /\ cc[i] # "none" => cc'[i] # "none"
                      /\ cc[i] = "left" => cc'[i] = "left"
  BY Zenon, <1>2
<1>5. LastWord'
  <2>1. \A i \in Join : join'[i] \in {"no", "join"} => cc'[i] = "none"
    BY Zenon, <1>2 DEF LastWord
  <2>2. \A m \in 1..Len(Queue) : Queue[m] \in Event
    BY DEF LastWord
  <2>3. \A m \in 1..Len(Queue) : Queue[m].attempt \in Join
    BY Zenon, <2>2 DEF Event
  <2>4. ASSUME NEW m \in 1..Len(Queue')
        PROVE  /\ cc'[Queue'[m].attempt] # "none"
               /\ Queue'[m].name = "leaving" =>
                    /\ cc'[Queue'[m].attempt] = "left"
                    /\ \A n \in 1..Len(Queue') : n > m => Queue'[n].attempt # Queue'[m].attempt
    <3>1. m \in 1..Len(Queue) /\ Queue'[m] = Queue[m] /\ Queue[m].attempt \in Join
      BY Zenon, <1>3, <2>3
    <3>2. /\ cc[Queue[m].attempt] # "none"
          /\ Queue[m].name = "leaving" =>
               /\ cc[Queue[m].attempt] = "left"
               /\ \A n \in 1..Len(Queue) : n > m => Queue[n].attempt # Queue[m].attempt
      BY Zenon, <3>1 DEF LastWord
    <3>3. /\ cc'[Queue[m].attempt] # "none"
          /\ Queue[m].name = "leaving" => cc'[Queue[m].attempt] = "left"
      BY Zenon, <1>4, <3>1, <3>2
    <3> HIDE DEF Queue
    <3> QED
      BY Zenon, <1>3, <3>2, <3>3
  <2>5. Queue' \in Seq(Event)
    BY Zenon, <1>3 DEF LastWord
  <2> QED
    BY Zenon, <2>1, <2>4, <2>5 DEF LastWord
<1>6. Held'
  <2>1. ASSUME lis = "send" PROVE event.attempt \in Join
    BY Zenon, <2>1 DEF Held, Event
  <2> QED
    BY Zenon, <1>3, <1>4, <2>1 DEF Held
<1>7. LeftLast'
  BY Zenon, <1>3, <1>4 DEF LeftLast, Gone
<1> QED
  BY Zenon, <1>3, <1>5, <1>6, <1>7 DEF PanicNeedsInterrupt

\* It ends an attempt or connects it, and says so.
LEMMA EventPublished ==
  ASSUME EventInv, NEW j \in Join, NEW name \in {"bridged", "leaving"}, NEW state \in {"bridged", "left"},
         cc[j] \in {"waiting", "bridged"}, cc' = [cc EXCEPT ![j] = state],
         name = "leaving" => state = "left",
         Publish(j, name), UNCHANGED <<consumers, several, lisVars, joinVars, cutOff>>, crashed' # "closed", consumers # 0
  PROVE  EventInv'
<1> USE DEF EventInv, lisVars, joinVars
<1>1. DOMAIN cc' = Join /\ consumers' \in Nat /\ DOMAIN events' = 1..MaxConsumers
  BY Zenon, PublishedTo
<1>2. cc'[j] = state /\ \A i \in Join \ {j} : cc'[i] = cc[i]
  OBVIOUS
<1> SUFFICES ASSUME several = "no" PROVE (OneQueue /\ LastWord /\ Held /\ LeftLast /\ PanicNeedsInterrupt)'
  BY Zenon, <1>1
<1> DEFINE e == [attempt |-> j, name |-> name]
<1>3. e \in Event
  BY Zenon DEF Event
<1>4. Queue \in Seq(Event) /\ Queue' = Append(Queue, e) /\ OneQueue'
  BY Zenon, PublishedTo DEF LastWord
<1>5. /\ Queue' \in Seq(Event) /\ Len(Queue) \in Nat /\ Len(Queue') = Len(Queue) + 1
      /\ \A m \in 1..Len(Queue) : Queue'[m] = Queue[m]
      /\ Queue'[Len(Queue) + 1] = e
  BY Zenon, <1>3, <1>4, AppendEvent
<1>6. \A m \in 1..Len(Queue) :
        /\ Queue[m] \in Event /\ Queue[m].attempt \in Join
        /\ Queue[m].name = "leaving" => Queue[m].attempt # j
  <2>1. \A m \in 1..Len(Queue) : Queue[m] \in Event
    BY <1>4
  <2>2. \A m \in 1..Len(Queue) : Queue[m].attempt \in Join
    BY Zenon, <2>1 DEF Event
  <2>3. \A m \in 1..Len(Queue) : Queue[m].name = "leaving" => cc[Queue[m].attempt] = "left"
    BY Zenon DEF LastWord
  <2> QED
    BY Zenon, <2>1, <2>2, <2>3
<1>7. \A i : Pending(i)' => Pending(i) \/ i = j
  <2>1. \A m \in 1..Len(Queue') : m \in 1..Len(Queue) \/ m = Len(Queue) + 1
    BY <1>5
  <2> QED
    BY <1>5, <2>1 DEF Pending
<1>8. LastWord'
  <2>1. \A i \in Join : join'[i] \in {"no", "join"} => cc'[i] = "none"
    BY Zenon, <1>2 DEF LastWord
  <2>2. ASSUME NEW m \in 1..Len(Queue')
        PROVE  /\ cc'[Queue'[m].attempt] # "none"
               /\ Queue'[m].name = "leaving" =>
                    /\ cc'[Queue'[m].attempt] = "left"
                    /\ \A n \in 1..Len(Queue') : n > m => Queue'[n].attempt # Queue'[m].attempt
    <3>1. CASE m = Len(Queue) + 1
      BY <1>2, <1>5, <3>1
    <3>2. CASE m \in 1..Len(Queue)
      <4>1. Queue'[m] = Queue[m] /\ Queue[m].attempt \in Join
        BY Zenon, <1>5, <1>6, <3>2
      <4>2. cc'[Queue[m].attempt] # "none"
        BY Zenon, <1>2, <3>2, <4>1 DEF LastWord
      <4>3. ASSUME Queue[m].name = "leaving"
            PROVE  /\ cc'[Queue[m].attempt] = "left"
                   /\ \A n \in 1..Len(Queue') : n > m => Queue'[n].attempt # Queue[m].attempt
        <5>1. Queue[m].attempt # j /\ cc[Queue[m].attempt] = "left"
          BY Zenon, <1>6, <3>2, <4>3 DEF LastWord
        <5>2. ASSUME NEW n \in 1..Len(Queue'), n > m PROVE Queue'[n].attempt # Queue[m].attempt
          <6>1. CASE n = Len(Queue) + 1
            BY <1>5, <5>1, <6>1
          <6>2. CASE n \in 1..Len(Queue)
            BY <1>5, <3>2, <4>3, <5>2, <6>2 DEF LastWord
          <6> QED
            BY <1>5, <6>1, <6>2
        <5> QED
          BY Zenon, <1>2, <4>1, <5>1, <5>2
      <4> QED
        BY Zenon, <4>1, <4>2, <4>3
    <3> QED
      BY <1>5, <3>1, <3>2
  <2> QED
    BY Zenon, <1>5, <2>1, <2>2 DEF LastWord
<1>9. Held'
  <2>1. ASSUME lis = "send" PROVE event.attempt \in Join
    BY Zenon, <2>1 DEF Held, Event
  <2> QED
    BY Zenon, <1>2, <1>7, <2>1 DEF Held
<1>10. LeftLast'
  BY <1>2, <1>7 DEF LeftLast, Gone
<1> QED
  BY Zenon, <1>4, <1>8, <1>9, <1>10 DEF PanicNeedsInterrupt

\* The connection is lost, and only the first events of each queue are kept.
LEMMA EventLost ==
  ASSUME EventInv, ConnectionLost, crashed = "no" PROVE EventInv'
<1> USE DEF EventInv
<1>0. /\ consumers' = 0 /\ UNCHANGED <<several, cc, closed, lis, event, join, cutOff, crashed>>
      /\ DOMAIN events' = 1..MaxConsumers
  BY Zenon DEF ConnectionLost, lisVars, joinVars
<1> SUFFICES ASSUME several = "no" PROVE (OneQueue /\ LastWord /\ Held /\ LeftLast /\ PanicNeedsInterrupt)'
  BY Zenon, <1>0
<1>1. PICK keep \in [1..MaxConsumers -> 0..(2 * NJoins)] :
        /\ \A k \in 1..MaxConsumers : keep[k] <= Len(events[k])
        /\ events' = [k \in 1..MaxConsumers |-> SubSeq(events[k], 1, keep[k])]
  BY Zenon DEF ConnectionLost
<1>2. 1 \in 1..MaxConsumers /\ \A k \in 1..MaxConsumers : keep[k] \in Nat
  BY <1>1, CcQueueAssumption
<1>3. OneQueue'
  <2>1. ASSUME NEW k \in 1..MaxConsumers, k > 1 PROVE events'[k] = <<>>
    <3>1. events[k] = <<>> /\ keep[k] <= Len(events[k]) /\ keep[k] \in Nat
      BY Zenon, <1>1, <1>2, <2>1 DEF OneQueue
    <3>2. SubSeq(events[k], 1, keep[k]) = <<>>
      BY <3>1
    <3> QED
      BY Zenon, <1>1, <3>2
  <2> QED
    BY <1>0, <2>1 DEF OneQueue
<1> DEFINE n == keep[1]
<1>4. Queue \in Seq(Event) /\ Queue' = SubSeq(Queue, 1, n) /\ n \in Nat /\ n <= Len(Queue)
  BY Zenon, <1>1, <1>2 DEF Queue, LastWord
<1> HIDE DEF n
<1>5. /\ Queue' \in Seq(Event) /\ Len(Queue') = n
      /\ \A m \in 1..n : m \in 1..Len(Queue) /\ Queue'[m] = Queue[m]
  BY Zenon, <1>4, KeptEvents
<1>6. LastWord'
  <2>1. \A j \in Join : join'[j] \in {"no", "join"} => cc'[j] = "none"
    BY Zenon, <1>0 DEF LastWord
  <2>2. ASSUME NEW m \in 1..Len(Queue')
        PROVE  /\ cc'[Queue'[m].attempt] # "none"
               /\ Queue'[m].name = "leaving" =>
                    /\ cc'[Queue'[m].attempt] = "left"
                    /\ \A n1 \in 1..Len(Queue') : n1 > m => Queue'[n1].attempt # Queue'[m].attempt
    <3>1. m \in 1..Len(Queue) /\ Queue'[m] = Queue[m]
      BY Zenon, <1>5
    <3>2. \A n1 \in 1..Len(Queue') : n1 \in 1..Len(Queue) /\ Queue'[n1] = Queue[n1]
      BY Zenon, <1>5
    <3>3. cc[Queue[m].attempt] # "none"
      BY Zenon, <3>1 DEF LastWord
    <3>4. ASSUME Queue[m].name = "leaving"
          PROVE  /\ cc[Queue[m].attempt] = "left"
                 /\ \A n1 \in 1..Len(Queue') : n1 > m => Queue[n1].attempt # Queue[m].attempt
      BY Zenon, <3>1, <3>2, <3>4 DEF LastWord
    <3> QED
      BY Zenon, <1>0, <3>1, <3>2, <3>3, <3>4
  <2> QED
    BY Zenon, <1>5, <2>1, <2>2 DEF LastWord
<1>7. \A j : Pending(j)' => Pending(j)
  BY Zenon, <1>5 DEF Pending
<1>8. Held' /\ LeftLast'
  BY Zenon, <1>0, <1>7 DEF Held, LeftLast, Gone
<1> QED
  BY Zenon, <1>0, <1>3, <1>6, <1>8 DEF PanicNeedsInterrupt

\* The client subscribes again.
LEMMA EventResubscribed ==
  ASSUME EventInv, Resubscribe, crashed = "no" PROVE EventInv'
<1> USE DEF EventInv
<1>1. /\ consumers' \in Nat /\ several' \in {"no", "yes"}
      /\ UNCHANGED <<events, cc, closed, lis, event, join, cutOff, crashed>>
      /\ several' = "no" => several = "no" /\ consumers' <= 1
  BY DEF Resubscribe, lisVars, joinVars, histVars
<1> SUFFICES ASSUME several' = "no" PROVE (OneQueue /\ LastWord /\ Held /\ LeftLast /\ PanicNeedsInterrupt)'
  BY Zenon, <1>1
<1>2. Queue' = Queue /\ OneQueue' /\ \A j : Pending(j)' = Pending(j)
  BY Zenon, <1>1 DEF Queue, OneQueue, Pending
<1>3. LastWord' /\ Held' /\ LeftLast'
  BY Zenon, <1>1, <1>2 DEF LastWord, Held, LeftLast, Gone
<1> QED
  BY Zenon, <1>1, <1>2, <1>3 DEF PanicNeedsInterrupt

\* The listener takes an event.
LEMMA EventTaken ==
  ASSUME EventInv, NEW k \in 1..MaxConsumers, Look(k), crashed = "no" PROVE EventInv'
<1> USE DEF EventInv
<1>0. UNCHANGED <<consumers, several, cc, closed, join, cutOff>> /\ crashed' # "closed"
  BY Zenon DEF Look, subVars, joinVars
<1>1. CASE crashed' = "map"
  <2>1. UNCHANGED <<events, lis, event>>
    BY Zenon, <1>1 DEF Look
  <2> QED
    BY Zenon, <1>0, <2>1, EventQuiet DEF Gone
<1>2. CASE events' = [events EXCEPT ![k] = Tail(events[k])]
  <2>0. /\ DOMAIN events' = 1..MaxConsumers /\ events[k] # <<>>
        /\ \A i \in 1..MaxConsumers : i # k => events'[i] = events[i]
    BY Zenon, <1>2 DEF Look
  <2>1. /\ DOMAIN cc' = Join /\ consumers' \in Nat
        /\ \A i \in closed' : i \in Join /\ join'[i] = "done"
    BY Zenon, <1>0
  <2> SUFFICES ASSUME several = "no" PROVE (OneQueue /\ LastWord /\ Held /\ LeftLast /\ PanicNeedsInterrupt)'
    BY Zenon, <1>0, <2>0, <2>1
  <2>2. k = 1 /\ Queue \in Seq(Event) /\ Queue # <<>> /\ Queue' = Tail(Queue) /\ OneQueue'
    <3>1. k = 1
      BY <2>0, CcQueueAssumption DEF OneQueue
    <3>2. \A i \in 1..MaxConsumers : i > 1 => i # 1
      BY CcQueueAssumption
    <3>3. OneQueue'
      BY Zenon, <1>0, <2>0, <3>1, <3>2 DEF OneQueue
    <3> QED
      BY Zenon, <1>2, <2>0, <3>1, <3>3 DEF Queue, LastWord
  <2>3. /\ Queue' \in Seq(Event) /\ Len(Queue) \in Nat \ {0} /\ Len(Queue') = Len(Queue) - 1
        /\ \A m \in 1..Len(Queue') : m + 1 \in 1..Len(Queue) /\ Queue'[m] = Queue[m + 1]
        /\ Head(Queue) = Queue[1] /\ Head(Queue) \in Event
    BY Zenon, <2>2, TailEvent
  <2>4. LastWord'
    <3>1. \A j \in Join : join'[j] \in {"no", "join"} => cc'[j] = "none"
      BY Zenon, <1>0 DEF LastWord
    <3>2. ASSUME NEW m \in 1..Len(Queue')
          PROVE  /\ cc'[Queue'[m].attempt] # "none"
                 /\ Queue'[m].name = "leaving" =>
                      /\ cc'[Queue'[m].attempt] = "left"
                      /\ \A n \in 1..Len(Queue') : n > m => Queue'[n].attempt # Queue'[m].attempt
      <4>1. m + 1 \in 1..Len(Queue) /\ Queue'[m] = Queue[m + 1]
        BY Zenon, <2>3
      <4>2. cc[Queue[m + 1].attempt] # "none"
        BY Zenon, <4>1 DEF LastWord
      <4>3. ASSUME Queue[m + 1].name = "leaving"
            PROVE  /\ cc[Queue[m + 1].attempt] = "left"
                   /\ \A n \in 1..Len(Queue') : n > m => Queue'[n].attempt # Queue[m + 1].attempt
        <5>1. /\ cc[Queue[m + 1].attempt] = "left"
              /\ \A n \in 1..Len(Queue) : n > m + 1 => Queue[n].attempt # Queue[m + 1].attempt
          BY Zenon, <4>1, <4>3 DEF LastWord
        <5>2. \A n \in 1..Len(Queue') : n > m => n + 1 > m + 1 /\ n + 1 \in 1..Len(Queue) /\ Queue'[n] = Queue[n + 1]
          BY <2>3
        <5> QED
          BY <5>1, <5>2
      <4> QED
        BY Zenon, <1>0, <4>1, <4>2, <4>3
    <3> QED
      BY Zenon, <2>3, <3>1, <3>2 DEF LastWord
  <2>5. \A j : Pending(j)' => Pending(j)
    BY Zenon, <2>3 DEF Pending
  <2>6. Pending(Head(Queue).attempt)
    BY <2>3 DEF Pending
  <2>7. UNCHANGED <<lis, event>> \/ (lis' = "send" /\ event' = Head(Queue))
    BY Zenon, <1>2, <2>2, <1>0 DEF Look, Queue
  <2>8. Held'
    <3>1. CASE UNCHANGED <<lis, event>>
      BY Zenon, <1>0, <2>5, <3>1 DEF Held
    <3>2. CASE lis' = "send" /\ event' = Head(Queue)
      <4>1. cc[Queue[1].attempt] # "none" /\ 1 \in 1..Len(Queue)
        BY <2>3 DEF LastWord
      <4>2. ASSUME Queue[1].name = "leaving"
            PROVE  /\ cc[Queue[1].attempt] = "left"
                   /\ \A m \in 1..Len(Queue') : Queue'[m].attempt # Queue[1].attempt
        <5>1. /\ cc[Queue[1].attempt] = "left"
              /\ \A n \in 1..Len(Queue) : n > 1 => Queue[n].attempt # Queue[1].attempt
          BY Zenon, <4>1, <4>2 DEF LastWord
        <5>2. \A m \in 1..Len(Queue') : Queue'[m].attempt # Queue[1].attempt
          BY <2>3, <5>1
        <5> QED
          BY Zenon, <5>1, <5>2
      <4> QED
        BY Zenon, <1>0, <2>3, <3>2, <4>1, <4>2 DEF Held, Pending
    <3> QED
      BY Zenon, <2>7, <3>1, <3>2
  <2>9. LeftLast'
    BY <1>0, <2>5, <2>6, <2>7 DEF LeftLast, Gone
  <2> QED
    BY Zenon, <1>0, <2>2, <2>4, <2>8, <2>9 DEF PanicNeedsInterrupt
<1> QED
  BY Zenon, <1>1, <1>2 DEF Look

\* A joinQueue receives the event that the listener has.
LEMMA EventReceived ==
  ASSUME EventInv, JoinInv, NEW j \in Join, Receive(j), crashed = "no" PROVE EventInv'
<1> USE DEF EventInv
<1>1. /\ join[j] = "select" /\ lis = "send" /\ event.attempt = j /\ lis' = "read"
      /\ UNCHANGED <<consumers, several, events, cc, closed, cutOff, crashed>>
      /\ UNCHANGED join \/ (event.name # "bridged" /\ join' = [join EXCEPT ![j] = "leave"])
  BY Zenon DEF Receive, To, envVars, subVars, histVars
<1>2. /\ \A i \in Join \ {j} : join'[i] = join[i]
      /\ join'[j] \in {"select", "leave"}
      /\ \A i \in closed : i # j
  BY Zenon, <1>1 DEF JoinInv, JoinTypeOK
<1>3. \A i \in closed' : i \in Join /\ join'[i] = "done"
  BY Zenon, <1>1, <1>2
<1> SUFFICES ASSUME several = "no" PROVE (OneQueue /\ LastWord /\ Held /\ LeftLast /\ PanicNeedsInterrupt)'
  BY Zenon, <1>1, <1>3
<1>4. Queue' = Queue /\ OneQueue' /\ \A i : Pending(i)' = Pending(i)
  BY Zenon, <1>1 DEF Queue, OneQueue, Pending
<1>5. LastWord'
  BY <1>1, <1>2, <1>4 DEF LastWord
<1>6. Held'
  BY Zenon, <1>1 DEF Held
<1>7. join'[j] = "leave" => cc[j] = "left" /\ ~Pending(j)
  BY Zenon, <1>1 DEF Held, Event
<1>8. LeftLast'
  BY <1>1, <1>2, <1>4, <1>7 DEF LeftLast, Gone
<1> QED
  BY Zenon, <1>1, <1>4, <1>5, <1>6, <1>8 DEF PanicNeedsInterrupt

\* The call centre makes an attempt, or does not.
LEMMA EventJoined ==
  ASSUME EventInv, JoinInv, NEW j \in Join, JoinIMToQueue(j), crashed = "no" PROVE EventInv'
<1> USE DEF EventInv
<1>1. /\ join[j] = "join" /\ \E s \in {"none", "waiting", "bridged"} : cc' = [cc EXCEPT ![j] = s]
      /\ \E pc \in {"subscribe", "done"} : join' = [join EXCEPT ![j] = pc]
      /\ UNCHANGED <<consumers, several, events, lis, event, closed, cutOff, crashed>>
  BY Zenon DEF JoinIMToQueue, To, subVars, lisVars, histVars
<1>2. /\ \A i \in Join \ {j} : join'[i] = join[i] /\ cc'[i] = cc[i]
      /\ join'[j] \in {"subscribe", "done"} /\ DOMAIN cc' = Join
      /\ \A i \in closed : i # j
  BY Zenon, <1>1 DEF JoinInv, JoinTypeOK
<1>3. \A i \in closed' : i \in Join /\ join'[i] = "done"
  BY Zenon, <1>1, <1>2
<1> SUFFICES ASSUME several = "no" PROVE (OneQueue /\ LastWord /\ Held /\ LeftLast /\ PanicNeedsInterrupt)'
  BY Zenon, <1>1, <1>2, <1>3
<1>4. Queue' = Queue /\ OneQueue' /\ \A i : Pending(i)' = Pending(i)
  BY Zenon, <1>1 DEF Queue, OneQueue, Pending
<1>5. cc[j] = "none"
  BY Zenon, <1>1 DEF LastWord
<1>6. \A m \in 1..Len(Queue) : Queue[m].attempt \in Join \ {j}
  <2>1. \A m \in 1..Len(Queue) : Queue[m] \in Event
    BY DEF LastWord
  <2>2. \A m \in 1..Len(Queue) : Queue[m].attempt \in Join
    BY Zenon, <2>1 DEF Event
  <2>3. \A m \in 1..Len(Queue) : cc[Queue[m].attempt] # "none"
    BY Zenon DEF LastWord
  <2> QED
    BY Zenon, <1>5, <2>2, <2>3
<1>7. LastWord'
  <2>1. \A i \in Join : join'[i] \in {"no", "join"} => cc'[i] = "none"
    BY Zenon, <1>2 DEF LastWord
  <2>2. \A m \in 1..Len(Queue) : cc'[Queue[m].attempt] = cc[Queue[m].attempt]
    BY Zenon, <1>2, <1>6
  <2>3. ASSUME NEW m \in 1..Len(Queue')
        PROVE  /\ cc'[Queue'[m].attempt] # "none"
               /\ Queue'[m].name = "leaving" =>
                    /\ cc'[Queue'[m].attempt] = "left"
                    /\ \A n \in 1..Len(Queue') : n > m => Queue'[n].attempt # Queue'[m].attempt
    <3>1. m \in 1..Len(Queue) /\ Queue'[m] = Queue[m]
      BY Zenon, <1>4
    <3>2. cc'[Queue[m].attempt] = cc[Queue[m].attempt]
      BY Zenon, <2>2, <3>1
    <3> QED
      BY Zenon, <1>4, <3>1, <3>2 DEF LastWord
  <2>4. Queue' \in Seq(Event)
    BY Zenon, <1>4 DEF LastWord
  <2> QED
    BY Zenon, <2>1, <2>3, <2>4 DEF LastWord
<1>8. Held'
  <2>1. lis = "send" => event.attempt \in Join \ {j}
    BY Zenon, <1>5 DEF Held, Event
  <2> QED
    BY Zenon, <1>1, <1>2, <1>4, <2>1 DEF Held
<1>9. LeftLast'
  BY <1>1, <1>2, <1>4 DEF LeftLast, Gone
<1> QED
  BY Zenon, <1>1, <1>4, <1>7, <1>8, <1>9 DEF PanicNeedsInterrupt

\* Every step keeps the invariant.
LEMMA EventInvNext ==
  ASSUME EventInv, JoinInv, CcNext PROVE EventInv'
<1>0. crashed = "no"
  BY Zenon DEF CcNext
<1>1. ASSUME NEW j \in Join, BridgeAttempt(j) PROVE EventInv'
  <2>1. /\ cc[j] \in {"waiting", "bridged"} /\ cc' = [cc EXCEPT ![j] = "bridged"]
        /\ Publish(j, "bridged") /\ UNCHANGED <<consumers, several, lisVars, joinVars, crashed, cutOff>>
    BY Zenon, <1>1 DEF BridgeAttempt, subVars
  <2> QED
    BY Zenon, <1>0, <2>1, EventPublished, EventUnheard
<1>2. ASSUME NEW j \in Join, EndAttempt(j) PROVE EventInv'
  <2>1. /\ cc[j] \in {"waiting", "bridged"} /\ cc' = [cc EXCEPT ![j] = "left"]
        /\ Publish(j, "leaving") /\ UNCHANGED <<consumers, several, lisVars, joinVars, crashed, cutOff>>
    BY Zenon, <1>2 DEF EndAttempt, subVars
  <2> QED
    BY Zenon, <1>0, <2>1, EventPublished, EventUnheard
<1>3. ASSUME NEW k \in 1..MaxConsumers, Look(k) PROVE EventInv'
  BY Zenon, <1>0, <1>3, EventTaken
<1>4. CASE SendClosed
  <2>1. /\ lis = "send" /\ event.attempt \in closed
        /\ UNCHANGED <<consumers, several, events, cc, closed, lis, event, join, cutOff>>
    BY Zenon, <1>4 DEF SendClosed, envVars, subVars, lisVars, joinVars, histVars
  <2>2. several = "no" => OneQueue' /\ LastWord' /\ Held' /\ LeftLast'
    BY <2>1 DEF EventInv, OneQueue, LastWord, Held, LeftLast, Gone, Pending, Queue
  <2>3. several = "no" => event.attempt \in cutOff
    BY Zenon, <2>1 DEF EventInv, LeftLast, Gone
  <2> QED
    BY Zenon, <2>1, <2>2, <2>3 DEF EventInv, PanicNeedsInterrupt
<1>5. ASSUME NEW j \in Join, NEW d \in Dialog, Begin(j, d) PROVE EventInv'
  <2>1. /\ join[j] = "no" /\ \E pc \in {"join", "done"} : join' = [join EXCEPT ![j] = pc]
        /\ UNCHANGED <<consumers, several, events, cc, lis, event, closed, cutOff, crashed>>
    BY Zenon, <1>5 DEF Begin, To, envVars, subVars, lisVars, histVars
  <2>2. /\ join'[j] \in {"join", "done"} /\ \A i \in Join \ {j} : join'[i] = join[i]
    BY Zenon, <2>1 DEF JoinInv, JoinTypeOK
  <2> QED
    BY Zenon, <1>0, <2>1, <2>2, EventQuiet DEF Gone, EventInv
<1>6. ASSUME NEW j \in Join, JoinIMToQueue(j) PROVE EventInv'
  BY Zenon, <1>0, <1>6, EventJoined
<1>7. ASSUME NEW j \in Join, SubscribeAttempt(j) \/ EnterQueue(j) PROVE EventInv'
  <2>1. /\ join[j] \in {"subscribe", "enter"}
        /\ \E pc \in {"enter", "select"} : join' = [join EXCEPT ![j] = pc]
        /\ UNCHANGED <<consumers, several, events, cc, lis, event, closed, cutOff, crashed>>
    BY Zenon, <1>7 DEF SubscribeAttempt, EnterQueue, To, envVars, subVars, lisVars, histVars
  <2>2. /\ join'[j] \in {"enter", "select"} /\ \A i \in Join \ {j} : join'[i] = join[i]
    BY Zenon, <2>1 DEF JoinInv, JoinTypeOK
  <2> QED
    BY Zenon, <1>0, <2>1, <2>2, EventQuiet DEF Gone, EventInv
<1>8. ASSUME NEW j \in Join, Interrupted(j) PROVE EventInv'
  <2>1. /\ join[j] = "select" /\ join' = [join EXCEPT ![j] = "leave"]
        /\ UNCHANGED <<consumers, several, events, cc, lis, event, closed, cutOff, crashed>>
    BY Zenon, <1>8 DEF Interrupted, To, envVars, subVars, lisVars, histVars
  <2>2. /\ join'[j] = "leave" /\ \A i \in Join \ {j} : join'[i] = join[i]
    BY Zenon, <2>1 DEF JoinInv, JoinTypeOK
  <2>3. j \in cutOff
    BY Zenon, <1>8 DEF Interrupted, JoinInv, JoinTypeOK, JoinsInOrder
  <2> QED
    BY Zenon, <1>0, <2>1, <2>2, <2>3, EventQuiet DEF Gone, EventInv
<1>9. ASSUME NEW j \in Join, Receive(j) PROVE EventInv'
  BY Zenon, <1>0, <1>9, EventReceived
<1>10. ASSUME NEW j \in Join, LeaveQueue(j) \/ UnSubscribeAttempt(j) PROVE EventInv'
  <2>1. /\ join[j] \in {"leave", "unsubscribe"}
        /\ \/ join' = [join EXCEPT ![j] = "unsubscribe"] /\ UNCHANGED closed
           \/ join' = [join EXCEPT ![j] = "done"] /\ closed' = closed \cup {j}
        /\ UNCHANGED <<consumers, several, events, cc, lis, event, cutOff, crashed>>
    BY Zenon, <1>10 DEF LeaveQueue, UnSubscribeAttempt, To, envVars, subVars, lisVars, histVars
  <2>2. /\ \/ join'[j] = "unsubscribe" /\ UNCHANGED closed
           \/ join'[j] = "done" /\ closed' = closed \cup {j}
        /\ \A i \in Join \ {j} : join'[i] = join[i]
    BY Zenon, <2>1 DEF JoinInv, JoinTypeOK
  <2> QED
    BY Zenon, <1>0, <2>1, <2>2, EventQuiet DEF Gone, EventInv
<1>11. ASSUME NEW j \in Join, SuspendJoin(j) PROVE EventInv'
  <2>1. /\ UNCHANGED <<consumers, several, events, cc, lis, event, closed, join, crashed>>
        /\ cutOff' = cutOff \cup {j}
    BY Zenon, <1>11 DEF SuspendJoin, envVars, subVars, lisVars
  <2> QED
    BY Zenon, <1>0, <2>1, EventQuiet DEF Gone, EventInv
<1>12. ASSUME NEW d \in Dialog, ReturnFromQueue(d) PROVE EventInv'
  <2>1. /\ UNCHANGED <<consumers, several, events, cc, lis, event, closed, join, crashed>>
        /\ cutOff' = cutOff \cup {queueReturn[d]}
    BY Zenon, <1>12 DEF ReturnFromQueue, envVars, subVars, lisVars
  <2> QED
    BY Zenon, <1>0, <2>1, EventQuiet DEF Gone, EventInv
<1>13. CASE ConnectionLost \/ Resubscribe
  BY Zenon, <1>0, <1>13, EventLost, EventResubscribed
<1> QED
  BY Zenon, <1>1, <1>2, <1>3, <1>4, <1>5, <1>6, <1>7, <1>8, <1>9, <1>10, <1>11, <1>12, <1>13
     DEF CcNext, CcGoroutines

\* As long as there was one subscription at a time the listener sends on a closed
\* channel only if the joinQueue that closed it (UnSubscribeAttempt,
\* app/cc/client.go) was interrupted, for any number of joins, dialogs and lost
\* connections.
THEOREM PanicsNeedInterrupt == CcSpec => []PanicNeedsInterrupt
<1>1. ASSUME EventInv, UNCHANGED ccVars PROVE EventInv'
  <2>1. UNCHANGED <<consumers, several, events, cc, closed, lis, event, join, cutOff, crashed>>
    BY Zenon, <1>1 DEF ccVars, envVars, subVars, lisVars, joinVars, histVars
  <2>2. several = "no" => OneQueue' /\ LastWord' /\ Held' /\ LeftLast' /\ PanicNeedsInterrupt'
    BY <1>1, <2>1 DEF EventInv, OneQueue, LastWord, Held, LeftLast, Gone, Pending, Queue, PanicNeedsInterrupt
  <2> QED
    BY Zenon, <1>1, <2>1, <2>2 DEF EventInv
<1>2. EventInv => PanicNeedsInterrupt
  BY DEF EventInv, PanicNeedsInterrupt
<1> QED
  BY <1>1, <1>2, EventInvInit, EventInvNext, JoinInvariant, PTL DEF CcSpec

=============================================================================
