----------------------------- MODULE FlowSuspend -----------------------------
(***************************************************************************)
(* runSchema of routes/im/router.go: a schema of an IM dialog runs in      *)
(* Route until the dialog is suspended, which cancels the context of the   *)
(* run; it parks, and goes on in Route when it is resumed.  Functions of   *)
(* the schema run in a Route of their own, nested in the handler of        *)
(* execute, with the same context.                                         *)
(*                                                                         *)
(* The order of the writes of Suspend and Resume is the subject of         *)
(* ImControl; here each is one step.  A handler whose Route has returned   *)
(* is taken to end before the dialog is resumed.                           *)
(***************************************************************************)
EXTENDS Naturals, Sequences

CONSTANTS Program,      \* requests of the schema ("main") and of its functions
          MaxSuspends,  \* bound on suspensions
          None

Functions == DOMAIN Program
Request == UNION {{<<f, k>> : k \in DOMAIN Program[f]} : f \in Functions}
Name(r) == Program[r[1]][r[2]]

\* Requests that wait for the customer, and for something other than the flow.
ForCustomer == {"recvMessage", "interactiveMenu"}
Waits == ForCustomer \cup {"joinQueue"}
Applications == Waits \cup {"app", "break"}

\* A function has no application's name; the schema itself is not called.
ASSUME ProgramAssumption ==
  /\ "main" \in Functions /\ Functions \cap Applications = {}
  /\ \A f \in Functions : Program[f] \in Seq(Applications \cup (Functions \ {"main"}))
  /\ None \notin Functions \X Nat
  /\ MaxSuspends \in Nat

VARIABLES stack,        \* the flows that Route is in, the schema first
          at,           \* where the last of them is
          run,          \* where runSchema is
          interrupted,  \* interrupted request of the schema
          conn,         \* state of the connection
          ctx,          \* the context of the run
          suspends,     \* suspensions so far
          over,         \* history: the schema has come to its end or to a break
          cut,          \* history: request given up last because of the context
          starts        \* history: how often each request was started

vars == <<stack, at, run, interrupted, conn, ctx, suspends, over, cut, starts>>

Frame == [flow: Functions, pos: Nat, cancel: {"no", "yes"}]
Top == stack[Len(stack)]
Below == SubSeq(stack, 1, Len(stack) - 1)
WithTop(f) == Append(Below, f)
Current == <<Top.flow, Top.pos>>

\* The shapes of the state.
TypeOK ==
  /\ stack \in Seq(Frame) /\ stack # <<>> /\ stack[1].flow = "main"
  /\ \A i \in DOMAIN stack : stack[i].pos <= Len(Program[stack[i].flow])
  /\ at \in {"next", "started", "select", "return"}
  /\ run \in {"route", "check", "parked", "ended"}
  /\ interrupted \in Request \cup {None}
  /\ <<conn, ctx>> \in {<<"running", "live">>, <<"suspended", "done">>}
  /\ suspends \in 0..MaxSuspends
  /\ over \in BOOLEAN
  /\ cut \in Request \cup {None}
  /\ starts \in [Request -> Nat]

Started(f) == [flow |-> f, pos |-> 0, cancel |-> "no"]

Init ==
  /\ stack = <<Started("main")>>
  /\ at = "next" /\ run = "route"
  /\ interrupted = None
  /\ conn = "running" /\ ctx = "live"
  /\ suspends = 0
  /\ over = FALSE /\ cut = None
  /\ starts = [r \in Request |-> 0]

-----------------------------------------------------------------------------
(* Route. *)

\* Mutant: the end of the list is not the end of the flow.
EndOfFlowAgain ==
  /\ run = "route" /\ at = "next"
  /\ Top.pos = Len(Program[Top.flow])
  /\ stack' = WithTop([Top EXCEPT !.pos = 0])
  /\ at' = "next"
  /\ over' = (over \/ Len(stack) = 1)
  /\ UNCHANGED <<run, interrupted, conn, ctx, suspends, cut, starts>>

\* At the end of the list the position goes back to the start.
EndOfFlow ==
  /\ run = "route" /\ at = "next"
  /\ Top.pos = Len(Program[Top.flow])
  /\ stack' = WithTop([Top EXCEPT !.pos = 0])
  /\ at' = "return"
  /\ over' = (over \/ Len(stack) = 1)
  /\ UNCHANGED <<run, interrupted, conn, ctx, suspends, cut, starts>>

\* The handler is started before Route looks at the context.
Start ==
  /\ run = "route" /\ at = "next"
  /\ Top.pos < Len(Program[Top.flow])
  /\ stack' = WithTop([Top EXCEPT !.pos = @ + 1])
  /\ at' = "started"
  /\ starts' = [starts EXCEPT ![<<Top.flow, Top.pos + 1>>] = @ + 1]
  /\ cut' = None
  /\ UNCHANGED <<run, interrupted, conn, ctx, suspends, over>>

\* Route waits for the handler.
Block ==
  /\ run = "route" /\ at = "started" /\ ctx = "live"
  /\ Name(Current) \notin Functions
  /\ at' = "select"
  /\ UNCHANGED <<stack, run, interrupted, conn, ctx, suspends, over, cut, starts>>

\* execute runs the function in a Route of its own; the outer one waits.
Execute ==
  /\ run = "route" /\ at = "started" /\ ctx = "live"
  /\ Name(Current) \in Functions
  /\ stack' = Append(stack, Started(Name(Current)))
  /\ at' = "next"
  /\ UNCHANGED <<run, interrupted, conn, ctx, suspends, over, cut, starts>>

\* The handler of an application is done, or what was waited for has come.
HandlerDone ==
  /\ run = "route" /\ at = "select"
  /\ IF Name(Current) = "break"
     THEN /\ stack' = WithTop([Top EXCEPT !.cancel = "yes"])
          /\ at' = "return"
          /\ over' = (over \/ Len(stack) = 1)
     ELSE at' = "next" /\ UNCHANGED <<stack, over>>
  /\ UNCHANGED <<run, interrupted, conn, ctx, suspends, cut, starts>>

\* The context was cancelled before Route came to wait: the handler answers as
\* well, and Route takes the answer ...
AnswerFirst ==
  /\ run = "route" /\ at = "started" /\ ctx = "done"
  /\ Name(Current) \notin {"break"} \cup Functions
  /\ at' = "next"
  /\ cut' = IF Name(Current) \in Waits THEN Current ELSE None
  /\ UNCHANGED <<stack, run, interrupted, conn, ctx, suspends, over, starts>>

\* ... or the end of the context.
DoneFirst ==
  /\ run = "route" /\ at = "started" /\ ctx = "done"
  /\ stack' = <<[stack[1] EXCEPT !.cancel = "yes"]>>
  /\ interrupted' = <<"main", stack[1].pos>>
  /\ cut' = Current
  /\ at' = "return"
  /\ over' = (over \/ Name(Current) = "break")
  /\ UNCHANGED <<run, conn, ctx, suspends, starts>>

\* A Route returns; a function that was cancelled cancels its caller.
Return ==
  /\ run = "route" /\ at = "return"
  /\ IF Len(stack) = 1
     THEN run' = "check" /\ UNCHANGED <<stack, at, over>>
     ELSE LET caller == stack[Len(stack) - 1] IN
          /\ stack' = [Below EXCEPT ![Len(stack) - 1].cancel =
                         IF Top.cancel = "yes" THEN "yes" ELSE caller.cancel]
          /\ at' = IF Top.cancel = "yes" THEN "return" ELSE "next"
          /\ over' = (over \/ (Top.cancel = "yes" /\ Len(stack) = 2))
          /\ UNCHANGED run
  /\ UNCHANGED <<interrupted, conn, ctx, suspends, cut, starts>>

-----------------------------------------------------------------------------
(* The connection. *)

\* Suspend.  Whoever waits in Route is woken by the context, the Route of the
\* schema as well as those of the functions in it.
Suspend ==
  /\ conn = "running" /\ run \in {"route", "check"}
  /\ suspends < MaxSuspends
  /\ suspends' = suspends + 1
  /\ conn' = "suspended" /\ ctx' = "done"
  /\ IF run = "route" /\ (at = "select" \/ Len(stack) > 1)
     THEN /\ stack' = <<[stack[1] EXCEPT !.cancel = "yes"]>>
          /\ interrupted' = <<"main", stack[1].pos>>
          /\ cut' = IF at \in {"started", "select"} THEN Current ELSE None
          /\ at' = "return"
     ELSE UNCHANGED <<stack, interrupted, cut, at>>
  /\ UNCHANGED <<run, over, starts>>

\* Mutant: a schema that is not suspended goes back to Route.
CheckAgain ==
  /\ run = "check"
  /\ run' = IF conn = "suspended" THEN "parked" ELSE "route"
  /\ UNCHANGED <<stack, at, interrupted, conn, ctx, suspends, over, cut, starts>>

Check ==
  /\ run = "check"
  /\ run' = IF conn = "suspended" THEN "parked" ELSE "ended"
  /\ UNCHANGED <<stack, at, interrupted, conn, ctx, suspends, over, cut, starts>>

\* Mutant: nothing is repeated.
RepeatInterruptedNone(pos) == pos

\* Where the schema goes on: at the interrupted request if it waits for the
\* customer, else after it.
RepeatInterrupted(pos) ==
  IF /\ interrupted = <<"main", pos>>
     /\ Name(interrupted) \in ForCustomer
  THEN pos - 1 ELSE pos

Resume ==
  /\ run = "parked" /\ conn = "suspended"
  /\ conn' = "running" /\ ctx' = "live"
  /\ stack' = <<[stack[1] EXCEPT !.cancel = "no", !.pos = RepeatInterrupted(@)]>>
  /\ interrupted' = None
  /\ run' = "route" /\ at' = "next"
  /\ UNCHANGED <<suspends, over, cut, starts>>

-----------------------------------------------------------------------------
Ended == run = "ended" /\ UNCHANGED vars

Route ==
  \/ EndOfFlow \/ Start \/ Block \/ Execute \/ HandlerDone \/ AnswerFirst \/ DoneFirst
  \/ Return \/ Check

Next == Route \/ Suspend \/ Resume \/ Ended

Spec == Init /\ [][Next]_vars

\* Goroutines run, customers answer, and who suspends a schema resumes it.
FairSpec == Spec /\ WF_vars(Route) /\ WF_vars(Resume)

-----------------------------------------------------------------------------
(* Properties. *)

\* After a resume the schema goes on exactly where it was cut off: with the
\* request again if it waits for the customer, else with the one after it.
ResumesInPlace ==
  [][Resume /\ cut # None /\ cut[1] = "main" /\ ~over =>
       stack'[1].pos + 1 = IF Name(cut) \in ForCustomer
                           THEN cut[2] ELSE cut[2] + 1]_vars

\* Every function is called by one request at most.
CalledOnce ==
  \A r, s \in Request : Name(r) = Name(s) /\ Name(r) \in Functions => r = s

\* However often it is suspended, a schema that has not come to its end and
\* calls each of its functions once never starts a request twice, except those
\* that wait for the customer.
NeverTwice ==
  CalledOnce /\ ~over => \A r \in Request :
    Name(r) \notin ForCustomer => starts[r] <= 1

\* A schema that is resumed whenever it is suspended comes to its end.
Ends == <>(run = "ended")

-----------------------------------------------------------------------------
(* What comments of the code say and the code does not do in every case.   *)

\* "нода break у схемі → природний кінець" and "для break/природного кінця ==
\* false — і loop пропускається" (runSchema): a schema that has come to its end
\* or to a break starts nothing more.
EndIsFinal == [][over => starts' = starts]_vars

\* "продовжуємо з ноди після joinQueue" (runSchema): a schema suspended in the
\* queue goes on with the request after joinQueue.
ResumesAfterQueue ==
  [][Resume /\ cut # None /\ Name(cut) = "joinQueue" =>
       stack'[Len(stack')].flow = cut[1] /\ stack'[Len(stack')].pos = cut[2]]_vars

\* "RepeatInterrupted rewinds to the request cut off by a cancelled run if it is
\* one of names": a receive given up because of the context is started again
\* before anything else is.
ReceiveIsRepeated ==
  [][\A r \in Request :
       cut # None /\ Name(cut) = "recvMessage" /\ starts'[r] # starts[r] => r = cut]_vars

=============================================================================
