--------------------------- MODULE ConnectionProofs --------------------------
(***************************************************************************)
(* What is proved of the connections that a flow talks through, for any    *)
(* number of messages, calls, forms and conversations.                     *)
(*                                                                         *)
(* IM: receives get messages in order and none that came before them, and  *)
(* a schema that is alone is heard.  gRPC: which races make the server     *)
(* panic, when a form is refused, and that a bridge waits on a channel     *)
(* that is closed in the end.                                              *)
(***************************************************************************)
EXTENDS ImReceive, GrpcServer, TLAPS

-----------------------------------------------------------------------------
(* Receiving messages (ImReceive). *)

\* The shapes of the state, without the bounds.
Boxes == Seq(Nat)
Results == Nat \cup {None}
Flows == Flow \cup {None}
Places == {"new", "call", "select", "leave", "done"}
HandlerState ==
  [pc : Places, flow : Flows, ctx : {"live", "done"},
   n : Nat, since : Nat, res : Results, box : Boxes]
Took == [msg : Nat, by : Handler, since : Nat]
Sent == [msg : Nat, to : Handler \X Nat]

RecvTypeOK ==
  /\ wait \in (Handler \X Nat) \cup {None}
  /\ h \in [Handler -> HandlerState]
  /\ cur \in [Flow -> Handler \cup {None}]
  /\ "main" \in running
  /\ sending \in Sent \cup {None}
  /\ arrived \in Seq(Kind)
  /\ taken \in Seq(Took)

\* The message the listener holds came after those that were received.
HeldIsNewer ==
  /\ \A i \in 1..Len(taken) : taken[i].msg <= Len(arrived)
  /\ sending # None =>
       /\ sending.msg <= Len(arrived)
       /\ \A i \in 1..Len(taken) : taken[i].msg < sending.msg

\* A channel is not made again: the one in the connection and the one the
\* listener sends on are of the latest call of receive at most, and a message
\* for the receive that is in its select came after that was called.
ChannelsNew ==
  /\ \A x \in Handler : h[x].since <= Len(arrived)
  /\ wait # None => wait[2] <= h[wait[1]].n
  /\ sending # None =>
       /\ sending.to[2] <= h[sending.to[1]].n
       /\ sending.to[2] = h[sending.to[1]].n /\ h[sending.to[1]].pc = "select" =>
            h[sending.to[1]].since < sending.msg

\* The Route of its flow waits for a handler at work that was not left behind.
Working(x) == h[x].pc \in {"call", "select", "leave"}
OneForEachFlow ==
  \A x \in Handler : Working(x) /\ h[x].ctx = "live" => h[x].flow \in Flow /\ cur[h[x].flow] = x

RecvInv ==
  /\ RecvTypeOK /\ HeldIsNewer /\ ChannelsNew /\ InOrder /\ Fresh
  /\ OneForEachFlow /\ Listens

\* Every step keeps the shapes of the state.
LEMMA RecvTypeStep ==
  ASSUME RecvTypeOK, [Next]_vars PROVE RecvTypeOK'
<1>0. {"call", "select", "leave", "done"} \subseteq Places /\ Flow \subseteq Flows /\ None \in Results
  BY DEF Places, Flows, Results
<1>00. \A x \in Handler : h[x] \in HandlerState
  BY Zenon DEF RecvTypeOK
<1>000. /\ h \in [Handler -> HandlerState] /\ arrived \in Seq(Kind) /\ taken \in Seq(Took)
        /\ sending \in Sent \cup {None}
  BY Zenon DEF RecvTypeOK
<1>1. ASSUME NEW k \in Kind, OnMessage(k) PROVE RecvTypeOK'
  <2>1. arrived' \in Seq(Kind) /\ Len(arrived') \in Nat
    BY <1>000, <1>1 DEF OnMessage
  <2>2. sending' \in Sent \cup {None}
    BY <1>1, <2>1 DEF OnMessage, Sent, RecvTypeOK
  <2> QED BY Zenon, <1>1, <2>1, <2>2 DEF OnMessage, RecvTypeOK
<1>2. ASSUME NEW x \in Handler, HandOver(x) PROVE RecvTypeOK'
  <2>1. sending.msg \in Nat /\ sending.msg \in Results /\ h[x].since \in Nat
    BY <1>00, <1>000, <1>2 DEF HandOver, Sent, HandlerState, Results
  <2>2. [h[x] EXCEPT !.pc = "leave", !.res = sending.msg] \in HandlerState
    BY Zenon, <1>0, <1>00, <2>1 DEF HandlerState
  <2>3. h' \in [Handler -> HandlerState]
    BY Zenon, <1>000, <1>2, <2>2 DEF HandOver
  <2>4. [msg |-> sending.msg, by |-> x, since |-> h[x].since] \in Took
    BY <2>1 DEF Took
  <2>5. taken' \in Seq(Took)
    BY <1>000, <1>2, <2>4 DEF HandOver
  <2> QED BY Zenon, <1>2, <2>3, <2>5 DEF HandOver, RecvTypeOK
<1>3. ASSUME NEW f \in Flow, NEW x \in Handler, StartHandler(f, x) PROVE RecvTypeOK'
  <2>1. [h[x] EXCEPT !.pc = "call", !.flow = f] \in HandlerState
    BY Zenon, <1>0, <1>00 DEF HandlerState
  <2>2. h' \in [Handler -> HandlerState]
    BY Zenon, <1>000, <1>3, <2>1 DEF StartHandler
  <2>3. cur' \in [Flow -> Handler \cup {None}]
    BY Zenon, <1>3 DEF StartHandler, RecvTypeOK
  <2> QED BY Zenon, <1>3, <2>2, <2>3 DEF StartHandler, RecvTypeOK
<1>4. ASSUME NEW x \in Handler, Enter(x) PROVE RecvTypeOK'
  <2>1. Len(arrived) \in Nat /\ h[x].n + 1 \in Nat
    BY <1>00, <1>000 DEF HandlerState
  <2>2. /\ [h[x] EXCEPT !.pc = "select", !.n = h[x].n + 1, !.since = Len(arrived)] \in HandlerState
        /\ [h[x] EXCEPT !.pc = "leave", !.n = h[x].n + 1] \in HandlerState
    BY Zenon, <1>0, <1>00, <2>1 DEF HandlerState
  <2>3. h' \in [Handler -> HandlerState]
    BY Zenon, <1>000, <1>4, <2>2 DEF Enter
  <2>4. wait' \in (Handler \X Nat) \cup {None}
    BY <1>4, <2>1 DEF Enter, RecvTypeOK
  <2> QED BY Zenon, <1>4, <2>3, <2>4 DEF Enter, RecvTypeOK
<1>5. ASSUME NEW x \in Handler, GiveUp(x) PROVE RecvTypeOK'
  <2>1. [h[x] EXCEPT !.pc = "leave"] \in HandlerState
    BY <1>0, <1>00 DEF HandlerState
  <2>2. h' \in [Handler -> HandlerState]
    BY Zenon, <1>000, <1>5, <2>1 DEF GiveUp
  <2> QED BY Zenon, <1>5, <2>2 DEF GiveUp, RecvTypeOK
<1>6. ASSUME NEW x \in Handler, Leave(x) PROVE RecvTypeOK'
  <2>1. Box(x) \in Boxes /\ <<>> \in Boxes
    BY <1>00 DEF Box, HandlerState, Boxes, Results
  <2>2. PICK b \in Boxes, pc \in {"call", "done"} :
          h' = [h EXCEPT ![x].pc = pc, ![x].box = b, ![x].res = None]
    BY Zenon, <1>6, <2>1 DEF Leave
  <2>3. [h[x] EXCEPT !.pc = pc, !.box = b, !.res = None] \in HandlerState
    BY Zenon, <1>0, <1>00, <2>2 DEF HandlerState
  <2>4. h' \in [Handler -> HandlerState]
    BY Zenon, <1>000, <2>2, <2>3
  <2>5. cur' \in [Flow -> Handler \cup {None}] /\ "main" \in running'
    BY Zenon, <1>6 DEF Leave, RecvTypeOK
  <2> QED BY Zenon, <1>6, <2>4, <2>5 DEF Leave, RecvTypeOK
<1>7. CASE SuspendDialog
  <2>1. \A s \in HandlerState : [s EXCEPT !.ctx = "done"] \in HandlerState
    BY DEF HandlerState
  <2>2. h' \in [Handler -> HandlerState]
    BY Zenon, <1>00, <1>7, <2>1 DEF SuspendDialog
  <2> QED BY Zenon, <1>7, <2>2 DEF SuspendDialog, RecvTypeOK
<1>8. CASE Resume \/ UNCHANGED vars
  BY Zenon, <1>8 DEF Resume, vars, RecvTypeOK
<1> QED
  BY Zenon, <1>1, <1>2, <1>3, <1>4, <1>5, <1>6, <1>7, <1>8 DEF Next, RecvMessage

\* How each step of a handler changes it, and leaves the others alone.
LEMMA HandlerSteps ==
  ASSUME RecvTypeOK, NEW x \in Handler
  PROVE  /\ HandOver(x) \/ GiveUp(x) =>
              /\ h[x].pc = "select" /\ h'[x].pc = "leave" /\ h'[x].flow = h[x].flow /\ h'[x].ctx = h[x].ctx
              /\ h'[x].n = h[x].n /\ h'[x].since = h[x].since
              /\ \A y \in Handler \ {x} : h'[y] = h[y]
         /\ \A f \in Flow : StartHandler(f, x) =>
              /\ h[x].pc = "new" /\ h'[x].pc = "call" /\ h'[x].flow = f /\ h'[x].ctx = h[x].ctx
              /\ h'[x].n = h[x].n /\ h'[x].since = h[x].since
              /\ \A y \in Handler \ {x} : h'[y] = h[y]
         /\ Enter(x) =>
              /\ h[x].pc = "call" /\ h'[x].flow = h[x].flow /\ h'[x].ctx = h[x].ctx
              /\ h'[x].pc = IF wait = None THEN "select" ELSE "leave"
              /\ h'[x].n = h[x].n + 1 /\ h'[x].since \in {h[x].since, Len(arrived)}
              /\ \A y \in Handler \ {x} : h'[y] = h[y]
         /\ Leave(x) =>
              /\ h[x].pc = "leave" /\ h'[x].flow = h[x].flow /\ h'[x].ctx = h[x].ctx
              /\ (h'[x].pc = "call" /\ cur' = cur) \/ h'[x].pc = "done"
              /\ h'[x].n = h[x].n /\ h'[x].since = h[x].since
              /\ \A y \in Handler \ {x} : h'[y] = h[y]
<1>1. h \in [Handler -> HandlerState] /\ h[x] \in HandlerState
  BY Zenon DEF RecvTypeOK
<1>2. ASSUME NEW b, NEW pc, h' = [h EXCEPT ![x].pc = pc, ![x].box = b, ![x].res = None]
      PROVE  /\ h'[x].pc = pc /\ h'[x].flow = h[x].flow /\ h'[x].ctx = h[x].ctx
             /\ h'[x].n = h[x].n /\ h'[x].since = h[x].since
             /\ \A y \in Handler \ {x} : h'[y] = h[y]
  BY <1>1, <1>2 DEF HandlerState
<1>3. Leave(x) =>
        /\ h[x].pc = "leave" /\ h'[x].flow = h[x].flow /\ h'[x].ctx = h[x].ctx
        /\ (h'[x].pc = "call" /\ cur' = cur) \/ h'[x].pc = "done"
        /\ h'[x].n = h[x].n /\ h'[x].since = h[x].since
        /\ \A y \in Handler \ {x} : h'[y] = h[y]
  <2> SUFFICES ASSUME Leave(x)
               PROVE  /\ h[x].pc = "leave" /\ h'[x].flow = h[x].flow /\ h'[x].ctx = h[x].ctx
                      /\ (h'[x].pc = "call" /\ cur' = cur) \/ h'[x].pc = "done"
                      /\ h'[x].n = h[x].n /\ h'[x].since = h[x].since
                      /\ \A y \in Handler \ {x} : h'[y] = h[y]
    BY Zenon
  <2>1. PICK b, pc : /\ h' = [h EXCEPT ![x].pc = pc, ![x].box = b, ![x].res = None]
                     /\ (pc = "call" /\ cur' = cur) \/ pc = "done"
    BY Zenon DEF Leave
  <2>2. h[x].pc = "leave"
    BY Zenon DEF Leave
  <2>3. /\ h'[x].pc = pc /\ h'[x].flow = h[x].flow /\ h'[x].ctx = h[x].ctx
        /\ h'[x].n = h[x].n /\ h'[x].since = h[x].since
        /\ \A y \in Handler \ {x} : h'[y] = h[y]
    BY Zenon, <1>2, <2>1
  <2> QED BY Zenon, <2>1, <2>2, <2>3
<1>4. HandOver(x) \/ GiveUp(x) =>
        /\ h[x].pc = "select" /\ h'[x].pc = "leave" /\ h'[x].flow = h[x].flow /\ h'[x].ctx = h[x].ctx
        /\ h'[x].n = h[x].n /\ h'[x].since = h[x].since
        /\ \A y \in Handler \ {x} : h'[y] = h[y]
  BY <1>1 DEF HandOver, GiveUp, HandlerState
<1>5. \A f \in Flow : StartHandler(f, x) =>
        /\ h[x].pc = "new" /\ h'[x].pc = "call" /\ h'[x].flow = f /\ h'[x].ctx = h[x].ctx
        /\ h'[x].n = h[x].n /\ h'[x].since = h[x].since
        /\ \A y \in Handler \ {x} : h'[y] = h[y]
  BY <1>1 DEF StartHandler, IsNew, HandlerState
<1>6. Enter(x) =>
        /\ h[x].pc = "call" /\ h'[x].flow = h[x].flow /\ h'[x].ctx = h[x].ctx
        /\ h'[x].pc = IF wait = None THEN "select" ELSE "leave"
        /\ h'[x].n = h[x].n + 1 /\ h'[x].since \in {h[x].since, Len(arrived)}
        /\ \A y \in Handler \ {x} : h'[y] = h[y]
  BY <1>1 DEF Enter, HandlerState
<1> QED BY Zenon, <1>3, <1>4, <1>5, <1>6

\* Only Enter begins a call of receive, and a suspension only cancels them.
LEMMA CallsOfReceive ==
  ASSUME RecvTypeOK, [Next]_vars
  PROVE  \A x \in Handler :
           \/ /\ h'[x].n = h[x].n /\ h'[x].since = h[x].since
              /\ h'[x].pc = "select" => h[x].pc = "select"
           \/ /\ h'[x].n = h[x].n + 1 /\ h'[x].since \in {h[x].since, Len(arrived)}
              /\ sending' = sending /\ arrived' = arrived
<1>1. ASSUME NEW x \in Handler, HandOver(x) \/ GiveUp(x) \/ Leave(x) \/ (\E f \in Flow : StartHandler(f, x))
      PROVE  \A y \in Handler : /\ h'[y].n = h[y].n /\ h'[y].since = h[y].since
                                /\ h'[y].pc = "select" => h[y].pc = "select"
  BY Zenon, <1>1, HandlerSteps
<1>2. ASSUME NEW x \in Handler, Enter(x)
      PROVE  /\ sending' = sending /\ arrived' = arrived
             /\ h'[x].n = h[x].n + 1 /\ h'[x].since \in {h[x].since, Len(arrived)}
             /\ \A y \in Handler \ {x} : h'[y] = h[y]
  BY Zenon, <1>2, HandlerSteps DEF Enter
<1>3. CASE SuspendDialog
  <2>1. \A x \in Handler : h[x] \in HandlerState
    BY Zenon DEF RecvTypeOK
  <2>2. \A x \in Handler : h'[x].n = h[x].n /\ h'[x].since = h[x].since /\ h'[x].pc = h[x].pc
    BY <1>3, <2>1 DEF SuspendDialog, HandlerState
  <2> QED BY Zenon, <2>2
<1>4. CASE (\E k \in Kind : OnMessage(k)) \/ Resume \/ UNCHANGED vars
  BY Zenon, <1>4 DEF OnMessage, Resume, vars
<1> QED BY Zenon, <1>1, <1>2, <1>3, <1>4 DEF Next, RecvMessage

\* No channel is made twice.
LEMMA ChannelsStep ==
  ASSUME RecvTypeOK, RecvTypeOK', ChannelsNew, [Next]_vars PROVE ChannelsNew'
<1>0. /\ Len(arrived) \in Nat /\ Len(arrived') \in Nat
      /\ \A x \in Handler : h[x].n \in Nat /\ h[x].since \in Nat /\ h'[x].n \in Nat /\ h'[x].since \in Nat
  <2>1. arrived \in Seq(Kind) /\ arrived' \in Seq(Kind)
    BY Zenon DEF RecvTypeOK
  <2>2. \A x \in Handler : h[x] \in HandlerState /\ h'[x] \in HandlerState
    BY Zenon DEF RecvTypeOK
  <2>3. \A x \in Handler : h[x].n \in Nat /\ h[x].since \in Nat /\ h'[x].n \in Nat /\ h'[x].since \in Nat
    BY <2>2 DEF HandlerState
  <2>4. Len(arrived) \in Nat /\ Len(arrived') \in Nat
    BY <2>1
  <2> QED BY Zenon, <2>3, <2>4
<1>1. \/ arrived' = arrived /\ sending' \in {sending, None}
      \/ /\ Len(arrived') = Len(arrived) + 1 /\ wait' = wait /\ h' = h
         /\ sending' = None \/ (wait # None /\ sending' = [msg |-> Len(arrived'), to |-> wait])
  <2>1. ASSUME NEW k \in Kind, OnMessage(k) PROVE Len(arrived') = Len(arrived) + 1
    <3>1. arrived \in Seq(Kind)
      BY Zenon DEF RecvTypeOK
    <3> QED BY <2>1, <3>1 DEF OnMessage
  <2>2. CASE \E k \in Kind : OnMessage(k)
    BY Zenon, <2>1, <2>2 DEF OnMessage
  <2>3. CASE ~\E k \in Kind : OnMessage(k)
    BY Zenon, <2>3 DEF Next, RecvMessage, HandOver, GiveUp, Leave, StartHandler, Enter, SuspendDialog, Resume, vars
  <2> QED BY <2>2, <2>3
<1>2. wait' \in {wait, None} \/ \E x \in Handler : wait' = <<x, h[x].n + 1>> /\ h'[x].n = h[x].n + 1
  <2>1. CASE \E x \in Handler : Enter(x)
    BY Zenon, <2>1, HandlerSteps DEF Enter
  <2>2. CASE ~\E x \in Handler : Enter(x)
    BY Zenon, <2>2 DEF Next, RecvMessage, OnMessage, HandOver, GiveUp, Leave, StartHandler, SuspendDialog, Resume, vars
  <2> QED BY <2>1, <2>2
<1>3. \A x \in Handler : h'[x].since <= Len(arrived')
  <2>1. Len(arrived) <= Len(arrived') /\ \A x \in Handler : h[x].since <= Len(arrived)
    BY <1>0, <1>1 DEF ChannelsNew
  <2>2. \A x \in Handler : h'[x].since \in {h[x].since, Len(arrived)}
    BY Zenon, CallsOfReceive
  <2> QED BY <1>0, <2>1, <2>2
<1>4. wait' # None => wait'[2] <= h'[wait'[1]].n
  <2> SUFFICES ASSUME wait' # None PROVE wait'[2] <= h'[wait'[1]].n
    OBVIOUS
  <2>1. CASE wait' = wait
    <3>1. wait[1] \in Handler /\ wait[2] \in Nat /\ wait[2] <= h[wait[1]].n
      BY <2>1 DEF ChannelsNew, RecvTypeOK
    <3>2. h'[wait[1]].n \in {h[wait[1]].n, h[wait[1]].n + 1}
      BY Zenon, <3>1, CallsOfReceive
    <3> QED BY <1>0, <2>1, <3>1, <3>2
  <2>2. CASE \E x \in Handler : wait' = <<x, h[x].n + 1>> /\ h'[x].n = h[x].n + 1
    BY <1>0, <2>2
  <2> QED BY Zenon, <1>2, <2>1, <2>2
<1>5. ASSUME sending' # None, sending' = sending
      PROVE  /\ sending.to[2] <= h'[sending.to[1]].n
             /\ sending.to[2] = h'[sending.to[1]].n /\ h'[sending.to[1]].pc = "select" =>
                  h'[sending.to[1]].since < sending.msg
  <2>1. sending.to[1] \in Handler /\ sending.to[2] \in Nat
    BY <1>5 DEF RecvTypeOK, Sent
  <2> DEFINE x == sending.to[1]
  <2>2. /\ sending.to[2] <= h[x].n
        /\ sending.to[2] = h[x].n /\ h[x].pc = "select" => h[x].since < sending.msg
    BY Zenon, <1>5 DEF ChannelsNew
  <2> HIDE DEF x
  <2>3. \/ h'[x].n = h[x].n /\ h'[x].since = h[x].since /\ (h'[x].pc = "select" => h[x].pc = "select")
        \/ h'[x].n = h[x].n + 1
    BY Zenon, <2>1, CallsOfReceive DEF x
  <2>4. x \in Handler /\ h[x].n \in Nat /\ x = sending.to[1]
    BY Zenon, <1>0, <2>1 DEF x
  <2>5. CASE h'[x].n = h[x].n /\ h'[x].since = h[x].since /\ (h'[x].pc = "select" => h[x].pc = "select")
    BY Zenon, <2>2, <2>4, <2>5
  <2>6. CASE h'[x].n = h[x].n + 1
    <3>1. sending.to[2] <= h[x].n + 1 /\ sending.to[2] # h[x].n + 1
      BY <2>1, <2>2, <2>4
    <3> QED BY Zenon, <2>4, <2>6, <3>1
  <2> QED BY <2>3, <2>5, <2>6
<1>6. ASSUME sending' # None, wait # None, sending' = [msg |-> Len(arrived'), to |-> wait],
             h' = h, Len(arrived') = Len(arrived) + 1
      PROVE  /\ sending'.to[2] <= h'[sending'.to[1]].n
             /\ h'[sending'.to[1]].since < sending'.msg
  <2>1. sending'.to = wait /\ sending'.msg = Len(arrived')
    BY Zenon, <1>6
  <2>2. wait[1] \in Handler /\ wait[2] <= h[wait[1]].n /\ h[wait[1]].since <= Len(arrived)
    BY <1>6 DEF ChannelsNew, RecvTypeOK
  <2>3. h[wait[1]].since < Len(arrived')
    BY <1>0, <1>6, <2>2
  <2> QED BY Zenon, <1>6, <2>1, <2>2, <2>3
<1> QED
  BY Zenon, <1>1, <1>3, <1>4, <1>5, <1>6 DEF ChannelsNew

\* Messages are received in order, after the receive was called.
LEMMA TakenStep ==
  ASSUME RecvTypeOK, RecvTypeOK', ChannelsNew, HeldIsNewer, InOrder, Fresh, [Next]_vars
  PROVE  HeldIsNewer' /\ InOrder' /\ Fresh'
<1>0. arrived \in Seq(Kind) /\ taken \in Seq(Took) /\ taken' \in Seq(Took)
  BY Zenon DEF RecvTypeOK
<1>00. /\ Len(arrived) \in Nat /\ Len(taken) \in Nat /\ DOMAIN taken = 1..Len(taken)
       /\ DOMAIN taken' = 1..Len(taken')
       /\ \A i \in 1..Len(taken) : taken[i].msg \in Nat
  <2>1. Len(arrived) \in Nat /\ Len(taken) \in Nat /\ DOMAIN taken = 1..Len(taken)
        /\ DOMAIN taken' = 1..Len(taken') /\ \A i \in 1..Len(taken) : taken[i] \in Took
    BY <1>0
  <2> QED BY <2>1 DEF Took
<1>1. ASSUME NEW k \in Kind, OnMessage(k) PROVE HeldIsNewer' /\ InOrder' /\ Fresh'
  <2>1. /\ Len(arrived') = Len(arrived) + 1 /\ taken' = taken
        /\ sending' = None \/ sending' = [msg |-> Len(arrived) + 1, to |-> wait]
    BY <1>0, <1>1 DEF OnMessage
  <2>2. \A i \in 1..Len(taken) : taken[i].msg <= Len(arrived) + 1 /\ taken[i].msg < Len(arrived) + 1
    BY <1>00 DEF HeldIsNewer
  <2>3. sending' # None => sending'.msg = Len(arrived) + 1 /\ sending'.msg <= Len(arrived')
    BY <1>00, <2>1
  <2>4. HeldIsNewer'
    BY Zenon, <2>1, <2>2, <2>3 DEF HeldIsNewer
  <2> QED BY Zenon, <2>1, <2>4 DEF InOrder, Fresh
<1>2. ASSUME NEW x \in Handler, HandOver(x) PROVE HeldIsNewer' /\ InOrder' /\ Fresh'
  <2> DEFINE m == [msg |-> sending.msg, by |-> x, since |-> h[x].since]
             N == Len(taken)
  <2>1. /\ sending # None /\ sending.to = <<x, h[x].n>> /\ h[x].pc = "select"
        /\ taken' = Append(taken, m) /\ sending' = None /\ arrived' = arrived
    BY Zenon, <1>2 DEF HandOver
  <2>2. sending.msg \in Nat /\ h[x].since \in Nat
    <3>1. h[x] \in HandlerState /\ sending \in Sent
      BY Zenon, <2>1 DEF RecvTypeOK
    <3> QED BY <3>1 DEF HandlerState, Sent
  <2>3. m \in Took /\ m.msg = sending.msg /\ m.since = h[x].since
    BY <2>2 DEF Took
  <2>4. h[x].since < sending.msg
    BY <2>1 DEF ChannelsNew
  <2> HIDE DEF m
  <2>5. /\ Len(taken') = N + 1 /\ taken'[N + 1] = m
        /\ \A i \in 1..N : taken'[i] = taken[i]
    BY <1>0, <2>1, <2>3
  <2>6. /\ sending.msg <= Len(arrived) /\ \A i \in 1..N : taken[i].msg < sending.msg
    BY Zenon, <2>1 DEF HeldIsNewer
  <2>7. \A i \in 1..(N + 1) : i \in 1..N \/ i = N + 1
    BY <1>00
  <2>8. HeldIsNewer'
    BY Zenon, <2>1, <2>3, <2>5, <2>6, <2>7 DEF HeldIsNewer
  <2>9. ASSUME NEW i \in 1..(N + 1), NEW j \in 1..(N + 1), i < j PROVE taken'[i].msg < taken'[j].msg
    <3>1. i \in 1..N
      BY <1>00, <2>9
    <3>2. CASE j \in 1..N
      BY Zenon, <1>00, <2>5, <2>9, <3>1, <3>2 DEF InOrder
    <3>3. CASE j = N + 1
      BY Zenon, <2>3, <2>5, <2>6, <3>1, <3>3
    <3> QED BY <2>7, <3>2, <3>3
  <2>10. ASSUME NEW i \in 1..(N + 1) PROVE taken'[i].msg > taken'[i].since
    <3>1. CASE i \in 1..N
      BY Zenon, <1>00, <2>5, <3>1 DEF Fresh
    <3>2. CASE i = N + 1
      BY <2>2, <2>3, <2>4, <2>5, <3>2
    <3> QED BY <2>7, <3>1, <3>2
  <2> QED BY Zenon, <1>00, <2>5, <2>8, <2>9, <2>10 DEF InOrder, Fresh
<1>3. CASE UNCHANGED <<arrived, taken, sending>>
  BY Zenon, <1>3 DEF HeldIsNewer, InOrder, Fresh
<1>4. CASE ~(\E k \in Kind : OnMessage(k)) /\ ~(\E x \in Handler : HandOver(x))
  <2>1. UNCHANGED <<arrived, taken, sending>>
    BY Zenon, <1>4 DEF Next, RecvMessage, GiveUp, Leave, StartHandler, Enter, SuspendDialog, Resume, vars
  <2> QED BY <1>3, <2>1
<1> QED BY Zenon, <1>1, <1>2, <1>4

\* An intruder remains one, when flows stay the same and no context comes back.
LEMMA IntruderStays ==
  ASSUME \A y \in Handler : h[y].pc # "new" =>
           /\ h'[y].pc # "new" /\ h'[y].flow = h[y].flow
           /\ h[y].ctx = "done" => h'[y].ctx = "done",
         NEW x \in Handler, h[x].pc # "new", Intruder(x)
  PROVE  Intruder(x)'
BY Zenon DEF Intruder

\* Route waits for its handler, and only an intruder takes its place.
LEMMA ListensStep ==
  ASSUME RecvTypeOK, OneForEachFlow, Listens, [Next]_vars
  PROVE  OneForEachFlow' /\ Listens'
<1>1. CASE UNCHANGED <<h, cur, wait>>
  BY Zenon, <1>1 DEF OneForEachFlow, Listens, Intruder, Working
<1>2. CASE (\E k \in Kind : OnMessage(k)) \/ Resume \/ UNCHANGED vars
  BY Zenon, <1>1, <1>2 DEF OnMessage, Resume, vars
<1>3. CASE SuspendDialog
  <2>1. ASSUME NEW x \in Handler, h'[x].pc # "new" PROVE h'[x].ctx = "done"
    <3>1. h'[x] = IF h[x].pc = "new" THEN h[x] ELSE [h[x] EXCEPT !.ctx = "done"]
      BY Zenon, <1>3 DEF SuspendDialog
    <3>2. h[x] \in HandlerState
      BY Zenon DEF RecvTypeOK
    <3> QED BY <2>1, <3>1, <3>2 DEF HandlerState
  <2> QED BY Zenon, <2>1 DEF OneForEachFlow, Listens, Working
<1>4. ASSUME NEW x \in Handler, HandOver(x) \/ GiveUp(x) PROVE OneForEachFlow' /\ Listens'
  <2>1. UNCHANGED <<cur, wait>>
    BY Zenon, <1>4 DEF HandOver, GiveUp
  <2>2. /\ h[x].pc = "select" /\ h'[x].pc = "leave" /\ h'[x].flow = h[x].flow /\ h'[x].ctx = h[x].ctx
        /\ \A y \in Handler \ {x} : h'[y] = h[y]
    BY Zenon, <1>4, HandlerSteps
  <2>3. OneForEachFlow'
    <3>1. \A y \in Handler : Working(y)' => Working(y) /\ h'[y].flow = h[y].flow /\ h'[y].ctx = h[y].ctx
      BY Zenon, <2>2 DEF Working
    <3> QED BY Zenon, <2>1, <3>1 DEF OneForEachFlow
  <2>4. Listens'
    BY Zenon, <2>1, <2>2, IntruderStays DEF Listens
  <2> QED BY <2>3, <2>4
<1>5. ASSUME NEW f \in Flow, NEW x \in Handler, StartHandler(f, x) PROVE OneForEachFlow' /\ Listens'
  <2>1. cur[f] = None /\ UNCHANGED wait /\ cur' = [cur EXCEPT ![f] = x]
    BY Zenon, <1>5 DEF StartHandler
  <2>2. /\ h[x].pc = "new" /\ h'[x].pc = "call" /\ h'[x].flow = f
        /\ \A y \in Handler \ {x} : h'[y] = h[y]
    BY Zenon, <1>5, HandlerSteps
  <2>3. cur'[f] = x /\ \A g \in Flow \ {f} : cur'[g] = cur[g]
    BY <2>1 DEF RecvTypeOK
  <2>4. OneForEachFlow'
    <3> SUFFICES ASSUME NEW y \in Handler, Working(y)', h'[y].ctx = "live"
                 PROVE  h'[y].flow \in Flow /\ cur'[h'[y].flow] = y
      BY Zenon DEF OneForEachFlow
    <3>1. CASE y = x
      BY Zenon, <2>2, <2>3, <3>1
    <3>2. CASE y # x
      <4>1. h'[y] = h[y] /\ h[y].flow \in Flow /\ cur[h[y].flow] = y
        BY Zenon, <2>2, <3>2 DEF OneForEachFlow, Working
      <4>2. h[y].flow # f
        BY Zenon, <2>1, <4>1, ReceiveAssumption
      <4> QED BY Zenon, <2>3, <4>1, <4>2
    <3> QED BY <3>1, <3>2
  <2>5. Listens'
    BY Zenon, <2>1, <2>2, IntruderStays DEF Listens
  <2> QED BY <2>4, <2>5
<1>6. ASSUME NEW x \in Handler, Enter(x) PROVE OneForEachFlow' /\ Listens'
  <2>1. cur' = cur
    BY Zenon, <1>6 DEF Enter
  <2>2. /\ h[x].pc = "call" /\ h'[x].flow = h[x].flow /\ h'[x].ctx = h[x].ctx /\ h'[x].n = h[x].n + 1
        /\ h'[x].pc = IF wait = None THEN "select" ELSE "leave"
        /\ \A y \in Handler \ {x} : h'[y] = h[y]
    BY Zenon, <1>6, HandlerSteps
  <2>3. wait' = IF wait = None THEN <<x, h[x].n + 1>> ELSE wait
    BY Zenon, <1>6 DEF Enter
  <2>4. OneForEachFlow'
    <3>1. \A y \in Handler : Working(y)' => Working(y) /\ h'[y].flow = h[y].flow /\ h'[y].ctx = h[y].ctx
      BY Zenon, <2>2 DEF Working
    <3> QED BY Zenon, <2>1, <3>1 DEF OneForEachFlow
  <2>5. Listens'
    <3> SUFFICES ASSUME NEW y \in Handler, h'[y].pc = "select", h'[y].ctx = "live"
                 PROVE  wait' = <<y, h'[y].n>> \/ Intruder(y)'
      BY Zenon DEF Listens
    <3>1. CASE y = x
      BY <2>2, <2>3, <3>1
    <3>2. CASE y # x
      <4>1. h'[y] = h[y] /\ (wait = <<y, h[y].n>> \/ Intruder(y))
        BY Zenon, <2>2, <3>2 DEF Listens
      <4>2. CASE wait = <<y, h[y].n>>
        <5>1. wait # None \/ Intruder(y)
          <6>1. CASE h[x].flow = h[y].flow /\ h[x].ctx = "live"
            BY Zenon, <2>2, <3>2, <4>1, <6>1 DEF OneForEachFlow, Working
          <6>2. CASE h[x].ctx # "live"
            <7>1. h[x].ctx = "done"
              BY <6>2 DEF RecvTypeOK, HandlerState
            <7> QED BY Zenon, <2>2, <3>2, <7>1 DEF Intruder
          <6>3. CASE h[x].flow # h[y].flow
            BY Zenon, <2>2, <3>2, <6>3 DEF Intruder
          <6> QED BY <6>1, <6>2, <6>3
        <5>2. wait' = wait \/ Intruder(y)
          BY Zenon, <2>3, <5>1
        <5> QED BY Zenon, <2>2, <4>1, <4>2, <5>2, IntruderStays
      <4>3. CASE Intruder(y)
        BY Zenon, <2>2, <4>1, <4>3, IntruderStays
      <4> QED BY Zenon, <4>1, <4>2, <4>3
    <3> QED BY <3>1, <3>2
  <2> QED BY <2>4, <2>5
<1>7. ASSUME NEW x \in Handler, Leave(x) PROVE OneForEachFlow' /\ Listens'
  <2>1. /\ h[x].pc = "leave" /\ h'[x].flow = h[x].flow /\ h'[x].ctx = h[x].ctx
        /\ (h'[x].pc = "call" /\ cur' = cur) \/ h'[x].pc = "done"
        /\ \A y \in Handler \ {x} : h'[y] = h[y]
    BY Zenon, <1>7, HandlerSteps
  <2>2. cur' = cur \/ cur' = [f \in Flow |-> IF cur[f] = x THEN None ELSE cur[f]]
    BY Zenon, <1>7 DEF Leave
  <2>3. OneForEachFlow'
    <3> SUFFICES ASSUME NEW y \in Handler, Working(y)', h'[y].ctx = "live"
                 PROVE  h'[y].flow \in Flow /\ cur'[h'[y].flow] = y
      BY Zenon DEF OneForEachFlow
    <3>1. h'[y].flow = h[y].flow /\ h[y].flow \in Flow /\ cur[h[y].flow] = y
      BY Zenon, <2>1 DEF OneForEachFlow, Working
    <3>2. cur' = cur \/ y # x
      BY Zenon, <2>1 DEF Working
    <3> QED BY Zenon, <2>2, <3>1, <3>2
  <2>4. Listens'
    <3> SUFFICES ASSUME NEW y \in Handler, h'[y].pc = "select", h'[y].ctx = "live" PROVE Intruder(y)'
      BY Zenon DEF Listens
    <3>1. y # x /\ h'[y] = h[y]
      BY Zenon, <2>1
    <3>2. Intruder(y)
      <4>1. CASE h[x].flow = h[y].flow /\ h[x].ctx = "live"
        BY Zenon, <2>1, <3>1, <4>1 DEF OneForEachFlow, Working
      <4>2. CASE h[x].ctx # "live"
        <5>1. h[x].ctx = "done"
          BY <4>2 DEF RecvTypeOK, HandlerState
        <5> QED BY Zenon, <2>1, <3>1, <5>1 DEF Intruder
      <4>3. CASE h[x].flow # h[y].flow
        BY Zenon, <2>1, <3>1, <4>3 DEF Intruder
      <4> QED BY <4>1, <4>2, <4>3
    <3> QED BY Zenon, <2>1, <3>1, <3>2, IntruderStays
  <2> QED BY <2>3, <2>4
<1> QED BY Zenon, <1>2, <1>3, <1>4, <1>5, <1>6, <1>7 DEF Next, RecvMessage

\* It holds at the start and every step keeps it.
LEMMA RecvInvariant == Spec => []RecvInv
<1>1. Init => RecvInv
  <2> SUFFICES ASSUME Init PROVE RecvInv
    OBVIOUS
  <2>0. <<>> \in Boxes
    BY DEF Boxes
  <2>1. None \in Results /\ None \in Flows /\ "new" \in Places
    BY DEF Results, Flows, Places
  <2>2. PICK b \in Boxes :
          \A x \in Handler : h[x] = [pc |-> "new", flow |-> None, ctx |-> "live", n |-> 0,
                                     since |-> 0, res |-> None, box |-> b]
    BY Zenon, <2>0 DEF Init
  <2>3. \A x \in Handler : h[x] \in HandlerState
    <3> SUFFICES ASSUME NEW x \in Handler PROVE h[x] \in HandlerState
      OBVIOUS
    <3>1. [pc |-> "new", flow |-> None, ctx |-> "live", n |-> 0, since |-> 0, res |-> None, box |-> b]
            \in HandlerState
      BY Zenon, <2>1 DEF HandlerState
    <3> QED BY Zenon, <2>2, <3>1
  <2>4. h \in [Handler -> HandlerState]
    BY Zenon, <2>3 DEF Init
  <2>5. arrived \in Seq(Kind) /\ taken \in Seq(Took) /\ Len(arrived) = 0 /\ DOMAIN taken = {} /\ 1..Len(taken) = {}
    BY DEF Init
  <2>6. RecvTypeOK
    BY Zenon, <2>4, <2>5 DEF Init, RecvTypeOK
  <2>7. HeldIsNewer /\ InOrder /\ Fresh
    BY Zenon, <2>5 DEF Init, HeldIsNewer, InOrder, Fresh
  <2>8. \A x \in Handler : h[x].since <= Len(arrived) /\ ~Working(x) /\ h[x].pc # "select"
    <3> SUFFICES ASSUME NEW x \in Handler PROVE h[x].since <= Len(arrived) /\ ~Working(x) /\ h[x].pc # "select"
      OBVIOUS
    <3>0. h[x] = [pc |-> "new", flow |-> None, ctx |-> "live", n |-> 0, since |-> 0, res |-> None, box |-> b]
      BY Zenon, <2>2
    <3>1. h[x].since = 0 /\ h[x].pc = "new"
      BY <3>0
    <3> QED BY <2>5, <3>1 DEF Working
  <2>9. ChannelsNew
    BY Zenon, <2>8 DEF Init, ChannelsNew
  <2> QED BY Zenon, <2>6, <2>7, <2>8, <2>9 DEF RecvInv, OneForEachFlow, Listens
<1>2. RecvInv /\ [Next]_vars => RecvInv'
  BY Zenon, RecvTypeStep, ChannelsStep, TakenStep, ListensStep DEF RecvInv
<1> QED BY <1>1, <1>2, PTL DEF Spec

\* However receives, triggers, suspensions and the listener interleave,
\* messages are received in the order they came and none twice (receive of
\* connection.go and OnMessage).
THEOREM ReceivedInOrder == Spec => []InOrder
<1>1. RecvInv => InOrder
  BY Zenon DEF RecvInv
<1> QED BY <1>1, RecvInvariant, PTL

\* A receive never gets what the listener still held for one that has gone:
\* every receive makes its own channel (waitMsgChan of connection.go).
THEOREM ReceivedFresh == Spec => []Fresh
<1>1. RecvInv => Fresh
  BY Zenon DEF RecvInv
<1> QED BY <1>1, RecvInvariant, PTL

\* A receive that waits has its channel in the connection (waitMsgChan), unless it
\* lost it to a receive of another flow or to one left behind by a suspension.
THEOREM SchemaListens == Spec => []Listens
<1>1. RecvInv => Listens
  BY Zenon DEF RecvInv
<1> QED BY <1>1, RecvInvariant, PTL

-----------------------------------------------------------------------------
(* Forms. *)

FormTypeOK ==
  /\ ctx \in {"live", "done"} /\ overlapped \in {"no", "yes"}
  /\ formAction \in Nat /\ made \in Nat /\ formAction <= made
  /\ (\A x \in closed : x \in 1..made) /\ sel \in Nat
  /\ act \in [Calls -> Busy \cup {"no", "refused", "wait", "done"}]
  /\ chan \in [Calls -> Nat]

\* Until calls overlap, one at most is at work on the active form, and its
\* channel is open from the call's check to its close.
OneAtWork ==
  /\ \A c, d \in Calls : act[c] \in Busy /\ act[d] \in Busy => c = d
  /\ \A c \in Calls :
       /\ act[c] \in {"send", "blocked", "close"} => formAction \notin closed \cup {0}
       /\ act[c] = "blocked" => chan[c] = formAction
       /\ act[c] = "clear" => formAction # 0
  /\ formPanic = "no"

\* PushForm waits on an open channel as long as nobody has taken the action.
Pushing ==
  /\ push \in {"read", "select"} =>
       /\ formAction \notin closed \cup {0}
       /\ \A c \in Calls : act[c] \notin {"close", "clear"}
  /\ push = "select" => sel = formAction

\* Overlapping calls or not: a channel that is closed, or that PushForm has left
\* behind on a live connection, has a call that is about to clear it.
Clearing ==
  /\ formAction \in closed => \E c \in Calls : act[c] = "clear"
  /\ push = "select" /\ formAction # 0 => sel = formAction
  /\ push \in {"idle", "check"} /\ ctx = "live" /\ formAction # 0 =>
       \E c \in Calls : act[c] \in {"close", "clear"}

FormInv ==
  /\ FormTypeOK
  /\ started \in {"no", "consume"} => route = "no"
  /\ route \in {"no", "load", "next"} => push = "idle"
  /\ push \in {"offer", "make"} => formAction = 0
  /\ Clearing
  /\ overlapped = "no" => OneAtWork /\ Pushing

\* The forms start in the invariant.
LEMMA FormInvInit == FormInit => FormInv
BY DEF FormInit, FormInv, FormTypeOK, OneAtWork, Pushing, Clearing, Busy

\* Every step of the forms keeps the types and where the goroutines may be.
LEMMA FormTypeNext ==
  ASSUME FormTypeOK, FormNext PROVE FormTypeOK'
<1> USE DEF FormTypeOK, Busy, connVars, chanVars, schemaVars, callVars
<1>1. CASE StartProcessing \/ Cancel \/ Consume \/ StartReturns \/ Remove
  BY Zenon, <1>1 DEF StartProcessing, Cancel, Consume, StartReturns, WaitForm, Remove
<1>2. CASE Load \/ RouteEnds \/ NextRequest
  BY Zenon, <1>2 DEF Load, RouteEnds, NextRequest
<1>3. CASE PushRefused \/ NoAction
  BY <1>3 DEF PushRefused, NoAction, Pushed
<1>7. CASE PushBegins \/ Offer \/ Select
  BY Zenon, <1>7 DEF PushBegins, Offer, Select
<1>4. CASE MakeChannel
  BY <1>4 DEF MakeChannel
<1>5. ASSUME NEW c \in Calls, Call(c) \/ Check(c) \/ Clear(c) \/ Return(c)
      PROVE  FormTypeOK'
  <2>1. \E x \in Busy \cup {"no", "refused", "wait", "done"} : act' = [act EXCEPT ![c] = x]
    BY Zenon, <1>5 DEF Call, Check, Clear, Return
  <2>2. act' \in [Calls -> Busy \cup {"no", "refused", "wait", "done"}]
    BY Zenon, <2>1
  <2> QED
    BY <1>5, <2>2 DEF Call, Check, Clear, Return, WaitForm
<1>6. ASSUME NEW c \in Calls, Send(c) \/ Answer(c) PROVE FormTypeOK'
  BY <1>6 DEF Send, Answer, Pushed
<1>8. ASSUME NEW c \in Calls, Close(c) PROVE FormTypeOK'
  <2>1. \A x \in closed' : x \in 1..made
    BY <1>8 DEF Close
  <2> QED
    BY Zenon, <1>8, <2>1 DEF Close
<1> QED
  BY Zenon, <1>1, <1>2, <1>3, <1>4, <1>5, <1>6, <1>7, <1>8 DEF FormNext, FormGoroutines

\* Every step of the forms keeps the invariant.
LEMMA FormInvNext ==
  ASSUME FormInv, FormNext PROVE FormInv'
<1> USE DEF FormInv
<1>t. FormTypeOK'
  BY Zenon, FormTypeNext
<1>n. formPanic = "no"
  BY Zenon DEF FormNext
<1>o. overlapped' = "no" => overlapped = "no"
  BY Zenon DEF FormNext, FormGoroutines, StartProcessing, Cancel, Consume, StartReturns, Remove,
     Load, RouteEnds, NextRequest, PushRefused, PushBegins, Offer, MakeChannel, Select,
     NoAction, Call, Check, Send, Answer, Close, Clear, Return, FormTypeOK
<1> USE DEF Busy, OneAtWork, Pushing, Clearing, connVars, chanVars, schemaVars, callVars
<1>1. CASE StartProcessing \/ Cancel \/ Consume \/ StartReturns \/ Remove
  BY <1>1, <1>t, <1>n, <1>o DEF StartProcessing, Cancel, Consume, StartReturns, WaitForm, Remove, FormTypeOK
<1>2. CASE Load \/ RouteEnds \/ NextRequest
  BY <1>2, <1>t, <1>n, <1>o DEF Load, RouteEnds, NextRequest, FormTypeOK
<1>3. CASE PushRefused \/ PushBegins \/ Offer \/ Select \/ NoAction
  BY <1>3, <1>t, <1>n, <1>o DEF PushRefused, PushBegins, Offer, Select, NoAction, Pushed, FormTypeOK
<1>4. CASE MakeChannel
  BY <1>4, <1>t, <1>n, <1>o DEF MakeChannel, FormTypeOK
<1>5. ASSUME NEW c \in Calls, Call(c) PROVE FormInv'
  BY <1>5, <1>t, <1>n, <1>o DEF Call, FormTypeOK
<1>6. ASSUME NEW c \in Calls, Check(c) PROVE FormInv'
  BY <1>6, <1>t, <1>n, <1>o DEF Check, FormTypeOK
<1>7. ASSUME NEW c \in Calls, Send(c) PROVE FormInv'
  BY <1>7, <1>t, <1>n, <1>o DEF Send, FormTypeOK
<1>8. ASSUME NEW c \in Calls, Answer(c) PROVE FormInv'
  BY <1>8, <1>t, <1>n, <1>o DEF Answer, Pushed, FormTypeOK
<1>9. ASSUME NEW c \in Calls, Close(c) PROVE FormInv'
  BY <1>9, <1>t, <1>n, <1>o DEF Close, FormTypeOK
<1>10. ASSUME NEW c \in Calls, Clear(c) PROVE FormInv'
  BY <1>10, <1>t, <1>n, <1>o DEF Clear, FormTypeOK
<1>11. ASSUME NEW c \in Calls, Return(c) PROVE FormInv'
  BY <1>11, <1>t, <1>n, <1>o DEF Return, WaitForm, FormTypeOK
<1> QED
  BY Zenon, <1>1, <1>2, <1>3, <1>4, <1>5, <1>6, <1>7, <1>8, <1>9, <1>10, <1>11
  DEF FormNext, FormGoroutines

-----------------------------------------------------------------------------
(* Conversations. *)

\* Where a breaker has a target.
Active == {"lock", "cancel", "read", "cause", "check", "close", "clear"}

BridgeTypeOK ==
  /\ entry \in Conv \cup {0}
  /\ chBridge \in [Conv -> Nat] /\ bridges \in [Conv -> Nat] /\ waitsOn \in [Conv -> Nat]
  /\ DOMAIN ended = Conv
  /\ \A c \in Conv : chBridge[c] <= bridges[c] /\ \A x \in ended[c] : x \in 1..bridges[c]

BreakTypeOK ==
  /\ handler \in [Conv -> {"idle", "bridge", "send", "break", "invite", "bridged"}]
  /\ brk \in [Breaker -> Active \cup {"no", "done"}]
  /\ target \in [Breaker -> Conv \cup {0}]
  /\ \A b \in Breaker : brk[b] \in Active => target[b] \in Conv
  /\ DOMAIN conv = Conv
  /\ \A c \in Conv : /\ brk[c] = "no" \/ handler[c] = "break"
                     /\ conv[c] \in {"no", "consume", "next"} => handler[c] = "idle"

\* A breaker that has closed a channel is alone to clear it, and until then the
\* channel stays where it is.
OneClears ==
  /\ \A b \in Breaker : brk[b] = "clear" => chBridge[target[b]] \in ended[target[b]]
  /\ \A b, d \in Breaker : brk[b] = "clear" /\ brk[d] = "clear" /\ target[b] = target[d] => b = d

\* Two breakers between closeIfBreak's check and its end have been seen, and
\* without a second one the channel is open.
SeenTwice ==
  /\ \A b, d \in Breaker :
       /\ brk[b] \in {"close", "clear"} /\ brk[d] \in {"close", "clear"}
       /\ target[b] = target[d] /\ b # d
       => target[b] \in twice
  /\ \A b \in Breaker :
       brk[b] = "close" => target[b] \in twice \/ chBridge[target[b]] \notin ended[target[b]] \cup {0}
  /\ \A c \in Conv :
       chBridge[c] \in ended[c] =>
         c \in twice \/ \E b \in Breaker : brk[b] = "clear" /\ target[b] = c

\* While the invitation is out the channel is open, but for an early break.
Invited ==
  \A c \in Conv : handler[c] = "invite" =>
    c \in early \/ chBridge[c] \notin ended[c] \cup {0}

ChatInv ==
  BridgeTypeOK /\ BreakTypeOK /\ OneClears /\ SeenTwice /\ Invited /\ WaitsOnBridge /\ PanicNeedsTwo

\* The names of the breakers.
LEMMA ConvBreaker == Conv \subseteq Breaker /\ BreakCalls \subseteq Breaker
                     /\ \A c \in Conv : c \in Nat /\ c # 0 /\ c \notin BreakCalls
BY ConversationAssumption DEF Conv, Breaker, BreakCalls

\* Channels are numbered from 1.
LEMMA ChannelNumbers ==
  ASSUME NEW n \in Nat PROVE 0 <= n /\ 0 \notin 1..n
OBVIOUS

\* The conversations start in the invariant.
LEMMA ChatInvInit == ChatInit => ChatInv
BY ConvBreaker DEF ChatInit, ChatInv, BridgeTypeOK, BreakTypeOK, OneClears, SeenTwice, Invited, WaitsOnBridge,
       PanicNeedsTwo, Active

\* Start, Take, Stop, evictions and the return of Route touch neither bridges nor
\* breakers.
LEMMA HandleMoves ==
  ASSUME ChatInv, entry' \in Conv \cup {0}, DOMAIN conv' = Conv,
         \A c \in Conv : conv'[c] \in {"no", "consume", "next"} => handler[c] = "idle",
         UNCHANGED <<bridgeVars, breakVars, chatPanic, early, twice>>
  PROVE  ChatInv'
<1> USE DEF ChatInv, bridgeVars, breakVars
<1>1. BridgeTypeOK' /\ BreakTypeOK'
  BY Zenon DEF BridgeTypeOK, BreakTypeOK
<1>2. OneClears' /\ SeenTwice'
  BY DEF OneClears, SeenTwice
<1>3. Invited' /\ WaitsOnBridge' /\ PanicNeedsTwo'
  BY Zenon DEF Invited, WaitsOnBridge, PanicNeedsTwo
<1> QED
  BY Zenon, <1>1, <1>2, <1>3

\* The handler of a conversation that is not sending a refused message moves,
\* and no channel changes.
LEMMA HandlerMoves ==
  ASSUME ChatInv, NEW c \in Conv, brk[c] = "no",
         handler' \in [Conv -> {"idle", "bridge", "send", "break", "invite", "bridged"}],
         handler'[c] # "invite", \A d \in Conv \ {c} : handler'[d] = handler[d],
         DOMAIN conv' = Conv, \A d \in Conv \ {c} : conv'[d] = conv[d],
         conv'[c] \in {"no", "consume", "next"} => handler'[c] = "idle",
         waitsOn' \in [Conv -> Nat], \A d \in Conv \ {c} : waitsOn'[d] = waitsOn[d],
         handler'[c] = "bridged" =>
           c \in early \/ (waitsOn'[c] # 0 /\ waitsOn'[c] \in ended[c] \cup {chBridge[c]}),
         UNCHANGED <<entry, chBridge, bridges, ended, breakVars, chatPanic, early, twice>>
  PROVE  ChatInv'
<1> USE DEF ChatInv, breakVars
<1>1. BridgeTypeOK'
  BY Zenon DEF BridgeTypeOK
<1>2. BreakTypeOK'
  BY Zenon, ConvBreaker DEF BreakTypeOK
<1>3. OneClears' /\ SeenTwice'
  BY DEF OneClears, SeenTwice
<1>4. Invited'
  BY Zenon DEF Invited
<1>5. WaitsOnBridge'
  BY DEF WaitsOnBridge
<1>6. PanicNeedsTwo'
  BY Zenon DEF PanicNeedsTwo
<1> QED
  BY Zenon, <1>1, <1>2, <1>3, <1>4, <1>5, <1>6

\* The handler returns.
LEMMA HandlerReturns ==
  ASSUME ChatInv, NEW c \in Conv, brk[c] = "no", Handled(c),
         UNCHANGED <<entry, chBridge, bridges, ended, breakVars, chatPanic, early, twice>>
  PROVE  ChatInv'
<1>1. /\ handler' \in [Conv -> {"idle", "bridge", "send", "break", "invite", "bridged"}]
      /\ handler'[c] = "idle" /\ \A d \in Conv \ {c} : handler'[d] = handler[d]
  BY Zenon DEF ChatInv, BreakTypeOK, Handled
<1>2. DOMAIN conv' = Conv /\ \A d \in Conv \ {c} : conv'[d] = conv[d]
  BY Zenon DEF ChatInv, BreakTypeOK, Handled
<1>3. waitsOn' \in [Conv -> Nat] /\ \A d \in Conv \ {c} : waitsOn'[d] = waitsOn[d]
  BY Zenon DEF ChatInv, BridgeTypeOK, Handled
<1> QED
  BY Zenon, <1>1, <1>2, <1>3, HandlerMoves

\* A breaker outside closeIfBreak leaves the others as they are.
LEMMA OutsideClose ==
  ASSUME OneClears, SeenTwice, NEW b \in Breaker,
         brk[b] \notin {"close", "clear"}, brk'[b] \notin {"close", "clear"},
         \A d \in Breaker \ {b} : brk'[d] = brk[d] /\ target'[d] = target[d],
         UNCHANGED <<chBridge, ended, twice>>
  PROVE  OneClears' /\ SeenTwice'
<1>1. OneClears'
  BY DEF OneClears
<1>2. ASSUME NEW d \in Breaker, NEW e \in Breaker, d # e, target'[d] = target'[e],
             brk'[d] \in {"close", "clear"}, brk'[e] \in {"close", "clear"}
      PROVE  target'[d] \in twice
  <2>1. d # b /\ e # b
    BY Zenon, <1>2
  <2> QED
    BY <1>2, <2>1 DEF SeenTwice
<1>3. ASSUME NEW d \in Breaker, brk'[d] = "close"
      PROVE  target'[d] \in twice \/ chBridge[target'[d]] \notin ended[target'[d]] \cup {0}
  BY Zenon, <1>3 DEF SeenTwice
<1>4. ASSUME NEW c \in Conv, chBridge[c] \in ended[c]
      PROVE  c \in twice \/ \E d \in Breaker : brk'[d] = "clear" /\ target'[d] = c
  BY <1>4 DEF SeenTwice
<1> QED
  BY Zenon, <1>1, <1>2, <1>3, <1>4 DEF SeenTwice

\* A breaker moves outside closeIfBreak.
LEMMA BreakerMoves ==
  ASSUME ChatInv, NEW b \in Breaker,
         brk[b] \notin {"close", "clear"}, brk'[b] \notin {"close", "clear"},
         brk' \in [Breaker -> Active \cup {"no", "done"}],
         target' \in [Breaker -> Conv \cup {0}],
         brk'[b] \in Active => target'[b] \in Conv,
         \A d \in Breaker \ {b} : brk'[d] = brk[d] /\ target'[d] = target[d],
         brk[b] # "no" \/ b \notin Conv,
         UNCHANGED <<entry, conv, bridgeVars, chatPanic, early, twice>>
  PROVE  ChatInv'
<1> USE DEF ChatInv, bridgeVars
<1>1. BridgeTypeOK'
  BY Zenon DEF BridgeTypeOK
<1>2. BreakTypeOK'
  BY ConvBreaker DEF BreakTypeOK
<1>3. OneClears' /\ SeenTwice'
  BY Zenon, OutsideClose
<1>4. Invited' /\ WaitsOnBridge' /\ PanicNeedsTwo'
  BY Zenon DEF Invited, WaitsOnBridge, PanicNeedsTwo
<1> QED
  BY Zenon, <1>1, <1>2, <1>3, <1>4

\* A breaker with a target moves on, or is done.
LEMMA BreakerSteps ==
  ASSUME ChatInv, NEW b \in Breaker, brk[b] \in {"lock", "cancel", "read", "cause", "check"},
         \/ UNCHANGED target /\ \E pc \in {"cancel", "cause", "check"} : BrkAt(b, pc)
         \/ Finish(b),
         UNCHANGED <<entry, conv, bridgeVars, chatPanic, early, twice>>
  PROVE  ChatInv'
<1>1. CASE UNCHANGED target /\ \E pc \in {"cancel", "cause", "check"} : BrkAt(b, pc)
  <2>1. PICK pc \in {"cancel", "cause", "check"} : brk' = [brk EXCEPT ![b] = pc]
    BY Zenon, <1>1 DEF BrkAt
  <2>2. /\ brk' \in [Breaker -> Active \cup {"no", "done"}] /\ brk'[b] = pc
        /\ \A d \in Breaker \ {b} : brk'[d] = brk[d]
    BY Zenon, <2>1 DEF ChatInv, BreakTypeOK, Active
  <2>3. target \in [Breaker -> Conv \cup {0}] /\ target[b] \in Conv
    BY Zenon DEF ChatInv, BreakTypeOK, Active
  <2> QED
    BY Zenon, <1>1, <2>2, <2>3, BreakerMoves
<1>2. CASE Finish(b)
  <2>1. /\ brk' \in [Breaker -> Active \cup {"no", "done"}] /\ brk'[b] = "done"
        /\ \A d \in Breaker \ {b} : brk'[d] = brk[d]
    BY Zenon, <1>2 DEF Finish, BrkAt, ChatInv, BreakTypeOK
  <2>2. /\ target' \in [Breaker -> Conv \cup {0}]
        /\ \A d \in Breaker \ {b} : target'[d] = target[d]
    BY Zenon, <1>2 DEF Finish, ChatInv, BreakTypeOK
  <2> QED
    BY Zenon, <2>1, <2>2, BreakerMoves DEF Active
<1> QED
  BY Zenon, <1>1, <1>2

\* A breaker has found a channel to close.
LEMMA FindsBridge ==
  ASSUME ChatInv, NEW b \in Breaker, brk[b] \in {"lock", "check"}, chBridge[target[b]] # 0,
         FindBridge(b),
         UNCHANGED <<entry, conv, bridgeVars, target, chatPanic, early>>
  PROVE  ChatInv'
<1> USE DEF ChatInv, bridgeVars
<1>1. /\ brk' \in [Breaker -> Active \cup {"no", "done"}]
      /\ brk'[b] = "close" /\ \A d \in Breaker \ {b} : brk'[d] = brk[d]
      /\ target[b] \in Conv
  BY Zenon DEF FindBridge, BrkAt, BreakTypeOK, Active
<1>2. /\ \A c \in twice : c \in twice'
      /\ \A d \in Breaker \ {b} :
           target[d] = target[b] /\ brk[d] \in {"close", "clear"} => target[b] \in twice'
  BY Zenon DEF FindBridge
<1>3. BridgeTypeOK'
  BY Zenon DEF BridgeTypeOK
<1>4. BreakTypeOK'
  BY Zenon, <1>1, ConvBreaker DEF BreakTypeOK
<1>5. OneClears'
  BY <1>1 DEF OneClears
<1>6. SeenTwice'
  <2>1. ASSUME NEW d \in Breaker, NEW e \in Breaker, d # e, target[d] = target[e],
               brk'[d] \in {"close", "clear"}, brk'[e] \in {"close", "clear"}
        PROVE  target[d] \in twice'
    BY <1>1, <1>2, <2>1 DEF SeenTwice
  <2>2. ASSUME NEW d \in Breaker, brk'[d] = "close"
        PROVE  target[d] \in twice' \/ chBridge[target[d]] \notin ended[target[d]] \cup {0}
    BY <1>1, <1>2, <2>2 DEF SeenTwice
  <2>3. ASSUME NEW c \in Conv, chBridge[c] \in ended[c]
        PROVE  c \in twice' \/ \E d \in Breaker : brk'[d] = "clear" /\ target[d] = c
    BY <1>1, <1>2, <2>3 DEF SeenTwice
  <2> QED
    BY Zenon, <2>1, <2>2, <2>3 DEF SeenTwice
<1>7. Invited' /\ WaitsOnBridge' /\ PanicNeedsTwo'
  BY Zenon, <1>2 DEF Invited, WaitsOnBridge, PanicNeedsTwo
<1> QED
  BY Zenon, <1>3, <1>4, <1>5, <1>6, <1>7

\* The bridge of a conversation is made.
LEMMA ChatBridge ==
  ASSUME ChatInv, NEW c \in Conv, Bridge(c) PROVE ChatInv'
<1> USE DEF ChatInv
<1>0. brk[c] = "no"
  BY Zenon, ConvBreaker DEF Bridge, BreakTypeOK
<1>1. CASE chBridge[c] # 0
  <2>1. /\ Handled(c)
        /\ UNCHANGED <<entry, chBridge, bridges, ended, breakVars, chatPanic, early, twice>>
    BY Zenon, <1>1 DEF Bridge, seenVars
  <2> QED
    BY Zenon, <1>0, <2>1, HandlerReturns
<1>2. CASE chBridge[c] = 0
  <2>1. /\ bridges' = [bridges EXCEPT ![c] = bridges[c] + 1]
        /\ chBridge' = [chBridge EXCEPT ![c] = bridges[c] + 1]
        /\ handler' = [handler EXCEPT ![c] = "invite"]
        /\ handler[c] = "bridge"
        /\ UNCHANGED <<entry, conv, waitsOn, ended, brk, target, chatPanic, early, twice>>
    BY Zenon, <1>2 DEF Bridge, breakVars, seenVars
  <2>2. bridges[c] \in Nat /\ bridges[c] + 1 \notin ended[c] \cup {0}
    BY DEF BridgeTypeOK
  <2>3. BridgeTypeOK'
    <3>1. chBridge' \in [Conv -> Nat] /\ bridges' \in [Conv -> Nat]
      BY <2>1, <2>2 DEF BridgeTypeOK
    <3>2. \A d \in Conv : bridges[d] <= bridges'[d] /\ chBridge'[d] <= bridges'[d]
      BY <2>1, <2>2 DEF BridgeTypeOK
    <3>3. \A d \in Conv : \A x \in ended[d] : x \in 1..bridges'[d]
      BY <3>1, <3>2 DEF BridgeTypeOK
    <3> QED
      BY Zenon, <2>1, <3>1, <3>2, <3>3 DEF BridgeTypeOK
  <2>4. BreakTypeOK'
    BY Zenon, <1>0, <2>1, ConvBreaker DEF BreakTypeOK
  <2>5. chBridge'[c] = bridges[c] + 1 /\ \A d \in Conv \ {c} : chBridge'[d] = chBridge[d]
    BY Zenon, <2>1 DEF BridgeTypeOK
  <2>6. \A b \in Breaker : brk[b] = "clear" => target[b] \in Conv /\ target[b] # c
    BY <1>2, <2>2 DEF OneClears, BreakTypeOK, BridgeTypeOK, Active
  <2>7. OneClears'
    BY Zenon, <2>1, <2>5, <2>6 DEF OneClears
  <2>8. SeenTwice'
    <3>1. \A b \in Breaker : brk[b] = "close" => target[b] \in Conv
      BY Zenon DEF BreakTypeOK, Active
    <3> QED
      BY <2>1, <2>2, <2>5, <3>1 DEF SeenTwice
  <2>9. Invited'
    <3>1. \A d \in Conv \ {c} : handler'[d] = handler[d]
      BY Zenon, <2>1 DEF BreakTypeOK
    <3> QED
      BY Zenon, <2>1, <2>2, <2>5, <3>1 DEF Invited
  <2>10. WaitsOnBridge'
    <3>1. handler'[c] = "invite" /\ \A d \in Conv \ {c} : handler'[d] = handler[d]
      BY Zenon, <2>1 DEF BreakTypeOK
    <3> QED
      BY Zenon, <2>1, <2>5, <3>1 DEF WaitsOnBridge
  <2>11. PanicNeedsTwo'
    BY Zenon, <2>1 DEF PanicNeedsTwo
  <2> QED
    BY Zenon, <2>3, <2>4, <2>7, <2>8, <2>9, <2>10, <2>11
<1> QED
  BY Zenon, <1>1, <1>2

\* The channel of a bridge is closed, or the process panics.
LEMMA ChatCloseBridge ==
  ASSUME ChatInv, NEW b \in Breaker, CloseBridge(b) PROVE ChatInv'
<1> USE DEF ChatInv
<1> DEFINE c == target[b]
<1>0. brk[b] = "close" /\ c \in Conv
  BY Zenon DEF CloseBridge, BreakTypeOK, Active
<1>1. CASE chBridge[c] \in ended[c] \cup {0}
  <2>1. /\ chatPanic' = "yes"
        /\ UNCHANGED <<entry, conv, bridgeVars, brk, target, early, twice>>
    BY Zenon, <1>1 DEF CloseBridge, stateVars, bridgeVars
  <2>2. BridgeTypeOK' /\ BreakTypeOK'
    BY Zenon, <2>1 DEF BridgeTypeOK, BreakTypeOK, bridgeVars
  <2>3. OneClears' /\ SeenTwice'
    BY Zenon, <2>1 DEF OneClears, SeenTwice, bridgeVars
  <2>4. Invited' /\ WaitsOnBridge'
    BY Zenon, <2>1 DEF Invited, WaitsOnBridge, bridgeVars
  <2>5. PanicNeedsTwo'
    BY Zenon, <1>0, <1>1, <2>1 DEF SeenTwice, PanicNeedsTwo
  <2> QED
    BY Zenon, <2>2, <2>3, <2>4, <2>5
<1>2. CASE chBridge[c] \notin ended[c] \cup {0}
  <2>1. /\ ended' = [ended EXCEPT ![c] = ended[c] \cup {chBridge[c]}]
        /\ early' = IF handler[c] = "invite" THEN early \cup {c} ELSE early
        /\ brk' = [brk EXCEPT ![b] = "clear"]
        /\ UNCHANGED <<entry, conv, handler, chBridge, waitsOn, bridges, target, chatPanic, twice>>
    BY Zenon, <1>2 DEF CloseBridge, BrkAt, stateVars
  <2>2. /\ \A d \in Conv \ {c} : ended'[d] = ended[d]
        /\ ended'[c] = ended[c] \cup {chBridge[c]}
        /\ DOMAIN ended' = Conv
    BY Zenon, <1>0, <2>1 DEF BridgeTypeOK
  <2>3. /\ brk'[b] = "clear" /\ \A d \in Breaker \ {b} : brk'[d] = brk[d]
        /\ brk' \in [Breaker -> Active \cup {"no", "done"}]
    BY Zenon, <2>1 DEF BreakTypeOK, Active
  <2>4. BridgeTypeOK'
    <3>1. chBridge[c] \in 1..bridges[c]
      BY <1>0, <1>2 DEF BridgeTypeOK
    <3> QED
      BY Zenon, <2>1, <2>2, <3>1 DEF BridgeTypeOK
  <2>5. BreakTypeOK'
    BY Zenon, <1>0, <2>1, <2>3, ConvBreaker DEF BreakTypeOK
  <2>6. \A d \in Breaker : brk[d] = "clear" => target[d] # c
    BY Zenon, <1>2 DEF OneClears
  <2>7. OneClears'
    <3>1. \A d \in Breaker : brk[d] = "clear" => target[d] \in Conv
      BY Zenon DEF BreakTypeOK, Active
    <3>2. ASSUME NEW d \in Breaker, brk'[d] = "clear" PROVE chBridge[target[d]] \in ended'[target[d]]
      BY Zenon, <1>0, <2>2, <2>3, <2>6, <3>1, <3>2 DEF OneClears
    <3>3. ASSUME NEW d \in Breaker, NEW e \in Breaker, brk'[d] = "clear", brk'[e] = "clear",
                 target[d] = target[e]
          PROVE  d = e
      BY Zenon, <2>3, <2>6, <3>3 DEF OneClears
    <3> QED
      BY Zenon, <2>1, <3>2, <3>3 DEF OneClears
  <2>8. SeenTwice'
    <3>1. \A d \in Breaker : brk[d] \in {"close", "clear"} => target[d] \in Conv
      BY Zenon DEF BreakTypeOK, Active
    <3>2. ASSUME NEW d \in Breaker, NEW e \in Breaker, d # e, target[d] = target[e],
                 brk'[d] \in {"close", "clear"}, brk'[e] \in {"close", "clear"}
          PROVE  target[d] \in twice
      <4>1. ASSUME NEW x \in Breaker, brk'[x] \in {"close", "clear"} PROVE brk[x] \in {"close", "clear"}
        BY Zenon, <1>0, <2>3, <4>1
      <4> QED BY Zenon, <3>2, <4>1 DEF SeenTwice
    <3>3. ASSUME NEW d \in Breaker, brk'[d] = "close"
          PROVE  target[d] \in twice \/ chBridge[target[d]] \notin ended'[target[d]] \cup {0}
      BY <1>0, <2>2, <2>3, <3>1, <3>3 DEF SeenTwice
    <3>4. ASSUME NEW d \in Conv, chBridge[d] \in ended'[d]
          PROVE  d \in twice \/ \E e \in Breaker : brk'[e] = "clear" /\ target[e] = d
      <4>1. CASE d = c
        BY Zenon, <2>3, <4>1
      <4>2. CASE d # c
        <5>1. chBridge[d] \in ended[d]
          BY Zenon, <2>2, <3>4, <4>2
        <5>2. d \in twice \/ \E e \in Breaker : brk[e] = "clear" /\ target[e] = d
          BY Zenon, <5>1 DEF SeenTwice
        <5> QED
          BY Zenon, <1>0, <2>3, <5>2
      <4> QED
        BY Zenon, <4>1, <4>2
    <3> QED
      BY Zenon, <2>1, <3>2, <3>3, <3>4 DEF SeenTwice
  <2>9. Invited'
    BY <2>1, <2>2 DEF Invited
  <2>10. WaitsOnBridge'
    BY Zenon, <2>1, <2>2 DEF WaitsOnBridge
  <2>11. PanicNeedsTwo'
    BY Zenon, <2>1 DEF PanicNeedsTwo
  <2> QED
    BY Zenon, <2>4, <2>5, <2>7, <2>8, <2>9, <2>10, <2>11
<1> QED
  BY Zenon, <1>1, <1>2

\* A closed channel is taken out of the conversation.
LEMMA ChatClearBridge ==
  ASSUME ChatInv, NEW b \in Breaker, ClearBridge(b) PROVE ChatInv'
<1> USE DEF ChatInv
<1> DEFINE c == target[b]
<1>0. brk[b] = "clear" /\ c \in Conv /\ chBridge[c] \in ended[c]
  BY Zenon DEF ClearBridge, BreakTypeOK, OneClears, Active
<1>1. /\ chBridge' = [chBridge EXCEPT ![c] = 0]
      /\ UNCHANGED <<entry, conv, handler, waitsOn, bridges, ended, chatPanic, early, twice>>
  BY Zenon DEF ClearBridge
<1>2. /\ brk' \in [Breaker -> Active \cup {"no", "done"}]
      /\ target' \in [Breaker -> Conv \cup {0}]
      /\ brk'[b] \in {"cancel", "done"} /\ (brk'[b] = "cancel" => target'[b] = c)
      /\ \A d \in Breaker \ {b} : brk'[d] = brk[d] /\ target'[d] = target[d]
  <2>1. CASE mx[c] = b
    BY <2>1 DEF ClearBridge, BrkAt, BreakTypeOK, Active
  <2>2. CASE mx[c] # b
    BY <2>2 DEF ClearBridge, Finish, BrkAt, BreakTypeOK, Active
  <2> QED
    BY Zenon, <2>1, <2>2
<1>3. /\ chBridge' \in [Conv -> Nat] /\ chBridge'[c] = 0
      /\ \A d \in Conv \ {c} : chBridge'[d] = chBridge[d]
  BY Zenon, <1>0, <1>1 DEF BridgeTypeOK
<1>4. BridgeTypeOK'
  <2>1. bridges[c] \in Nat /\ \A d \in Conv : chBridge[d] <= bridges[d]
    BY Zenon, <1>0 DEF BridgeTypeOK
  <2>2. 0 <= bridges[c]
    BY Zenon, <2>1, ChannelNumbers
  <2>3. \A d \in Conv : chBridge'[d] <= bridges[d]
    BY Zenon, <1>3, <2>1, <2>2
  <2> QED
    BY Zenon, <1>1, <1>3, <2>3 DEF BridgeTypeOK
<1>5. BreakTypeOK'
  BY Zenon, <1>0, <1>1, <1>2, ConvBreaker DEF BreakTypeOK, Active
<1>6. \A d \in Breaker \ {b} : brk[d] = "clear" => target[d] \in Conv /\ target[d] # c
  BY Zenon, <1>0 DEF OneClears, BreakTypeOK, Active
<1>7. OneClears'
  <2>1. ASSUME NEW d \in Breaker, brk'[d] = "clear"
        PROVE  d # b /\ brk[d] = "clear" /\ target'[d] = target[d]
    BY Zenon, <1>2, <2>1
  <2>2. ASSUME NEW d \in Breaker, brk'[d] = "clear" PROVE chBridge'[target'[d]] \in ended[target'[d]]
    BY Zenon, <1>3, <1>6, <2>1, <2>2 DEF OneClears
  <2>3. ASSUME NEW d \in Breaker, NEW e \in Breaker, brk'[d] = "clear", brk'[e] = "clear",
               target'[d] = target'[e]
        PROVE  d = e
    BY Zenon, <2>1, <2>3 DEF OneClears
  <2> QED
    BY Zenon, <1>1, <2>2, <2>3 DEF OneClears
<1>8. 0 \notin ended[c]
  BY Zenon, <1>0, ChannelNumbers DEF BridgeTypeOK
<1>9. SeenTwice'
  <2>1. \A d \in Breaker : brk[d] \in {"close", "clear"} => target[d] \in Conv
    BY Zenon DEF BreakTypeOK, Active
  <2>2. ASSUME NEW d \in Breaker, NEW e \in Breaker, d # e, target'[d] = target'[e],
               brk'[d] \in {"close", "clear"}, brk'[e] \in {"close", "clear"}
        PROVE  target'[d] \in twice
    <3>1. d # b /\ e # b
      BY Zenon, <1>2, <2>2
    <3>2. /\ brk[d] \in {"close", "clear"} /\ brk[e] \in {"close", "clear"}
          /\ target'[d] = target[d] /\ target[d] = target[e]
      BY Zenon, <1>2, <2>2, <3>1
    <3> QED
      BY Zenon, <2>2, <3>2 DEF SeenTwice
  <2>3. ASSUME NEW d \in Breaker, brk'[d] = "close"
        PROVE  target'[d] \in twice \/ chBridge'[target'[d]] \notin ended[target'[d]] \cup {0}
    <3>1. d # b /\ brk[d] = "close" /\ target'[d] = target[d]
      BY Zenon, <1>2, <2>3
    <3>2. CASE target[d] = c
      BY Zenon, <1>0, <3>1, <3>2 DEF SeenTwice
    <3>3. CASE target[d] # c
      BY Zenon, <1>3, <2>1, <3>1, <3>3 DEF SeenTwice
    <3> QED
      BY Zenon, <3>2, <3>3
  <2>4. ASSUME NEW d \in Conv, chBridge'[d] \in ended[d]
        PROVE  d \in twice \/ \E e \in Breaker : brk'[e] = "clear" /\ target'[e] = d
    <3>1. d # c /\ chBridge[d] \in ended[d]
      BY Zenon, <1>3, <1>8, <2>4
    <3>2. d \in twice \/ \E e \in Breaker : brk[e] = "clear" /\ target[e] = d
      BY Zenon, <3>1 DEF SeenTwice
    <3> QED
      BY Zenon, <1>2, <3>1, <3>2
  <2> QED
    BY Zenon, <1>1, <2>2, <2>3, <2>4 DEF SeenTwice
<1>10. Invited'
  BY Zenon, <1>0, <1>1, <1>3 DEF Invited
<1>11. WaitsOnBridge'
  BY Zenon, <1>0, <1>1, <1>3 DEF WaitsOnBridge
<1>12. PanicNeedsTwo'
  BY Zenon, <1>1 DEF PanicNeedsTwo
<1> QED
  BY Zenon, <1>4, <1>5, <1>7, <1>9, <1>10, <1>11, <1>12

\* Every step of the conversations keeps the invariant.
LEMMA ChatInvNext ==
  ASSUME ChatInv, ChatNext PROVE ChatInv'
<1> USE DEF ChatInv
<1>1. ASSUME NEW c \in Conv, Start(c) \/ Take(c) \/ RouteReturns(c) \/ Stop(c)
      PROVE  ChatInv'
  <2>1. UNCHANGED <<bridgeVars, breakVars, chatPanic, early, twice>>
    BY Zenon, <1>1 DEF Start, Take, RouteReturns, Stop, seenVars
  <2>2. entry' \in Conv \cup {0} /\ DOMAIN conv' = Conv
    BY Zenon, <1>1 DEF Start, Take, RouteReturns, Stop, BridgeTypeOK, BreakTypeOK
  <2>3. \A d \in Conv : \/ conv'[d] = conv[d]
                        \/ d = c /\ conv[d] \in {"no", "consume"}
                        \/ d = c /\ conv'[d] \in {"stop", "kept", "over"}
    BY <1>1 DEF Start, Take, RouteReturns, Stop, BreakTypeOK
  <2>4. \A d \in Conv : conv'[d] \in {"no", "consume", "next"} => handler[d] = "idle"
    BY Zenon, <2>3 DEF BreakTypeOK
  <2> QED
    BY Zenon, <2>1, <2>2, <2>4, HandleMoves
<1>2. ASSUME NEW c \in Conv, Request(c) PROVE ChatInv'
  <2>1. /\ brk[c] = "no"
        /\ UNCHANGED <<entry, chBridge, waitsOn, bridges, ended, breakVars, chatPanic, early, twice>>
    BY Zenon, <1>2, ConvBreaker DEF Request, BreakTypeOK, seenVars
  <2>2. /\ conv' = [conv EXCEPT ![c] = "request"]
        /\ \E r \in {"bridge", "send"} : handler' = [handler EXCEPT ![c] = r]
    BY Zenon, <1>2 DEF Request
  <2>3. /\ handler' \in [Conv -> {"idle", "bridge", "send", "break", "invite", "bridged"}]
        /\ handler'[c] \in {"bridge", "send"} /\ \A d \in Conv \ {c} : handler'[d] = handler[d]
    BY <2>2 DEF BreakTypeOK
  <2>4. /\ DOMAIN conv' = Conv /\ conv'[c] = "request"
        /\ \A d \in Conv \ {c} : conv'[d] = conv[d]
    BY Zenon, <2>2 DEF BreakTypeOK
  <2>5. waitsOn' \in [Conv -> Nat]
    BY Zenon, <2>1 DEF BridgeTypeOK
  <2> QED
    BY Zenon, <2>1, <2>3, <2>4, <2>5, HandlerMoves
<1>3. ASSUME NEW c \in Conv, SendMessage(c) PROVE ChatInv'
  <2>0. /\ brk[c] = "no" /\ handler[c] = "send"
        /\ UNCHANGED <<entry, chBridge, bridges, ended, chatPanic, early, twice>>
    BY Zenon, <1>3, ConvBreaker DEF SendMessage, BreakTypeOK, seenVars
  <2>1. CASE Handled(c) /\ UNCHANGED breakVars
    BY Zenon, <2>0, <2>1, HandlerReturns
  <2>2. CASE /\ handler' = [handler EXCEPT ![c] = "break"]
             /\ brk' = [brk EXCEPT ![c] = "lock"] /\ target' = [target EXCEPT ![c] = c]
             /\ UNCHANGED <<conv, waitsOn>>
    <3>1. /\ handler' \in [Conv -> {"idle", "bridge", "send", "break", "invite", "bridged"}]
          /\ handler'[c] = "break" /\ \A d \in Conv \ {c} : handler'[d] = handler[d]
      BY Zenon, <2>2 DEF BreakTypeOK
    <3>2. /\ brk' \in [Breaker -> Active \cup {"no", "done"}]
          /\ target' \in [Breaker -> Conv \cup {0}]
          /\ brk'[c] = "lock" /\ target'[c] = c /\ c \in Breaker
          /\ \A d \in Breaker \ {c} : brk'[d] = brk[d] /\ target'[d] = target[d]
      BY Zenon, <2>2, ConvBreaker DEF BreakTypeOK, Active
    <3>3. BridgeTypeOK'
      BY Zenon, <2>0, <2>2 DEF BridgeTypeOK
    <3>4. BreakTypeOK'
      <4>1. \A d \in Breaker : brk'[d] \in Active => target'[d] \in Conv
        BY <3>2 DEF BreakTypeOK
      <4>2. \A d \in Conv : /\ brk'[d] = "no" \/ handler'[d] = "break"
                            /\ conv[d] \in {"no", "consume", "next"} => handler'[d] = "idle"
        BY <2>0, <3>1, <3>2, ConvBreaker DEF BreakTypeOK
      <4> QED
        BY Zenon, <2>2, <3>1, <3>2, <4>1, <4>2 DEF BreakTypeOK
    <3>5. OneClears' /\ SeenTwice'
      BY Zenon, <2>0, <3>2, OutsideClose
    <3>6. Invited' /\ WaitsOnBridge' /\ PanicNeedsTwo'
      BY Zenon, <2>0, <2>2, <3>1 DEF Invited, WaitsOnBridge, PanicNeedsTwo
    <3> QED
      BY Zenon, <3>3, <3>4, <3>5, <3>6
  <2> QED
    BY Zenon, <1>3, <2>1, <2>2 DEF SendMessage, breakVars
<1>4. ASSUME NEW c \in Conv, SendBroke(c) PROVE ChatInv'
  <2>1. /\ brk[c] = "done" /\ handler[c] = "break"
        /\ UNCHANGED <<entry, chBridge, bridges, ended, target, chatPanic, early, twice>>
    BY Zenon, <1>4 DEF SendBroke, seenVars
  <2>2. /\ brk' = [brk EXCEPT ![c] = "no"] /\ handler' = [handler EXCEPT ![c] = "idle"]
        /\ waitsOn' = [waitsOn EXCEPT ![c] = 0] /\ DOMAIN conv' = Conv
        /\ \A d \in Conv \ {c} : conv'[d] = conv[d]
    BY Zenon, <1>4 DEF SendBroke, Handled, BreakTypeOK
  <2>3. /\ brk' \in [Breaker -> Active \cup {"no", "done"}] /\ brk'[c] = "no"
        /\ \A d \in Breaker \ {c} : brk'[d] = brk[d]
    BY Zenon, <2>2, ConvBreaker DEF BreakTypeOK
  <2>4. /\ handler' \in [Conv -> {"idle", "bridge", "send", "break", "invite", "bridged"}]
        /\ handler'[c] = "idle" /\ \A d \in Conv \ {c} : handler'[d] = handler[d]
    BY Zenon, <2>2 DEF BreakTypeOK
  <2>5. waitsOn' \in [Conv -> Nat] /\ \A d \in Conv \ {c} : waitsOn'[d] = waitsOn[d]
    BY Zenon, <2>2 DEF BridgeTypeOK
  <2>6. BridgeTypeOK'
    BY Zenon, <2>1, <2>5 DEF BridgeTypeOK
  <2>7. BreakTypeOK'
    <3>1. \A d \in Breaker : brk'[d] \in Active => target[d] \in Conv
      BY Zenon, <2>3 DEF BreakTypeOK, Active
    <3>2. \A d \in Conv : /\ brk'[d] = "no" \/ handler'[d] = "break"
                          /\ conv'[d] \in {"no", "consume", "next"} => handler'[d] = "idle"
      BY <2>2, <2>3, <2>4, ConvBreaker DEF BreakTypeOK
    <3> QED
      BY Zenon, <2>1, <2>2, <2>3, <2>4, <3>1, <3>2 DEF BreakTypeOK
  <2>8. OneClears' /\ SeenTwice'
    <3>1. c \in Breaker
      BY Zenon, ConvBreaker
    <3> QED
      BY Zenon, <2>1, <2>3, <3>1, OutsideClose
  <2>9. Invited' /\ WaitsOnBridge' /\ PanicNeedsTwo'
    BY Zenon, <2>1, <2>4, <2>5 DEF Invited, WaitsOnBridge, PanicNeedsTwo
  <2> QED
    BY Zenon, <2>6, <2>7, <2>8, <2>9
<1>5. ASSUME NEW c \in Conv, Bridge(c) PROVE ChatInv'
  BY Zenon, <1>5, ChatBridge
<1>6. ASSUME NEW c \in Conv, Invite(c) PROVE ChatInv'
  <2>1. /\ brk[c] = "no" /\ handler[c] = "invite"
        /\ UNCHANGED <<entry, chBridge, bridges, ended, breakVars, chatPanic, early, twice>>
    BY Zenon, <1>6, ConvBreaker DEF Invite, BreakTypeOK, seenVars
  <2>2. CASE Handled(c)
    BY Zenon, <2>1, <2>2, HandlerReturns
  <2>3. CASE /\ handler' = [handler EXCEPT ![c] = "bridged"]
             /\ waitsOn' = [waitsOn EXCEPT ![c] = chBridge[c]] /\ UNCHANGED conv
    <3>1. conv[c] \notin {"no", "consume", "next"}
      BY Zenon, <2>1 DEF BreakTypeOK
    <3>2. c \in early \/ chBridge[c] # 0
      BY Zenon, <2>1 DEF Invited
    <3>3. /\ handler' \in [Conv -> {"idle", "bridge", "send", "break", "invite", "bridged"}]
          /\ handler'[c] = "bridged" /\ \A d \in Conv \ {c} : handler'[d] = handler[d]
          /\ DOMAIN conv' = Conv
      BY Zenon, <2>3 DEF BreakTypeOK
    <3>4. /\ waitsOn' \in [Conv -> Nat] /\ waitsOn'[c] = chBridge[c]
          /\ \A d \in Conv \ {c} : waitsOn'[d] = waitsOn[d]
      BY Zenon, <2>3 DEF BridgeTypeOK
    <3> QED
      BY Zenon, <2>1, <2>3, <3>1, <3>2, <3>3, <3>4, HandlerMoves
  <2> QED
    BY Zenon, <1>6, <2>2, <2>3 DEF Invite
<1>7. ASSUME NEW c \in Conv, BridgeEnds(c) PROVE ChatInv'
  <2>1. /\ brk[c] = "no" /\ Handled(c)
        /\ UNCHANGED <<entry, chBridge, bridges, ended, breakVars, chatPanic, early, twice>>
    BY Zenon, <1>7, ConvBreaker DEF BridgeEnds, BreakTypeOK, seenVars
  <2> QED
    BY Zenon, <2>1, HandlerReturns
<1>8. ASSUME NEW b \in BreakCalls, BreakCall(b) PROVE ChatInv'
  <2>1. /\ brk[b] = "no" /\ b \in Breaker /\ b \notin Conv /\ entry \in Conv
        /\ UNCHANGED <<entry, conv, bridgeVars, chatPanic, early, twice>>
    BY Zenon, <1>8, ConvBreaker DEF BreakCall, BridgeTypeOK, stateVars, seenVars
  <2>2. /\ target' \in [Breaker -> Conv \cup {0}] /\ target'[b] = entry
        /\ \A d \in Breaker \ {b} : target'[d] = target[d]
    BY Zenon, <1>8, <2>1 DEF BreakCall, BreakTypeOK
  <2>3. /\ brk' \in [Breaker -> Active \cup {"no", "done"}] /\ brk'[b] \in {"lock", "read"}
        /\ \A d \in Breaker \ {b} : brk'[d] = brk[d]
    BY <1>8, <2>1 DEF BreakCall, BrkAt, BreakTypeOK, Active
  <2> QED
    BY Zenon, <2>1, <2>2, <2>3, BreakerMoves
<1>9. ASSUME NEW b \in Breaker, Break(b) PROVE ChatInv'
  <2>1. /\ brk[b] = "lock"
        /\ UNCHANGED <<entry, conv, bridgeVars, target, chatPanic, early>>
    BY Zenon, <1>9 DEF Break
  <2>2. CASE chBridge[target[b]] = 0
    <3>1. BrkAt(b, "cancel") /\ UNCHANGED twice
      BY Zenon, <1>9, <2>2 DEF Break
    <3> QED
      BY Zenon, <2>1, <3>1, BreakerSteps
  <2>3. CASE chBridge[target[b]] # 0
    BY Zenon, <1>9, <2>1, <2>3, FindsBridge DEF Break
  <2> QED
    BY Zenon, <2>2, <2>3
<1>10. ASSUME NEW b \in Breaker, BreakCancels(b) PROVE ChatInv'
  <2>1. /\ brk[b] = "cancel" /\ Finish(b)
        /\ UNCHANGED <<entry, conv, bridgeVars, chatPanic, early, twice>>
    BY Zenon, <1>10 DEF BreakCancels, seenVars
  <2> QED
    BY Zenon, <2>1, BreakerSteps
<1>11. ASSUME NEW b \in Breaker, BreakBridge(b) PROVE ChatInv'
  <2>1. /\ brk[b] = "read"
        /\ UNCHANGED <<entry, conv, bridgeVars, chatPanic, early, twice>>
    BY Zenon, <1>11 DEF BreakBridge, stateVars, seenVars
  <2>2. \/ Finish(b)
        \/ UNCHANGED target /\ \E pc \in {"cancel", "cause", "check"} : BrkAt(b, pc)
    BY Zenon, <1>11 DEF BreakBridge
  <2> QED
    BY Zenon, <2>1, <2>2, BreakerSteps
<1>12. ASSUME NEW b \in Breaker, BridgeCause(b) PROVE ChatInv'
  <2>1. /\ brk[b] = "cause" /\ BrkAt(b, "check")
        /\ UNCHANGED <<entry, conv, bridgeVars, target, chatPanic, early, twice>>
    BY Zenon, <1>12 DEF BridgeCause
  <2> QED
    BY Zenon, <2>1, BreakerSteps
<1>13. ASSUME NEW b \in Breaker, CheckBridge(b) PROVE ChatInv'
  <2>1. /\ brk[b] = "check"
        /\ UNCHANGED <<entry, conv, bridgeVars, chatPanic, early>>
    BY Zenon, <1>13 DEF CheckBridge, stateVars
  <2>2. CASE chBridge[target[b]] = 0
    <3>1. Finish(b) /\ UNCHANGED twice
      BY Zenon, <1>13, <2>2 DEF CheckBridge
    <3> QED
      BY Zenon, <2>1, <3>1, BreakerSteps
  <2>3. CASE chBridge[target[b]] # 0
    BY Zenon, <1>13, <2>1, <2>3, FindsBridge DEF CheckBridge
  <2> QED
    BY Zenon, <2>2, <2>3
<1>14. ASSUME NEW b \in Breaker, CloseBridge(b) PROVE ChatInv'
  BY Zenon, <1>14, ChatCloseBridge
<1>15. ASSUME NEW b \in Breaker, ClearBridge(b) PROVE ChatInv'
  BY Zenon, <1>15, ChatClearBridge
<1>16. CASE Evict
  <2>1. /\ entry' = 0 /\ conv' = conv
        /\ UNCHANGED <<bridgeVars, breakVars, chatPanic, early, twice>>
    BY Zenon, <1>16 DEF Evict
  <2>2. \A d \in Conv : conv'[d] \in {"no", "consume", "next"} => handler[d] = "idle"
    BY Zenon, <2>1 DEF BreakTypeOK
  <2> QED
    BY Zenon, <2>1, <2>2, HandleMoves DEF BreakTypeOK
<1> QED
  BY Zenon, <1>1, <1>2, <1>3, <1>4, <1>5, <1>6, <1>7, <1>8, <1>9, <1>10, <1>11, <1>12, <1>13,
     <1>14, <1>15, <1>16 DEF ChatNext, ChatGoroutines

\* What has been started: the entry, and what a breaker is at.
Known ==
  /\ DOMAIN breakCause = Conv
  /\ entry # 0 => conv[entry] # "no"
  /\ \A b \in Breaker : brk[b] \in Active => conv[target[b]] # "no"
  /\ \A c \in Conv : breakCause[c] = "transfer" => conv[c] # "no"

\* The conversations are started in the order of their numbers.
StartedInOrder == \A c, d \in Conv : d < c /\ conv[c] # "no" => conv[d] # "no"

\* Unless a transfer came late or was overwritten: a transferred conversation
\* does not stop, and all conversations before one that was started and overtook
\* none are over or transferred.
Succession ==
  late = {} =>
    /\ \A c \in Conv : breakCause[c] = "transfer" => conv[c] \notin Stopping
    /\ \A c, d \in Conv : d < c /\ conv[c] # "no" /\ c \notin overtook => Left(d)

FoundInv == Known /\ StartedInOrder /\ Succession /\ StillFound

\* The order of the conversations.
LEMMA ConvOrder ==
  ASSUME NEW c \in Conv, NEW d \in Conv
  PROVE  /\ d < c <=> d \in 1..(c - 1)
         /\ c < d <=> d \in (c + 1)..NConvs
         /\ c = d \/ c < d \/ d < c
         /\ ~(c < d /\ d < c)
BY ConversationAssumption DEF Conv

\* handle or a handler of a conversation moves, and does not remove the entry.
LEMMA FoundMoves ==
  ASSUME ChatInv, FoundInv, NEW c \in Conv, NEW s, conv' = [conv EXCEPT ![c] = s],
         conv[c] # "no", s # "no", conv[c] = "over" => s = "over",
         s \notin {"kept"} \cup Stopping => conv[c] \notin {"kept"} \cup Stopping,
         late' = {} /\ breakCause[c] = "transfer" => s \notin Stopping \/ conv[c] \in Stopping,
         late \subseteq late', UNCHANGED <<entry, breakCause>>, UNCHANGED tableVars,
         \A b \in Breaker : brk'[b] \in Active =>
           (brk[b] \in Active /\ target'[b] = target[b]) \/ target'[b] = c
  PROVE  FoundInv'
<1>0. DOMAIN conv = Conv /\ \A b \in Breaker : brk[b] \in Active => target[b] \in Conv
  BY Zenon DEF ChatInv, BreakTypeOK
<1>1. conv'[c] = s /\ \A d \in Conv \ {c} : conv'[d] = conv[d]
  BY Zenon, <1>0
<1>2. \A d \in Conv : conv[d] # "no" => conv'[d] # "no"
  BY Zenon, <1>1
<1>3. entry \in Conv \cup {0}
  BY Zenon DEF ChatInv, BridgeTypeOK
<1>4. Known'
  <2>1. DOMAIN breakCause' = Conv /\ (entry' # 0 => conv'[entry'] # "no")
    BY Zenon, <1>2, <1>3 DEF FoundInv, Known
  <2>2. ASSUME NEW b \in Breaker, brk'[b] \in Active PROVE conv'[target'[b]] # "no"
    <3>1. CASE brk[b] \in Active /\ target'[b] = target[b]
      <4>1. conv[target[b]] # "no" /\ target[b] \in Conv
        BY Zenon, <1>0, <3>1 DEF FoundInv, Known
      <4> QED BY Zenon, <1>2, <3>1, <4>1
    <3>2. CASE target'[b] = c
      BY Zenon, <1>1, <3>2
    <3> QED BY Zenon, <2>2, <3>1, <3>2
  <2>3. \A d \in Conv : breakCause'[d] = "transfer" => conv'[d] # "no"
    BY Zenon, <1>2 DEF FoundInv, Known
  <2> QED BY Zenon, <2>1, <2>2, <2>3 DEF Known
<1>5. late' = {} => late = {}
  BY Zenon
<1>t. overtook' = overtook /\ evicted' = evicted
  BY Zenon DEF tableVars
<1>o. StartedInOrder'
  BY Zenon, <1>1, <1>2 DEF FoundInv, StartedInOrder
<1>6. Succession'
  <2> SUFFICES ASSUME late' = {}
               PROVE  /\ \A d \in Conv : breakCause'[d] = "transfer" => conv'[d] \notin Stopping
                      /\ \A d, e \in Conv : e < d /\ conv'[d] # "no" /\ d \notin overtook' => Left(e)'
    BY Zenon DEF Succession
  <2>1. \A d \in Conv : breakCause[d] = "transfer" => conv[d] \notin Stopping
    BY Zenon, <1>5 DEF FoundInv, Succession
  <2>2. \A d \in Conv : breakCause'[d] = "transfer" => conv'[d] \notin Stopping
    BY Zenon, <1>1, <2>1
  <2>3. ASSUME NEW d \in Conv, NEW e \in Conv, e < d, conv'[d] # "no", d \notin overtook' PROVE Left(e)'
    <3>1. conv[d] # "no"
      BY Zenon, <1>1, <2>3
    <3>2. Left(e)
      BY Zenon, <1>5, <1>t, <2>3, <3>1 DEF FoundInv, Succession
    <3> QED BY Zenon, <1>1, <3>2 DEF Left
  <2> QED BY Zenon, <2>2, <2>3
<1>7. StillFound'
  <2> SUFFICES ASSUME NEW d \in Conv, conv'[d] \notin {"no", "kept"} \cup Stopping,
                      \A e \in (d + 1)..NConvs : conv'[e] = "no", late' = {},
                      d \notin evicted \cup overtook
               PROVE  entry = d
    BY Zenon, <1>t DEF StillFound
  <2>1. conv[d] \notin {"no", "kept"} \cup Stopping
    BY Zenon, <1>1
  <2>2. \A e \in Conv : d < e => conv'[e] = "no"
    BY Zenon, ConvOrder
  <2>3. \A e \in Conv : d < e => conv[e] = "no"
    BY Zenon, <1>1, <2>2
  <2>4. \A e \in (d + 1)..NConvs : e \in Conv /\ d < e
    BY ConversationAssumption DEF Conv
  <2> QED BY Zenon, <1>5, <2>1, <2>3, <2>4 DEF FoundInv, StillFound
<1> QED BY Zenon, <1>4, <1>o, <1>6, <1>7 DEF FoundInv

\* A breaker moves, and may set the cause.
LEMMA FoundBreaks ==
  ASSUME ChatInv, FoundInv, NEW b \in Breaker, UNCHANGED <<entry, conv>>, UNCHANGED tableVars,
         \/ UNCHANGED <<breakCause, late>>
         \/ SetCause(b) /\ brk[b] \in Active,
         \A d \in Breaker : brk'[d] \in Active =>
           (brk[d] \in Active /\ target'[d] = target[d]) \/ (target'[d] = entry /\ entry # 0)
  PROVE  FoundInv'
<1>0. \A d \in Breaker : brk[d] \in Active => target[d] \in Conv
  BY Zenon DEF ChatInv, BreakTypeOK
<1>1. DOMAIN breakCause' = Conv /\ \A c \in Conv : breakCause'[c] = "transfer" => conv[c] # "no"
  BY Zenon, <1>0 DEF FoundInv, Known, SetCause
<1>2. Known'
  BY Zenon, <1>1 DEF FoundInv, Known
<1>3. late \subseteq late'
  BY Zenon DEF SetCause
<1>t. overtook' = overtook /\ evicted' = evicted
  BY Zenon DEF tableVars
<1>o. StartedInOrder'
  BY Zenon DEF FoundInv, StartedInOrder
<1>4. Succession'
  <2> SUFFICES ASSUME late' = {}
               PROVE  /\ \A d \in Conv : breakCause'[d] = "transfer" => conv[d] \notin Stopping
                      /\ \A d \in Conv : breakCause[d] = "transfer" => breakCause'[d] = "transfer"
    BY Zenon, <1>3, <1>t DEF FoundInv, Succession, Left
  <2>1. late = {}
    BY Zenon, <1>3
  <2>2. CASE UNCHANGED <<breakCause, late>>
    BY Zenon, <2>1, <2>2 DEF FoundInv, Succession
  <2>3. CASE SetCause(b) /\ brk[b] \in Active
    <3>1. /\ breakCause' = [breakCause EXCEPT ![target[b]] = cause[b]]
          /\ cause[b] = "transfer" => conv[target[b]] \notin Stopping
          /\ cause[b] # "transfer" => breakCause[target[b]] # "transfer"
      BY Zenon, <2>1, <2>3 DEF SetCause
    <3>2. target[b] \in Conv /\ DOMAIN breakCause = Conv
      BY Zenon, <1>0, <2>3 DEF FoundInv, Known
    <3>3. /\ breakCause'[target[b]] = cause[b]
          /\ \A d \in Conv \ {target[b]} : breakCause'[d] = breakCause[d]
      BY Zenon, <3>1, <3>2
    <3> QED BY Zenon, <2>1, <3>1, <3>3 DEF FoundInv, Succession
  <2> QED BY Zenon, <2>2, <2>3
<1>5. StillFound'
  BY Zenon, <1>3, <1>t DEF FoundInv, StillFound
<1> QED BY Zenon, <1>2, <1>o, <1>4, <1>5 DEF FoundInv

\* A conversation is started: it overtakes one, or the ones before it are over or
\* transferred.
LEMMA FoundStart ==
  ASSUME ChatInv, FoundInv, NEW c \in Conv, Start(c) PROVE FoundInv'
<1>0. DOMAIN conv = Conv /\ \A b \in Breaker : brk[b] \in Active => target[b] \in Conv
  BY Zenon DEF ChatInv, BreakTypeOK
<1>1. /\ conv[c] = "no" /\ conv'[c] = "consume" /\ \A d \in Conv \ {c} : conv'[d] = conv[d]
      /\ entry' = c /\ UNCHANGED <<breakCause, late, brk, target>>
  BY Zenon, <1>0 DEF Start, breakVars
<1>2. overtook \subseteq overtook' /\ (c \notin overtook' => \A d \in Conv : d < c => Left(d))
  BY Zenon, ConvOrder DEF Start
<1>3. \A d \in Conv : d < c => conv[d] # "no"
  BY Zenon, ConvOrder DEF Start
<1>4. \A d \in Conv : conv[d] # "no" => conv'[d] # "no"
  BY Zenon, <1>1
<1>5. Known'
  BY Zenon, <1>0, <1>1, <1>4 DEF FoundInv, Known
<1>6. \A d \in Conv : c < d => conv[d] = "no" /\ conv'[d] = "no"
  <2> SUFFICES ASSUME NEW d \in Conv, c < d PROVE conv[d] = "no" /\ conv'[d] = "no"
    OBVIOUS
  <2>1. conv[d] = "no"
    BY Zenon, <1>1 DEF FoundInv, StartedInOrder
  <2>2. d # c
    BY Zenon, ConvOrder
  <2> QED BY Zenon, <1>1, <2>1, <2>2
<1>7. StartedInOrder'
  <2> SUFFICES ASSUME NEW d \in Conv, NEW e \in Conv, e < d, conv'[d] # "no" PROVE conv'[e] # "no"
    BY Zenon DEF StartedInOrder
  <2>1. CASE d = c
    BY Zenon, <1>3, <1>4, <2>1
  <2>2. CASE d # c
    BY Zenon, <1>1, <1>4, <2>2 DEF FoundInv, StartedInOrder
  <2> QED BY Zenon, <2>1, <2>2
<1>8. Succession'
  <2> SUFFICES ASSUME late = {}
               PROVE  /\ \A d \in Conv : breakCause'[d] = "transfer" => conv'[d] \notin Stopping
                      /\ \A d, e \in Conv : e < d /\ conv'[d] # "no" /\ d \notin overtook' => Left(e)'
    BY Zenon, <1>1 DEF Succession
  <2>1. \A d \in Conv : breakCause'[d] = "transfer" => conv'[d] \notin Stopping
    BY Zenon, <1>1 DEF FoundInv, Succession, Known
  <2>2. ASSUME NEW d \in Conv, NEW e \in Conv, e < d, conv'[d] # "no", d \notin overtook' PROVE Left(e)'
    <3>1. e # c
      BY Zenon, <1>6, <2>2
    <3>2. Left(e)
      <4>1. CASE d = c
        BY Zenon, <1>2, <2>2, <4>1
      <4>2. CASE d # c
        BY Zenon, <1>1, <1>2, <2>2, <4>2 DEF FoundInv, Succession
      <4> QED BY Zenon, <4>1, <4>2
    <3> QED BY Zenon, <1>1, <3>1, <3>2 DEF Left
  <2> QED BY Zenon, <2>1, <2>2
<1>9. StillFound'
  <2> SUFFICES ASSUME NEW d \in Conv, conv'[d] # "no", \A e \in (d + 1)..NConvs : conv'[e] = "no"
               PROVE  d = c
    BY Zenon, <1>1 DEF StillFound
  <2>1. ~(d < c)
    BY Zenon, <1>1, ConvOrder
  <2> QED BY Zenon, <1>6, <2>1, ConvOrder
<1> QED BY Zenon, <1>5, <1>7, <1>8, <1>9 DEF FoundInv

\* The entry is removed: the conversation that is stopped is the last one, or
\* the last one overtook it.
LEMMA FoundStop ==
  ASSUME ChatInv, FoundInv, NEW c \in Conv, Stop(c) PROVE FoundInv'
<1>0. DOMAIN conv = Conv /\ \A b \in Breaker : brk[b] \in Active => target[b] \in Conv
  BY Zenon DEF ChatInv, BreakTypeOK
<1>1. /\ conv[c] = "stop" /\ conv'[c] = "over"
      /\ \A d \in Conv \ {c} : conv'[d] = conv[d]
      /\ entry' = 0 /\ UNCHANGED <<breakCause, late, brk, target, overtook, evicted>>
  BY Zenon, <1>0 DEF Stop, breakVars, seenVars, tableVars
<1>2. Known' /\ StartedInOrder'
  BY Zenon, <1>0, <1>1 DEF FoundInv, Known, StartedInOrder
<1>3. late = {} => breakCause[c] # "transfer"
  BY Zenon, <1>1 DEF FoundInv, Succession, Stopping
<1>4. Succession'
  <2> SUFFICES ASSUME late = {}
               PROVE  /\ \A d \in Conv : breakCause'[d] = "transfer" => conv'[d] \notin Stopping
                      /\ \A d, e \in Conv : e < d /\ conv'[d] # "no" /\ d \notin overtook' => Left(e)'
    BY Zenon, <1>1 DEF Succession
  <2>1. \A d \in Conv : breakCause'[d] = "transfer" => conv'[d] \notin Stopping
    BY Zenon, <1>1, <1>3 DEF FoundInv, Succession
  <2>2. ASSUME NEW d \in Conv, NEW e \in Conv, e < d, conv'[d] # "no", d \notin overtook' PROVE Left(e)'
    <3>1. conv[d] # "no"
      BY Zenon, <1>1, <2>2
    <3>2. Left(e)
      BY Zenon, <1>1, <2>2, <3>1 DEF FoundInv, Succession
    <3> QED BY Zenon, <1>1, <3>2 DEF Left
  <2> QED BY Zenon, <2>1, <2>2
<1>5. StillFound'
  <2> SUFFICES ASSUME NEW d \in Conv, conv'[d] \notin {"no", "kept"} \cup Stopping, late = {},
                      \A e \in (d + 1)..NConvs : conv'[e] = "no", d \notin overtook
               PROVE  FALSE
    BY Zenon, <1>1 DEF StillFound
  <2>1. d # c
    BY Zenon, <1>1 DEF Stopping
  <2>2. conv[d] # "no"
    BY Zenon, <1>1, <2>1
  <2>3. CASE c < d
    <3>1. Left(c)
      BY Zenon, <2>2, <2>3 DEF FoundInv, Succession
    <3> QED BY Zenon, <1>1, <1>3, <3>1 DEF Left
  <2>4. CASE d < c
    BY Zenon, <1>1, <2>4, ConvOrder
  <2> QED BY Zenon, <2>1, <2>3, <2>4, ConvOrder
<1> QED BY Zenon, <1>2, <1>4, <1>5 DEF FoundInv

\* The table drops the entry.
LEMMA FoundEvict ==
  ASSUME ChatInv, FoundInv, Evict PROVE FoundInv'
<1>1. /\ entry' = 0 /\ evicted' = evicted \cup {entry}
      /\ UNCHANGED <<conv, breakCause, late, brk, target, overtook>>
  BY Zenon DEF Evict, breakVars
<1>2. Known' /\ StartedInOrder' /\ Succession'
  BY Zenon, <1>1 DEF FoundInv, Known, StartedInOrder, Succession, Left
<1>3. StillFound'
  BY Zenon, <1>1 DEF FoundInv, StillFound
<1> QED BY Zenon, <1>2, <1>3 DEF FoundInv

\* The conversations start in it.
LEMMA FoundInit == ChatInit => FoundInv
<1> SUFFICES ASSUME ChatInit PROVE FoundInv
  OBVIOUS
<1>1. /\ \A c \in Conv : conv[c] = "no" /\ breakCause[c] = "none"
      /\ \A b \in Breaker : brk[b] = "no"
      /\ DOMAIN breakCause = Conv /\ entry = 0
  BY Zenon DEF ChatInit
<1>2. Known
  BY Zenon, <1>1 DEF Known, Active
<1>3. StartedInOrder /\ Succession
  BY Zenon, <1>1 DEF StartedInOrder, Succession, Stopping
<1>4. StillFound
  BY Zenon, <1>1 DEF StillFound
<1> QED BY Zenon, <1>2, <1>3, <1>4 DEF FoundInv

\* Every step of the conversations keeps it.
LEMMA FoundNext ==
  ASSUME ChatInv, FoundInv, ChatNext PROVE FoundInv'
<1>0. /\ brk \in [Breaker -> Active \cup {"no", "done"}] /\ target \in [Breaker -> Conv \cup {0}]
      /\ DOMAIN conv = Conv /\ Conv \subseteq Breaker /\ BreakCalls \subseteq Breaker
      /\ {"cancel", "cause", "check", "close", "clear", "lock", "read"} \subseteq Active
  BY Zenon, ConvBreaker DEF ChatInv, BreakTypeOK, Active
<1>1. ASSUME NEW c \in Conv, Start(c) PROVE FoundInv'
  BY Zenon, <1>1, FoundStart
<1>2. ASSUME NEW c \in Conv, Stop(c) PROVE FoundInv'
  BY Zenon, <1>2, FoundStop
<1>3. ASSUME NEW c \in Conv, Take(c) PROVE FoundInv'
  <2>1. PICK s \in {"next", "stop"} :
          /\ conv' = [conv EXCEPT ![c] = s] /\ conv[c] = "consume"
          /\ late \subseteq late' /\ (s = "stop" /\ breakCause[c] = "transfer" => c \in late')
          /\ UNCHANGED <<entry, breakCause, brk, target, tableVars>>
    BY Zenon, <1>3 DEF Take, breakVars
  <2> QED BY Zenon, <1>0, <2>1, FoundMoves DEF Stopping
<1>4. ASSUME NEW c \in Conv, Request(c) PROVE FoundInv'
  <2>1. /\ conv' = [conv EXCEPT ![c] = "request"] /\ conv[c] = "next"
        /\ UNCHANGED <<entry, breakCause, late, brk, target, tableVars>>
    BY Zenon, <1>4 DEF Request, breakVars, seenVars
  <2> QED BY Zenon, <1>0, <2>1, FoundMoves DEF Stopping
<1>5. ASSUME NEW c \in Conv, RouteReturns(c) PROVE FoundInv'
  <2>1. PICK s \in {"kept", "stop"} :
          /\ conv' = [conv EXCEPT ![c] = s] /\ conv[c] \in {"next", "request"}
          /\ breakCause[c] = "transfer" => s = "kept"
          /\ UNCHANGED <<entry, breakCause, late, brk, target, tableVars>>
    BY Zenon, <1>5 DEF RouteReturns, breakVars, seenVars
  <2> QED BY Zenon, <1>0, <2>1, FoundMoves DEF Stopping
<1>6. CASE Evict
  BY Zenon, <1>6, FoundEvict
<1>7. ASSUME NEW c \in Conv, handler[c] # "idle", Handled(c), UNCHANGED <<entry, breakCause, late, tableVars>>,
             \A d \in Breaker : brk'[d] \in Active => brk[d] \in Active /\ target'[d] = target[d]
      PROVE  FoundInv'
  <2>1. CASE conv[c] = "request"
    <3>1. conv' = [conv EXCEPT ![c] = "next"]
      BY Zenon, <1>7, <2>1 DEF Handled
    <3> QED BY Zenon, <1>7, <2>1, <3>1, FoundMoves DEF Stopping
  <2>2. CASE conv[c] # "request"
    <3>1. conv' = [conv EXCEPT ![c] = conv[c]] /\ conv[c] # "no"
      BY Zenon, <1>7, <2>2 DEF Handled, ChatInv, BreakTypeOK
    <3> QED BY Zenon, <1>7, <3>1, FoundMoves
  <2> QED BY Zenon, <2>1, <2>2
<1>8. ASSUME NEW c \in Conv, SendMessage(c) PROVE FoundInv'
  <2>0. handler[c] = "send" /\ UNCHANGED <<entry, breakCause, late, tableVars>>
    BY Zenon, <1>8 DEF SendMessage, seenVars
  <2>1. CASE Handled(c) /\ UNCHANGED <<brk, target, cause>>
    BY Zenon, <1>7, <2>0, <2>1
  <2>2. CASE /\ brk' = [brk EXCEPT ![c] = "lock"] /\ target' = [target EXCEPT ![c] = c]
             /\ UNCHANGED <<conv, waitsOn>>
    <3>1. /\ target'[c] = c
          /\ \A d \in Breaker \ {c} : brk'[d] = brk[d] /\ target'[d] = target[d]
      BY Zenon, <1>0, <2>2
    <3>2. conv[c] \notin {"no", "consume", "next"}
      BY Zenon, <2>0 DEF ChatInv, BreakTypeOK
    <3>3. Known'
      BY Zenon, <2>0, <2>2, <3>1, <3>2 DEF FoundInv, Known
    <3>4. StartedInOrder' /\ Succession' /\ StillFound'
      BY Zenon, <2>0, <2>2 DEF FoundInv, StartedInOrder, Succession, StillFound, Left, tableVars
    <3> QED BY Zenon, <3>3, <3>4 DEF FoundInv
  <2> QED BY Zenon, <1>8, <2>1, <2>2 DEF SendMessage
<1>9. ASSUME NEW c \in Conv, SendBroke(c) PROVE FoundInv'
  <2>1. /\ handler[c] = "break" /\ Handled(c) /\ brk' = [brk EXCEPT ![c] = "no"]
        /\ UNCHANGED <<entry, breakCause, late, target, tableVars>>
    BY Zenon, <1>9 DEF SendBroke, seenVars
  <2>2. brk'[c] = "no" /\ \A d \in Breaker \ {c} : brk'[d] = brk[d]
    BY Zenon, <1>0, <2>1
  <2>3. "no" \notin Active
    BY DEF Active
  <2> QED BY Zenon, <1>0, <1>7, <2>1, <2>2, <2>3
<1>10. ASSUME NEW c \in Conv, Bridge(c) \/ Invite(c) \/ BridgeEnds(c) PROVE FoundInv'
  <2>1. /\ handler[c] \in {"bridge", "invite", "bridged"} /\ (Handled(c) \/ UNCHANGED conv)
        /\ UNCHANGED <<entry, breakCause, late, brk, target, tableVars>>
    BY Zenon, <1>10 DEF Bridge, Invite, BridgeEnds, breakVars, seenVars
  <2>2. CASE Handled(c)
    BY Zenon, <1>0, <1>7, <2>1, <2>2
  <2>3. CASE UNCHANGED conv
    BY Zenon, <1>0, <2>1, <2>3, FoundBreaks
  <2> QED BY Zenon, <2>1, <2>2, <2>3
<1>11. ASSUME NEW b \in BreakCalls, BreakCall(b) PROVE FoundInv'
  <2>1. /\ entry # 0 /\ target' = [target EXCEPT ![b] = entry]
        /\ UNCHANGED <<entry, conv, breakCause, late, tableVars>> /\ \E pc : brk' = [brk EXCEPT ![b] = pc]
    BY Zenon, <1>11 DEF BreakCall, BrkAt, stateVars, seenVars
  <2>2. /\ b \in Breaker /\ target'[b] = entry
        /\ \A d \in Breaker \ {b} : brk'[d] = brk[d] /\ target'[d] = target[d]
    BY Zenon, <1>0, <2>1
  <2> QED BY Zenon, <2>1, <2>2, FoundBreaks
<1>12. ASSUME NEW b \in Breaker, Break(b) \/ BreakCancels(b) \/ BreakBridge(b) \/ BridgeCause(b)
                \/ CheckBridge(b) \/ CloseBridge(b) \/ ClearBridge(b)
       PROVE  FoundInv'
  <2>1. brk[b] \in Active /\ UNCHANGED <<entry, conv>>
    BY Zenon, <1>0, <1>12 DEF Break, BreakCancels, BreakBridge, BridgeCause, CheckBridge, CloseBridge,
                       ClearBridge, stateVars
  <2>2. UNCHANGED <<breakCause, late>> \/ SetCause(b)
    BY Zenon, <1>12 DEF Break, BreakCancels, BreakBridge, BridgeCause, CheckBridge, CloseBridge,
                       ClearBridge, stateVars, seenVars
  <2>3. Finish(b) \/ (UNCHANGED target /\ (brk' = brk \/ \E pc \in Active : brk' = [brk EXCEPT ![b] = pc]))
    BY Zenon, <1>0, <1>12 DEF Break, BreakCancels, BreakBridge, BridgeCause, CheckBridge, CloseBridge,
                       ClearBridge, FindBridge, BrkAt
  <2>4. \A d \in Breaker : brk'[d] \in Active => brk[d] \in Active /\ target'[d] = target[d]
    <3>1. CASE Finish(b)
      <4>1. /\ brk'[b] = "done"
            /\ \A d \in Breaker \ {b} : brk'[d] = brk[d] /\ target'[d] = target[d]
        BY Zenon, <1>0, <3>1 DEF Finish, BrkAt
      <4>2. "done" \notin Active
        BY DEF Active
      <4> QED BY Zenon, <4>1, <4>2
    <3>2. CASE UNCHANGED target /\ (brk' = brk \/ \E pc \in Active : brk' = [brk EXCEPT ![b] = pc])
      BY Zenon, <1>0, <2>1, <3>2
    <3> QED BY Zenon, <2>3, <3>1, <3>2
  <2>5. UNCHANGED tableVars
    BY Zenon, <1>12 DEF Break, BreakCancels, BreakBridge, BridgeCause, CheckBridge, CloseBridge,
                       ClearBridge, seenVars
  <2> QED BY Zenon, <2>1, <2>2, <2>4, <2>5, FoundBreaks
<1> QED
  BY Zenon, <1>1, <1>2, <1>3, <1>4, <1>5, <1>6, <1>8, <1>9, <1>10, <1>11, <1>12
  DEF ChatNext, ChatGoroutines

-----------------------------------------------------------------------------
(* The server. *)

\* The inductive invariant of the server.
LEMMA GrpcInvariant == GrpcSpec => [](FormInv /\ ChatInv /\ FoundInv)
<1>1. GrpcInit => FormInv /\ ChatInv /\ FoundInv
  BY Zenon, FormInvInit, ChatInvInit, FoundInit DEF GrpcInit
<1>2. ASSUME FormInv, ChatInv, FoundInv, [GrpcNext]_grpcVars PROVE FormInv' /\ ChatInv' /\ FoundInv'
  <2>1. FormInv /\ UNCHANGED formVars => FormInv'
    BY DEF formVars, connVars, chanVars, schemaVars, callVars, FormInv, FormTypeOK, OneAtWork,
           Pushing, Clearing, Busy
  <2>2. ASSUME UNCHANGED chatVars PROVE ChatInv'
    <3> USE <1>2, <2>2 DEF ChatInv, chatVars, stateVars, bridgeVars, breakVars, seenVars
    <3>1. BridgeTypeOK' /\ BreakTypeOK'
      BY Zenon DEF BridgeTypeOK, BreakTypeOK
    <3>2. OneClears' /\ SeenTwice'
      BY Zenon DEF OneClears, SeenTwice
    <3>3. Invited' /\ WaitsOnBridge' /\ PanicNeedsTwo'
      BY Zenon DEF Invited, WaitsOnBridge, PanicNeedsTwo
    <3> QED
      BY Zenon, <3>1, <3>2, <3>3
  <2>3. ASSUME UNCHANGED chatVars PROVE FoundInv'
    BY Zenon, <1>2, <2>3 DEF FoundInv, Known, StartedInOrder, Succession, StillFound, Left, chatVars, stateVars,
                             breakVars, seenVars, tableVars
  <2>4. FormInv'
    BY Zenon, <1>2, <2>1, FormInvNext DEF GrpcNext, grpcVars
  <2>5. ChatInv' /\ FoundInv'
    BY Zenon, <1>2, <2>2, <2>3, ChatInvNext, FoundNext DEF GrpcNext, grpcVars
  <2> QED
    BY Zenon, <2>4, <2>5
<1> QED
  BY <1>1, <1>2, PTL DEF GrpcSpec

\* The gRPC server panics only after calls of FormAction have overlapped
\* (processing_connection.go:145-155), or after two breakers were at one bridge
\* (conversation.go:148-153), for any number of calls and conversations.
THEOREM PanicsNeedRaces == GrpcSpec => []PanicNeedsRace
<1>1. FormInv /\ ChatInv => PanicNeedsRace
  BY Zenon DEF FormInv, FormTypeOK, OneAtWork, ChatInv, PanicNeedsRace, PanicNeedsOverlap
<1> QED
  BY <1>1, GrpcInvariant, PTL

\* However calls of FormAction race, PushForm refuses a form of a live connection
\* (processing_connection.go:120) only while a call is between the action and
\* the clearing of the channel.
THEOREM FormsRefusedWhileClosing == GrpcSpec => []RefusedWhileClosing
<1>1. FormInv => RefusedWhileClosing
  BY Zenon DEF FormInv, FormTypeOK, Clearing, RefusedWhileClosing
<1> QED
  BY <1>1, GrpcInvariant, PTL

\* A bridge that was not broken early waits on a channel that is closed or that
\* the next break closes (conversation.go:545), whatever races with it.
THEOREM BridgesCanEnd == GrpcSpec => []WaitsOnBridge
<1>1. ChatInv => WaitsOnBridge
  BY Zenon DEF ChatInv
<1> QED
  BY <1>1, GrpcInvariant, PTL

\* While its schema runs, the conversation started last is found in the table
\* (getConversation), however conversations before it are transferred, broken
\* and stopped, unless the table dropped it, it overtook one of them or a
\* transfer came late.
THEOREM ConversationsFound == GrpcSpec => []StillFound
<1>1. FoundInv => StillFound
  BY Zenon DEF FoundInv
<1> QED
  BY <1>1, GrpcInvariant, PTL

=============================================================================
