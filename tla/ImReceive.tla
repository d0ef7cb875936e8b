------------------------------ MODULE ImReceive ------------------------------
(***************************************************************************)
(* How an inbound message reaches a schema that waits for one              *)
(* (providers/im/connection.go, routes/im/wait.go).  The one listener of   *)
(* the IM server hands a message over an unbuffered channel that the       *)
(* waiting receive has put in the connection (waitMsgChan); a receive      *)
(* makes a channel of its own and takes the field back when it leaves.     *)
(*                                                                         *)
(* recvMessage runs in a goroutine of Route, its handler; Route gives it   *)
(* up when the dialog is suspended, and the goroutine goes on by itself.   *)
(* A command starts a trigger, a flow that runs beside the schema and      *)
(* receives messages as well.                                              *)
(***************************************************************************)
EXTENDS Naturals, Sequences

CONSTANTS Handler,      \* goroutines of recvMessage, used once each, in order
          Triggers,     \* flows of commands, each started once
          Collects,     \* flows whose receives have a messageTimeout
          Kind,         \* kinds of messages that come
          MaxMessages,  \* bound on messages
          MaxSuspends,  \* bound on suspensions
          None

Flow == {"main"} \cup Triggers

ASSUME ReceiveAssumption ==
  /\ Handler \subseteq Nat /\ None \notin Handler
  /\ Collects \subseteq Flow
  /\ Kind \subseteq {"customer", "command", "system", "operator", "bot"}
  /\ MaxMessages \in Nat /\ MaxSuspends \in Nat

VARIABLES wait,      \* waitMsgChan: the call of receive whose channel it is
          h,         \* the handlers
          cur,       \* the handler that the Route of a flow waits for
          running,   \* flows that run
          sending,   \* what the listener is sending, and where to
          arrived,   \* kinds of the messages so far
          suspended, \* state of the dialog
          suspends,  \* suspensions so far
          taken      \* history: messages received, by whom

vars == <<wait, h, cur, running, sending, arrived, suspended, suspends, taken>>

Message == 1..MaxMessages
\* Receives of one recvMessage: one for each message, one that ends in vain
\* after each command, and the last.
Receives == 0..(2 * MaxMessages + 1)
Chan == Handler \X Receives
State == [pc: {"new", "call", "select", "leave", "done"}, flow: Flow \cup {None},
          ctx: {"live", "done"}, n: Receives, since: 0..MaxMessages,
          res: Message \cup {None}, box: UNION {[1..k -> Message] : k \in 0..MaxMessages}]

\* The shapes of the state.
TypeOK ==
  /\ wait \in Chan \cup {None}
  /\ h \in [Handler -> State]
  /\ cur \in [Flow -> Handler \cup {None}]
  /\ running \subseteq Flow
  /\ sending \in [msg: Message, to: Chan] \cup {None}
  /\ Len(arrived) <= MaxMessages /\ \A i \in DOMAIN arrived : arrived[i] \in Kind
  /\ suspended \in BOOLEAN /\ suspends \in 0..MaxSuspends
  /\ \A i \in DOMAIN taken : taken[i] \in [msg: Message, by: Handler, since: 0..MaxMessages]

Init ==
  /\ wait = None
  /\ h = [x \in Handler |-> [pc |-> "new", flow |-> None, ctx |-> "live", n |-> 0,
                             since |-> 0, res |-> None, box |-> <<>>]]
  /\ cur = [f \in Flow |-> None]
  /\ running = {"main"}
  /\ sending = None
  /\ arrived = <<>>
  /\ suspended = FALSE /\ suspends = 0
  /\ taken = <<>>

-----------------------------------------------------------------------------
(* The listener: OnMessage. *)

\* Bots and operators are not heard; anything else is sent to whoever waits.
OnMessage(k) ==
  /\ sending = None
  /\ Len(arrived) < MaxMessages
  /\ arrived' = Append(arrived, k)
  /\ sending' = IF k \in {"bot", "operator"} \/ wait = None THEN None
            ELSE [msg |-> Len(arrived'), to |-> wait]
  /\ UNCHANGED <<wait, h, cur, running, suspended, suspends, taken>>

\* Mutant: the listener goes on sending what has been received.
HandOverAgain(x) ==
  /\ sending # None /\ sending.to = <<x, h[x].n>>
  /\ h[x].pc = "select"
  /\ h' = [h EXCEPT ![x].pc = "leave", ![x].res = sending.msg]
  /\ taken' = Append(taken, [msg |-> sending.msg, by |-> x, since |-> h[x].since])
  /\ sending' = IF wait = None THEN None ELSE [sending EXCEPT !.to = wait]
  /\ UNCHANGED <<wait, cur, running, arrived, suspended, suspends>>

\* The receive takes the message; the listener is free again.
HandOver(x) ==
  /\ sending # None /\ sending.to = <<x, h[x].n>>
  /\ h[x].pc = "select"
  /\ h' = [h EXCEPT ![x].pc = "leave", ![x].res = sending.msg]
  /\ taken' = Append(taken, [msg |-> sending.msg, by |-> x, since |-> h[x].since])
  /\ sending' = None
  /\ UNCHANGED <<wait, cur, running, arrived, suspended, suspends>>

-----------------------------------------------------------------------------
(* recvMessage and receive. *)

\* The next handler to be used.
IsNew(x) == h[x].pc = "new" /\ \A y \in Handler : y < x => h[y].pc # "new"

\* Mutant: Route does not wait for the handler.
StartAlways(f, x) ==
  /\ f \in running /\ ~suspended
  /\ IsNew(x)
  /\ h' = [h EXCEPT ![x].pc = "call", ![x].flow = f]
  /\ cur' = [cur EXCEPT ![f] = x]
  /\ UNCHANGED <<wait, running, sending, arrived, suspended, suspends, taken>>

\* Route comes to a recvMessage.
StartHandler(f, x) ==
  /\ f \in running /\ ~suspended /\ cur[f] = None
  /\ IsNew(x)
  /\ h' = [h EXCEPT ![x].pc = "call", ![x].flow = f]
  /\ cur' = [cur EXCEPT ![f] = x]
  /\ UNCHANGED <<wait, running, sending, arrived, suspended, suspends, taken>>

\* Mutant: a handler makes one channel for all its receives.
EnterSameChan(x) ==
  /\ h[x].pc = "call"
  /\ IF wait = None
     THEN /\ wait' = <<x, 1>>
          /\ h' = [h EXCEPT ![x].pc = "select", ![x].n = 1, ![x].since = Len(arrived)]
     ELSE /\ h' = [h EXCEPT ![x].pc = "leave", ![x].n = 1]
          /\ UNCHANGED wait
  /\ UNCHANGED <<cur, running, sending, arrived, suspended, suspends, taken>>

\* receive puts its channel in the connection, or is refused.
Enter(x) ==
  /\ h[x].pc = "call"
  /\ IF wait = None
     THEN /\ wait' = <<x, h[x].n + 1>>
          /\ h' = [h EXCEPT ![x].pc = "select", ![x].n = @ + 1, ![x].since = Len(arrived)]
     ELSE /\ h' = [h EXCEPT ![x].pc = "leave", ![x].n = @ + 1]
          /\ UNCHANGED wait
  /\ UNCHANGED <<cur, running, sending, arrived, suspended, suspends, taken>>

\* Mutant: only the end of the context ends a receive.
GiveUpCancelled(x) ==
  /\ h[x].pc = "select" /\ h[x].ctx = "done"
  /\ h' = [h EXCEPT ![x].pc = "leave"]
  /\ UNCHANGED <<wait, cur, running, sending, arrived, suspended, suspends, taken>>

\* The time is up, or the context is done.
GiveUp(x) ==
  /\ h[x].pc = "select"
  /\ h' = [h EXCEPT ![x].pc = "leave"]
  /\ UNCHANGED <<wait, cur, running, sending, arrived, suspended, suspends, taken>>

\* What ReceiveMessage has when a receive of it is over.
Box(x) == IF h[x].res = None THEN h[x].box ELSE Append(h[x].box, h[x].res)
MoreToCollect(x) == h[x].res # None /\ h[x].flow \in Collects
IsCommand(x) == \E i \in DOMAIN Box(x) : arrived[Box(x)[i]] = "command"

\* The deferred call of receive empties the field, whoever's channel is in it.
\* ReceiveMessage goes on collecting; recvMessage starts the trigger of a command
\* and receives again, or is done (so too, for the bound, if no trigger is left).
Leave(x) ==
  /\ h[x].pc = "leave"
  /\ wait' = None
  /\ \/ /\ MoreToCollect(x)
        /\ h' = [h EXCEPT ![x].pc = "call", ![x].box = Box(x), ![x].res = None]
        /\ UNCHANGED <<cur, running>>
     \/ /\ ~MoreToCollect(x) /\ IsCommand(x)
        /\ \E t \in Triggers \ running : running' = running \cup {t}
        /\ h' = [h EXCEPT ![x].pc = "call", ![x].box = <<>>, ![x].res = None]
        /\ UNCHANGED cur
     \/ /\ ~MoreToCollect(x) /\ ~(IsCommand(x) /\ Triggers \ running # {})
        /\ h' = [h EXCEPT ![x].pc = "done", ![x].box = <<>>, ![x].res = None]
        /\ cur' = [f \in Flow |-> IF cur[f] = x THEN None ELSE cur[f]]
        /\ UNCHANGED running
  /\ UNCHANGED <<sending, arrived, suspended, suspends, taken>>

-----------------------------------------------------------------------------
(* Suspending and resuming. *)

\* The Routes give their handlers up; only that of the schema will be resumed.
SuspendDialog ==
  /\ ~suspended /\ suspends < MaxSuspends
  /\ suspended' = TRUE /\ suspends' = suspends + 1
  /\ h' = [x \in Handler |-> IF h[x].pc = "new" THEN h[x] ELSE [h[x] EXCEPT !.ctx = "done"]]
  /\ cur' = [f \in Flow |-> None]
  /\ running' = {"main"}
  /\ UNCHANGED <<wait, sending, arrived, taken>>

Resume ==
  /\ suspended /\ suspended' = FALSE
  /\ UNCHANGED <<wait, h, cur, running, sending, arrived, suspends, taken>>

-----------------------------------------------------------------------------
RecvMessage(x) == Enter(x) \/ GiveUp(x) \/ HandOver(x) \/ Leave(x)

Next ==
  \/ \E k \in Kind : OnMessage(k)
  \/ \E x \in Handler : RecvMessage(x) \/ \E f \in Flow : StartHandler(f, x)
  \/ SuspendDialog \/ Resume

Spec == Init /\ [][Next]_vars

\* Goroutines run and timers fire.
FairSpec == Spec /\ \A x \in Handler : WF_vars(RecvMessage(x))

-----------------------------------------------------------------------------
(* Properties. *)

\* Messages are received in the order they came, each at most once, whatever
\* handlers, triggers and suspensions do.
InOrder ==
  \A i, j \in DOMAIN taken : i < j => taken[i].msg < taken[j].msg

\* A receive never gets a message that came before it was called, though the
\* listener may still be holding it for a receive that has gone.
Fresh == \A i \in DOMAIN taken : taken[i].msg > taken[i].since

\* Another receive that is of another flow, or was left behind by a suspension.
Intruder(x) ==
  \E y \in Handler \ {x} : h[y].pc # "new" /\ (h[y].flow # h[x].flow \/ h[y].ctx = "done")

\* A receive that waits hears every message, since the connection has its channel,
\* or it has lost its place to an intruder (connection.go:1058): never to a receive
\* of its own flow, however often that collects, times out or starts triggers.
Listens ==
  \A x \in Handler : h[x].pc = "select" /\ h[x].ctx = "live" =>
    wait = <<x, h[x].n>> \/ Intruder(x)

\* Every recvMessage comes to an end.
Answered == \A x \in Handler : h[x].pc = "call" ~> h[x].pc = "done"

-----------------------------------------------------------------------------
(* What comments of the code say and the code does not do in every case.   *)

\* "a bot that is already running still needs to observe them" (nodeMessage):
\* the listener comes back from handing a message to a schema.
ListenerComesBack == sending # None ~> sending = None

\* "already set wait message chan" (setStateWaitMessage): a receive that finds
\* another waiting is refused, and the other goes on waiting.
WaiterKept ==
  [][\A x \in Handler :
       wait = <<x, h[x].n>> /\ h[x].pc = "select" /\ h'[x].pc = "select" => wait' = wait]_vars

\* "Such messages must never trigger or feed a bot schema" (IMMessageTypeSystem):
\* no receive is given a system message.
SystemNotFed == \A i \in DOMAIN taken : arrived[taken[i].msg] # "system"

=============================================================================
