------------------------------- MODULE CcQueue -------------------------------
(***************************************************************************)
(* Dialogs that wait in a queue of the call centre: joinQueue of           *)
(* routes/im/queue.go, the calls of app/cc.go, and listenEvents of         *)
(* app/cc/client.go, the one goroutine that hands the events of the call   *)
(* centre to the joinQueue that waits for them.                            *)
(*                                                                         *)
(* Joins are numbered in the order they begin, and the number is also the  *)
(* id of the attempt that the call centre makes for it: the call centre    *)
(* never gives two joins one id.  A dialog can join again while an earlier *)
(* joinQueue of it, cut off by a suspension, has not returned yet.         *)
(*                                                                         *)
(* Each subscription of the broker client has a queue of its own, which    *)
(* is gone with the connection.  What is in it and what comes until the    *)
(* client has subscribed again is lost, but for the events it had already  *)
(* handed to the buffered channel ccEvents; and with several subscriptions *)
(* after a reconnection the events come as often.                          *)
(***************************************************************************)
EXTENDS Naturals, Sequences

CONSTANTS NJoins,        \* bound on the joins, times the subscriptions
          NDialogs,
          MaxConsumers,  \* subscriptions to the events of the call centre
          MaxLosses      \* bound on the lost connections

ASSUME CcQueueAssumption ==
  {NJoins, NDialogs, MaxLosses} \subseteq Nat /\ MaxConsumers \in Nat \ {0}

Join == 1..NJoins
Dialog == 1..NDialogs

VARIABLES consumers,    \* subscriptions of this node
          losses,       \* connections lost
          several,      \* history: has there been more than one subscription
          events,       \* the events on their way, for each of them
          cc,           \* the attempts in the call centre
          attempts,     \* attempts that have a channel in the map
          closed,       \* attempts whose channel is closed
          lis,          \* where listenEvents is
          event,        \* the event it has
          join,         \* where each joinQueue is
          dialog,       \* the dialog it belongs to
          joinCtx,      \* the context it was given
          timers,       \* do its timers run
          queueReturn,  \* the join whose channel is in a connection
          returned,     \* joins whose channel ReturnFromQueue has closed
          crashed,      \* has the process crashed, and why
          cutOff,       \* history: joins cut off by a suspension or handed back
          missed        \* history: attempts with an event that came too early
                        \* or was lost with the connection

subVars == <<consumers, losses, several>>
envVars == <<subVars, events, cc>>
lisVars == <<attempts, closed, lis, event>>
joinVars == <<join, dialog, joinCtx, timers, queueReturn, returned>>
histVars == <<cutOff, missed>>
ccVars == <<envVars, lisVars, joinVars, crashed, histVars>>

NoEvent == [attempt |-> 0, name |-> "none"]

CcInit ==
  /\ consumers = 1 /\ losses = 0 /\ several = "no"
  /\ events = [k \in 1..MaxConsumers |-> <<>>]
  /\ cc = [j \in Join |-> "none"]
  /\ attempts = {} /\ closed = {}
  /\ lis = "read" /\ event = NoEvent
  /\ join = [j \in Join |-> "no"] /\ dialog = [j \in Join |-> 0]
  /\ joinCtx = [j \in Join |-> "live"] /\ timers = [j \in Join |-> "off"]
  /\ queueReturn = [d \in Dialog |-> 0] /\ returned = {}
  /\ crashed = "no" /\ cutOff = {} /\ missed = {}

-----------------------------------------------------------------------------
(* The call centre: what it tells the flow manager. *)

Publish(j, name) ==
  /\ events' = [k \in 1..MaxConsumers |->
                  IF k <= consumers THEN Append(events[k], [attempt |-> j, name |-> name])
                                    ELSE events[k]]
  /\ missed' = IF consumers = 0 THEN missed \cup {j} ELSE missed

BridgeAttempt(j) ==
  /\ cc[j] = "waiting"
  /\ cc' = [cc EXCEPT ![j] = "bridged"]
  /\ Publish(j, "bridged")
  /\ UNCHANGED <<subVars, lisVars, joinVars, crashed, cutOff>>

EndAttempt(j) ==
  /\ cc[j] \in {"waiting", "bridged"}
  /\ cc' = [cc EXCEPT ![j] = "left"]
  /\ Publish(j, "leaving")
  /\ UNCHANGED <<subVars, lisVars, joinVars, crashed, cutOff>>

-----------------------------------------------------------------------------
(* subscribeCC. *)

\* The connection is lost with what is left in the queues.
ConnectionLost ==
  /\ consumers > 0 /\ losses < MaxLosses
  /\ consumers' = 0 /\ losses' = losses + 1
  /\ \E keep \in [1..MaxConsumers -> 0..(2 * NJoins)] :
       /\ \A k \in 1..MaxConsumers : keep[k] <= Len(events[k])
       /\ events' = [k \in 1..MaxConsumers |-> SubSeq(events[k], 1, keep[k])]
       /\ missed' = missed \cup
            UNION {{events[k][m].attempt : m \in (keep[k] + 1)..Len(events[k])} : k \in 1..MaxConsumers}
  /\ UNCHANGED <<several, cc, lisVars, joinVars, crashed, cutOff>>

\* Every consumer of the client that has ended makes a connection anew, and with
\* it a subscription.
Resubscribe ==
  /\ losses > 0 /\ consumers < MaxConsumers
  /\ consumers' = consumers + 1
  /\ \A j \in Join : join[j] # "no" => j * consumers' <= NJoins
  /\ several' = IF consumers' > 1 THEN "yes" ELSE several
  /\ UNCHANGED <<losses, events, cc, lisVars, joinVars, crashed, histVars>>

-----------------------------------------------------------------------------
(* listenEvents. *)

\* A handler is in the map with the lock, which the listener does not take.
InMap == \E j \in Join : join[j] \in {"subscribe", "unsubscribe"}

\* The channel is looked up; an event of an attempt without one is dropped.  A
\* read of the map during a write can end the process.
Look(k) ==
  /\ lis = "read" /\ events[k] # <<>>
  /\ LET e == Head(events[k]) IN
       \/ /\ events' = [events EXCEPT ![k] = Tail(@)]
          /\ IF e.attempt \in attempts
               THEN lis' = "send" /\ event' = e /\ UNCHANGED missed
               ELSE /\ missed' = missed \cup {e.attempt}
                    /\ UNCHANGED <<lis, event>>
          /\ UNCHANGED crashed
       \/ /\ InMap /\ crashed' = "map"
          /\ UNCHANGED <<events, lis, event, missed>>
  /\ UNCHANGED <<subVars, cc, attempts, closed, joinVars, cutOff>>

\* The send panics when the channel was closed meanwhile.
SendClosed ==
  /\ lis = "send" /\ event.attempt \in closed
  /\ crashed' = "closed"
  /\ UNCHANGED <<envVars, lisVars, joinVars, histVars>>

-----------------------------------------------------------------------------
(* joinQueue. *)

To(j, pc) == join' = [join EXCEPT ![j] = pc]

\* The queue is looked for, after a delay in a nested schema; the timers start.
Begin(j, d) ==
  /\ join[j] = "no" /\ d <= j /\ j * consumers <= NJoins
  /\ \A i \in 1..(j - 1) :
       join[i] # "no" /\ (dialog[i] = d => join[i] = "done" \/ joinCtx[i] = "done")
  /\ dialog' = [dialog EXCEPT ![j] = d]
  /\ \/ To(j, "join") /\ timers' = [timers EXCEPT ![j] = "on"]
     \/ To(j, "done") /\ UNCHANGED timers
  /\ UNCHANGED <<envVars, lisVars, joinCtx, queueReturn, returned, crashed, histVars>>

\* Mutant: the timers run on although the operator is already there.
JoinIMToQueueTimed(j) ==
  /\ join[j] = "join"
  /\ \/ (\E s \in {"waiting", "bridged"} : cc' = [cc EXCEPT ![j] = s])
        /\ To(j, "subscribe") /\ UNCHANGED timers
     \/ /\ \E s \in {"none", "waiting"} : cc' = [cc EXCEPT ![j] = s]
        /\ timers' = [timers EXCEPT ![j] = "off"]
        /\ To(j, "done")
  /\ UNCHANGED <<subVars, events, lisVars, dialog, joinCtx, queueReturn, returned,
                 crashed, histVars>>

\* The call centre makes an attempt and answers, with the operator already there
\* or not.  The answer may be lost, and the attempt as well.
JoinIMToQueue(j) ==
  /\ join[j] = "join"
  /\ \/ /\ \E s \in {"waiting", "bridged"} :
             /\ cc' = [cc EXCEPT ![j] = s]
             /\ timers' = IF s = "bridged" THEN [timers EXCEPT ![j] = "off"] ELSE timers
        /\ To(j, "subscribe")
     \/ /\ \E s \in {"none", "waiting"} : cc' = [cc EXCEPT ![j] = s]
        /\ timers' = [timers EXCEPT ![j] = "off"]
        /\ To(j, "done")
  /\ UNCHANGED <<subVars, events, lisVars, dialog, joinCtx, queueReturn, returned,
                 crashed, histVars>>

SubscribeAttempt(j) ==
  /\ join[j] = "subscribe"
  /\ attempts' = attempts \cup {j}
  /\ To(j, "enter")
  /\ UNCHANGED <<envVars, closed, lis, event, dialog, joinCtx, timers, queueReturn, returned,
                 crashed, histVars>>

EnterQueue(j) ==
  /\ join[j] = "enter"
  /\ queueReturn' = [queueReturn EXCEPT ![dialog[j]] = j]
  /\ To(j, "select")
  /\ UNCHANGED <<envVars, lisVars, dialog, joinCtx, timers, returned, crashed, histVars>>

\* The loop is left when the context is done, or the operator hands back.
Interrupted(j) ==
  /\ join[j] = "select" /\ (joinCtx[j] = "done" \/ j \in returned)
  /\ To(j, "leave")
  /\ UNCHANGED <<envVars, lisVars, dialog, joinCtx, timers, queueReturn, returned, crashed,
                 histVars>>

\* Mutant: the loop is left at any event.
ReceiveLeaves(j) ==
  /\ join[j] = "select" /\ lis = "send" /\ event.attempt = j /\ j \notin closed
  /\ lis' = "read" /\ event' = NoEvent
  /\ To(j, "leave")
  /\ UNCHANGED <<envVars, attempts, closed, dialog, joinCtx, timers, queueReturn, returned,
                 crashed, histVars>>

\* The listener's send and the receive in the loop.
Receive(j) ==
  /\ join[j] = "select" /\ lis = "send" /\ event.attempt = j /\ j \notin closed
  /\ lis' = "read" /\ event' = NoEvent
  /\ IF event.name = "bridged"
       THEN timers' = [timers EXCEPT ![j] = "off"] /\ UNCHANGED join
       ELSE To(j, "leave") /\ UNCHANGED timers
  /\ UNCHANGED <<envVars, attempts, closed, dialog, joinCtx, queueReturn, returned, crashed,
                 histVars>>

\* Mutant: the channel stays in the connection.
LeaveQueueNot(j) ==
  /\ join[j] = "leave"
  /\ To(j, "unsubscribe")
  /\ UNCHANGED <<envVars, lisVars, dialog, joinCtx, timers, queueReturn, returned, crashed,
                 histVars>>

\* The deferred calls: the channel in the connection is dropped, whoever's it is.
LeaveQueue(j) ==
  /\ join[j] = "leave"
  /\ queueReturn' = [queueReturn EXCEPT ![dialog[j]] = 0]
  /\ To(j, "unsubscribe")
  /\ UNCHANGED <<envVars, lisVars, dialog, joinCtx, timers, returned, crashed, histVars>>

UnSubscribeAttempt(j) ==
  /\ join[j] = "unsubscribe"
  /\ attempts' = attempts \ {j} /\ closed' = closed \cup {j}
  /\ timers' = [timers EXCEPT ![j] = "off"]
  /\ To(j, "done")
  /\ joinCtx' = [joinCtx EXCEPT ![j] = "done"] /\ returned' = returned \ {j}  \* not used again
  /\ UNCHANGED <<envVars, lis, event, dialog, queueReturn, crashed, histVars>>

-----------------------------------------------------------------------------
(* The control plane: a dialog is suspended, or handed back by the operator. *)

SuspendJoin(j) ==
  /\ join[j] \notin {"no", "done"} /\ joinCtx[j] = "live"
  /\ joinCtx' = [joinCtx EXCEPT ![j] = "done"] /\ timers' = [timers EXCEPT ![j] = "off"]
  /\ cutOff' = cutOff \cup {j}
  /\ UNCHANGED <<envVars, lisVars, join, dialog, queueReturn, returned, crashed, missed>>

ReturnFromQueue(d) ==
  /\ queueReturn[d] # 0
  /\ returned' = returned \cup {queueReturn[d]}
  /\ cutOff' = cutOff \cup {queueReturn[d]}
  /\ queueReturn' = [queueReturn EXCEPT ![d] = 0]
  /\ UNCHANGED <<envVars, lisVars, join, dialog, joinCtx, timers, crashed, missed>>

-----------------------------------------------------------------------------

CcGoroutines ==
  \/ \E k \in 1..MaxConsumers : Look(k)
  \/ SendClosed
  \/ \E j \in Join : \/ JoinIMToQueue(j) \/ SubscribeAttempt(j) \/ EnterQueue(j)
                     \/ Interrupted(j) \/ Receive(j) \/ LeaveQueue(j)
                     \/ UnSubscribeAttempt(j)

CcNext ==
  /\ crashed = "no"
  /\ \/ ConnectionLost \/ Resubscribe
     \/ \E j \in Join : \/ \E d \in Dialog : Begin(j, d)
                        \/ BridgeAttempt(j) \/ EndAttempt(j) \/ SuspendJoin(j)
     \/ \E d \in Dialog : ReturnFromQueue(d)
     \/ CcGoroutines

CcSpec == CcInit /\ [][CcNext]_ccVars /\ WF_ccVars(crashed = "no" /\ CcGoroutines)

-----------------------------------------------------------------------------
(* Properties. *)

\* The listener sends on a closed channel only if the joinQueue was interrupted,
\* or the events come more than once (app/cc/client.go:133, unlocked).
PanicNeedsInterrupt ==
  crashed = "closed" => several = "yes" \/ event.attempt \in cutOff

\* The channel in a connection is that of a joinQueue in the queue, and a
\* joinQueue in the queue can be handed back, unless it or an earlier one of the
\* dialog was interrupted: LeaveQueue drops the channel, whoever's it is.
HandBackHeard ==
  \A d \in Dialog, j \in Join :
    /\ queueReturn[d] = j => join[j] \in {"select", "leave"} /\ dialog[j] = d
    /\ join[j] = "select" /\ dialog[j] = d =>
         queueReturn[d] = j \/ \E i \in cutOff : i <= j /\ dialog[i] = d

\* In the end a dialog whose attempt has ended is out of the queue, and the waiting
\* timers of one that an operator has are stopped, unless an event of the attempt
\* came before the subscription: the listener drops it (app/cc/client.go:129-132);
\* or was lost with the connection (mq/rabbit/client.go:299-313).
EventsHeeded ==
  <>[](\A j \in Join :
         \/ /\ cc[j] = "left" => join[j] = "done"
            /\ cc[j] = "bridged" => timers[j] = "off"
         \/ j \in missed \/ crashed # "no")
====
