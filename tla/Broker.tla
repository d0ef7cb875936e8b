------------------------------- MODULE Broker --------------------------------
(***************************************************************************)
(* The client of the message broker, mq/rabbit/client.go.  Each consumer   *)
(* goroutine that sees its deliveries end runs initConnection, by itself:  *)
(* it dials, opens a channel and subscribes to all topics again.  The runs *)
(* go on at the same time and share the fields connection and channel, so  *)
(* that one run may subscribe on what another one has opened; they have no *)
(* state of their own but where they are, and are counted for each place.  *)
(*                                                                         *)
(* Three topics stand for five: exec, which shares one durable queue like  *)
(* call, and im, which has a queue for each subscription like cc, resume   *)
(* in the same way.  Connections and channels are numbered as they open.   *)
(***************************************************************************)
EXTENDS Integers, FiniteSets

CONSTANTS MaxConns,     \* bound on the connections dialled
          MaxAttempts,  \* MAX_ATTEMPTS_CONNECT
          MaxFaults     \* bound on lost connections and cancelled consumers

ASSUME BrokerAssumption == {MaxConns, MaxAttempts, MaxFaults} \subseteq Nat \ {0}

Conn == 1..MaxConns
Chan == Conn
Topic == {"call", "cc", "settings"}

VARIABLES opened,              \* connections dialled so far
          dead,                \* the lost ones
          connection, channel, \* the fields of the client
          on,                  \* the connection of each channel
          subs,                \* consumers of each topic on each channel
          runs,                \* runs of initConnection at each place
          connectionAttempts,
          exited,              \* why the process has exited
          faults,              \* faults to come
          silenced,            \* history: settings consumers ended alone
          callQueue,           \* the call event, in its durable queue
          holder,              \* the channel on which it waits for its ack
          hand,                \* where the consumer of each channel is with it
          handled              \* history: how often it was handled

linkVars == <<opened, dead, connection, channel, on, connectionAttempts>>
callVars == <<callQueue, holder, hand, handled>>
brokerVars == <<linkVars, subs, runs, exited, faults, silenced, callVars>>

Place == {"init", "dial", "channel"} \cup Topic

BrokerInit ==
  /\ opened = 0 /\ dead = {} /\ connection = 0 /\ channel = 0
  /\ on = [c \in Chan |-> 0]
  /\ subs = [t \in Topic |-> [c \in Chan |-> 0]]
  /\ runs = [p \in Place |-> IF p = "init" THEN 1 ELSE 0]
  /\ connectionAttempts = 0 /\ exited = "no"
  /\ faults = MaxFaults /\ silenced = "no"
  /\ callQueue = "none" /\ holder = 0 /\ hand = [c \in Chan |-> "none"] /\ handled = 0

-----------------------------------------------------------------------------
(* initConnection. *)

Move(p, q) == runs' = [runs EXCEPT ![p] = @ - 1, ![q] = @ + 1]
Leave(p) == runs' = [runs EXCEPT ![p] = @ - 1]

GiveUp ==
  /\ runs["init"] > 0 /\ connectionAttempts >= MaxAttempts
  /\ exited' = "attempts"
  /\ UNCHANGED <<linkVars, subs, runs, faults, silenced, callVars>>

Attempt ==
  /\ runs["init"] > 0 /\ connectionAttempts < MaxAttempts
  /\ connectionAttempts' = connectionAttempts + 1
  /\ Move("init", "dial")
  /\ UNCHANGED <<opened, dead, connection, channel, on, subs, exited, faults, silenced,
                 callVars>>

\* A failed attempt overwrites the connection too.
DialFails ==
  /\ runs["dial"] > 0
  /\ connection' = 0
  /\ Move("dial", "init")
  /\ UNCHANGED <<opened, dead, channel, on, connectionAttempts, subs, exited, faults,
                 silenced, callVars>>

Dial ==
  /\ runs["dial"] > 0 /\ opened < MaxConns
  /\ opened' = opened + 1 /\ connection' = opened + 1
  /\ connectionAttempts' = 0
  /\ Move("dial", "channel")
  /\ UNCHANGED <<dead, channel, on, subs, exited, faults, silenced, callVars>>

\* On the connection that was dialled last, by whichever run; a nil connection
\* panics.
OpenChannel ==
  /\ runs["channel"] > 0
  /\ IF connection \in dead \cup {0}
       THEN exited' = "channel" /\ UNCHANGED <<channel, on, runs>>
       ELSE \E c \in Chan :
              /\ on[c] = 0 /\ \A d \in 1..(c - 1) : on[d] # 0
              /\ channel' = c /\ on' = [on EXCEPT ![c] = connection]
              /\ Move("channel", "call")
              /\ UNCHANGED exited
  /\ UNCHANGED <<opened, dead, connection, connectionAttempts, subs, faults, silenced,
                 callVars>>

Alive(c) == on[c] \notin dead

\* On the channel that was opened last.  Any failure ends the process; so does
\* a second consumer for calls on one channel, as both have the node's name.
Subscribe(t, next) ==
  /\ runs[t] > 0
  /\ IF Alive(channel) /\ ~(t = "call" /\ subs["call"][channel] > 0)
       THEN /\ subs' = [subs EXCEPT ![t][channel] = @ + 1]
            /\ silenced' = IF t = "settings" THEN "no" ELSE silenced
            /\ IF next = "end" THEN Leave(t) ELSE Move(t, next)
            /\ UNCHANGED exited
       ELSE /\ exited' = IF Alive(channel) THEN "tag" ELSE "channel"
            /\ UNCHANGED <<subs, runs, silenced>>
  /\ UNCHANGED <<linkVars, faults, callVars>>

SubscribeCall == Subscribe("call", "cc")
SubscribeCC == Subscribe("cc", "settings")
SubscribeSystemSettings == Subscribe("settings", "end")

-----------------------------------------------------------------------------
(* Faults. *)

\* Mutant: only the consumer of the calls connects again.
ResumesCall(n) == n["call"]

\* The consumers of the topics that connect again when their deliveries end.
Resumes(n) == n["call"] + n["cc"]

\* n[t] consumers of each topic t see their deliveries end.
Ended(n) ==
  /\ runs' = [runs EXCEPT !["init"] = @ + Resumes(n)]
  /\ silenced' = IF n["settings"] > 0 /\ Resumes(n) = 0 THEN "yes" ELSE silenced

\* The consumers of topic t on the channels lost.
Consumers(t, lost) == UNION {{c} \X (1..subs[t][c]) : c \in lost}

\* A connection is lost with its channels; what was not acknowledged returns.
Drop(k) ==
  /\ faults > 0 /\ faults' = faults - 1
  /\ k <= opened /\ k \notin dead
  /\ dead' = dead \cup {k}
  /\ LET lost == {c \in Chan : on[c] = k}
         ends == [t \in Topic |-> Cardinality(Consumers(t, lost))]
     IN  /\ subs' = [t \in Topic |-> [c \in Chan |-> IF c \in lost THEN 0 ELSE subs[t][c]]]
         /\ Ended(ends)
         /\ IF holder \in lost
              THEN callQueue' = "queued" /\ holder' = 0
              ELSE UNCHANGED <<callQueue, holder>>
  /\ UNCHANGED <<opened, connection, channel, on, connectionAttempts, exited, hand, handled>>

\* The broker cancels one consumer, say when it moves or deletes its queue.
CancelConsumer(t, c) ==
  /\ faults > 0 /\ faults' = faults - 1
  /\ subs[t][c] > 0
  /\ subs' = [subs EXCEPT ![t][c] = @ - 1]
  /\ Ended([s \in Topic |-> IF s = t THEN 1 ELSE 0])
  /\ UNCHANGED <<linkVars, exited, callVars>>

-----------------------------------------------------------------------------
(* One call event, from the queue to the channel that the node reads. *)

PublishCall ==
  /\ callQueue = "none" /\ callQueue' = "queued"
  /\ UNCHANGED <<linkVars, subs, runs, exited, faults, silenced, holder, hand, handled>>

DeliverCall(c) ==
  /\ callQueue = "queued" /\ subs["call"][c] > 0 /\ hand[c] = "none"
  /\ callQueue' = "unacked" /\ holder' = c
  /\ hand' = [hand EXCEPT ![c] = "handle"]
  /\ UNCHANGED <<linkVars, subs, runs, exited, faults, silenced, handled>>

\* Mutant: the event is dropped and acknowledged.
HandleCallDrops(c) ==
  /\ hand[c] = "handle"
  /\ hand' = [hand EXCEPT ![c] = "ack"]
  /\ UNCHANGED <<linkVars, subs, runs, exited, faults, silenced, callQueue, holder, handled>>

HandleCall(c) ==
  /\ hand[c] = "handle"
  /\ hand' = [hand EXCEPT ![c] = "ack"]
  /\ handled' = handled + 1
  /\ UNCHANGED <<linkVars, subs, runs, exited, faults, silenced, callQueue, holder>>

\* Without effect on a lost connection.
AckCall(c) ==
  /\ hand[c] = "ack"
  /\ hand' = [hand EXCEPT ![c] = "none"]
  /\ IF holder = c THEN callQueue' = "done" /\ holder' = 0
                   ELSE UNCHANGED <<callQueue, holder>>
  /\ UNCHANGED <<linkVars, subs, runs, exited, faults, silenced, handled>>

-----------------------------------------------------------------------------

BrokerGoroutines ==
  \/ GiveUp \/ Attempt \/ DialFails \/ Dial \/ OpenChannel
  \/ SubscribeCall \/ SubscribeCC \/ SubscribeSystemSettings
  \/ \E c \in Chan : DeliverCall(c) \/ HandleCall(c) \/ AckCall(c)

Faults ==
  \/ \E k \in Conn : Drop(k)
  \/ \E t \in Topic, c \in Chan : CancelConsumer(t, c)

-----------------------------------------------------------------------------
(* Properties. *)

Settled == exited = "no" /\ \A p \in Place : runs[p] = 0

\* When no run of initConnection goes on, every topic has a consumer on a live
\* connection, but for the settings if their consumers ended alone: they do not
\* connect again (client.go:406-417).
Listening ==
  Settled => \A t \in Topic :
    \/ \E c \in Chan : subs[t][c] > 0 /\ Alive(c)
    \/ t = "settings" /\ silenced = "yes"

\* A call event that can be parsed is handed to callEvent, which is in memory, at
\* least once, unless the process exits: it returns to its queue until it was
\* acknowledged, and then there is a consumer again.
CallHandled == callQueue = "queued" ~> handled > 0 \/ exited # "no"
====
