--------------------------- MODULE ImSessionProofs ---------------------------
(***************************************************************************)
(* For any nodes, sessions and bounds: no row is left behind, and a dialog *)
(* keeps its claim while nothing ends.                                     *)
(***************************************************************************)
EXTENDS ImSession, TLAPS

LEMMA BoundDomain == DOMAIN Bound = {"message", "leave", "end", "crash", "error", "evict"}
  BY DEF Bound

\* A bounded step counts one of its kind and no other.
LEMMA UseType ==
  ASSUME used \in [DOMAIN Bound -> Nat], NEW b \in DOMAIN Bound, Use(b)
  PROVE  /\ used' \in [DOMAIN Bound -> Nat]
         /\ used'[b] # 0
         /\ \A a \in DOMAIN Bound : a # b => used'[a] = used[a]
  BY DEF Use

\* What the broker sends is an event.
LEMMA MessageType ==
  ASSUME NEW r \in Receivers
  PROVE  Message(r) \in Event /\ Message(r).type = "message"
  BY SessionAssumption DEF Message, Event

LEMMA LeaveType == Leave \in Event /\ Leave.type = "leave"
  BY DEF Leave, Event

-----------------------------------------------------------------------------
LEMMA Updated ==
  ASSUME NEW D, NEW S, NEW f \in [D -> S], NEW g, NEW d, NEW v \in S,
         g = f \/ g = [f EXCEPT ![d] = v]
  PROVE  g \in [D -> S]
  OBVIOUS

LEMMA TypeInit == Init => TypeOK
<1> SUFFICES ASSUME Init PROVE TypeOK
  OBVIOUS
<1>1. queue \in [Node -> Seq(Event)] /\ todo \in [Node -> Seq(Session)]
  BY DEF Init
<1> QED
  BY <1>1 DEF Init, TypeOK

LEMMA TypeNext == TypeOK /\ [Next]_vars => TypeOK'
<1> SUFFICES ASSUME TypeOK, [Next]_vars PROVE TypeOK'
  OBVIOUS
<1> USE DEF TypeOK
<1>1. CASE Publish
  <2>1. ASSUME NEW e \in Event, Send(e) PROVE queue' \in [Node -> Seq(Event)]
    BY <2>1 DEF Send
  <2>2. used' \in [DOMAIN Bound -> Nat]
    BY <1>1, UseType, BoundDomain DEF Publish
  <2>4. queue' \in [Node -> Seq(Event)]
    BY <1>1, <2>1, MessageType, LeaveType DEF Publish
  <2> QED
    BY <1>1, <2>2, <2>4 DEF Publish
<1>2. ASSUME NEW n \in Node, NodeMessage(n) PROVE TypeOK'
  <2>1. Head(queue[n]) \in Event /\ Tail(queue[n]) \in Seq(Event)
    BY <1>2 DEF NodeMessage
  <2>2. Head(queue[n]).to \in Seq(Session)
    BY <2>1 DEF Event
  <2> QED
    BY <1>2, <2>1, <2>2 DEF NodeMessage
<1>3. ASSUME NEW n \in Node, Receiver(n) PROVE TypeOK'
  <2>1. Head(todo[n]) \in Session /\ Tail(todo[n]) \in Seq(Session)
    BY <1>3 DEF Receiver
  <2>a. todo' = [todo EXCEPT ![n] = Tail(todo[n])] \/ todo' = [todo EXCEPT ![n] = <<>>]
    BY Zenon, <1>3 DEF Receiver
  <2>b. conn' = conn \/ conn' = [conn EXCEPT ![n] = [@ EXCEPT ![Head(todo[n])] = "live"]]
    BY <1>3 DEF Receiver
  <2>c. <<>> \in Seq(Session)
    OBVIOUS
  <2>3. todo' \in [Node -> Seq(Session)]
    <3> HIDE DEF TypeOK
    <3>1. todo \in [Node -> Seq(Session)]
      BY DEF TypeOK
    <3>2. CASE todo' = [todo EXCEPT ![n] = Tail(todo[n])]
      BY <2>1, <3>1, <3>2, Updated
    <3>3. CASE todo' = [todo EXCEPT ![n] = <<>>]
      BY <2>c, <3>1, <3>3, Updated
    <3> QED
      BY <2>a, <3>2, <3>3
  <2>4. used' \in [DOMAIN Bound -> Nat]
    BY <1>3, UseType, BoundDomain DEF Receiver
  <2>5. conn' \in [Node -> [Session -> {"none", "live", "broken"}]]
    <3> HIDE DEF TypeOK
    <3>1. /\ conn \in [Node -> [Session -> {"none", "live", "broken"}]]
          /\ conn[n] \in [Session -> {"none", "live", "broken"}]
      BY DEF TypeOK
    <3>2. [conn[n] EXCEPT ![Head(todo[n])] = "live"] \in [Session -> {"none", "live", "broken"}]
      BY Zenon, <3>1
    <3>3. \/ conn' = conn
          \/ conn' = [conn EXCEPT ![n] = [conn[n] EXCEPT ![Head(todo[n])] = "live"]]
      BY <2>b
    <3> QED
      BY <3>1, <3>2, <3>3, Updated
  <2>d. row' = row \/ row' = [row EXCEPT ![Head(todo[n])] = n]
    BY Zenon, <1>3 DEF Receiver, Touch
  <2>6. row' \in [Session -> Node \cup {None}]
    <3> HIDE DEF TypeOK
    <3>1. row \in [Session -> Node \cup {None}]
      BY DEF TypeOK
    <3> QED
      BY <2>d, <3>1, Updated
  <2>7. kept' \subseteq Node \X Session
    BY <1>3 DEF Receiver
  <2> QED
    BY Zenon, <1>3, <2>3, <2>4, <2>5, <2>6, <2>7 DEF Receiver
<1>4. ASSUME NEW n \in Node, HandleBotControlReleased(n) PROVE TypeOK'
  <2>1. Tail(queue[n]) \in Seq(Event)
    BY <1>4 DEF HandleBotControlReleased
  <2>2. used' \in [DOMAIN Bound -> Nat]
    BY <1>4, UseType, BoundDomain DEF HandleBotControlReleased
  <2>3. conn' \in [Node -> [Session -> {"none", "live", "broken"}]]
    BY <1>4 DEF HandleBotControlReleased
  <2>4. row' \in [Session -> Node \cup {None}]
    BY <1>4 DEF HandleBotControlReleased
  <2>5. kept' \subseteq Node \X Session
    BY <1>4 DEF HandleBotControlReleased
  <2> QED
    BY <1>4, <2>1, <2>2, <2>3, <2>4, <2>5 DEF HandleBotControlReleased
<1>5. ASSUME NEW n \in Node, NEW s \in Session, StopDelete(n, s) PROVE TypeOK'
  <2>1. used' \in [DOMAIN Bound -> Nat]
    BY <1>5, UseType, BoundDomain DEF StopDelete
  <2>2. lost' \in [Node -> [Session -> Nat]]
    BY <1>5 DEF StopDelete
  <2>3. conn' \in [Node -> [Session -> {"none", "live", "broken"}]]
    BY Zenon, <1>5 DEF StopDelete
  <2>4. removing' \in [Node -> [Session -> Nat]]
    BY <1>5 DEF StopDelete
  <2> QED
    BY Zenon, <1>5, <2>1, <2>2, <2>3, <2>4 DEF StopDelete
<1>6. ASSUME NEW n \in Node, NEW s \in Session, StopRemove(n, s) PROVE TypeOK'
  <2>1. used' \in [DOMAIN Bound -> Nat]
    BY <1>6, UseType, BoundDomain DEF StopRemove
  <2>2. row' \in [Session -> Node \cup {None}]
    BY Zenon, <1>6 DEF StopRemove
  <2>3. kept' \subseteq Node \X Session
    BY <1>6 DEF StopRemove
  <2>4. removing' \in [Node -> [Session -> Nat]]
    BY <1>6 DEF StopRemove
  <2> QED
    BY Zenon, <1>6, <2>1, <2>2, <2>3, <2>4 DEF StopRemove
<1>7. ASSUME NEW n \in Node, Gone(n), used' \in [DOMAIN Bound -> Nat] PROVE TypeOK'
  <2>1. queue' \in [Node -> Seq(Event)] /\ todo' \in [Node -> Seq(Session)]
    <3> HIDE DEF TypeOK
    <3>1. queue \in [Node -> Seq(Event)] /\ todo \in [Node -> Seq(Session)]
      BY DEF TypeOK
    <3>2. <<>> \in Seq(Event) /\ <<>> \in Seq(Session)
      OBVIOUS
    <3> QED
      BY Zenon, <1>7, <3>1, <3>2, Updated DEF Gone
  <2> DEFINE none == [s \in Session |-> "none"]
             zero == [s \in Session |-> 0]
  <2>2. conn' = [conn EXCEPT ![n] = none]
    BY Zenon, <1>7 DEF Gone
  <2>3. lost' = [lost EXCEPT ![n] = zero] /\ removing' = [removing EXCEPT ![n] = zero]
    BY Zenon, <1>7 DEF Gone
  <2>4. none \in [Session -> {"none", "live", "broken"}] /\ zero \in [Session -> Nat]
    OBVIOUS
  <2> HIDE DEF none, zero
  <2>5. conn' \in [Node -> [Session -> {"none", "live", "broken"}]]
    BY Zenon, <2>2, <2>4
  <2>6. lost' \in [Node -> [Session -> Nat]] /\ removing' \in [Node -> [Session -> Nat]]
    BY Zenon, <2>3, <2>4
  <2>7. up' \subseteq Node /\ stop' \in [Node -> {"no", "asked", "removed"}]
    BY Zenon, <1>7 DEF Gone
  <2> QED
    BY Zenon, <1>7, <2>1, <2>5, <2>6, <2>7 DEF Gone
<1>8. ASSUME NEW n \in Node, Crash(n) \/ Exit(n) PROVE TypeOK'
  <2>1. used' \in [DOMAIN Bound -> Nat]
    BY <1>8, UseType, BoundDomain DEF Crash, Exit
  <2> QED
    BY Zenon, <1>7, <1>8, <2>1 DEF Crash, Exit
<1>9. ASSUME NEW n \in Node, Start(n) \/ Shutdown(n) \/ StopRemoveAll(n) PROVE TypeOK'
  <2>1. used' \in [DOMAIN Bound -> Nat]
    BY <1>9, UseType, BoundDomain DEF Start, Shutdown, StopRemoveAll
  <2>2. RemoveAll(n) => row' \in [Session -> Node \cup {None}] /\ kept' \subseteq Node \X Session
    BY DEF RemoveAll
  <2>3. row' \in [Session -> Node \cup {None}] /\ kept' \subseteq Node \X Session
    BY Zenon, <1>9, <2>2 DEF Start, Shutdown, StopRemoveAll
  <2>4. up' \subseteq Node /\ stop' \in [Node -> {"no", "asked", "removed"}]
    BY Zenon, <1>9 DEF Start, Shutdown, StopRemoveAll
  <2> QED
    BY Zenon, <1>9, <2>1, <2>3, <2>4 DEF Start, Shutdown, StopRemoveAll
<1>10. ASSUME NEW n \in Node, NEW s \in Session, Evict(n, s) PROVE TypeOK'
  <2>1. used' \in [DOMAIN Bound -> Nat]
    BY <1>10, UseType, BoundDomain DEF Evict
  <2>2. conn' \in [Node -> [Session -> {"none", "live", "broken"}]]
    BY Zenon, <1>10 DEF Evict
  <2>3. lost' \in [Node -> [Session -> Nat]]
    BY <1>10 DEF Evict
  <2> QED
    BY Zenon, <1>10, <2>1, <2>2, <2>3 DEF Evict
<1>11. CASE UNCHANGED vars
  BY <1>11 DEF vars
<1> QED
  BY Zenon, <1>1, <1>2, <1>3, <1>4, <1>5, <1>6, <1>8, <1>9, <1>10, <1>11 DEF Next

\* The state of the nodes, the queues and the table has its shape.
THEOREM TypeCorrect == Spec => []TypeOK
  BY TypeInit, TypeNext, PTL DEF Spec

-----------------------------------------------------------------------------
\* What accounts for a row of a node that is up.
Backed(n, s) ==
  conn[n][s] # "none" \/ lost[n][s] > 0 \/ removing[n][s] > 0 \/ <<n, s>> \in kept

LEMMA BackedInit == Init => RowBacked
  BY SessionAssumption DEF Init, RowBacked

\* What disturbs the row of a session also accounts for it.
LEMMA BackedNext == TypeOK /\ RowBacked /\ [Next]_vars => RowBacked'
<1> SUFFICES ASSUME TypeOK, RowBacked, [Next]_vars,
                    NEW k \in Node, NEW t \in Session, row'[t] = k, k \in up'
             PROVE  Backed(k, t)'
  BY DEF RowBacked, Backed
<1>0. row[t] = k /\ k \in up => Backed(k, t)
  BY DEF RowBacked, Backed
<1> USE SessionAssumption DEF TypeOK
<1>1. CASE Publish
  BY <1>0, <1>1 DEF Publish, Backed
<1>2. ASSUME NEW n \in Node, NodeMessage(n) PROVE Backed(k, t)'
  BY <1>0, <1>2 DEF NodeMessage, Backed
<1>3. ASSUME NEW n \in Node, Receiver(n) PROVE Backed(k, t)'
  <2> DEFINE s == Head(todo[n])
  <2>1. s \in Session /\ up' = up /\ removing' = removing /\ lost' = lost
    BY <1>3 DEF Receiver
  <2>2. \/ conn' = conn /\ row' = row /\ kept' = kept
        \/ /\ row' = [row EXCEPT ![s] = n]
           /\ conn' = [conn EXCEPT ![n] = [@ EXCEPT ![s] = "live"]]
           /\ kept' = kept \ {<<n, s>>}
    BY Zenon, <1>3 DEF Receiver, Touch
  <2> HIDE DEF s
  <2>3. CASE conn' = conn /\ row' = row /\ kept' = kept
    BY <1>0, <2>1, <2>3 DEF Backed
  <2>4. CASE /\ row' = [row EXCEPT ![s] = n]
             /\ conn' = [conn EXCEPT ![n] = [@ EXCEPT ![s] = "live"]]
             /\ kept' = kept \ {<<n, s>>}
    <3>1. CASE t = s
      BY <2>1, <2>4, <3>1 DEF Backed
    <3>2. CASE t # s
      BY <1>0, <2>1, <2>4, <3>2 DEF Backed
    <3> QED
      BY <3>1, <3>2
  <2> QED
    BY Zenon, <2>2, <2>3, <2>4
<1>4. ASSUME NEW n \in Node, HandleBotControlReleased(n) PROVE Backed(k, t)'
  <2>1. conn[k][t] # "none" => conn'[k][t] # "none"
    BY <1>4 DEF HandleBotControlReleased
  <2>2. row' = row /\ kept' = kept
    BY <1>4 DEF HandleBotControlReleased
  <2>3. up' = up /\ removing' = removing /\ lost' = lost
    BY <1>4 DEF HandleBotControlReleased
  <2> QED
    BY <1>0, <2>1, <2>2, <2>3 DEF Backed
<1>5. ASSUME NEW n \in Node, NEW s \in Session, StopDelete(n, s) PROVE Backed(k, t)'
  <2>1. /\ conn' = [conn EXCEPT ![n] = [@ EXCEPT ![s] = "none"]]
        /\ removing' = [removing EXCEPT ![n] = [@ EXCEPT ![s] = removing[n][s] + 1]]
        /\ row' = row /\ kept' = kept /\ up' = up
        /\ lost' = lost \/ lost' = [lost EXCEPT ![n] = [@ EXCEPT ![s] = lost[n][s] - 1]]
    BY Zenon, <1>5 DEF StopDelete
  <2>2. CASE k = n /\ t = s
    BY <2>1, <2>2 DEF Backed
  <2>3. CASE ~(k = n /\ t = s)
    <3>1. conn'[k][t] = conn[k][t] /\ removing'[k][t] = removing[k][t]
      <4>1. CASE k # n
        BY Zenon, <2>1, <4>1
      <4>2. CASE k = n /\ t # s
        <5>1. conn'[n] = [conn[n] EXCEPT ![s] = "none"]
          BY Zenon, <2>1
        <5>2. removing'[n] = [removing[n] EXCEPT ![s] = removing[n][s] + 1]
          BY Zenon, <2>1
        <5>3. conn[n] \in [Session -> {"none", "live", "broken"}] /\ removing[n] \in [Session -> Nat]
          BY Zenon
        <5>4. conn'[n][t] = conn[n][t]
          BY Zenon, <4>2, <5>1, <5>3
        <5>5. removing'[n][t] = removing[n][t]
          BY Zenon, <4>2, <5>2, <5>3
        <5> QED
          BY Zenon, <4>2, <5>4, <5>5
      <4> QED
        BY Zenon, <2>3, <4>1, <4>2
    <3>2. lost'[k][t] = lost[k][t]
      <4>1. CASE lost' = lost
        BY <4>1
      <4>2. CASE lost' = [lost EXCEPT ![n] = [@ EXCEPT ![s] = lost[n][s] - 1]]
        <5>1. lost'[n] = [lost[n] EXCEPT ![s] = lost[n][s] - 1]
          BY Zenon, <4>2
        <5> QED
          BY Zenon, <2>3, <4>2, <5>1
      <4> QED
        BY Zenon, <2>1, <4>1, <4>2
    <3> QED
      BY Zenon, <1>0, <2>1, <3>1, <3>2 DEF Backed
  <2> QED
    BY <2>2, <2>3
<1>6. ASSUME NEW n \in Node, NEW s \in Session, StopRemove(n, s) PROVE Backed(k, t)'
  <2>1. /\ removing' = [removing EXCEPT ![n] = [@ EXCEPT ![s] = removing[n][s] - 1]]
        /\ conn' = conn /\ lost' = lost /\ up' = up
    BY <1>6 DEF StopRemove
  <2>2. \/ /\ row' = [row EXCEPT ![s] = IF row[s] = n THEN None ELSE row[s]]
           /\ kept' = kept \ {<<n, s>>}
        \/ kept' = kept \cup {<<n, s>>} /\ row' = row
    BY Zenon, <1>6 DEF StopRemove
  <2>3. CASE k = n /\ t = s
    BY <2>2, <2>3 DEF Backed
  <2>4. CASE ~(k = n /\ t = s)
    <3>1. removing'[k][t] = removing[k][t]
      BY <2>1, <2>4
    <3>2. row[t] = k /\ (<<k, t>> \in kept => <<k, t>> \in kept')
      BY Zenon, <2>2, <2>4
    <3> QED
      BY <1>0, <2>1, <3>1, <3>2 DEF Backed
  <2> QED
    BY <2>3, <2>4
<1>7. ASSUME NEW n \in Node, Gone(n) PROVE Backed(k, t)'
  <2>1. k # n /\ row' = row /\ kept' = kept /\ k \in up
    BY <1>7 DEF Gone
  <2>2. conn'[k] = conn[k] /\ lost'[k] = lost[k] /\ removing'[k] = removing[k]
    BY <1>7, <2>1 DEF Gone
  <2> QED
    BY <1>0, <2>1, <2>2 DEF Backed
<1>8. ASSUME NEW n \in Node, Start(n) \/ Shutdown(n) \/ StopRemoveAll(n) PROVE Backed(k, t)'
  <2>1. conn' = conn /\ lost' = lost /\ removing' = removing
    BY Zenon, <1>8 DEF Start, Shutdown, StopRemoveAll
  <2>2. \/ RemoveAll(n)
        \/ row' = row /\ kept' = kept
    BY Zenon, <1>8 DEF Start, Shutdown, StopRemoveAll
  <2>3. row[t] = k /\ (<<k, t>> \in kept => <<k, t>> \in kept')
    BY Zenon, <2>2 DEF RemoveAll
  <2>4. k \in up
    <3>1. CASE up' = up
      BY <3>1
    <3>2. CASE Start(n)
      BY <3>2 DEF Start, RemoveAll
    <3> QED
      BY Zenon, <1>8, <3>1, <3>2 DEF Shutdown, StopRemoveAll
  <2> QED
    BY <1>0, <2>1, <2>3, <2>4 DEF Backed
<1>9. ASSUME NEW n \in Node, NEW s \in Session, Evict(n, s) PROVE Backed(k, t)'
  <2>1. /\ conn' = [conn EXCEPT ![n] = [@ EXCEPT ![s] = "none"]]
        /\ lost' = [lost EXCEPT ![n] = [@ EXCEPT ![s] = lost[n][s] + 1]]
        /\ row' = row /\ kept' = kept /\ up' = up /\ removing' = removing
    BY <1>9 DEF Evict
  <2>2. CASE k = n /\ t = s
    BY <2>1, <2>2 DEF Backed
  <2>3. CASE ~(k = n /\ t = s)
    <3>1. conn'[k][t] = conn[k][t] /\ lost'[k][t] = lost[k][t]
      BY Zenon, <2>1, <2>3
    <3> QED
      BY Zenon, <1>0, <2>1, <3>1 DEF Backed
  <2> QED
    BY <2>2, <2>3
<1>10. CASE UNCHANGED vars
  BY <1>0, <1>10 DEF vars, Backed
<1> QED
  BY Zenon, <1>1, <1>2, <1>3, <1>4, <1>5, <1>6, <1>7, <1>8, <1>9, <1>10 DEF Next, Crash, Exit

\* No row is left behind by a node that is up, whatever crashes, leaves and
\* ends there are (startDialog, stopConnection, RemoveByThread, RemoveAll).
THEOREM NoRowLeftBehind == Spec => []RowBacked
<1>1. Init => TypeOK /\ RowBacked
  BY TypeInit, BackedInit
<1>2. (TypeOK /\ RowBacked) /\ [Next]_vars => (TypeOK /\ RowBacked)'
  BY TypeNext, BackedNext
<1> QED
  BY <1>1, <1>2, PTL DEF Spec

-----------------------------------------------------------------------------
\* While no schema has ended and nobody has left, no connection is broken, no row
\* waits for its removal, no queue holds a leave, and whoever runs a dialog is up
\* and owns its row, unless it has removed its rows to stop.
QuietAt(n, s) ==
  /\ conn[n][s] # "broken" /\ removing[n][s] = 0
  /\ conn[n][s] = "live" \/ lost[n][s] > 0 =>
       n \in up /\ (row[s] = n \/ stop[n] = "removed")

NoLeave(n) == \A i \in 1..Len(queue[n]) : queue[n][i].type # "leave"

Quiet ==
  used["end"] = 0 /\ used["leave"] = 0 =>
    \A n \in Node : NoLeave(n) /\ \A s \in Session : QuietAt(n, s)

LEMMA QuietInit == Init => Quiet
<1> SUFFICES ASSUME Init, NEW n \in Node
             PROVE  NoLeave(n) /\ \A s \in Session : QuietAt(n, s)
  BY Zenon DEF Quiet
<1>1. queue[n] = <<>> /\ Len(<<>>) = 0
  BY DEF Init
<1>2. NoLeave(n)
  BY <1>1 DEF NoLeave
<1>3. \A s \in Session : conn[n][s] = "none" /\ lost[n][s] = 0 /\ removing[n][s] = 0
  BY DEF Init
<1> QED
  BY <1>2, <1>3 DEF QuietAt

\* Nothing is forgotten: the counters never come back to zero.
LEMMA UsedGrows ==
  ASSUME TypeOK, [Next]_vars, used'["end"] = 0, used'["leave"] = 0
  PROVE  used["end"] = 0 /\ used["leave"] = 0
<1> USE BoundDomain DEF TypeOK
<1>1. ASSUME NEW b \in DOMAIN Bound, Use(b) PROVE used["end"] = 0 /\ used["leave"] = 0
  <2>1. used'[b] # 0 /\ \A a \in DOMAIN Bound : a # b => used'[a] = used[a]
    BY <1>1, UseType
  <2> QED
    BY <2>1
<1>2. used' = used \/ \E b \in DOMAIN Bound : Use(b)
  BY ZenonT(60) DEF Next, vars, Publish, NodeMessage, Receiver, HandleBotControlReleased, StopDelete,
         StopRemove, Evict, Crash, Start, Shutdown, StopRemoveAll, Exit
<1> QED
  BY <1>1, <1>2

LEMMA QuietNext == TypeOK /\ Quiet /\ [Next]_vars => Quiet'
<1> SUFFICES ASSUME TypeOK, Quiet, [Next]_vars, used'["end"] = 0, used'["leave"] = 0,
                    NEW k \in Node
             PROVE  NoLeave(k)' /\ \A t \in Session : QuietAt(k, t)'
  BY DEF Quiet
<1>0. /\ used["end"] = 0 /\ used["leave"] = 0
      /\ \A n \in Node : NoLeave(n) /\ \A s \in Session : QuietAt(n, s)
  BY UsedGrows DEF Quiet
<1>a. queue \in [Node -> Seq(Event)]
  BY DEF TypeOK
<1>1. CASE Publish
  <2>1. \E r \in Receivers : Send(Message(r))
    <3>1. ASSUME Use("leave") PROVE FALSE
      BY <3>1, UseType, BoundDomain DEF TypeOK
    <3> QED
      BY <1>1, <3>1 DEF Publish
  <2>2. PICK e \in Event : e.type = "message" /\ Send(e)
    BY <2>1, MessageType
  <2>3. NoLeave(k)'
    <3>1. CASE queue'[k] = queue[k]
      BY <1>0, <3>1 DEF NoLeave
    <3>2. CASE queue'[k] = Append(queue[k], e)
      BY <1>0, <1>a, <2>2, <3>2 DEF NoLeave
    <3> QED
      BY <2>2, <3>1, <3>2 DEF Send
  <2> QED
    BY <1>0, <1>1, <2>3 DEF Publish, QuietAt
<1>2. ASSUME NEW n \in Node, NodeMessage(n)
      PROVE  NoLeave(k)' /\ \A t \in Session : QuietAt(k, t)'
  <2>1. NoLeave(k)'
    <3>1. CASE k = n
      <4>1. queue[k] \in Seq(Event) /\ queue[k] # <<>> /\ queue'[k] = Tail(queue[k])
        BY <1>2, <1>a, <3>1 DEF NodeMessage
      <4>2. \A i \in 1..Len(Tail(queue[k])) : Tail(queue[k])[i] = queue[k][i + 1]
                                              /\ i + 1 \in 1..Len(queue[k])
        BY <4>1
      <4> QED
        BY <1>0, <4>1, <4>2 DEF NoLeave
    <3>2. CASE k # n
      BY <1>0, <1>2, <1>a, <3>2 DEF NoLeave, NodeMessage
    <3> QED
      BY <3>1, <3>2
  <2> QED
    BY <1>0, <1>2, <2>1 DEF NodeMessage, QuietAt
<1>3. ASSUME NEW n \in Node, Receiver(n)
      PROVE  NoLeave(k)' /\ \A t \in Session : QuietAt(k, t)'
  <2> DEFINE s == Head(todo[n])
  <2>0. todo[n] \in Seq(Session) /\ todo[n] # <<>>
    BY <1>3 DEF Receiver, TypeOK
  <2>1. /\ s \in Session /\ n \in up /\ up' = up /\ stop' = stop
        /\ lost' = lost /\ removing' = removing /\ queue' = queue
    BY <1>3, <2>0 DEF Receiver
  <2>2. \/ conn' = conn /\ row' = row
        \/ /\ row[s] \in {None, n}
           /\ row' = [row EXCEPT ![s] = n]
           /\ conn' = [conn EXCEPT ![n] = [@ EXCEPT ![s] = "live"]]
    BY <1>3 DEF Receiver, Touch
  <2> HIDE DEF s
  <2>3. NoLeave(k)'
    BY <1>0, <2>1 DEF NoLeave
  <2>4. ASSUME NEW t \in Session PROVE QuietAt(k, t)'
    <3>1. QuietAt(k, t)
      BY <1>0
    <3>2. CASE conn' = conn /\ row' = row
      BY <2>1, <3>1, <3>2 DEF QuietAt
    <3>3. CASE /\ row[s] \in {None, n}
               /\ row' = [row EXCEPT ![s] = n]
               /\ conn' = [conn EXCEPT ![n] = [@ EXCEPT ![s] = "live"]]
      <4>1. CASE t # s
        BY <2>1, <3>1, <3>3, <4>1 DEF QuietAt, TypeOK
      <4>2. CASE t = s /\ k = n
        BY <2>1, <3>1, <3>3, <4>2 DEF QuietAt, TypeOK
      <4>3. CASE t = s /\ k # n
        BY SessionAssumption, <2>1, <3>1, <3>3, <4>3 DEF QuietAt, TypeOK
      <4> QED
        BY <4>1, <4>2, <4>3
    <3> QED
      BY <2>2, <3>2, <3>3
  <2> QED
    BY <2>3, <2>4
<1>4. ASSUME NEW n \in Node, HandleBotControlReleased(n) PROVE FALSE
  <2>1. queue[n] \in Seq(Event) /\ queue[n] # <<>> /\ queue[n][1].type = "leave"
    BY <1>4, <1>a, LeaveType DEF HandleBotControlReleased
  <2> QED
    BY <1>0, <2>1 DEF NoLeave
<1>5. ASSUME NEW n \in Node, NEW s \in Session, StopDelete(n, s) PROVE FALSE
  <2>1. QuietAt(n, s)
    BY <1>0
  <2>2. Use("end")
    BY Zenon, <1>5, <2>1 DEF StopDelete, QuietAt
  <2> QED
    BY <2>2, UseType, BoundDomain DEF TypeOK
<1>6. ASSUME NEW n \in Node, NEW s \in Session, StopRemove(n, s) PROVE FALSE
  BY <1>0, <1>6 DEF StopRemove, QuietAt
<1>7. ASSUME NEW n \in Node, Gone(n)
      PROVE  NoLeave(k)' /\ \A t \in Session : QuietAt(k, t)'
  <2>1. CASE k = n
    <3>1. queue'[k] = <<>> /\ Len(<<>>) = 0
      BY <1>7, <1>a, <2>1 DEF Gone
    <3>2. NoLeave(k)'
      BY <3>1 DEF NoLeave
    <3>3. \A t \in Session : conn'[k][t] = "none" /\ lost'[k][t] = 0 /\ removing'[k][t] = 0
      BY <1>7, <2>1 DEF Gone, TypeOK
    <3> QED
      BY <3>2, <3>3 DEF QuietAt
  <2>2. CASE k # n
    <3>1. /\ queue'[k] = queue[k] /\ conn'[k] = conn[k] /\ lost'[k] = lost[k]
          /\ removing'[k] = removing[k] /\ stop'[k] = stop[k]
      BY <1>7, <2>2 DEF Gone, TypeOK
    <3>2. row' = row /\ (k \in up => k \in up')
      BY <1>7, <2>2 DEF Gone
    <3> QED
      BY <1>0, <3>1, <3>2 DEF NoLeave, QuietAt
  <2> QED
    BY <2>1, <2>2
<1>8. ASSUME NEW n \in Node, Start(n) \/ Shutdown(n) \/ StopRemoveAll(n)
      PROVE  NoLeave(k)' /\ \A t \in Session : QuietAt(k, t)'
  <2>1. queue' = queue /\ conn' = conn /\ lost' = lost /\ removing' = removing
    BY Zenon, <1>8 DEF Start, Shutdown, StopRemoveAll
  <2>2. NoLeave(k)'
    BY <1>0, <2>1 DEF NoLeave
  <2>3. ASSUME NEW t \in Session PROVE QuietAt(k, t)'
    <3>1. QuietAt(k, t)
      BY <1>0
    <3>2. CASE Start(n)
      <4>1. stop' = stop /\ up' = up \cup {n} /\ n \notin up /\ (k # n /\ row[t] = k => row'[t] = k)
        BY <3>2 DEF Start, RemoveAll, TypeOK
      <4> QED
        BY <2>1, <3>1, <4>1 DEF QuietAt
    <3>3. CASE Shutdown(n)
      <4>1. row' = row /\ up' = up /\ (stop[k] = "removed" => stop'[k] = "removed")
        BY <3>3 DEF Shutdown, TypeOK
      <4> QED
        BY <2>1, <3>1, <4>1 DEF QuietAt
    <3>4. CASE StopRemoveAll(n)
      <4>1. up' = up /\ stop' = [stop EXCEPT ![n] = "removed"]
        BY <3>4 DEF StopRemoveAll
      <4>2. k # n /\ row[t] = k => row'[t] = k
        BY <3>4 DEF StopRemoveAll, RemoveAll, TypeOK
      <4>3. stop'[k] = IF k = n THEN "removed" ELSE stop[k]
        BY <4>1 DEF TypeOK
      <4> QED
        BY <2>1, <3>1, <4>1, <4>2, <4>3 DEF QuietAt
    <3> QED
      BY <1>8, <3>2, <3>3, <3>4
  <2> QED
    BY <2>2, <2>3
<1>9. ASSUME NEW n \in Node, NEW s \in Session, Evict(n, s)
      PROVE  NoLeave(k)' /\ \A t \in Session : QuietAt(k, t)'
  <2>1. /\ conn[n][s] # "none"
        /\ conn' = [conn EXCEPT ![n] = [@ EXCEPT ![s] = "none"]]
        /\ lost' = [lost EXCEPT ![n] = [@ EXCEPT ![s] = lost[n][s] + 1]]
        /\ queue' = queue /\ removing' = removing /\ row' = row /\ up' = up /\ stop' = stop
    BY <1>9 DEF Evict
  <2>2. NoLeave(k)'
    BY <1>0, <2>1 DEF NoLeave
  <2>3. ASSUME NEW t \in Session PROVE QuietAt(k, t)'
    <3>1. QuietAt(k, t)
      BY <1>0
    <3>2. CASE k = n /\ t = s
      <4>1. conn'[k][t] = "none" /\ conn[k][t] \in {"none", "live", "broken"}
        BY <2>1, <3>2 DEF TypeOK
      <4> QED
        BY <2>1, <3>1, <3>2, <4>1 DEF QuietAt
    <3>3. CASE ~(k = n /\ t = s)
      <4>1. conn'[k][t] = conn[k][t] /\ lost'[k][t] = lost[k][t]
        BY <2>1, <3>3 DEF TypeOK
      <4> QED
        BY <2>1, <3>1, <4>1 DEF QuietAt
    <3> QED
      BY <3>2, <3>3
  <2> QED
    BY <2>2, <2>3
<1>10. CASE UNCHANGED vars
  BY <1>0, <1>10 DEF vars, NoLeave, QuietAt
<1> QED
  BY Zenon, <1>1, <1>2, <1>3, <1>4, <1>5, <1>6, <1>7, <1>8, <1>9, <1>10 DEF Next, Crash, Exit

\* A dialog keeps its claim on the session while no schema ends and nobody
\* leaves, however nodes crash, start, shut down and fail to reach the database
\* (Touch), until its own node removes its rows in server.Stop.
THEOREM ClaimsAreHeld == Spec => []ClaimHeld
<1>1. Init => TypeOK /\ Quiet
  BY TypeInit, QuietInit
<1>2. (TypeOK /\ Quiet) /\ [Next]_vars => (TypeOK /\ Quiet)'
  BY TypeNext, QuietNext
<1>3. Quiet => ClaimHeld
  BY DEF Quiet, QuietAt, ClaimHeld
<1> QED
  BY <1>1, <1>2, <1>3, PTL DEF Spec

=============================================================================
