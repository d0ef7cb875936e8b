--------------------------- MODULE ImControlProofs ---------------------------
(***************************************************************************)
(* TLAPS proofs about ImControl, for any sets of threads, bots and         *)
(* connection objects.                                                     *)
(***************************************************************************)
EXTENDS ImControl, TLAPS

\* The registers of the listener hold what its program point needs.
ListenerRegs ==
  /\ lis.pc \in {"adopt", "push", "link", "start"} => lis.sess \in Session
  /\ lis.pc \in {"adopt", "link"} => lis.rel \in Session
  /\ lis.pc \in {"suspend1", "suspend2"} =>
       /\ lis.cur \in Conns
       /\ lis.rel # NoSession => lis.sess \in Session
  /\ lis.pc = "break2" => lis.cur \in Conns
  /\ lis.pc \in {"resume1", "resume2", "resume3"} => lis.conn \in Conns

\* So do the registers of the schema goroutines.
SchemaRegs ==
  \A c \in Conns :
    /\ gor[c].pc # "none" => conn[c].sess \in Session
    /\ gor[c].pc \in {"popCheck", "resume1", "resume2", "resume3"}
         => gor[c].target \in Conns

\* The store maps the session of every live connection to it, unless it has
\* dropped an entry of the session: what makes OneSchemaPerSession inductive.
StoreHoldsLive ==
  \A c \in Conns : Live(c) => store[conn[c].sess] = c \/ conn[c].sess \in evicted

IInv ==
  /\ TypeOK
  /\ ListenerRegs
  /\ SchemaRegs
  /\ StoreHoldsLive
  /\ NoLostWakeup
  /\ SuspendedIsCancelled

-----------------------------------------------------------------------------
\* The program points written by the actions; SchemaPc itself stays unexpanded.
LEMMA SchemaPcs ==
  /\ "none" \in SchemaPc
  /\ "queued" \in SchemaPc
  /\ "route" \in SchemaPc
  /\ "check" \in SchemaPc
  /\ "parking" \in SchemaPc
  /\ "park" \in SchemaPc
  /\ "unpark" \in SchemaPc
  /\ "guard" \in SchemaPc
  /\ "complete" \in SchemaPc
  /\ "popCheck" \in SchemaPc
  /\ "resume1" \in SchemaPc
  /\ "resume2" \in SchemaPc
  /\ "resume3" \in SchemaPc
  /\ "disconnected" \in SchemaPc
  /\ "stop1" \in SchemaPc
  /\ "stop2" \in SchemaPc
  /\ "stop3" \in SchemaPc
  /\ "stop4" \in SchemaPc
  /\ "gone" \in SchemaPc
  BY DEF SchemaPc

\* The same for the listener.
LEMMA ListenerPcs ==
  /\ "idle" \in ListenerPc
  /\ "adopt" \in ListenerPc
  /\ "push" \in ListenerPc
  /\ "breaking" \in ListenerPc
  /\ "break2" \in ListenerPc
  /\ "resume1" \in ListenerPc
  /\ "resume2" \in ListenerPc
  /\ "resume3" \in ListenerPc
  /\ "suspend1" \in ListenerPc
  /\ "suspend2" \in ListenerPc
  /\ "link" \in ListenerPc
  /\ "start" \in ListenerPc
  BY DEF ListenerPc

\* Every step keeps the shape of the state; each action is split into the
\* variables it changes.
LEMMA TypeStep ==
  ASSUME TypeOK, ListenerRegs, SchemaRegs, ServerStep, UNCHANGED evicted
  PROVE  TypeOK'
<1> USE NoConnAssumption, NoSessionAssumption
<1>c. conn \in [Conns -> Connection]
  BY DEF TypeOK
<1>g. gor \in [Conns -> Goroutine]
  BY DEF TypeOK
<1>s. store \in [Session -> Conns \cup {NoConn}]
  BY DEF TypeOK
<1>p. pushParent \in [Session -> Session \cup {NoSession}]
  BY DEF TypeOK
<1>l. lis \in Listener
  BY DEF TypeOK
<1>e. evicted' \subseteq Session
  BY DEF TypeOK
<1>1. CASE \E s \in Session : NodeMessage(s)
  <2>1. conn' \in [Conns -> Connection]
    BY <1>1, <1>c DEF NodeMessage, StartDialog, NewConnection, Connection,
       ConnState, Ctx
  <2>2. gor' \in [Conns -> Goroutine]
    BY <1>1, <1>g, SchemaPcs DEF NodeMessage, StartDialog, NewConnection, Goroutine
  <2>3. store' \in [Session -> Conns \cup {NoConn}]
    BY <1>1, <1>s DEF NodeMessage, StartDialog, NewConnection
  <2> QED
    BY <1>e, <1>1, <2>1, <2>2, <2>3, <1>p, <1>l DEF TypeOK, NodeMessage, StartDialog,
       NewConnection
<1>2. CASE \E s \in Session : AgentTakeover(s)
  <2>1. lis' \in Listener
    BY Zenon, <1>2, <1>l, <1>s, ListenerPcs DEF AgentTakeover, Suspended, Terminating,
       Idle, Listener
  <2> QED
    BY <1>e, <1>2, <2>1, <1>c, <1>g, <1>s, <1>p DEF TypeOK, AgentTakeover
<1>3. CASE \E t \in Threads : ClientLeave(t)
  <2>1. lis' \in Listener
    BY ZenonT(40), <1>3, <1>l, <1>s, ListenerPcs DEF ClientLeave, Idle, Listener
  <2> QED
    BY <1>e, <1>3, <2>1, <1>c, <1>g, <1>s, <1>p DEF TypeOK, ClientLeave
<1>4. CASE \E s \in Session : \E r \in ReleasedBy(s) : GrantPop(s, r)
  <2> PICK s \in Session : \E r \in ReleasedBy(s) : GrantPop(s, r)
    BY <1>4
  <2> PICK r \in ReleasedBy(s) : GrantPop(s, r)
    OBVIOUS
  <2>1. {r} \ {NoSession} \in SUBSET Session /\ store[s] \in Conns
    BY <1>s DEF GrantPop, ReleasedBy
  <2>2. lis' \in Listener
    BY Zenon, <2>1, ListenerPcs DEF GrantPop, Idle, Listener
  <2> QED
    BY <1>e, <2>2, <1>c, <1>g, <1>s, <1>p DEF TypeOK, GrantPop
<1>5. CASE \E s \in Session : \E r \in ReleasedBy(s) : GrantActive(s, r)
  <2>1. lis' \in Listener
    BY ZenonT(40), <1>5, <1>l, <1>s, ListenerPcs DEF GrantActive, Suspended, Idle, ReleasedBy,
       Listener
  <2> QED
    BY <1>e, <1>5, <2>1, <1>c, <1>g, <1>s, <1>p DEF TypeOK, GrantActive
<1>6. CASE \E s \in Session : \E r \in ReleasedBy(s), reason \in Reason : GrantPush(s, r, reason)
  <2>1. lis' \in Listener
    BY ZenonT(40), <1>6, <1>l, <1>s, ListenerPcs DEF GrantPush, Idle, ReleasedBy, Listener
  <2> QED
    BY <1>e, <1>6, <2>1, <1>c, <1>g, <1>s, <1>p DEF TypeOK, GrantPush
<1>7. CASE LisAdopt
  <2>1. lis' \in Listener
    BY Zenon, <1>7, <1>l, <1>s, ListenerPcs DEF ListenerRegs, LisAdopt, Released, Idle,
       Suspended, Terminating, Listener
  <2> QED
    BY <1>e, <1>7, <2>1, <1>c, <1>g, <1>s, <1>p DEF TypeOK, LisAdopt
<1>8. CASE LisPush
  <2>1. lis' \in Listener
    BY Zenon, <1>8, <1>l, <1>s, ListenerPcs DEF ListenerRegs, LisPush, Released, Listener
  <2> QED
    BY <1>e, <1>8, <2>1, <1>c, <1>g, <1>s, <1>p DEF TypeOK, LisPush
<1>9. CASE LisSuspend1
  <2>1. conn' \in [Conns -> Connection]
    BY <1>9, <1>c, <1>l DEF ListenerRegs, LisSuspend1, LisGo, SetState, Connection,
       ConnState, Ctx
  <2>2. lis' \in Listener
    BY <1>9, <1>l, <1>s, ListenerPcs DEF LisSuspend1, LisGo, SetState, Listener
  <2> QED
    BY <1>e, <1>9, <2>1, <2>2, <1>g, <1>s, <1>p DEF TypeOK, LisSuspend1, LisGo
<1>10. CASE LisSuspend2
  <2>1. conn' \in [Conns -> Connection]
    BY <1>10, <1>c, <1>l DEF ListenerRegs, LisSuspend2, CancelRun, Idle, Connection,
       ConnState, Ctx
  <2>2. lis' \in Listener
    BY <1>10, <1>l, <1>s, ListenerPcs DEF LisSuspend2, CancelRun, Idle, Listener
  <2> QED
    BY <1>e, <1>10, <2>1, <2>2, <1>g, <1>s, <1>p DEF TypeOK, LisSuspend2
<1>11. CASE LisLink
  <2>1. pushParent' \in [Session -> Session \cup {NoSession}]
    BY <1>11, <1>p, <1>l DEF ListenerRegs, LisLink, Idle
  <2>2. lis' \in Listener
    BY <1>11, <1>l, <1>s, ListenerPcs DEF LisLink, Idle, Listener
  <2> QED
    BY <1>e, <1>11, <2>1, <2>2, <1>c, <1>g, <1>s DEF TypeOK, LisLink
<1>12. CASE LisPushStart
  <2>1. conn' \in [Conns -> Connection]
    BY <1>12, <1>c, <1>l DEF ListenerRegs, LisPushStart, StartDialog, NewConnection,
       Idle, Connection, ConnState, Ctx
  <2>2. gor' \in [Conns -> Goroutine]
    BY <1>12, <1>g, <1>l, SchemaPcs DEF ListenerRegs, LisPushStart, StartDialog,
       NewConnection, Idle, Goroutine
  <2>3. store' \in [Session -> Conns \cup {NoConn}]
    BY <1>12, <1>s, <1>l DEF ListenerRegs, LisPushStart, StartDialog, NewConnection,
       Idle
  <2>4. lis' \in Listener
    BY <1>12, <1>l, <1>s, ListenerPcs DEF LisPushStart, StartDialog, NewConnection,
       Idle, Listener
  <2> QED
    BY <1>e, <1>12, <2>1, <2>2, <2>3, <2>4, <1>p DEF TypeOK, LisPushStart, StartDialog,
       NewConnection
<1>13. CASE LisPushAbort
  <2>1. lis' \in Listener
    BY <1>13, <1>l, <1>s, ListenerPcs DEF LisPushAbort, Idle, Listener
  <2> QED
    BY <1>e, <1>13, <2>1, <1>c, <1>g, <1>s, <1>p DEF TypeOK, LisPushAbort
<1>14. CASE LisBreak1
  <2> PICK s \in lis.keys :
         IF store[s] = NoConn
         THEN lis' = [lis EXCEPT !.keys = @ \ {s}] /\ UNCHANGED conn
         ELSE /\ lis' = [lis EXCEPT !.keys = @ \ {s}, !.pc = "break2", !.cur = store[s]]
              /\ conn' = SetState(store[s], "terminating")
    BY Zenon, <1>14 DEF LisBreak1
  <2>1. s \in Session /\ lis.keys \ {s} \in SUBSET Session
    BY <1>l DEF Listener
  <2>2. lis' \in Listener
    BY ZenonT(40), <2>1, <1>l, <1>s, ListenerPcs DEF Listener
  <2>3. conn' \in [Conns -> Connection]
    BY <2>1, <1>c, <1>s DEF SetState, Connection, ConnState
  <2> QED
    BY <1>e, <1>14, <2>2, <2>3, <1>g, <1>s, <1>p DEF TypeOK, LisBreak1
<1>15. CASE LisBreak2
  <2>1. conn' \in [Conns -> Connection]
    BY ZenonT(40), <1>15, <1>c, <1>l DEF ListenerRegs, LisBreak2, CancelBoth, Connection,
       ConnState, Ctx
  <2>2. lis' \in Listener
    BY Zenon, <1>15, <1>l, <1>s, ListenerPcs DEF LisBreak2, CancelBoth, Listener
  <2> QED
    BY <1>e, <1>15, <2>1, <2>2, <1>g, <1>s, <1>p DEF TypeOK, LisBreak2
<1>16. CASE LisBroken
  <2>1. lis' \in Listener
    BY <1>16, <1>l, <1>s, ListenerPcs DEF LisBroken, Idle, Listener
  <2> QED
    BY <1>e, <1>16, <2>1, <1>c, <1>g, <1>s, <1>p DEF TypeOK, LisBroken
<1>17. CASE LisResume1
  <2>1. conn' \in [Conns -> Connection]
    BY <1>17, <1>c, <1>l DEF ListenerRegs, LisResume1, LisGo, NewRun, Connection,
       ConnState, Ctx
  <2>2. gor' \in [Conns -> Goroutine]
    BY SMTT(30), <1>17, <1>g, <1>l, <1>c, SchemaPcs DEF ListenerRegs, LisResume1, LisGo,
       NewRun, Goroutine, Connection, Ctx, Listener
  <2>3. lis' \in Listener
    BY <1>17, <1>l, <1>s, ListenerPcs DEF LisResume1, LisGo, NewRun, Listener
  <2> QED
    BY <1>e, <1>17, <2>1, <2>2, <2>3, <1>s, <1>p DEF TypeOK, LisResume1, LisGo, NewRun
<1>18. CASE LisResume2
  <2>1. conn' \in [Conns -> Connection]
    BY <1>18, <1>c, <1>l DEF ListenerRegs, LisResume2, LisGo, SetState, Connection,
       ConnState, Ctx
  <2>2. lis' \in Listener
    BY <1>18, <1>l, <1>s, ListenerPcs DEF LisResume2, LisGo, SetState, Listener
  <2> QED
    BY <1>e, <1>18, <2>1, <2>2, <1>g, <1>s, <1>p DEF TypeOK, LisResume2, LisGo
<1>19. CASE LisResume3
  <2>1. conn' \in [Conns -> Connection]
    BY ZenonT(40), <1>19, <1>c, <1>l DEF ListenerRegs, LisResume3, PushToken, Idle, Connection,
       ConnState, Ctx
  <2>2. lis' \in Listener
    BY <1>19, <1>l, <1>s, ListenerPcs DEF LisResume3, PushToken, Idle, Listener
  <2> QED
    BY <1>e, <1>19, <2>1, <2>2, <1>g, <1>s, <1>p DEF TypeOK, LisResume3
<1>20. ASSUME NEW c \in Conns, RunSchema(c) PROVE TypeOK'
  <2>1. gor' \in [Conns -> Goroutine]
    BY ZenonT(60), <1>20, <1>g, SchemaPcs DEF RunSchema, Goroutine
  <2> QED
    BY <1>e, <1>20, <2>1, <1>c, <1>s, <1>p, <1>l DEF TypeOK, RunSchema
<1>21. ASSUME NEW c \in Conns, RunSchemaFails(c) PROVE TypeOK'
  <2>1. gor' \in [Conns -> Goroutine]
    BY <1>21, <1>g, SchemaPcs DEF RunSchemaFails, Go, Goroutine
  <2> QED
    BY <1>e, <1>21, <2>1, <1>c, <1>s, <1>p, <1>l DEF TypeOK, RunSchemaFails, Go
<1>22. ASSUME NEW c \in Conns, RouteEnds(c) PROVE TypeOK'
  <2>1. gor' \in [Conns -> Goroutine]
    BY ZenonT(60), <1>22, <1>g, SchemaPcs DEF RouteEnds, Goroutine
  <2> QED
    BY <1>e, <1>22, <2>1, <1>c, <1>s, <1>p, <1>l DEF TypeOK, RouteEnds
<1>23. ASSUME NEW c \in Conns, RouteInterrupted(c) PROVE TypeOK'
  <2>1. gor' \in [Conns -> Goroutine]
    BY ZenonT(60), <1>23, <1>g, SchemaPcs DEF RouteInterrupted, HeldDone, Goroutine
  <2> QED
    BY <1>e, <1>23, <2>1, <1>c, <1>s, <1>p, <1>l DEF TypeOK, RouteInterrupted
<1>24. ASSUME NEW c \in Conns, ParkCheck(c) PROVE TypeOK'
  <2>1. gor' \in [Conns -> Goroutine]
    BY <1>24, <1>g, SchemaPcs DEF ParkCheck, Go, Suspended, Goroutine
  <2> QED
    BY <1>e, <1>24, <2>1, <1>c, <1>s, <1>p, <1>l DEF TypeOK, ParkCheck, Go
<1>25. ASSUME NEW c \in Conns, Parking(c) PROVE TypeOK'
  <2>1. gor' \in [Conns -> Goroutine]
    BY <1>25, <1>g, SchemaPcs DEF Parking, Go, Terminating, Goroutine
  <2> QED
    BY <1>e, <1>25, <2>1, <1>c, <1>s, <1>p, <1>l DEF TypeOK, Parking, Go
<1>26. ASSUME NEW c \in Conns, ParkResumed(c) PROVE TypeOK'
  <2>1. conn' \in [Conns -> Connection]
    BY ZenonT(40), <1>26, <1>c DEF ParkResumed, Go, Connection, ConnState, Ctx
  <2>2. gor' \in [Conns -> Goroutine]
    BY <1>26, <1>g, SchemaPcs DEF ParkResumed, Go, Goroutine
  <2> QED
    BY <1>e, <1>26, <2>1, <2>2, <1>s, <1>p, <1>l DEF TypeOK, ParkResumed, Go
<1>27. ASSUME NEW c \in Conns, ParkTerminated(c) PROVE TypeOK'
  <2>1. gor' \in [Conns -> Goroutine]
    BY <1>27, <1>g, SchemaPcs DEF ParkTerminated, Go, Goroutine
  <2> QED
    BY <1>e, <1>27, <2>1, <1>c, <1>s, <1>p, <1>l DEF TypeOK, ParkTerminated, Go
<1>28. ASSUME NEW c \in Conns, Unpark(c) PROVE TypeOK'
  <2>1. gor' \in [Conns -> Goroutine]
    BY ZenonT(60), <1>28, <1>g, SchemaPcs DEF Unpark, Goroutine
  <2> QED
    BY <1>e, <1>28, <2>1, <1>c, <1>s, <1>p, <1>l DEF TypeOK, Unpark
<1>29. ASSUME NEW c \in Conns, Guard(c) PROVE TypeOK'
  <2>1. gor' \in [Conns -> Goroutine]
    BY <1>29, <1>g, SchemaPcs DEF Guard, Go, Terminating, Goroutine
  <2> QED
    BY <1>e, <1>29, <2>1, <1>c, <1>s, <1>p, <1>l DEF TypeOK, Guard, Go
<1>30. ASSUME NEW c \in Conns, Complete(c) PROVE TypeOK'
  <2> DEFINE p == pushParent[conn[c].sess]
             parent == IF p = NoSession THEN NoConn ELSE store[p]
  <2>1. parent \in Conns \cup {NoConn}
    BY <1>30, <1>s, <1>p DEF SchemaRegs, Complete
  <2>2. gor' \in [Conns -> Goroutine]
    <3> HIDE DEF parent
    <3> DEFINE next == IF parent = NoConn THEN "disconnected" ELSE "popCheck"
               g == [gor[c] EXCEPT !.target = parent, !.interrupted = "nil", !.pc = next]
    <3>1. gor' = [gor EXCEPT ![c] = g]
      BY <1>30, <1>g DEF Complete, parent
    <3>2. next \in SchemaPc
      BY SchemaPcs
    <3>3. g \in Goroutine
      <4> HIDE DEF next
      <4> QED BY Zenon, <3>2, <2>1, <1>g DEF Goroutine
    <3> HIDE DEF g
    <3> QED
      BY <3>1, <3>3, <1>g
  <2>3. pushParent' \in [Session -> Session \cup {NoSession}]
    BY Zenon, <1>30, <1>p DEF Complete
  <2> QED
    BY <1>e, <1>30, <2>2, <2>3, <1>c, <1>s, <1>l DEF TypeOK, Complete
<1>31. ASSUME NEW c \in Conns, PopCheck(c) PROVE TypeOK'
  <2>1. gor' \in [Conns -> Goroutine]
    BY <1>31, <1>g, SchemaPcs DEF PopCheck, Go, Suspended, Goroutine
  <2> QED
    BY <1>e, <1>31, <2>1, <1>c, <1>s, <1>p, <1>l DEF TypeOK, PopCheck, Go
<1>32. ASSUME NEW c \in Conns, PopResume1(c) PROVE TypeOK'
  <2>1. conn' \in [Conns -> Connection]
    BY <1>32, <1>c, <1>g DEF SchemaRegs, PopResume1, Connection, ConnState, Ctx
  <2>2. gor' \in [Conns -> Goroutine]
    BY <1>32, <1>g, <1>c, SchemaPcs DEF SchemaRegs, PopResume1, Goroutine,
       Connection, Ctx
  <2> QED
    BY <1>e, <1>32, <2>1, <2>2, <1>s, <1>p, <1>l DEF TypeOK, PopResume1
<1>33. ASSUME NEW c \in Conns, PopResume2(c) PROVE TypeOK'
  <2>1. conn' \in [Conns -> Connection]
    BY <1>33, <1>c, <1>g DEF SchemaRegs, PopResume2, Go, SetState, Connection,
       ConnState, Ctx
  <2>2. gor' \in [Conns -> Goroutine]
    BY <1>33, <1>g, SchemaPcs DEF PopResume2, Go, SetState, Goroutine
  <2> QED
    BY <1>e, <1>33, <2>1, <2>2, <1>s, <1>p, <1>l DEF TypeOK, PopResume2, Go
<1>34. ASSUME NEW c \in Conns, PopResume3(c) PROVE TypeOK'
  <2>1. gor[c].target \in Conns
    BY <1>34 DEF SchemaRegs, PopResume3, Go
  <2>2. conn' \in [Conns -> Connection]
    BY Zenon, <1>34, <2>1, <1>c DEF PopResume3, PushToken, Connection
  <2>3. gor' \in [Conns -> Goroutine]
    BY <1>34, <1>g, SchemaPcs DEF PopResume3, Go, Goroutine
  <2> QED
    BY <1>e, <1>34, <2>2, <2>3, <1>s, <1>p, <1>l DEF TypeOK, PopResume3
<1>35. ASSUME NEW c \in Conns, Disconnected(c) PROVE TypeOK'
  <2>1. gor' \in [Conns -> Goroutine]
    BY ZenonT(60), <1>35, <1>g, SchemaPcs DEF Disconnected, Goroutine
  <2> QED
    BY <1>e, <1>35, <2>1, <1>c, <1>s, <1>p, <1>l DEF TypeOK, Disconnected
<1>36. ASSUME NEW c \in Conns, Stop1(c) PROVE TypeOK'
  <2>1. conn' \in [Conns -> Connection]
    BY <1>36, <1>c DEF Stop1, Go, SetState, Connection, ConnState, Ctx
  <2>2. gor' \in [Conns -> Goroutine]
    BY <1>36, <1>g, SchemaPcs DEF Stop1, Go, SetState, Goroutine
  <2> QED
    BY <1>e, <1>36, <2>1, <2>2, <1>s, <1>p, <1>l DEF TypeOK, Stop1, Go
<1>37. ASSUME NEW c \in Conns, Stop2(c) PROVE TypeOK'
  <2>1. conn' \in [Conns -> Connection]
    BY ZenonT(60), <1>37, <1>c DEF Stop2, Go, CancelBoth, Connection, ConnState, Ctx
  <2>2. gor' \in [Conns -> Goroutine]
    BY <1>37, <1>g, SchemaPcs DEF Stop2, Go, CancelBoth, Goroutine
  <2> QED
    BY <1>e, <1>37, <2>1, <2>2, <1>s, <1>p, <1>l DEF TypeOK, Stop2, Go
<1>38. ASSUME NEW c \in Conns, Stop3(c) PROVE TypeOK'
  <2>1. gor' \in [Conns -> Goroutine]
    BY <1>38, <1>g, SchemaPcs DEF Stop3, Go, Goroutine
  <2>2. store' \in [Session -> Conns \cup {NoConn}]
    BY <1>38, <1>s, <1>g DEF SchemaRegs, Stop3, Go
  <2> QED
    BY <1>e, <1>38, <2>1, <2>2, <1>c, <1>p, <1>l DEF TypeOK, Stop3, Go
<1>39. ASSUME NEW c \in Conns, Stop4(c) PROVE TypeOK'
  <2>1. gor' \in [Conns -> Goroutine]
    BY <1>39, <1>g, SchemaPcs DEF Stop4, Go, Goroutine
  <2>2. pushParent' \in [Session -> Session \cup {NoSession}]
    BY <1>39, <1>p, <1>g DEF SchemaRegs, Stop4, Go
  <2> QED
    BY <1>e, <1>39, <2>1, <2>2, <1>c, <1>s, <1>l DEF TypeOK, Stop4, Go
<1> QED
  BY <1>1, <1>2, <1>3, <1>4, <1>5, <1>6, <1>7, <1>8, <1>9, <1>10, <1>11,
     <1>12, <1>13, <1>14, <1>15, <1>16, <1>17, <1>18, <1>19, <1>20, <1>21, <1>22,
     <1>23, <1>24, <1>25, <1>26, <1>27, <1>28, <1>29, <1>30, <1>31, <1>32, <1>33,
     <1>34, <1>35, <1>36, <1>37, <1>38, <1>39
     DEF ServerStep, LisEvent, LisControl, Schema, SchemaChoice

\* What the first access of a local Resume changes, field by field.
LEMMA PopResume1Frame ==
  ASSUME TypeOK, SchemaRegs, NEW c \in Conns, PopResume1(c)
  PROVE  /\ gor[c].target \in Conns /\ gor[c].pc = "resume1" /\ lis' = lis
         /\ \A d \in Conns : /\ gor'[d].pc = IF d = c THEN "resume2" ELSE gor[d].pc
                             /\ gor'[d].target = gor[d].target
         /\ \A d \in Conns :
              /\ conn'[d].state = conn[d].state
              /\ conn'[d].token = conn[d].token
              /\ conn'[d].run = IF d = gor[c].target THEN "live" ELSE conn[d].run
<1>1. gor[c].target \in Conns
  BY DEF SchemaRegs, PopResume1
<1>2. \A d \in Conns : /\ gor'[d].pc = IF d = c THEN "resume2" ELSE gor[d].pc
                      /\ gor'[d].target = gor[d].target
  BY <1>1 DEF TypeOK, PopResume1, Goroutine
<1>3. \A d \in Conns : /\ conn'[d].state = conn[d].state
                      /\ conn'[d].token = conn[d].token
                      /\ conn'[d].run = IF d = gor[c].target THEN "live" ELSE conn[d].run
  BY <1>1 DEF TypeOK, PopResume1, Connection
<1> QED
  BY Zenon, <1>1, <1>2, <1>3 DEF PopResume1


\* A listener that waits to work on a connection or a session has one.
LEMMA ListenerRegsStep ==
  ASSUME TypeOK, ListenerRegs, ServerStep
  PROVE  ListenerRegs'
<1> USE NoConnAssumption, NoSessionAssumption
<1> USE DEF TypeOK, ListenerRegs, Listener
<1>1. CASE \E s \in Session : NodeMessage(s)
  BY <1>1 DEF NodeMessage, StartDialog, NewConnection
<1>2. CASE \E s \in Session : AgentTakeover(s)
  BY <1>2 DEF AgentTakeover, Suspended, Terminating, Idle
<1>3. CASE \E t \in Threads : ClientLeave(t)
  BY <1>3 DEF ClientLeave, Idle
<1>4. CASE \E s \in Session : \E r \in ReleasedBy(s) : GrantPop(s, r)
  BY <1>4 DEF GrantPop, Suspended, Idle, ReleasedBy
<1>5. CASE \E s \in Session : \E r \in ReleasedBy(s) : GrantActive(s, r)
  BY <1>5 DEF GrantActive, Suspended, Idle, ReleasedBy
<1>6. CASE \E s \in Session : \E r \in ReleasedBy(s), reason \in Reason : GrantPush(s, r, reason)
  BY <1>6 DEF GrantPush, Idle, ReleasedBy
<1>7. CASE LisAdopt
  BY <1>7 DEF LisAdopt, Released, Idle, Suspended, Terminating
<1>8. CASE LisPush
  BY <1>8 DEF LisPush, Released
<1>9. CASE LisSuspend1
  BY <1>9 DEF LisSuspend1, LisGo, SetState
<1>10. CASE LisSuspend2
  BY <1>10 DEF LisSuspend2, CancelRun, Idle
<1>11. CASE LisLink
  BY <1>11 DEF LisLink, Idle
<1>12. CASE LisPushStart
  BY <1>12 DEF LisPushStart, StartDialog, NewConnection, Idle
<1>13. CASE LisPushAbort
  BY <1>13 DEF LisPushAbort, Idle
<1>14. CASE LisBreak1
  <2>1. PICK s \in lis.keys :
          \/ lis' = [lis EXCEPT !.keys = @ \ {s}]
          \/ /\ store[s] # NoConn
             /\ lis' = [lis EXCEPT !.keys = @ \ {s}, !.pc = "break2", !.cur = store[s]]
    BY Zenon, <1>14 DEF LisBreak1
  <2>2. store[s] \in Conns \cup {NoConn}
    BY DEF TypeOK, Listener
  <2>3. lis.pc = "breaking"
    BY <1>14 DEF LisBreak1
  <2> QED
    BY ZenonT(60), <2>1, <2>2, <2>3 DEF TypeOK, Listener, ListenerRegs
<1>15. CASE LisBreak2
  BY <1>15 DEF LisBreak2, CancelBoth
<1>16. CASE LisBroken
  BY <1>16 DEF LisBroken, Idle
<1>17. CASE LisResume1
  BY <1>17 DEF LisResume1, LisGo, NewRun
<1>18. CASE LisResume2
  BY <1>18 DEF LisResume2, LisGo, SetState
<1>19. CASE LisResume3
  BY <1>19 DEF LisResume3, PushToken, Idle
<1>20. ASSUME NEW c \in Conns, RunSchema(c) PROVE ListenerRegs'
  BY <1>20 DEF RunSchema
<1>21. ASSUME NEW c \in Conns, RunSchemaFails(c) PROVE ListenerRegs'
  BY <1>21 DEF RunSchemaFails, Go
<1>22. ASSUME NEW c \in Conns, RouteEnds(c) PROVE ListenerRegs'
  BY <1>22 DEF RouteEnds
<1>23. ASSUME NEW c \in Conns, RouteInterrupted(c) PROVE ListenerRegs'
  BY <1>23 DEF RouteInterrupted, HeldDone
<1>24. ASSUME NEW c \in Conns, ParkCheck(c) PROVE ListenerRegs'
  BY <1>24 DEF ParkCheck, Go, Suspended
<1>25. ASSUME NEW c \in Conns, Parking(c) PROVE ListenerRegs'
  BY <1>25 DEF Parking, Go, Terminating
<1>26. ASSUME NEW c \in Conns, ParkResumed(c) PROVE ListenerRegs'
  BY <1>26 DEF ParkResumed, Go
<1>27. ASSUME NEW c \in Conns, ParkTerminated(c) PROVE ListenerRegs'
  BY <1>27 DEF ParkTerminated, Go
<1>28. ASSUME NEW c \in Conns, Unpark(c) PROVE ListenerRegs'
  BY <1>28 DEF Unpark
<1>29. ASSUME NEW c \in Conns, Guard(c) PROVE ListenerRegs'
  BY <1>29 DEF Guard, Go, Terminating
<1>30. ASSUME NEW c \in Conns, Complete(c) PROVE ListenerRegs'
  BY <1>30 DEF Complete
<1>31. ASSUME NEW c \in Conns, PopCheck(c) PROVE ListenerRegs'
  BY <1>31 DEF PopCheck, Go, Suspended
<1>32. ASSUME NEW c \in Conns, PopResume1(c) PROVE ListenerRegs'
  BY <1>32 DEF PopResume1
<1>33. ASSUME NEW c \in Conns, PopResume2(c) PROVE ListenerRegs'
  BY <1>33 DEF PopResume2, Go, SetState
<1>34. ASSUME NEW c \in Conns, PopResume3(c) PROVE ListenerRegs'
  BY <1>34 DEF PopResume3, Go, PushToken
<1>35. ASSUME NEW c \in Conns, Disconnected(c) PROVE ListenerRegs'
  BY <1>35 DEF Disconnected
<1>36. ASSUME NEW c \in Conns, Stop1(c) PROVE ListenerRegs'
  BY <1>36 DEF Stop1, Go, SetState
<1>37. ASSUME NEW c \in Conns, Stop2(c) PROVE ListenerRegs'
  BY <1>37 DEF Stop2, Go, CancelBoth
<1>38. ASSUME NEW c \in Conns, Stop3(c) PROVE ListenerRegs'
  BY <1>38 DEF Stop3, Go
<1>39. ASSUME NEW c \in Conns, Stop4(c) PROVE ListenerRegs'
  BY <1>39 DEF Stop4, Go
<1> QED
  BY Zenon, <1>1, <1>2, <1>3, <1>4, <1>5, <1>6, <1>7, <1>8, <1>9, <1>10, <1>11,
     <1>12, <1>13, <1>14, <1>15, <1>16, <1>17, <1>18, <1>19, <1>20, <1>21, <1>22,
     <1>23, <1>24, <1>25, <1>26, <1>27, <1>28, <1>29, <1>30, <1>31, <1>32, <1>33,
     <1>34, <1>35, <1>36, <1>37, <1>38, <1>39
     DEF ServerStep, LisEvent, LisControl, Schema, SchemaChoice

\* A schema goroutine keeps its session, and its target while it resumes it.
LEMMA SchemaRegsStep ==
  ASSUME TypeOK, ListenerRegs, SchemaRegs, ServerStep
  PROVE  SchemaRegs'
<1> USE NoConnAssumption, NoSessionAssumption
<1> USE DEF TypeOK, ListenerRegs, SchemaRegs, Connection, Goroutine, Listener
<1>1. CASE \E s \in Session : NodeMessage(s)
  BY <1>1 DEF NodeMessage, StartDialog, NewConnection
<1>2. CASE \E s \in Session : AgentTakeover(s)
  BY <1>2 DEF AgentTakeover, Suspended, Terminating, Idle
<1>3. CASE \E t \in Threads : ClientLeave(t)
  BY <1>3 DEF ClientLeave, Idle
<1>4. CASE \E s \in Session : \E r \in ReleasedBy(s) : GrantPop(s, r)
  BY <1>4 DEF GrantPop, Suspended, Idle, ReleasedBy
<1>5. CASE \E s \in Session : \E r \in ReleasedBy(s) : GrantActive(s, r)
  BY <1>5 DEF GrantActive, Suspended, Idle, ReleasedBy
<1>6. CASE \E s \in Session : \E r \in ReleasedBy(s), reason \in Reason : GrantPush(s, r, reason)
  BY <1>6 DEF GrantPush, Idle, ReleasedBy
<1>7. CASE LisAdopt
  BY <1>7 DEF LisAdopt, Released, Idle, Suspended, Terminating
<1>8. CASE LisPush
  BY <1>8 DEF LisPush, Released
<1>9. CASE LisSuspend1
  BY <1>9 DEF LisSuspend1, LisGo, SetState
<1>10. CASE LisSuspend2
  BY <1>10 DEF LisSuspend2, CancelRun, Idle
<1>11. CASE LisLink
  BY <1>11 DEF LisLink, Idle
<1>12. CASE LisPushStart
  BY <1>12 DEF LisPushStart, StartDialog, NewConnection, Idle
<1>13. CASE LisPushAbort
  BY <1>13 DEF LisPushAbort, Idle
<1>14. CASE LisBreak1
  BY <1>14 DEF LisBreak1, SetState
<1>15. CASE LisBreak2
  BY <1>15 DEF LisBreak2, CancelBoth
<1>16. CASE LisBroken
  BY <1>16 DEF LisBroken, Idle
<1>17. CASE LisResume1
  BY <1>17 DEF LisResume1, LisGo, NewRun
<1>18. CASE LisResume2
  BY <1>18 DEF LisResume2, LisGo, SetState
<1>19. CASE LisResume3
  BY <1>19 DEF LisResume3, PushToken, Idle
<1>20. ASSUME NEW c \in Conns, RunSchema(c) PROVE SchemaRegs'
  BY <1>20 DEF RunSchema
<1>21. ASSUME NEW c \in Conns, RunSchemaFails(c) PROVE SchemaRegs'
  BY <1>21 DEF RunSchemaFails, Go
<1>22. ASSUME NEW c \in Conns, RouteEnds(c) PROVE SchemaRegs'
  BY <1>22 DEF RouteEnds
<1>23. ASSUME NEW c \in Conns, RouteInterrupted(c) PROVE SchemaRegs'
  BY <1>23 DEF RouteInterrupted, HeldDone
<1>24. ASSUME NEW c \in Conns, ParkCheck(c) PROVE SchemaRegs'
  BY <1>24 DEF ParkCheck, Go, Suspended
<1>25. ASSUME NEW c \in Conns, Parking(c) PROVE SchemaRegs'
  BY <1>25 DEF Parking, Go, Terminating
<1>26. ASSUME NEW c \in Conns, ParkResumed(c) PROVE SchemaRegs'
  BY <1>26 DEF ParkResumed, Go
<1>27. ASSUME NEW c \in Conns, ParkTerminated(c) PROVE SchemaRegs'
  BY <1>27 DEF ParkTerminated, Go
<1>28. ASSUME NEW c \in Conns, Unpark(c) PROVE SchemaRegs'
  BY <1>28 DEF Unpark
<1>29. ASSUME NEW c \in Conns, Guard(c) PROVE SchemaRegs'
  BY <1>29 DEF Guard, Go, Terminating
<1>30. ASSUME NEW c \in Conns, Complete(c) PROVE SchemaRegs'
  BY <1>30 DEF Complete
<1>31. ASSUME NEW c \in Conns, PopCheck(c) PROVE SchemaRegs'
  BY <1>31 DEF PopCheck, Go, Suspended
<1>32. ASSUME NEW c \in Conns, PopResume1(c) PROVE SchemaRegs'
  BY <1>32 DEF PopResume1
<1>33. ASSUME NEW c \in Conns, PopResume2(c) PROVE SchemaRegs'
  BY <1>33 DEF PopResume2, Go, SetState
<1>34. ASSUME NEW c \in Conns, PopResume3(c) PROVE SchemaRegs'
  BY <1>34 DEF PopResume3, Go, PushToken
<1>35. ASSUME NEW c \in Conns, Disconnected(c) PROVE SchemaRegs'
  BY <1>35 DEF Disconnected
<1>36. ASSUME NEW c \in Conns, Stop1(c) PROVE SchemaRegs'
  BY <1>36 DEF Stop1, Go, SetState
<1>37. ASSUME NEW c \in Conns, Stop2(c) PROVE SchemaRegs'
  BY <1>37 DEF Stop2, Go, CancelBoth
<1>38. ASSUME NEW c \in Conns, Stop3(c) PROVE SchemaRegs'
  BY <1>38 DEF Stop3, Go
<1>39. ASSUME NEW c \in Conns, Stop4(c) PROVE SchemaRegs'
  BY <1>39 DEF Stop4, Go
<1> QED
  BY Zenon, <1>1, <1>2, <1>3, <1>4, <1>5, <1>6, <1>7, <1>8, <1>9, <1>10, <1>11,
     <1>12, <1>13, <1>14, <1>15, <1>16, <1>17, <1>18, <1>19, <1>20, <1>21, <1>22,
     <1>23, <1>24, <1>25, <1>26, <1>27, <1>28, <1>29, <1>30, <1>31, <1>32, <1>33,
     <1>34, <1>35, <1>36, <1>37, <1>38, <1>39
     DEF ServerStep, LisEvent, LisControl, Schema, SchemaChoice

\* Connections enter the store with their goroutine and leave it in Stop.
LEMMA StoreHoldsLiveStep ==
  ASSUME TypeOK, ListenerRegs, SchemaRegs, StoreHoldsLive, ServerStep, UNCHANGED evicted
  PROVE  StoreHoldsLive'
<1> USE NoConnAssumption, NoSessionAssumption
<1> USE DEF TypeOK, ListenerRegs, SchemaRegs, StoreHoldsLive, Live, Connection,
        Goroutine, Listener
<1>1. CASE \E s \in Session : NodeMessage(s)
  BY <1>1 DEF NodeMessage, StartDialog, NewConnection
<1>2. CASE \E s \in Session : AgentTakeover(s)
  BY <1>2 DEF AgentTakeover, Suspended, Terminating, Idle
<1>3. CASE \E t \in Threads : ClientLeave(t)
  BY <1>3 DEF ClientLeave, Idle
<1>4. CASE \E s \in Session : \E r \in ReleasedBy(s) : GrantPop(s, r)
  BY <1>4 DEF GrantPop, Suspended, Idle, ReleasedBy
<1>5. CASE \E s \in Session : \E r \in ReleasedBy(s) : GrantActive(s, r)
  BY <1>5 DEF GrantActive, Suspended, Idle, ReleasedBy
<1>6. CASE \E s \in Session : \E r \in ReleasedBy(s), reason \in Reason : GrantPush(s, r, reason)
  BY <1>6 DEF GrantPush, Idle, ReleasedBy
<1>7. CASE LisAdopt
  BY <1>7 DEF LisAdopt, Released, Idle, Suspended, Terminating
<1>8. CASE LisPush
  BY <1>8 DEF LisPush, Released
<1>9. CASE LisSuspend1
  BY <1>9 DEF LisSuspend1, LisGo, SetState
<1>10. CASE LisSuspend2
  BY <1>10 DEF LisSuspend2, CancelRun, Idle
<1>11. CASE LisLink
  BY <1>11 DEF LisLink, Idle
<1>12. CASE LisPushStart
  BY <1>12 DEF LisPushStart, StartDialog, NewConnection, Idle
<1>13. CASE LisPushAbort
  BY <1>13 DEF LisPushAbort, Idle
<1>14. CASE LisBreak1
  <2>1. \A d \in Conns : conn'[d].sess = conn[d].sess
    BY <1>14 DEF LisBreak1, SetState
  <2> QED
    BY <1>14, <2>1 DEF LisBreak1
<1>15. CASE LisBreak2
  BY <1>15 DEF LisBreak2, CancelBoth
<1>16. CASE LisBroken
  BY <1>16 DEF LisBroken, Idle
<1>17. CASE LisResume1
  BY <1>17 DEF LisResume1, LisGo, NewRun
<1>18. CASE LisResume2
  BY <1>18 DEF LisResume2, LisGo, SetState
<1>19. CASE LisResume3
  BY <1>19 DEF LisResume3, PushToken, Idle
<1>20. ASSUME NEW c \in Conns, RunSchema(c) PROVE StoreHoldsLive'
  BY <1>20 DEF RunSchema
<1>21. ASSUME NEW c \in Conns, RunSchemaFails(c) PROVE StoreHoldsLive'
  BY <1>21 DEF RunSchemaFails, Go
<1>22. ASSUME NEW c \in Conns, RouteEnds(c) PROVE StoreHoldsLive'
  BY <1>22 DEF RouteEnds
<1>23. ASSUME NEW c \in Conns, RouteInterrupted(c) PROVE StoreHoldsLive'
  BY <1>23 DEF RouteInterrupted, HeldDone
<1>24. ASSUME NEW c \in Conns, ParkCheck(c) PROVE StoreHoldsLive'
  BY <1>24 DEF ParkCheck, Go, Suspended
<1>25. ASSUME NEW c \in Conns, Parking(c) PROVE StoreHoldsLive'
  BY <1>25 DEF Parking, Go, Terminating
<1>26. ASSUME NEW c \in Conns, ParkResumed(c) PROVE StoreHoldsLive'
  BY <1>26 DEF ParkResumed, Go
<1>27. ASSUME NEW c \in Conns, ParkTerminated(c) PROVE StoreHoldsLive'
  BY <1>27 DEF ParkTerminated, Go
<1>28. ASSUME NEW c \in Conns, Unpark(c) PROVE StoreHoldsLive'
  BY <1>28 DEF Unpark
<1>29. ASSUME NEW c \in Conns, Guard(c) PROVE StoreHoldsLive'
  BY <1>29 DEF Guard, Go, Terminating
<1>30. ASSUME NEW c \in Conns, Complete(c) PROVE StoreHoldsLive'
  BY <1>30 DEF Complete
<1>31. ASSUME NEW c \in Conns, PopCheck(c) PROVE StoreHoldsLive'
  BY <1>31 DEF PopCheck, Go, Suspended
<1>32. ASSUME NEW c \in Conns, PopResume1(c) PROVE StoreHoldsLive'
  BY <1>32 DEF PopResume1
<1>33. ASSUME NEW c \in Conns, PopResume2(c) PROVE StoreHoldsLive'
  BY <1>33 DEF PopResume2, Go, SetState
<1>34. ASSUME NEW c \in Conns, PopResume3(c) PROVE StoreHoldsLive'
  BY <1>34 DEF PopResume3, Go, PushToken
<1>35. ASSUME NEW c \in Conns, Disconnected(c) PROVE StoreHoldsLive'
  BY <1>35 DEF Disconnected
<1>36. ASSUME NEW c \in Conns, Stop1(c) PROVE StoreHoldsLive'
  BY <1>36 DEF Stop1, Go, SetState
<1>37. ASSUME NEW c \in Conns, Stop2(c) PROVE StoreHoldsLive'
  BY <1>37 DEF Stop2, Go, CancelBoth
<1>38. ASSUME NEW c \in Conns, Stop3(c) PROVE StoreHoldsLive'
  BY <1>38 DEF Stop3, Go
<1>39. ASSUME NEW c \in Conns, Stop4(c) PROVE StoreHoldsLive'
  BY <1>39 DEF Stop4, Go
<1> QED
  BY Zenon, <1>1, <1>2, <1>3, <1>4, <1>5, <1>6, <1>7, <1>8, <1>9, <1>10, <1>11,
     <1>12, <1>13, <1>14, <1>15, <1>16, <1>17, <1>18, <1>19, <1>20, <1>21, <1>22,
     <1>23, <1>24, <1>25, <1>26, <1>27, <1>28, <1>29, <1>30, <1>31, <1>32, <1>33,
     <1>34, <1>35, <1>36, <1>37, <1>38, <1>39
     DEF ServerStep, LisEvent, LisControl, Schema, SchemaChoice

\* Resume sets the state before it pushes the token, and only the park loop
\* takes the token out.
LEMMA NoLostWakeupStep ==
  ASSUME TypeOK, ListenerRegs, SchemaRegs, NoLostWakeup, ServerStep
  PROVE  NoLostWakeup'
<1> USE NoConnAssumption, NoSessionAssumption
<1> USE DEF TypeOK, ListenerRegs, SchemaRegs, NoLostWakeup, MidResume, Connection,
        Goroutine, Listener
<1>1. CASE \E s \in Session : NodeMessage(s)
  BY SMTT(30), <1>1 DEF NodeMessage, StartDialog, NewConnection
<1>2. CASE \E s \in Session : AgentTakeover(s)
  BY <1>2 DEF AgentTakeover, Suspended, Terminating, Idle
<1>3. CASE \E t \in Threads : ClientLeave(t)
  BY <1>3 DEF ClientLeave, Idle
<1>4. CASE \E s \in Session : \E r \in ReleasedBy(s) : GrantPop(s, r)
  BY <1>4 DEF GrantPop, Suspended, Idle, ReleasedBy
<1>5. CASE \E s \in Session : \E r \in ReleasedBy(s) : GrantActive(s, r)
  BY <1>5 DEF GrantActive, Suspended, Idle, ReleasedBy
<1>6. CASE \E s \in Session : \E r \in ReleasedBy(s), reason \in Reason : GrantPush(s, r, reason)
  BY <1>6 DEF GrantPush, Idle, ReleasedBy
<1>7. CASE LisAdopt
  BY <1>7 DEF LisAdopt, Released, Idle, Suspended, Terminating
<1>8. CASE LisPush
  BY <1>8 DEF LisPush, Released
<1>9. CASE LisSuspend1
  BY <1>9 DEF LisSuspend1, LisGo, SetState
<1>10. CASE LisSuspend2
  BY <1>10 DEF LisSuspend2, CancelRun, Idle
<1>11. CASE LisLink
  BY <1>11 DEF LisLink, Idle
<1>12. CASE LisPushStart
  BY <1>12 DEF LisPushStart, StartDialog, NewConnection, Idle
<1>13. CASE LisPushAbort
  BY <1>13 DEF LisPushAbort, Idle
<1>14. CASE LisBreak1
  BY <1>14 DEF LisBreak1, SetState
<1>15. CASE LisBreak2
  BY <1>15 DEF LisBreak2, CancelBoth
<1>16. CASE LisBroken
  BY <1>16 DEF LisBroken, Idle
<1>17. CASE LisResume1
  BY <1>17 DEF LisResume1, LisGo, NewRun
<1>18. CASE LisResume2
  BY <1>18 DEF LisResume2, LisGo, SetState
<1>19. CASE LisResume3
  BY <1>19 DEF LisResume3, PushToken, Idle
<1>20. ASSUME NEW c \in Conns, RunSchema(c) PROVE NoLostWakeup'
  BY <1>20 DEF RunSchema
<1>21. ASSUME NEW c \in Conns, RunSchemaFails(c) PROVE NoLostWakeup'
  BY <1>21 DEF RunSchemaFails, Go
<1>22. ASSUME NEW c \in Conns, RouteEnds(c) PROVE NoLostWakeup'
  BY <1>22 DEF RouteEnds
<1>23. ASSUME NEW c \in Conns, RouteInterrupted(c) PROVE NoLostWakeup'
  BY <1>23 DEF RouteInterrupted, HeldDone
<1>24. ASSUME NEW c \in Conns, ParkCheck(c) PROVE NoLostWakeup'
  BY <1>24 DEF ParkCheck, Go, Suspended
<1>25. ASSUME NEW c \in Conns, Parking(c) PROVE NoLostWakeup'
  BY <1>25 DEF Parking, Go, Terminating
<1>26. ASSUME NEW c \in Conns, ParkResumed(c) PROVE NoLostWakeup'
  BY <1>26 DEF ParkResumed, Go
<1>27. ASSUME NEW c \in Conns, ParkTerminated(c) PROVE NoLostWakeup'
  BY <1>27 DEF ParkTerminated, Go
<1>28. ASSUME NEW c \in Conns, Unpark(c) PROVE NoLostWakeup'
  BY <1>28 DEF Unpark
<1>29. ASSUME NEW c \in Conns, Guard(c) PROVE NoLostWakeup'
  BY <1>29 DEF Guard, Go, Terminating
<1>30. ASSUME NEW c \in Conns, Complete(c) PROVE NoLostWakeup'
  BY <1>30 DEF Complete
<1>31. ASSUME NEW c \in Conns, PopCheck(c) PROVE NoLostWakeup'
  BY <1>31 DEF PopCheck, Go, Suspended
<1>32. ASSUME NEW c \in Conns, PopResume1(c) PROVE NoLostWakeup'
  <2> HIDE DEF TypeOK, ListenerRegs, SchemaRegs, Connection, Goroutine, Listener
  <2> QED
    BY <1>32, PopResume1Frame
<1>33. ASSUME NEW c \in Conns, PopResume2(c) PROVE NoLostWakeup'
  BY <1>33 DEF PopResume2, Go, SetState
<1>34. ASSUME NEW c \in Conns, PopResume3(c) PROVE NoLostWakeup'
  BY <1>34 DEF PopResume3, Go, PushToken
<1>35. ASSUME NEW c \in Conns, Disconnected(c) PROVE NoLostWakeup'
  BY <1>35 DEF Disconnected
<1>36. ASSUME NEW c \in Conns, Stop1(c) PROVE NoLostWakeup'
  BY <1>36 DEF Stop1, Go, SetState
<1>37. ASSUME NEW c \in Conns, Stop2(c) PROVE NoLostWakeup'
  BY <1>37 DEF Stop2, Go, CancelBoth
<1>38. ASSUME NEW c \in Conns, Stop3(c) PROVE NoLostWakeup'
  BY <1>38 DEF Stop3, Go
<1>39. ASSUME NEW c \in Conns, Stop4(c) PROVE NoLostWakeup'
  BY <1>39 DEF Stop4, Go
<1> QED
  BY Zenon, <1>1, <1>2, <1>3, <1>4, <1>5, <1>6, <1>7, <1>8, <1>9, <1>10, <1>11,
     <1>12, <1>13, <1>14, <1>15, <1>16, <1>17, <1>18, <1>19, <1>20, <1>21, <1>22,
     <1>23, <1>24, <1>25, <1>26, <1>27, <1>28, <1>29, <1>30, <1>31, <1>32, <1>33,
     <1>34, <1>35, <1>36, <1>37, <1>38, <1>39
     DEF ServerStep, LisEvent, LisControl, Schema, SchemaChoice

\* Suspend sets the state before it cancels, Resume renews the context before
\* it sets the state; so the writes of both in any order leave no suspended
\* connection with a live context.
LEMMA SuspendedIsCancelledStep ==
  ASSUME TypeOK, ListenerRegs, SchemaRegs, SuspendedIsCancelled, ServerStep
  PROVE  SuspendedIsCancelled'
<1> USE NoConnAssumption, NoSessionAssumption
<1> USE DEF TypeOK, ListenerRegs, SchemaRegs, SuspendedIsCancelled, MidResume,
        Connection, Goroutine, Listener
<1>1. CASE \E s \in Session : NodeMessage(s)
  BY SMTT(30), <1>1 DEF NodeMessage, StartDialog, NewConnection
<1>2. CASE \E s \in Session : AgentTakeover(s)
  BY <1>2 DEF AgentTakeover, Suspended, Terminating, Idle
<1>3. CASE \E t \in Threads : ClientLeave(t)
  BY <1>3 DEF ClientLeave, Idle
<1>4. CASE \E s \in Session : \E r \in ReleasedBy(s) : GrantPop(s, r)
  BY <1>4 DEF GrantPop, Suspended, Idle, ReleasedBy
<1>5. CASE \E s \in Session : \E r \in ReleasedBy(s) : GrantActive(s, r)
  BY <1>5 DEF GrantActive, Suspended, Idle, ReleasedBy
<1>6. CASE \E s \in Session : \E r \in ReleasedBy(s), reason \in Reason : GrantPush(s, r, reason)
  BY <1>6 DEF GrantPush, Idle, ReleasedBy
<1>7. CASE LisAdopt
  BY <1>7 DEF LisAdopt, Released, Idle, Suspended, Terminating
<1>8. CASE LisPush
  BY <1>8 DEF LisPush, Released
<1>9. CASE LisSuspend1
  BY <1>9 DEF LisSuspend1, LisGo, SetState
<1>10. CASE LisSuspend2
  BY <1>10 DEF LisSuspend2, CancelRun, Idle
<1>11. CASE LisLink
  BY <1>11 DEF LisLink, Idle
<1>12. CASE LisPushStart
  BY <1>12 DEF LisPushStart, StartDialog, NewConnection, Idle
<1>13. CASE LisPushAbort
  BY <1>13 DEF LisPushAbort, Idle
<1>14. CASE LisBreak1
  BY <1>14 DEF LisBreak1, SetState
<1>15. CASE LisBreak2
  BY <1>15 DEF LisBreak2, CancelBoth
<1>16. CASE LisBroken
  BY <1>16 DEF LisBroken, Idle
<1>17. CASE LisResume1
  BY <1>17 DEF LisResume1, LisGo, NewRun
<1>18. CASE LisResume2
  BY <1>18 DEF LisResume2, LisGo, SetState
<1>19. CASE LisResume3
  BY <1>19 DEF LisResume3, PushToken, Idle
<1>20. ASSUME NEW c \in Conns, RunSchema(c) PROVE SuspendedIsCancelled'
  BY <1>20 DEF RunSchema
<1>21. ASSUME NEW c \in Conns, RunSchemaFails(c) PROVE SuspendedIsCancelled'
  BY <1>21 DEF RunSchemaFails, Go
<1>22. ASSUME NEW c \in Conns, RouteEnds(c) PROVE SuspendedIsCancelled'
  BY <1>22 DEF RouteEnds
<1>23. ASSUME NEW c \in Conns, RouteInterrupted(c) PROVE SuspendedIsCancelled'
  BY <1>23 DEF RouteInterrupted, HeldDone
<1>24. ASSUME NEW c \in Conns, ParkCheck(c) PROVE SuspendedIsCancelled'
  BY <1>24 DEF ParkCheck, Go, Suspended
<1>25. ASSUME NEW c \in Conns, Parking(c) PROVE SuspendedIsCancelled'
  BY <1>25 DEF Parking, Go, Terminating
<1>26. ASSUME NEW c \in Conns, ParkResumed(c) PROVE SuspendedIsCancelled'
  BY <1>26 DEF ParkResumed, Go
<1>27. ASSUME NEW c \in Conns, ParkTerminated(c) PROVE SuspendedIsCancelled'
  BY <1>27 DEF ParkTerminated, Go
<1>28. ASSUME NEW c \in Conns, Unpark(c) PROVE SuspendedIsCancelled'
  BY <1>28 DEF Unpark
<1>29. ASSUME NEW c \in Conns, Guard(c) PROVE SuspendedIsCancelled'
  BY <1>29 DEF Guard, Go, Terminating
<1>30. ASSUME NEW c \in Conns, Complete(c) PROVE SuspendedIsCancelled'
  BY <1>30 DEF Complete
<1>31. ASSUME NEW c \in Conns, PopCheck(c) PROVE SuspendedIsCancelled'
  BY <1>31 DEF PopCheck, Go, Suspended
<1>32. ASSUME NEW c \in Conns, PopResume1(c) PROVE SuspendedIsCancelled'
  <2> HIDE DEF TypeOK, ListenerRegs, SchemaRegs, Connection, Goroutine, Listener
  <2> QED
    BY <1>32, PopResume1Frame
<1>33. ASSUME NEW c \in Conns, PopResume2(c) PROVE SuspendedIsCancelled'
  BY <1>33 DEF PopResume2, Go, SetState
<1>34. ASSUME NEW c \in Conns, PopResume3(c) PROVE SuspendedIsCancelled'
  BY <1>34 DEF PopResume3, Go, PushToken
<1>35. ASSUME NEW c \in Conns, Disconnected(c) PROVE SuspendedIsCancelled'
  BY <1>35 DEF Disconnected
<1>36. ASSUME NEW c \in Conns, Stop1(c) PROVE SuspendedIsCancelled'
  BY <1>36 DEF Stop1, Go, SetState
<1>37. ASSUME NEW c \in Conns, Stop2(c) PROVE SuspendedIsCancelled'
  BY <1>37 DEF Stop2, Go, CancelBoth
<1>38. ASSUME NEW c \in Conns, Stop3(c) PROVE SuspendedIsCancelled'
  BY <1>38 DEF Stop3, Go
<1>39. ASSUME NEW c \in Conns, Stop4(c) PROVE SuspendedIsCancelled'
  BY <1>39 DEF Stop4, Go
<1> QED
  BY Zenon, <1>1, <1>2, <1>3, <1>4, <1>5, <1>6, <1>7, <1>8, <1>9, <1>10, <1>11,
     <1>12, <1>13, <1>14, <1>15, <1>16, <1>17, <1>18, <1>19, <1>20, <1>21, <1>22,
     <1>23, <1>24, <1>25, <1>26, <1>27, <1>28, <1>29, <1>30, <1>31, <1>32, <1>33,
     <1>34, <1>35, <1>36, <1>37, <1>38, <1>39
     DEF ServerStep, LisEvent, LisControl, Schema, SchemaChoice

\* An eviction touches the store alone, and is remembered.
LEMMA EvictStep ==
  ASSUME IInv, NEW s \in Session, Evict(s)
  PROVE  IInv'
<1>1. TypeOK'
  <2>1. store' \in [Session -> Conns \cup {NoConn}]
    BY Zenon DEF IInv, TypeOK, Evict
  <2>2. evicted' \subseteq Session
    BY Zenon DEF IInv, TypeOK, Evict
  <2> QED
    BY Zenon, <2>1, <2>2 DEF IInv, TypeOK, Evict
<1>2. ListenerRegs' /\ SchemaRegs' /\ NoLostWakeup' /\ SuspendedIsCancelled'
  <2>1. conn' = conn /\ gor' = gor /\ lis' = lis
    BY Zenon DEF Evict
  <2>2. ListenerRegs' /\ SchemaRegs'
    BY Zenon, <2>1 DEF IInv, ListenerRegs, SchemaRegs
  <2>3. NoLostWakeup' /\ SuspendedIsCancelled'
    BY <2>1 DEF IInv, NoLostWakeup, SuspendedIsCancelled, MidResume
  <2> QED
    BY <2>2, <2>3
<1>3. StoreHoldsLive'
  BY DEF IInv, TypeOK, SchemaRegs, StoreHoldsLive, Live, Evict
<1> QED
  BY <1>1, <1>2, <1>3 DEF IInv

-----------------------------------------------------------------------------
\* The invariant holds before the first event.
LEMMA InitIInv == Init => IInv
<1> SUFFICES ASSUME Init PROVE IInv
  OBVIOUS
<1> USE NoConnAssumption, NoSessionAssumption DEF Init
<1>1. TypeOK
  BY SchemaPcs, ListenerPcs
     DEF TypeOK, Unborn, Unstarted, Idle, Connection, Goroutine, Listener, ConnState, Ctx
<1>2. ListenerRegs /\ SchemaRegs
  BY DEF ListenerRegs, SchemaRegs, Idle, Unstarted
<1>3. StoreHoldsLive
  BY DEF StoreHoldsLive, Live, Unstarted
<1>4. NoLostWakeup /\ SuspendedIsCancelled
  BY DEF NoLostWakeup, SuspendedIsCancelled, Unborn, Unstarted
<1> QED
  BY <1>1, <1>2, <1>3, <1>4 DEF IInv

\* The invariant is inductive.
LEMMA StepIInv == IInv /\ [Next]_vars => IInv'
<1> SUFFICES ASSUME IInv, [Next]_vars PROVE IInv'
  OBVIOUS
<1>1. CASE ServerStep /\ UNCHANGED evicted
  BY <1>1, TypeStep, ListenerRegsStep, SchemaRegsStep, StoreHoldsLiveStep,
     NoLostWakeupStep, SuspendedIsCancelledStep DEF IInv
<1>2. CASE \E s \in Session : Evict(s)
  BY <1>2, EvictStep
<1>3. CASE UNCHANGED vars
  BY <1>3 DEF vars, IInv, TypeOK, ListenerRegs, SchemaRegs, StoreHoldsLive, NoLostWakeup,
     SuspendedIsCancelled, Live, MidResume
<1> QED
  BY <1>1, <1>2, <1>3 DEF Next

\* The invariant holds in every reachable state.
LEMMA Invariance == Spec => []IInv
  BY InitIInv, StepIInv, PTL DEF Spec

\* Every state of the listener and the schema goroutines is well formed.
THEOREM TypeCorrect == Spec => []TypeOK
<1>1. IInv => TypeOK
  BY DEF IInv
<1> QED
  BY <1>1, Invariance, PTL

\* startDialog starts no second schema for a session while one is live on the
\* node, whatever mix of messages and grants reaches the listener, as long as the
\* store has not dropped a connection of the session.
THEOREM AtMostOneSchema == Spec => []OneSchemaPerSession
<1>1. IInv => OneSchemaPerSession
  BY DEF IInv, StoreHoldsLive, OneSchemaPerSession
<1> QED
  BY <1>1, Invariance, PTL

\* Connection.Resume never leaves a parked schema running and without a token.
THEOREM ResumeWakesParked == Spec => []NoLostWakeup
<1>1. IInv => NoLostWakeup
  BY DEF IInv
<1> QED
  BY <1>1, Invariance, PTL

\* A suspended connection outside Suspend and Resume has a cancelled run context.
THEOREM SuspendCancels == Spec => []SuspendedIsCancelled
<1>1. IInv => SuspendedIsCancelled
  BY DEF IInv
<1> QED
  BY <1>1, Invariance, PTL

=============================================================================
