------------------------------ MODULE ImControl ------------------------------
(***************************************************************************)
(* The bot-control stack of an IM thread on one node: the IM listener      *)
(* (providers/im/server.go), the connections it creates                    *)
(* (providers/im/connection.go), and the goroutine that runs the schema of *)
(* each connection (routes/im/router.go).                                  *)
(*                                                                         *)
(* The listener is one goroutine; every connection has one more.  They     *)
(* share the connection (an atomic state word, the run context, the        *)
(* lifetime context, a one-slot resume channel), the connection store and  *)
(* the pushParent map, so Suspend, Resume, Break and Stop are modelled one *)
(* shared access at a time.                                                *)
(*                                                                         *)
(* Abstracted: what a schema does (Route ends by itself or because its     *)
(* context is done), messages fed to a live schema (module ImReceive) and  *)
(* the session table (module ImSession): a claim succeeds or it does not.  *)
(***************************************************************************)
EXTENDS Naturals, FiniteSets

CONSTANTS Threads,    \* thread ids
          Subs,       \* bot ids; a session is a thread and a bot
          Conns,      \* Connection objects a behaviour may allocate
          NoConn,
          NoSession

Session == Threads \X Subs

ASSUME NoConnAssumption == NoConn \notin Conns
ASSUME NoSessionAssumption == NoSession \notin Session

VARIABLES conn,        \* the Connection objects
          gor,         \* the schema goroutine of each connection
          store,       \* ConnectionStore: session -> live connection
          pushParent,  \* server.pushParent: pushed session -> source session
          lis,         \* the listener goroutine
          evicted      \* history: sessions whose connection the store has dropped

vars == <<conn, gor, store, pushParent, lis, evicted>>

\* connState*: 0 = running, 1 = suspended, 2 = terminating.
ConnState == {"running", "suspended", "terminating"}

\* A context is live until it is cancelled.
Ctx == {"live", "done"}

Connection == [sess: Session \cup {NoSession}, state: ConnState, run: Ctx,
               life: Ctx, token: BOOLEAN]

\* Where runSchema and Stop are.  "held" is the context Route was given: the
\* connection's current runCtx ("cur") or an earlier one, live or done.
SchemaPc == {"none", "queued", "route", "check", "parking", "park", "unpark",
             "guard", "complete", "popCheck", "resume1", "resume2",
             "resume3", "disconnected", "stop1", "stop2", "stop3", "stop4", "gone"}

Goroutine == [pc: SchemaPc, held: Ctx \cup {"none", "cur"}, interrupted: {"nil", "request"},
              target: Conns \cup {NoConn}]

\* "transfer" stands for every reason the handler has no case for.
Reason == {"initial", "agent_handback", "agent_left", "transfer"}

ListenerPc == {"idle", "adopt", "push", "breaking", "break2", "resume1", "resume2",
               "resume3", "suspend1", "suspend2", "link", "start"}

Listener == [pc: ListenerPc, sess: Session \cup {NoSession},
             rel: Session \cup {NoSession},
             conn: Conns \cup {NoConn}, cur: Conns \cup {NoConn},
             keys: SUBSET Session]

Idle == [pc |-> "idle", sess |-> NoSession, rel |-> NoSession,
         conn |-> NoConn, cur |-> NoConn, keys |-> {}]

\* The shapes of state, one record per goroutine and object.
TypeOK ==
  /\ conn \in [Conns -> Connection]
  /\ gor \in [Conns -> Goroutine]
  /\ store \in [Session -> Conns \cup {NoConn}]
  /\ pushParent \in [Session -> Session \cup {NoSession}]
  /\ lis \in Listener
  /\ evicted \subseteq Session

Unborn == [sess |-> NoSession, state |-> "running", run |-> "live", life |-> "live",
           token |-> FALSE]

Unstarted == [pc |-> "none", held |-> "none", interrupted |-> "nil", target |-> NoConn]

Init ==
  /\ conn = [c \in Conns |-> Unborn]
  /\ gor = [c \in Conns |-> Unstarted]
  /\ store = [s \in Session |-> NoConn]
  /\ pushParent = [s \in Session |-> NoSession]
  /\ lis = Idle
  /\ evicted = {}

-----------------------------------------------------------------------------
(* Shared accesses of Connection's control operations. *)

SetState(c, st) == [conn EXCEPT ![c].state = st]

\* Mutant: Suspend only sets the state.
CancelRunForgotten(c) == conn

\* Mutant: Break leaves the run context alone.
CancelLifeOnly(c) == [conn EXCEPT ![c].life = "done"]

\* Break and Stop cancel both contexts; Suspend cancels the run context only.
CancelRun(c) == [conn EXCEPT ![c].run = "done"]

CancelBoth(c) == [conn EXCEPT ![c] = [@ EXCEPT !.run = "done", !.life = "done"]]

\* Resume installs a fresh runCtx.  A Route that still holds the one it
\* replaces keeps it, cancelled or not.
NewRun(c) ==
  /\ conn' = [conn EXCEPT ![c].run = "live"]
  /\ gor' = [gor EXCEPT ![c].held = IF @ = "cur" THEN conn[c].run ELSE @]

\* Mutant: resumeCh without a buffer.
PushTokenUnbuffered(c) ==
  IF gor[c].pc = "park" THEN [conn EXCEPT ![c].token = TRUE] ELSE conn

\* The non-blocking send on resumeCh: a full slot is left as it is.
PushToken(c) == [conn EXCEPT ![c].token = TRUE]

Go(c, from, to) ==
  /\ gor[c].pc = from
  /\ gor' = [gor EXCEPT ![c].pc = to]

LisGo(from, to) ==
  /\ lis.pc = from
  /\ lis' = [lis EXCEPT !.pc = to]

-----------------------------------------------------------------------------
(* The listener: bot.control events and messages that start a schema. *)

\* newConnection and ConnectionStore.Add, after the session row was claimed.
\* runSchema is handed the connection through s.consume.
NewConnection(c, s) ==
  /\ gor[c].pc = "none"
  /\ conn' = [conn EXCEPT ![c].sess = s]
  /\ gor' = [gor EXCEPT ![c].pc = "queued"]
  /\ store' = [store EXCEPT ![s] = c]

\* Mutant: the session is not looked up before the dialog is started.
StartDialogUnchecked(s) ==
  \E c \in Conns : NewConnection(c, s)

\* A second dialog is not started for a session in the store.
StartDialog(s) ==
  /\ store[s] = NoConn
  /\ \E c \in Conns : NewConnection(c, s)

\* A customer message to a bot with no connection.  System messages, messages
\* of bots and failed claims change nothing; a live connection gets OnMessage.
NodeMessage(s) ==
  /\ lis.pc = "idle"
  /\ StartDialog(s)
  /\ UNCHANGED <<pushParent, lis>>

Suspended(c) == conn[c].state = "suspended"

Terminating(c) == conn[c].state = "terminating"

\* bot.control.granted for s, released by r (NoSession: by no other bot).
\* Only the listener suspends, so the connection found for s and its
\* IsSuspended are those of one instant.

\* POP: break the released bot, then resume.
GrantPop(s, r) ==
  /\ lis.pc = "idle"
  /\ store[s] # NoConn
  /\ Suspended(store[s])
  /\ lis' = [Idle EXCEPT !.pc = "breaking", !.keys = {r} \ {NoSession}, !.conn = store[s]]
  /\ UNCHANGED <<conn, gor, store, pushParent>>

\* The bot is active: adoptPush if another bot released control.  Without
\* one, or when an agent_handback is taken by ReturnFromQueue, nothing changes
\* but the queue handler that waits.
GrantActive(s, r) ==
  /\ lis.pc = "idle"
  /\ store[s] # NoConn
  /\ ~Suspended(store[s])
  /\ r # NoSession
  /\ lis' = [Idle EXCEPT !.pc = "adopt", !.sess = s, !.rel = r, !.conn = store[s]]
  /\ UNCHANGED <<conn, gor, store, pushParent>>

\* No connection: PUSH.  The reasons initial, agent_handback and agent_left
\* start nothing.
GrantPush(s, r, reason) ==
  /\ lis.pc = "idle"
  /\ store[s] = NoConn
  /\ reason \notin {"initial", "agent_handback", "agent_left"}
  /\ lis' = [Idle EXCEPT !.pc = "push", !.sess = s, !.rel = r]
  /\ UNCHANGED <<conn, gor, store, pushParent>>

Released == IF lis.rel = NoSession THEN NoConn ELSE store[lis.rel]

\* adoptPush: the source is linked, and suspended unless it already is or is
\* terminating.
LisAdopt ==
  /\ lis.pc = "adopt"
  /\ lis' = IF Released = NoConn THEN Idle
            ELSE [lis EXCEPT !.cur = Released,
                    !.pc = IF Suspended(Released) \/ Terminating(Released)
                           THEN "link" ELSE "suspend1"]
  /\ UNCHANGED <<conn, gor, store, pushParent>>

\* A push suspends the source whatever its state.
LisPush ==
  /\ lis.pc = "push"
  /\ lis' = [lis EXCEPT !.cur = Released,
                        !.pc = IF Released = NoConn THEN "start" ELSE "suspend1"]
  /\ UNCHANGED <<conn, gor, store, pushParent>>

LisSuspend1 ==
  /\ LisGo("suspend1", "suspend2")
  /\ conn' = SetState(lis.cur, "suspended")
  /\ UNCHANGED <<gor, store, pushParent>>

LisSuspend2 ==
  /\ lis.pc = "suspend2"
  /\ conn' = CancelRun(lis.cur)
  /\ lis' = IF lis.rel = NoSession THEN Idle ELSE [lis EXCEPT !.pc = "link"]
  /\ UNCHANGED <<gor, store, pushParent>>

\* pushParent.Store; a push goes on to start the dialog.
LisLink ==
  /\ lis.pc = "link"
  /\ pushParent' = [pushParent EXCEPT ![lis.sess] = lis.rel]
  /\ lis' = IF lis.conn = NoConn THEN [lis EXCEPT !.pc = "start"] ELSE Idle
  /\ UNCHANGED <<conn, gor, store>>

LisPushStart ==
  /\ lis.pc = "start"
  /\ StartDialog(lis.sess)
  /\ lis' = Idle
  /\ UNCHANGED pushParent

\* No customer peer was resolved, or the session could not be claimed: the
\* dialog is not started, the source stays suspended and linked.
LisPushAbort ==
  /\ lis.pc = "start"
  /\ lis' = Idle
  /\ UNCHANGED <<conn, gor, store, pushParent>>

\* bot.control.released, client_leave: BreakByThread over a snapshot of keys.
ClientLeave(t) ==
  /\ lis.pc = "idle"
  /\ LET keys == {s \in Session : s[1] = t /\ store[s] # NoConn}
     IN /\ keys # {}
        /\ lis' = [Idle EXCEPT !.pc = "breaking", !.keys = keys]
  /\ UNCHANGED <<conn, gor, store, pushParent>>

\* bot.control.released, agent_takeover: suspendForAgent, for a bot that is
\* not waiting in a queue.
AgentTakeover(s) ==
  /\ lis.pc = "idle"
  /\ store[s] # NoConn
  /\ ~Suspended(store[s]) /\ ~Terminating(store[s])
  /\ lis' = [Idle EXCEPT !.pc = "suspend1", !.cur = store[s]]
  /\ UNCHANGED <<conn, gor, store, pushParent>>

\* Break of the connection found under the next key, if it is still there.
LisBreak1 ==
  /\ lis.pc = "breaking"
  /\ \E s \in lis.keys :
       IF store[s] = NoConn
       THEN /\ lis' = [lis EXCEPT !.keys = @ \ {s}]
            /\ UNCHANGED conn
       ELSE /\ lis' = [lis EXCEPT !.keys = @ \ {s}, !.pc = "break2", !.cur = store[s]]
            /\ conn' = SetState(store[s], "terminating")
  /\ UNCHANGED <<gor, store, pushParent>>

LisBreak2 ==
  /\ lis.pc = "break2"
  /\ lis' = [lis EXCEPT !.pc = "breaking", !.cur = NoConn]
  /\ conn' = CancelBoth(lis.cur)
  /\ UNCHANGED <<gor, store, pushParent>>

LisBroken ==
  /\ lis.pc = "breaking"
  /\ lis.keys = {}
  /\ lis' = IF lis.conn = NoConn THEN Idle ELSE [lis EXCEPT !.pc = "resume1"]
  /\ UNCHANGED <<conn, gor, store, pushParent>>

LisResume1 ==
  /\ LisGo("resume1", "resume2")
  /\ NewRun(lis.conn)
  /\ UNCHANGED <<store, pushParent>>

LisResume2 ==
  /\ LisGo("resume2", "resume3")
  /\ conn' = SetState(lis.conn, "running")
  /\ UNCHANGED <<gor, store, pushParent>>

LisResume3 ==
  /\ lis.pc = "resume3"
  /\ conn' = PushToken(lis.conn)
  /\ lis' = Idle
  /\ UNCHANGED <<gor, store, pushParent>>

LisControl ==
  \/ LisAdopt \/ LisPush \/ LisSuspend1 \/ LisSuspend2 \/ LisLink
  \/ LisPushStart \/ LisPushAbort \/ LisBreak1 \/ LisBreak2 \/ LisBroken
  \/ LisResume1 \/ LisResume2 \/ LisResume3

\* releasedSessionID is empty when ReleasedSub is 0 or the granted Sub.
ReleasedBy(s) == {q \in Session : q[1] = s[1] /\ q # s} \cup {NoSession}

LisEvent ==
  \/ \E s \in Session : NodeMessage(s) \/ AgentTakeover(s)
  \/ \E t \in Threads : ClientLeave(t)
  \/ \E s \in Session : \E r \in ReleasedBy(s) :
       \/ GrantPop(s, r)
       \/ GrantActive(s, r)
       \/ \E reason \in Reason : GrantPush(s, r, reason)

-----------------------------------------------------------------------------
(* The schema goroutine: Router.handle, runSchema, Connection.Stop. *)

\* handle reads RunContext and runSchema loads the schema and enters Route.
RunSchema(c) ==
  /\ gor[c].pc = "queued"
  /\ gor' = [gor EXCEPT ![c] = [@ EXCEPT !.pc = "route", !.held = "cur"]]
  /\ UNCHANGED <<conn, store, pushParent, lis>>

\* No routing schema: handle stops the connection at once.
RunSchemaFails(c) ==
  /\ Go(c, "queued", "stop1")
  /\ UNCHANGED <<conn, store, pushParent, lis>>

\* The schema ran out of nodes or met a break.
RouteEnds(c) ==
  /\ gor[c].pc = "route"
  /\ gor' = [gor EXCEPT ![c] = [@ EXCEPT !.pc = "check", !.held = "none", !.interrupted = "nil"]]
  /\ UNCHANGED <<conn, store, pushParent, lis>>

HeldDone(c) == gor[c].held = "done" \/ (gor[c].held = "cur" /\ conn[c].run = "done")

\* Route saw its context done: it records the request it was cut off in.
RouteInterrupted(c) ==
  /\ gor[c].pc = "route"
  /\ HeldDone(c)
  /\ gor' = [gor EXCEPT ![c] = [@ EXCEPT !.pc = "check", !.held = "none", !.interrupted = "request"]]
  /\ UNCHANGED <<conn, store, pushParent, lis>>

\* for conv.IsSuspended()
ParkCheck(c) ==
  /\ Go(c, "check", IF Suspended(c) THEN "parking" ELSE "guard")
  /\ UNCHANGED <<conn, store, pushParent, lis>>

\* if conv.IsTerminating() inside the loop
Parking(c) ==
  /\ Go(c, "parking", IF Terminating(c) THEN "stop1" ELSE "park")
  /\ UNCHANGED <<conn, store, pushParent, lis>>

ParkResumed(c) ==
  /\ conn[c].token
  /\ Go(c, "park", "unpark")
  /\ conn' = [conn EXCEPT ![c].token = FALSE]
  /\ UNCHANGED <<store, pushParent, lis>>

ParkTerminated(c) ==
  /\ conn[c].life = "done"
  /\ Go(c, "park", "stop1")
  /\ UNCHANGED <<conn, store, pushParent, lis>>

\* ClearCancel, RepeatInterrupted, then Route on the RunContext of now.
Unpark(c) ==
  /\ gor[c].pc = "unpark"
  /\ gor' = [gor EXCEPT ![c] = [@ EXCEPT !.pc = "route", !.held = "cur", !.interrupted = "nil"]]
  /\ UNCHANGED <<conn, store, pushParent, lis>>

\* if conv.IsTerminating() after the loop
Guard(c) ==
  /\ Go(c, "guard", IF Terminating(c) THEN "stop1" ELSE "complete")
  /\ UNCHANGED <<conn, store, pushParent, lis>>

\* CompleteBotControl, a call to the thread service; then resumeParentOf:
\* LoadAndDelete the link and look the parent up.
Complete(c) ==
  /\ gor[c].pc = "complete"
  /\ LET p == pushParent[conn[c].sess]
         parent == IF p = NoSession THEN NoConn ELSE store[p]
     IN gor' = [gor EXCEPT ![c] = [@ EXCEPT !.target = parent, !.interrupted = "nil",
                  !.pc = IF parent = NoConn THEN "disconnected" ELSE "popCheck"]]
  /\ pushParent' = [pushParent EXCEPT ![conn[c].sess] = NoSession]
  /\ UNCHANGED <<conn, store, lis>>

PopCheck(c) ==
  /\ Go(c, "popCheck", IF Suspended(gor[c].target) THEN "resume1" ELSE "disconnected")
  /\ UNCHANGED <<conn, store, pushParent, lis>>

PopResume1(c) ==
  /\ gor[c].pc = "resume1"
  /\ LET p == gor[c].target
     IN /\ conn' = [conn EXCEPT ![p].run = "live"]
        /\ gor' = [gor EXCEPT ![c].pc = "resume2",
                     ![p].held = IF @ = "cur" THEN conn[p].run ELSE @]
  /\ UNCHANGED <<store, pushParent, lis>>

PopResume2(c) ==
  /\ Go(c, "resume2", "resume3")
  /\ conn' = SetState(gor[c].target, "running")
  /\ UNCHANGED <<store, pushParent, lis>>

PopResume3(c) ==
  /\ Go(c, "resume3", "disconnected")
  /\ conn' = PushToken(gor[c].target)
  /\ UNCHANGED <<store, pushParent, lis>>

\* The "disconnected" trigger, up to its ten-second deadline.
Disconnected(c) ==
  /\ gor[c].pc = "disconnected"
  /\ gor' = [gor EXCEPT ![c] = [@ EXCEPT !.pc = "stop1", !.target = NoConn]]
  /\ UNCHANGED <<conn, store, pushParent, lis>>

Stop1(c) ==
  /\ Go(c, "stop1", "stop2")
  /\ conn' = SetState(c, "terminating")
  /\ UNCHANGED <<store, pushParent, lis>>

Stop2(c) ==
  /\ Go(c, "stop2", "stop3")
  /\ conn' = CancelBoth(c)
  /\ UNCHANGED <<store, pushParent, lis>>

\* ConnectionStore.Delete goes by id.
Stop3(c) ==
  /\ Go(c, "stop3", "stop4")
  /\ store' = [store EXCEPT ![conn[c].sess] = NoConn]
  /\ UNCHANGED <<conn, pushParent, lis>>

\* pushParent.Delete goes by id; the session row is removed after it.
Stop4(c) ==
  /\ Go(c, "stop4", "gone")
  /\ pushParent' = [pushParent EXCEPT ![conn[c].sess] = NoSession]
  /\ UNCHANGED <<conn, store, lis>>

\* What the goroutine does by itself once nothing holds it up.
Schema(c) ==
  \/ RunSchema(c) \/ RouteInterrupted(c) \/ ParkCheck(c) \/ Parking(c)
  \/ ParkResumed(c) \/ ParkTerminated(c) \/ Unpark(c) \/ Guard(c) \/ Complete(c)
  \/ PopCheck(c) \/ PopResume1(c) \/ PopResume2(c) \/ PopResume3(c)
  \/ Disconnected(c) \/ Stop1(c) \/ Stop2(c) \/ Stop3(c) \/ Stop4(c)

\* What depends on the schema or the database.
SchemaChoice(c) ==
  RunSchemaFails(c) \/ RouteEnds(c)

\* The goroutines of the server.
ServerStep ==
  \/ LisEvent
  \/ LisControl
  \/ \E c \in Conns : Schema(c) \/ SchemaChoice(c)

\* The store is an LRU that drops an entry after ten days, or when connections of
\* other threads fill it.  Nobody is told, and the schema goes on.
Evict(s) ==
  /\ store[s] # NoConn
  /\ store' = [store EXCEPT ![s] = NoConn]
  /\ evicted' = evicted \cup {s}
  /\ UNCHANGED <<conn, gor, pushParent, lis>>

Next ==
  \/ ServerStep /\ UNCHANGED evicted
  \/ \E s \in Session : Evict(s)

Spec == Init /\ [][Next]_vars

\* Goroutines are scheduled fairly; events need not arrive, a schema need not end
\* by itself and the store need not drop anything.
FairSpec ==
  /\ Spec
  /\ WF_vars(LisControl /\ UNCHANGED evicted)
  /\ \A c \in Conns : WF_vars(Schema(c) /\ UNCHANGED evicted)

-----------------------------------------------------------------------------
(* Properties. *)

\* The goroutine runs the schema, or has yet to leave the store.
Live(c) == gor[c].pc \notin {"none", "stop4", "gone"}

\* Some goroutine is inside Resume of c, at one of the given points.
MidResume(c, pcs) ==
  \/ lis.pc \in pcs /\ lis.conn = c
  \/ \E d \in Conns : gor[d].pc \in pcs /\ gor[d].target = c

\* A node runs two schemas for one thread and bot only if the store has dropped a
\* connection of theirs: startDialog (server.go:613) may be reached by a message
\* and by a grant while the previous schema winds down.
OneSchemaPerSession ==
  \A c, d \in Conns :
    Live(c) /\ Live(d) /\ conn[c].sess = conn[d].sess => c = d \/ conn[c].sess \in evicted

\* Resume of a parked schema is never lost: whenever the state word says
\* running while the goroutine is still in the park loop, the token is in
\* resumeCh or the Resume that is about to put it there has not returned.
NoLostWakeup ==
  \A c \in Conns :
    gor[c].pc \in {"parking", "park"} /\ conn[c].state = "running"
      => conn[c].token \/ MidResume(c, {"resume3"})

\* A suspended connection has no live run context, whichever way Suspend by
\* the listener and Resume by finishing children interleave, unless one of
\* them is still between its two writes.
SuspendedIsCancelled ==
  \A c \in Conns :
    conn[c].state = "suspended"
      => \/ conn[c].run = "done"
         \/ lis.pc = "suspend2" /\ lis.cur = c
         \/ MidResume(c, {"resume2"})

\* A connection broken by client_leave or by a pop leaves the node, from
\* wherever its schema is: queued, inside a handler, parked or completing.  It
\* stays only if a push or a pop of that moment stores another state over
\* terminating, or if Route runs on a context that a second Resume replaced.
BrokenStops ==
  \A c \in Conns :
    conn[c].life = "done" /\ Terminating(c)
      ~> \/ gor[c].pc = "gone"
         \/ ~Terminating(c)
         \/ gor[c].pc = "route" /\ gor[c].held = "live"

-----------------------------------------------------------------------------
(* What comments of the code say and the code does not do in every case.   *)

\* Break keeps the schema from completing and from resuming its parent: the
\* guard after the park loop lets no broken connection through.
NoCompleteAfterBreak ==
  [][\A c \in Conns : gor[c].pc = "guard" /\ gor'[c].pc = "complete"
       => conn[c].life = "live"]_vars

\* "An early signal is not lost", and a schema whose run was cut off by Suspend
\* parks: runSchema never takes such a run for the natural end of the schema.
EndIsNatural ==
  \A c \in Conns : gor[c].pc = "complete" => gor[c].interrupted = "nil"

\* The grant that follows a local pop changes nothing: a child that has given
\* control back to its running parent is not suspended and linked over it.
PopGrantIdempotent ==
  \A c \in Conns :
    lis.pc = "suspend1" /\ lis.cur = c /\ lis.conn # NoConn
      => ~(/\ gor[c].pc = "disconnected" /\ gor[c].target = lis.conn
           /\ gor[lis.conn].pc = "route")

\* Suspend cuts off the current run of the schema: once nobody is inside
\* Suspend or Resume, the Route of a suspended connection sees its context done.
SuspendStopsRun ==
  \A c \in Conns :
    (/\ conn[c].state = "suspended" /\ gor[c].pc = "route"
     /\ lis.pc = "idle" /\ ~MidResume(c, {"resume1", "resume2", "resume3"}))
      => HeldDone(c)

\* The parent recorded for a push is there when the pushed schema starts: the
\* Stop of an earlier connection of that session removes its own link only.
PushKeepsLink ==
  lis.pc = "start" /\ lis.cur # NoConn => pushParent[lis.sess] = lis.rel

=============================================================================
