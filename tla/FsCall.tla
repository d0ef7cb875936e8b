-------------------------------- MODULE FsCall --------------------------------
(***************************************************************************)
(* A call of FreeSWITCH: providers/fs/connection.go and server.go over an  *)
(* EventSocket.  Three goroutines share the connection: handleConnection,  *)
(* which takes events and at last cleans up; the schema with whatever      *)
(* handler it runs; and the flow of the hook of a bridge.  When the        *)
(* context of the call ends, the router runs the flow of the disconnected  *)
(* trigger, while a handler that was cut off may still be at work.         *)
(* Before the schema the router executes SetSchemaId itself, the only      *)
(* execute here that the end of the call does not cut off.                 *)
(*                                                                         *)
(* An execute is answered twice: by a reply to the command and by an       *)
(* EXECUTE_COMPLETE event, which setEvent hands to the channel the execute *)
(* has put into callbackMessages.                                          *)
(***************************************************************************)
EXTENDS EventSocket

CONSTANTS MaxExecutes,  \* bound on executes
          MaxCommands,  \* bound on commands
          ApiFlow       \* bound: flows that use Api

Flow == {"schema", "hook", "off"}
Execute == 1..MaxExecutes

ASSUME SenderAssumption == Sender = Flow \cup {"loop"}
ASSUME ExecutesAssumption == MaxExecutes \in Nat \ {0, 1}

VARIABLES loop,              \* handleConnection, and commands it has sent
          stopped,           \* stopped
          ctx,               \* the context of the call
          callbackMessages,  \* executes with a channel in callbackMessages
          chan,              \* events sent on the channel of each execute
          hookBridged,       \* the hook of a bridge waits for BRIDGE
          task,              \* what each flow is at, and its execute
          executes,          \* executes so far
          bridge,            \* the execute of a bridge, 0 before
          offers             \* events FreeSWITCH may fire

callvars == <<loop, stopped, ctx, callbackMessages, chan, hookBridged, task, executes, bridge, offers>>
vars == <<esvars, callvars>>

Complete(x) == [to |-> "evt", name |-> "complete", x |-> x]
Hangup == [to |-> "evt", name |-> "hangup", x |-> 0]
Bridged == [to |-> "evt", name |-> "bridge", x |-> 0]
Event == {Hangup, Bridged} \cup {Complete(x) : x \in Execute}

LoopState == [pc : {"setup", "failed", "consume", "read", "hangup", "exit", "close", "cancel", "done"},
              n : 0..4]
TaskState == [pc : {"none", "start", "idle", "bridge", "register", "send", "sending", "await", "api", "end"},
              x : 0..MaxExecutes]

\* The shapes of the state; the channels hold no more than they have room for.
TypeOK ==
  /\ ESTypeOK(Event, 0..MaxExecutes)
  /\ loop \in LoopState
  /\ stopped \in {"no", "yes"} /\ ctx \in {"live", "done"}
  /\ callbackMessages \subseteq Execute
  /\ chan \in [Execute -> Nat]
  /\ hookBridged \in {"nil", "set"}
  /\ task \in [Flow -> TaskState]
  /\ executes \in 0..MaxExecutes /\ bridge \in 0..MaxExecutes
  /\ offers \subseteq Event

Init ==
  /\ ESInit
  /\ loop = [pc |-> "setup", n |-> 0]
  /\ stopped = "no" /\ ctx = "live"
  /\ callbackMessages = {}
  /\ chan = [x \in Execute |-> 0]
  /\ hookBridged = "nil"
  /\ task = [f \in Flow |-> [pc |-> "none", x |-> 0]]
  /\ executes = 0 /\ bridge = 0
  /\ offers = {Hangup}

-----------------------------------------------------------------------------
(* handleConnection. *)

LoopAt(pc) == loop' = [loop EXCEPT !.pc = pc]

\* Its four commands: connect, linger, filter and events.  Any failure and it
\* returns, without a connection.
SetupSend ==
  /\ loop.pc = "setup"
  /\ \/ Write("loop", "send", 0) /\ UNCHANGED loop
     \/ WriteFails("loop") /\ LoopAt("failed")
  /\ UNCHANGED <<stopped, ctx, callbackMessages, chan, hookBridged, task, executes, bridge, offers>>

SetupReply ==
  /\ loop.pc = "setup"
  /\ \/ Answered("loop") /\ loop' = [n |-> loop.n + 1, pc |-> IF loop.n = 3 THEN "consume" ELSE "setup"]
     \/ (Failed("loop") \/ Timeout("loop")) /\ LoopAt("failed")
  /\ UNCHANGED <<stopped, ctx, callbackMessages, chan, hookBridged, task, executes, bridge, offers>>

\* s.consume <- connection: the router finds the schema.
Consume ==
  /\ loop.pc = "consume" /\ LoopAt("read")
  /\ task' = [task EXCEPT !["schema"].pc = "start"]
  /\ UNCHANGED <<esvars, stopped, ctx, callbackMessages, chan, hookBridged, executes, bridge, offers>>

\* Mutant: setEvent does not hold the lock.
LockedNever == FALSE

\* setEvent holds the lock while it waits for the reply to exit.
Locked == loop.pc \in {"hangup", "exit"}

Takes(e) == loop.pc = "read" /\ stopped = "no" /\ ReadEvent(e)

\* Mutant: the channel stays in callbackMessages.
SetCompleteKept ==
  \E x \in Execute :
    /\ Takes(Complete(x))
    /\ chan' = IF x \in callbackMessages THEN [chan EXCEPT ![x] = @ + 1] ELSE chan
    /\ UNCHANGED <<loop, stopped, ctx, callbackMessages, hookBridged, task, executes, bridge, offers>>

\* setEvent for EXECUTE_COMPLETE, BRIDGE and HANGUP_COMPLETE.
SetComplete ==
  \E x \in Execute :
    /\ Takes(Complete(x))
    /\ callbackMessages' = callbackMessages \ {x}
    /\ chan' = IF x \in callbackMessages THEN [chan EXCEPT ![x] = @ + 1] ELSE chan
    /\ UNCHANGED <<loop, stopped, ctx, hookBridged, task, executes, bridge, offers>>

SetBridge ==
  /\ Takes(Bridged)
  /\ hookBridged' = "nil"
  /\ task' = IF hookBridged = "nil" THEN task ELSE [task EXCEPT !["hook"].pc = "idle"]
  /\ UNCHANGED <<loop, stopped, ctx, callbackMessages, chan, executes, bridge, offers>>

SetHangup ==
  /\ Takes(Hangup)
  /\ ctx' = "done"
  /\ LoopAt("hangup")
  /\ UNCHANGED <<stopped, callbackMessages, chan, hookBridged, task, executes, bridge, offers>>

\* c.connection.Send("exit") and, whatever becomes of it, stopped.
SendExit ==
  /\ loop.pc = "hangup"
  /\ \/ Write("loop", "send", 0) /\ LoopAt("exit") /\ UNCHANGED stopped
     \/ WriteFails("loop") /\ LoopAt("read") /\ stopped' = "yes"
  /\ UNCHANGED <<ctx, callbackMessages, chan, hookBridged, task, executes, bridge, offers>>

Exited ==
  /\ loop.pc = "exit"
  /\ Answered("loop") \/ Failed("loop") \/ Timeout("loop")
  /\ LoopAt("read") /\ stopped' = "yes"
  /\ UNCHANGED <<ctx, callbackMessages, chan, hookBridged, task, executes, bridge, offers>>

\* Stopped or no more events.  What it has deferred then begins under the lock:
\* closeHookBridge, and an empty event for every execute that waits.
LoopEnds ==
  /\ loop.pc = "read" /\ (stopped = "yes" \/ EOF)
  /\ LoopAt("close")
  /\ hookBridged' = "nil"
  /\ chan' = [x \in Execute |-> IF x \in callbackMessages THEN chan[x] + 1 ELSE chan[x]]
  /\ callbackMessages' = {}
  /\ UNCHANGED <<esvars, stopped, ctx, task, executes, bridge, offers>>

\* Then Close and cancelFn.
CloseSocket ==
  /\ loop.pc = "close" /\ LoopAt("cancel")
  /\ Close
  /\ UNCHANGED <<stopped, ctx, callbackMessages, chan, hookBridged, task, executes, bridge, offers>>

\* Mutant: the context is left to setEvent.
CancelForgotten ==
  /\ loop.pc = "cancel" /\ LoopAt("done")
  /\ UNCHANGED <<esvars, stopped, ctx, callbackMessages, chan, hookBridged, task, executes, bridge, offers>>

Cancel ==
  /\ loop.pc = "cancel" /\ LoopAt("done")
  /\ ctx' = "done"
  /\ UNCHANGED <<esvars, stopped, callbackMessages, chan, hookBridged, task, executes, bridge, offers>>

HandleConnection ==
  \/ SetupSend \/ SetupReply \/ Consume \/ SetComplete \/ SetBridge \/ SetHangup
  \/ SendExit \/ Exited \/ LoopEnds \/ CloseSocket \/ Cancel

-----------------------------------------------------------------------------
(* The flows. *)

At(f, from, to) == task[f].pc = from /\ task' = [task EXCEPT ![f].pc = to]
Idle(f, from) == task[f].pc = from /\ task' = [task EXCEPT ![f] = [pc |-> "idle", x |-> 0]]

\* The first execute of a call; it is given context.Background().
SchemaIdExecute == 1

SetSchemaId ==
  /\ task["schema"].pc = "start" /\ ~Locked
  /\ executes = 0 /\ executes' = SchemaIdExecute
  /\ IF stopped = "yes"
       THEN Idle("schema", "start")
       ELSE task' = [task EXCEPT !["schema"] = [pc |-> "register", x |-> executes']]
  /\ UNCHANGED <<esvars, loop, stopped, ctx, callbackMessages, chan, hookBridged, bridge, offers>>

\* Bridge sets its hook before it executes; the model has one bridge, the second
\* execute.
SetHookBridged ==
  /\ task["schema"].pc = "idle" /\ ~Locked
  /\ executes = SchemaIdExecute
  /\ hookBridged' = "set"
  /\ executes' = executes + 1 /\ bridge' = executes'
  /\ task' = [task EXCEPT !["schema"] = [pc |-> "bridge", x |-> executes']]
  /\ UNCHANGED <<esvars, loop, stopped, ctx, callbackMessages, chan, offers>>

\* executeWithContext: refused once the connection is stopped.
BridgeExecutes ==
  /\ ~Locked
  /\ IF stopped = "yes" THEN Idle("schema", "bridge") ELSE At("schema", "bridge", "register")
  /\ UNCHANGED <<esvars, loop, stopped, ctx, callbackMessages, chan, hookBridged, executes, bridge, offers>>

ExecuteStarts(f) ==
  /\ task[f].pc = "idle" /\ ~Locked /\ stopped = "no"
  /\ executes < MaxExecutes
  /\ executes' = executes + 1
  /\ task' = [task EXCEPT ![f] = [pc |-> "register", x |-> executes']]
  /\ UNCHANGED <<esvars, loop, stopped, ctx, callbackMessages, chan, hookBridged, bridge, offers>>

Register(f) ==
  /\ At(f, "register", "send") /\ ~Locked
  /\ callbackMessages' = callbackMessages \cup {task[f].x}
  /\ UNCHANGED <<esvars, loop, stopped, ctx, chan, hookBridged, executes, bridge, offers>>

SendMsg(f) ==
  /\ \/ sent < MaxCommands /\ Write(f, "msg", task[f].x) /\ At(f, "send", "sending")
     \/ WriteFails(f) /\ Idle(f, "send")
  /\ UNCHANGED <<loop, stopped, ctx, callbackMessages, chan, hookBridged, executes, bridge, offers>>

\* The channel stays in callbackMessages if the command fails.
SendMsgReturns(f) ==
  /\ \/ Answered(f) /\ At(f, "sending", "await")
     \/ (Failed(f) \/ Timeout(f)) /\ Idle(f, "sending")
  /\ UNCHANGED <<loop, stopped, ctx, callbackMessages, chan, hookBridged, executes, bridge, offers>>

\* SetSchemaId waits for its event alone.  The context of the trigger is its own,
\* with a deadline.
ExecuteEnds(f) ==
  /\ Idle(f, "await")
  /\ \/ chan[task[f].x] > 0
     \/ task[f].x # SchemaIdExecute /\ (ctx = "done" \/ f = "off")
  /\ UNCHANGED <<esvars, loop, stopped, ctx, callbackMessages, chan, hookBridged, executes, bridge, offers>>

Api(f) ==
  /\ f \in ApiFlow /\ sent < MaxCommands
  /\ Write(f, "api", 0) /\ At(f, "idle", "api")
  /\ UNCHANGED <<loop, stopped, ctx, callbackMessages, chan, hookBridged, executes, bridge, offers>>

ApiReturns(f) ==
  /\ Answered(f) \/ Failed(f) \/ Timeout(f)
  /\ Idle(f, "api")
  /\ UNCHANGED <<loop, stopped, ctx, callbackMessages, chan, hookBridged, executes, bridge, offers>>

\* After SetSchemaId and Route, <-conn.Context().Done() and the flow of the
\* trigger, which ends some time.
OffStarts ==
  /\ task["schema"].pc \notin {"none", "start"} /\ task["schema"].x # SchemaIdExecute
  /\ ctx = "done"
  /\ At("off", "none", "idle")
  /\ UNCHANGED <<esvars, loop, stopped, ctx, callbackMessages, chan, hookBridged, executes, bridge, offers>>

OffEnds ==
  /\ At("off", "idle", "end")
  /\ UNCHANGED <<esvars, loop, stopped, ctx, callbackMessages, chan, hookBridged, executes, bridge, offers>>

Call(f) == ExecuteStarts(f) \/ Api(f)

Runs(f) ==
  \/ Register(f) \/ SendMsg(f) \/ SendMsgReturns(f) \/ ExecuteEnds(f) \/ ApiReturns(f)
  \/ f = "schema" /\ (SetSchemaId \/ BridgeExecutes)
  \/ f = "off" /\ (OffStarts \/ OffEnds)

-----------------------------------------------------------------------------
(* FreeSWITCH: an execute it accepts is completed or cut off by a hangup,  *)
(* which is its last event.                                                *)

Begun(x) == {Complete(x)} \cup (IF x = bridge THEN {Bridged} ELSE {})

PeerReplies ==
  /\ \E to \in {"cmd", "api", "err"} :
       /\ Replies(to)
       /\ offers' = IF to = "cmd" /\ Head(out).x # 0 /\ Hangup \in offers
                    THEN offers \cup Begun(Head(out).x) ELSE offers
  /\ UNCHANGED <<loop, stopped, ctx, callbackMessages, chan, hookBridged, task, executes, bridge>>

PeerFires ==
  /\ loop.pc \notin {"setup", "failed"}
  /\ \E e \in offers :
       /\ Fires(e)
       /\ offers' = IF e = Hangup THEN {}
                    ELSE IF e = Complete(bridge) THEN offers \ {e, Bridged}
                    ELSE offers \ {e}
  /\ UNCHANGED <<loop, stopped, ctx, callbackMessages, chan, hookBridged, task, executes, bridge>>

PeerShuts == Shuts /\ UNCHANGED callvars

Reads == ReadLoop /\ UNCHANGED callvars
Garbled == ReadBad /\ UNCHANGED callvars

Next ==
  \/ HandleConnection \/ SetHookBridged \/ \E f \in Flow : Call(f) \/ Runs(f)
  \/ Reads \/ Garbled \/ PeerReplies \/ PeerFires \/ PeerShuts

\* Goroutines run and timers fire; FreeSWITCH owes nothing.  The bounds leave no
\* infinite behaviour, so that no goroutine can starve another.
Spec ==
  /\ Init /\ [][Next]_vars
  /\ WF_vars(Reads \/ HandleConnection \/ \E f \in Flow : Runs(f))

-----------------------------------------------------------------------------
(* Properties. *)

\* setEvent and the clean-up of handleConnection never both use the channel of
\* an execute: the second send would be on a closed channel, a panic.
ChannelOnce == \A x \in Execute : chan[x] <= 1

\* "not allow after hangup": once the call is over, no flow of the disconnected
\* trigger gets an execute out to FreeSWITCH, neither after a hangup nor after
\* the socket was lost.
NoExecuteAfterHangup == task["off"].pc \notin {"sending", "await"}

\* When FreeSWITCH shuts the socket of a call, handleConnection notices and
\* comes to its end, as long as no reply has come late or to the wrong command;
\* such a reply can hold readLoop for good.
HandlerEnds == sock # "open" /\ loop.pc = "read" ~> loop.pc = "done" \/ mixed = "yes"

\* After that every execute and api command returns, and the trigger is run, or
\* SetSchemaId (routes/call/router.go:215) waits for ever: it put its channel into
\* callbackMessages after the clean-up, and FreeSWITCH answered before Close.
Released ==
  loop.pc = "done" ~>
    \/ task["off"].pc = "end" /\ task["schema"].pc = "idle" /\ task["hook"].pc \in {"none", "idle"}
    \/ /\ task["schema"] = [pc |-> "await", x |-> SchemaIdExecute]
       /\ SchemaIdExecute \in callbackMessages /\ stopped = "yes"

=============================================================================
