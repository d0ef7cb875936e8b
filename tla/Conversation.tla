---------------------------- MODULE Conversation ----------------------------
(***************************************************************************)
(* Chat conversations: providers/grpc/conversation.go, the calls of        *)
(* chat_server.go that the messages server makes, and handle of            *)
(* routes/chat/router.go.  All conversations below have one conversation   *)
(* id: the messages server starts the next one when the chat was           *)
(* transferred or closed, and Start, which does not look whether the one   *)
(* before it is over, puts it into the table in its place.  The table is   *)
(* an LRU of 50000 entries that may drop any of them.                      *)
(*                                                                         *)
(* The handler of a request is a goroutine that goes on when Route has     *)
(* returned.  chBridge is read and written by it, by Break under the lock  *)
(* of the conversation, and by BreakBridge without it.  The channels of a  *)
(* conversation are numbered, 0 is nil.                                    *)
(***************************************************************************)
EXTENDS Naturals

CONSTANTS NConvs,       \* conversations started
          NCalls,       \* calls of Break and BreakBridge
          MaxRequests   \* requests of the schemas, restarts and evictions, in all

ASSUME ConversationAssumption == {NConvs, NCalls, MaxRequests} \subseteq Nat

Conv == 1..NConvs
\* The calls are numbered in the order they are made.  Break is also called by
\* a handler, of its own conversation.
BreakCalls == (NConvs + 1)..(NConvs + NCalls)
Breaker == 1..(NConvs + NCalls)

VARIABLES entry,       \* what the table holds for the id
          conv,        \* where handle is
          convCtx,     \* the context of the conversation
          breakCause,
          left,        \* what the bound still allows
          handler,     \* where the handler of a request is
          chBridge,    \* the channel of the bridge
          waitsOn,     \* the channel that the handler of a bridge waits on
          bridges,     \* bridges made so far
          ended,       \* the channels that are closed
          mx,          \* who holds the lock
          brk,         \* where each breaker is
          target,      \* the conversation it breaks
          cause,       \* the cause it was given
          chatPanic,
          early,       \* history: bridges broken before the invitation returned
          late,        \* history: transfers that came when handle had already
                       \* decided to stop, or that another cause replaced
          twice,       \* history: two breakers were at one conversation
          overtook,    \* history: conversations started while one before them
                       \* was neither over nor transferred
          evicted      \* history: conversations that the table dropped

stateVars == <<entry, conv, convCtx, breakCause, left>>
bridgeVars == <<handler, chBridge, waitsOn, bridges, ended>>
breakVars == <<mx, brk, target, cause>>
tableVars == <<overtook, evicted>>
seenVars == <<chatPanic, early, late, twice, tableVars>>
chatVars == <<stateVars, bridgeVars, breakVars, seenVars>>

ChatInit ==
  /\ entry = 0
  /\ conv = [c \in Conv |-> "no"] /\ convCtx = [c \in Conv |-> "live"]
  /\ breakCause = [c \in Conv |-> "none"] /\ left = MaxRequests
  /\ handler = [c \in Conv |-> "idle"]
  /\ chBridge = [c \in Conv |-> 0] /\ waitsOn = [c \in Conv |-> 0]
  /\ bridges = [c \in Conv |-> 0] /\ ended = [c \in Conv |-> {}]
  /\ mx = [c \in Conv |-> 0]
  /\ brk = [b \in Breaker |-> "no"] /\ target = [b \in Breaker |-> 0]
  /\ cause = [b \in Breaker |-> "none"]
  /\ chatPanic = "no"
  /\ early = {} /\ late = {} /\ twice = {}
  /\ overtook = {} /\ evicted = {}

-----------------------------------------------------------------------------
(* Start, and handle up to the schema. *)

\* Conversations that Stop will not remove any more.
Left(d) == conv[d] = "over" \/ breakCause[d] = "transfer"

\* A conversation that the table still holds is replaced, also one that runs.
Start(c) ==
  /\ conv[c] = "no" /\ \A d \in 1..(c - 1) : conv[d] # "no"
  /\ IF c = 1 THEN UNCHANGED left ELSE left > 0 /\ left' = left - 1
  /\ entry' = c /\ conv' = [conv EXCEPT ![c] = "consume"]
  /\ overtook' = IF \A d \in 1..(c - 1) : Left(d) THEN overtook ELSE overtook \cup {c}
  /\ UNCHANGED <<convCtx, breakCause, bridgeVars, breakVars, chatPanic, early, late, twice, evicted>>

\* The entry is the one used least recently of a full table.
Evict ==
  /\ entry # 0 /\ left > 0
  /\ entry' = 0 /\ left' = left - 1
  /\ evicted' = evicted \cup {entry}
  /\ UNCHANGED <<conv, convCtx, breakCause, bridgeVars, breakVars, chatPanic, early, late, twice,
                 overtook>>

\* The listener takes the conversation, and handle looks for its schema.
Take(c) ==
  /\ conv[c] = "consume"
  /\ \/ conv' = [conv EXCEPT ![c] = "next"] /\ UNCHANGED late
     \/ /\ conv' = [conv EXCEPT ![c] = "stop"]
        /\ late' = IF breakCause[c] = "transfer" THEN late \cup {c} ELSE late
  /\ UNCHANGED <<entry, convCtx, breakCause, left, bridgeVars, breakVars, chatPanic, early,
                 twice, tableVars>>

\* Route starts the handler before it looks at the context.
Request(c) ==
  /\ conv[c] = "next" /\ left > 0
  /\ left' = left - 1
  /\ conv' = [conv EXCEPT ![c] = "request"]
  /\ \E r \in {"bridge", "send"} : handler' = [handler EXCEPT ![c] = r]
  /\ UNCHANGED <<entry, convCtx, breakCause, chBridge, waitsOn, bridges, ended,
                 breakVars, seenVars>>

\* Mutant: a transferred conversation is stopped as well.
RouteReturnsStops(c) ==
  /\ conv[c] = "next" \/ (conv[c] = "request" /\ convCtx[c] = "done")
  /\ conv' = [conv EXCEPT ![c] = "stop"]
  /\ UNCHANGED <<entry, convCtx, breakCause, left, bridgeVars, breakVars, seenVars>>

\* Route returns at the end of the schema or when the context is done.  A
\* transferred conversation is not stopped and stays in the table.
RouteReturns(c) ==
  /\ \/ conv[c] = "next"
     \/ conv[c] = "request" /\ convCtx[c] = "done"
  /\ conv' = [conv EXCEPT ![c] = IF breakCause[c] = "transfer" THEN "kept" ELSE "stop"]
  /\ UNCHANGED <<entry, convCtx, breakCause, left, bridgeVars, breakVars, seenVars>>

\* Mutant: the entry stays.
StopKeepsEntry(c) ==
  /\ conv[c] = "stop"
  /\ conv' = [conv EXCEPT ![c] = "over"]
  /\ UNCHANGED <<entry, convCtx, breakCause, left, bridgeVars, breakVars, seenVars>>

\* A conversation that was not broken is first closed at the messages server,
\* which changes nothing here.  Then the entry is removed by the conversation id,
\* whoever it belongs to.
Stop(c) ==
  /\ conv[c] = "stop"
  /\ entry' = 0 /\ conv' = [conv EXCEPT ![c] = "over"]
  /\ UNCHANGED <<convCtx, breakCause, left, bridgeVars, breakVars, seenVars>>

-----------------------------------------------------------------------------
(* The handlers of bridge and of the sending requests. *)

\* A handler returns, and Route goes on if it still waits for it.
Handled(c) ==
  /\ handler' = [handler EXCEPT ![c] = "idle"]
  /\ waitsOn' = [waitsOn EXCEPT ![c] = 0]
  /\ conv' = [conv EXCEPT ![c] = IF @ = "request" THEN "next" ELSE @]

\* A message is sent or refused; when the chat is closed the handler closes the
\* conversation and breaks it.
SendMessage(c) ==
  /\ handler[c] = "send"
  /\ \/ Handled(c) /\ UNCHANGED <<brk, target, cause>>
     \/ /\ handler' = [handler EXCEPT ![c] = "break"]
        /\ brk' = [brk EXCEPT ![c] = "lock"]
        /\ target' = [target EXCEPT ![c] = c] /\ cause' = [cause EXCEPT ![c] = "other"]
        /\ UNCHANGED <<conv, waitsOn>>
  /\ UNCHANGED <<entry, convCtx, breakCause, left, chBridge, bridges, ended, mx, seenVars>>

SendBroke(c) ==
  /\ handler[c] = "break" /\ brk[c] = "done"
  /\ Handled(c)
  /\ brk' = [brk EXCEPT ![c] = "no"]
  /\ UNCHANGED <<entry, convCtx, breakCause, left, chBridge, bridges, ended, mx, target,
                 cause, seenVars>>

\* Bridge: refused while there is a channel, which a failed invitation leaves.
Bridge(c) ==
  /\ handler[c] = "bridge"
  /\ IF chBridge[c] # 0
       THEN Handled(c) /\ UNCHANGED <<chBridge, bridges>>
       ELSE /\ bridges' = [bridges EXCEPT ![c] = @ + 1]
            /\ chBridge' = [chBridge EXCEPT ![c] = bridges[c] + 1]
            /\ handler' = [handler EXCEPT ![c] = "invite"]
            /\ UNCHANGED <<conv, waitsOn>>
  /\ UNCHANGED <<entry, convCtx, breakCause, left, ended, breakVars, seenVars>>

Invite(c) ==
  /\ handler[c] = "invite"
  /\ \/ Handled(c)
     \/ /\ handler' = [handler EXCEPT ![c] = "bridged"]
        /\ waitsOn' = [waitsOn EXCEPT ![c] = chBridge[c]]
        /\ UNCHANGED conv
  /\ UNCHANGED <<entry, convCtx, breakCause, left, chBridge, bridges, ended, breakVars,
                 seenVars>>

\* The handler waits for the channel to be closed, and for ever on nil.
BridgeEnds(c) ==
  /\ handler[c] = "bridged" /\ waitsOn[c] \in ended[c]
  /\ Handled(c)
  /\ UNCHANGED <<entry, convCtx, breakCause, left, chBridge, bridges, ended, breakVars,
                 seenVars>>

-----------------------------------------------------------------------------
(* Break and BreakBridge. *)

BrkAt(b, pc) == brk' = [brk EXCEPT ![b] = pc]

Stopping == {"stop", "over"}

\* After a breaker is done it is nowhere.
Finish(b) ==
  /\ BrkAt(b, "done")
  /\ target' = [target EXCEPT ![b] = 0] /\ cause' = [cause EXCEPT ![b] = "none"]

\* A call finds the conversation in the table.
BreakCall(b) ==
  /\ brk[b] = "no" /\ entry # 0
  /\ \A d \in BreakCalls : d < b => brk[d] # "no"
  /\ target' = [target EXCEPT ![b] = entry]
  /\ \E x \in {"transfer", "other"} : cause' = [cause EXCEPT ![b] = x]
  /\ BrkAt(b, "lock") \/ BrkAt(b, "read")
  /\ UNCHANGED <<stateVars, bridgeVars, mx, seenVars>>

\* breakCause is set; a transfer may come when handle no longer heeds it.
SetCause(b) ==
  LET c == target[b] IN
  /\ breakCause' = [breakCause EXCEPT ![c] = cause[b]]
  /\ late' = IF IF cause[b] = "transfer" THEN conv[c] \in Stopping
                                        ELSE breakCause[c] = "transfer"
             THEN late \cup {c} ELSE late

\* The first step of closeIfBreak: there is a channel to close.
FindBridge(b) ==
  LET c == target[b] IN
  /\ BrkAt(b, "close")
  /\ twice' = IF \E d \in Breaker \ {b} : target[d] = c /\ brk[d] \in {"close", "clear"}
              THEN twice \cup {c} ELSE twice

\* Break holds the lock from closeIfBreak until the cause is set.
Break(b) ==
  LET c == target[b] IN
  /\ brk[b] = "lock" /\ mx[c] = 0
  /\ IF chBridge[c] = 0
       THEN SetCause(b) /\ BrkAt(b, "cancel") /\ UNCHANGED <<mx, twice>>
       ELSE FindBridge(b) /\ mx' = [mx EXCEPT ![c] = b] /\ UNCHANGED <<breakCause, late>>
  /\ UNCHANGED <<entry, conv, convCtx, left, bridgeVars, target, cause, chatPanic, early,
                 tableVars>>

BreakCancels(b) ==
  /\ brk[b] = "cancel"
  /\ convCtx' = [convCtx EXCEPT ![target[b]] = "done"]
  /\ Finish(b)
  /\ UNCHANGED <<entry, conv, breakCause, left, bridgeVars, mx, seenVars>>

\* BreakBridge looks at the channel under the lock.
BreakBridge(b) ==
  LET c == target[b] IN
  /\ brk[b] = "read" /\ mx[c] = 0
  /\ IF cause[b] # "transfer" /\ chBridge[c] = 0
       THEN Finish(b)
       ELSE /\ BrkAt(b, IF cause[b] = "transfer" THEN "cause" ELSE "check")
            /\ UNCHANGED <<target, cause>>
  /\ UNCHANGED <<stateVars, bridgeVars, mx, seenVars>>

BridgeCause(b) ==
  /\ brk[b] = "cause" /\ mx[target[b]] = 0
  /\ SetCause(b) /\ BrkAt(b, "check")
  /\ UNCHANGED <<entry, conv, convCtx, left, bridgeVars, mx, target, cause, chatPanic,
                 early, twice, tableVars>>

\* It calls closeIfBreak without the lock.
CheckBridge(b) ==
  /\ brk[b] = "check"
  /\ IF chBridge[target[b]] = 0
       THEN Finish(b) /\ UNCHANGED twice
       ELSE FindBridge(b) /\ UNCHANGED <<target, cause>>
  /\ UNCHANGED <<stateVars, bridgeVars, mx, chatPanic, early, late, tableVars>>

\* Mutant: the channel is dropped without being closed.
CloseBridgeNot(b) ==
  /\ brk[b] = "close" /\ BrkAt(b, "clear")
  /\ UNCHANGED <<stateVars, bridgeVars, mx, target, cause, seenVars>>

\* The second step of closeIfBreak.  Closing nil or a closed channel panics.
CloseBridge(b) ==
  LET c == target[b] IN
  /\ brk[b] = "close"
  /\ IF chBridge[c] \in ended[c] \cup {0}
       THEN chatPanic' = "yes" /\ UNCHANGED <<ended, brk, early>>
       ELSE /\ ended' = [ended EXCEPT ![c] = @ \cup {chBridge[c]}]
            /\ early' = IF handler[c] = "invite" THEN early \cup {c} ELSE early
            /\ BrkAt(b, "clear")
            /\ UNCHANGED chatPanic
  /\ UNCHANGED <<stateVars, handler, chBridge, waitsOn, bridges, mx, target, cause, late,
                 twice, tableVars>>

\* Mutant: the closed channel stays in the conversation.
ClearBridgeNot(b) ==
  LET c == target[b] IN
  /\ brk[b] = "clear"
  /\ IF mx[c] = b
       THEN /\ SetCause(b) /\ BrkAt(b, "cancel") /\ mx' = [mx EXCEPT ![c] = 0]
            /\ UNCHANGED <<target, cause>>
       ELSE Finish(b) /\ UNCHANGED <<breakCause, late, mx>>
  /\ UNCHANGED <<entry, conv, convCtx, left, bridgeVars, chatPanic, early, twice, tableVars>>

\* The third; Break then sets the cause and gives the lock back.
ClearBridge(b) ==
  LET c == target[b] IN
  /\ brk[b] = "clear"
  /\ chBridge' = [chBridge EXCEPT ![c] = 0]
  /\ IF mx[c] = b
       THEN /\ SetCause(b) /\ BrkAt(b, "cancel") /\ mx' = [mx EXCEPT ![c] = 0]
            /\ UNCHANGED <<target, cause>>
       ELSE Finish(b) /\ UNCHANGED <<breakCause, late, mx>>
  /\ UNCHANGED <<entry, conv, convCtx, left, handler, waitsOn, bridges, ended, chatPanic,
                 early, twice, tableVars>>

-----------------------------------------------------------------------------

\* The steps of the goroutines, which the scheduler takes in the end.
ChatGoroutines ==
  \/ \E c \in Conv : \/ Take(c) \/ Request(c) \/ RouteReturns(c)
                     \/ Stop(c) \/ SendMessage(c) \/ SendBroke(c)
                     \/ Bridge(c) \/ Invite(c) \/ BridgeEnds(c)
  \/ \E b \in Breaker : \/ Break(b) \/ BreakCancels(b)
                        \/ BreakBridge(b) \/ BridgeCause(b) \/ CheckBridge(b)
                        \/ CloseBridge(b) \/ ClearBridge(b)

ChatNext ==
  /\ chatPanic = "no"
  /\ \/ Evict \/ \E c \in Conv : Start(c)
     \/ \E b \in BreakCalls : BreakCall(b)
     \/ ChatGoroutines

ChatSpec ==
  ChatInit /\ [][ChatNext]_chatVars /\ WF_chatVars(chatPanic = "no" /\ ChatGoroutines)

-----------------------------------------------------------------------------
(* Properties. *)

\* A process panics only if two of Break, BreakBridge and a refused message
\* are at one bridge at the same time.
PanicNeedsTwo == chatPanic = "yes" => twice # {}

\* The handler of a bridge (Bridge, conversation.go:545) waits on the channel that
\* the next break closes, unless a break came before the invitation returned.
WaitsOnBridge ==
  \A c \in Conv : handler[c] = "bridged" =>
    \/ waitsOn[c] # 0 /\ waitsOn[c] \in ended[c] \cup {chBridge[c]}
    \/ c \in early

\* getConversation finds the conversation started last as long as its schema
\* runs, though Stop removes entries by their id, unless the table dropped it, it
\* was started before the one before it was over or transferred, or such a
\* transfer came too late or was overwritten.
StillFound ==
  \A c \in Conv :
    /\ conv[c] \notin {"no", "kept"} \cup Stopping
    /\ \A d \in (c + 1)..NConvs : conv[d] = "no"
    => entry = c \/ c \in evicted \cup overtook \/ late # {}

\* In the end every conversation whose context Break has ended is over and out of
\* the table, unless it was transferred.
BrokenEnds ==
  <>[](\A c \in Conv :
         convCtx[c] = "done" =>
           (conv[c] = "over" /\ entry # c) \/ conv[c] = "kept" \/ chatPanic = "yes")
====
