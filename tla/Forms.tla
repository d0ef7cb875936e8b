-------------------------------- MODULE Forms --------------------------------
(***************************************************************************)
(* Processing forms: the flow service starts a schema whose generateForm   *)
(* requests hand forms to a client over gRPC and wait for its actions.     *)
(* One connection of providers/grpc/processing_connection.go is modelled   *)
(* with the calls of processing_server.go that use it, the goroutine that  *)
(* forgets it, Route, and the handler of generateForm, which goes on when  *)
(* Route has returned.                                                     *)
(*                                                                         *)
(* formAction is a plain field: the handler and the calls read and write   *)
(* it without a lock, and every read of it below is a step of its own.     *)
(* Channels are numbered in the order they are made, 0 is the nil channel. *)
(***************************************************************************)
EXTENDS Naturals, Sequences

CONSTANTS Calls,   \* calls of FormAction, each made at most once
          NForms   \* generateForm requests of the schema

ASSUME FormsAssumption == NForms \in Nat

\* Capacity of the channel of the forms.
FormsBuffer == 5

VARIABLES cached,      \* is the connection in the table of the server
          ctx,         \* its context
          forms,       \* forms that wait for a call that takes them
          formAction,  \* the channel of the active form
          made,        \* channels made so far
          closed,      \* the channels that are closed
          started,     \* where StartProcessing is
          route,       \* where the handler of the router is
          pos,         \* the request Route is at
          push,        \* where PushForm is
          sel,         \* the channel that PushForm waits on
          act,         \* where each call of FormAction is
          chan,        \* the channel it sends on
          formPanic,   \* a goroutine has panicked and the process is gone
          overlapped   \* history: a call was made while another was at work

connVars == <<cached, ctx, started>>
chanVars == <<formAction, made, closed>>
schemaVars == <<route, pos, push, sel>>
callVars == <<act, chan>>
formVars == <<connVars, chanVars, forms, schemaVars, callVars, formPanic, overlapped>>

\* Stages of FormAction in which it is at work on the active form.
Busy == {"check", "send", "blocked", "close", "clear"}

FormInit ==
  /\ cached = "no" /\ ctx = "live"
  /\ forms = <<>> /\ formAction = 0 /\ made = 0 /\ closed = {}
  /\ started = "no" /\ route = "no" /\ pos = 1
  /\ push = "idle" /\ sel = 0
  /\ act = [c \in Calls |-> "no"] /\ chan = [c \in Calls |-> 0]
  /\ formPanic = "no" /\ overlapped = "no"

-----------------------------------------------------------------------------
(* StartProcessing. *)

\* The connection is put into the table and offered to the listener.
StartProcessing ==
  /\ started = "no"
  /\ cached' = "yes" /\ started' = "consume"
  /\ UNCHANGED <<chanVars, forms, schemaVars, callVars, overlapped, ctx, formPanic>>

\* The listener takes it and runs its schema in a goroutine.
Consume ==
  /\ started = "consume"
  /\ started' = "wait" /\ route' = "load"
  /\ UNCHANGED <<chanVars, forms, callVars, overlapped, cached, ctx, pos, push, sel, formPanic>>

\* The ends of waitForm: a form, the end of the context, the timeout.  A call
\* that gets no form closes the connection.
WaitForm ==
  \/ forms # <<>> /\ forms' = Tail(forms) /\ UNCHANGED ctx
  \/ ctx' = "done" /\ UNCHANGED forms

StartReturns ==
  /\ started = "wait" /\ WaitForm /\ started' = "done"
  /\ UNCHANGED <<chanVars, schemaVars, callVars, cached, formPanic, overlapped>>

\* The goroutine that StartProcessing leaves behind.
Remove ==
  /\ cached = "yes" /\ ctx = "done"
  /\ cached' = "no"
  /\ UNCHANGED <<chanVars, forms, schemaVars, callVars, overlapped, ctx, started, formPanic>>

\* CancelProcessing, of a connection that is still in the table.
Cancel ==
  /\ cached = "yes" /\ ctx = "live"
  /\ ctx' = "done"
  /\ UNCHANGED <<chanVars, forms, schemaVars, callVars, overlapped, cached, started, formPanic>>

-----------------------------------------------------------------------------
(* The schema.  Route starts the handler of a request before it looks at the *)
(* context; the handler of a request that Route has given up goes on.        *)

\* The schema is found, or its connection is closed.
Load ==
  /\ route = "load"
  /\ \/ route' = "next" /\ UNCHANGED ctx
     \/ route' = "over" /\ ctx' = "done"
  /\ UNCHANGED <<chanVars, forms, callVars, overlapped, cached, started, pos, push, sel, formPanic>>

\* Route returns at the end of the list or when the context is done, and the
\* connection is closed.
RouteEnds ==
  /\ \/ route = "next" /\ pos > NForms
     \/ route = "request" /\ ctx = "done"
  /\ route' = "over" /\ ctx' = "done"
  /\ UNCHANGED <<chanVars, forms, callVars, overlapped, cached, started, pos, push, sel, formPanic>>

NextRequest ==
  /\ route = "next" /\ pos <= NForms
  /\ route' = "request" /\ push' = "check"
  /\ UNCHANGED <<connVars, chanVars, forms, callVars, overlapped, pos, sel, formPanic>>

\* PushForm returns; an error of a request does not end the schema.
Pushed ==
  /\ push' = "idle" /\ sel' = 0
  /\ IF route = "request" THEN route' = "next" /\ pos' = pos + 1
                          ELSE UNCHANGED <<route, pos>>

\* A form is refused while the channel of another one is there.
PushRefused ==
  /\ push = "check" /\ formAction # 0
  /\ Pushed
  /\ UNCHANGED <<connVars, chanVars, forms, callVars, overlapped, formPanic>>

PushBegins ==
  /\ push = "check" /\ formAction = 0
  /\ push' = "offer"
  /\ UNCHANGED <<connVars, chanVars, callVars, overlapped, forms, route, pos, sel, formPanic>>

\* The form is there for waitForm before there is a channel for its action.
Offer ==
  /\ push = "offer" /\ Len(forms) < FormsBuffer
  /\ forms' = Append(forms, pos) /\ push' = "make"
  /\ UNCHANGED <<connVars, chanVars, callVars, overlapped, route, pos, sel, formPanic>>

MakeChannel ==
  /\ push = "make"
  /\ made' = made + 1 /\ formAction' = made + 1 /\ push' = "read"
  /\ UNCHANGED <<connVars, forms, callVars, overlapped, closed, route, pos, sel, formPanic>>

\* Mutant: PushForm waits on the channel of the form before.
SelectOld ==
  /\ push = "read"
  /\ sel' = made - 1 /\ push' = "select"
  /\ UNCHANGED <<connVars, chanVars, forms, callVars, overlapped, route, pos, formPanic>>

Select ==
  /\ push = "read"
  /\ sel' = formAction /\ push' = "select"
  /\ UNCHANGED <<connVars, chanVars, forms, callVars, overlapped, route, pos, formPanic>>

\* The context is done, or the channel is closed without an action.  The
\* channel stays the one of the active form.
NoAction ==
  /\ push = "select"
  /\ ctx = "done" \/ sel \in closed
  /\ Pushed
  /\ UNCHANGED <<connVars, chanVars, forms, callVars, overlapped, formPanic>>

-----------------------------------------------------------------------------
(* FormAction. *)

\* The connection is looked up.
Call(c) ==
  /\ act[c] = "no" /\ cached = "yes"
  /\ act' = [act EXCEPT ![c] = "check"]
  /\ overlapped' = IF \E d \in Calls : act[d] \in Busy THEN "yes" ELSE overlapped
  /\ UNCHANGED <<connVars, chanVars, forms, schemaVars, chan, formPanic>>

\* Without an active form the call is refused.
Check(c) ==
  /\ act[c] = "check"
  /\ act' = [act EXCEPT ![c] = IF formAction = 0 THEN "refused" ELSE "send"]
  /\ UNCHANGED <<connVars, chanVars, forms, schemaVars, overlapped, chan, formPanic>>

\* A send on a closed channel panics, one on the nil channel waits for ever.
Send(c) ==
  /\ act[c] = "send"
  /\ IF formAction \in closed
       THEN formPanic' = "yes" /\ UNCHANGED <<act, chan>>
       ELSE /\ act' = [act EXCEPT ![c] = "blocked"]
            /\ chan' = [chan EXCEPT ![c] = formAction]
            /\ UNCHANGED formPanic
  /\ UNCHANGED <<connVars, chanVars, forms, schemaVars, overlapped>>

\* PushForm takes the action.
Answer(c) ==
  /\ act[c] = "blocked" /\ push = "select" /\ sel = chan[c] /\ sel # 0
  /\ act' = [act EXCEPT ![c] = "close"]
  /\ Pushed
  /\ UNCHANGED <<connVars, chanVars, forms, overlapped, chan, formPanic>>

\* close panics for a nil or closed channel, and makes the goroutine panic that
\* is blocked in a send on it.
Close(c) ==
  /\ act[c] = "close"
  /\ IF \/ formAction \in closed \cup {0}
        \/ \E d \in Calls : act[d] = "blocked" /\ chan[d] = formAction
       THEN formPanic' = "yes" /\ UNCHANGED <<closed, act>>
       ELSE /\ closed' = closed \cup {formAction}
            /\ act' = [act EXCEPT ![c] = "clear"]
            /\ UNCHANGED formPanic
  /\ UNCHANGED <<connVars, forms, schemaVars, overlapped, formAction, made, chan>>

\* Mutant: the channel stays in the connection.
ClearKept(c) ==
  /\ act[c] = "clear" /\ act' = [act EXCEPT ![c] = "wait"]
  /\ UNCHANGED <<connVars, chanVars, forms, schemaVars, overlapped, chan, formPanic>>

Clear(c) ==
  /\ act[c] = "clear"
  /\ formAction' = 0 /\ act' = [act EXCEPT ![c] = "wait"]
  /\ UNCHANGED <<connVars, forms, schemaVars, overlapped, made, closed, chan, formPanic>>

\* The call waits for the next form.
Return(c) ==
  /\ act[c] = "wait" /\ WaitForm
  /\ act' = [act EXCEPT ![c] = "done"]
  /\ UNCHANGED <<chanVars, schemaVars, cached, started, chan, formPanic, overlapped>>

-----------------------------------------------------------------------------

\* The steps of the goroutines, which the scheduler takes in the end.
FormGoroutines ==
  \/ Consume \/ StartReturns \/ Remove
  \/ Load \/ RouteEnds \/ NextRequest
  \/ PushRefused \/ PushBegins \/ Offer \/ MakeChannel \/ Select \/ NoAction
  \/ \E c \in Calls : \/ Check(c) \/ Send(c) \/ Answer(c) \/ Close(c)
                      \/ Clear(c) \/ Return(c)

FormNext ==
  /\ formPanic = "no"
  /\ StartProcessing \/ Cancel \/ (\E c \in Calls : Call(c)) \/ FormGoroutines

FormSpec == FormInit /\ [][FormNext]_formVars /\ WF_formVars(formPanic = "no" /\ FormGoroutines)
-----------------------------------------------------------------------------
(* Properties. *)

\* Calls of FormAction made one after another never make the process panic.
PanicNeedsOverlap == formPanic = "yes" => overlapped = "yes"

\* However calls of FormAction race, PushForm (processing_connection.go:120)
\* refuses a form only while a call that has had an action taken has not cleared
\* the channel yet, or on a closed connection.
RefusedWhileClosing ==
  push = "check" /\ formAction # 0 =>
    \/ \E c \in Calls : act[c] \in {"close", "clear"}
    \/ ctx = "done"

\* An action that FormAction sends on the active form is taken by PushForm,
\* unless the connection is closed or calls overlap: until they do, one call at
\* most is sending.
ActionTaken ==
  (\E c \in Calls : act[c] \in {"send", "blocked"}) ~>
    (\E c \in Calls : act[c] = "close") \/ ctx = "done" \/ overlapped = "yes"
====
