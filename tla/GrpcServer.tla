----------------------------- MODULE GrpcServer ------------------------------
(***************************************************************************)
(* The gRPC server, providers/grpc: its processing forms and its chats.    *)
(* Each keeps a table of its own and the two share nothing but the         *)
(* process, so that a behaviour follows one of them.                       *)
(***************************************************************************)
EXTENDS Forms, Conversation

VARIABLE api   \* the service that is followed

grpcVars == <<api, formVars, chatVars>>

GrpcInit == api \in {"form", "chat"} /\ FormInit /\ ChatInit

GrpcNext ==
  /\ \/ api = "form" /\ FormNext /\ UNCHANGED chatVars
     \/ api = "chat" /\ ChatNext /\ UNCHANGED formVars
  /\ UNCHANGED api

\* Every goroutine goes on; nobody has to call, to start or to cancel.
GrpcGoroutines ==
  /\ \/ api = "form" /\ formPanic = "no" /\ FormGoroutines /\ UNCHANGED chatVars
     \/ api = "chat" /\ chatPanic = "no" /\ ChatGoroutines /\ UNCHANGED formVars
  /\ UNCHANGED api

GrpcSpec == GrpcInit /\ [][GrpcNext]_grpcVars /\ WF_grpcVars(GrpcGoroutines)

-----------------------------------------------------------------------------

\* A goroutine panics, on a closed or a nil channel, only if calls of FormAction
\* overlap (processing_connection.go:145-155) or two of Break, BreakBridge and a
\* refused message are at one bridge (conversation.go, closeIfBreak).
PanicNeedsRace == PanicNeedsOverlap /\ PanicNeedsTwo
====
