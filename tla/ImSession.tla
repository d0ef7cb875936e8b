------------------------------ MODULE ImSession ------------------------------
(***************************************************************************)
(* Which node runs the dialog of a session (providers/im/server.go,        *)
(* store/pg_store/session.go).  Every node gets every event of the broker  *)
(* in a queue of its own.  A node that has no connection for a session     *)
(* claims the session's row in the database before it starts a dialog;     *)
(* when the schema ends, the connection is deleted and then the row.       *)
(*                                                                         *)
(* The store of the connections is an LRU and may drop the connection of a *)
(* dialog that runs.  A node that is told to stop removes its rows while   *)
(* its listener and its dialogs go on, until the process exits.            *)
(***************************************************************************)
EXTENDS Naturals, Sequences

CONSTANTS Node, Session,
          Receivers,    \* the sequences of sessions that messages are addressed to
          MaxMessages, MaxLeaves, MaxEnds, MaxCrashes, MaxErrors, MaxEvictions,  \* bounds
          None

\* Events: a customer message with its receivers, or client_leave of the thread.
Leave == [type |-> "leave", to |-> <<>>]
Message(r) == [type |-> "message", to |-> r]

ASSUME SessionAssumption ==
  /\ None \notin Node
  /\ Receivers \subseteq Seq(Session)
  /\ {MaxMessages, MaxLeaves, MaxEnds, MaxCrashes, MaxErrors, MaxEvictions} \subseteq Nat

VARIABLES up,        \* nodes that run
          stop,      \* how far each node is with its shutdown
          queue,     \* events each node has not handled
          todo,      \* receivers left of the message a node is handling
          conn,      \* connectionStore of each node
          lost,      \* dialogs that run without an entry in connectionStore
          removing,  \* connections deleted whose row is not yet removed
          row,       \* flow.session: the owner of each session
          kept,      \* rows whose removal the database refused
          used       \* how many steps of each bounded kind have happened

vars == <<up, stop, queue, todo, conn, lost, removing, row, kept, used>>

Event == [type: {"leave", "message"}, to: Seq(Session)]

Bound == [message |-> MaxMessages, leave |-> MaxLeaves, end |-> MaxEnds,
          crash |-> MaxCrashes, error |-> MaxErrors, evict |-> MaxEvictions]

\* The shapes of the state.
TypeOK ==
  /\ up \subseteq Node
  /\ stop \in [Node -> {"no", "asked", "removed"}]
  /\ queue \in [Node -> Seq(Event)]
  /\ todo \in [Node -> Seq(Session)]
  /\ conn \in [Node -> [Session -> {"none", "live", "broken"}]]
  /\ lost \in [Node -> [Session -> Nat]]
  /\ removing \in [Node -> [Session -> Nat]]
  /\ row \in [Session -> Node \cup {None}]
  /\ kept \subseteq Node \X Session
  /\ used \in [DOMAIN Bound -> Nat]

Init ==
  /\ up = Node
  /\ stop = [n \in Node |-> "no"]
  /\ queue = [n \in Node |-> <<>>]
  /\ todo = [n \in Node |-> <<>>]
  /\ conn = [n \in Node |-> [s \in Session |-> "none"]]
  /\ lost = [n \in Node |-> [s \in Session |-> 0]]
  /\ removing = [n \in Node |-> [s \in Session |-> 0]]
  /\ row = [s \in Session |-> None]
  /\ kept = {}
  /\ used = [b \in DOMAIN Bound |-> 0]

Use(b) == used[b] < Bound[b] /\ used' = [used EXCEPT ![b] = @ + 1]

-----------------------------------------------------------------------------
(* The broker. *)

Send(e) == queue' = [n \in Node |-> IF n \in up THEN Append(queue[n], e) ELSE queue[n]]

Publish ==
  /\ \/ Use("message") /\ \E r \in Receivers : Send(Message(r))
     \/ Use("leave") /\ Send(Leave)
  /\ UNCHANGED <<up, stop, todo, conn, lost, removing, row, kept>>

-----------------------------------------------------------------------------
(* The listener of a node. *)

NodeMessage(n) ==
  /\ n \in up /\ todo[n] = <<>>
  /\ queue[n] # <<>> /\ Head(queue[n]).type = "message"
  /\ todo' = [todo EXCEPT ![n] = Head(queue[n]).to]
  /\ queue' = [queue EXCEPT ![n] = Tail(@)]
  /\ UNCHANGED <<up, stop, conn, lost, removing, row, kept, used>>

\* Mutant: the row is taken whoever owns it.
TouchAnyway(n, s) == row' = [row EXCEPT ![s] = n]

\* insert ... on conflict do update where app_id = :AppId
Touch(n, s) == row[s] \in {None, n} /\ row' = [row EXCEPT ![s] = n]

\* A receiver that has a connection gets the message; else the dialog is started
\* if the row can be claimed.
Receiver(n) ==
  /\ n \in up /\ todo[n] # <<>>
  /\ LET s == Head(todo[n]) IN
     \/ /\ conn[n][s] # "none"
        /\ todo' = [todo EXCEPT ![n] = Tail(@)]
        /\ UNCHANGED <<conn, row, kept, used>>
     \/ /\ conn[n][s] = "none"
        /\ Touch(n, s)
        /\ conn' = [conn EXCEPT ![n][s] = "live"]
        /\ kept' = kept \ {<<n, s>>}
        /\ todo' = [todo EXCEPT ![n] = Tail(@)]
        /\ UNCHANGED used
     \/ /\ conn[n][s] = "none" /\ row[s] \notin {None, n}
        /\ todo' = [todo EXCEPT ![n] = Tail(@)]
        /\ UNCHANGED <<conn, row, kept, used>>
     \/ \* the database fails: the rest of the receivers is skipped
        /\ conn[n][s] = "none" /\ Use("error")
        /\ todo' = [todo EXCEPT ![n] = <<>>]
        /\ UNCHANGED <<conn, row, kept>>
  /\ UNCHANGED <<up, stop, queue, lost, removing>>

\* BreakByThread, then RemoveByThread, which removes the rows of every node; the
\* handler only logs an error of the database.
HandleBotControlReleased(n) ==
  /\ n \in up /\ todo[n] = <<>>
  /\ queue[n] # <<>> /\ Head(queue[n]) = Leave
  /\ queue' = [queue EXCEPT ![n] = Tail(@)]
  /\ conn' = [conn EXCEPT ![n] = [s \in Session |-> IF @[s] = "live" THEN "broken" ELSE @[s]]]
  /\ \/ row' = [s \in Session |-> None] /\ kept' = {} /\ UNCHANGED used
     \/ Use("error") /\ UNCHANGED <<row, kept>>
  /\ UNCHANGED <<up, stop, todo, lost, removing>>

-----------------------------------------------------------------------------
(* The goroutine of the schema: Stop. *)

\* A schema comes to its end by itself or because the connection was broken.  The
\* entry is deleted by the id of the session: when the dialog had lost its own, it
\* is that of the dialog started since, which runs on without it.
StopDelete(n, s) ==
  /\ n \in up
  /\ \/ conn[n][s] = "live" /\ Use("end") /\ UNCHANGED lost
     \/ conn[n][s] = "broken" /\ UNCHANGED <<used, lost>>
     \/ /\ lost[n][s] > 0 /\ Use("end")
        /\ lost' = IF conn[n][s] = "none" THEN [lost EXCEPT ![n][s] = @ - 1] ELSE lost
  /\ conn' = [conn EXCEPT ![n][s] = "none"]
  /\ removing' = [removing EXCEPT ![n][s] = @ + 1]
  /\ UNCHANGED <<up, stop, queue, todo, row, kept>>

\* Mutant: the row is not removed.
StopKeep(n, s) ==
  /\ n \in up /\ removing[n][s] > 0
  /\ removing' = [removing EXCEPT ![n][s] = @ - 1]
  /\ UNCHANGED <<up, stop, queue, todo, conn, lost, row, kept, used>>

\* delete ... where id = :Id and app_id = :AppId
StopRemove(n, s) ==
  /\ n \in up /\ removing[n][s] > 0
  /\ removing' = [removing EXCEPT ![n][s] = @ - 1]
  /\ \/ /\ row' = [row EXCEPT ![s] = IF @ = n THEN None ELSE @]
        /\ kept' = kept \ {<<n, s>>}
        /\ UNCHANGED used
     \/ Use("error") /\ kept' = kept \cup {<<n, s>>} /\ UNCHANGED row
  /\ UNCHANGED <<up, stop, queue, todo, conn, lost>>

\* The store drops an entry, after ten days or for others; the dialog goes on.
Evict(n, s) ==
  /\ conn[n][s] # "none" /\ Use("evict")
  /\ conn' = [conn EXCEPT ![n][s] = "none"]
  /\ lost' = [lost EXCEPT ![n][s] = @ + 1]
  /\ UNCHANGED <<up, stop, queue, todo, removing, row, kept>>

-----------------------------------------------------------------------------
(* Nodes. *)

\* The process is gone, with its connections and its queue; the rows stay.
Gone(n) ==
  /\ up' = up \ {n}
  /\ stop' = [stop EXCEPT ![n] = "no"]
  /\ queue' = [queue EXCEPT ![n] = <<>>]
  /\ todo' = [todo EXCEPT ![n] = <<>>]
  /\ conn' = [conn EXCEPT ![n] = [s \in Session |-> "none"]]
  /\ lost' = [lost EXCEPT ![n] = [s \in Session |-> 0]]
  /\ removing' = [removing EXCEPT ![n] = [s \in Session |-> 0]]
  /\ UNCHANGED <<row, kept>>

Crash(n) == n \in up /\ Use("crash") /\ Gone(n)

\* sessionStore.RemoveAll.
RemoveAll(n) ==
  /\ row' = [s \in Session |-> IF row[s] = n THEN None ELSE row[s]]
  /\ kept' = {k \in kept : k[1] # n}

\* Start removes the rows of the node before it listens.
Start(n) ==
  /\ n \notin up
  /\ up' = up \cup {n}
  /\ RemoveAll(n)
  /\ UNCHANGED <<stop, queue, todo, conn, lost, removing, used>>

\* Stop tells the listener to finish.  It may still take events, as the select
\* chooses freely, and is at work on one.
Shutdown(n) ==
  /\ n \in up /\ stop[n] = "no" /\ Use("crash")
  /\ stop' = [stop EXCEPT ![n] = "asked"]
  /\ UNCHANGED <<up, queue, todo, conn, lost, removing, row, kept>>

\* It removes the rows, those of running dialogs included; an error is logged.
StopRemoveAll(n) ==
  /\ stop[n] = "asked"
  /\ stop' = [stop EXCEPT ![n] = "removed"]
  /\ \/ RemoveAll(n) /\ UNCHANGED used
     \/ Use("error") /\ UNCHANGED <<row, kept>>
  /\ UNCHANGED <<up, queue, todo, conn, lost, removing>>

\* When the listener is at its end Stop returns, and the process exits with the
\* dialogs it still runs.
Exit(n) ==
  /\ stop[n] = "removed" /\ todo[n] = <<>>
  /\ Gone(n)
  /\ UNCHANGED used

-----------------------------------------------------------------------------
Next ==
  \/ Publish
  \/ \E n \in Node :
       \/ NodeMessage(n) \/ Receiver(n) \/ HandleBotControlReleased(n)
       \/ Crash(n) \/ Start(n) \/ Shutdown(n) \/ StopRemoveAll(n) \/ Exit(n)
       \/ \E s \in Session : StopDelete(n, s) \/ StopRemove(n, s) \/ Evict(n, s)

Spec == Init /\ [][Next]_vars

-----------------------------------------------------------------------------
(* Properties. *)

\* No row is left behind: one whose owner is up belongs to a dialog that runs
\* there, or is about to be removed, or the database has refused to remove it.
\* Otherwise no other node could ever start the dialog again.
RowBacked ==
  \A n \in Node, s \in Session :
    row[s] = n /\ n \in up =>
      conn[n][s] # "none" \/ lost[n][s] > 0 \/ removing[n][s] > 0 \/ <<n, s>> \in kept

\* A dialog keeps its claim for as long as it runs, though connectionStore may have
\* dropped it, if no schema ends, the customer does not leave, and its node has
\* not removed its rows in server.Stop, which does not wait for the dialogs.
ClaimHeld ==
  used["end"] = 0 /\ used["leave"] = 0 =>
    \A n \in Node, s \in Session :
      (conn[n][s] = "live" \/ lost[n][s] > 0) /\ stop[n] # "removed" => row[s] = n

-----------------------------------------------------------------------------
(* What comments of the code say and the code does not do in every case.   *)

\* "startDialog is idempotent and claims the session, so it will not
\* double-start or run on another node's session" (nodeMessage): no two nodes
\* run a dialog for the same session.
OneNode ==
  \A s \in Session, n, k \in Node :
    conn[n][s] = "live" /\ conn[k][s] = "live" => n = k

=============================================================================
