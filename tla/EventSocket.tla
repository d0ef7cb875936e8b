---------------------------- MODULE EventSocket ----------------------------
(***************************************************************************)
(* providers/fs/eventsocket: one socket to FreeSWITCH, read by the         *)
(* goroutine of readLoop and written by whoever sends a command.  readOne  *)
(* sorts what it reads into four channels: err with room for one, cmd and  *)
(* api with none, evt with room for EventsBuffer.  Send and SendMsg write  *)
(* a command and wait for whatever comes first on err, cmd or (Send only)  *)
(* api, or for a timeout; nothing ties an answer to its command.           *)
(***************************************************************************)
EXTENDS Naturals, Sequences

CONSTANTS Sender,        \* goroutines that send commands
          EventsBuffer   \* eventsBuffer

ASSUME BufferAssumption == EventsBuffer \in Nat

VARIABLES sock,    \* open, shut by FreeSWITCH, or closed by us
          out,     \* commands FreeSWITCH has not answered
          wire,    \* what it has sent and readOne has not read
          reader,  \* readLoop: what it is about to hand over, and to whom
          err, evt,
          req,     \* the command each sender waits for
          sent,    \* commands so far
          mixed,   \* history: two commands have overlapped or one timed out
          crossed  \* history: a command has got the answer of another

esvars == <<sock, out, wire, reader, err, evt, req, sent, mixed, crossed>>

\* A command waits on err and cmd, and on api if it was written by Send.
Kind == {"send", "api", "msg"}
NoRequest == [pc |-> "idle", id |-> 0, kind |-> "msg"]
Reading == [to |-> "read"]
Ended == [to |-> "end"]

Command(X) == [id : Nat \ {0}, kind : Kind, x : X]
Request == [pc : {"idle", "wait"}, id : Nat, kind : Kind]
Answer == [to : {"cmd", "api", "err"}, id : Nat \ {0}]

\* The shapes of the channels, with Event the events FreeSWITCH may fire and X
\* what it may be told to execute.
ESTypeOK(Event, X) ==
  /\ sock \in {"open", "shut", "closed"}
  /\ out \in Seq(Command(X))
  /\ wire \in Seq(Answer \cup Event)
  /\ reader \in Answer \cup Event \cup {Reading, Ended, [to |-> "eof"]}
  /\ err \in Seq(Nat) /\ Len(err) <= 1
  /\ evt \in Seq(Event) /\ Len(evt) <= EventsBuffer
  /\ req \in [Sender -> Request]
  /\ sent \in Nat
  /\ mixed \in {"no", "yes"} /\ crossed \in {"no", "yes"}

ESInit ==
  /\ sock = "open"
  /\ out = <<>> /\ wire = <<>> /\ err = <<>> /\ evt = <<>>
  /\ reader = Reading
  /\ req = [s \in Sender |-> NoRequest]
  /\ sent = 0 /\ mixed = "no" /\ crossed = "no"

-----------------------------------------------------------------------------
(* readLoop. *)

\* What is on its way when the socket is closed is lost.
Closed == sock' = "closed" /\ out' = <<>> /\ wire' = <<>>

\* readOne takes a packet.
ReadOne ==
  /\ reader = Reading /\ sock # "closed" /\ wire # <<>>
  /\ reader' = Head(wire)
  /\ wire' = Tail(wire)
  /\ UNCHANGED <<sock, out, err, evt, req, sent, mixed, crossed>>

\* It cannot: the error goes to err, and the loop ends after that.
ReadFails ==
  /\ reader = Reading
  /\ sock = "closed" \/ (sock = "shut" /\ wire = <<>>)
  /\ reader' = [to |-> "eof"]
  /\ UNCHANGED <<sock, out, wire, err, evt, req, sent, mixed, crossed>>

\* An event that cannot be parsed ends the loop without a word.
ReadBad ==
  /\ reader.to = "evt"
  /\ reader' = Ended
  /\ Closed
  /\ UNCHANGED <<err, evt, req, sent, mixed, crossed>>

PushEvt ==
  /\ reader.to = "evt" /\ Len(evt) < EventsBuffer
  /\ evt' = Append(evt, reader)
  /\ reader' = Reading
  /\ UNCHANGED <<sock, out, wire, err, req, sent, mixed, crossed>>

\* Mutant: after an error answer the case falls through to h.cmd <- resp.
PushErrTwice ==
  /\ reader.to = "err" /\ err = <<>>
  /\ err' = <<reader.id>>
  /\ reader' = [reader EXCEPT !.to = "cmd"]
  /\ UNCHANGED <<sock, out, wire, evt, req, sent, mixed, crossed>>

\* The answer to a command is an error.
PushErr ==
  /\ reader.to = "err" /\ err = <<>>
  /\ err' = <<reader.id>>
  /\ reader' = Reading
  /\ UNCHANGED <<sock, out, wire, evt, req, sent, mixed, crossed>>

\* Mutant: err has no room, and takes an error only if a command waits.
PushEOFUnbuffered ==
  /\ reader.to = "eof" /\ err = <<>>
  /\ \E s \in Sender : req[s].pc = "wait"
  /\ err' = <<0>>
  /\ reader' = Ended
  /\ Closed
  /\ UNCHANGED <<evt, req, sent, mixed, crossed>>

\* readOne has failed: Close, and close(h.evt).
PushEOF ==
  /\ reader.to = "eof" /\ err = <<>>
  /\ err' = <<0>>
  /\ reader' = Ended
  /\ Closed
  /\ UNCHANGED <<evt, req, sent, mixed, crossed>>

ReadLoop == ReadOne \/ ReadFails \/ PushEvt \/ PushErr \/ PushEOF

-----------------------------------------------------------------------------
(* Send, SendMsg and SendEvent, for sender s. *)

Waits(s) == req[s].pc = "wait"

\* The command is written, to execute x if it is a message.  FreeSWITCH does
\* not see it any more if it has shut the socket.
Write(s, kind, x) ==
  /\ ~Waits(s) /\ sock # "closed"
  /\ sent' = sent + 1
  /\ req' = [req EXCEPT ![s] = [pc |-> "wait", id |-> sent', kind |-> kind]]
  /\ out' = IF sock = "open" THEN Append(out, [id |-> sent', kind |-> kind, x |-> x]) ELSE out
  /\ mixed' = IF \E t \in Sender : Waits(t) THEN "yes" ELSE mixed
  /\ UNCHANGED <<sock, wire, reader, err, evt, crossed>>

\* It cannot be written, for sure once the socket is closed.
WriteFails(s) ==
  /\ ~Waits(s) /\ sock # "open"
  /\ UNCHANGED esvars

Returned(s, id) ==
  /\ req' = [req EXCEPT ![s] = NoRequest]
  /\ crossed' = IF id \in {0, req[s].id} THEN crossed ELSE "yes"

\* The command is answered, or fails by an error or a timeout.
Answered(s) ==
  /\ Waits(s)
  /\ reader.to = "cmd" \/ (reader.to = "api" /\ req[s].kind # "msg")
  /\ Returned(s, reader.id)
  /\ reader' = Reading
  /\ UNCHANGED <<sock, out, wire, err, evt, sent, mixed>>

Failed(s) ==
  /\ Waits(s) /\ err # <<>>
  /\ Returned(s, Head(err))
  /\ err' = <<>>
  /\ UNCHANGED <<sock, out, wire, reader, evt, sent, mixed>>

Timeout(s) ==
  /\ Waits(s)
  /\ req' = [req EXCEPT ![s] = NoRequest]
  /\ mixed' = "yes"
  /\ UNCHANGED <<sock, out, wire, reader, err, evt, sent, crossed>>

\* ReadEvent gives an event, or the end of them.
ReadEvent(e) ==
  /\ evt # <<>> /\ e = Head(evt)
  /\ evt' = Tail(evt)
  /\ UNCHANGED <<sock, out, wire, reader, err, req, sent, mixed, crossed>>
EOF == evt = <<>> /\ reader = Ended

Close ==
  /\ Closed
  /\ UNCHANGED <<reader, err, evt, req, sent, mixed, crossed>>

-----------------------------------------------------------------------------
(* FreeSWITCH, as far as the socket shows it: it answers commands in their *)
(* order, now or much later.                                               *)

Replies(to) ==
  /\ sock = "open" /\ out # <<>>
  /\ to \in {"err", IF Head(out).kind = "api" THEN "api" ELSE "cmd"}
  /\ out' = Tail(out)
  /\ wire' = Append(wire, [to |-> to, id |-> Head(out).id])
  /\ UNCHANGED <<sock, reader, err, evt, req, sent, mixed, crossed>>

Fires(e) ==
  /\ sock = "open"
  /\ wire' = Append(wire, e)
  /\ UNCHANGED <<sock, out, reader, err, evt, req, sent, mixed, crossed>>

Shuts ==
  /\ sock = "open"
  /\ sock' = "shut"
  /\ out' = <<>>
  /\ UNCHANGED <<wire, reader, err, evt, req, sent, mixed, crossed>>

-----------------------------------------------------------------------------
\* As long as commands wait one at a time and none of them times out, each is
\* answered by the reply to it: "Send sends a single command to the server and
\* returns a response Event."
RepliesMatch == mixed = "no" => crossed = "no"

=============================================================================
