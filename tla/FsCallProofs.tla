---------------------------- MODULE FsCallProofs ----------------------------
(***************************************************************************)
(* What is proved of a call of FreeSWITCH and of its event socket, for any *)
(* number of executes and commands and any size of the event buffer: that  *)
(* replies reach their commands while commands neither overlap nor time    *)
(* out, that the channel of an execute is used once, and that nothing is   *)
(* executed after the call is over.                                        *)
(***************************************************************************)
EXTENDS FsCall, TLAPS

-----------------------------------------------------------------------------
(* The socket. *)

\* Where the answer to a command can be.
InOut == out # <<>>
InWire == \E i \in 1..Len(wire) : wire[i].to # "evt"
InReader == reader.to \in {"cmd", "api", "err"}
InErr == err # <<>> /\ err[1] # 0

\* There is one answer on its way at most, to the one command that waits.
OneAnswer ==
  /\ InOut => ~InWire /\ ~InReader /\ ~InErr
  /\ InWire => ~InReader /\ ~InErr
  /\ InReader => ~InErr
  /\ Len(out) <= 1
  /\ \A i, j \in 1..Len(wire) : wire[i].to # "evt" /\ wire[j].to # "evt" => i = j
  /\ InOut \/ InWire \/ InReader \/ InErr => \E s \in Sender : Waits(s)

\* It carries the number of that command, the last one written.
LastCommand ==
  /\ \A s, t \in Sender : Waits(s) /\ Waits(t) => s = t
  /\ \A s \in Sender : Waits(s) => req[s].id = sent
  /\ InOut => out[1].id = sent
  /\ \A i \in 1..Len(wire) : wire[i].to # "evt" => wire[i].id = sent
  /\ InReader => reader.id = sent
  /\ InErr => err[1] = sent

\* After the error that ends readLoop nothing else can come.
EofIsLast ==
  /\ sock = "closed" => out = <<>> /\ wire = <<>>
  /\ reader = Ended => sock = "closed"
  /\ err # <<>> /\ err[1] = 0 => reader = Ended

ChannelsOK == ESTypeOK(Event, 0..MaxExecutes)

SocketInv ==
  /\ ChannelsOK
  /\ EofIsLast
  /\ mixed = "no" => OneAnswer /\ LastCommand /\ crossed = "no"

\* What the socket does by itself or for those who use it.
SocketStep ==
  \/ ReadLoop \/ ReadBad
  \/ \E s \in Sender, kind \in Kind, x \in 0..MaxExecutes : Write(s, kind, x)
  \/ \E s \in Sender : Answered(s) \/ Failed(s) \/ Timeout(s)
  \/ (\E e \in Event : ReadEvent(e) \/ Fires(e))
  \/ (\E to \in {"cmd", "api", "err"} : Replies(to))
  \/ Close \/ Shuts \/ UNCHANGED esvars

\* The two operations on the queues of the socket, by their elements.
LEMMA Appended ==
  ASSUME NEW S, NEW q \in Seq(S), NEW e \in S
  PROVE  /\ Append(q, e) \in Seq(S) /\ Len(q) \in Nat /\ Len(Append(q, e)) = Len(q) + 1
         /\ \A i \in 1..Len(q) : Append(q, e)[i] = q[i]
         /\ Append(q, e)[Len(q) + 1] = e
OBVIOUS

\* A queue without its head.
LEMMA Shortened ==
  ASSUME NEW S, NEW q \in Seq(S), q # <<>>
  PROVE  /\ Tail(q) \in Seq(S) /\ Len(q) \in Nat \ {0} /\ Len(Tail(q)) = Len(q) - 1
         /\ Head(q) = q[1] /\ Head(q) \in S
         /\ \A i \in 1..(Len(q) - 1) : Tail(q)[i] = q[i + 1]
OBVIOUS

\* The empty queue.
LEMMA EmptyQueue == \A S : <<>> \in Seq(S)
OBVIOUS

\* Events and answers are told apart by where they go.
LEMMA PacketKinds ==
  /\ \A p \in Answer : p.to \in {"cmd", "api", "err"} /\ p.id \in Nat \ {0}
  /\ \A p \in Event : p.to = "evt"
  /\ Reading.to = "read" /\ Ended.to = "end"
  /\ [to |-> "eof"].to = "eof"
BY DEF Answer, Event, Hangup, Bridged, Complete, Reading, Ended

\* Every step of the socket keeps the shapes of its channels.
LEMMA SocketTypeStep ==
  ASSUME ChannelsOK, SocketStep PROVE ChannelsOK'
<1> USE DEF ChannelsOK, ESTypeOK
<1>1. CASE ReadOne
  <2>1. Tail(wire) \in Seq(Answer \cup Event) /\ Head(wire) \in Answer \cup Event
    BY <1>1, Shortened DEF ReadOne
  <2> QED BY <1>1, <2>1 DEF ReadOne
<1>2. CASE ReadFails
  BY <1>2 DEF ReadFails
<1>3. CASE PushEvt
  <2>1. reader \in Event
    BY Zenon, <1>3, PacketKinds DEF PushEvt
  <2>2. Append(evt, reader) \in Seq(Event) /\ Len(Append(evt, reader)) <= EventsBuffer
    BY <1>3, <2>1, BufferAssumption DEF PushEvt
  <2> QED BY <1>3, <2>2 DEF PushEvt
<1>4. CASE PushErr
  <2>1. reader.id \in Nat
    BY <1>4, PacketKinds DEF PushErr
  <2> QED BY <1>4, <2>1 DEF PushErr
<1>5. CASE PushEOF \/ ReadBad
  <2>1. <<0>> \in Seq(Nat) /\ Len(<<0>>) <= 1
    OBVIOUS
  <2> QED
    BY Zenon, <1>5, <2>1, EmptyQueue DEF PushEOF, ReadBad, Closed
<1>6. ASSUME NEW s \in Sender, NEW kind \in Kind, NEW x \in 0..MaxExecutes, Write(s, kind, x)
      PROVE  ChannelsOK'
  <2>1. [id |-> sent + 1, kind |-> kind, x |-> x] \in Command(0..MaxExecutes)
    BY DEF Command
  <2>2. out' \in Seq(Command(0..MaxExecutes))
    BY Zenon, <1>6, <2>1, Appended DEF Write
  <2>3. req' \in [Sender -> Request]
    BY <1>6 DEF Write, Request
  <2> QED BY <1>6, <2>2, <2>3 DEF Write
<1>7. ASSUME NEW s \in Sender, Answered(s) \/ Failed(s) \/ Timeout(s)
      PROVE  ChannelsOK'
  <2>1. NoRequest \in Request
    BY DEF NoRequest, Kind, Request
  <2>2. req' \in [Sender -> Request]
    BY Zenon, <1>7, <2>1 DEF Answered, Failed, Timeout, Returned
  <2>3. err' \in {err, <<>>} /\ <<>> \in Seq(Nat) /\ Len(<<>>) <= 1
    BY <1>7 DEF Answered, Failed, Timeout
  <2> QED BY Zenon, <1>7, <2>2, <2>3 DEF Answered, Failed, Timeout, Returned
<1>8. ASSUME NEW e \in Event, ReadEvent(e) PROVE ChannelsOK'
  <2>1. Tail(evt) \in Seq(Event) /\ Len(Tail(evt)) <= EventsBuffer
    BY <1>8, BufferAssumption DEF ReadEvent
  <2> QED BY <1>8, <2>1 DEF ReadEvent
<1>9. ASSUME NEW e \in Event, Fires(e) PROVE ChannelsOK'
  <2>1. Append(wire, e) \in Seq(Answer \cup Event)
    OBVIOUS
  <2> QED BY <1>9, <2>1 DEF Fires
<1>10. ASSUME NEW to \in {"cmd", "api", "err"}, Replies(to) PROVE ChannelsOK'
  <2>1. Head(out).id \in Nat \ {0} /\ Tail(out) \in Seq(Command(0..MaxExecutes))
    <3>1. Head(out) \in Command(0..MaxExecutes) /\ Tail(out) \in Seq(Command(0..MaxExecutes))
      BY Zenon, <1>10, Shortened DEF Replies
    <3> QED
      BY <3>1 DEF Command
  <2>2. [to |-> to, id |-> Head(out).id] \in Answer \cup Event
    BY <2>1 DEF Answer
  <2>3. wire' \in Seq(Answer \cup Event)
    BY <1>10, <2>2, Appended DEF Replies
  <2> QED BY <1>10, <2>1, <2>3 DEF Replies
<1>11. CASE Close \/ Shuts \/ UNCHANGED esvars
  BY Zenon, <1>11, EmptyQueue DEF Close, Closed, Shuts, esvars
<1> QED
  BY <1>1, <1>2, <1>3, <1>4, <1>5, <1>6, <1>7, <1>8, <1>9, <1>10, <1>11 DEF SocketStep, ReadLoop

\* Nothing comes after the end.
LEMMA EofStep ==
  ASSUME ChannelsOK, EofIsLast, SocketStep PROVE EofIsLast'
<1> USE DEF EofIsLast, ChannelsOK, ESTypeOK
<1>1. CASE ReadOne
  <2>0. Head(wire) \in Answer \cup Event
    BY Zenon, <1>1, Shortened DEF ReadOne
  <2>1. reader' # Ended
    BY Zenon, <1>1, <2>0, PacketKinds DEF ReadOne
  <2> QED BY <1>1, <2>1 DEF ReadOne, Reading, Ended
<1>2. CASE ReadFails
  BY <1>2, PacketKinds DEF ReadFails
<1>3. CASE PushEvt
  BY <1>3, PacketKinds DEF PushEvt
<1>4. CASE PushErr
  BY <1>4, PacketKinds DEF PushErr
<1>5. CASE PushEOF \/ ReadBad
  BY <1>5, PacketKinds DEF PushEOF, ReadBad, Closed
<1>6. ASSUME NEW s \in Sender, NEW kind \in Kind, NEW x \in 0..MaxExecutes, Write(s, kind, x)
      PROVE  EofIsLast'
  BY <1>6 DEF Write
<1>7. ASSUME NEW s \in Sender, Answered(s) \/ Failed(s) \/ Timeout(s)
      PROVE  EofIsLast'
  BY <1>7, PacketKinds DEF Answered, Failed, Timeout, Returned
<1>8. ASSUME NEW e \in Event, ReadEvent(e) \/ Fires(e) PROVE EofIsLast'
  BY <1>8 DEF ReadEvent, Fires
<1>9. ASSUME NEW to \in {"cmd", "api", "err"}, Replies(to) PROVE EofIsLast'
  BY <1>9 DEF Replies
<1>10. CASE Close \/ Shuts \/ UNCHANGED esvars
  BY <1>10 DEF Close, Closed, Shuts, esvars
<1> QED
  BY <1>1, <1>2, <1>3, <1>4, <1>5, <1>6, <1>7, <1>8, <1>9, <1>10 DEF SocketStep, ReadLoop

\* The packet readOne takes, if it is an answer, was the only one.
LEMMA ReadOneMatches ==
  ASSUME ChannelsOK, OneAnswer, LastCommand, ReadOne
  PROVE  OneAnswer' /\ LastCommand'
<1>1. /\ wire' \in Seq(Answer \cup Event) /\ Len(wire') = Len(wire) - 1 /\ Len(wire) \in Nat \ {0}
      /\ reader' = wire[1] /\ wire[1] \in Answer \cup Event
      /\ \A i \in 1..Len(wire') : wire'[i] = wire[i + 1]
  <2>1. /\ wire \in Seq(Answer \cup Event) /\ wire # <<>>
        /\ wire' = Tail(wire) /\ reader' = Head(wire)
    BY Zenon DEF ReadOne, ChannelsOK, ESTypeOK
  <2> QED BY <2>1, Shortened
<1>2. InReader' <=> wire[1].to # "evt"
  BY <1>1, PacketKinds DEF InReader
<1>3. ~InReader
  BY PacketKinds DEF ReadOne, InReader
<1>4. /\ \A i \in 1..Len(wire') : i + 1 \in 1..Len(wire) /\ i + 1 # 1
      /\ 1 \in 1..Len(wire)
      /\ \A i, j \in 1..Len(wire') : i + 1 = j + 1 => i = j
  BY <1>1
<1>5. InWire' => InWire /\ ~InReader'
  <2> SUFFICES ASSUME NEW i \in 1..Len(wire'), wire'[i].to # "evt"
               PROVE  InWire /\ wire[1].to = "evt"
    BY Zenon, <1>2 DEF InWire
  <2>1. i + 1 \in 1..Len(wire) /\ 1 \in 1..Len(wire) /\ i + 1 # 1 /\ wire[i + 1].to # "evt"
    BY Zenon, <1>1, <1>4
  <2> QED BY Zenon, <2>1 DEF InWire, OneAnswer
<1>6. InReader' => InWire
  BY Zenon, <1>2, <1>4 DEF InWire
<1>7. (InOut' <=> InOut) /\ (InErr' <=> InErr) /\ \A s \in Sender : Waits(s)' <=> Waits(s)
  BY DEF ReadOne, InOut, InErr, Waits
<1>8. OneAnswer'
  <2>1. \A i, j \in 1..Len(wire') : wire'[i].to # "evt" /\ wire'[j].to # "evt" => i = j
    <3> SUFFICES ASSUME NEW i \in 1..Len(wire'), NEW j \in 1..Len(wire'),
                        wire'[i].to # "evt", wire'[j].to # "evt"
                 PROVE  i = j
      OBVIOUS
    <3>1. /\ i + 1 \in 1..Len(wire) /\ wire[i + 1].to # "evt"
          /\ j + 1 \in 1..Len(wire) /\ wire[j + 1].to # "evt"
      BY Zenon, <1>1, <1>4
    <3>2. i + 1 = j + 1
      BY Zenon, <3>1 DEF OneAnswer
    <3> QED BY <3>2
  <2> QED
    BY Zenon, <1>3, <1>5, <1>6, <1>7, <2>1 DEF OneAnswer, ReadOne
<1>9. LastCommand'
  <2>1. ASSUME NEW i \in 1..Len(wire'), wire'[i].to # "evt" PROVE wire'[i].id = sent
    <3>1. i + 1 \in 1..Len(wire) /\ wire[i + 1].to # "evt" /\ wire'[i].id = wire[i + 1].id
      BY Zenon, <1>1, <1>4, <2>1
    <3> QED BY Zenon, <3>1 DEF LastCommand
  <2>2. InReader' => reader'.id = sent
    BY Zenon, <1>1, <1>2, <1>4 DEF LastCommand
  <2> QED
    BY Zenon, <1>7, <2>1, <2>2 DEF LastCommand, ReadOne
<1> QED BY <1>8, <1>9

\* An answer handed over from readLoop to err, or to the command.
LEMMA HandedOverMatches ==
  ASSUME SocketInv, mixed = "no",
         PushEvt \/ PushErr \/ PushEOF \/ ReadBad \/ ReadFails
  PROVE  OneAnswer' /\ LastCommand'
<1> USE DEF SocketInv
<1>1. CASE PushEvt \/ ReadFails
  <2>1. ~InReader /\ ~InReader'
    BY Zenon, <1>1, PacketKinds DEF PushEvt, ReadFails, InReader
  <2> QED
    BY Zenon, <1>1, <2>1 DEF PushEvt, ReadFails, OneAnswer, LastCommand, InOut, InWire, InErr, Waits
<1>2. CASE PushErr
  <2>1. InReader /\ ~InReader' /\ ~InErr /\ err' # <<>> /\ err'[1] = reader.id
    BY <1>2, PacketKinds DEF PushErr, InReader, InErr
  <2> QED
    BY Zenon, <1>2, <2>1 DEF PushErr, OneAnswer, LastCommand, InOut, InWire, InErr, Waits
<1>3. CASE PushEOF \/ ReadBad
  <2>1. ~InReader' /\ (InErr' => InErr) /\ (InErr' => err' = err) /\ out' = <<>> /\ wire' = <<>>
    BY <1>3, PacketKinds DEF PushEOF, ReadBad, InReader, InErr, Closed
  <2>2. ~InOut' /\ ~InWire' /\ Len(out') <= 1 /\ 1..Len(wire') = {}
    BY <2>1 DEF InOut, InWire
  <2>3. req' = req /\ sent' = sent /\ \A s \in Sender : Waits(s)' <=> Waits(s)
    BY <1>3 DEF PushEOF, ReadBad, Waits
  <2> QED
    BY Zenon, <2>1, <2>2, <2>3 DEF OneAnswer, LastCommand
<1> QED BY <1>1, <1>2, <1>3

\* A command is written while none waits, so that no answer is on its way.
LEMMA WriteMatches ==
  ASSUME SocketInv, mixed' = "no",
         NEW s \in Sender, NEW kind \in Kind, NEW x \in 0..MaxExecutes, Write(s, kind, x)
  PROVE  OneAnswer' /\ LastCommand'
<1> USE DEF SocketInv
<1>1. mixed = "no" /\ \A t \in Sender : ~Waits(t)
  BY Zenon DEF Write
<1>2. ~InOut /\ ~InWire /\ ~InReader /\ ~InErr
  BY Zenon, <1>1 DEF OneAnswer
<1>3. ~InWire' /\ ~InReader' /\ ~InErr'
  BY Zenon, <1>2 DEF Write, InWire, InReader, InErr
<1>4. /\ Waits(s)' /\ req'[s].id = sent'
      /\ \A t \in Sender : Waits(t)' => t = s
  BY <1>1 DEF Write, Waits, ChannelsOK, ESTypeOK, Request
<1>5. Len(out') <= 1 /\ (InOut' => out'[1].id = sent')
  BY <1>2 DEF Write, InOut, ChannelsOK, ESTypeOK
<1> QED
  BY Zenon, <1>3, <1>4, <1>5 DEF OneAnswer, LastCommand, InWire

\* A command that gets an answer gets its own.
LEMMA AnswerMatches ==
  ASSUME SocketInv, mixed = "no", NEW s \in Sender, Answered(s) \/ Failed(s)
  PROVE  OneAnswer' /\ LastCommand' /\ crossed' = "no"
<1> USE DEF SocketInv
<1>1. CASE Answered(s)
  <2>1. InReader /\ ~InReader' /\ reader.id = req[s].id
    BY Zenon, <1>1, PacketKinds DEF Answered, InReader, LastCommand
  <2>2. ~InOut' /\ ~InWire' /\ ~InErr' /\ Len(out') <= 1
    BY Zenon, <1>1, <2>1 DEF Answered, OneAnswer, InOut, InWire, InErr
  <2>3. \A t \in Sender : ~Waits(t)'
    BY <1>1 DEF Answered, Returned, Waits, LastCommand, ChannelsOK, ESTypeOK, NoRequest
  <2>4. crossed' = "no"
    BY Zenon, <1>1, <2>1 DEF Answered, Returned
  <2> QED
    BY Zenon, <2>1, <2>2, <2>3, <2>4 DEF OneAnswer, LastCommand, InWire
<1>2. CASE Failed(s)
  <2>1. Head(err) = err[1] /\ err' = <<>>
    BY <1>2 DEF Failed, ChannelsOK, ESTypeOK
  <2>2. CASE err[1] = 0
    <3>1. ~InReader /\ ~InReader' /\ ~InErr' /\ ~InOut' /\ wire' = <<>> /\ out' = <<>>
      BY Zenon, <1>2, <2>1, <2>2, PacketKinds DEF Failed, EofIsLast, InReader, InErr, InOut
    <3>2. 1..Len(wire') = {} /\ Len(out') <= 1
      BY <3>1
    <3>3. \A t \in Sender : ~Waits(t)'
      BY <1>2 DEF Failed, Returned, Waits, LastCommand, ChannelsOK, ESTypeOK, NoRequest
    <3>4. crossed' = "no"
      BY Zenon, <1>2, <2>1, <2>2 DEF Failed, Returned
    <3> QED
      BY Zenon, <3>1, <3>2, <3>3, <3>4 DEF OneAnswer, LastCommand, InWire
  <2>3. CASE err[1] # 0
    <3>1. InErr /\ ~InErr' /\ err[1] = req[s].id
      BY Zenon, <1>2, <2>1, <2>3 DEF Failed, InErr, LastCommand
    <3>2. ~InOut' /\ ~InWire' /\ ~InReader' /\ Len(out') <= 1
      BY Zenon, <1>2, <3>1 DEF Failed, OneAnswer, InOut, InWire, InReader
    <3>3. \A t \in Sender : ~Waits(t)'
      BY <1>2 DEF Failed, Returned, Waits, LastCommand, ChannelsOK, ESTypeOK, NoRequest
    <3>4. crossed' = "no"
      BY Zenon, <1>2, <2>1, <3>1 DEF Failed, Returned
    <3> QED
      BY Zenon, <3>1, <3>2, <3>3, <3>4 DEF OneAnswer, LastCommand, InWire
  <2> QED BY <2>2, <2>3
<1> QED BY <1>1, <1>2

\* What is there and not twice is there once.
LEMMA OnlyOne == \A k \in Nat \ {0} : k <= 1 => k = 1
OBVIOUS

\* FreeSWITCH answers the one command it has, or fires an event.
LEMMA PeerMatches ==
  ASSUME ChannelsOK, OneAnswer, LastCommand,
         \/ \E to \in {"cmd", "api", "err"} : Replies(to)
         \/ \E e \in Event : Fires(e)
  PROVE  OneAnswer' /\ LastCommand'
<1>0. /\ \A t \in Sender : Waits(t)' <=> Waits(t)
      /\ (InReader' <=> InReader) /\ (InErr' <=> InErr)
      /\ UNCHANGED <<reader, err, req, sent>>
  BY Zenon DEF Replies, Fires, Waits, InReader, InErr
<1>1. ASSUME NEW to \in {"cmd", "api", "err"}, Replies(to) PROVE OneAnswer' /\ LastCommand'
  <2> DEFINE p == [to |-> to, id |-> Head(out).id]
  <2>0. Head(out) = out[1] /\ Head(out) \in Command(0..MaxExecutes)
    BY Zenon, <1>1, Shortened DEF Replies, ChannelsOK, ESTypeOK
  <2>1. InOut /\ ~InWire /\ ~InReader /\ ~InErr /\ Len(out) = 1
    <3>1. InOut /\ ~InWire /\ ~InReader /\ ~InErr /\ Len(out) <= 1
      BY Zenon, <1>1 DEF Replies, OneAnswer, InOut
    <3>2. Len(out) \in Nat \ {0}
      BY Zenon, <1>1, Shortened DEF Replies, ChannelsOK, ESTypeOK
    <3>3. Len(out) = 1
      BY Zenon, <3>1, <3>2, OnlyOne
    <3> QED BY Zenon, <3>1, <3>3
  <2>2. Head(out).id = sent /\ sent \in Nat \ {0}
    BY <2>0, <2>1 DEF LastCommand, Command
  <2>3. p \in Answer \cup Event /\ p.to # "evt" /\ p.id = sent
    BY <2>2 DEF Answer
  <2>4. ~InOut' /\ Len(out') <= 1
    BY <1>1, <2>1 DEF Replies, InOut, ChannelsOK, ESTypeOK
  <2>5. /\ Len(wire') = Len(wire) + 1 /\ Len(wire) \in Nat
        /\ \A i \in 1..Len(wire) : wire'[i] = wire[i]
        /\ wire'[Len(wire) + 1] = p
    <3> HIDE DEF p
    <3>1. wire' = Append(wire, p)
      BY <1>1 DEF Replies, p
    <3>2. /\ Len(wire) \in Nat /\ Len(Append(wire, p)) = Len(wire) + 1
          /\ \A i \in 1..Len(wire) : Append(wire, p)[i] = wire[i]
          /\ Append(wire, p)[Len(wire) + 1] = p
      <4>1. wire \in Seq(Answer \cup Event)
        BY DEF ChannelsOK, ESTypeOK
      <4> QED BY <2>3, <4>1, Appended
    <3> QED BY Zenon, <3>1, <3>2
  <2>6. \A i \in 1..Len(wire') : i \in 1..Len(wire) \/ i = Len(wire) + 1
    BY <2>5
  <2>7. \A i \in 1..Len(wire') : wire'[i].to # "evt" => i = Len(wire) + 1
    BY Zenon, <2>1, <2>5, <2>6 DEF InWire
  <2>8. OneAnswer'
    BY Zenon, <1>0, <2>1, <2>4, <2>7 DEF OneAnswer
  <2>9. LastCommand'
    BY Zenon, <1>0, <2>1, <2>3, <2>4, <2>5, <2>7 DEF LastCommand
  <2> QED BY <2>8, <2>9
<1>2. ASSUME NEW e \in Event, Fires(e) PROVE OneAnswer' /\ LastCommand'
  <2>1. /\ Len(wire') = Len(wire) + 1 /\ Len(wire) \in Nat
        /\ \A i \in 1..Len(wire) : wire'[i] = wire[i]
        /\ wire'[Len(wire) + 1].to = "evt"
    <3>1. wire' = Append(wire, e) /\ e.to = "evt" /\ e \in Answer \cup Event
      BY Zenon, <1>2, PacketKinds DEF Fires
    <3>2. /\ Len(wire) \in Nat /\ Len(Append(wire, e)) = Len(wire) + 1
          /\ \A i \in 1..Len(wire) : Append(wire, e)[i] = wire[i]
          /\ Append(wire, e)[Len(wire) + 1] = e
      <4>1. wire \in Seq(Answer \cup Event)
        BY DEF ChannelsOK, ESTypeOK
      <4> QED BY <3>1, <4>1, Appended
    <3> QED BY Zenon, <3>1, <3>2
  <2>2. \A i \in 1..Len(wire') : i \in 1..Len(wire) \/ i = Len(wire) + 1
    BY <2>1
  <2>3. \A i \in 1..Len(wire') : wire'[i].to # "evt" => i \in 1..Len(wire) /\ wire'[i] = wire[i]
    BY Zenon, <2>1, <2>2
  <2>4. (InWire' => InWire) /\ out' = out /\ (InOut' <=> InOut)
    BY Zenon, <1>2, <2>3 DEF InWire, InOut, Fires
  <2>5. \A i, j \in 1..Len(wire') : wire'[i].to # "evt" /\ wire'[j].to # "evt" => i = j
    BY Zenon, <2>3 DEF OneAnswer
  <2>6. OneAnswer'
    BY Zenon, <1>0, <2>4, <2>5 DEF OneAnswer
  <2>7. LastCommand'
    BY Zenon, <1>0, <2>3, <2>4 DEF LastCommand
  <2> QED BY <2>6, <2>7
<1> QED BY <1>1, <1>2

\* A socket that is shut or closed loses what was on its way.
LEMMA ClosingMatches ==
  ASSUME OneAnswer, LastCommand, Close \/ Shuts
  PROVE  OneAnswer' /\ LastCommand'
<1>1. /\ \A t \in Sender : Waits(t)' <=> Waits(t)
      /\ (InReader' <=> InReader) /\ (InErr' <=> InErr) /\ ~InOut'
      /\ UNCHANGED <<reader, err, req, sent>> /\ out' = <<>> /\ wire' \in {wire, <<>>}
  BY Zenon DEF Close, Closed, Shuts, Waits, InReader, InErr, InOut
<1>2. Len(<<>>) <= 1 /\ 1..Len(<<>>) = {}
  OBVIOUS
<1>3. CASE wire' = wire
  BY Zenon, <1>1, <1>2, <1>3 DEF OneAnswer, LastCommand, InWire
<1>4. CASE wire' = <<>>
  BY Zenon, <1>1, <1>2, <1>4 DEF OneAnswer, LastCommand, InWire
<1> QED BY <1>1, <1>3, <1>4

\* Every step of the socket keeps its invariant.
LEMMA SocketInvStep ==
  ASSUME SocketInv, SocketStep PROVE SocketInv'
<1>1. ChannelsOK' /\ EofIsLast'
  BY Zenon, SocketTypeStep, EofStep DEF SocketInv
<1> SUFFICES ASSUME mixed' = "no"
             PROVE  OneAnswer' /\ LastCommand' /\ crossed' = "no"
  BY Zenon, <1>1 DEF SocketInv
<1> USE DEF SocketInv
<1>2. CASE ReadLoop \/ ReadBad
  <2>1. mixed' = mixed /\ crossed' = crossed
    BY Zenon, <1>2 DEF ReadLoop, ReadOne, ReadFails, PushEvt, PushErr, PushEOF, ReadBad
  <2> QED
    BY Zenon, <1>2, <2>1, ReadOneMatches, HandedOverMatches DEF ReadLoop
<1>3. ASSUME NEW s \in Sender, NEW kind \in Kind, NEW x \in 0..MaxExecutes, Write(s, kind, x)
      PROVE  OneAnswer' /\ LastCommand' /\ crossed' = "no"
  <2>1. mixed = "no" /\ crossed' = crossed
    BY Zenon, <1>3 DEF Write
  <2> QED BY Zenon, <1>3, <2>1, WriteMatches
<1>4. ASSUME NEW s \in Sender, Answered(s) \/ Failed(s)
      PROVE  OneAnswer' /\ LastCommand' /\ crossed' = "no"
  <2>1. mixed = "no"
    BY Zenon, <1>4 DEF Answered, Failed
  <2> QED BY Zenon, <1>4, <2>1, AnswerMatches
<1>5. ASSUME NEW s \in Sender, Timeout(s) PROVE FALSE
  BY <1>5 DEF Timeout
<1>6. ASSUME NEW e \in Event, ReadEvent(e)
      PROVE  OneAnswer' /\ LastCommand' /\ crossed' = "no"
  BY Zenon, <1>6 DEF ReadEvent, OneAnswer, LastCommand, InOut, InWire, InReader, InErr, Waits
<1>7. CASE (\E to \in {"cmd", "api", "err"} : Replies(to)) \/ (\E e \in Event : Fires(e))
  <2>1. mixed' = mixed /\ crossed' = crossed
    BY Zenon, <1>7 DEF Replies, Fires
  <2> QED BY Zenon, <1>7, <2>1, PeerMatches
<1>8. CASE Close \/ Shuts
  <2>1. mixed' = mixed /\ crossed' = crossed
    BY Zenon, <1>8 DEF Close, Shuts
  <2> QED BY Zenon, <1>8, <2>1, ClosingMatches
<1>9. CASE UNCHANGED esvars
  BY Zenon, <1>9 DEF esvars, OneAnswer, LastCommand, InOut, InWire, InReader, InErr, Waits
<1> QED
  BY Zenon, <1>2, <1>3, <1>4, <1>5, <1>6, <1>7, <1>8, <1>9 DEF SocketStep

-----------------------------------------------------------------------------
(* The call. *)

\* The execute of a flow that has not put its channel into callbackMessages.
Unregistered(f) == task[f].pc \in {"bridge", "register"}

\* A channel is used at most once, and not while it is in callbackMessages; the
\* executes that have yet to put theirs there are different ones.
FreshChannels ==
  /\ \A x \in Execute : chan[x] <= 1 /\ (x \in callbackMessages => chan[x] = 0)
  /\ \A x \in Execute : x > executes => chan[x] = 0 /\ x \notin callbackMessages
  /\ \A f \in Flow : Unregistered(f) =>
       /\ task[f].x \in 1..executes
       /\ chan[task[f].x] = 0 /\ task[f].x \notin callbackMessages
  /\ \A f, g \in Flow : Unregistered(f) /\ Unregistered(g) /\ task[f].x = task[g].x => f = g

\* Once the context is done, setEvent has the lock, or the connection is
\* stopped, or the socket is closed.
Over ==
  /\ loop.pc \in {"cancel", "done"} => sock = "closed"
  /\ ctx = "done" => Locked \/ stopped = "yes" \/ loop.pc = "done"
  /\ task["off"].pc # "none" => ctx = "done"
  /\ task["off"].pc \in {"none", "idle", "register", "send", "api", "end"}
  /\ task["off"].pc \in {"register", "send"} => sock = "closed"

\* The four commands of the set-up are counted up to the last.
SetupCounted == loop.pc = "setup" => loop.n <= 3

CallInv == TypeOK /\ SetupCounted /\ FreshChannels /\ Over

\* A flow moves on with its execute, or goes back for the next.
LEMMA AtMoves ==
  ASSUME TypeOK, NEW f \in Flow, NEW from, NEW to \in
           {"none", "start", "idle", "bridge", "register", "send", "sending", "await", "api", "end"},
         At(f, from, to)
  PROVE  /\ task' \in [Flow -> TaskState]
         /\ task[f].pc = from /\ task'[f].pc = to /\ task'[f].x = task[f].x
         /\ \A g \in Flow \ {f} : task'[g] = task[g]
BY DEF At, TypeOK, TaskState

\* A flow starts an execute, or is idle again.
LEMMA TaskSet ==
  ASSUME TypeOK, NEW f \in Flow, NEW t \in TaskState, task' = [task EXCEPT ![f] = t]
  PROVE  /\ task' \in [Flow -> TaskState] /\ task'[f] = t
         /\ \A g \in Flow \ {f} : task'[g] = task[g]
BY DEF TypeOK

\* Idle as a special case of that.
LEMMA IdleMoves ==
  ASSUME TypeOK, NEW f \in Flow, NEW from, Idle(f, from)
  PROVE  /\ task' \in [Flow -> TaskState]
         /\ task[f].pc = from /\ task'[f].pc = "idle"
         /\ \A g \in Flow \ {f} : task'[g] = task[g]
<1>1. [pc |-> "idle", x |-> 0] \in TaskState
  BY ExecutesAssumption DEF TaskState
<1> QED BY Zenon, <1>1, TaskSet DEF Idle

\* handleConnection moves on.
LEMMA LoopMoves ==
  ASSUME TypeOK, NEW pc \in {"failed", "consume", "read", "hangup", "exit", "close", "cancel", "done"},
         LoopAt(pc)
  PROVE  loop' \in LoopState /\ loop'.pc = pc
BY DEF TypeOK, LoopState, LoopAt

\* Whatever the call does is a step of its socket or leaves it alone.
LEMMA NextIsSocketStep ==
  ASSUME TypeOK, [Next]_vars PROVE SocketStep
<1>1. "loop" \in Sender /\ Flow \subseteq Sender /\ 0 \in 0..MaxExecutes /\ {"send", "api", "msg"} = Kind
  BY SenderAssumption, ExecutesAssumption DEF Kind
<1>2. \A f \in Flow : task[f].x \in 0..MaxExecutes
  BY ExecutesAssumption DEF TypeOK, TaskState
<1>3. \A x \in Execute : Complete(x) \in Event
  BY DEF Event
<1>4. Hangup \in Event /\ Bridged \in Event /\ offers \subseteq Event
  BY DEF Event, TypeOK
<1>5. CASE SetupSend \/ SetupReply \/ SendExit \/ Exited \/ CloseSocket
  BY Zenon, <1>1, <1>5 DEF SetupSend, SetupReply, SendExit, Exited, CloseSocket, WriteFails, SocketStep
<1>6. CASE SetComplete \/ SetBridge \/ SetHangup
  BY Zenon, <1>3, <1>4, <1>6 DEF SetComplete, SetBridge, SetHangup, Takes, SocketStep
<1>7. CASE \/ Consume \/ LoopEnds \/ Cancel \/ SetSchemaId \/ SetHookBridged \/ BridgeExecutes
            \/ OffStarts \/ OffEnds
  BY Zenon, <1>7 DEF Consume, LoopEnds, Cancel, SetSchemaId, SetHookBridged, BridgeExecutes, OffStarts,
     OffEnds, SocketStep, esvars
<1>8. ASSUME NEW f \in Flow, SendMsg(f) \/ SendMsgReturns(f) \/ Api(f) \/ ApiReturns(f)
      PROVE  SocketStep
  BY Zenon, <1>1, <1>2, <1>8 DEF SendMsg, SendMsgReturns, Api, ApiReturns, WriteFails, SocketStep
<1>9. ASSUME NEW f \in Flow, ExecuteStarts(f) \/ Register(f) \/ ExecuteEnds(f) PROVE SocketStep
  BY Zenon, <1>9 DEF ExecuteStarts, Register, ExecuteEnds, SocketStep, esvars
<1>10. CASE Reads \/ Garbled \/ PeerReplies \/ PeerFires \/ PeerShuts \/ UNCHANGED vars
  BY Zenon, <1>4, <1>10 DEF Reads, Garbled, PeerReplies, PeerFires, PeerShuts, vars, SocketStep
<1> QED
  BY Zenon, <1>5, <1>6, <1>7, <1>8, <1>9, <1>10 DEF Next, HandleConnection, Call, Runs

\* A socket that is closed stays so.
LEMMA ClosedForGood ==
  ASSUME SocketStep, sock = "closed" PROVE sock' = "closed"
<1>1. CASE ReadLoop \/ ReadBad
  BY Zenon, <1>1 DEF ReadLoop, ReadOne, ReadFails, PushEvt, PushErr, PushEOF, ReadBad, Closed
<1> QED
  BY <1>1 DEF SocketStep, Write, Answered, Failed, Timeout, ReadEvent, Fires, Replies, Close,
     Closed, Shuts, esvars

\* Every step of the call keeps the shapes of its state.
LEMMA CallTypeStep ==
  ASSUME TypeOK, SetupCounted, FreshChannels, [Next]_vars, ChannelsOK'
  PROVE  TypeOK' /\ SetupCounted'
<1> USE DEF ChannelsOK
<1>1. CASE SetupSend
  <2>1. loop' = loop \/ (loop' \in LoopState /\ loop'.pc = "failed")
    BY Zenon, <1>1, LoopMoves DEF SetupSend
  <2> QED BY Zenon, <1>1, <2>1 DEF SetupSend, TypeOK, SetupCounted
<1>2. CASE SetupReply
  <2>1. /\ loop' \in LoopState
        /\ loop'.pc = "setup" => loop'.n <= 3
    <3>1. CASE LoopAt("failed")
      BY <3>1, LoopMoves
    <3>2. CASE loop' = [n |-> loop.n + 1, pc |-> IF loop.n = 3 THEN "consume" ELSE "setup"]
      BY <1>2, <3>2 DEF SetupReply, TypeOK, LoopState, SetupCounted
    <3> QED BY <1>2, <3>1, <3>2 DEF SetupReply
  <2> QED BY Zenon, <1>2, <2>1 DEF SetupReply, TypeOK, SetupCounted
<1>3. CASE Consume
  <2>1. loop' \in LoopState /\ loop'.pc = "read"
    BY <1>3, LoopMoves DEF Consume
  <2>2. task' \in [Flow -> TaskState]
    BY <1>3 DEF Consume, TypeOK, TaskState, Flow
  <2> QED BY Zenon, <1>3, <2>1, <2>2 DEF Consume, TypeOK, SetupCounted
<1>4. CASE SetComplete
  <2>1. chan' \in [Execute -> Nat] /\ callbackMessages' \subseteq Execute
    BY <1>4 DEF SetComplete, TypeOK
  <2> QED BY Zenon, <1>4, <2>1 DEF SetComplete, TypeOK, SetupCounted
<1>5. CASE SetBridge
  <2>1. task' \in [Flow -> TaskState]
    BY <1>5 DEF SetBridge, TypeOK, TaskState, Flow
  <2> QED BY Zenon, <1>5, <2>1 DEF SetBridge, TypeOK, SetupCounted
<1>6. CASE SetHangup \/ CloseSocket \/ Cancel
  <2>1. loop' \in LoopState /\ loop'.pc # "setup"
    BY <1>6, LoopMoves DEF SetHangup, CloseSocket, Cancel
  <2> QED BY Zenon, <1>6, <2>1 DEF SetHangup, CloseSocket, Cancel, TypeOK, SetupCounted
<1>7. CASE SendExit \/ Exited
  <2>1. loop' \in LoopState /\ loop'.pc # "setup"
    BY <1>7, LoopMoves DEF SendExit, Exited
  <2> QED BY Zenon, <1>7, <2>1 DEF SendExit, Exited, TypeOK, SetupCounted
<1>8. CASE LoopEnds
  <2>1. loop' \in LoopState /\ loop'.pc # "setup"
    BY <1>8, LoopMoves DEF LoopEnds
  <2>2. chan' \in [Execute -> Nat] /\ callbackMessages' \subseteq Execute
    BY <1>8 DEF LoopEnds, TypeOK
  <2> QED BY Zenon, <1>8, <2>1, <2>2 DEF LoopEnds, TypeOK, SetupCounted
<1>9. CASE SetHookBridged
  <2>1. executes' \in 0..MaxExecutes /\ bridge' \in 0..MaxExecutes
    BY <1>9, ExecutesAssumption DEF SetHookBridged, SchemaIdExecute, TypeOK
  <2>2. [pc |-> "bridge", x |-> executes'] \in TaskState
    BY <2>1 DEF TaskState
  <2>3. task' \in [Flow -> TaskState]
    BY Zenon, <1>9, <2>2, TaskSet DEF SetHookBridged, Flow
  <2> QED BY Zenon, <1>9, <2>1, <2>3 DEF SetHookBridged, TypeOK, SetupCounted
<1>10. CASE BridgeExecutes
  <2>1. task' \in [Flow -> TaskState]
    BY Zenon, <1>10, AtMoves, IdleMoves DEF BridgeExecutes, Flow
  <2> QED BY Zenon, <1>10, <2>1 DEF BridgeExecutes, TypeOK, SetupCounted
<1>11. ASSUME NEW f \in Flow, ExecuteStarts(f) PROVE TypeOK' /\ SetupCounted'
  <2>1. executes' \in 0..MaxExecutes
    BY <1>11, ExecutesAssumption DEF ExecuteStarts, TypeOK
  <2>2. [pc |-> "register", x |-> executes'] \in TaskState
    BY <2>1 DEF TaskState
  <2>3. task' \in [Flow -> TaskState]
    BY Zenon, <1>11, <2>2, TaskSet DEF ExecuteStarts
  <2> QED BY Zenon, <1>11, <2>1, <2>3 DEF ExecuteStarts, TypeOK, SetupCounted
<1>12. ASSUME NEW f \in Flow, Register(f) PROVE TypeOK' /\ SetupCounted'
  <2>1. task' \in [Flow -> TaskState] /\ Unregistered(f)
    BY Zenon, <1>12, AtMoves DEF Register, Unregistered
  <2>2. task[f].x \in Execute
    <3>1. task[f].x \in 1..executes /\ executes \in 0..MaxExecutes
      BY Zenon, <2>1 DEF FreshChannels, TypeOK
    <3> QED BY <3>1, ExecutesAssumption DEF Execute
  <2> QED BY Zenon, <1>12, <2>1, <2>2 DEF Register, TypeOK, SetupCounted
<1>13. ASSUME NEW f \in Flow, SendMsg(f) \/ SendMsgReturns(f) \/ ExecuteEnds(f) \/ Api(f) \/ ApiReturns(f)
       PROVE TypeOK' /\ SetupCounted'
  <2>1. task' \in [Flow -> TaskState]
    BY Zenon, <1>13, AtMoves, IdleMoves DEF SendMsg, SendMsgReturns, ExecuteEnds, Api, ApiReturns
  <2> QED
    BY Zenon, <1>13, <2>1 DEF SendMsg, SendMsgReturns, ExecuteEnds, Api, ApiReturns, TypeOK, SetupCounted
<1>14. CASE OffStarts \/ OffEnds
  <2>1. task' \in [Flow -> TaskState]
    BY Zenon, <1>14, AtMoves DEF OffStarts, OffEnds, Flow
  <2> QED BY Zenon, <1>14, <2>1 DEF OffStarts, OffEnds, TypeOK, SetupCounted
<1>15. CASE PeerReplies
  <2>1. offers' \subseteq Event
    <3>1. Head(out) \in Command(0..MaxExecutes)
      BY Zenon, <1>15, Shortened DEF PeerReplies, Replies, TypeOK, ESTypeOK
    <3>2. Head(out).x # 0 => Head(out).x \in Execute
      BY <3>1 DEF Command, Execute
    <3>3. Head(out).x # 0 => Begun(Head(out).x) \subseteq Event
      BY Zenon, <3>2 DEF Begun, Event
    <3> QED
      BY Zenon, <1>15, <3>3 DEF PeerReplies, TypeOK
  <2> QED BY Zenon, <1>15, <2>1 DEF PeerReplies, TypeOK, SetupCounted
<1>16. CASE PeerFires
  <2>1. offers' \subseteq Event
    BY Zenon, <1>16 DEF PeerFires, TypeOK
  <2> QED BY Zenon, <1>16, <2>1 DEF PeerFires, TypeOK, SetupCounted
<1>17. CASE Reads \/ Garbled \/ PeerShuts \/ UNCHANGED vars
  BY Zenon, <1>17 DEF Reads, Garbled, PeerShuts, vars, callvars, TypeOK, SetupCounted
<1>18. CASE SetSchemaId
  <2>1. executes' \in 0..MaxExecutes
    BY <1>18, ExecutesAssumption DEF SetSchemaId, SchemaIdExecute
  <2>2. [pc |-> "register", x |-> executes'] \in TaskState
    BY <2>1 DEF TaskState
  <2>3. task' \in [Flow -> TaskState]
    BY Zenon, <1>18, <2>2, TaskSet, IdleMoves DEF SetSchemaId, Flow
  <2> QED BY Zenon, <1>18, <2>1, <2>3 DEF SetSchemaId, TypeOK, SetupCounted
<1> QED
  BY Zenon, <1>1, <1>2, <1>3, <1>4, <1>5, <1>6, <1>7, <1>8, <1>9, <1>10, <1>11, <1>12, <1>13, <1>14,
     <1>15, <1>16, <1>17, <1>18 DEF Next, HandleConnection, Call, Runs

\* Steps that touch neither the channels nor the executes yet to be registered.
LEMMA ChannelsLeftAlone ==
  ASSUME FreshChannels, UNCHANGED <<chan, callbackMessages, executes>>,
         \A f \in Flow : Unregistered(f)' => Unregistered(f) /\ task'[f].x = task[f].x
  PROVE  FreshChannels'
BY Zenon DEF FreshChannels

\* A new execute has a number that was not used.
LEMMA NewExecute ==
  ASSUME TypeOK, FreshChannels, NEW f \in Flow, executes' = executes + 1, executes < MaxExecutes,
         UNCHANGED <<chan, callbackMessages>>,
         Unregistered(f)' => task'[f].x = executes',
         \A g \in Flow \ {f} : task'[g] = task[g]
  PROVE  FreshChannels'
<1>1. executes \in Nat /\ executes' \in Execute /\ executes' > executes /\ executes' \in 1..executes'
  BY ExecutesAssumption DEF TypeOK, Execute
<1>2. \A x \in Execute : x > executes' => x > executes
  BY <1>1 DEF Execute
<1>3. chan[executes'] = 0 /\ executes' \notin callbackMessages
  BY Zenon, <1>1 DEF FreshChannels
<1>4. ASSUME NEW g \in Flow \ {f}, Unregistered(g)'
      PROVE  /\ Unregistered(g) /\ task'[g].x \in 1..executes' /\ task'[g].x # executes'
             /\ chan[task'[g].x] = 0 /\ task'[g].x \notin callbackMessages
  <2>1. Unregistered(g) /\ task'[g].x = task[g].x
    BY Zenon, <1>4 DEF Unregistered
  <2>2. task[g].x \in 1..executes /\ chan[task[g].x] = 0 /\ task[g].x \notin callbackMessages
    BY Zenon, <2>1 DEF FreshChannels
  <2>3. task[g].x \in 1..executes' /\ task[g].x # executes'
    BY <1>1, <2>2
  <2> QED BY Zenon, <2>1, <2>2, <2>3
<1>5. \A x \in Execute : x > executes' => chan[x] = 0 /\ x \notin callbackMessages
  BY Zenon, <1>2 DEF FreshChannels
<1>6. \A g, h \in Flow : Unregistered(g)' /\ Unregistered(h)' /\ task'[g].x = task'[h].x => g = h
  BY Zenon, <1>4 DEF FreshChannels
<1>7. ASSUME NEW g \in Flow, Unregistered(g)'
      PROVE  task'[g].x \in 1..executes' /\ chan[task'[g].x] = 0 /\ task'[g].x \notin callbackMessages
  BY Zenon, <1>1, <1>3, <1>4, <1>7
<1>8. \A x \in Execute : chan[x] <= 1 /\ (x \in callbackMessages => chan[x] = 0)
  BY Zenon DEF FreshChannels
<1>9. chan' = chan /\ callbackMessages' = callbackMessages
  OBVIOUS
<1> QED
  BY Zenon, <1>5, <1>6, <1>7, <1>8, <1>9 DEF FreshChannels

\* An execute puts its channel into callbackMessages.
LEMMA RegisterFresh ==
  ASSUME TypeOK, FreshChannels, NEW f \in Flow, Register(f) PROVE FreshChannels'
<1>1. /\ Unregistered(f) /\ ~Unregistered(f)'
      /\ \A g \in Flow \ {f} : task'[g] = task[g]
  BY Zenon, AtMoves DEF Register, Unregistered
<1>2. task[f].x \in 1..executes /\ executes \in Nat /\ chan[task[f].x] = 0
  BY <1>1 DEF FreshChannels, TypeOK
<1>3. \A x \in Execute : x > executes => x # task[f].x
  BY <1>2 DEF Execute
<1>4. callbackMessages' = callbackMessages \cup {task[f].x} /\ chan' = chan /\ executes' = executes
  BY Zenon DEF Register
<1>5. \A g \in Flow : Unregistered(g)' => g # f /\ Unregistered(g) /\ task'[g].x = task[g].x
  BY Zenon, <1>1 DEF Unregistered
<1>6. \A g \in Flow : Unregistered(g)' => task'[g].x # task[f].x
  BY Zenon, <1>1, <1>5 DEF FreshChannels
<1> QED
  BY Zenon, <1>2, <1>3, <1>4, <1>5, <1>6 DEF FreshChannels

\* setEvent uses the channel of an execute and forgets it, and the clean-up
\* does so with all that are left.
LEMMA EventsFresh ==
  ASSUME TypeOK, FreshChannels, SetComplete \/ LoopEnds PROVE FreshChannels'
<1>1. /\ callbackMessages' \subseteq callbackMessages /\ executes' = executes /\ task' = task
      /\ \A x \in Execute :
           \/ chan'[x] = chan[x]
           \/ x \in callbackMessages /\ x \notin callbackMessages' /\ chan'[x] = chan[x] + 1
  <2>1. CASE SetComplete
    <3> PICK x \in Execute : /\ callbackMessages' = callbackMessages \ {x}
                             /\ chan' = IF x \in callbackMessages THEN [chan EXCEPT ![x] = @ + 1] ELSE chan
                             /\ executes' = executes /\ task' = task
      BY Zenon, <2>1 DEF SetComplete
    <3>1. chan \in [Execute -> Nat]
      BY DEF TypeOK
    <3> QED BY <3>1
  <2>2. CASE LoopEnds
    BY Zenon, <2>2 DEF LoopEnds
  <2> QED BY <2>1, <2>2
<1>2. \A f \in Flow : Unregistered(f)' <=> Unregistered(f)
  BY Zenon, <1>1 DEF Unregistered
<1>3. \A f \in Flow : Unregistered(f) => task[f].x \in Execute
  <2>1. executes \in 0..MaxExecutes /\ \A f \in Flow : Unregistered(f) => task[f].x \in 1..executes
    BY Zenon DEF FreshChannels, TypeOK
  <2> QED BY <2>1, ExecutesAssumption DEF Execute
<1>4. \A x \in Execute : chan'[x] <= 1 /\ (x \in callbackMessages' => chan'[x] = 0)
  BY <1>1 DEF FreshChannels
<1>5. \A x \in Execute : x \notin callbackMessages => chan'[x] = chan[x] /\ x \notin callbackMessages'
  BY Zenon, <1>1
<1> QED
  BY Zenon, <1>1, <1>2, <1>3, <1>4, <1>5 DEF FreshChannels

\* Every step of the call keeps the channels fresh.
LEMMA FreshStep ==
  ASSUME TypeOK, FreshChannels, [Next]_vars PROVE FreshChannels'
<1>1. CASE SetupSend \/ SetupReply \/ SetHangup \/ SendExit \/ Exited \/ CloseSocket \/ Cancel
  BY Zenon, <1>1, ChannelsLeftAlone DEF SetupSend, SetupReply, SetHangup, SendExit, Exited, CloseSocket,
     Cancel, Unregistered
<1>2. CASE Reads \/ Garbled \/ PeerReplies \/ PeerFires \/ PeerShuts \/ UNCHANGED vars
  BY Zenon, <1>2, ChannelsLeftAlone DEF Reads, Garbled, PeerReplies, PeerFires, PeerShuts, vars,
     callvars, Unregistered
<1>3. CASE Consume \/ SetBridge
  <2>1. UNCHANGED <<chan, callbackMessages, executes>>
    BY Zenon, <1>3 DEF Consume, SetBridge
  <2>2. \A f \in Flow : task'[f] = task[f] \/ task'[f].pc \in {"start", "idle"}
    BY <1>3 DEF Consume, SetBridge, TypeOK, TaskState, Flow
  <2>3. \A f \in Flow : Unregistered(f)' => Unregistered(f) /\ task'[f].x = task[f].x
    BY Zenon, <2>2 DEF Unregistered
  <2> QED BY Zenon, <2>1, <2>3, ChannelsLeftAlone
<1>4. CASE SetComplete \/ LoopEnds
  BY Zenon, <1>4, EventsFresh
<1>5. CASE SetHookBridged
  <2>1. executes < MaxExecutes /\ executes' \in 0..MaxExecutes
    BY <1>5, ExecutesAssumption DEF SetHookBridged, SchemaIdExecute, TypeOK
  <2>2. [pc |-> "bridge", x |-> executes'] \in TaskState
    BY <2>1 DEF TaskState
  <2>3. task'["schema"].x = executes' /\ \A g \in Flow \ {"schema"} : task'[g] = task[g]
    BY Zenon, <1>5, <2>2, TaskSet DEF SetHookBridged, Flow
  <2> QED BY Zenon, <1>5, <2>1, <2>3, NewExecute DEF SetHookBridged, Flow
<1>6. ASSUME NEW f \in Flow, ExecuteStarts(f) PROVE FreshChannels'
  <2>1. executes < MaxExecutes /\ executes' \in 0..MaxExecutes
    BY <1>6, ExecutesAssumption DEF ExecuteStarts, TypeOK
  <2>2. [pc |-> "register", x |-> executes'] \in TaskState
    BY <2>1 DEF TaskState
  <2>3. task'[f].x = executes' /\ \A g \in Flow \ {f} : task'[g] = task[g]
    BY Zenon, <1>6, <2>2, TaskSet DEF ExecuteStarts
  <2> QED BY Zenon, <1>6, <2>1, <2>3, NewExecute DEF ExecuteStarts
<1>7. ASSUME NEW f \in Flow, Register(f) PROVE FreshChannels'
  BY Zenon, <1>7, RegisterFresh
<1>8. CASE BridgeExecutes
  <2>1. UNCHANGED <<chan, callbackMessages, executes>>
    BY Zenon, <1>8 DEF BridgeExecutes
  <2>2. /\ task'["schema"].pc = "idle" \/ (task["schema"].pc = "bridge" /\ task'["schema"].x = task["schema"].x)
        /\ \A g \in Flow \ {"schema"} : task'[g] = task[g]
    BY Zenon, <1>8, AtMoves, IdleMoves DEF BridgeExecutes, Flow
  <2>3. \A f \in Flow : Unregistered(f)' => Unregistered(f) /\ task'[f].x = task[f].x
    BY Zenon, <2>2 DEF Unregistered
  <2> QED BY Zenon, <2>1, <2>3, ChannelsLeftAlone
<1>9. ASSUME NEW f \in Flow, SendMsg(f) \/ SendMsgReturns(f) \/ ExecuteEnds(f) \/ Api(f) \/ ApiReturns(f)
      PROVE  FreshChannels'
  <2>1. UNCHANGED <<chan, callbackMessages, executes>>
    BY Zenon, <1>9 DEF SendMsg, SendMsgReturns, ExecuteEnds, Api, ApiReturns
  <2>2. /\ task'[f].pc \in {"idle", "sending", "await", "api"}
        /\ \A g \in Flow \ {f} : task'[g] = task[g]
    BY Zenon, <1>9, AtMoves, IdleMoves DEF SendMsg, SendMsgReturns, ExecuteEnds, Api, ApiReturns
  <2>3. \A g \in Flow : Unregistered(g)' => Unregistered(g) /\ task'[g].x = task[g].x
    BY Zenon, <2>2 DEF Unregistered
  <2> QED BY Zenon, <2>1, <2>3, ChannelsLeftAlone
<1>10. CASE OffStarts \/ OffEnds
  <2>1. UNCHANGED <<chan, callbackMessages, executes>>
    BY Zenon, <1>10 DEF OffStarts, OffEnds
  <2>2. task'["off"].pc \in {"idle", "end"} /\ \A g \in Flow \ {"off"} : task'[g] = task[g]
    BY Zenon, <1>10, AtMoves DEF OffStarts, OffEnds, Flow
  <2>3. \A g \in Flow : Unregistered(g)' => Unregistered(g) /\ task'[g].x = task[g].x
    BY Zenon, <2>2 DEF Unregistered
  <2> QED BY Zenon, <2>1, <2>3, ChannelsLeftAlone
<1>11. CASE SetSchemaId
  <2>1. executes' = executes + 1 /\ executes < MaxExecutes /\ executes' \in 0..MaxExecutes
    BY <1>11, ExecutesAssumption DEF SetSchemaId, SchemaIdExecute
  <2>2. [pc |-> "register", x |-> executes'] \in TaskState
    BY <2>1 DEF TaskState
  <2>3. /\ task'["schema"].pc = "idle" \/ task'["schema"].x = executes'
        /\ \A g \in Flow \ {"schema"} : task'[g] = task[g]
    <3>0. "schema" \in Flow
      BY DEF Flow
    <3>1. CASE Idle("schema", "start")
      BY Zenon, <3>0, <3>1, IdleMoves
    <3>2. CASE task' = [task EXCEPT !["schema"] = [pc |-> "register", x |-> executes']]
      <4>1. /\ task'["schema"] = [pc |-> "register", x |-> executes']
            /\ \A g \in Flow \ {"schema"} : task'[g] = task[g]
        BY Zenon, <2>2, <3>0, <3>2, TaskSet
      <4> QED BY <4>1
    <3> QED BY Zenon, <1>11, <3>1, <3>2 DEF SetSchemaId
  <2>4. Unregistered("schema")' => task'["schema"].x = executes'
    BY Zenon, <2>3 DEF Unregistered
  <2> QED BY Zenon, <1>11, <2>1, <2>3, <2>4, NewExecute DEF SetSchemaId, Flow
<1> QED
  BY Zenon, <1>1, <1>2, <1>3, <1>4, <1>5, <1>6, <1>7, <1>8, <1>9, <1>10, <1>11
     DEF Next, HandleConnection, Call, Runs

\* handleConnection moves on, and the trigger with it or not at all.
LEMMA OverLoop ==
  ASSUME TypeOK, Over, HandleConnection, sock = "closed" => sock' = "closed" PROVE Over'
<1>1. task'["off"] = task["off"]
  <2>1. CASE Consume \/ SetBridge
    BY <2>1 DEF Consume, SetBridge, TypeOK, Flow
  <2>2. CASE task' = task
    BY <2>2
  <2> QED
    BY Zenon, <2>1, <2>2 DEF HandleConnection, SetupSend, SetupReply, SetComplete, SetHangup, SendExit,
       Exited, LoopEnds, CloseSocket, Cancel
<1>2. ASSUME /\ loop'.pc \in {"cancel", "done"} => sock' = "closed"
             /\ ctx' = "done" => Locked' \/ stopped' = "yes" \/ loop'.pc = "done"
             /\ ctx = "done" => ctx' = "done"
      PROVE  Over'
  BY Zenon, <1>1, <1>2 DEF Over
<1>3. CASE SetupSend \/ SetupReply \/ Consume
  <2>1. loop'.pc \in {"setup", "failed", "consume", "read"} /\ UNCHANGED <<ctx, stopped>>
        /\ loop.pc \in {"setup", "consume"}
    BY <1>3, LoopMoves DEF SetupSend, SetupReply, Consume
  <2> QED BY Zenon, <1>2, <2>1 DEF Over, Locked
<1>4. CASE SetComplete \/ SetBridge
  <2>1. UNCHANGED <<loop, ctx, stopped>>
    BY Zenon, <1>4 DEF SetComplete, SetBridge
  <2> QED BY Zenon, <1>2, <2>1 DEF Over, Locked
<1>5. CASE SetHangup
  <2>1. loop'.pc = "hangup" /\ ctx' = "done"
    BY Zenon, <1>5, LoopMoves DEF SetHangup
  <2> QED BY Zenon, <1>2, <2>1 DEF Locked
<1>6. CASE SendExit \/ Exited
  <2>1. loop'.pc = "exit" \/ (loop'.pc = "read" /\ stopped' = "yes")
    BY Zenon, <1>6, LoopMoves DEF SendExit, Exited
  <2>2. ctx' = ctx
    BY Zenon, <1>6 DEF SendExit, Exited
  <2> QED BY Zenon, <1>2, <2>1, <2>2 DEF Locked
<1>7. CASE LoopEnds
  <2>1. loop.pc = "read" /\ loop'.pc = "close" /\ UNCHANGED <<ctx, stopped>>
    BY Zenon, <1>7, LoopMoves DEF LoopEnds
  <2> QED BY Zenon, <1>2, <2>1 DEF Over, Locked
<1>8. CASE CloseSocket
  <2>1. loop.pc = "close" /\ loop'.pc = "cancel" /\ sock' = "closed" /\ UNCHANGED <<ctx, stopped>>
    BY Zenon, <1>8, LoopMoves DEF CloseSocket, Close, Closed
  <2> QED BY Zenon, <1>2, <2>1 DEF Over, Locked
<1>9. CASE Cancel
  <2>1. loop.pc = "cancel" /\ loop'.pc = "done" /\ ctx' = "done"
    BY Zenon, <1>9, LoopMoves DEF Cancel
  <2> QED BY Zenon, <1>2, <2>1 DEF Over
<1> QED
  BY Zenon, <1>3, <1>4, <1>5, <1>6, <1>7, <1>8, <1>9 DEF HandleConnection

\* The trigger cannot write to the socket once its execute is past the check.
LEMMA OverOff ==
  ASSUME TypeOK, Over, Call("off") \/ Runs("off"), sock = "closed" => sock' = "closed" PROVE Over'
<1>0. "off" \in Flow
  BY DEF Flow
<1>1. ASSUME UNCHANGED <<loop, ctx, stopped>>, ctx = "done",
             task'["off"].pc \in {"none", "idle", "register", "send", "api", "end"},
             task'["off"].pc \in {"register", "send"} => sock' = "closed"
      PROVE  Over'
  BY Zenon, <1>1 DEF Over, Locked
<1>2. CASE ExecuteStarts("off")
  <2>1. UNCHANGED <<loop, ctx, stopped>> /\ task["off"].pc # "none" /\ ~Locked /\ stopped # "yes"
    BY Zenon, <1>2 DEF ExecuteStarts
  <2>2. ctx = "done" /\ sock' = "closed"
    BY Zenon, <2>1 DEF Over
  <2>3. task'["off"].pc = "register"
    BY <1>0, <1>2 DEF ExecuteStarts, TypeOK
  <2> QED BY Zenon, <1>1, <2>1, <2>2, <2>3
<1>3. CASE Register("off")
  <2>1. task["off"].pc = "register" /\ task'["off"].pc = "send" /\ UNCHANGED <<loop, ctx, stopped>>
    BY Zenon, <1>0, <1>3, AtMoves DEF Register
  <2> QED BY Zenon, <1>1, <2>1 DEF Over
<1>4. CASE SendMsg("off")
  <2>1. task["off"].pc = "send"
    BY Zenon, <1>4 DEF SendMsg, At, Idle
  <2>2. sock = "closed" /\ ctx = "done"
    BY Zenon, <2>1 DEF Over
  <2>3. Idle("off", "send") /\ UNCHANGED <<loop, ctx, stopped>>
    BY Zenon, <1>4, <2>2 DEF SendMsg, Write
  <2>4. task'["off"].pc = "idle"
    BY Zenon, <1>0, <2>3, IdleMoves
  <2> QED BY Zenon, <1>1, <2>2, <2>3, <2>4
<1>5. CASE SendMsgReturns("off") \/ ExecuteEnds("off")
  <2>1. task["off"].pc \in {"sending", "await"}
    BY Zenon, <1>5 DEF SendMsgReturns, ExecuteEnds, At, Idle
  <2> QED BY Zenon, <2>1 DEF Over
<1>6. CASE Api("off") \/ ApiReturns("off")
  <2>1. task["off"].pc \in {"idle", "api"} /\ task'["off"].pc \in {"idle", "api"}
    BY Zenon, <1>0, <1>6, AtMoves, IdleMoves DEF Api, ApiReturns
  <2>2. UNCHANGED <<loop, ctx, stopped>>
    BY Zenon, <1>6 DEF Api, ApiReturns
  <2> QED BY Zenon, <1>1, <2>1, <2>2 DEF Over
<1>7. CASE OffStarts \/ OffEnds
  <2>1. task'["off"].pc \in {"idle", "end"} /\ (ctx = "done" \/ task["off"].pc = "idle")
    BY Zenon, <1>0, <1>7, AtMoves DEF OffStarts, OffEnds
  <2>2. UNCHANGED <<loop, ctx, stopped>>
    BY Zenon, <1>7 DEF OffStarts, OffEnds
  <2> QED BY Zenon, <1>1, <2>1, <2>2 DEF Over
<1> QED
  BY Zenon, <1>2, <1>3, <1>4, <1>5, <1>6, <1>7 DEF Call, Runs

\* Every step of the call keeps what holds once the call is over.
LEMMA OverStep ==
  ASSUME TypeOK, Over, [Next]_vars, sock = "closed" => sock' = "closed" PROVE Over'
<1>0. "schema" \in Flow /\ "off" \in Flow
  BY DEF Flow
<1>1. ASSUME UNCHANGED <<loop, ctx, stopped>>, task'["off"] = task["off"] PROVE Over'
  BY Zenon, <1>1 DEF Over, Locked
<1>2. ASSUME NEW f \in Flow \ {"off"}, Call(f) \/ Runs(f) PROVE Over'
  <2>1. UNCHANGED <<loop, ctx, stopped>>
    BY Zenon, <1>2 DEF Call, Runs, ExecuteStarts, Api, Register, SendMsg, SendMsgReturns, ExecuteEnds,
       ApiReturns, SetSchemaId, BridgeExecutes
  <2>2. task'["off"] = task["off"]
    <3>1. \E t : task' = [task EXCEPT ![f] = t]
      BY Zenon, <1>2 DEF Call, Runs, ExecuteStarts, Api, Register, SendMsg, SendMsgReturns, ExecuteEnds,
         ApiReturns, SetSchemaId, BridgeExecutes, At, Idle
    <3> QED BY <1>0, <3>1 DEF TypeOK
  <2> QED BY Zenon, <1>1, <2>1, <2>2
<1>3. CASE SetHookBridged
  BY <1>0, <1>1, <1>3 DEF SetHookBridged, TypeOK
<1>4. CASE Reads \/ Garbled \/ PeerReplies \/ PeerFires \/ PeerShuts \/ UNCHANGED vars
  BY Zenon, <1>1, <1>4 DEF Reads, Garbled, PeerReplies, PeerFires, PeerShuts, vars, callvars
<1> QED
  BY Zenon, <1>2, <1>3, <1>4, OverLoop, OverOff DEF Next

-----------------------------------------------------------------------------
(* The theorems. *)

FsCallInv == SocketInv /\ CallInv

\* The connection begins with the invariant.
LEMMA FsCallInvInit == Init => FsCallInv
<1> SUFFICES ASSUME Init PROVE FsCallInv
  OBVIOUS
<1>1. ChannelsOK
  <2>1. NoRequest \in Request
    BY DEF NoRequest, Kind, Request
  <2>2. req \in [Sender -> Request]
    BY Zenon, <2>1 DEF Init, ESInit
  <2>3. Len(<<>>) <= 1 /\ Len(<<>>) <= EventsBuffer
    BY BufferAssumption
  <2>4. sent \in Nat
    BY DEF Init, ESInit
  <2> QED
    BY Zenon, <2>2, <2>3, <2>4, EmptyQueue DEF Init, ESInit, ChannelsOK, ESTypeOK
<1>2. TypeOK
  <2>1. loop \in LoopState /\ task \in [Flow -> TaskState] /\ chan \in [Execute -> Nat]
    BY ExecutesAssumption DEF Init, LoopState, TaskState
  <2>2. executes \in 0..MaxExecutes /\ bridge \in 0..MaxExecutes
    BY ExecutesAssumption DEF Init
  <2> QED
    BY Zenon, <1>1, <2>1, <2>2 DEF Init, TypeOK, ChannelsOK, Event
<1>3. SetupCounted
  BY DEF Init, SetupCounted
<1>4. FreshChannels
  BY DEF Init, FreshChannels, Unregistered
<1>5. Over
  BY DEF Init, Over, Flow
<1>6. EofIsLast
  BY PacketKinds DEF Init, ESInit, EofIsLast
<1>7. OneAnswer /\ LastCommand /\ crossed = "no"
  <2>1. ~InOut /\ ~InReader /\ ~InErr /\ crossed = "no"
    BY Zenon, PacketKinds DEF Init, ESInit, InOut, InReader, InErr
  <2>2. 1..Len(wire) = {} /\ Len(out) <= 1
    BY DEF Init, ESInit
  <2>3. \A s \in Sender : ~Waits(s)
    BY Zenon DEF Init, ESInit, Waits, NoRequest
  <2> QED BY Zenon, <2>1, <2>2, <2>3 DEF OneAnswer, LastCommand, InWire
<1> QED
  BY Zenon, <1>1, <1>2, <1>3, <1>4, <1>5, <1>6, <1>7 DEF FsCallInv, SocketInv, CallInv

\* Every step keeps it.
LEMMA FsCallInvStep == FsCallInv /\ [Next]_vars => FsCallInv'
<1> SUFFICES ASSUME FsCallInv, [Next]_vars PROVE FsCallInv'
  OBVIOUS
<1>1. SocketStep
  BY Zenon, NextIsSocketStep DEF FsCallInv, CallInv
<1>2. SocketInv'
  BY Zenon, <1>1, SocketInvStep DEF FsCallInv
<1>3. CallInv'
  BY Zenon, <1>1, <1>2, ClosedForGood, CallTypeStep, FreshStep, OverStep DEF FsCallInv, CallInv, SocketInv
<1> QED BY Zenon, <1>2, <1>3 DEF FsCallInv

\* The invariant holds throughout.
LEMMA FsCallInvariant == Spec => []FsCallInv
BY FsCallInvInit, FsCallInvStep, PTL DEF Spec

\* The channels of the socket and the state of the call keep their shapes: in
\* particular err never holds two errors, and evt no more than eventsBuffer.
THEOREM CallTypes == Spec => []TypeOK
<1>1. FsCallInv => TypeOK
  BY Zenon DEF FsCallInv, CallInv
<1> QED BY <1>1, FsCallInvariant, PTL

\* As long as commands wait one at a time and none of them times out, Send and
\* SendMsg return the reply to their own command, although nothing in a reply
\* names it.
THEOREM CommandsMatched == Spec => []RepliesMatch
<1>1. FsCallInv => RepliesMatch
  BY Zenon DEF FsCallInv, SocketInv, RepliesMatch
<1> QED BY <1>1, FsCallInvariant, PTL

\* setEvent and the clean-up of handleConnection use the channel of an execute
\* once between them, however events, hangups and flows interleave.
THEOREM ChannelUsedOnce == Spec => []ChannelOnce
<1>1. FsCallInv => ChannelOnce
  BY Zenon DEF FsCallInv, CallInv, FreshChannels, ChannelOnce
<1> QED BY <1>1, FsCallInvariant, PTL

\* No execute of the disconnected trigger gets out to FreeSWITCH: executeWithContext
\* refuses it, or the socket is closed.
THEOREM NothingAfterHangup == Spec => []NoExecuteAfterHangup
<1>1. FsCallInv => NoExecuteAfterHangup
  BY DEF FsCallInv, CallInv, Over, NoExecuteAfterHangup
<1> QED BY <1>1, FsCallInvariant, PTL

=============================================================================
