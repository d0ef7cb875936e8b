----------------------------- MODULE MCImControl -----------------------------
(* ImControl for TLC, with a bound on the events the listener receives and *)
(* the connections the store drops.  Connection objects are                *)
(* interchangeable: First is the first one used.                           *)
EXTENDS ImControl

CONSTANTS MaxEvents, First

VARIABLE events

mcvars == <<vars, events>>

MCInit == Init /\ events = 0

Event == events < MaxEvents /\ LisEvent /\ events' = events + 1 /\ UNCHANGED evicted

Control == LisControl /\ UNCHANGED <<evicted, events>>

Run(c) == Schema(c) /\ UNCHANGED <<evicted, events>>

Choice(c) == SchemaChoice(c) /\ UNCHANGED <<evicted, events>>

Drop == events < MaxEvents /\ (\E s \in Session : Evict(s)) /\ events' = events + 1

FirstUsed == gor[First].pc # "none" \/ \A c \in Conns : gor[c].pc = "none"

MCNext ==
  /\ Event \/ Control \/ Drop \/ \E c \in Conns : Run(c) \/ Choice(c)
  /\ FirstUsed'

\* As in FairSpec, the goroutines run and events need not arrive.
MCSpec ==
  /\ MCInit /\ [][MCNext]_mcvars
  /\ WF_mcvars(Control)
  /\ \A c \in Conns : WF_mcvars(Run(c))

=============================================================================
