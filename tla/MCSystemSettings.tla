--------------------------- MODULE MCSystemSettings --------------------------
(* Calls and settings have nothing in common behind the client of the      *)
(* broker, so that a behaviour follows one of them.                        *)
EXTENDS SystemSettings

VARIABLE traffic   \* what is followed

mcVars == <<traffic, allVars>>

MCInit == SettingsInit /\ traffic \in {"calls", "settings"}

MCNext ==
  /\ exited = "no"
  /\ \/ ClientStep
     \/ traffic = "calls" /\ CallStep
     \/ traffic = "settings" /\ SettingsStep
  /\ UNCHANGED traffic

\* Steps that are taken in the end.
Run(step) == exited = "no" /\ step /\ UNCHANGED traffic

\* Goroutines run and entries expire; nothing has to be published, to be read
\* or to fail.
MCSpec ==
  /\ MCInit /\ [][MCNext]_mcVars
  /\ WF_mcVars(Run(BrokerGoroutines /\ LoseQueues))
  /\ WF_mcVars(Run(Listens)) /\ WF_mcVars(Run(Expire))
  /\ \A r \in Readers : WF_mcVars(Run(Reads(r)))
====
