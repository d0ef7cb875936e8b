---------------------------- MODULE MCFlowSuspend ----------------------------
EXTENDS FlowSuspend

\* Everything a schema can wait for, at the top and in functions.
MCProgram ==
  [main |-> <<"app", "recvMessage", "f", "joinQueue", "g", "app">>,
   f |-> <<"app", "recvMessage", "app">>,
   g |-> <<"interactiveMenu", "break", "app">>]

\* A function that joins a queue.
MCQueueInFunction ==
  [main |-> <<"f", "app">>, f |-> <<"joinQueue", "app">>]

=============================================================================
