---------------------------- MODULE MCConnection ----------------------------
(* Connection with the configuration of auth-service, one whose queues     *)
(* alone ask for a direct connection, one with bindings and nothing to     *)
(* bind, and an empty one.                                                 *)
EXTENDS Connection

AuthConfig ==
  [exchanges |-> {"topic", "x-delayed-message"}, queues |-> {FALSE, TRUE}, bindings |-> TRUE]
QueuesOnly == [exchanges |-> {}, queues |-> {TRUE}, bindings |-> FALSE]
BindingsOnly == [exchanges |-> {}, queues |-> {}, bindings |-> TRUE]
Empty == [exchanges |-> {}, queues |-> {}, bindings |-> FALSE]

AllConfigs == {AuthConfig, QueuesOnly, BindingsOnly, Empty}
=============================================================================
