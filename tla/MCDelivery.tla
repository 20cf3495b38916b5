----------------------------- MODULE MCDelivery -----------------------------
(* Delivery on small instances: the topology auth-service ships, and the   *)
(* same with the consumed queue bound to the retry exchange.               *)
EXTENDS Delivery, AuthTopology, TLC

\* The retry of a user.created message is published to the retry exchange with
\* the routing key it was delivered with.
AuthRetryRouted ==
  "user_created_queue" \in RoutedTo("retry_exchange", "user.created")

AuthRetryDelayed == ExchangeType["retry_exchange"] = "x-delayed-message"

Default == [noAck |-> FALSE, maxRetries |-> 0]
OneRetry == [noAck |-> FALSE, maxRetries |-> 1]
NoRetry == [noAck |-> FALSE, maxRetries |-> -1]
AutoAck == [noAck |-> TRUE, maxRetries |-> 0]

EveryOption == {Default, NoRetry, AutoAck}
ManualOptions == {Default, NoRetry}
RetryOptions == {Default, OneRetry, AutoAck}
JustDefault == {Default}
JustOneRetry == {OneRetry}
JustAutoAck == {AutoAck}

Symmetry == Permutations(Slots)
=============================================================================
